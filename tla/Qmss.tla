-------------------------------- MODULE Qmss --------------------------------
(***************************************************************************)
(* The queue manager subsystem as main.c sets it up and as the functions   *)
(* of QueueFun.h use it: hardware queues of packet descriptors, pushed to, *)
(* popped from, drained and diverted by several DSP cores, and a packet    *)
(* DMA that takes a packet from a transmit queue, copies it to a free      *)
(* receive descriptor and returns the transmit descriptor.                 *)
(*                                                                         *)
(* Abstracted: the packet length that register C carries is named by the   *)
(* descriptor it belongs to.  The queue manager, the packet DMA and the    *)
(* application that circulates the descriptors are external.               *)
(***************************************************************************)
EXTENDS Integers, Sequences, Functions

CONSTANTS
  Cores,
  HostTx, HostRx, MonoTx, MonoRx, \* arrays of descriptors, as main.c divides them
  NoSize,    \* register C was not written
  NULL,      \* what a pop of an empty queue returns
  MaxCalls   \* bound: how many calls the cores make together

Desc == Range(HostTx) \cup Range(HostRx) \cup Range(MonoTx) \cup Range(MonoRx)

(* The index ranges of the four loops of main() do not overlap. *)
Arrays == <<HostTx, HostRx, MonoTx, MonoRx>>

ASSUME QmssAssumption ==
  /\ \A i \in 1 .. 4 : Arrays[i] \in Seq(Range(Arrays[i])) /\ IsInjective(Arrays[i])
  /\ \A i, j \in 1 .. 4 : i # j => Range(Arrays[i]) \cap Range(Arrays[j]) = {}
  /\ NULL \notin Desc \cup Cores /\ NoSize \notin Desc
  /\ MaxCalls \in Nat

Channel == {0, 1}

(* The transmit queues of the DMA are wired to its channels. *)
TxQueue(ch) == 800 + ch

(* Mutant of QmMap. *)
QmMapSwapped == <<0, 7000, 5000>>

(* What main.c writes into the registers of the DMA. *)
QmMap == <<0, 5000, 7000>>
FlowA == <<67109576, 135004192>>   \* 0x040002c8, 0x080c0020
FlowD == <<536879104, 536944641>>  \* 0x20002000, 0x20012001

(* How the DMA reads them: a logical queue manager has a base, to which a  *)
(* queue number is relative.                                               *)
Physical(qmgr, qnum) == QmMap[qmgr + 1] + qnum
Bits12 == 4096
Field(w, at, n) == (w \div at) % n \* at and n: 1 shifted by position and width
DestOf(f) == Physical(Field(FlowA[f + 1], Bits12, 4), Field(FlowA[f + 1], 1, Bits12))
TypeOf(f) == Field(FlowA[f + 1], 67108864, 4)
FreeOf(f) == Physical(Field(FlowD[f + 1], 268435456, 4), Field(FlowD[f + 1], 65536, Bits12))

(* pkt_return_qmgr and pkt_return_qnum of a transmit descriptor. *)
ReturnOf(d) == Physical(1, IF d \in Range(HostTx) THEN 0 ELSE 1)

(* Mutant of FilledWith: the ranges overlap. *)
FilledOverlapping(q) ==
  CASE q = 5000 -> HostTx [] q = 5001 -> MonoTx
    [] q = 7000 -> <<HostTx[Len(HostTx)]>> \o HostRx [] q = 7001 -> MonoRx [] OTHER -> <<>>

(* The descriptors main.c pushes to each queue, in order. *)
FilledWith(q) == CASE q = 5000 -> HostTx [] q = 5001 -> MonoTx
                   [] q = 7000 -> HostRx [] q = 7001 -> MonoRx [] OTHER -> <<>>

Queue == {5000, 5001, 7000, 7001, 712, 32} \cup {TxQueue(ch) : ch \in Channel}

(* The queues between which a descriptor circulates, the one the packets   *)
(* wait in last; the application moves it accordingly.                     *)
Circuit == {<<5000, 800>>, <<5001, 801>>, <<7000, 712>>, <<7001, 32>>}
CircuitOf(d) == CHOOSE r \in Circuit : d \in Range(FilledWith(r[1]))
Legal(d, q) == q \in Range(CircuitOf(d)) /\ q \notin {712, 32}

VARIABLES
  stage,   \* how far main() is: "reset", "filled", "configured", "enabled"
  queue,   \* queue[q]: entries [d, c, sized]: descriptor, length, whether it has one
  latch,   \* latch[q]: what was written to register C of q, for the next D
  atomic,  \* USE_VBUSM is defined: C and D are written by one 64-bit store
  dma,     \* dma[ch]: the descriptors the channel has taken: <<>> or <<tx, rx>>
  held,    \* held[c]: descriptors core c owns
  dropped, \* descriptors popped by empty_queue without a list
  pc, qn, desc, keep, count, list, \* the cores' calls and their locals
  calls

(* Observation only: *)
VARIABLES
  seen,    \* the queue when empty_queue read its count
  touched, \* some other actor has changed it since
  overlap  \* a queue was written between some other core's writes of C and D

locals == <<qn, desc, keep, count, list>>
vars == <<stage, queue, latch, atomic, dma, held, dropped, pc, locals, calls, seen, touched, overlap>>

(* Mutant of Entry: the two registers are swapped. *)
EntrySwapped(d, c, sized) == [d |-> c, c |-> d, sized |-> sized]

Entry(d, c, sized) == [d |-> d, c |-> c, sized |-> sized]

(* The actor (a core, or NULL for the hardware) changes these queues. *)
Touches(actor, qs) ==
  touched' = [c \in Cores |-> touched[c] \/ (c # actor /\ pc[c] = "drain" /\ qn[c] \in qs)]

-----------------------------------------------------------------------------
Init ==
  /\ stage = "reset"
  /\ queue = [q \in Queue |-> <<>>]
  /\ latch = [q \in Queue |-> NoSize]
  /\ atomic \in BOOLEAN
  /\ dma = [ch \in Channel |-> <<>>]
  /\ held = [c \in Cores |-> {}] /\ dropped = {}
  /\ pc = [c \in Cores |-> "idle"]
  /\ qn = [c \in Cores |-> 0]
  /\ desc = [c \in Cores |-> NULL]
  /\ keep = [c \in Cores |-> TRUE]
  /\ count = [c \in Cores |-> 0]
  /\ list = [c \in Cores |-> <<>>]
  /\ calls = 0
  /\ seen = [c \in Cores |-> <<>>]
  /\ touched = [c \in Cores |-> FALSE]
  /\ overlap = FALSE

(* main(): fill the free queues, *)
Fill ==
  /\ stage = "reset" /\ stage' = "filled"
  /\ queue' = [q \in Queue |->
                 [i \in DOMAIN FilledWith(q) |-> Entry(FilledWith(q)[i], NoSize, FALSE)]]
  /\ UNCHANGED <<latch, atomic, dma, held, dropped, pc, locals, calls, seen, touched, overlap>>

(* program the queue map and the flows, enable the channels. *)
Proceed(from, to) ==
  /\ stage = from /\ stage' = to
  /\ UNCHANGED <<queue, latch, atomic, dma, held, dropped, pc, locals, calls, seen, touched, overlap>>
Configure == Proceed("filled", "configured")
EnableChannels == Proceed("configured", "enabled")

-----------------------------------------------------------------------------
(* The call returns; its locals are gone. *)
Return(c) ==
  /\ pc' = [pc EXCEPT ![c] = "idle"]
  /\ qn' = [qn EXCEPT ![c] = 0] /\ desc' = [desc EXCEPT ![c] = NULL]
  /\ keep' = [keep EXCEPT ![c] = TRUE] /\ count' = [count EXCEPT ![c] = 0]
  /\ list' = [list EXCEPT ![c] = <<>>] /\ seen' = [seen EXCEPT ![c] = <<>>]

Call(c) == stage = "enabled" /\ pc[c] = "idle" /\ calls < MaxCalls /\ calls' = calls + 1

(* Somebody else is between the writes of C and D to this queue. *)
Interferes(c, q) == \E o \in Cores \ {c} : pc[o] = "pushd" /\ qn[o] = q

(* Write register D: the descriptor joins the queue with what C holds. *)
WriteD(c, q, d, size, sized) ==
  /\ queue' = [queue EXCEPT ![q] = Append(@, Entry(d, size, sized))]
  /\ latch' = [latch EXCEPT ![q] = NoSize]
  /\ held' = [held EXCEPT ![c] = @ \ {d}]
  /\ overlap' = (overlap \/ Interferes(c, q))
  /\ Touches(c, {q})

(* push_queue with mode 1, and with mode 2 where one store does it. *)
Push(c, q, d, mode) ==
  /\ Call(c) /\ d \in held[c] /\ Legal(d, q)
  /\ mode = 2 => atomic
  /\ WriteD(c, q, d, IF mode = 2 THEN d ELSE latch[q], mode = 2)
  /\ UNCHANGED <<stage, atomic, dma, dropped, pc, locals, seen>>

(* Mutant of PushC: register C of queue 0 is written. *)
PushNoC(c, q, d) ==
  /\ Call(c) /\ d \in held[c] /\ Legal(d, q) /\ ~atomic
  /\ pc' = [pc EXCEPT ![c] = "pushd"]
  /\ qn' = [qn EXCEPT ![c] = q] /\ desc' = [desc EXCEPT ![c] = d]
  /\ overlap' = (overlap \/ Interferes(c, q))
  /\ UNCHANGED <<stage, queue, latch, atomic, dma, held, dropped, keep, count, list, seen, touched>>

(* push_queue with mode 2 otherwise: C first, then D. *)
PushC(c, q, d) ==
  /\ Call(c) /\ d \in held[c] /\ Legal(d, q) /\ ~atomic
  /\ latch' = [latch EXCEPT ![q] = d]
  /\ pc' = [pc EXCEPT ![c] = "pushd"]
  /\ qn' = [qn EXCEPT ![c] = q] /\ desc' = [desc EXCEPT ![c] = d]
  /\ overlap' = (overlap \/ Interferes(c, q))
  /\ UNCHANGED <<stage, queue, atomic, dma, held, dropped, keep, count, list, seen, touched>>

PushD(c) ==
  /\ pc[c] = "pushd"
  /\ WriteD(c, qn[c], desc[c], latch[qn[c]], TRUE)
  /\ Return(c)
  /\ UNCHANGED <<stage, atomic, dma, dropped, calls>>

(* pop_queue *)
Pop(c, q) ==
  /\ Call(c) /\ queue[q] # <<>>
  /\ held' = [held EXCEPT ![c] = @ \cup {Head(queue[q]).d}]
  /\ queue' = [queue EXCEPT ![q] = Tail(@)]
  /\ Touches(c, {q})
  /\ UNCHANGED <<stage, latch, atomic, dma, dropped, pc, locals, seen, overlap>>

(* divert_queue: one register write, without effect on an empty source. *)
Divert(c, src, dest, headtail) ==
  /\ Call(c) /\ queue[src] # <<>>
  /\ queue' = [queue EXCEPT ![src] = <<>>,
                            ![dest] = IF headtail = 1 THEN queue[src] \o @ ELSE @ \o queue[src]]
  /\ Touches(c, {src, dest})
  /\ UNCHANGED <<stage, latch, atomic, dma, held, dropped, pc, locals, seen, overlap>>

(* empty_queue reads the count once ... *)
EmptyQueue(c, q, list_given) ==
  /\ Call(c)
  /\ pc' = [pc EXCEPT ![c] = "drain"]
  /\ qn' = [qn EXCEPT ![c] = q]
  /\ count' = [count EXCEPT ![c] = Len(queue[q])]
  /\ keep' = [keep EXCEPT ![c] = list_given]
  /\ list' = [list EXCEPT ![c] = <<>>]
  /\ seen' = [seen EXCEPT ![c] = queue[q]]
  /\ touched' = [touched EXCEPT ![c] = FALSE]
  /\ UNCHANGED <<stage, queue, latch, atomic, dma, held, dropped, desc, overlap>>

(* Mutant of MorePops: the bound is one too low. *)
MorePopsShort(c) == Len(list[c]) + 1 < count[c]

(* ... and pops as many, *)
MorePops(c) == Len(list[c]) < count[c]

Drain(c) ==
  /\ pc[c] = "drain" /\ MorePops(c)
  /\ LET q == qn[c]
         value == IF queue[q] = <<>> THEN NULL ELSE Head(queue[q]).d
     IN
     /\ list' = [list EXCEPT ![c] = Append(@, value)]
     /\ queue' = [queue EXCEPT ![q] = IF @ = <<>> THEN @ ELSE Tail(@)]
     /\ Touches(c, {q})
  /\ UNCHANGED <<stage, latch, atomic, dma, held, dropped, pc, qn, desc, keep, count,
                 calls, seen, overlap>>

(* and returns the list and the count, if it was given a list. *)
Drained(c) ==
  /\ pc[c] = "drain" /\ ~MorePops(c)
  /\ LET popped == Range(list[c]) \ {NULL} IN
     IF keep[c]
     THEN held' = [held EXCEPT ![c] = @ \cup popped] /\ UNCHANGED dropped
     ELSE dropped' = dropped \cup popped /\ UNCHANGED held
  /\ Return(c)
  /\ touched' = [touched EXCEPT ![c] = FALSE]
  /\ UNCHANGED <<stage, queue, latch, atomic, dma, calls, overlap>>

-----------------------------------------------------------------------------
(* The DMA takes a packet and a free descriptor ... *)
Fetch(ch) ==
  LET tx == TxQueue(ch) free == FreeOf(ch) IN
  /\ stage = "enabled" /\ dma[ch] = <<>>
  /\ queue[tx] # <<>> /\ queue[free] # <<>>
  /\ dma' = [dma EXCEPT ![ch] = <<Head(queue[tx]).d, Head(queue[free]).d>>]
  /\ queue' = [queue EXCEPT ![tx] = Tail(@), ![free] = Tail(@)]
  /\ Touches(NULL, {tx, free})
  /\ UNCHANGED <<stage, latch, atomic, held, dropped, pc, locals, calls, seen, overlap>>

(* ... and pushes both, the received packet with its length. *)
Deliver(ch) ==
  /\ dma[ch] # <<>>
  /\ LET tx == dma[ch][1] rx == dma[ch][2] IN
     /\ queue' = [queue EXCEPT ![ReturnOf(tx)] = Append(@, Entry(tx, NoSize, FALSE)),
                               ![DestOf(ch)] = Append(@, Entry(rx, rx, TRUE))]
     /\ Touches(NULL, {ReturnOf(tx), DestOf(ch)})
  /\ dma' = [dma EXCEPT ![ch] = <<>>]
  /\ UNCHANGED <<stage, latch, atomic, held, dropped, pc, locals, calls, seen, overlap>>

Next ==
  \/ Fill \/ Configure \/ EnableChannels
  \/ \E c \in Cores :
       \/ \E q \in Queue :
            \/ Pop(c, q)
            \/ \E given \in BOOLEAN : EmptyQueue(c, q, given)
            \/ \E d \in held[c] : PushC(c, q, d) \/ \E mode \in {1, 2} : Push(c, q, d, mode)
       \/ \E r \in Circuit, headtail \in {0, 1} :
            Divert(c, r[1], r[2], headtail) \/ Divert(c, r[2], r[1], headtail)
       \/ PushD(c) \/ Drain(c) \/ Drained(c)
  \/ \E ch \in Channel : Fetch(ch) \/ Deliver(ch)

Spec == Init /\ [][Next]_vars

-----------------------------------------------------------------------------
TypeOK ==
  /\ stage \in {"reset", "filled", "configured", "enabled"}
  /\ queue \in [Queue -> Seq([d : Desc, c : Desc \cup {NoSize}, sized : BOOLEAN])]
  /\ latch \in [Queue -> Desc \cup {NoSize}]
  /\ atomic \in BOOLEAN
  /\ dma \in [Channel -> {<<>>} \cup Desc \X Desc]
  /\ held \in [Cores -> SUBSET Desc] /\ dropped \subseteq Desc
  /\ pc \in [Cores -> {"idle", "pushd", "drain"}]
  /\ qn \in [Cores -> Queue \cup {0}]
  /\ desc \in [Cores -> Desc \cup {NULL}]
  /\ keep \in [Cores -> BOOLEAN]
  /\ count \in [Cores -> Nat]
  /\ list \in [Cores -> Seq(Desc \cup {NULL})]
  /\ calls \in 0 .. MaxCalls

(* The places a descriptor can be in: on a queue, at a channel of the DMA, *)
(* on the list of a drain that is under way, owned by a core, dropped.     *)
Place ==
  ({"queue"} \X Queue) \cup ({"dma"} \X Channel) \cup ({"list", "held"} \X Cores) \cup {<<"dropped", NULL>>}
Content(p) ==
  CASE p[1] = "queue" -> [i \in DOMAIN queue[p[2]] |-> queue[p[2]][i].d]
    [] p[1] = "dma" -> dma[p[2]]
    [] p[1] = "list" -> RestrictValues(list[p[2]], LAMBDA d : d # NULL)
    [] p[1] = "held" -> [d \in held[p[2]] |-> d]
    [] p[1] = "dropped" -> [d \in dropped |-> d]
Slots == UNION {{p} \X DOMAIN Content(p) : p \in Place}

(* A descriptor is never lost or in two places, or twice in one, whoever   *)
(* pushes, pops, drains and diverts the same queues at the same time: in   *)
(* main() because the index ranges of the four loops are disjoint.         *)
Conserved ==
  stage # "reset" =>
    /\ \A d \in Desc : \E s \in Slots : Content(s[1])[s[2]] = d
    /\ \A s, t \in Slots : Content(s[1])[s[2]] = Content(t[1])[t[2]] => s = t

(* The numbers main.c writes into descriptors, map and flows agree: every  *)
(* descriptor stays on the queues of its kind and purpose, and each flow   *)
(* takes free descriptors of the type it is configured for.                *)
KindsSeparate ==
  /\ \A r \in Circuit : \A q \in Range(r) :
       {e.d : e \in Range(queue[q])} \subseteq Range(FilledWith(r[1]))
  /\ \A ch \in Channel : dma[ch] # <<>> =>
       TypeOf(ch) = IF dma[ch][2] \in Range(HostRx) THEN 1 ELSE 2

(* A packet has the length it was pushed with: with USE_VBUSM always       *)
(* ("allows for atomic c+d pushes", QueueFun.h:50), otherwise unless two   *)
(* cores have pushed to the same queue at the same time.                   *)
SizesMatch ==
  atomic \/ ~overlap =>
    \A q \in Queue : \A i \in DOMAIN queue[q] :
      queue[q][i].c = IF queue[q][i].sized THEN queue[q][i].d ELSE NoSize

(* "pops a queue until it is empty ... return the list of descriptor       *)
(* addresses and the count" (QueueFun.h:106), when nobody else uses it.    *)
DrainIsComplete ==
  \A c \in Cores : pc[c] = "drain" /\ ~MorePops(c) /\ ~touched[c] =>
    /\ queue[qn[c]] = <<>>
    /\ list[c] = [i \in DOMAIN seen[c] |-> seen[c][i].d]
=============================================================================
