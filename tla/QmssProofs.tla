----------------------------- MODULE QmssProofs -----------------------------
(***************************************************************************)
(* Theorems about Qmss, for any number of cores, descriptors and calls:    *)
(* descriptors have their types and stay on the queues of their kind, keep *)
(* the packet length they were pushed with and are never lost or in two    *)
(* places, and an undisturbed drain is complete.                           *)
(***************************************************************************)
EXTENDS Qmss, TLAPS

(* The descriptors that may be on a queue: those of its circuit. *)
Kind(q) ==
  IF q \in {5000, 800} THEN Range(HostTx) ELSE IF q \in {5001, 801} THEN Range(MonoTx)
  ELSE IF q \in {7000, 712} THEN Range(HostRx) ELSE Range(MonoRx)

(* The entries that may be on a queue: with their own length or none, as   *)
(* long as no two cores have written the registers of a queue at once.     *)
AnyEntry(q) == [d : Kind(q), c : Desc \cup {NoSize}, sized : BOOLEAN]
Right(e) == e.c = IF e.sized THEN e.d ELSE NoSize
Member(q) == IF atomic \/ ~ overlap THEN {e \in AnyEntry(q) : Right(e)} ELSE AnyEntry(q)

-----------------------------------------------------------------------------
(* Sequences, ranges and the numbers of main.c *)

LEMMA SeqSubset == ASSUME NEW A, NEW B, A \subseteq B, NEW s \in Seq(A) PROVE s \in Seq(B)
  OBVIOUS

LEMMA SeqHead ==
  ASSUME NEW A, NEW s \in Seq(A), s # <<>>
  PROVE  Head(s) \in A /\ Tail(s) \in Seq(A)
  OBVIOUS

LEMMA SeqAppend == ASSUME NEW A, NEW s \in Seq(A), NEW e \in A PROVE Append(s, e) \in Seq(A)
  OBVIOUS

LEMMA SeqConcat == ASSUME NEW A, NEW s \in Seq(A), NEW t \in Seq(A) PROVE s \o t \in Seq(A)
  OBVIOUS

LEMMA SeqFun == ASSUME NEW A, NEW n \in Nat, NEW s \in [1 .. n -> A] PROVE s \in Seq(A)
  OBVIOUS

LEMMA PairRange == ASSUME NEW x, NEW y PROVE Range(<<x, y>>) = {x, y}
  BY DEF Range

LEMMA QueueNumbers == Queue = {5000, 5001, 7000, 7001, 712, 32, 800, 801}
  BY DEF Queue, TxQueue, Channel

LEMMA FlowNumbers ==
  /\ FreeOf(0) = 7000 /\ FreeOf(1) = 7001
  /\ DestOf(0) = 712 /\ DestOf(1) = 32
  /\ TypeOf(0) = 1 /\ TypeOf(1) = 2
  /\ TxQueue(0) = 800 /\ TxQueue(1) = 801
  BY DEF FreeOf, DestOf, TypeOf, TxQueue, Physical, QmMap, FlowA, FlowD, Field, Bits12

LEMMA Disjoint ==
  /\ Range(HostTx) \cap Range(HostRx) = {} /\ Range(HostTx) \cap Range(MonoTx) = {}
  /\ Range(HostTx) \cap Range(MonoRx) = {} /\ Range(HostRx) \cap Range(MonoTx) = {}
  /\ Range(HostRx) \cap Range(MonoRx) = {} /\ Range(MonoTx) \cap Range(MonoRx) = {}
  BY QmssAssumption DEF Arrays

LEMMA ArraysAreSeqs ==
  /\ HostTx \in Seq(Range(HostTx)) /\ HostRx \in Seq(Range(HostRx))
  /\ MonoTx \in Seq(Range(MonoTx)) /\ MonoRx \in Seq(Range(MonoRx))
  BY QmssAssumption DEF Arrays

LEMMA Filled ==
  /\ FilledWith(5000) = HostTx /\ FilledWith(5001) = MonoTx
  /\ FilledWith(7000) = HostRx /\ FilledWith(7001) = MonoRx
  /\ \A q \in {712, 32, 800, 801} : FilledWith(q) = <<>>
  BY DEF FilledWith

LEMMA CircuitKind ==
  ASSUME NEW r \in Circuit
  PROVE  /\ r[1] \in Queue /\ r[2] \in Queue /\ Range(r) = {r[1], r[2]}
         /\ Range(FilledWith(r[1])) = Kind(r[1]) /\ Kind(r[1]) = Kind(r[2])
  <1>1. r \in {<<5000, 800>>, <<5001, 801>>, <<7000, 712>>, <<7001, 32>>}
    BY DEF Circuit
  <1>2. Range(r) = {r[1], r[2]}
    BY <1>1, PairRange
  <1>3. QED BY <1>1, <1>2, Filled, QueueNumbers DEF Kind

LEMMA KindInDesc == \A q : Kind(q) \subseteq Desc
  BY DEF Kind, Desc

LEMMA LegalKind ==
  ASSUME NEW d \in Desc, NEW q, Legal(d, q)
  PROVE  q \in Queue /\ d \in Kind(q)
  <1>1. \E r \in Circuit : d \in Range(FilledWith(r[1]))
    BY Filled DEF Desc, Circuit
  <1>2. CircuitOf(d) \in Circuit /\ d \in Range(FilledWith(CircuitOf(d)[1]))
    BY <1>1 DEF CircuitOf
  <1>3. q \in Range(CircuitOf(d))
    BY DEF Legal
  <1>4. QED BY <1>2, <1>3, CircuitKind

LEMMA ReturnKind ==
  /\ \A d \in Range(HostTx) : ReturnOf(d) = 5000
  /\ \A d \in Range(MonoTx) : ReturnOf(d) = 5001
  BY Disjoint DEF ReturnOf, Physical, QmMap

-----------------------------------------------------------------------------
(* The inductive invariant *)

Item == [d : Desc, c : Desc \cup {NoSize}, sized : BOOLEAN]

QueueInv == \A q \in Queue : queue[q] \in Seq(Member(q))

(* A channel holds a packet of its transmit queue and a free descriptor    *)
(* for it.                                                                 *)
DmaInv ==
  \A ch \in Channel :
    dma[ch] # <<>> => dma[ch][1] \in Kind(TxQueue(ch)) /\ dma[ch][2] \in Kind(FreeOf(ch))

Pushing(c, q) == pc[c] = "pushd" /\ qn[c] = q

CallInv ==
  \A c \in Cores :
    /\ pc[c] = "drain" => qn[c] \in Queue
    /\ pc[c] = "pushd" => ~ atomic /\ qn[c] \in Queue /\ desc[c] \in Kind(qn[c])

(* Between its two writes a core is the only one to use the registers of   *)
(* its queue, and register C holds its length; otherwise C is empty.       *)
LatchInv ==
  /\ atomic => \A q \in Queue : latch[q] = NoSize
  /\ ~ overlap =>
       /\ \A q \in Queue : latch[q] # NoSize => \E c \in Cores : Pushing(c, q)
       /\ \A c \in Cores : pc[c] = "pushd" =>
            /\ latch[qn[c]] = desc[c]
            /\ \A o \in Cores \ {c} : ~ Pushing(o, qn[c])

IInv == TypeOK /\ QueueInv /\ DmaInv /\ CallInv /\ LatchInv

LEMMA MemberItem == \A q : Member(q) \subseteq Item
  BY KindInDesc DEF Member, AnyEntry, Item

LEMMA QueueTypeNext ==
  ASSUME QueueInv', queue' = [q \in Queue |-> queue'[q]]
  PROVE  queue' \in [Queue -> Seq(Item)]
  <1>1. \A q \in Queue : Member(q)' \subseteq Item
    BY KindInDesc DEF Member, AnyEntry, Item
  <1>2. \A q \in Queue : queue'[q] \in Seq(Item)
    BY <1>1, SeqSubset DEF QueueInv
  <1>3. QED BY <1>2

(* What may be on a queue does not become less. *)
LEMMA MemberGrows ==
  ASSUME UNCHANGED atomic, overlap => overlap', NEW q
  PROVE  /\ Member(q) \subseteq Member(q)'
         /\ \A s \in Seq(Member(q)) : s \in Seq(Member(q)')
  <1>1. Member(q) \subseteq Member(q)'
    BY DEF Member, AnyEntry, Right
  <1>2. QED BY <1>1, SeqSubset

LEMMA MemberDesc == \A q : \A e \in Member(q) : e.d \in Kind(q)
  BY DEF Member, AnyEntry

LEMMA InitIInv == Init => IInv
  <1> SUFFICES ASSUME Init PROVE IInv
    OBVIOUS
  <1>1. /\ queue = [q \in Queue |-> <<>>] /\ pc = [c \in Cores |-> "idle"]
        /\ dma = [ch \in Channel |-> <<>>] /\ latch = [q \in Queue |-> NoSize]
    BY DEF Init
  <1>2. QueueInv /\ DmaInv /\ CallInv /\ LatchInv
    BY <1>1 DEF QueueInv, DmaInv, CallInv, LatchInv
  <1>3. TypeOK
    BY QmssAssumption DEF Init, TypeOK
  <1>4. QED BY <1>2, <1>3 DEF IInv

(* The parts of the invariant that only speak of variables unchanged. *)
LEMMA DmaStays == ASSUME DmaInv, UNCHANGED dma PROVE DmaInv'
  BY DEF DmaInv
LEMMA CallStays == ASSUME CallInv, UNCHANGED <<pc, qn, desc, atomic>> PROVE CallInv'
  BY DEF CallInv
LEMMA LatchStays == ASSUME LatchInv, UNCHANGED <<pc, qn, desc, atomic, latch, overlap>> PROVE LatchInv'
  BY DEF LatchInv, Pushing
LEMMA QueuesStay ==
  ASSUME QueueInv, UNCHANGED <<queue, atomic>>, overlap => overlap'
  PROVE  QueueInv'
  BY MemberGrows DEF QueueInv

LEMMA SetUp == ASSUME IInv, Fill \/ Configure \/ EnableChannels PROVE IInv'
  <1>1. UNCHANGED <<latch, atomic, dma, held, dropped, pc, qn, desc, keep, count, list, calls, overlap>>
    BY DEF Fill, Configure, EnableChannels, Proceed, locals
  <1>2. QueueInv'
    <2>1. CASE Fill
      <3>1. ASSUME NEW q \in Queue PROVE queue'[q] \in Seq(Member(q)')
        <4>1. queue'[q] = [i \in DOMAIN FilledWith(q) |-> Entry(FilledWith(q)[i], NoSize, FALSE)]
          BY <2>1 DEF Fill
        <4>2. FilledWith(q) \in Seq(Kind(q))
          <5>1. q \in {5000, 5001, 7000, 7001} \/ q \in {712, 32, 800, 801}
            BY QueueNumbers
          <5>2. CASE q \in {5000, 5001, 7000, 7001}
            BY <5>2, Filled, ArraysAreSeqs DEF Kind
          <5>3. CASE q \in {712, 32, 800, 801}
            <6>1. FilledWith(q) = <<>>
              BY <5>3, Filled
            <6>2. QED BY <6>1
          <5>4. QED BY <5>1, <5>2, <5>3
        <4>3. \A d \in Kind(q) : Entry(d, NoSize, FALSE) \in Member(q)'
          BY DEF Entry, Member, AnyEntry, Right
        <4>4. /\ DOMAIN FilledWith(q) = 1 .. Len(FilledWith(q)) /\ Len(FilledWith(q)) \in Nat
              /\ \A i \in 1 .. Len(FilledWith(q)) : FilledWith(q)[i] \in Kind(q)
          BY <4>2
        <4>5. queue'[q] = [i \in 1 .. Len(FilledWith(q)) |-> Entry(FilledWith(q)[i], NoSize, FALSE)]
          BY <4>1, <4>4
        <4>6. queue'[q] \in [1 .. Len(FilledWith(q)) -> Member(q)']
          BY <4>3, <4>4, <4>5
        <4>7. QED BY <4>4, <4>6, SeqFun
      <3>2. QED BY <3>1 DEF QueueInv
    <2>2. CASE Configure \/ EnableChannels
      BY <1>1, <2>2, QueuesStay DEF Configure, EnableChannels, Proceed, IInv
    <2>3. QED BY <2>1, <2>2
  <1>3. queue' \in [Queue -> Seq(Item)]
    <2>1. queue' = [q \in Queue |-> queue'[q]]
      BY DEF Fill, Configure, EnableChannels, Proceed, IInv, TypeOK
    <2>2. QED BY <1>2, <2>1, QueueTypeNext
  <1>4. TypeOK'
    BY <1>1, <1>3 DEF Fill, Configure, EnableChannels, Proceed, IInv, TypeOK, Item
  <1>5. QED BY <1>1, <1>2, <1>4, DmaStays, CallStays, LatchStays DEF IInv

-----------------------------------------------------------------------------
(* The steps of the cores and of the DMA *)

(* A step that leaves a queue alone or gives it entries it may have. *)
LEMMA QueueNext ==
  ASSUME QueueInv, UNCHANGED atomic, overlap => overlap',
         queue' = [q \in Queue |-> queue'[q]],
         \A q \in Queue : queue'[q] = queue[q] \/ queue'[q] \in Seq(Member(q)')
  PROVE  QueueInv' /\ queue' \in [Queue -> Seq(Item)]
  <1>1. QueueInv'
    BY MemberGrows DEF QueueInv
  <1>2. QED BY <1>1, QueueTypeNext

LEMMA Popping ==
  ASSUME IInv, NEW q \in Queue, queue[q] # <<>>
  PROVE  /\ Head(queue[q]).d \in Kind(q) /\ Head(queue[q]).d \in Desc
         /\ Tail(queue[q]) \in Seq(Member(q))
  <1>1. queue[q] \in Seq(Member(q))
    BY DEF IInv, QueueInv
  <1>2. Head(queue[q]) \in Member(q) /\ Tail(queue[q]) \in Seq(Member(q))
    BY <1>1, SeqHead
  <1>3. QED BY <1>2, MemberDesc, KindInDesc

LEMMA WritingD ==
  ASSUME IInv, NEW c \in Cores, NEW q \in Queue, NEW d \in Kind(q),
         NEW size \in Desc \cup {NoSize}, NEW sized \in BOOLEAN,
         WriteD(c, q, d, size, sized), UNCHANGED atomic,
         atomic \/ ~ overlap' => Right(Entry(d, size, sized))
  PROVE  QueueInv' /\ queue' \in [Queue -> Seq(Item)]
  <1>1. queue' = [queue EXCEPT ![q] = Append(queue[q], Entry(d, size, sized))]
    BY DEF WriteD
  <1>2. overlap => overlap'
    BY DEF WriteD
  <1>3. queue[q] \in Seq(Member(q)')
    BY <1>2, MemberGrows DEF IInv, QueueInv
  <1>4. Entry(d, size, sized) \in Member(q)'
    BY DEF Entry, Member, AnyEntry, Right
  <1>5. Append(queue[q], Entry(d, size, sized)) \in Seq(Member(q)')
    BY <1>3, <1>4, SeqAppend
  <1>6. DOMAIN queue = Queue
    BY DEF IInv, TypeOK
  <1>7. queue' = [r \in Queue |-> queue'[r]]
    BY <1>1, <1>6
  <1>8. \A r \in Queue : queue'[r] = queue[r] \/ queue'[r] \in Seq(Member(r)')
    BY <1>1, <1>5, <1>6
  <1>9. QED BY <1>2, <1>7, <1>8, QueueNext DEF IInv

LEMMA PushKeeps ==
  ASSUME IInv, NEW c \in Cores, NEW q \in Queue, NEW d \in held[c], NEW mode \in {1, 2},
         Push(c, q, d, mode)
  PROVE  IInv'
  <1> DEFINE size == IF mode = 2 THEN d ELSE latch[q]
  <1>1. d \in Desc /\ d \in Kind(q)
    <2>1. d \in Desc
      BY DEF IInv, TypeOK
    <2>2. QED BY <2>1, LegalKind DEF Push
  <1>2. /\ UNCHANGED <<stage, atomic, dma, dropped, pc, qn, desc, keep, count, list>>
        /\ calls' = calls + 1 /\ calls < MaxCalls /\ pc[c] = "idle"
        /\ WriteD(c, q, d, size, mode = 2) /\ (mode = 2 => atomic)
    BY DEF Push, Call, locals
  <1>3. size \in Desc \cup {NoSize}
    BY <1>1 DEF IInv, TypeOK
  <1>4. ASSUME ~ overlap' PROVE latch[q] = NoSize /\ ~ overlap /\ \A o \in Cores : ~ Pushing(o, q)
    <2>1. ~ overlap /\ ~ Interferes(c, q)
      BY <1>2, <1>4 DEF WriteD
    <2>2. \A o \in Cores : ~ Pushing(o, q)
      BY <2>1, <1>2 DEF Interferes, Pushing
    <2>3. QED BY <2>1, <2>2 DEF IInv, LatchInv
  <1>5. atomic \/ ~ overlap' => Right(Entry(d, size, mode = 2))
    <2>1. CASE mode = 2
      BY <2>1 DEF Right, Entry
    <2>2. CASE mode = 1
      BY <2>2, <1>4 DEF Right, Entry, IInv, LatchInv
    <2>3. QED BY <2>1, <2>2
  <1>6. QueueInv' /\ queue' \in [Queue -> Seq(Item)]
    <2> HIDE DEF size
    <2>1. (mode = 2) \in BOOLEAN
      OBVIOUS
    <2>2. QED BY <1>1, <1>2, <1>3, <1>5, <2>1, WritingD
  <1>7. LatchInv'
    <2>1. latch' = [latch EXCEPT ![q] = NoSize] /\ (overlap => overlap')
      BY <1>2 DEF WriteD
    <2>2. DOMAIN latch = Queue
      BY DEF IInv, TypeOK
    <2>3. QED BY <1>2, <1>4, <2>1, <2>2 DEF IInv, LatchInv, Pushing, CallInv
  <1>8. latch' \in [Queue -> Desc \cup {NoSize}] /\ held' \in [Cores -> SUBSET Desc]
    BY <1>2 DEF WriteD, IInv, TypeOK
  <1>9. TypeOK'
    <2>1. calls' \in 0 .. MaxCalls
      BY <1>2, QmssAssumption DEF IInv, TypeOK
    <2>2. QED BY <1>2, <1>6, <1>8, <2>1 DEF IInv, TypeOK, Item
  <1>10. QED BY <1>2, <1>6, <1>7, <1>9, DmaStays, CallStays DEF IInv

LEMMA PushCKeeps ==
  ASSUME IInv, NEW c \in Cores, NEW q \in Queue, NEW d \in held[c], PushC(c, q, d)
  PROVE  IInv'
  <1>1. d \in Desc /\ d \in Kind(q)
    <2>1. d \in Desc
      BY DEF IInv, TypeOK
    <2>2. QED BY <2>1, LegalKind DEF PushC
  <1>2. /\ UNCHANGED <<stage, queue, atomic, dma, held, dropped, keep, count, list>>
        /\ calls' = calls + 1 /\ calls < MaxCalls /\ pc[c] = "idle" /\ ~ atomic
        /\ latch' = [latch EXCEPT ![q] = d] /\ pc' = [pc EXCEPT ![c] = "pushd"]
        /\ qn' = [qn EXCEPT ![c] = q] /\ desc' = [desc EXCEPT ![c] = d]
        /\ overlap' = (overlap \/ Interferes(c, q))
    BY DEF PushC, Call
  <1>3. DOMAIN latch = Queue /\ DOMAIN pc = Cores /\ DOMAIN qn = Cores /\ DOMAIN desc = Cores
    BY DEF IInv, TypeOK
  <1>4. QueueInv'
    BY <1>2, QueuesStay DEF IInv
  <1>5. CallInv'
    BY <1>1, <1>2, <1>3 DEF IInv, CallInv
  <1>6. LatchInv'
    <2> SUFFICES ASSUME ~ overlap' PROVE
          /\ \A r \in Queue : latch'[r] # NoSize => \E o \in Cores : Pushing(o, r)'
          /\ \A o \in Cores : pc'[o] = "pushd" =>
               /\ latch'[qn'[o]] = desc'[o]
               /\ \A p \in Cores \ {o} : ~ (pc'[p] = "pushd" /\ qn'[p] = qn'[o])
      BY <1>2 DEF LatchInv, Pushing
    <2>1. ~ overlap /\ ~ Interferes(c, q)
      BY <1>2
    <2>2. /\ \A r \in Queue : latch[r] # NoSize => \E o \in Cores : Pushing(o, r)
          /\ \A o \in Cores : pc[o] = "pushd" =>
               latch[qn[o]] = desc[o] /\ \A p \in Cores \ {o} : ~ Pushing(p, qn[o])
      BY <2>1 DEF IInv, LatchInv
    <2>3. \A o \in Cores \ {c} : pc'[o] = pc[o] /\ qn'[o] = qn[o] /\ desc'[o] = desc[o]
      BY <1>2, <1>3
    <2>4. pc'[c] = "pushd" /\ qn'[c] = q /\ desc'[c] = d
      BY <1>2, <1>3
    <2>5. \A o \in Cores \ {c} : pc[o] = "pushd" => qn[o] # q /\ qn[o] \in Queue
      BY <2>1 DEF Interferes, IInv, CallInv
    <2>6. ASSUME NEW r \in Queue, latch'[r] # NoSize PROVE \E o \in Cores : Pushing(o, r)'
      <3>1. CASE r = q
        BY <3>1, <2>4 DEF Pushing
      <3>2. CASE r # q
        <4>1. latch[r] # NoSize
          BY <3>2, <2>6, <1>2, <1>3
        <4>2. PICK o \in Cores : Pushing(o, r)
          BY <4>1, <2>2
        <4>3. o # c
          BY <4>2, <1>2 DEF Pushing
        <4>4. QED BY <4>2, <4>3, <2>3 DEF Pushing
      <3>3. QED BY <3>1, <3>2
    <2>7. ASSUME NEW o \in Cores, pc'[o] = "pushd"
          PROVE  /\ latch'[qn'[o]] = desc'[o]
                 /\ \A p \in Cores \ {o} : ~ (pc'[p] = "pushd" /\ qn'[p] = qn'[o])
      <3>1. CASE o = c
        BY <3>1, <2>3, <2>4, <2>5, <1>2, <1>3
      <3>2. CASE o # c
        BY <3>2, <2>2, <2>3, <2>4, <2>5, <2>7, <1>2, <1>3 DEF Pushing
      <3>3. QED BY <3>1, <3>2
    <2>8. QED BY <2>6, <2>7
  <1>7. TypeOK'
    <2>1. calls' \in 0 .. MaxCalls
      BY <1>2, QmssAssumption DEF IInv, TypeOK
    <2>2. /\ latch' \in [Queue -> Desc \cup {NoSize}] /\ qn' \in [Cores -> Queue \cup {0}]
          /\ desc' \in [Cores -> Desc \cup {NULL}] /\ pc' \in [Cores -> {"idle", "pushd", "drain"}]
      BY <1>1, <1>2 DEF IInv, TypeOK
    <2>3. QED BY <1>2, <2>1, <2>2 DEF IInv, TypeOK
  <1>8. QED BY <1>2, <1>4, <1>5, <1>6, <1>7, DmaStays DEF IInv

(* A call that returns leaves its locals as they were before calls. *)
LEMMA Returning ==
  ASSUME TypeOK, NEW c \in Cores, Return(c)
  PROVE  /\ pc' \in [Cores -> {"idle", "pushd", "drain"}] /\ qn' \in [Cores -> Queue \cup {0}]
         /\ desc' \in [Cores -> Desc \cup {NULL}] /\ keep' \in [Cores -> BOOLEAN]
         /\ count' \in [Cores -> Nat] /\ list' \in [Cores -> Seq(Desc \cup {NULL})]
         /\ pc'[c] = "idle"
         /\ \A o \in Cores \ {c} : pc'[o] = pc[o] /\ qn'[o] = qn[o] /\ desc'[o] = desc[o]
  BY DEF Return, TypeOK

LEMMA PushDKeeps == ASSUME IInv, NEW c \in Cores, PushD(c) PROVE IInv'
  <1> DEFINE q == qn[c]
             d == desc[c]
  <1>1. ~ atomic /\ q \in Queue /\ d \in Kind(q) /\ d \in Desc
    BY KindInDesc DEF PushD, IInv, CallInv
  <1>2. /\ UNCHANGED <<stage, atomic, dma, dropped, calls>>
        /\ pc[c] = "pushd" /\ WriteD(c, q, d, latch[q], TRUE) /\ Return(c)
    BY DEF PushD
  <1>3. latch[q] \in Desc \cup {NoSize}
    BY <1>1 DEF IInv, TypeOK
  <1>4. ~ overlap' => latch[q] = d /\ ~ overlap /\ ~ Interferes(c, q)
    BY <1>2 DEF WriteD, IInv, LatchInv
  <1>5. QueueInv' /\ queue' \in [Queue -> Seq(Item)]
    <2>1. atomic \/ ~ overlap' => Right(Entry(d, latch[q], TRUE))
      BY <1>1, <1>4 DEF Right, Entry
    <2> HIDE DEF q, d
    <2>2. QED BY <1>1, <1>2, <1>3, <2>1, WritingD
  <1>6. /\ pc' \in [Cores -> {"idle", "pushd", "drain"}] /\ qn' \in [Cores -> Queue \cup {0}]
        /\ desc' \in [Cores -> Desc \cup {NULL}] /\ keep' \in [Cores -> BOOLEAN]
        /\ count' \in [Cores -> Nat] /\ list' \in [Cores -> Seq(Desc \cup {NULL})]
        /\ pc'[c] = "idle"
        /\ \A o \in Cores \ {c} : pc'[o] = pc[o] /\ qn'[o] = qn[o] /\ desc'[o] = desc[o]
    BY <1>2, Returning DEF IInv
  <1>7. CallInv'
    BY <1>2, <1>6 DEF IInv, CallInv
  <1>8. LatchInv'
    <2>1. latch' = [latch EXCEPT ![q] = NoSize] /\ DOMAIN latch = Queue
      BY <1>2 DEF WriteD, IInv, TypeOK
    <2> SUFFICES ASSUME ~ overlap' PROVE
          /\ \A r \in Queue : latch'[r] # NoSize => \E o \in Cores : pc'[o] = "pushd" /\ qn'[o] = r
          /\ \A o \in Cores : pc'[o] = "pushd" =>
               /\ latch'[qn'[o]] = desc'[o]
               /\ \A p \in Cores \ {o} : ~ (pc'[p] = "pushd" /\ qn'[p] = qn'[o])
      BY <1>1, <1>2 DEF LatchInv, Pushing
    <2>2. /\ \A r \in Queue : latch[r] # NoSize => \E o \in Cores : pc[o] = "pushd" /\ qn[o] = r
          /\ \A o \in Cores : pc[o] = "pushd" =>
               /\ latch[qn[o]] = desc[o]
               /\ \A p \in Cores \ {o} : ~ (pc[p] = "pushd" /\ qn[p] = qn[o])
      BY <1>4 DEF IInv, LatchInv, Pushing
    <2>3. \A o \in Cores \ {c} : pc[o] = "pushd" => qn[o] # q /\ qn[o] \in Queue
      BY <1>4 DEF Interferes, IInv, CallInv
    <2>4. ASSUME NEW r \in Queue, latch'[r] # NoSize
          PROVE  \E o \in Cores : pc'[o] = "pushd" /\ qn'[o] = r
      <3>1. r # q /\ latch[r] # NoSize
        BY <2>1, <2>4
      <3>2. PICK o \in Cores : pc[o] = "pushd" /\ qn[o] = r
        BY <3>1, <2>2
      <3>3. QED BY <3>1, <3>2, <1>6
    <2>5. ASSUME NEW o \in Cores, pc'[o] = "pushd"
          PROVE  /\ latch'[qn'[o]] = desc'[o]
                 /\ \A p \in Cores \ {o} : ~ (pc'[p] = "pushd" /\ qn'[p] = qn'[o])
      <3>1. o # c
        BY <2>5, <1>6
      <3>2. pc[o] = "pushd" /\ qn'[o] = qn[o] /\ desc'[o] = desc[o] /\ qn[o] \in Queue /\ qn[o] # q
        BY <3>1, <2>3, <2>5, <1>6
      <3>3. latch'[qn'[o]] = desc'[o]
        <4>1. latch'[qn[o]] = latch[qn[o]]
          BY <3>2, <2>1
        <4>2. QED BY <4>1, <3>2, <2>2
      <3>4. ASSUME NEW p \in Cores \ {o}, pc'[p] = "pushd", qn'[p] = qn'[o] PROVE FALSE
        <4>1. p # c
          BY <3>4, <1>6
        <4>2. pc[p] = "pushd" /\ qn[p] = qn[o]
          BY <4>1, <3>2, <3>4, <1>6
        <4>3. QED BY <4>2, <3>2, <2>2
      <3>5. QED BY <3>3, <3>4
    <2>6. QED BY <2>4, <2>5
  <1>9. TypeOK'
    <2>1. latch' \in [Queue -> Desc \cup {NoSize}] /\ held' \in [Cores -> SUBSET Desc]
      BY <1>2 DEF WriteD, IInv, TypeOK
    <2>2. QED BY <1>2, <1>5, <1>6, <2>1 DEF IInv, TypeOK, Item
  <1>10. QED BY <1>2, <1>5, <1>7, <1>8, <1>9, DmaStays DEF IInv

LEMMA PopKeeps == ASSUME IInv, NEW c \in Cores, NEW q \in Queue, Pop(c, q) PROVE IInv'
  <1>1. /\ UNCHANGED <<stage, latch, atomic, dma, dropped, pc, qn, desc, keep, count, list, overlap>>
        /\ calls' = calls + 1 /\ calls < MaxCalls /\ queue[q] # <<>>
        /\ queue' = [queue EXCEPT ![q] = Tail(queue[q])]
        /\ held' = [held EXCEPT ![c] = held[c] \cup {Head(queue[q]).d}]
    BY DEF Pop, Call, locals
  <1>2. Head(queue[q]).d \in Desc /\ Tail(queue[q]) \in Seq(Member(q)')
    BY <1>1, Popping, MemberGrows
  <1>3. QueueInv' /\ queue' \in [Queue -> Seq(Item)]
    <2>1. DOMAIN queue = Queue
      BY DEF IInv, TypeOK
    <2>2. queue' = [r \in Queue |-> queue'[r]]
      BY <1>1, <2>1
    <2>3. \A r \in Queue : queue'[r] = queue[r] \/ queue'[r] \in Seq(Member(r)')
      BY <1>1, <1>2, <2>1
    <2>4. QED BY <1>1, <2>2, <2>3, QueueNext DEF IInv
  <1>4. TypeOK'
    <2>1. calls' \in 0 .. MaxCalls
      BY <1>1, QmssAssumption DEF IInv, TypeOK
    <2>2. held' \in [Cores -> SUBSET Desc]
      BY <1>1, <1>2 DEF IInv, TypeOK
    <2>3. QED BY <1>1, <1>3, <2>1, <2>2 DEF IInv, TypeOK, Item
  <1>5. QED BY <1>1, <1>3, <1>4, DmaStays, CallStays, LatchStays DEF IInv

LEMMA DivertKeeps ==
  ASSUME IInv, NEW c \in Cores, NEW src \in Queue, NEW dest \in Queue, NEW headtail \in {0, 1},
         src # dest, Kind(src) = Kind(dest), Divert(c, src, dest, headtail)
  PROVE  IInv'
  <1> DEFINE both == IF headtail = 1 THEN queue[src] \o queue[dest] ELSE queue[dest] \o queue[src]
  <1>1. /\ UNCHANGED <<stage, latch, atomic, dma, held, dropped, pc, qn, desc, keep, count, list, overlap>>
        /\ calls' = calls + 1 /\ calls < MaxCalls
    BY DEF Divert, Call, locals
  <1>2. DOMAIN queue = Queue
    BY DEF IInv, TypeOK
  <1>3. queue' = [queue EXCEPT ![src] = <<>>, ![dest] = both]
    BY <1>2 DEF Divert
  <1>4. queue[src] \in Seq(Member(dest)) /\ queue[dest] \in Seq(Member(dest))
    <2>1. Member(src) = Member(dest)
      BY DEF Member, AnyEntry
    <2>2. QED BY <2>1 DEF IInv, QueueInv
  <1>5. both \in Seq(Member(dest)')
    <2>1. both \in Seq(Member(dest))
      BY <1>4, SeqConcat
    <2> HIDE DEF both
    <2>2. QED BY <1>1, <2>1, MemberGrows
  <1>6. QueueInv' /\ queue' \in [Queue -> Seq(Item)]
    <2> HIDE DEF both
    <2>1. queue' = [r \in Queue |-> queue'[r]]
      BY <1>2, <1>3
    <2>2. <<>> \in Seq(Member(src)')
      OBVIOUS
    <2>3. \A r \in Queue : queue'[r] = queue[r] \/ queue'[r] \in Seq(Member(r)')
      BY <1>2, <1>3, <1>5, <2>2
    <2>4. QED BY <1>1, <2>1, <2>3, QueueNext DEF IInv
  <1>7. TypeOK'
    <2>1. calls' \in 0 .. MaxCalls
      BY <1>1, QmssAssumption DEF IInv, TypeOK
    <2>2. QED BY <1>1, <1>6, <2>1 DEF IInv, TypeOK, Item
  <1>8. QED BY <1>1, <1>6, <1>7, DmaStays, CallStays, LatchStays DEF IInv

LEMMA EmptyQueueKeeps ==
  ASSUME IInv, NEW c \in Cores, NEW q \in Queue, NEW given \in BOOLEAN, EmptyQueue(c, q, given)
  PROVE  IInv'
  <1>1. /\ UNCHANGED <<stage, queue, latch, atomic, dma, held, dropped, desc, overlap>>
        /\ calls' = calls + 1 /\ calls < MaxCalls /\ pc[c] = "idle"
        /\ pc' = [pc EXCEPT ![c] = "drain"] /\ qn' = [qn EXCEPT ![c] = q]
        /\ count' = [count EXCEPT ![c] = Len(queue[q])] /\ keep' = [keep EXCEPT ![c] = given]
        /\ list' = [list EXCEPT ![c] = <<>>]
    BY DEF EmptyQueue, Call
  <1>2. DOMAIN pc = Cores /\ DOMAIN qn = Cores
    BY DEF IInv, TypeOK
  <1>3. /\ pc'[c] = "drain" /\ qn'[c] = q
        /\ \A o \in Cores \ {c} : pc'[o] = pc[o] /\ qn'[o] = qn[o]
    BY <1>1, <1>2
  <1>4. CallInv'
    BY <1>1, <1>3 DEF IInv, CallInv
  <1>5. LatchInv'
    <2>1. \A o \in Cores, r \in Queue : Pushing(o, r)' <=> Pushing(o, r)
      BY <1>1, <1>3 DEF Pushing
    <2>2. ASSUME NEW o \in Cores, pc'[o] = "pushd"
          PROVE  pc[o] = "pushd" /\ qn'[o] = qn[o] /\ qn[o] \in Queue
      BY <1>1, <1>3, <2>2 DEF IInv, CallInv
    <2> SUFFICES ASSUME ~ overlap' PROVE
          /\ \A r \in Queue : latch'[r] # NoSize => \E o \in Cores : Pushing(o, r)'
          /\ \A o \in Cores : pc'[o] = "pushd" =>
               /\ latch'[qn'[o]] = desc'[o]
               /\ \A p \in Cores \ {o} : ~ (pc'[p] = "pushd" /\ qn'[p] = qn'[o])
      BY <1>1 DEF IInv, LatchInv, Pushing
    <2>3. QED BY <1>1, <1>3, <2>1, <2>2 DEF IInv, LatchInv, Pushing
  <1>6. TypeOK'
    <2>1. calls' \in 0 .. MaxCalls
      BY <1>1, QmssAssumption DEF IInv, TypeOK
    <2>2. Len(queue[q]) \in Nat
      BY DEF IInv, TypeOK
    <2>3. <<>> \in Seq(Desc \cup {NULL})
      OBVIOUS
    <2>4. /\ pc' \in [Cores -> {"idle", "pushd", "drain"}] /\ qn' \in [Cores -> Queue \cup {0}]
          /\ count' \in [Cores -> Nat] /\ keep' \in [Cores -> BOOLEAN]
          /\ list' \in [Cores -> Seq(Desc \cup {NULL})]
      BY <1>1, <2>2, <2>3 DEF IInv, TypeOK
    <2>5. QED BY <1>1, <2>1, <2>4 DEF IInv, TypeOK
  <1>7. QueueInv'
    BY <1>1, QueuesStay DEF IInv
  <1>8. QED BY <1>1, <1>4, <1>5, <1>6, <1>7, DmaStays DEF IInv

LEMMA DrainKeeps == ASSUME IInv, NEW c \in Cores, Drain(c) PROVE IInv'
  <1>0. qn[c] \in Queue
    BY DEF Drain, IInv, CallInv
  <1> SUFFICES ASSUME NEW q \in Queue, q = qn[c] PROVE IInv'
    BY <1>0
  <1> DEFINE value == IF queue[q] = <<>> THEN NULL ELSE Head(queue[q]).d
             rest == IF queue[q] = <<>> THEN queue[q] ELSE Tail(queue[q])
  <1>1. /\ UNCHANGED <<stage, latch, atomic, dma, held, dropped, pc, qn, desc, keep, count, calls, overlap>>
        /\ pc[c] = "drain" /\ list' = [list EXCEPT ![c] = Append(list[c], value)]
        /\ queue' = [queue EXCEPT ![q] = rest]
    BY DEF Drain
  <1>3. value \in Desc \cup {NULL} /\ rest \in Seq(Member(q))
    <2>1. CASE queue[q] = <<>>
      BY <2>1 DEF IInv, QueueInv
    <2>2. CASE queue[q] # <<>>
      BY <2>2, Popping
    <2>3. QED BY <2>1, <2>2
  <1> HIDE DEF value, rest
  <1>4. rest \in Seq(Member(q)')
    BY <1>1, <1>3, MemberGrows
  <1>5. QueueInv' /\ queue' \in [Queue -> Seq(Item)]
    <2>1. DOMAIN queue = Queue
      BY DEF IInv, TypeOK
    <2>2. queue' = [r \in Queue |-> queue'[r]]
      BY <1>1, <2>1
    <2>3. \A r \in Queue : queue'[r] = queue[r] \/ queue'[r] \in Seq(Member(r)')
      BY <1>1, <1>4, <2>1
    <2>4. QED BY <1>1, <2>2, <2>3, QueueNext DEF IInv
  <1>6. list' \in [Cores -> Seq(Desc \cup {NULL})]
    <2>1. list \in [Cores -> Seq(Desc \cup {NULL})]
      BY DEF IInv, TypeOK
    <2>2. Append(list[c], value) \in Seq(Desc \cup {NULL})
      BY <1>3, <2>1, SeqAppend
    <2>3. QED BY <1>1, <2>1, <2>2
  <1>7. TypeOK'
    BY <1>1, <1>5, <1>6 DEF IInv, TypeOK, Item
  <1>8. QED BY <1>1, <1>5, <1>7, DmaStays, CallStays, LatchStays DEF IInv

LEMMA DrainedKeeps == ASSUME IInv, NEW c \in Cores, Drained(c) PROVE IInv'
  <1> DEFINE popped == Range(list[c]) \ {NULL}
  <1>1. /\ UNCHANGED <<stage, queue, latch, atomic, dma, calls, overlap>>
        /\ pc[c] = "drain" /\ Return(c)
    BY DEF Drained
  <1>2. popped \subseteq Desc
    <2>1. list[c] \in Seq(Desc \cup {NULL})
      BY DEF IInv, TypeOK
    <2>2. QED BY <2>1 DEF Range
  <1>3. held' \in [Cores -> SUBSET Desc] /\ dropped' \subseteq Desc
    <2>1. held \in [Cores -> SUBSET Desc] /\ dropped \subseteq Desc
      BY DEF IInv, TypeOK
    <2>2. \/ held' = [held EXCEPT ![c] = held[c] \cup popped] /\ dropped' = dropped
          \/ dropped' = dropped \cup popped /\ held' = held
      BY DEF Drained
    <2> HIDE DEF popped
    <2>3. QED BY <1>2, <2>1, <2>2
  <1>4. /\ pc' \in [Cores -> {"idle", "pushd", "drain"}] /\ qn' \in [Cores -> Queue \cup {0}]
        /\ desc' \in [Cores -> Desc \cup {NULL}] /\ keep' \in [Cores -> BOOLEAN]
        /\ count' \in [Cores -> Nat] /\ list' \in [Cores -> Seq(Desc \cup {NULL})]
        /\ pc'[c] = "idle"
        /\ \A o \in Cores \ {c} : pc'[o] = pc[o] /\ qn'[o] = qn[o] /\ desc'[o] = desc[o]
    BY <1>1, Returning DEF IInv
  <1>5. CallInv'
    BY <1>1, <1>4 DEF IInv, CallInv
  <1>6. LatchInv'
    <2>1. \A o \in Cores, r \in Queue : Pushing(o, r)' <=> Pushing(o, r)
      BY <1>1, <1>4 DEF Pushing
    <2>2. ASSUME NEW o \in Cores, pc'[o] = "pushd"
          PROVE  pc[o] = "pushd" /\ qn'[o] = qn[o] /\ desc'[o] = desc[o] /\ qn[o] \in Queue
      BY <1>1, <1>4, <2>2 DEF IInv, CallInv
    <2> SUFFICES ASSUME ~ overlap' PROVE
          /\ \A r \in Queue : latch'[r] # NoSize => \E o \in Cores : Pushing(o, r)'
          /\ \A o \in Cores : pc'[o] = "pushd" =>
               /\ latch'[qn'[o]] = desc'[o]
               /\ \A p \in Cores \ {o} : ~ (pc'[p] = "pushd" /\ qn'[p] = qn'[o])
      BY <1>1 DEF IInv, LatchInv, Pushing
    <2>3. /\ \A r \in Queue : latch[r] # NoSize => \E o \in Cores : Pushing(o, r)
          /\ \A o \in Cores : pc[o] = "pushd" =>
               /\ latch[qn[o]] = desc[o]
               /\ \A p \in Cores \ {o} : ~ (pc[p] = "pushd" /\ qn[p] = qn[o])
      BY <1>1 DEF IInv, LatchInv, Pushing
    <2>4. \A r \in Queue : latch'[r] # NoSize => \E o \in Cores : Pushing(o, r)'
      BY <1>1, <2>1, <2>3
    <2>5. ASSUME NEW o \in Cores, pc'[o] = "pushd"
          PROVE  latch'[qn'[o]] = desc'[o]
      BY <1>1, <2>2, <2>3, <2>5
    <2>6. ASSUME NEW o \in Cores, pc'[o] = "pushd", NEW p \in Cores \ {o}
          PROVE  ~ (pc'[p] = "pushd" /\ qn'[p] = qn'[o])
      BY <2>2, <2>3, <2>6
    <2>7. QED BY <2>4, <2>5, <2>6
  <1>7. TypeOK'
    BY <1>1, <1>3, <1>4 DEF IInv, TypeOK
  <1>8. QueueInv'
    BY <1>1, QueuesStay DEF IInv
  <1>9. QED BY <1>1, <1>5, <1>6, <1>7, <1>8, DmaStays DEF IInv

(* The DMA takes descriptors of the kinds its flow is configured for, and  *)
(* the numbers main() writes send each back to a queue of its kind.        *)
LEMMA FetchKeeps == ASSUME IInv, NEW ch \in Channel, Fetch(ch) PROVE IInv'
  <1> DEFINE tx == TxQueue(ch)
             free == FreeOf(ch)
  <1>1. /\ UNCHANGED <<stage, latch, atomic, held, dropped, pc, qn, desc, keep, count, list, calls, overlap>>
        /\ queue[tx] # <<>> /\ queue[free] # <<>>
        /\ dma' = [dma EXCEPT ![ch] = <<Head(queue[tx]).d, Head(queue[free]).d>>]
        /\ queue' = [queue EXCEPT ![tx] = Tail(@), ![free] = Tail(@)]
    BY DEF Fetch, locals
  <1>2. tx \in Queue /\ free \in Queue /\ tx # free
    BY FlowNumbers, QueueNumbers DEF Channel
  <1> HIDE DEF tx, free
  <1>3. /\ Head(queue[tx]).d \in Kind(tx) /\ Head(queue[free]).d \in Kind(free)
        /\ Head(queue[tx]).d \in Desc /\ Head(queue[free]).d \in Desc
        /\ Tail(queue[tx]) \in Seq(Member(tx)) /\ Tail(queue[free]) \in Seq(Member(free))
    BY <1>1, <1>2, Popping
  <1>4. QueueInv' /\ queue' \in [Queue -> Seq(Item)]
    <2>1. DOMAIN queue = Queue
      BY DEF IInv, TypeOK
    <2>2. queue' = [r \in Queue |-> queue'[r]]
      BY <1>1, <2>1
    <2>3. ASSUME NEW r \in Queue PROVE queue'[r] = queue[r] \/ queue'[r] \in Seq(Member(r)')
      <3>1. queue'[r] = queue[r] \/ queue'[r] \in Seq(Member(r))
        BY <1>1, <1>2, <1>3, <2>1
      <3>2. QED BY <1>1, <3>1, MemberGrows
    <2>4. QED BY <1>1, <2>2, <2>3, QueueNext DEF IInv
  <1>5. DmaInv' /\ dma' \in [Channel -> {<<>>} \cup Desc \X Desc]
    <2>1. dma \in [Channel -> {<<>>} \cup Desc \X Desc]
      BY DEF IInv, TypeOK
    <2>2. dma' \in [Channel -> {<<>>} \cup Desc \X Desc]
      BY <1>1, <1>3, <2>1
    <2>3. dma'[ch][1] \in Kind(tx) /\ dma'[ch][2] \in Kind(free)
      BY <1>1, <1>3, <2>1
    <2>4. \A o \in Channel \ {ch} : dma'[o] = dma[o]
      BY <1>1, <2>1
    <2>5. QED BY <2>2, <2>3, <2>4 DEF IInv, DmaInv, tx, free
  <1>6. TypeOK'
    BY <1>1, <1>4, <1>5 DEF IInv, TypeOK, Item
  <1>7. QED BY <1>1, <1>4, <1>5, <1>6, CallStays, LatchStays DEF IInv

LEMMA DeliverKeeps == ASSUME IInv, NEW ch \in Channel, Deliver(ch) PROVE IInv'
  <1>1. dma[ch] \in Desc \X Desc /\ dma[ch][1] \in Kind(TxQueue(ch)) /\ dma[ch][2] \in Kind(FreeOf(ch))
    BY DEF Deliver, IInv, TypeOK, DmaInv
  <1> SUFFICES ASSUME NEW tx \in Desc, NEW rx \in Desc, tx = dma[ch][1], rx = dma[ch][2] PROVE IInv'
    BY <1>1
  <1> SUFFICES ASSUME NEW back, NEW dest, back = ReturnOf(tx), dest = DestOf(ch) PROVE IInv'
    OBVIOUS
  <1>2. /\ back \in Queue /\ dest \in Queue /\ back # dest
        /\ tx \in Kind(back) /\ rx \in Kind(dest)
    <2>1. ch = 0 \/ ch = 1
      BY DEF Channel
    <2>2. CASE ch = 0
      BY <1>1, <2>2, FlowNumbers, ReturnKind, QueueNumbers DEF Kind
    <2>3. CASE ch = 1
      BY <1>1, <2>3, FlowNumbers, ReturnKind, QueueNumbers DEF Kind
    <2>4. QED BY <2>1, <2>2, <2>3
  <1>3. /\ UNCHANGED <<stage, latch, atomic, held, dropped, pc, qn, desc, keep, count, list, calls, overlap>>
        /\ dma' = [dma EXCEPT ![ch] = <<>>]
        /\ queue' = [queue EXCEPT ![back] = Append(@, Entry(tx, NoSize, FALSE)),
                                  ![dest] = Append(@, Entry(rx, rx, TRUE))]
    BY DEF Deliver, locals
  <1>4. Entry(tx, NoSize, FALSE) \in Member(back) /\ Entry(rx, rx, TRUE) \in Member(dest)
    BY <1>2 DEF Entry, Member, AnyEntry, Right
  <1>5. /\ Append(queue[back], Entry(tx, NoSize, FALSE)) \in Seq(Member(back))
        /\ Append(queue[dest], Entry(rx, rx, TRUE)) \in Seq(Member(dest))
    BY <1>2, <1>4, SeqAppend DEF IInv, QueueInv
  <1>6. QueueInv' /\ queue' \in [Queue -> Seq(Item)]
    <2>1. DOMAIN queue = Queue
      BY DEF IInv, TypeOK
    <2>2. queue' = [r \in Queue |-> queue'[r]]
      BY <1>3, <2>1
    <2>3. ASSUME NEW r \in Queue PROVE queue'[r] = queue[r] \/ queue'[r] \in Seq(Member(r)')
      <3>1. queue'[r] = queue[r] \/ queue'[r] \in Seq(Member(r))
        BY <1>2, <1>3, <1>5, <2>1
      <3>2. QED BY <1>3, <3>1, MemberGrows
    <2>4. QED BY <1>3, <2>2, <2>3, QueueNext DEF IInv
  <1>7. DmaInv' /\ dma' \in [Channel -> {<<>>} \cup Desc \X Desc]
    <2>1. dma \in [Channel -> {<<>>} \cup Desc \X Desc]
      BY DEF IInv, TypeOK
    <2>2. \A o \in Channel : dma'[o] = dma[o] \/ dma'[o] = <<>>
      BY <1>3, <2>1
    <2>3. DmaInv'
      BY <2>2 DEF IInv, DmaInv
    <2>4. QED BY <1>3, <2>1, <2>3
  <1>8. TypeOK'
    BY <1>3, <1>6, <1>7 DEF IInv, TypeOK, Item
  <1>9. QED BY <1>3, <1>6, <1>7, <1>8, CallStays, LatchStays DEF IInv

-----------------------------------------------------------------------------
(* The theorems *)

LEMMA NextIInv == IInv /\ [Next]_vars => IInv'
  <1> SUFFICES ASSUME IInv, [Next]_vars PROVE IInv'
    OBVIOUS
  <1>1. ASSUME NEW c \in Cores, NEW q \in Queue, Pop(c, q) PROVE IInv'
    BY <1>1, PopKeeps
  <1>2. ASSUME NEW c \in Cores, NEW q \in Queue, NEW given \in BOOLEAN, EmptyQueue(c, q, given)
        PROVE  IInv'
    BY <1>2, EmptyQueueKeeps
  <1>3. ASSUME NEW c \in Cores, NEW q \in Queue, NEW d \in held[c], PushC(c, q, d) PROVE IInv'
    BY <1>3, PushCKeeps
  <1>4. ASSUME NEW c \in Cores, NEW q \in Queue, NEW d \in held[c], NEW mode \in {1, 2},
               Push(c, q, d, mode)
        PROVE  IInv'
    BY <1>4, PushKeeps
  <1>5. ASSUME NEW c \in Cores, NEW r \in Circuit, NEW headtail \in {0, 1},
               Divert(c, r[1], r[2], headtail) \/ Divert(c, r[2], r[1], headtail)
        PROVE  IInv'
    <2>1. r[1] \in Queue /\ r[2] \in Queue /\ r[1] # r[2] /\ Kind(r[1]) = Kind(r[2])
      BY CircuitKind DEF Circuit
    <2>2. QED BY <1>5, <2>1, DivertKeeps
  <1>6. ASSUME NEW c \in Cores, PushD(c) \/ Drain(c) \/ Drained(c) PROVE IInv'
    BY <1>6, PushDKeeps, DrainKeeps, DrainedKeeps
  <1>7. ASSUME NEW ch \in Channel, Fetch(ch) \/ Deliver(ch) PROVE IInv'
    BY <1>7, FetchKeeps, DeliverKeeps
  <1>8. CASE Fill \/ Configure \/ EnableChannels
    BY <1>8, SetUp
  <1>9. CASE UNCHANGED vars
    <2>1. UNCHANGED <<stage, queue, latch, atomic, dma, held, dropped, pc, qn, desc, keep, count,
                      list, calls, overlap>>
      BY <1>9 DEF vars, locals
    <2>2. TypeOK'
      BY <2>1 DEF IInv, TypeOK
    <2>3. QED BY <2>1, <2>2, QueuesStay, DmaStays, CallStays, LatchStays DEF IInv
  <1>10. QED BY <1>1, <1>2, <1>3, <1>4, <1>5, <1>6, <1>7, <1>8, <1>9 DEF Next

LEMMA Invariant == Spec => []IInv
  BY InitIInv, NextIInv, PTL DEF Spec

(* Every variable of the queues, the calls and the DMA keeps its type.     *)
THEOREM TypeCorrect == Spec => []TypeOK
  <1>1. IInv => TypeOK
    BY DEF IInv
  <1>2. QED BY <1>1, Invariant, PTL

(* However many cores push, pop, drain and divert while the DMA works, a   *)
(* descriptor stays on the queues of its kind and purpose, and each flow   *)
(* takes the type of descriptor its words say: the numbers main() writes   *)
(* in four encodings agree.                                                *)
THEOREM KindsStaySeparate == Spec => []KindsSeparate
  <1>1. ASSUME IInv PROVE KindsSeparate
    <2>1. ASSUME NEW r \in Circuit, NEW q \in Range(r)
          PROVE  {e.d : e \in Range(queue[q])} \subseteq Range(FilledWith(r[1]))
      <3>1. q \in Queue /\ Kind(q) = Range(FilledWith(r[1]))
        BY CircuitKind
      <3>2. \A e \in Range(queue[q]) : e \in Member(q)
        BY <1>1, <3>1 DEF IInv, QueueInv, Range
      <3>3. QED BY <3>1, <3>2, MemberDesc
    <2>2. ASSUME NEW ch \in Channel, dma[ch] # <<>>
          PROVE  TypeOf(ch) = IF dma[ch][2] \in Range(HostRx) THEN 1 ELSE 2
      <3>1. dma[ch][2] \in Kind(FreeOf(ch))
        BY <1>1, <2>2 DEF IInv, DmaInv
      <3>2. CASE ch = 0
        BY <3>1, <3>2, FlowNumbers DEF Kind
      <3>3. CASE ch = 1
        BY <3>1, <3>3, FlowNumbers, Disjoint DEF Kind
      <3>4. QED BY <3>2, <3>3 DEF Channel
    <2>3. QED BY <2>1, <2>2 DEF KindsSeparate
  <1>2. QED BY <1>1, Invariant, PTL

(* A packet has the length it was pushed with, always where one store      *)
(* writes C and D and otherwise unless two cores have used the registers   *)
(* of a queue at the same time.                                            *)
THEOREM SizesAreRight == Spec => []SizesMatch
  <1>1. ASSUME IInv PROVE SizesMatch
    <2>1. ASSUME atomic \/ ~ overlap, NEW q \in Queue, NEW i \in DOMAIN queue[q]
          PROVE  queue[q][i].c = IF queue[q][i].sized THEN queue[q][i].d ELSE NoSize
      <3>1. queue[q][i] \in Member(q)
        BY <1>1 DEF IInv, QueueInv
      <3>2. QED BY <2>1, <3>1 DEF Member, Right
    <2>2. QED BY <2>1 DEF SizesMatch
  <1>2. QED BY <1>1, Invariant, PTL

-----------------------------------------------------------------------------
(* Every descriptor is in one place *)

(* The descriptors of a place. *)
InQueue(s) == {s[i].d : i \in DOMAIN s}
OnList(l) == {l[i] : i \in DOMAIN l} \ {NULL}
Holds ==
  [p \in Place |->
     IF p[1] = "queue" THEN InQueue(queue[p[2]]) ELSE IF p[1] = "dma" THEN Range(dma[p[2]])
     ELSE IF p[1] = "list" THEN OnList(list[p[2]]) ELSE IF p[1] = "held" THEN held[p[2]] ELSE dropped]

Parted(H) == \A d \in Desc : \E p \in Place : d \in H[p] /\ \A r \in Place : d \in H[r] => r = p

Distinct(s) == \A i, j \in DOMAIN s : s[i].d = s[j].d => i = j
NoTwice(l) == \A i, j \in DOMAIN l : l[i] = l[j] /\ l[i] # NULL => i = j

(* Before the channels are enabled nobody uses the queues, and a core owns *)
(* the descriptor it is about to push.                                     *)
OwnInv ==
  /\ stage # "enabled" =>
       /\ \A c \in Cores : pc[c] = "idle" /\ held[c] = {}
       /\ \A ch \in Channel : dma[ch] = <<>>
       /\ dropped = {}
  /\ \A c \in Cores :
       /\ pc[c] # "drain" => list[c] = <<>>
       /\ pc[c] = "pushd" => desc[c] \in held[c]

OneInv ==
  /\ Parted(Holds)
  /\ \A q \in Queue : Distinct(queue[q])
  /\ \A ch \in Channel : dma[ch] # <<>> => dma[ch][1] # dma[ch][2]
  /\ \A c \in Cores : NoTwice(list[c])

PlaceInv == OwnInv /\ (stage # "reset" => OneInv)

LEMMA PlacesAre ==
  /\ \A q \in Queue : <<"queue", q>> \in Place
  /\ \A ch \in Channel : <<"dma", ch>> \in Place
  /\ \A c \in Cores : <<"list", c>> \in Place /\ <<"held", c>> \in Place
  /\ <<"dropped", NULL>> \in Place
  /\ \A p \in Place :
       \/ \E q \in Queue : p = <<"queue", q>>
       \/ \E ch \in Channel : p = <<"dma", ch>>
       \/ \E c \in Cores : p = <<"list", c>> \/ p = <<"held", c>>
       \/ p = <<"dropped", NULL>>
  BY DEF Place

LEMMA HoldsAt ==
  /\ \A q \in Queue : Holds[<<"queue", q>>] = InQueue(queue[q])
  /\ \A ch \in Channel : Holds[<<"dma", ch>>] = Range(dma[ch])
  /\ \A c \in Cores : Holds[<<"list", c>>] = OnList(list[c]) /\ Holds[<<"held", c>>] = held[c]
  /\ Holds[<<"dropped", NULL>>] = dropped
  BY PlacesAre DEF Holds

LEMMA HoldsNextAt ==
  /\ \A q \in Queue : Holds'[<<"queue", q>>] = InQueue(queue'[q])
  /\ \A ch \in Channel : Holds'[<<"dma", ch>>] = Range(dma'[ch])
  /\ \A c \in Cores : Holds'[<<"list", c>>] = OnList(list'[c]) /\ Holds'[<<"held", c>>] = held'[c]
  /\ Holds'[<<"dropped", NULL>>] = dropped'
  BY PlacesAre DEF Holds

(* What a step leaves alone. *)
LEMMA Unmoved ==
  ASSUME NEW M,
         \A q \in Queue : <<"queue", q>> \notin M => queue'[q] = queue[q],
         \A ch \in Channel : <<"dma", ch>> \notin M => dma'[ch] = dma[ch],
         \A c \in Cores : <<"list", c>> \notin M => list'[c] = list[c],
         \A c \in Cores : <<"held", c>> \notin M => held'[c] = held[c],
         <<"dropped", NULL>> \notin M => dropped' = dropped
  PROVE  \A p \in Place \ M : Holds'[p] = Holds[p]
  <1> SUFFICES ASSUME NEW p \in Place \ M PROVE Holds'[p] = Holds[p]
    OBVIOUS
  <1>1. CASE \E q \in Queue : p = <<"queue", q>>
    BY <1>1, HoldsAt, HoldsNextAt
  <1>2. CASE \E ch \in Channel : p = <<"dma", ch>>
    BY <1>2, HoldsAt, HoldsNextAt
  <1>3. ASSUME NEW c \in Cores, p = <<"list", c>> PROVE Holds'[p] = Holds[p]
    <2>1. list'[c] = list[c]
      BY <1>3
    <2>2. Holds[p] = OnList(list[c]) /\ Holds'[p] = OnList(list'[c])
      BY <1>3, HoldsAt, HoldsNextAt
    <2>3. QED BY <2>1, <2>2
  <1>4. ASSUME NEW c \in Cores, p = <<"held", c>> PROVE Holds'[p] = Holds[p]
    <2>1. held'[c] = held[c]
      BY <1>4
    <2>2. QED BY <1>4, <2>1, HoldsAt, HoldsNextAt
  <1>5. CASE p = <<"dropped", NULL>>
    BY <1>5, HoldsAt, HoldsNextAt
  <1>6. QED BY <1>1, <1>2, <1>3, <1>4, <1>5, PlacesAre

(* Descriptors that leave one place for another. *)
LEMMA Moving ==
  ASSUME NEW H, NEW G, Parted(H), NEW a \in Place, NEW b \in Place, a # b, NEW S, S \subseteq H[a],
         G[a] = H[a] \ S, G[b] = H[b] \cup S, \A p \in Place \ {a, b} : G[p] = H[p]
  PROVE  Parted(G)
  <1> SUFFICES ASSUME NEW d \in Desc
               PROVE  \E p \in Place : d \in G[p] /\ \A r \in Place : d \in G[r] => r = p
    BY DEF Parted
  <1>1. PICK p \in Place : d \in H[p] /\ \A r \in Place : d \in H[r] => r = p
    BY DEF Parted
  <1>2. CASE d \in S
    <2>1. p = a
      BY <1>1, <1>2
    <2>2. d \in G[b] /\ \A r \in Place : d \in G[r] => r = b
      BY <1>1, <1>2, <2>1
    <2>3. QED BY <2>2
  <1>3. CASE d \notin S
    <2>1. \A r \in Place : d \in G[r] <=> d \in H[r]
      BY <1>3
    <2>2. QED BY <1>1, <2>1
  <1>4. QED BY <1>2, <1>3

(* Two descriptors that leave two places for a third, ... *)
LEMMA MovingIn ==
  ASSUME NEW H, NEW G, Parted(H), DOMAIN H = Place, NEW a \in Place, NEW b \in Place, NEW into \in Place,
         a # b, into # a, into # b,
         NEW x \in H[a], NEW y \in H[b], G[a] = H[a] \ {x}, G[b] = H[b] \ {y}, G[into] = H[into] \cup {x, y},
         \A p \in Place \ {a, b, into} : G[p] = H[p]
  PROVE  Parted(G)
  <1> DEFINE K == [H EXCEPT ![a] = H[a] \ {x}, ![into] = H[into] \cup {x}]
  <1>1. /\ K[a] = H[a] \ {x} /\ K[into] = H[into] \cup {x}
        /\ \A p \in Place \ {a, into} : K[p] = H[p]
    OBVIOUS
  <1> HIDE DEF K
  <1>2. Parted(K)
    <2>1. {x} \subseteq H[a]
      OBVIOUS
    <2>2. QED BY <1>1, <2>1, Moving
  <1>3. G[b] = K[b] \ {y} /\ G[into] = K[into] \cup {y} /\ {y} \subseteq K[b]
        /\ \A p \in Place \ {b, into} : G[p] = K[p]
    BY <1>1
  <1>4. QED BY <1>2, <1>3, Moving

(* ... and two that leave it for two others. *)
LEMMA MovingOut ==
  ASSUME NEW H, NEW G, Parted(H), DOMAIN H = Place, NEW a \in Place, NEW b \in Place, NEW from \in Place,
         a # b, from # a, from # b,
         NEW x, NEW y, x # y, H[from] = {x, y}, G[a] = H[a] \cup {x}, G[b] = H[b] \cup {y}, G[from] = {},
         \A p \in Place \ {a, b, from} : G[p] = H[p]
  PROVE  Parted(G)
  <1> DEFINE K == [H EXCEPT ![from] = H[from] \ {x}, ![a] = H[a] \cup {x}]
  <1>1. /\ K[a] = H[a] \cup {x} /\ K[from] = H[from] \ {x}
        /\ \A p \in Place \ {from, a} : K[p] = H[p]
    OBVIOUS
  <1> HIDE DEF K
  <1>2. Parted(K)
    <2> DEFINE S == {x}
    <2>1. S \subseteq H[from] /\ K[from] = H[from] \ S /\ K[a] = H[a] \cup S
          /\ \A p \in Place \ {from, a} : K[p] = H[p]
      BY <1>1
    <2> HIDE DEF S
    <2>2. from # a /\ Parted(H)
      OBVIOUS
    <2>3. QED BY ONLY <2>1, <2>2, Moving, from \in Place, a \in Place
  <1>3. G[from] = K[from] \ {y} /\ G[b] = K[b] \cup {y} /\ {y} \subseteq K[from]
        /\ \A p \in Place \ {b, from} : G[p] = K[p]
    BY <1>1
  <1>4. QED BY <1>2, <1>3, Moving

(* What the operations of a queue do to its descriptors. *)
LEMMA HeadTaken ==
  ASSUME NEW s \in Seq(Item), s # <<>>, Distinct(s)
  PROVE  /\ Distinct(Tail(s)) /\ InQueue(Tail(s)) = InQueue(s) \ {Head(s).d} /\ Head(s).d \in InQueue(s)
  <1>1. /\ DOMAIN Tail(s) = 1 .. Len(s) - 1 /\ DOMAIN s = 1 .. Len(s) /\ Len(s) \in Nat \ {0}
        /\ \A i \in 1 .. Len(s) - 1 : Tail(s)[i] = s[i + 1]
        /\ Head(s) = s[1]
    OBVIOUS
  <1>2. Distinct(Tail(s))
    BY <1>1 DEF Distinct
  <1>3. ASSUME NEW x \in InQueue(s), x # Head(s).d PROVE x \in InQueue(Tail(s))
    <2>1. PICK i \in 1 .. Len(s) : x = s[i].d
      BY <1>1 DEF InQueue
    <2>2. i # 1 /\ i - 1 \in 1 .. Len(s) - 1 /\ Tail(s)[i - 1] = s[i]
      BY <1>1, <1>3, <2>1
    <2>3. QED BY <1>1, <2>1, <2>2 DEF InQueue
  <1>4. ASSUME NEW x \in InQueue(Tail(s)) PROVE x \in InQueue(s) /\ x # Head(s).d
    <2>1. PICK i \in 1 .. Len(s) - 1 : x = s[i + 1].d
      BY <1>1, <1>4 DEF InQueue
    <2>2. i + 1 \in 1 .. Len(s) /\ i + 1 # 1 /\ 1 \in 1 .. Len(s)
      BY <1>1
    <2>3. QED BY <1>1, <2>1, <2>2 DEF InQueue, Distinct
  <1>5. Head(s).d \in InQueue(s)
    BY <1>1 DEF InQueue
  <1>6. QED BY <1>2, <1>3, <1>4, <1>5

LEMMA EntryAdded ==
  ASSUME NEW s \in Seq(Item), NEW e \in Item, Distinct(s), e.d \notin InQueue(s)
  PROVE  Distinct(Append(s, e)) /\ InQueue(Append(s, e)) = InQueue(s) \cup {e.d}
  <1>1. /\ DOMAIN Append(s, e) = 1 .. Len(s) + 1 /\ DOMAIN s = 1 .. Len(s) /\ Len(s) \in Nat
        /\ \A i \in 1 .. Len(s) : Append(s, e)[i] = s[i]
        /\ Append(s, e)[Len(s) + 1] = e
    OBVIOUS
  <1> DEFINE n == Len(s)
             t == Append(s, e)
  <1> HIDE DEF n, t
  <1>2. /\ DOMAIN t = 1 .. n + 1 /\ DOMAIN s = 1 .. n /\ n \in Nat
        /\ \A i \in 1 .. n : t[i] = s[i] /\ i \in 1 .. n + 1
        /\ t[n + 1] = e /\ n + 1 \in 1 .. n + 1
        /\ \A i \in 1 .. n + 1 : i \in 1 .. n \/ i = n + 1
    BY <1>1 DEF n, t
  <1>3. Distinct(t)
    BY <1>2 DEF Distinct, InQueue
  <1>4. InQueue(t) = InQueue(s) \cup {e.d}
    BY <1>2 DEF InQueue
  <1>5. QED BY <1>3, <1>4 DEF t

LEMMA Joined ==
  ASSUME NEW s \in Seq(Item), NEW t \in Seq(Item), Distinct(s), Distinct(t), InQueue(s) \cap InQueue(t) = {}
  PROVE  Distinct(s \o t) /\ InQueue(s \o t) = InQueue(s) \cup InQueue(t)
  <1> DEFINE m == Len(s)
             n == Len(t)
             u == s \o t
  <1>1. /\ DOMAIN u = 1 .. m + n /\ DOMAIN s = 1 .. m /\ DOMAIN t = 1 .. n /\ m \in Nat /\ n \in Nat
        /\ \A i \in 1 .. m : u[i] = s[i]
        /\ \A i \in 1 .. n : u[m + i] = t[i]
    OBVIOUS
  <1> HIDE DEF m, n, u
  <1>2. ASSUME NEW i \in 1 .. m + n
        PROVE  (i \in 1 .. m /\ u[i] = s[i]) \/ (i - m \in 1 .. n /\ u[i] = t[i - m])
    <2>1. CASE i <= m
      BY <1>1, <2>1
    <2>2. CASE i > m
      <3>1. i - m \in 1 .. n /\ m + (i - m) = i
        BY <1>1, <2>2
      <3>2. QED BY <1>1, <3>1
    <2>3. QED BY <1>1, <2>1, <2>2
  <1>3. ASSUME NEW i \in 1 .. m + n, NEW j \in 1 .. m + n, u[i].d = u[j].d PROVE i = j
    <2>1. CASE i \in 1 .. m /\ u[i] = s[i] /\ j \in 1 .. m /\ u[j] = s[j]
      BY <1>1, <1>3, <2>1 DEF Distinct
    <2>2. CASE i - m \in 1 .. n /\ u[i] = t[i - m] /\ j - m \in 1 .. n /\ u[j] = t[j - m]
      <3>1. i - m = j - m
        BY <1>1, <1>3, <2>2 DEF Distinct
      <3>2. QED BY <1>1, <3>1
    <2>3. CASE i \in 1 .. m /\ u[i] = s[i] /\ j - m \in 1 .. n /\ u[j] = t[j - m]
      <3>1. u[i].d \in InQueue(s) /\ u[j].d \in InQueue(t)
        BY <1>1, <2>3 DEF InQueue
      <3>2. QED BY <1>3, <3>1
    <2>4. CASE j \in 1 .. m /\ u[j] = s[j] /\ i - m \in 1 .. n /\ u[i] = t[i - m]
      <3>1. u[j].d \in InQueue(s) /\ u[i].d \in InQueue(t)
        BY <1>1, <2>4 DEF InQueue
      <3>2. QED BY <1>3, <3>1
    <2>5. QED BY <1>2, <2>1, <2>2, <2>3, <2>4
  <1>4. Distinct(u)
    BY <1>1, <1>3 DEF Distinct
  <1>5. ASSUME NEW x \in InQueue(u) PROVE x \in InQueue(s) \cup InQueue(t)
    <2>1. PICK i \in 1 .. m + n : x = u[i].d
      BY <1>1, <1>5 DEF InQueue
    <2>2. QED BY <1>1, <1>2, <2>1 DEF InQueue
  <1>6. ASSUME NEW x \in InQueue(s) PROVE x \in InQueue(u)
    <2>1. PICK i \in 1 .. m : x = s[i].d
      BY <1>1, <1>6 DEF InQueue
    <2>2. i \in 1 .. m + n
      BY <1>1
    <2>3. QED BY <1>1, <2>1, <2>2 DEF InQueue
  <1>7. ASSUME NEW x \in InQueue(t) PROVE x \in InQueue(u)
    <2>1. PICK i \in 1 .. n : x = t[i].d
      BY <1>1, <1>7 DEF InQueue
    <2>2. m + i \in 1 .. m + n
      BY <1>1
    <2>3. QED BY <1>1, <2>1, <2>2 DEF InQueue
  <1>8. QED BY <1>4, <1>5, <1>6, <1>7 DEF u

(* What a drain does to its list. *)
LEMMA ListGrows ==
  ASSUME NEW l \in Seq(Desc \cup {NULL}), NEW v \in Desc \cup {NULL}, NoTwice(l), v \notin OnList(l)
  PROVE  NoTwice(Append(l, v)) /\ OnList(Append(l, v)) = OnList(l) \cup ({v} \ {NULL})
  <1> DEFINE n == Len(l)
             t == Append(l, v)
  <1>1. /\ DOMAIN t = 1 .. n + 1 /\ DOMAIN l = 1 .. n /\ n \in Nat
        /\ \A i \in 1 .. n : t[i] = l[i]
        /\ t[n + 1] = v
    OBVIOUS
  <1> HIDE DEF n, t
  <1>2. /\ \A i \in 1 .. n : i \in 1 .. n + 1
        /\ n + 1 \in 1 .. n + 1
        /\ \A i \in 1 .. n + 1 : i \in 1 .. n \/ i = n + 1
    BY <1>1
  <1>3. NoTwice(t)
    BY <1>1, <1>2 DEF NoTwice, OnList
  <1>4. OnList(t) = OnList(l) \cup ({v} \ {NULL})
    BY <1>1, <1>2 DEF OnList
  <1>5. QED BY <1>3, <1>4 DEF t

-----------------------------------------------------------------------------
(* The steps *)

LEMMA Elsewhere ==
  ASSUME Parted(Holds), NEW p \in Place, NEW r \in Place, p # r, NEW d \in Desc, d \in Holds[p]
  PROVE  d \notin Holds[r]
  BY DEF Parted

LEMMA QueueTypes ==
  ASSUME TypeOK, NEW q \in Queue
  PROVE  queue[q] \in Seq(Item) /\ InQueue(queue[q]) \subseteq Desc
  <1>1. queue[q] \in Seq(Item)
    BY DEF TypeOK, Item
  <1>2. \A i \in DOMAIN queue[q] : queue[q][i] \in Item
    BY <1>1
  <1>3. QED BY <1>1, <1>2 DEF InQueue, Item

LEMMA DomainHolds == DOMAIN Holds = Place
  BY DEF Holds

(* Register D is written: the descriptor moves from the core to the queue. *)
LEMMA WriteDPlaces ==
  ASSUME TypeOK, OneInv, NEW c \in Cores, NEW q \in Queue, NEW d \in held[c],
         NEW size \in Desc \cup {NoSize}, NEW sized \in BOOLEAN,
         WriteD(c, q, d, size, sized), UNCHANGED <<dma, dropped, list>>
  PROVE  OneInv'
  <1> DEFINE e == Entry(d, size, sized)
  <1>1. d \in Desc /\ e \in Item /\ e.d = d
    BY DEF TypeOK, Entry, Item
  <1> HIDE DEF e
  <1>2. queue' = [queue EXCEPT ![q] = Append(queue[q], e)] /\ held' = [held EXCEPT ![c] = held[c] \ {d}]
    BY DEF WriteD, e
  <1>3. /\ queue'[q] = Append(queue[q], e) /\ \A r \in Queue \ {q} : queue'[r] = queue[r]
        /\ held'[c] = held[c] \ {d} /\ \A o \in Cores \ {c} : held'[o] = held[o]
    BY <1>2 DEF TypeOK
  <1>4. <<"queue", q>> \in Place /\ <<"held", c>> \in Place /\ <<"queue", q>> # <<"held", c>>
    BY PlacesAre
  <1>5. d \notin InQueue(queue[q])
    <2>1. d \in Holds[<<"held", c>>] /\ d \notin Holds[<<"queue", q>>]
      BY <1>1, <1>4, HoldsAt, Elsewhere DEF OneInv
    <2>2. QED BY <2>1, HoldsAt
  <1>6. Distinct(queue'[q]) /\ InQueue(queue'[q]) = InQueue(queue[q]) \cup {d}
    BY <1>1, <1>3, <1>5, QueueTypes, EntryAdded DEF OneInv
  <1>7. Parted(Holds')
    <2> DEFINE a == <<"held", c>>
               b == <<"queue", q>>
               S == {d}
    <2>1. \A p \in Place \ {a, b} : Holds'[p] = Holds[p]
      BY <1>3, Unmoved
    <2>2. Holds'[a] = Holds[a] \ S /\ Holds'[b] = Holds[b] \cup S /\ S \subseteq Holds[a]
      BY <1>3, <1>6, HoldsAt, HoldsNextAt
    <2>3. a \in Place /\ b \in Place /\ a # b /\ Parted(Holds)
      BY <1>4 DEF OneInv
    <2> HIDE DEF a, b, S
    <2>4. QED BY <2>1, <2>2, <2>3, Moving
  <1>8. QED BY <1>3, <1>6, <1>7 DEF OneInv

LEMMA PushPlaces ==
  ASSUME IInv, PlaceInv, NEW c \in Cores, NEW q \in Queue, NEW d \in held[c], NEW mode \in {1, 2},
         Push(c, q, d, mode)
  PROVE  PlaceInv'
  <1> DEFINE size == IF mode = 2 THEN d ELSE latch[q]
  <1>1. /\ UNCHANGED <<stage, dma, dropped, pc, desc, list>> /\ stage = "enabled" /\ pc[c] = "idle"
        /\ WriteD(c, q, d, size, mode = 2)
    BY DEF Push, Call, locals
  <1>2. size \in Desc \cup {NoSize} /\ (mode = 2) \in BOOLEAN
    BY DEF IInv, TypeOK
  <1> HIDE DEF size
  <1>3. OneInv'
    BY <1>1, <1>2, WriteDPlaces DEF PlaceInv, IInv
  <1>4. \A o \in Cores \ {c} : held'[o] = held[o]
    BY <1>1 DEF WriteD, IInv, TypeOK
  <1>5. QED BY <1>1, <1>3, <1>4 DEF PlaceInv, OwnInv

LEMMA PushCPlaces ==
  ASSUME IInv, PlaceInv, NEW c \in Cores, NEW q \in Queue, NEW d \in held[c], PushC(c, q, d)
  PROVE  PlaceInv'
  <1>1. /\ UNCHANGED <<stage, queue, dma, held, dropped, list>> /\ stage = "enabled" /\ pc[c] = "idle"
        /\ pc' = [pc EXCEPT ![c] = "pushd"] /\ desc' = [desc EXCEPT ![c] = d]
    BY DEF PushC, Call
  <1>2. /\ pc'[c] = "pushd" /\ desc'[c] = d
        /\ \A o \in Cores \ {c} : pc'[o] = pc[o] /\ desc'[o] = desc[o]
    BY <1>1 DEF IInv, TypeOK
  <1>3. OneInv'
    BY <1>1 DEF PlaceInv, OneInv, Holds
  <1>4. QED BY <1>1, <1>2, <1>3 DEF PlaceInv, OwnInv

LEMMA PushDPlaces == ASSUME IInv, PlaceInv, NEW c \in Cores, PushD(c) PROVE PlaceInv'
  <1>1. /\ UNCHANGED <<stage, dma, dropped>> /\ pc[c] = "pushd" /\ Return(c)
        /\ WriteD(c, qn[c], desc[c], latch[qn[c]], TRUE)
    BY DEF PushD
  <1>2. stage = "enabled" /\ list[c] = <<>> /\ desc[c] \in held[c] /\ qn[c] \in Queue
    BY <1>1 DEF PlaceInv, OwnInv, IInv, CallInv
  <1>3. list' = list
    BY <1>1, <1>2 DEF Return, IInv, TypeOK
  <1>4. latch[qn[c]] \in Desc \cup {NoSize}
    BY <1>2 DEF IInv, TypeOK
  <1>5. OneInv'
    BY <1>1, <1>2, <1>3, <1>4, WriteDPlaces DEF PlaceInv, IInv
  <1>6. pc'[c] = "idle" /\ \A o \in Cores \ {c} : pc'[o] = pc[o] /\ desc'[o] = desc[o] /\ held'[o] = held[o]
    BY <1>1 DEF Return, WriteD, IInv, TypeOK
  <1>7. QED BY <1>1, <1>2, <1>3, <1>5, <1>6 DEF PlaceInv, OwnInv

LEMMA PopPlaces == ASSUME IInv, PlaceInv, NEW c \in Cores, NEW q \in Queue, Pop(c, q) PROVE PlaceInv'
  <1> DEFINE d == Head(queue[q]).d
  <1>1. /\ UNCHANGED <<stage, dma, dropped, pc, desc, list>> /\ stage = "enabled" /\ queue[q] # <<>>
        /\ pc[c] = "idle"
        /\ queue' = [queue EXCEPT ![q] = Tail(queue[q])] /\ held' = [held EXCEPT ![c] = held[c] \cup {d}]
    BY DEF Pop, Call, locals
  <1>2. OneInv /\ TypeOK
    BY <1>1 DEF PlaceInv, IInv
  <1>3. /\ Distinct(Tail(queue[q])) /\ InQueue(Tail(queue[q])) = InQueue(queue[q]) \ {d}
        /\ d \in InQueue(queue[q])
    BY <1>1, <1>2, QueueTypes, HeadTaken DEF OneInv
  <1> HIDE DEF d
  <1>4. /\ queue'[q] = Tail(queue[q]) /\ \A r \in Queue \ {q} : queue'[r] = queue[r]
        /\ held'[c] = held[c] \cup {d} /\ \A o \in Cores \ {c} : held'[o] = held[o]
    BY <1>1, <1>2 DEF TypeOK
  <1>5. Parted(Holds')
    <2> DEFINE a == <<"queue", q>>
               b == <<"held", c>>
               S == {d}
    <2>1. \A p \in Place \ {a, b} : Holds'[p] = Holds[p]
      BY <1>1, <1>4, Unmoved
    <2>2. Holds'[a] = Holds[a] \ S /\ Holds'[b] = Holds[b] \cup S /\ S \subseteq Holds[a]
      BY <1>3, <1>4, HoldsAt, HoldsNextAt
    <2>3. a \in Place /\ b \in Place /\ a # b /\ Parted(Holds)
      BY <1>2, PlacesAre DEF OneInv
    <2> HIDE DEF a, b, S
    <2>4. QED BY <2>1, <2>2, <2>3, Moving
  <1>6. OneInv'
    BY <1>1, <1>2, <1>3, <1>4, <1>5 DEF OneInv
  <1>7. QED BY <1>1, <1>4, <1>6 DEF PlaceInv, OwnInv

LEMMA DivertPlaces ==
  ASSUME IInv, PlaceInv, NEW c \in Cores, NEW src \in Queue, NEW dest \in Queue, NEW headtail \in {0, 1},
         src # dest, Divert(c, src, dest, headtail)
  PROVE  PlaceInv'
  <1> DEFINE both == IF headtail = 1 THEN queue[src] \o queue[dest] ELSE queue[dest] \o queue[src]
  <1>1. UNCHANGED <<stage, dma, held, dropped, pc, desc, list>> /\ stage = "enabled"
    BY DEF Divert, Call, locals
  <1>2. OneInv /\ TypeOK
    BY <1>1 DEF PlaceInv, IInv
  <1>3. queue'[src] = <<>> /\ queue'[dest] = both /\ \A r \in Queue \ {src, dest} : queue'[r] = queue[r]
    BY <1>2 DEF Divert, TypeOK
  <1>4. /\ queue[src] \in Seq(Item) /\ queue[dest] \in Seq(Item)
        /\ Distinct(queue[src]) /\ Distinct(queue[dest])
        /\ InQueue(queue[src]) \subseteq Desc
    BY <1>2, QueueTypes DEF OneInv
  <1>5. InQueue(queue[src]) \cap InQueue(queue[dest]) = {}
    <2>1. <<"queue", src>> \in Place /\ <<"queue", dest>> \in Place /\ <<"queue", src>> # <<"queue", dest>>
      BY PlacesAre
    <2>2. \A d \in InQueue(queue[src]) : d \notin InQueue(queue[dest])
      BY <1>2, <1>4, <2>1, HoldsAt, Elsewhere DEF OneInv
    <2>3. QED BY <2>2
  <1>6. Distinct(both) /\ InQueue(both) = InQueue(queue[dest]) \cup InQueue(queue[src])
    <2>1. CASE headtail = 1
      BY <1>4, <1>5, <2>1, Joined
    <2>2. CASE headtail = 0
      BY <1>4, <1>5, <2>2, Joined
    <2>3. QED BY <2>1, <2>2
  <1> HIDE DEF both
  <1>7. Distinct(<<>>) /\ InQueue(<<>>) = {}
    BY DEF Distinct, InQueue
  <1>8. Parted(Holds')
    <2> DEFINE a == <<"queue", src>>
               b == <<"queue", dest>>
               S == InQueue(queue[src])
    <2>1. \A p \in Place \ {a, b} : Holds'[p] = Holds[p]
      BY <1>1, <1>3, Unmoved
    <2>2. Holds'[a] = Holds[a] \ S /\ Holds'[b] = Holds[b] \cup S /\ S \subseteq Holds[a]
      <3>1. Holds[a] = S /\ Holds[b] = InQueue(queue[dest])
        BY HoldsAt
      <3>2. Holds'[a] = {} /\ Holds'[b] = InQueue(queue[dest]) \cup S
        BY <1>3, <1>6, <1>7, HoldsNextAt
      <3>3. QED BY <3>1, <3>2
    <2>3. a \in Place /\ b \in Place /\ a # b /\ Parted(Holds)
      BY <1>2, PlacesAre DEF OneInv
    <2> HIDE DEF a, b, S
    <2>4. QED BY <2>1, <2>2, <2>3, Moving
  <1>9. OneInv'
    BY <1>1, <1>2, <1>3, <1>6, <1>7, <1>8 DEF OneInv
  <1>10. QED BY <1>1, <1>9 DEF PlaceInv, OwnInv

LEMMA EmptyQueuePlaces ==
  ASSUME IInv, PlaceInv, NEW c \in Cores, NEW q \in Queue, NEW given \in BOOLEAN, EmptyQueue(c, q, given)
  PROVE  PlaceInv'
  <1>1. /\ UNCHANGED <<stage, queue, dma, held, dropped, desc>> /\ stage = "enabled" /\ pc[c] = "idle"
        /\ pc' = [pc EXCEPT ![c] = "drain"] /\ list' = [list EXCEPT ![c] = <<>>]
    BY DEF EmptyQueue, Call
  <1>2. list[c] = <<>>
    BY <1>1 DEF PlaceInv, OwnInv
  <1>3. list' = list
    BY <1>1, <1>2 DEF IInv, TypeOK
  <1>4. OneInv'
    BY <1>1, <1>3 DEF PlaceInv, OneInv, Holds
  <1>5. pc'[c] = "drain" /\ \A o \in Cores \ {c} : pc'[o] = pc[o]
    BY <1>1 DEF IInv, TypeOK
  <1>6. QED BY <1>1, <1>3, <1>4, <1>5 DEF PlaceInv, OwnInv

LEMMA DrainPlaces == ASSUME IInv, PlaceInv, NEW c \in Cores, Drain(c) PROVE PlaceInv'
  <1>0. qn[c] \in Queue
    BY DEF Drain, IInv, CallInv
  <1> SUFFICES ASSUME NEW q \in Queue, q = qn[c] PROVE PlaceInv'
    BY <1>0
  <1> DEFINE value == IF queue[q] = <<>> THEN NULL ELSE Head(queue[q]).d
             rest == IF queue[q] = <<>> THEN queue[q] ELSE Tail(queue[q])
  <1>1. /\ UNCHANGED <<stage, dma, held, dropped, pc, desc>> /\ pc[c] = "drain"
        /\ list' = [list EXCEPT ![c] = Append(list[c], value)] /\ queue' = [queue EXCEPT ![q] = rest]
    BY DEF Drain
  <1>2. stage = "enabled" /\ OneInv /\ TypeOK
    BY <1>1 DEF PlaceInv, OwnInv, IInv
  <1>3. queue[q] \in Seq(Item) /\ InQueue(queue[q]) \subseteq Desc /\ NULL \notin Desc
    BY <1>2, QueueTypes, QmssAssumption
  <1>4. /\ Distinct(rest) /\ InQueue(rest) = InQueue(queue[q]) \ {value}
        /\ value \in InQueue(queue[q]) \cup {NULL}
    <2>1. CASE queue[q] = <<>>
      BY <1>2, <1>3, <2>1 DEF OneInv
    <2>2. CASE queue[q] # <<>>
      BY <1>2, <1>3, <2>2, HeadTaken DEF OneInv
    <2>3. QED BY <2>1, <2>2
  <1> HIDE DEF value, rest
  <1>5. value \notin OnList(list[c])
    <2>1. <<"queue", q>> \in Place /\ <<"list", c>> \in Place /\ <<"queue", q>> # <<"list", c>>
      BY PlacesAre
    <2>2. \A d \in InQueue(queue[q]) : d \notin OnList(list[c])
      BY <1>2, <1>3, <2>1, HoldsAt, Elsewhere DEF OneInv
    <2>3. QED BY <1>4, <2>2 DEF OnList
  <1>6. /\ queue'[q] = rest /\ \A r \in Queue \ {q} : queue'[r] = queue[r]
        /\ list'[c] = Append(list[c], value) /\ \A o \in Cores \ {c} : list'[o] = list[o]
    BY <1>1, <1>2 DEF TypeOK
  <1>7. NoTwice(list'[c]) /\ OnList(list'[c]) = OnList(list[c]) \cup ({value} \ {NULL})
    <2>1. list[c] \in Seq(Desc \cup {NULL}) /\ NoTwice(list[c]) /\ value \in Desc \cup {NULL}
      BY <1>2, <1>3, <1>4 DEF TypeOK, OneInv
    <2>2. QED BY <1>5, <1>6, <2>1, ListGrows
  <1>8. Parted(Holds')
    <2> DEFINE a == <<"queue", q>>
               b == <<"list", c>>
               S == {value} \ {NULL}
    <2>1. \A p \in Place \ {a, b} : Holds'[p] = Holds[p]
      BY <1>1, <1>6, Unmoved
    <2>2. Holds'[a] = Holds[a] \ S /\ Holds'[b] = Holds[b] \cup S /\ S \subseteq Holds[a]
      <3>1. Holds[a] = InQueue(queue[q]) /\ Holds[b] = OnList(list[c])
        BY HoldsAt
      <3>2. Holds'[a] = InQueue(queue[q]) \ {value} /\ Holds'[b] = OnList(list[c]) \cup S
        BY <1>4, <1>6, <1>7, HoldsNextAt
      <3>3. NULL \notin InQueue(queue[q])
        BY <1>3
      <3>4. QED BY <1>4, <3>1, <3>2, <3>3
    <2>3. a \in Place /\ b \in Place /\ a # b /\ Parted(Holds)
      BY <1>2, PlacesAre DEF OneInv
    <2> HIDE DEF a, b, S
    <2>4. QED BY <2>1, <2>2, <2>3, Moving
  <1>9. OneInv'
    BY <1>1, <1>2, <1>4, <1>6, <1>7, <1>8 DEF OneInv
  <1>10. QED BY <1>1, <1>2, <1>6, <1>9 DEF PlaceInv, OwnInv

LEMMA DrainedPlaces == ASSUME IInv, PlaceInv, NEW c \in Cores, Drained(c) PROVE PlaceInv'
  <1> DEFINE popped == Range(list[c]) \ {NULL}
  <1>1. UNCHANGED <<stage, queue, dma>> /\ pc[c] = "drain" /\ Return(c)
    BY DEF Drained
  <1>2. stage = "enabled" /\ OneInv /\ TypeOK
    BY <1>1 DEF PlaceInv, OwnInv, IInv
  <1>3. /\ list'[c] = <<>> /\ \A o \in Cores \ {c} : list'[o] = list[o]
        /\ pc'[c] = "idle" /\ \A o \in Cores \ {c} : pc'[o] = pc[o] /\ desc'[o] = desc[o]
    BY <1>1, <1>2 DEF Return, TypeOK
  <1>4. popped = OnList(list[c]) /\ OnList(<<>>) = {} /\ NoTwice(<<>>)
    BY DEF Range, OnList, NoTwice
  <1>5. \/ held' = [held EXCEPT ![c] = held[c] \cup popped] /\ dropped' = dropped
        \/ dropped' = dropped \cup popped /\ held' = held
    BY DEF Drained
  <1> HIDE DEF popped
  <1>6. /\ \A o \in Cores \ {c} : held'[o] = held[o]
        /\ \/ held'[c] = held[c] \cup popped /\ dropped' = dropped
           \/ dropped' = dropped \cup popped /\ held'[c] = held[c]
    BY <1>2, <1>5 DEF TypeOK
  <1>7. Parted(Holds')
    <2> DEFINE a == <<"list", c>>
               S == popped
    <2>1. a \in Place /\ Parted(Holds) /\ Holds'[a] = Holds[a] \ S /\ S \subseteq Holds[a]
      <3>1. a \in Place /\ Parted(Holds)
        BY <1>2, PlacesAre DEF OneInv
      <3>2. Holds[a] = S /\ Holds'[a] = {}
        BY <1>3, <1>4, HoldsAt, HoldsNextAt
      <3>3. QED BY <3>1, <3>2
    <2>2. CASE held'[c] = held[c] \cup popped /\ dropped' = dropped
      <3> DEFINE b == <<"held", c>>
      <3>1. \A p \in Place \ {a, b} : Holds'[p] = Holds[p]
        BY <1>1, <1>3, <1>6, <2>2, Unmoved
      <3>2. Holds'[b] = Holds[b] \cup S /\ a # b /\ b \in Place
        BY <2>2, PlacesAre, HoldsAt, HoldsNextAt
      <3> HIDE DEF a, b, S
      <3>3. QED BY <2>1, <3>1, <3>2, Moving
    <2>3. CASE dropped' = dropped \cup popped /\ held'[c] = held[c]
      <3> DEFINE b == <<"dropped", NULL>>
      <3>1. \A p \in Place \ {a, b} : Holds'[p] = Holds[p]
        BY <1>1, <1>3, <1>6, <2>3, Unmoved
      <3>2. Holds'[b] = Holds[b] \cup S /\ a # b /\ b \in Place
        BY <2>3, PlacesAre, HoldsAt, HoldsNextAt
      <3> HIDE DEF a, b, S
      <3>3. QED BY <2>1, <3>1, <3>2, Moving
    <2>4. QED BY <1>6, <2>2, <2>3
  <1>8. OneInv'
    BY <1>1, <1>2, <1>3, <1>4, <1>7 DEF OneInv
  <1>9. QED BY <1>1, <1>2, <1>3, <1>6, <1>8 DEF PlaceInv, OwnInv

LEMMA FetchPlaces == ASSUME IInv, PlaceInv, NEW ch \in Channel, Fetch(ch) PROVE PlaceInv'
  <1> DEFINE tx == TxQueue(ch)
             free == FreeOf(ch)
             x == Head(queue[tx]).d
             y == Head(queue[free]).d
  <1>1. /\ UNCHANGED <<stage, held, dropped, pc, desc, list>> /\ stage = "enabled" /\ dma[ch] = <<>>
        /\ queue[tx] # <<>> /\ queue[free] # <<>>
        /\ dma' = [dma EXCEPT ![ch] = <<x, y>>]
        /\ queue' = [queue EXCEPT ![tx] = Tail(@), ![free] = Tail(@)]
    BY DEF Fetch, locals
  <1>2. OneInv /\ TypeOK
    BY <1>1 DEF PlaceInv, IInv
  <1>3. tx \in Queue /\ free \in Queue /\ tx # free
    BY FlowNumbers, QueueNumbers DEF Channel
  <1> HIDE DEF tx, free
  <1>4. /\ Distinct(Tail(queue[tx])) /\ InQueue(Tail(queue[tx])) = InQueue(queue[tx]) \ {x}
        /\ Distinct(Tail(queue[free])) /\ InQueue(Tail(queue[free])) = InQueue(queue[free]) \ {y}
        /\ x \in InQueue(queue[tx]) /\ y \in InQueue(queue[free]) /\ x \in Desc
    BY <1>1, <1>2, <1>3, QueueTypes, HeadTaken DEF OneInv
  <1> HIDE DEF x, y
  <1>5. /\ queue'[tx] = Tail(queue[tx]) /\ queue'[free] = Tail(queue[free])
        /\ \A r \in Queue \ {tx, free} : queue'[r] = queue[r]
        /\ dma'[ch] = <<x, y>> /\ \A o \in Channel \ {ch} : dma'[o] = dma[o]
    BY <1>1, <1>2, <1>3 DEF TypeOK
  <1> DEFINE a == <<"queue", tx>>
             b == <<"queue", free>>
             into == <<"dma", ch>>
  <1>6. a \in Place /\ b \in Place /\ into \in Place /\ a # b /\ into # a /\ into # b
    BY <1>3, PlacesAre
  <1>7. Holds[a] = InQueue(queue[tx]) /\ Holds[b] = InQueue(queue[free]) /\ Holds[into] = {}
    BY <1>1, <1>3, HoldsAt DEF Range
  <1>8. Holds'[a] = Holds[a] \ {x} /\ Holds'[b] = Holds[b] \ {y} /\ Holds'[into] = {x, y}
    <2>1. Range(dma'[ch]) = {x, y}
      BY <1>5, PairRange
    <2>2. Holds'[a] = InQueue(queue'[tx]) /\ Holds'[b] = InQueue(queue'[free]) /\ Holds'[into] = Range(dma'[ch])
      BY <1>3, HoldsNextAt
    <2>3. QED BY <1>4, <1>5, <1>7, <2>1, <2>2
  <1>9. \A p \in Place \ {a, b, into} : Holds'[p] = Holds[p]
    BY <1>1, <1>5, Unmoved
  <1> HIDE DEF a, b, into
  <1>10. x # y
    BY <1>2, <1>4, <1>6, <1>7, Elsewhere DEF OneInv
  <1>11. Parted(Holds')
    <2>1. x \in Holds[a] /\ y \in Holds[b] /\ Holds'[into] = Holds[into] \cup {x, y} /\ Parted(Holds)
      BY <1>2, <1>4, <1>7, <1>8 DEF OneInv
    <2>2. QED BY <2>1, <1>6, <1>8, <1>9, DomainHolds, MovingIn
  <1>12. OneInv'
    <2>1. \A q \in Queue : Distinct(queue'[q])
      BY <1>2, <1>4, <1>5 DEF OneInv
    <2>2. dma'[ch][1] = x /\ dma'[ch][2] = y
      BY <1>5
    <2>3. \A o \in Channel : dma'[o] # <<>> => dma'[o][1] # dma'[o][2]
      BY <1>2, <1>5, <1>10, <2>2 DEF OneInv
    <2>4. QED BY <1>1, <1>2, <1>11, <2>1, <2>3 DEF OneInv
  <1>13. QED BY <1>1, <1>12 DEF PlaceInv, OwnInv

LEMMA DeliverPlaces == ASSUME IInv, PlaceInv, NEW ch \in Channel, Deliver(ch) PROVE PlaceInv'
  <1>1. /\ dma[ch] # <<>> /\ dma[ch] \in Desc \X Desc
        /\ dma[ch][1] \in Kind(TxQueue(ch)) /\ dma[ch][2] \in Kind(FreeOf(ch))
    BY DEF Deliver, IInv, TypeOK, DmaInv
  <1> SUFFICES ASSUME NEW x \in Desc, NEW y \in Desc, x = dma[ch][1], y = dma[ch][2], dma[ch] = <<x, y>>
               PROVE  PlaceInv'
    BY <1>1
  <1> SUFFICES ASSUME NEW back, NEW dest, back = ReturnOf(x), dest = DestOf(ch) PROVE PlaceInv'
    OBVIOUS
  <1> DEFINE e == Entry(x, NoSize, FALSE)
             f == Entry(y, y, TRUE)
  <1>2. back \in Queue /\ dest \in Queue /\ back # dest
    <2>1. ch = 0 \/ ch = 1
      BY DEF Channel
    <2>2. CASE ch = 0
      BY <1>1, <2>2, FlowNumbers, ReturnKind, QueueNumbers DEF Kind
    <2>3. CASE ch = 1
      BY <1>1, <2>3, FlowNumbers, ReturnKind, QueueNumbers DEF Kind
    <2>4. QED BY <2>1, <2>2, <2>3
  <1>3. /\ UNCHANGED <<stage, held, dropped, pc, desc, list>>
        /\ dma' = [dma EXCEPT ![ch] = <<>>]
        /\ queue' = [queue EXCEPT ![back] = Append(@, e), ![dest] = Append(@, f)]
    BY DEF Deliver, locals
  <1>4. stage = "enabled" /\ OneInv /\ TypeOK /\ x # y
    BY <1>1 DEF PlaceInv, OwnInv, OneInv, IInv
  <1>5. e \in Item /\ e.d = x /\ f \in Item /\ f.d = y
    BY DEF Entry, Item
  <1> HIDE DEF e, f
  <1>6. /\ queue'[back] = Append(queue[back], e) /\ queue'[dest] = Append(queue[dest], f)
        /\ \A r \in Queue \ {back, dest} : queue'[r] = queue[r]
        /\ dma'[ch] = <<>> /\ \A o \in Channel \ {ch} : dma'[o] = dma[o]
    BY <1>2, <1>3, <1>4 DEF TypeOK
  <1> DEFINE a == <<"queue", back>>
             b == <<"queue", dest>>
             from == <<"dma", ch>>
  <1>7. a \in Place /\ b \in Place /\ from \in Place /\ a # b /\ from # a /\ from # b
    BY <1>2, PlacesAre
  <1>8. Holds[a] = InQueue(queue[back]) /\ Holds[b] = InQueue(queue[dest]) /\ Holds[from] = {x, y}
    <2>1. Range(dma[ch]) = {x, y}
      BY PairRange
    <2>2. QED BY <1>2, <2>1, HoldsAt
  <1>9. Holds'[a] = InQueue(queue'[back]) /\ Holds'[b] = InQueue(queue'[dest]) /\ Holds'[from] = {}
    <2>1. Range(dma'[ch]) = {}
      BY <1>6 DEF Range
    <2>2. QED BY <1>2, <2>1, HoldsNextAt
  <1>10. \A p \in Place \ {a, b, from} : Holds'[p] = Holds[p]
    <2>1. \A q \in Queue : <<"queue", q>> \notin {a, b, from} => queue'[q] = queue[q]
      BY <1>6
    <2>2. \A o \in Channel : <<"dma", o>> \notin {a, b, from} => dma'[o] = dma[o]
      BY <1>6
    <2>3. QED BY <1>3, <2>1, <2>2, Unmoved
  <1> HIDE DEF a, b, from
  <1>11. x \notin InQueue(queue[back]) /\ y \notin InQueue(queue[dest])
    BY <1>4, <1>7, <1>8, Elsewhere DEF OneInv
  <1>12. /\ Distinct(queue'[back]) /\ InQueue(queue'[back]) = InQueue(queue[back]) \cup {x}
         /\ Distinct(queue'[dest]) /\ InQueue(queue'[dest]) = InQueue(queue[dest]) \cup {y}
    BY <1>2, <1>4, <1>5, <1>6, <1>11, QueueTypes, EntryAdded DEF OneInv
  <1>13. Parted(Holds')
    <2>1. Holds'[a] = Holds[a] \cup {x} /\ Holds'[b] = Holds[b] \cup {y} /\ Parted(Holds)
      BY <1>4, <1>8, <1>9, <1>12 DEF OneInv
    <2>2. x # y /\ Holds[from] = {x, y} /\ Holds'[from] = {}
      BY <1>4, <1>8, <1>9
    <2>3. QED BY ONLY <1>7, <1>10, <2>1, <2>2, DomainHolds, MovingOut
  <1>14. OneInv'
    BY <1>3, <1>4, <1>6, <1>12, <1>13 DEF OneInv
  <1>15. QED BY <1>3, <1>4, <1>6, <1>14 DEF PlaceInv, OwnInv

(* main() puts every descriptor on one queue. *)
LEMMA FillPlaces == ASSUME IInv, PlaceInv, Fill PROVE PlaceInv'
  <1>1. /\ UNCHANGED <<dma, held, dropped, pc, desc, list>> /\ stage = "reset" /\ stage' = "filled"
        /\ \A q \in Queue : queue'[q] = [i \in DOMAIN FilledWith(q) |-> Entry(FilledWith(q)[i], NoSize, FALSE)]
    BY DEF Fill, locals
  <1>2. OwnInv'
    BY <1>1 DEF PlaceInv, OwnInv
  <1>3. /\ \A c \in Cores : held'[c] = {} /\ list'[c] = <<>>
        /\ \A ch \in Channel : dma'[ch] = <<>>
        /\ dropped' = {}
    BY <1>1 DEF PlaceInv, OwnInv
  <1>4. ASSUME NEW q \in Queue
        PROVE  Distinct(queue'[q]) /\ InQueue(queue'[q]) = Range(FilledWith(q))
    <2>1. queue'[q] = [i \in DOMAIN FilledWith(q) |-> Entry(FilledWith(q)[i], NoSize, FALSE)]
      BY <1>1
    <2>2. IsInjective(FilledWith(q))
      <3>1. IsInjective(HostTx) /\ IsInjective(HostRx) /\ IsInjective(MonoTx) /\ IsInjective(MonoRx)
        BY QmssAssumption DEF Arrays
      <3>2. IsInjective(<<>>)
        BY DEF IsInjective
      <3>3. QED BY <3>1, <3>2, Filled, QueueNumbers
    <2>3. /\ DOMAIN queue'[q] = DOMAIN FilledWith(q)
          /\ \A i \in DOMAIN FilledWith(q) : queue'[q][i].d = FilledWith(q)[i]
      BY <2>1 DEF Entry
    <2>4. Distinct(queue'[q])
      BY <2>2, <2>3 DEF Distinct, IsInjective
    <2>5. InQueue(queue'[q]) = Range(FilledWith(q))
      BY <2>3 DEF InQueue, Range
    <2>6. QED BY <2>4, <2>5
  <1>5. \A p \in Place : Holds'[p] # {} => \E q \in Queue : p = <<"queue", q>> /\ Holds'[p] = Range(FilledWith(q))
    <2>1. OnList(<<>>) = {} /\ Range(<<>>) = {}
      BY DEF OnList, Range
    <2>2. SUFFICES ASSUME NEW p \in Place, ~ \E q \in Queue : p = <<"queue", q>> PROVE Holds'[p] = {}
      BY <1>4, HoldsNextAt
    <2>3. QED BY <1>3, <2>1, <2>2, PlacesAre, HoldsNextAt
  <1>6. Parted(Holds')
    <2> SUFFICES ASSUME NEW d \in Desc
                 PROVE  \E p \in Place : d \in Holds'[p] /\ \A r \in Place : d \in Holds'[r] => r = p
      BY DEF Parted
    <2>1. PICK q \in {5000, 5001, 7000, 7001} : d \in Range(FilledWith(q))
      BY Filled DEF Desc
    <2>2. \A r \in Queue : d \in Range(FilledWith(r)) => r = q
      <3>1. Range(<<>>) = {}
        BY DEF Range
      <3>2. QED BY <2>1, <3>1, Filled, Disjoint, QueueNumbers
    <2>3. <<"queue", q>> \in Place /\ d \in Holds'[<<"queue", q>>]
      BY <1>4, <2>1, QueueNumbers, PlacesAre, HoldsNextAt
    <2>4. \A r \in Place : d \in Holds'[r] => r = <<"queue", q>>
      BY <1>5, <2>2
    <2>5. QED BY <2>3, <2>4
  <1>7. OneInv'
    BY <1>3, <1>4, <1>6 DEF OneInv, NoTwice
  <1>8. QED BY <1>2, <1>7 DEF PlaceInv

LEMMA InitPlaces == Init => PlaceInv
  BY DEF Init, PlaceInv, OwnInv

LEMMA NextPlaces == IInv /\ PlaceInv /\ [Next]_vars => PlaceInv'
  <1> SUFFICES ASSUME IInv, PlaceInv, [Next]_vars PROVE PlaceInv'
    OBVIOUS
  <1>1. ASSUME NEW c \in Cores, NEW q \in Queue, Pop(c, q) PROVE PlaceInv'
    BY <1>1, PopPlaces
  <1>2. ASSUME NEW c \in Cores, NEW q \in Queue, NEW given \in BOOLEAN, EmptyQueue(c, q, given)
        PROVE  PlaceInv'
    BY <1>2, EmptyQueuePlaces
  <1>3. ASSUME NEW c \in Cores, NEW q \in Queue, NEW d \in held[c], PushC(c, q, d) PROVE PlaceInv'
    BY <1>3, PushCPlaces
  <1>4. ASSUME NEW c \in Cores, NEW q \in Queue, NEW d \in held[c], NEW mode \in {1, 2},
               Push(c, q, d, mode)
        PROVE  PlaceInv'
    BY <1>4, PushPlaces
  <1>5. ASSUME NEW c \in Cores, NEW r \in Circuit, NEW headtail \in {0, 1},
               Divert(c, r[1], r[2], headtail) \/ Divert(c, r[2], r[1], headtail)
        PROVE  PlaceInv'
    <2>1. r[1] \in Queue /\ r[2] \in Queue /\ r[1] # r[2]
      BY CircuitKind DEF Circuit
    <2>2. QED BY <1>5, <2>1, DivertPlaces
  <1>6. ASSUME NEW c \in Cores, PushD(c) \/ Drain(c) \/ Drained(c) PROVE PlaceInv'
    BY <1>6, PushDPlaces, DrainPlaces, DrainedPlaces
  <1>7. ASSUME NEW ch \in Channel, Fetch(ch) \/ Deliver(ch) PROVE PlaceInv'
    BY <1>7, FetchPlaces, DeliverPlaces
  <1>8. CASE Fill
    BY <1>8, FillPlaces
  <1>9. CASE Configure \/ EnableChannels \/ UNCHANGED vars
    <2>1. UNCHANGED <<queue, dma, held, dropped, pc, desc, list>>
          /\ (stage' = stage \/ (stage # "enabled" /\ stage # "reset" /\ stage' # "reset"))
      BY <1>9 DEF Configure, EnableChannels, Proceed, vars, locals
    <2>2. QED BY <2>1 DEF PlaceInv, OwnInv, OneInv, Holds
  <1>10. QED BY <1>1, <1>2, <1>3, <1>4, <1>5, <1>6, <1>7, <1>8, <1>9 DEF Next

(* What is at a place is there once. *)
LEMMA ContentHolds ==
  ASSUME IInv, OneInv, NEW p \in Place
  PROVE  /\ Holds[p] = {Content(p)[i] : i \in DOMAIN Content(p)}
         /\ \A i, j \in DOMAIN Content(p) : Content(p)[i] = Content(p)[j] => i = j
         /\ Holds[p] \subseteq Desc
  <1>1. CASE \E q \in Queue : p = <<"queue", q>>
    <2>1. PICK q \in Queue : p = <<"queue", q>>
      BY <1>1
    <2>2. Content(p) = [i \in DOMAIN queue[q] |-> queue[q][i].d]
      BY <2>1 DEF Content
    <2>3. Holds[p] = InQueue(queue[q]) /\ InQueue(queue[q]) \subseteq Desc /\ Distinct(queue[q])
      BY <2>1, HoldsAt, QueueTypes DEF IInv, OneInv
    <2>4. QED BY <2>2, <2>3 DEF InQueue, Distinct
  <1>2. CASE \E ch \in Channel : p = <<"dma", ch>>
    <2>1. PICK ch \in Channel : p = <<"dma", ch>>
      BY <1>2
    <2>2. Content(p) = dma[ch]
      BY <2>1 DEF Content
    <2>3. Holds[p] = Range(dma[ch])
      BY <2>1, HoldsAt
    <2>4. CASE dma[ch] = <<>>
      BY <2>2, <2>3, <2>4 DEF Range
    <2>5. CASE dma[ch] # <<>>
      <3>1. PICK x \in Desc, y \in Desc : dma[ch] = <<x, y>> /\ x # y
        BY <2>5 DEF IInv, TypeOK, OneInv
      <3>2. DOMAIN Content(p) = {1, 2} /\ Content(p)[1] = x /\ Content(p)[2] = y
        BY <2>2, <3>1
      <3>3. Holds[p] = {x, y}
        BY <2>3, <3>1, PairRange
      <3>4. QED BY <3>1, <3>2, <3>3
    <2>6. QED BY <2>4, <2>5
  <1>3. CASE \E c \in Cores : p = <<"list", c>>
    <2>1. PICK c \in Cores : p = <<"list", c>>
      BY <1>3
    <2>2. Content(p) = [i \in {j \in DOMAIN list[c] : list[c][j] # NULL} |-> list[c][i]]
      BY <2>1 DEF Content, RestrictValues, Restrict
    <2>3. Holds[p] = OnList(list[c]) /\ NoTwice(list[c])
      BY <2>1, HoldsAt DEF OneInv
    <2>4. \A i \in DOMAIN list[c] : list[c][i] \in Desc \cup {NULL}
      BY DEF IInv, TypeOK
    <2>5. QED BY <2>2, <2>3, <2>4 DEF OnList, NoTwice
  <1>4. CASE \E c \in Cores : p = <<"held", c>>
    <2>1. PICK c \in Cores : p = <<"held", c>>
      BY <1>4
    <2>2. Content(p) = [d \in held[c] |-> d] /\ Holds[p] = held[c] /\ held[c] \subseteq Desc
      BY <2>1, HoldsAt DEF Content, IInv, TypeOK
    <2>3. QED BY <2>2
  <1>5. CASE p = <<"dropped", NULL>>
    <2>1. Content(p) = [d \in dropped |-> d] /\ Holds[p] = dropped /\ dropped \subseteq Desc
      BY <1>5, HoldsAt DEF Content, IInv, TypeOK
    <2>2. QED BY <2>1
  <1>6. QED BY <1>1, <1>2, <1>3, <1>4, <1>5, PlacesAre

(* However many cores push, pop, drain and divert the same queues while    *)
(* the DMA works, each descriptor main() has initialised is in exactly one *)
(* place: on a queue, at a channel, on the list of a drain, owned by a     *)
(* core, or dropped by a drain that was given no list.                     *)
THEOREM NothingLost == Spec => []Conserved
  <1>1. Spec => []PlaceInv
    BY InitPlaces, NextPlaces, Invariant, PTL DEF Spec
  <1>2. ASSUME IInv, PlaceInv PROVE Conserved
    <2> SUFFICES ASSUME OneInv PROVE
          /\ \A d \in Desc : \E s \in Slots : Content(s[1])[s[2]] = d
          /\ \A s, t \in Slots : Content(s[1])[s[2]] = Content(t[1])[t[2]] => s = t
      BY <1>2 DEF Conserved, PlaceInv
    <2>1. /\ \A p \in Place : \A i \in DOMAIN Content(p) : <<p, i>> \in Slots
          /\ \A s \in Slots : s[1] \in Place /\ s[2] \in DOMAIN Content(s[1]) /\ s = <<s[1], s[2]>>
      BY DEF Slots
    <2>2. ASSUME NEW d \in Desc PROVE \E s \in Slots : Content(s[1])[s[2]] = d
      <3>1. PICK p \in Place : d \in Holds[p]
        BY DEF OneInv, Parted
      <3>2. PICK i \in DOMAIN Content(p) : Content(p)[i] = d
        BY <1>2, <3>1, ContentHolds
      <3>3. <<p, i>> \in Slots
        BY <2>1
      <3>4. QED BY <3>2, <3>3
    <2>3. ASSUME NEW s \in Slots, NEW t \in Slots, Content(s[1])[s[2]] = Content(t[1])[t[2]] PROVE s = t
      <3>1. PICK d : d = Content(s[1])[s[2]]
        OBVIOUS
      <3>2. d \in Holds[s[1]] /\ d \in Holds[t[1]] /\ d \in Desc
        BY <1>2, <2>1, <2>3, <3>1, ContentHolds
      <3>3. s[1] = t[1]
        BY <2>1, <3>2 DEF OneInv, Parted
      <3>4. s[2] = t[2]
        BY <1>2, <2>1, <2>3, <3>3, ContentHolds
      <3>5. QED BY <2>1, <3>3, <3>4
    <2>4. QED BY <2>2, <2>3
  <1>3. QED BY <1>1, <1>2, Invariant, PTL

-----------------------------------------------------------------------------
(* A drain *)

(* While nobody else changes the queue, what is left of it and the list    *)
(* are the two parts of what was there when the count was read.            *)
DrainAt(c) ==
  /\ qn[c] \in Queue /\ seen[c] \in Seq(Item) /\ count[c] = Len(seen[c])
  /\ ~ touched[c] =>
       /\ Len(list[c]) + Len(queue[qn[c]]) = Len(seen[c])
       /\ \A i \in 1 .. Len(list[c]) : list[c][i] = seen[c][i].d
       /\ \A i \in 1 .. Len(queue[qn[c]]) : queue[qn[c]][i] = seen[c][Len(list[c]) + i]

DrainInv ==
  /\ touched = [c \in Cores |-> touched[c]] /\ seen = [c \in Cores |-> seen[c]]
  /\ \A c \in Cores : touched[c] \in BOOLEAN
  /\ \A c \in Cores : pc[c] = "drain" => DrainAt(c)

LEMMA InitDrain == Init => DrainInv
  BY DEF Init, DrainInv

(* A drain that a step of somebody else leaves alone, or marks as touched. *)
LEMMA DrainStays ==
  ASSUME NEW o \in Cores, DrainAt(o), qn'[o] = qn[o], list'[o] = list[o], count'[o] = count[o], seen'[o] = seen[o],
         ~ touched'[o] => ~ touched[o] /\ queue'[qn[o]] = queue[qn[o]]
  PROVE  DrainAt(o)'
  BY DEF DrainAt

LEMMA Touching ==
  ASSUME NEW a, NEW Q, Touches(a, Q)
  PROVE  /\ touched' = [o \in Cores |-> touched'[o]]
         /\ \A o \in Cores : touched'[o] \in BOOLEAN \/ touched'[o] = touched[o]
         /\ \A o \in Cores : o # a /\ pc[o] = "drain" /\ ~ touched'[o] => ~ touched[o] /\ qn[o] \notin Q
  BY DEF Touches

(* Steps that only change the queues they say they do, and no drain. *)
LEMMA DrainOthers ==
  ASSUME IInv, DrainInv, NEW a, NEW Q, Touches(a, Q), UNCHANGED <<count, list, seen>>,
         \A q \in Queue \ Q : queue'[q] = queue[q],
         \A o \in Cores : pc'[o] = "drain" => pc[o] = "drain" /\ o # a /\ qn'[o] = qn[o]
  PROVE  DrainInv'
  <1>1. touched' = [o \in Cores |-> touched'[o]] /\ \A o \in Cores : touched'[o] \in BOOLEAN
    BY DEF Touches, DrainInv
  <1>2. ASSUME NEW o \in Cores, pc'[o] = "drain" PROVE DrainAt(o)'
    <2>1. pc[o] = "drain" /\ o # a /\ qn'[o] = qn[o] /\ DrainAt(o) /\ qn[o] \in Queue
      BY <1>2 DEF DrainInv, DrainAt
    <2>2. ~ touched'[o] => ~ touched[o] /\ qn[o] \notin Q
      BY <2>1, Touching
    <2>3. QED BY <2>1, <2>2, DrainStays
  <1>3. QED BY <1>1, <1>2 DEF DrainInv

LEMMA DrainSetUp ==
  ASSUME IInv, PlaceInv, DrainInv, Fill \/ Configure \/ EnableChannels \/ UNCHANGED vars
  PROVE  DrainInv'
  <1>1. CASE Configure \/ EnableChannels \/ UNCHANGED vars
    <2>1. UNCHANGED <<queue, pc, qn, count, list, seen, touched>>
      BY <1>1 DEF Configure, EnableChannels, Proceed, vars, locals
    <2>2. QED BY <2>1, DrainStays DEF DrainInv
  <1>2. CASE Fill
    <2>1. pc' = pc /\ touched' = touched /\ seen' = seen /\ \A c \in Cores : pc[c] = "idle"
      BY <1>2 DEF Fill, locals, PlaceInv, OwnInv
    <2>2. QED BY <2>1 DEF DrainInv
  <1>3. QED BY <1>1, <1>2

LEMMA DrainPush ==
  ASSUME IInv, DrainInv, NEW c \in Cores, NEW q \in Queue, NEW d \in held[c], NEW mode \in {1, 2},
         Push(c, q, d, mode)
  PROVE  DrainInv'
  <1>1. /\ pc[c] = "idle" /\ UNCHANGED <<pc, qn, count, list, seen>> /\ Touches(c, {q})
        /\ \A r \in Queue \ {q} : queue'[r] = queue[r]
    BY DEF Push, Call, WriteD, locals, IInv, TypeOK
  <1>2. QED BY <1>1, DrainOthers

LEMMA DrainPushC ==
  ASSUME IInv, DrainInv, NEW c \in Cores, NEW q \in Queue, NEW d \in held[c], PushC(c, q, d)
  PROVE  DrainInv'
  <1>1. /\ UNCHANGED <<queue, count, list, seen, touched>>
        /\ pc' = [pc EXCEPT ![c] = "pushd"] /\ qn' = [qn EXCEPT ![c] = q]
    BY DEF PushC
  <1>2. \A o \in Cores : pc'[o] = "drain" => pc[o] = "drain" /\ qn'[o] = qn[o]
    BY <1>1 DEF IInv, TypeOK
  <1>3. QED BY <1>1, <1>2, DrainStays DEF DrainInv

LEMMA DrainPushD == ASSUME IInv, PlaceInv, DrainInv, NEW c \in Cores, PushD(c) PROVE DrainInv'
  <1>1. /\ pc[c] = "pushd" /\ Return(c) /\ Touches(c, {qn[c]})
        /\ \A r \in Queue \ {qn[c]} : queue'[r] = queue[r]
    BY DEF PushD, WriteD, IInv, TypeOK
  <1>2. touched' = [o \in Cores |-> touched'[o]] /\ \A o \in Cores : touched'[o] \in BOOLEAN
    BY <1>1 DEF Touches, DrainInv
  <1>3. seen' = [o \in Cores |-> seen'[o]]
    BY <1>1 DEF Return, DrainInv
  <1>4. ASSUME NEW o \in Cores, pc'[o] = "drain" PROVE DrainAt(o)'
    <2>1. o # c
      BY <1>1, <1>4 DEF Return, IInv, TypeOK
    <2>2. /\ pc[o] = "drain" /\ qn'[o] = qn[o] /\ list'[o] = list[o] /\ count'[o] = count[o]
          /\ seen'[o] = seen[o]
      <3>1. /\ pc' = [pc EXCEPT ![c] = "idle"] /\ qn' = [qn EXCEPT ![c] = 0]
            /\ count' = [count EXCEPT ![c] = 0] /\ list' = [list EXCEPT ![c] = <<>>]
            /\ seen' = [seen EXCEPT ![c] = <<>>]
        BY <1>1 DEF Return
      <3>2. /\ pc = [p \in Cores |-> pc[p]] /\ qn = [p \in Cores |-> qn[p]] /\ count = [p \in Cores |-> count[p]]
            /\ list = [p \in Cores |-> list[p]] /\ seen = [p \in Cores |-> seen[p]]
        BY DEF IInv, TypeOK, DrainInv
      <3>3. QED BY <1>4, <2>1, <3>1, <3>2
    <2>3. DrainAt(o) /\ qn[o] \in Queue
      BY <2>2 DEF DrainInv, DrainAt
    <2>4. ~ touched'[o] => ~ touched[o] /\ qn[o] # qn[c]
      BY <1>1, <2>1, <2>2, Touching
    <2>5. QED BY <1>1, <2>2, <2>3, <2>4, DrainStays
  <1>5. QED BY <1>2, <1>3, <1>4 DEF DrainInv

LEMMA DrainPop ==
  ASSUME IInv, DrainInv, NEW c \in Cores, NEW q \in Queue, Pop(c, q)
  PROVE  DrainInv'
  <1>1. /\ pc[c] = "idle" /\ UNCHANGED <<pc, qn, count, list, seen>> /\ Touches(c, {q})
        /\ \A r \in Queue \ {q} : queue'[r] = queue[r]
    BY DEF Pop, Call, locals, IInv, TypeOK
  <1>2. QED BY <1>1, DrainOthers

LEMMA DrainDivert ==
  ASSUME IInv, DrainInv, NEW c \in Cores, NEW src \in Queue, NEW dest \in Queue, NEW headtail \in {0, 1},
         Divert(c, src, dest, headtail)
  PROVE  DrainInv'
  <1>1. /\ pc[c] = "idle" /\ UNCHANGED <<pc, qn, count, list, seen>> /\ Touches(c, {src, dest})
        /\ \A r \in Queue \ {src, dest} : queue'[r] = queue[r]
    BY DEF Divert, Call, locals, IInv, TypeOK
  <1>2. QED BY <1>1, DrainOthers

LEMMA DrainBegins ==
  ASSUME IInv, DrainInv, NEW c \in Cores, NEW q \in Queue, NEW given \in BOOLEAN, EmptyQueue(c, q, given)
  PROVE  DrainInv'
  <1>1. /\ queue' = queue /\ pc' = [pc EXCEPT ![c] = "drain"] /\ qn' = [qn EXCEPT ![c] = q]
        /\ count' = [count EXCEPT ![c] = Len(queue[q])] /\ list' = [list EXCEPT ![c] = <<>>]
        /\ seen' = [seen EXCEPT ![c] = queue[q]] /\ touched' = [touched EXCEPT ![c] = FALSE]
    BY DEF EmptyQueue
  <1>2. /\ pc = [p \in Cores |-> pc[p]] /\ qn = [p \in Cores |-> qn[p]] /\ count = [p \in Cores |-> count[p]]
        /\ list = [p \in Cores |-> list[p]] /\ seen = [p \in Cores |-> seen[p]]
        /\ touched = [p \in Cores |-> touched[p]] /\ \A p \in Cores : touched[p] \in BOOLEAN
    BY DEF IInv, TypeOK, DrainInv
  <1>3. /\ qn'[c] = q /\ count'[c] = Len(queue[q]) /\ list'[c] = <<>> /\ seen'[c] = queue[q]
        /\ \A o \in Cores \ {c} :
             /\ pc'[o] = pc[o] /\ qn'[o] = qn[o] /\ count'[o] = count[o] /\ list'[o] = list[o]
             /\ seen'[o] = seen[o] /\ touched'[o] = touched[o]
    BY <1>1, <1>2
  <1>4. /\ touched' = [p \in Cores |-> touched'[p]] /\ seen' = [p \in Cores |-> seen'[p]]
        /\ \A p \in Cores : touched'[p] \in BOOLEAN
    BY <1>1, <1>2
  <1>5. DrainAt(c)'
    <2>1. queue[q] \in Seq(Item) /\ Len(<<>>) = 0
      BY QueueTypes DEF IInv
    <2>2. Len(queue[q]) \in Nat /\ \A i \in 1 .. Len(queue[q]) : 0 + i = i
      BY <2>1
    <2>3. queue'[qn'[c]] = queue[q] /\ Len(list'[c]) = 0
      BY <1>1, <1>3, <2>1
    <2>4. /\ Len(list'[c]) + Len(queue'[qn'[c]]) = Len(seen'[c])
          /\ \A i \in 1 .. Len(list'[c]) : list'[c][i] = seen'[c][i].d
          /\ \A i \in 1 .. Len(queue'[qn'[c]]) : queue'[qn'[c]][i] = seen'[c][Len(list'[c]) + i]
      BY <1>3, <2>2, <2>3
    <2>5. QED BY <1>3, <2>1, <2>4 DEF DrainAt
  <1>6. ASSUME NEW o \in Cores \ {c}, pc'[o] = "drain" PROVE DrainAt(o)'
    BY <1>1, <1>3, <1>6, DrainStays DEF DrainInv
  <1>7. QED BY <1>4, <1>5, <1>6 DEF DrainInv

(* One pop of the drain, on what is left of the queue. *)
LEMMA DrainGoesOn ==
  ASSUME NEW s \in Seq(Item), NEW l \in Seq(Desc \cup {NULL}), NEW w \in Seq(Item), Len(l) < Len(s),
         Len(l) + Len(w) = Len(s), \A i \in 1 .. Len(l) : l[i] = s[i].d,
         \A i \in 1 .. Len(w) : w[i] = s[Len(l) + i]
  PROVE  /\ w # <<>> /\ Len(Append(l, Head(w).d)) = Len(l) + 1 /\ Len(Tail(w)) = Len(w) - 1
         /\ \A i \in 1 .. Len(l) + 1 : Append(l, Head(w).d)[i] = s[i].d
         /\ \A i \in 1 .. Len(w) - 1 : Tail(w)[i] = s[Len(l) + 1 + i]
  <1> DEFINE m == Len(l)
             n == Len(w)
             k == Append(l, Head(w).d)
             t == Tail(w)
  <1>1. m \in Nat /\ n \in Nat \ {0} /\ w # <<>> /\ Head(w) = w[1]
    OBVIOUS
  <1>2. Len(k) = m + 1 /\ k[m + 1] = w[1].d /\ \A i \in 1 .. m : k[i] = l[i]
    BY <1>1
  <1>3. Len(t) = n - 1 /\ \A i \in 1 .. n - 1 : t[i] = w[i + 1]
    BY <1>1
  <1> HIDE DEF m, n, k, t
  <1>4. w[1] = s[m + 1]
    BY <1>1 DEF m, n
  <1>5. \A i \in 1 .. m + 1 : k[i] = s[i].d
    <2> SUFFICES ASSUME NEW i \in 1 .. m + 1 PROVE k[i] = s[i].d
      OBVIOUS
    <2>1. CASE i \in 1 .. m
      BY <1>2, <2>1 DEF m
    <2>2. CASE i = m + 1
      BY <1>2, <1>4, <2>2
    <2>3. QED BY <1>1, <2>1, <2>2
  <1>6. \A i \in 1 .. n - 1 : t[i] = s[m + 1 + i]
    <2> SUFFICES ASSUME NEW i \in 1 .. n - 1 PROVE t[i] = s[m + 1 + i]
      OBVIOUS
    <2>1. i + 1 \in 1 .. n /\ m + (i + 1) = m + 1 + i
      BY <1>1
    <2>2. w[i + 1] = s[m + (i + 1)]
      BY <2>1 DEF m, n
    <2>3. QED BY <1>3, <2>1, <2>2
  <1>7. QED BY <1>1, <1>2, <1>3, <1>5, <1>6 DEF m, n, k, t

LEMMA DrainSteps == ASSUME IInv, DrainInv, NEW c \in Cores, Drain(c) PROVE DrainInv'
  <1>0. pc[c] = "drain" /\ DrainAt(c)
    BY DEF Drain, DrainInv
  <1> SUFFICES ASSUME NEW q \in Queue, q = qn[c] PROVE DrainInv'
    BY <1>0 DEF DrainAt
  <1> DEFINE value == IF queue[q] = <<>> THEN NULL ELSE Head(queue[q]).d
             rest == IF queue[q] = <<>> THEN queue[q] ELSE Tail(queue[q])
  <1>1. /\ UNCHANGED <<pc, qn, count, seen>> /\ Len(list[c]) < count[c] /\ Touches(c, {q})
        /\ list' = [list EXCEPT ![c] = Append(list[c], value)] /\ queue' = [queue EXCEPT ![q] = rest]
    BY DEF Drain, MorePops
  <1>2. /\ queue'[q] = rest /\ \A r \in Queue \ {q} : queue'[r] = queue[r]
        /\ list'[c] = Append(list[c], value) /\ \A o \in Cores \ {c} : list'[o] = list[o]
    BY <1>1 DEF IInv, TypeOK
  <1>3. touched' = [o \in Cores |-> touched'[o]] /\ \A o \in Cores : touched'[o] \in BOOLEAN
    BY <1>1 DEF Touches, DrainInv
  <1>4. ASSUME NEW o \in Cores \ {c}, pc'[o] = "drain" PROVE DrainAt(o)'
    <2>1. pc[o] = "drain" /\ DrainAt(o) /\ qn[o] \in Queue
      BY <1>1, <1>4 DEF DrainInv, DrainAt
    <2>2. ~ touched'[o] => ~ touched[o] /\ qn[o] # q
      BY <1>1, <2>1, Touching
    <2>3. QED BY <1>1, <1>2, <2>1, <2>2, DrainStays
  <1>5. DrainAt(c)'
    <2>1. ~ touched'[c] => ~ touched[c]
      BY <1>1 DEF Touches
    <2>2. /\ queue[q] \in Seq(Item) /\ list[c] \in Seq(Desc \cup {NULL}) /\ seen[c] \in Seq(Item)
          /\ Len(list[c]) < Len(seen[c])
      BY <1>0, <1>1, QueueTypes DEF DrainAt, IInv, TypeOK
    <2>3. ASSUME ~ touched'[c]
          PROVE  /\ Len(list'[c]) + Len(queue'[q]) = Len(seen[c])
                 /\ \A i \in 1 .. Len(list'[c]) : list'[c][i] = seen[c][i].d
                 /\ \A i \in 1 .. Len(queue'[q]) : queue'[q][i] = seen[c][Len(list'[c]) + i]
      <3>1. /\ Len(list[c]) + Len(queue[q]) = Len(seen[c])
            /\ \A i \in 1 .. Len(list[c]) : list[c][i] = seen[c][i].d
            /\ \A i \in 1 .. Len(queue[q]) : queue[q][i] = seen[c][Len(list[c]) + i]
        BY <1>0, <2>1, <2>3 DEF DrainAt
      <3> DEFINE h == Head(queue[q]).d
                 w == queue[q]
                 l == list[c]
                 s == seen[c]
      <3>2. /\ w # <<>> /\ Len(Append(l, h)) = Len(l) + 1 /\ Len(Tail(w)) = Len(w) - 1
            /\ \A i \in 1 .. Len(l) + 1 : Append(l, h)[i] = s[i].d
            /\ \A i \in 1 .. Len(w) - 1 : Tail(w)[i] = s[Len(l) + 1 + i]
        BY <2>2, <3>1, DrainGoesOn
      <3>3. list'[c] = Append(l, h) /\ queue'[q] = Tail(w)
        BY <1>2, <3>2
      <3>4. Len(l) + Len(w) = Len(s) /\ Len(l) \in Nat /\ Len(w) \in Nat
        <4>1. Len(l) \in Nat /\ Len(w) \in Nat
          BY <2>2
        <4>2. Len(l) + Len(w) = Len(s)
          BY <3>1
        <4>3. QED BY <4>1, <4>2
      <3> HIDE DEF h, w, l, s
      <3>5. Len(list'[c]) = Len(l) + 1 /\ Len(queue'[q]) = Len(w) - 1
        BY <3>2, <3>3
      <3>6. Len(list'[c]) + Len(queue'[q]) = Len(s)
        BY <3>4, <3>5
      <3>7. QED BY <3>2, <3>3, <3>5, <3>6 DEF s
    <2>4. QED BY <1>0, <1>1, <2>3 DEF DrainAt
  <1>6. QED BY <1>1, <1>3, <1>4, <1>5 DEF DrainInv

LEMMA DrainEnds == ASSUME IInv, DrainInv, NEW c \in Cores, Drained(c) PROVE DrainInv'
  <1>1. /\ queue' = queue /\ pc' = [pc EXCEPT ![c] = "idle"] /\ qn' = [qn EXCEPT ![c] = 0]
        /\ count' = [count EXCEPT ![c] = 0] /\ list' = [list EXCEPT ![c] = <<>>]
        /\ seen' = [seen EXCEPT ![c] = <<>>] /\ touched' = [touched EXCEPT ![c] = FALSE]
    BY DEF Drained, Return
  <1>2. /\ pc = [p \in Cores |-> pc[p]] /\ qn = [p \in Cores |-> qn[p]] /\ count = [p \in Cores |-> count[p]]
        /\ list = [p \in Cores |-> list[p]] /\ seen = [p \in Cores |-> seen[p]]
        /\ touched = [p \in Cores |-> touched[p]] /\ \A p \in Cores : touched[p] \in BOOLEAN
    BY DEF IInv, TypeOK, DrainInv
  <1>3. /\ pc'[c] = "idle"
        /\ \A o \in Cores \ {c} :
             /\ pc'[o] = pc[o] /\ qn'[o] = qn[o] /\ count'[o] = count[o] /\ list'[o] = list[o]
             /\ seen'[o] = seen[o] /\ touched'[o] = touched[o]
    BY <1>1, <1>2
  <1>4. /\ touched' = [p \in Cores |-> touched'[p]] /\ seen' = [p \in Cores |-> seen'[p]]
        /\ \A p \in Cores : touched'[p] \in BOOLEAN
    BY <1>1, <1>2
  <1>5. ASSUME NEW o \in Cores \ {c}, pc'[o] = "drain" PROVE DrainAt(o)'
    BY <1>1, <1>3, <1>5, DrainStays DEF DrainInv
  <1>6. QED BY <1>3, <1>4, <1>5 DEF DrainInv

LEMMA DrainDma ==
  ASSUME IInv, DrainInv, NULL \notin Cores, NEW ch \in Channel, Fetch(ch) \/ Deliver(ch)
  PROVE  DrainInv'
  <1>1. \E Q : /\ UNCHANGED <<pc, qn, count, list, seen>> /\ Touches(NULL, Q)
               /\ \A q \in Queue \ Q : queue'[q] = queue[q]
    <2>1. CASE Fetch(ch)
      BY <2>1 DEF Fetch, locals, IInv, TypeOK
    <2>2. CASE Deliver(ch)
      <3> DEFINE Q == {ReturnOf(dma[ch][1]), DestOf(ch)}
      <3>1. UNCHANGED <<pc, qn, count, list, seen>> /\ Touches(NULL, Q)
        BY <2>2 DEF Deliver, locals
      <3>2. \A q \in Queue \ Q : queue'[q] = queue[q]
        BY <2>2 DEF Deliver, IInv, TypeOK
      <3>3. QED BY <3>1, <3>2
    <2>3. QED BY <2>1, <2>2
  <1>2. QED BY <1>1, DrainOthers

LEMMA NextDrain == IInv /\ PlaceInv /\ DrainInv /\ [Next]_vars => DrainInv'
  <1> SUFFICES ASSUME IInv, PlaceInv, DrainInv, [Next]_vars PROVE DrainInv'
    OBVIOUS
  <1>1. ASSUME NEW c \in Cores, NEW q \in Queue, Pop(c, q) PROVE DrainInv'
    BY <1>1, DrainPop
  <1>2. ASSUME NEW c \in Cores, NEW q \in Queue, NEW given \in BOOLEAN, EmptyQueue(c, q, given)
        PROVE  DrainInv'
    BY <1>2, DrainBegins
  <1>3. ASSUME NEW c \in Cores, NEW q \in Queue, NEW d \in held[c], PushC(c, q, d) PROVE DrainInv'
    BY <1>3, DrainPushC
  <1>4. ASSUME NEW c \in Cores, NEW q \in Queue, NEW d \in held[c], NEW mode \in {1, 2},
               Push(c, q, d, mode)
        PROVE  DrainInv'
    BY <1>4, DrainPush
  <1>5. ASSUME NEW c \in Cores, NEW r \in Circuit, NEW headtail \in {0, 1},
               Divert(c, r[1], r[2], headtail) \/ Divert(c, r[2], r[1], headtail)
        PROVE  DrainInv'
    <2>1. r[1] \in Queue /\ r[2] \in Queue
      BY CircuitKind
    <2>2. QED BY <1>5, <2>1, DrainDivert
  <1>6. ASSUME NEW c \in Cores, PushD(c) \/ Drain(c) \/ Drained(c) PROVE DrainInv'
    BY <1>6, DrainPushD, DrainSteps, DrainEnds
  <1>7. ASSUME NEW ch \in Channel, Fetch(ch) \/ Deliver(ch) PROVE DrainInv'
    BY <1>7, DrainDma, QmssAssumption
  <1>8. CASE Fill \/ Configure \/ EnableChannels \/ UNCHANGED vars
    BY <1>8, DrainSetUp
  <1>9. QED BY <1>1, <1>2, <1>3, <1>4, <1>5, <1>6, <1>7, <1>8 DEF Next

(* A drain that nobody else disturbs has given back the whole queue in     *)
(* order when it returns, and the queue is empty.                          *)
THEOREM DrainsAreComplete == Spec => []DrainIsComplete
  <1>1. Spec => [](IInv /\ PlaceInv /\ DrainInv)
    BY InitIInv, NextIInv, InitPlaces, NextPlaces, InitDrain, NextDrain, PTL DEF Spec
  <1>2. ASSUME IInv, DrainInv PROVE DrainIsComplete
    <2> SUFFICES ASSUME NEW c \in Cores, pc[c] = "drain", ~ MorePops(c), ~ touched[c]
                 PROVE  queue[qn[c]] = <<>> /\ list[c] = [i \in DOMAIN seen[c] |-> seen[c][i].d]
      BY DEF DrainIsComplete
    <2> DEFINE w == queue[qn[c]]
               l == list[c]
               s == seen[c]
    <2>1. /\ w \in Seq(Item) /\ l \in Seq(Desc \cup {NULL}) /\ s \in Seq(Item)
          /\ ~ Len(l) < Len(s) /\ Len(l) + Len(w) = Len(s)
          /\ \A i \in 1 .. Len(l) : l[i] = s[i].d
      BY <1>2, QueueTypes DEF DrainInv, DrainAt, MorePops, IInv, TypeOK
    <2> HIDE DEF w, l, s
    <2>2. Len(w) = 0 /\ Len(l) = Len(s)
      BY <2>1
    <2>3. w = <<>>
      BY <2>1, <2>2
    <2>4. l = [i \in DOMAIN s |-> s[i].d]
      <3>1. DOMAIN l = 1 .. Len(l) /\ DOMAIN s = 1 .. Len(l) /\ l = [i \in 1 .. Len(l) |-> l[i]]
        BY <2>1, <2>2
      <3>2. QED BY <2>1, <3>1
    <2>5. QED BY <2>3, <2>4 DEF w, l, s
  <1>3. QED BY <1>1, <1>2, PTL
=============================================================================
