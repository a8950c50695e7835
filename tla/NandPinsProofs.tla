---------------------------- MODULE NandPinsProofs ----------------------------
(***************************************************************************)
(* What the pins of the NAND driver (NandPins) do in every geometry, for   *)
(* every request and any number of calls and faults.                       *)
(*                                                                         *)
(* A call of the driver is a list of pin operations, todo.  The proof gives *)
(* that list an outline: a label before the first operation and after each *)
(* one, which says how the pins stand and what an ideal chip, one that     *)
(* obeys at once, would hold by then.  An operation may leave a label only *)
(* if it is Allowed there, and leads to the label After it; a wait that is *)
(* given up leads to a later label instead.  That a sequence Leads from    *)
(* one label to another is shown routine by routine, from the write strobe *)
(* up to the calls, without the state of the model; that the state follows *)
(* the outline (At) is shown once for each operation.  The invariant Inv   *)
(* says that between calls the driver is at rest, and that within one an   *)
(* outline leads from where the state is to a last label where the result  *)
(* is what the request asks for.                                           *)
(***************************************************************************)
EXTENDS NandPins, TLAPS, WellFoundedInduction

Pins == {"NCE", "NWE", "NRE", "CLE", "ALE"}
Lines == Pins \cup {"bus"}
Rest == {"NCE", "NWE", "NRE"}
Command == {"00", "10", "50", "60", "80", "90", "D0", "FF"}
OnTheBus == Command \cup Nat \cup Value
PageImage == [Place -> Value]

(* The ideal chip, which obeys at once, together with the buffers. *)
Ideal ==
  [area : {"main", "spare"}, op : {"none", "read", "program", "erase", "id", "reset"},
   cycles : Seq(Nat), reg : PageImage, col : Int, cells : [Row -> PageImage], wait : BOOLEAN,
   page : PageImage, user : PageImage, list : SUBSET Block, ok : BOOLEAN]

Origin(c) == IF c.area = "main" THEN 0 ELSE PARTS

AfterCommand(c, k) ==
  IF k = "FF" THEN [c EXCEPT !.op = "none", !.wait = TRUE]
  ELSE IF k \in {"00", "50"} THEN
    [c EXCEPT !.area = IF k = "00" THEN "main" ELSE "spare", !.op = "read", !.cycles = <<>>]
  ELSE IF k \in {"60", "80", "90"} THEN
    [c EXCEPT !.op = IF k = "80" THEN "program" ELSE IF k = "60" THEN "erase" ELSE "id",
              !.cycles = <<>>, !.reg = [i \in Place |-> Erased], !.col = Origin(c)]
  ELSE IF k = "10" THEN
    [c EXCEPT !.op = "none", !.wait = TRUE,
              !.cells = [c.cells EXCEPT ![AddressedRow(Tail(c.cycles))] =
                           [i \in Place |-> Programmed(@[i], c.reg[i])]]]
  ELSE [c EXCEPT !.op = "none", !.wait = TRUE,
                 !.cells = [r \in Row |-> IF r \div PAGES = AddressedRow(c.cycles) \div PAGES
                                          THEN [i \in Place |-> Erased] ELSE c.cells[r]]]

AfterAddress(c, a) ==
  IF c.op = "read" /\ Len(c.cycles) = 3
  THEN [c EXCEPT !.cycles = Append(c.cycles, a), !.wait = TRUE,
                 !.reg = c.cells[AddressedRow(Tail(Append(c.cycles, a)))], !.col = Origin(c)]
  ELSE [c EXCEPT !.cycles = Append(c.cycles, a)]

AfterData(c, v) == [c EXCEPT !.reg = [c.reg EXCEPT ![c.col + 1] = v], !.col = c.col + 1]

Given(c) == IF c.op = "read" /\ c.col \in Place THEN c.reg[c.col] ELSE Junk

AfterCompute(c, what, n) ==
  LET fixed == Corrected(c.page[n], EccOf(c.page, n)) IN
  [c EXCEPT
     !.page = IF what = "copyin" THEN [i \in Place |-> IF i <= PARTS THEN c.user[i] ELSE c.page[i]]
              ELSE IF what = "ecc" THEN WithEcc(c.page)
              ELSE IF what = "correct" THEN [c.page EXCEPT ![n] = fixed]
              ELSE c.page,
     !.user = IF what = "copyout" THEN [i \in Place |-> IF i <= PARTS THEN c.page[i] ELSE c.user[i]]
              ELSE IF what = "mark" THEN [c.user EXCEPT ![n] = BadMark]
              ELSE c.user,
     !.list = IF what # "list" THEN c.list
              ELSE IF c.page[BBOFFSET + 1] = Erased THEN c.list \cup {n} ELSE c.list \ {n},
     !.ok = c.ok /\ ~ (what = "correct" /\ fixed = Junk) /\ what # "invalid"]

(* Nothing but a command is answered. *)
Still(c) == c.op \in {"none", "id", "reset"} \/ (c.op = "read" /\ Len(c.cycles) = 4)

(* Labels of an outline: the pins, and the ideal chip. *)
Label ==
  {l \in [high : SUBSET Pins, outputs : SUBSET Lines, bus : OnTheBus, known : BOOLEAN, loose : BOOLEAN,
           chip : Ideal] :
     (l.chip.wait => l.chip.op \in {"none", "read"}) /\ (~ l.known => l.bus \in Value)}

IsLow(l, pin) == pin \notin (IF pin \in l.outputs THEN l.high ELSE Pulled)
Selected(l) == l.loose \/ IsLow(l, "NCE")
SafePins(l) == ~ (Selected(l) /\ IsLow(l, "NRE") /\ ~ IsLow(l, "NWE") /\ "bus" \in l.outputs)
Latching(o, l) == o.do = "set" /\ o.pin = "NWE" /\ IsLow(l, "NWE") /\ Selected(l) /\ "NWE" \in l.outputs

Latched(l) ==
  IF ~ IsLow(l, "CLE") THEN AfterCommand(l.chip, l.bus)
  ELSE IF ~ IsLow(l, "ALE") THEN AfterAddress(l.chip, l.bus)
  ELSE AfterData(l.chip, l.bus)

After(o, l) ==
  IF o.do = "set" THEN
    [l EXCEPT !.high = l.high \cup {o.pin}, !.chip = IF Latching(o, l) THEN Latched(l) ELSE l.chip]
  ELSE IF o.do = "clear" THEN
    [l EXCEPT !.high = l.high \ {o.pin},
              !.loose = l.loose /\ o.pin # "NCE",
              !.chip = IF o.pin = "NRE" /\ l.chip.op = "read" /\ l.chip.col \in 0 .. PARTS + SPARE
                       THEN [l.chip EXCEPT !.col = l.chip.col + 1] ELSE l.chip]
  ELSE IF o.do = "out" THEN [l EXCEPT !.outputs = l.outputs \cup {o.pin}]
  ELSE IF o.do = "in" THEN [l EXCEPT !.outputs = l.outputs \ {o.pin}]
  ELSE IF o.do = "put" THEN [l EXCEPT !.bus = o.val, !.known = TRUE]
  ELSE IF o.do = "putfrom" THEN
    [l EXCEPT !.bus = (IF o.buf = "page" THEN l.chip.page ELSE l.chip.user)[o.at], !.known = FALSE]
  ELSE IF o.do = "get" THEN
    [l EXCEPT !.chip = [l.chip EXCEPT
       !.page = IF o.buf = "page" THEN [l.chip.page EXCEPT ![o.at] = Given(l.chip)] ELSE l.chip.page,
       !.user = IF o.buf = "user" THEN [l.chip.user EXCEPT ![o.at] = Given(l.chip)] ELSE l.chip.user]]
  ELSE IF o.do = "wait" THEN [l EXCEPT !.chip = [l.chip EXCEPT !.wait = FALSE], !.loose = (o.skip # 0)]
  ELSE [l EXCEPT !.chip = AfterCompute(l.chip, o.do, o.at)]

(* What an operation needs. *)
MayCommand(r, c, k) ==
  /\ k \in Command
  /\ k = "10" => c.op = "program" /\ Len(c.cycles) = 4 /\ AddressedRow(Tail(c.cycles)) \in Target(r)
  /\ k = "D0" => /\ c.op = "erase" /\ Len(c.cycles) = 3
                 /\ \A q \in Row : q \div PAGES = AddressedRow(c.cycles) \div PAGES => q \in Target(r)
MayAddress(c, a) ==
  /\ a \in Nat /\ Len(c.cycles) < 4
  /\ (c.op = "read" /\ Len(c.cycles) = 3) => AddressedRow(Tail(Append(c.cycles, a))) \in Row
MayData(c) == c.op = "program" /\ Len(c.cycles) = 4 /\ c.col + 1 \in Place

MayLatch(r, l) ==
  /\ ~ l.loose /\ ~ l.chip.wait
  /\ IF ~ IsLow(l, "CLE") THEN l.known /\ MayCommand(r, l.chip, l.bus)
     ELSE IF ~ IsLow(l, "ALE") THEN l.known /\ MayAddress(l.chip, l.bus)
     ELSE ~ l.known /\ MayData(l.chip)

(* No line is in use, but perhaps chip enable. *)
Quiet(l) == l.outputs = Lines /\ l.high \cup {"NCE"} = Rest /\ ~ l.loose

Computation == {"copyin", "ecc", "correct", "copyout", "mark", "list", "invalid"}

Allowed(r, o, l) ==
  /\ SafePins(l)
  /\ \/ o.do = "set" /\ o.pin \in Pins /\ (Latching(o, l) => MayLatch(r, l))
     \/ /\ o.do = "clear" /\ o.pin \in Pins
        /\ o.pin = "NRE" => ~ IsLow(l, "NRE") /\ IsLow(l, "NCE") /\ ~ l.chip.wait
     \/ o.do = "out" /\ o.pin \in Lines
     \/ o.do = "in" /\ o.pin \in {"bus", "BSY"}
     \/ o.do = "put" /\ o.val \in Command \cup Nat
     \/ o.do = "putfrom" /\ o.buf \in {"page", "user"} /\ o.at \in Place
     \/ /\ o.do = "get" /\ o.at \in Place
        /\ ~ l.chip.wait /\ IsLow(l, "NCE") /\ IsLow(l, "NRE") /\ ~ IsLow(l, "NWE") /\ "bus" \notin l.outputs
     \/ /\ o.do = "wait" /\ o.raise \in BOOLEAN /\ o.skip \in Nat /\ Quiet(l)
        /\ (~ o.raise /\ o.skip = 0) => r.op \in {"open", "read", "readspare", "write"}
     \/ /\ o.do \in Computation
        /\ o.do = "correct" => o.at \in 1 .. PARTS /\ Quiet(l) /\ Still(l.chip) /\ r.op = "read"
        /\ o.do = "invalid" => Quiet(l) /\ Still(l.chip)
        /\ o.do = "list" => o.at \in Block
        /\ o.do = "mark" => o.at \in Place

(* A wait that is given up goes on with chip enable low. *)
Joins(l, m) ==
  /\ m.loose /\ m.outputs = l.outputs /\ m.high = l.high \cup {"NCE"}
  /\ l.known /\ m.known /\ m.bus = l.bus

Operation ==
  [do : {"set", "clear", "out", "in"}, pin : Lines \cup {"BSY"}]
  \cup [do : {"put"}, val : Command \cup Nat]
  \cup [do : {"putfrom", "get"}, buf : {"page", "user", "id"}, at : Place]
  \cup [do : {"wait"}, raise : BOOLEAN, skip : Nat]
  \cup [do : Computation, at : Nat]

Outline(r, seq, st) ==
  /\ seq \in Seq(Operation)
  /\ st \in [0 .. Len(seq) -> Label]
  /\ \A i \in 1 .. Len(seq) :
       /\ Allowed(r, seq[i], st[i - 1])
       /\ st[i] = After(seq[i], st[i - 1])
       /\ (seq[i].do = "wait" /\ seq[i].skip # 0) =>
             i + seq[i].skip <= Len(seq) /\ Joins(st[i - 1], st[i + seq[i].skip])

Leads(r, seq, l, m) == \E st : Outline(r, seq, st) /\ st[0] = l /\ st[Len(seq)] = m

(* The chip answers nothing but a command, or nothing at all. *)
Harmless == busy \/ op \in {"none", "id", "reset"} \/ (op = "read" /\ Len(cycles) = 4)

Exactly == ~ late /\ ~ broken

PinsAt(l) ==
  /\ outputs = l.outputs /\ (high = l.high \/ (l.loose /\ high = l.high \ {"NCE"}))
  /\ IF l.known THEN bus = l.bus ELSE bus \in Value

(* Whatever has gone wrong, the chip follows the label or does nothing. *)
Weak(c) == Harmless \/ (op = c.op /\ cycles = c.cycles /\ ~ busy)

(* As long as nothing has gone wrong it is the ideal chip, but for the time it takes. *)
Same(c) ==
  /\ area = c.area /\ cycles = c.cycles /\ reg = c.reg /\ col = c.col /\ cells = c.cells
  /\ (op = c.op \/ (busy /\ c.op = "none" /\ op # "read")) /\ (busy => c.wait)

ExactAt(l) ==
  /\ high = l.high /\ bus = l.bus /\ Same(l.chip)
  /\ pageBuf = l.chip.page /\ user = l.chip.user /\ bblist = l.chip.list /\ l.chip.ok

Spared == \A q \in Row \ Target(req) : cells[q] = before[q]

At(l) == PinsAt(l) /\ Weak(l.chip) /\ Spared /\ (Exactly => ExactAt(l))

(* What the ideal chip and the buffers must hold when a call has succeeded. *)
Result(r, b, e) ==
  IF r.op = "open" THEN e.list = {k \in Block : Spare(e.cells[k * PAGES], BBOFFSET) = Erased}
  ELSE IF r.op = "erase" THEN \A q \in Target(r) : e.cells[q] = [i \in Place |-> Erased]
  ELSE LET row == Addressed(r) old == b[row] IN
    IF r.op = "readspare" THEN \A s \in 0 .. SPARE - 1 : e.user[s + 1] = Spare(old, s)
    ELSE IF r.op = "read" THEN
      /\ <<e.user[1], e.user[1], e.user[1]>> = <<Spare(old, 0), Spare(old, 1), Spare(old, 2)>>
      /\ <<e.user[2], e.user[2], e.user[2]>> = <<Spare(old, 3), Spare(old, 6), Spare(old, 7)>>
      /\ \A i \in 1 .. 2 : e.user[i] = old[i] \/ <<old[i], e.user[i]>> \in OneBit
    ELSE e.cells[row] = [i \in Place |-> Programmed(old[i], Image(r, old)[i])]


AtRest(l) == Quiet(l) /\ "NCE" \in l.high /\ Still(l.chip)

-----------------------------------------------------------------------------
(* What a wait that is allowed carries. *)
LEMMA WaitTyped ==
  ASSUME NEW r, NEW o, NEW l, Allowed(r, o, l), o.do = "wait"
  PROVE  o.skip \in Nat /\ o.raise \in BOOLEAN
  BY DEF Allowed, Computation

(* The empty outline leads from a label to itself. *)
LEMMA Nothing ==
  ASSUME NEW r, NEW l \in Label
  PROVE  Leads(r, <<>>, l, l)
  <1> DEFINE st == [i \in 0 .. 0 |-> l]
  <1>1. Len(<<>>) = 0 /\ <<>> \in Seq(Operation) /\ 1 .. 0 = {}
    OBVIOUS
  <1>2. Outline(r, <<>>, st)
    BY <1>1 DEF Outline
  <1>3. st[0] = l
    OBVIOUS
  <1>4. QED BY <1>1, <1>2, <1>3 DEF Leads

(* An operation that is allowed is an outline of one step. *)
LEMMA Single ==
  ASSUME NEW r, NEW l \in Label, NEW o \in Operation, Allowed(r, o, l), After(o, l) \in Label,
         o.do = "wait" => o.skip = 0
  PROVE  Leads(r, <<o>>, l, After(o, l))
  <1> DEFINE st == [i \in 0 .. 1 |-> IF i = 0 THEN l ELSE After(o, l)]
  <1>1. Len(<<o>>) = 1 /\ <<o>> \in Seq(Operation) /\ <<o>>[1] = o /\ \A i \in 1 .. 1 : i = 1
    OBVIOUS
  <1>2. st \in [0 .. 1 -> Label] /\ st[0] = l /\ st[1] = After(o, l)
    OBVIOUS
  <1> HIDE DEF st
  <1>3. Outline(r, <<o>>, st)
    BY <1>1, <1>2 DEF Outline
  <1>4. QED BY <1>1, <1>2, <1>3 DEF Leads

(* Outlines can be joined: the second goes on from the label the first ends at. *)
LEMMA Chain ==
  ASSUME NEW r, NEW s, NEW t, NEW l, NEW m, NEW n, Leads(r, s, l, m), Leads(r, t, m, n)
  PROVE  Leads(r, s \o t, l, n)
  <1>1. PICK a : Outline(r, s, a) /\ a[0] = l /\ a[Len(s)] = m
    BY DEF Leads
  <1>2. PICK b : Outline(r, t, b) /\ b[0] = m /\ b[Len(t)] = n
    BY DEF Leads
  <1>3. s \in Seq(Operation) /\ t \in Seq(Operation) /\ a \in [0 .. Len(s) -> Label] /\ b \in [0 .. Len(t) -> Label]
    BY <1>1, <1>2 DEF Outline
  <1> DEFINE S == Len(s)
             T == Len(t)
             u == s \o t
             c == [i \in 0 .. S + T |-> IF i <= S THEN a[i] ELSE b[i - S]]
  <1>4. S \in Nat /\ T \in Nat /\ u \in Seq(Operation) /\ Len(u) = S + T
    BY <1>3
  <1>5. /\ \A i \in 1 .. S : u[i] = s[i]
        /\ \A i \in S + 1 .. S + T : u[i] = t[i - S]
    BY <1>3
  <1>6. /\ \A i \in 0 .. S : c[i] = a[i]
        /\ \A i \in S .. S + T : c[i] = b[i - S]
    BY <1>1, <1>2, <1>3, <1>4
  <1>7. c \in [0 .. Len(u) -> Label]
    BY <1>3, <1>4
  <1>8. \A i \in 1 .. S : /\ Allowed(r, s[i], a[i - 1]) /\ a[i] = After(s[i], a[i - 1])
                          /\ (s[i].do = "wait" /\ s[i].skip # 0) =>
                                i + s[i].skip <= S /\ Joins(a[i - 1], a[i + s[i].skip])
    BY <1>1 DEF Outline
  <1>14. \A i \in 1 .. T : /\ Allowed(r, t[i], b[i - 1]) /\ b[i] = After(t[i], b[i - 1])
                           /\ (t[i].do = "wait" /\ t[i].skip # 0) =>
                                 i + t[i].skip <= T /\ Joins(b[i - 1], b[i + t[i].skip])
    BY <1>2 DEF Outline
  <1>9. \A i \in 1 .. S : s[i].do = "wait" => s[i].skip \in Nat
    BY <1>8, WaitTyped
  <1>10. \A i \in 1 .. T : t[i].do = "wait" => t[i].skip \in Nat
    BY <1>14, WaitTyped
  <1> HIDE DEF S, T, u, c
  <1>11. ASSUME NEW i \in 1 .. S + T
         PROVE  /\ Allowed(r, u[i], c[i - 1]) /\ c[i] = After(u[i], c[i - 1])
                /\ (u[i].do = "wait" /\ u[i].skip # 0) =>
                      i + u[i].skip <= S + T /\ Joins(c[i - 1], c[i + u[i].skip])
    <2>1. CASE i <= S
      <3>1. i \in 1 .. S /\ i \in 0 .. S /\ i - 1 \in 0 .. S
        BY <1>4, <2>1
      <3>2. u[i] = s[i] /\ c[i] = a[i] /\ c[i - 1] = a[i - 1]
        BY <1>5, <1>6, <3>1
      <3>3. ASSUME s[i].do = "wait", s[i].skip # 0
            PROVE  i + s[i].skip <= S + T /\ Joins(c[i - 1], c[i + s[i].skip])
        <4>1. i + s[i].skip <= S /\ Joins(a[i - 1], a[i + s[i].skip])
          BY <1>8, <3>1, <3>3
        <4>0. s[i].skip \in Nat
          BY <1>9, <3>1, <3>3
        <4>2. i + s[i].skip \in 0 .. S
          BY <1>4, <3>1, <4>0, <4>1
        <4>3. QED BY <1>4, <1>6, <3>2, <4>1, <4>2
      <3>4. Allowed(r, s[i], a[i - 1]) /\ a[i] = After(s[i], a[i - 1])
        BY <1>8, <3>1
      <3>5. QED BY <3>2, <3>3, <3>4
    <2>2. CASE ~ (i <= S)
      <3>1. i - S \in 1 .. T /\ i \in S .. S + T /\ i - 1 \in S .. S + T /\ i \in S + 1 .. S + T
            /\ (i - 1) - S = (i - S) - 1
        BY <1>4, <2>2
      <3>2. u[i] = t[i - S] /\ c[i] = b[i - S] /\ c[i - 1] = b[(i - S) - 1]
        BY <1>5, <1>6, <3>1
      <3>3. ASSUME t[i - S].do = "wait", t[i - S].skip # 0
            PROVE  i + t[i - S].skip <= S + T /\ Joins(c[i - 1], c[i + t[i - S].skip])
        <4>1. (i - S) + t[i - S].skip <= T /\ Joins(b[(i - S) - 1], b[(i - S) + t[i - S].skip])
          BY <1>14, <3>1, <3>3
        <4>0. t[i - S].skip \in Nat
          BY <1>10, <3>1, <3>3
        <4>2. ASSUME NEW x \in Nat, (i - S) + x <= T
              PROVE  i + x \in S .. S + T /\ (i + x) - S = (i - S) + x /\ i + x <= S + T
          BY <1>4, <3>1, <4>2
        <4> DEFINE x == t[i - S].skip
        <4>3. i + x \in S .. S + T /\ (i + x) - S = (i - S) + x /\ i + x <= S + T
          BY <4>0, <4>1, <4>2
        <4>4. c[i + x] = b[(i - S) + x]
          BY <1>6, <4>3
        <4>5. QED BY <3>2, <4>1, <4>3, <4>4
      <3>4. Allowed(r, t[i - S], b[(i - S) - 1]) /\ b[i - S] = After(t[i - S], b[(i - S) - 1])
        BY <1>14, <3>1
      <3>5. QED BY <3>2, <3>3, <3>4
    <2>3. QED BY <2>1, <2>2
  <1>12. Outline(r, u, c)
    BY <1>4, <1>7, <1>11 DEF Outline
  <1>13. c[0] = l /\ c[Len(u)] = n
    <2>1. 0 \in 0 .. S /\ S + T \in S .. S + T /\ (S + T) - S = T
      BY <1>4
    <2>2. QED BY <1>1, <1>2, <1>4, <1>6, <2>1 DEF S, T
  <1>15. QED BY <1>12, <1>13 DEF Leads, u

(* What is left of an outline. *)
LEMMA Shift ==
  ASSUME NEW r, NEW s, NEW a, Outline(r, s, a), NEW k \in 0 .. Len(s)
  PROVE  LET u == SubSeq(s, k + 1, Len(s))
             c == [i \in 0 .. Len(s) - k |-> a[i + k]]
         IN Outline(r, u, c) /\ c[0] = a[k] /\ Len(u) = Len(s) - k /\ c[Len(u)] = a[Len(s)]
  <1> DEFINE S == Len(s)
             u == SubSeq(s, k + 1, S)
             c == [i \in 0 .. S - k |-> a[i + k]]
  <1>1. s \in Seq(Operation) /\ a \in [0 .. S -> Label]
    BY DEF Outline
  <1>2. S \in Nat /\ k \in Nat /\ k <= S
    BY <1>1
  <1>3. Len(u) = S - k /\ u \in Seq(Operation) /\ \A i \in 1 .. S - k : u[i] = s[i + k]
    BY <1>1, <1>2
  <1>4. \A i \in 1 .. S : /\ Allowed(r, s[i], a[i - 1]) /\ a[i] = After(s[i], a[i - 1])
                          /\ (s[i].do = "wait" /\ s[i].skip # 0) =>
                                    i + s[i].skip <= S /\ Joins(a[i - 1], a[i + s[i].skip])
    BY DEF Outline
  <1>5. \A i \in 1 .. S : s[i].do = "wait" => s[i].skip \in Nat
    BY <1>4, WaitTyped
  <1>6. c \in [0 .. S - k -> Label]
    BY <1>1, <1>2
  <1>7. \A i \in 0 .. S - k : c[i] = a[i + k]
    OBVIOUS
  <1> HIDE DEF S, u, c
  <1>8. ASSUME NEW i \in 1 .. S - k
        PROVE  /\ Allowed(r, u[i], c[i - 1]) /\ c[i] = After(u[i], c[i - 1])
               /\ (u[i].do = "wait" /\ u[i].skip # 0) =>
                     i + u[i].skip <= S - k /\ Joins(c[i - 1], c[i + u[i].skip])
    <2>1. i + k \in 1 .. S /\ i - 1 \in 0 .. S - k /\ (i - 1) + k = (i + k) - 1 /\ i \in 0 .. S - k
      BY <1>2
    <2>2. u[i] = s[i + k] /\ c[i] = a[i + k] /\ c[i - 1] = a[(i + k) - 1]
      BY <1>3, <1>7, <2>1
    <2>3. ASSUME u[i].do = "wait", u[i].skip # 0
          PROVE  i + u[i].skip <= S - k /\ Joins(c[i - 1], c[i + u[i].skip])
      <3>1. (i + k) + u[i].skip <= S /\ Joins(a[(i + k) - 1], a[(i + k) + u[i].skip])
        BY <1>4, <2>1, <2>2, <2>3
      <3>0. u[i].skip \in Nat
        BY <1>5, <2>1, <2>2, <2>3
      <3>2. i + u[i].skip \in 0 .. S - k /\ (i + u[i].skip) + k = (i + k) + u[i].skip
        BY <1>2, <2>1, <3>0, <3>1
      <3>3. QED BY <1>2, <1>7, <2>2, <3>1, <3>2
    <2>4. QED BY <1>4, <2>1, <2>2, <2>3
  <1>9. Outline(r, u, c)
    BY <1>3, <1>6, <1>8 DEF Outline
  <1>10. c[0] = a[k] /\ c[Len(u)] = a[S]
    <2>1. 0 \in 0 .. S - k /\ S - k \in 0 .. S - k /\ 0 + k = k /\ (S - k) + k = S
      BY <1>2
    <2>2. QED BY <1>3, <1>7, <2>1
  <1>11. QED BY <1>3, <1>9, <1>10 DEF S, u, c

(* A set of naturals that is not empty has a least member: what stands in for induction below. *)
LEMMA LeastNatural ==
  ASSUME NEW T \in SUBSET Nat, T # {}
  PROVE  \E x \in T : \A y \in T : x <= y
  <1> DEFINE R == OpToRel(<, Nat)
  <1>1. IsWellFoundedOn(R, Nat)
    BY NatLessThanWellFounded
  <1>2. \A x, y \in Nat : y < x => <<y, x>> \in R
    BY DEF OpToRel
  <1> HIDE DEF R
  <1>3. PICK x \in T : \A y \in T : <<y, x>> \notin R
    BY <1>1, WFMin
  <1>4. ASSUME NEW y \in T PROVE x <= y
    <2>1. x \in Nat /\ y \in Nat /\ <<y, x>> \notin R
      BY <1>3
    <2>2. ~ (y < x)
      BY <1>2, <2>1
    <2>3. QED BY <2>1, <2>2
  <1>5. QED BY <1>4

(* Joining sequences end to end, one after the other. *)
LEMMA JoinedUp ==
  ASSUME NEW S, NEW seqs \in Seq(Seq(S)), Len(seqs) > 0
  PROVE  \E g \in [1 .. Len(seqs) -> Seq(S)] :
           /\ \A i \in 1 .. Len(seqs) : g[i] = IF i = 1 THEN seqs[i] ELSE g[i - 1] \o seqs[i]
           /\ FlattenSeq(seqs) = g[Len(seqs)]
  <1> DEFINE L == Len(seqs)
             Val(g, i) == IF i = 1 THEN seqs[i] ELSE g[i - 1] \o seqs[i]
             Has(n) == \E g \in [1 .. n -> Seq(S)] : \A i \in 1 .. n : g[i] = Val(g, i)
             T == {n \in 1 .. L : ~ Has(n)}
  <1>0. L \in Nat /\ seqs \in [1 .. L -> Seq(S)]
    OBVIOUS
  <1>2. L # 0
    BY <1>0
  <1>3. T = {}
    <2>1. SUFFICES ASSUME T # {} PROVE FALSE
      OBVIOUS
    <2>2. T \in SUBSET Nat
      BY <1>0
    <2> HIDE DEF T
    <2>3. PICK n \in T : \A m \in T : n <= m
      BY <2>1, <2>2, LeastNatural
    <2>4. n \in 1 .. L /\ ~ Has(n)
      BY <2>3 DEF T
    <2>5. CASE n = 1
      <3> DEFINE g == [i \in 1 .. 1 |-> seqs[1]]
      <3>1. g \in [1 .. 1 -> Seq(S)]
        BY <1>0, <1>2
      <3>2. \A i \in 1 .. 1 : g[i] = Val(g, i)
        OBVIOUS
      <3>3. Has(1)
        BY <3>1, <3>2
      <3>4. QED BY <2>4, <2>5, <3>3
    <2>6. CASE n # 1
      <3>1. n - 1 \in 1 .. L /\ n - 1 \notin T /\ n \in Nat
        BY <1>0, <2>3, <2>4, <2>6
      <3>2. PICK g \in [1 .. n - 1 -> Seq(S)] : \A i \in 1 .. n - 1 : g[i] = Val(g, i)
        BY <3>1 DEF T
      <3> DEFINE h == [i \in 1 .. n |-> IF i = n THEN g[n - 1] \o seqs[n] ELSE g[i]]
      <3>3. g[n - 1] \in Seq(S) /\ seqs[n] \in Seq(S)
        BY <1>0, <2>4, <3>1
      <3>4. g[n - 1] \o seqs[n] \in Seq(S)
        BY <3>3
      <3>5. h \in [1 .. n -> Seq(S)]
        BY <3>1, <3>4
      <3>6. ASSUME NEW i \in 1 .. n PROVE h[i] = Val(h, i)
        <4>1. CASE i = n
          <5>1. n \in 1 .. n /\ n - 1 \in 1 .. n /\ n - 1 # n
            BY <2>6, <3>1
          <5>2. h[n] = g[n - 1] \o seqs[n] /\ h[n - 1] = g[n - 1]
            BY <5>1
          <5> HIDE DEF h
          <5>3. QED BY <2>6, <4>1, <5>2
        <4>2. CASE i # n
          <5>1. i \in 1 .. n - 1
            BY <3>1, <4>2
          <5>2. h[i] = g[i] /\ (i # 1 => h[i - 1] = g[i - 1])
            <6>1. i # n /\ (i # 1 => i - 1 \in 1 .. n /\ i - 1 # n)
              BY <3>1, <5>1
            <6>2. QED BY <6>1
          <5>3. g[i] = Val(g, i)
            BY <3>2, <5>1
          <5>4. QED BY <5>2, <5>3
        <4>3. QED BY <4>1, <4>2
      <3>7. Has(n)
        BY <3>5, <3>6
      <3>8. QED BY <2>4, <3>7
    <2>7. QED BY <2>5, <2>6
  <1>4. Has(L)
    <2>1. L \in 1 .. L /\ L \notin T
      <3>1. L \in 1 .. L
        BY <1>0, <1>2
      <3> HIDE DEF T
      <3>2. QED BY <1>3, <3>1
    <2> HIDE DEF Has
    <2>2. QED BY <2>1
  <1>5. PICK g \in [1 .. L -> Seq(S)] : \A i \in 1 .. L : g[i] = Val(g, i)
    BY <1>4
  <1> DEFINE flatten == CHOOSE f : f = [i \in 1 .. L |-> Val(f, i)]
  <1>6. g = [i \in 1 .. L |-> Val(g, i)]
    BY <1>5
  <1>7. flatten = [i \in 1 .. L |-> Val(flatten, i)]
    BY <1>6
  <1>8. FlattenSeq(seqs) = flatten[L]
    BY <1>2 DEF FlattenSeq
  <1>9. \A i \in 1 .. L : flatten[i] = g[i]
    <2> DEFINE U == {n \in 1 .. L : flatten[n] # g[n]}
    <2>1. SUFFICES ASSUME U # {} PROVE FALSE
      OBVIOUS
    <2>2. U \in SUBSET Nat
      BY <1>0
    <2> HIDE DEF U
    <2>3. PICK n \in U : \A m \in U : n <= m
      BY <2>1, <2>2, LeastNatural
    <2>4. n \in 1 .. L /\ flatten[n] # g[n]
      BY <2>3 DEF U
    <2> HIDE DEF flatten
    <2>5. flatten[n] = Val(flatten, n) /\ g[n] = Val(g, n)
      BY <1>5, <1>7, <2>4
    <2>6. n # 1 /\ flatten[n - 1] # g[n - 1]
      BY <2>4, <2>5
    <2>7. n - 1 \in U
      BY <1>0, <2>4, <2>6 DEF U
    <2>8. QED BY <1>0, <2>3, <2>4, <2>7
  <1> HIDE DEF flatten
  <1>10. L \in 1 .. L
    BY <1>0, <1>2
  <1>11. FlattenSeq(seqs) = g[L]
    BY <1>8, <1>9, <1>10
  <1>12. QED BY <1>5, <1>11

(* Outlines of the parts make up one of the whole. *)
LEMMA ChainAll ==
  ASSUME NEW r, NEW n \in Nat, NEW f \in [1 .. n -> Seq(Operation)], NEW H \in [0 .. n -> SUBSET Label],
         \A i \in 1 .. n : \A x \in H[i - 1] : \E y \in H[i] : Leads(r, f[i], x, y),
         NEW l \in H[0]
  PROVE  \E m \in H[n] : Leads(r, FlattenSeq(f), l, m)
  <1>1. f \in Seq(Seq(Operation)) /\ Len(f) = n
    OBVIOUS
  <1>0. l \in Label
    OBVIOUS
  <1>2. CASE n = 0
    <2>1. f = <<>>
      BY <1>1, <1>2
    <2>2. FlattenSeq(f) = <<>>
      BY <1>1, <1>2, <2>1 DEF FlattenSeq
    <2>3. Leads(r, <<>>, l, l)
      BY <1>0, Nothing
    <2>4. QED BY <1>2, <2>2, <2>3
  <1>3. CASE n # 0
    <2>1. PICK g \in [1 .. n -> Seq(Operation)] :
            /\ \A i \in 1 .. n : g[i] = IF i = 1 THEN f[i] ELSE g[i - 1] \o f[i]
            /\ FlattenSeq(f) = g[n]
      <3>1. Len(f) > 0 /\ f \in Seq(Seq(Operation)) /\ Len(f) = n
        BY <1>1, <1>3
      <3>2. \E g \in [1 .. Len(f) -> Seq(Operation)] :
            /\ \A i \in 1 .. Len(f) : g[i] = IF i = 1 THEN f[i] ELSE g[i - 1] \o f[i]
            /\ FlattenSeq(f) = g[Len(f)]
        BY <3>1, JoinedUp, Zenon
      <3>3. QED BY <3>1, <3>2
    <2> DEFINE Has(k) == \E m \in H[k] : Leads(r, g[k], l, m)
               U == {k \in 1 .. n : ~ Has(k)}
    <2>2. U = {}
      <3>1. SUFFICES ASSUME U # {} PROVE FALSE
        OBVIOUS
      <3>2. U \in SUBSET Nat
        OBVIOUS
      <3> HIDE DEF U
      <3>3. PICK k \in U : \A j \in U : k <= j
        BY <3>1, <3>2, LeastNatural
      <3>4. k \in 1 .. n /\ ~ Has(k)
        BY <3>3 DEF U
      <3>5. CASE k = 1
        <4>1. g[1] = f[1]
          BY <2>1, <3>4, <3>5
        <4>2. 1 - 1 = 0 /\ 1 \in 1 .. n
          BY <3>4, <3>5
        <4>3. \E y \in H[1] : Leads(r, f[1], l, y)
          BY <4>2
        <4>4. QED BY <3>4, <3>5, <4>1, <4>3
      <3>6. CASE k # 1
        <4>1. k - 1 \in 1 .. n /\ k - 1 \notin U
          BY <3>3, <3>4, <3>6
        <4>2. Has(k - 1)
          <5> HIDE DEF Has
          <5>1. QED BY <4>1 DEF U
        <4>3. PICK x \in H[k - 1] : Leads(r, g[k - 1], l, x)
          BY <4>2
        <4>4. g[k] = g[k - 1] \o f[k]
          BY <2>1, <3>4, <3>6
        <4>5. PICK y \in H[k] : Leads(r, f[k], x, y)
          BY <3>4, <4>3
        <4>6. Leads(r, g[k - 1] \o f[k], l, y)
          BY <4>3, <4>5, Chain
        <4>7. QED BY <3>4, <4>4, <4>5, <4>6
      <3>7. QED BY <3>5, <3>6
    <2>3. n \in 1 .. n /\ n \notin U
      <3>1. n \in 1 .. n
        BY <1>3
      <3> HIDE DEF U
      <3>2. QED BY <3>1, <2>2
    <2>4. Has(n)
      <3> HIDE DEF Has
      <3>1. QED BY <2>3 DEF U
    <2>5. QED BY <2>1, <2>4
  <1>4. QED BY <1>2, <1>3

(* A wait that, given up, leaves out the operations that follow it. *)
LEMMA Skipping ==
  ASSUME NEW r, NEW l, NEW m, NEW t, NEW o \in Operation, l \in Label, o.do = "wait", o.skip = Len(t),
         Allowed(r, o, l), Leads(r, t, After(o, l), m), Joins(l, m)
  PROVE  Leads(r, <<o>> \o t, l, m)
  <1>1. PICK b : Outline(r, t, b) /\ b[0] = After(o, l) /\ b[Len(t)] = m
    BY DEF Leads
  <1>2. t \in Seq(Operation) /\ b \in [0 .. Len(t) -> Label]
    BY <1>1 DEF Outline
  <1> DEFINE T == Len(t)
             u == <<o>> \o t
             c == [i \in 0 .. 1 + T |-> IF i = 0 THEN l ELSE b[i - 1]]
  <1>3. T \in Nat /\ u \in Seq(Operation) /\ Len(u) = 1 + T /\ u[1] = o /\ \A i \in 2 .. 1 + T : u[i] = t[i - 1]
    BY <1>2
  <1>4. c \in [0 .. 1 + T -> Label] /\ c[0] = l /\ \A i \in 1 .. 1 + T : c[i] = b[i - 1]
    BY <1>2, <1>3
  <1>5. \A i \in 1 .. T : /\ Allowed(r, t[i], b[i - 1]) /\ b[i] = After(t[i], b[i - 1])
                          /\ (t[i].do = "wait" /\ t[i].skip # 0) =>
                                i + t[i].skip <= T /\ Joins(b[i - 1], b[i + t[i].skip])
    BY <1>1 DEF Outline
  <1>6. \A i \in 1 .. T : t[i].do = "wait" => t[i].skip \in Nat
    <2>1. ASSUME NEW i \in 1 .. T, t[i].do = "wait" PROVE t[i].skip \in Nat
      <3>1. Allowed(r, t[i], b[i - 1])
        BY <1>5
      <3>2. QED BY <2>1, <3>1, WaitTyped
    <2>2. QED BY <2>1
  <1> HIDE DEF T, u, c
  <1>7. ASSUME NEW i \in 1 .. 1 + T
        PROVE  /\ Allowed(r, u[i], c[i - 1]) /\ c[i] = After(u[i], c[i - 1])
               /\ (u[i].do = "wait" /\ u[i].skip # 0) =>
                     i + u[i].skip <= 1 + T /\ Joins(c[i - 1], c[i + u[i].skip])
    <2>1. CASE i = 1
      <3>1. 1 - 1 = 0 /\ 1 \in 1 .. 1 + T
        BY <1>3
      <3>2. u[i] = o /\ c[i - 1] = l /\ c[i] = b[0]
        BY <1>3, <1>4, <2>1, <3>1
      <3>3. i + o.skip = 1 + T /\ 1 + T \in 1 .. 1 + T /\ (1 + T) - 1 = T
        BY <1>3, <2>1 DEF T
      <3>4. c[1 + T] = m
        BY <1>1, <1>4, <3>3 DEF T
      <3>5. 1 + T <= 1 + T
        BY <1>3
      <3>6. QED BY <1>1, <3>2, <3>3, <3>4, <3>5
    <2>2. CASE i # 1
      <3>1. i - 1 \in 1 .. T /\ i \in 2 .. 1 + T /\ i - 1 \in 1 .. 1 + T /\ i \in 1 .. 1 + T
        BY <1>3, <2>2
      <3>2. u[i] = t[i - 1] /\ c[i] = b[i - 1] /\ c[i - 1] = b[(i - 1) - 1]
        BY <1>3, <1>4, <3>1
      <3>3. ASSUME t[i - 1].do = "wait", t[i - 1].skip # 0
            PROVE  i + t[i - 1].skip <= 1 + T /\ Joins(c[i - 1], c[i + t[i - 1].skip])
        <4> DEFINE x == t[i - 1].skip
        <4>0. i - 1 \in 1 .. T
          BY <3>1
        <4>1. (i - 1) + x <= T /\ Joins(b[(i - 1) - 1], b[(i - 1) + x])
          BY <1>5, <4>0, <3>3
        <4>2. x \in Nat
          BY <1>6, <3>1, <3>3
        <4> HIDE DEF x
        <4>3. i + x \in 1 .. 1 + T /\ (i + x) - 1 = (i - 1) + x /\ i + x <= 1 + T
          BY <1>3, <3>1, <4>1, <4>2
        <4>4. c[i + x] = b[(i - 1) + x]
          BY <1>4, <4>3
        <4>5. QED BY <3>2, <4>1, <4>3, <4>4 DEF x
      <3> DEFINE j == i - 1
      <3>7. j \in 1 .. T
        BY <3>1
      <3>8. Allowed(r, t[j], b[j - 1]) /\ b[j] = After(t[j], b[j - 1])
        BY <1>5, <3>7
      <3>4. Allowed(r, t[i - 1], b[(i - 1) - 1]) /\ b[i - 1] = After(t[i - 1], b[(i - 1) - 1])
        BY <3>8
      <3>5. QED BY <3>2, <3>3, <3>4
    <2>3. QED BY <2>1, <2>2
  <1>8. Outline(r, u, c)
    BY <1>3, <1>4, <1>7 DEF Outline
  <1>9. c[0] = l /\ c[Len(u)] = m
    <2>1. 1 + T \in 1 .. 1 + T /\ (1 + T) - 1 = T
      BY <1>3
    <2>2. QED BY <1>1, <1>3, <1>4, <2>1 DEF T
  <1>10. QED BY <1>8, <1>9 DEF Leads, u

(* The constants as the proofs use them: the places of a row reach the eighth spare byte. *)
LEMMA Constants ==
  /\ PARTS = 2 /\ SPARE \in Nat /\ SPARE >= 8 /\ BBOFFSET = 5
  /\ PAGES \in Nat \ {0} /\ BLOCKS \in Nat \ {0} /\ CYCLE \in Nat \ {0}
  /\ Erased \in Value /\ BadMark \in Value /\ Junk \in Value
  /\ 1 \in Place /\ 2 \in Place /\ \A s \in 0 .. 7 : s + 1 \in Place /\ PARTS + s + 1 \in Place
  /\ Place \subseteq Nat /\ \A v, w : <<v, w>> \in OneBit => v \in Value /\ w \in Value
  BY NandAssumption DEF Place

(* Programming a byte over another gives a byte. *)
LEMMA ProgrammedTyped ==
  ASSUME NEW old \in Value, NEW new \in Value
  PROVE  Programmed(old, new) \in Value
  BY Constants DEF Programmed

(* The correction gives a byte, Junk when it gives up. *)
LEMMA CorrectedTyped ==
  ASSUME NEW v \in Value, NEW e
  PROVE  Corrected(v, e) \in Value
  <1>1. CASE e = <<v, v, v>>
    BY <1>1 DEF Corrected
  <1>2. CASE e # <<v, v, v>> /\ \E w \in Value : <<v, w>> \in OneBit /\ e = <<w, w, w>>
    <2>1. PICK w \in Value : e = <<w, w, w>>
      BY <1>2
    <2>2. e[1] = w
      BY <2>1
    <2>3. QED BY <1>2, <2>1, <2>2 DEF Corrected
  <1>3. CASE e # <<v, v, v>> /\ ~ \E w \in Value : <<v, w>> \in OneBit /\ e = <<w, w, w>>
    BY <1>3, Constants DEF Corrected
  <1>4. QED BY <1>1, <1>2, <1>3

(* The spare bytes the six bytes of the code are kept in. *)
LEMMA EccPlaces ==
  /\ EccPlace(1) = 0 /\ EccPlace(2) = 1 /\ EccPlace(3) = 2
  /\ EccPlace(4) = 3 /\ EccPlace(5) = 6 /\ EccPlace(6) = 7
  BY DEF EccPlace

(* writeNandPage keeps the spare bytes that are not ECC. *)
LEMMA WithEccIs ==
  ASSUME NEW row \in PageImage
  PROVE  WithEcc(row) = [i \in Place |-> IF i - PARTS - 1 \in {0, 1, 2} THEN row[1]
                                         ELSE IF i - PARTS - 1 \in {3, 6, 7} THEN row[2] ELSE row[i]]
  <1> DEFINE Has(i, k) == i = PARTS + EccPlace(k) + 1
  <1>1. ASSUME NEW i \in Place
        PROVE  (IF \E k \in 1 .. 6 : Has(i, k) THEN row[((CHOOSE k \in 1 .. 6 : Has(i, k)) + 2) \div 3] ELSE row[i])
               = IF i - PARTS - 1 \in {0, 1, 2} THEN row[1]
                 ELSE IF i - PARTS - 1 \in {3, 6, 7} THEN row[2] ELSE row[i]
    <2>0. i \in Int /\ PARTS = 2
      BY Constants
    <2>1. CASE \E k \in 1 .. 6 : Has(i, k)
      <3> DEFINE k == CHOOSE k \in 1 .. 6 : Has(i, k)
      <3>1. k \in 1 .. 6 /\ Has(i, k)
        BY <2>1
      <3> HIDE DEF k
      <3>2. k \in {1, 2, 3} => (k + 2) \div 3 = 1 /\ i - PARTS - 1 \in {0, 1, 2}
        BY <2>0, <3>1, EccPlaces
      <3>3. k \in {4, 5, 6} => (k + 2) \div 3 = 2 /\ i - PARTS - 1 \in {3, 6, 7}
        BY <2>0, <3>1, EccPlaces
      <3>4. k \in {1, 2, 3} \/ k \in {4, 5, 6}
        BY <3>1
      <3>5. (i - PARTS - 1 \in {3, 6, 7}) => ~ (i - PARTS - 1 \in {0, 1, 2})
        OBVIOUS
      <3>6. row[(k + 2) \div 3] = IF i - PARTS - 1 \in {0, 1, 2} THEN row[1]
                 ELSE IF i - PARTS - 1 \in {3, 6, 7} THEN row[2] ELSE row[i]
        BY <3>2, <3>3, <3>4, <3>5
      <3>7. QED BY <2>1, <3>6 DEF k
    <2>2. CASE ~ \E k \in 1 .. 6 : Has(i, k)
      <3>1. /\ ~ Has(i, 1) /\ ~ Has(i, 2) /\ ~ Has(i, 3) /\ ~ Has(i, 4) /\ ~ Has(i, 5) /\ ~ Has(i, 6)
        BY <2>2
      <3>2. i # 3 /\ i # 4 /\ i # 5 /\ i # 6 /\ i # 9 /\ i # 10
        BY <2>0, <3>1, EccPlaces
      <3>3. ~ (i - PARTS - 1 \in {0, 1, 2}) /\ ~ (i - PARTS - 1 \in {3, 6, 7})
        BY <2>0, <3>2
      <3>4. QED BY <2>2, <3>3
    <2>3. QED BY <2>1, <2>2
  <1>2. QED BY <1>1, Zenon DEF WithEcc

(* A page with its code filled in is a page. *)
LEMMA WithEccTyped ==
  ASSUME NEW row \in PageImage
  PROVE  WithEcc(row) \in PageImage
  BY WithEccIs, Constants DEF PageImage

(* The ideal chip after a command byte is an ideal chip, and waits only for a read or when idle. *)
LEMMA CommandTyped ==
  ASSUME NEW r, NEW c \in Ideal, NEW k, ~ c.wait, MayCommand(r, c, k)
  PROVE  /\ AfterCommand(c, k) \in Ideal
         /\ AfterCommand(c, k).wait => AfterCommand(c, k).op \in {"none", "read"}
  <1>1. CASE k = "FF"
    BY <1>1 DEF AfterCommand, Ideal
  <1>2. CASE k \in {"00", "50"}
    <2> DEFINE a == IF k = "00" THEN "main" ELSE "spare"
    <2>1. a \in {"main", "spare"} /\ <<>> \in Seq(Nat)
      OBVIOUS
    <2>2. AfterCommand(c, k) = [c EXCEPT !.area = a, !.op = "read", !.cycles = <<>>]
      BY <1>2 DEF AfterCommand
    <2> HIDE DEF a
    <2>3. QED BY <2>1, <2>2 DEF Ideal
  <1>3. CASE k \in {"60", "80", "90"}
    <2>1. Origin(c) \in Int /\ [i \in Place |-> Erased] \in PageImage
      BY Constants DEF Origin, PageImage
    <2> DEFINE o == IF k = "80" THEN "program" ELSE IF k = "60" THEN "erase" ELSE "id"
               g == [i \in Place |-> Erased]
    <2>2. o \in {"program", "erase", "id"} /\ <<>> \in Seq(Nat)
      OBVIOUS
    <2>3. AfterCommand(c, k) = [c EXCEPT !.op = o, !.cycles = <<>>, !.reg = g, !.col = Origin(c)]
      BY <1>3 DEF AfterCommand
    <2> HIDE DEF o, g
    <2>4. g \in PageImage
      BY <2>1 DEF g
    <2>5. QED BY <2>1, <2>2, <2>3, <2>4 DEF Ideal
  <1>4. CASE k = "10"
    <2> DEFINE row == AddressedRow(Tail(c.cycles))
               new == [c.cells EXCEPT ![row] = [i \in Place |-> Programmed(@[i], c.reg[i])]]
    <2>1. c.cells \in [Row -> PageImage] /\ c.reg \in PageImage
      BY DEF Ideal
    <2>2. new \in [Row -> PageImage]
      <3>1. ASSUME NEW q \in Row PROVE new[q] \in PageImage
        <4>1. c.cells[q] \in PageImage
          BY <2>1
        <4>2. \A i \in Place : Programmed(c.cells[q][i], c.reg[i]) \in Value
          BY <2>1, <4>1, ProgrammedTyped DEF PageImage
        <4>3. [i \in Place |-> Programmed(c.cells[q][i], c.reg[i])] \in PageImage
          BY <4>2 DEF PageImage
        <4>4. new[q] = IF q = row THEN [i \in Place |-> Programmed(c.cells[q][i], c.reg[i])] ELSE c.cells[q]
          BY <2>1
        <4>5. QED BY <4>1, <4>3, <4>4
      <3>2. DOMAIN new = Row /\ new = [q \in Row |-> new[q]]
        BY <2>1
      <3>3. QED BY <3>1, <3>2
    <2> HIDE DEF new
    <2>3. AfterCommand(c, k) = [c EXCEPT !.op = "none", !.wait = TRUE, !.cells = new]
      BY <1>4 DEF AfterCommand, new
    <2>4. QED BY <2>2, <2>3 DEF Ideal
  <1>5. CASE k = "D0"
    <2> DEFINE new == [q \in Row |-> IF q \div PAGES = AddressedRow(c.cycles) \div PAGES
                                     THEN [i \in Place |-> Erased] ELSE c.cells[q]]
    <2>1. new \in [Row -> PageImage]
      BY Constants DEF Ideal, PageImage
    <2> HIDE DEF new
    <2>2. AfterCommand(c, k) = [c EXCEPT !.op = "none", !.wait = TRUE, !.cells = new]
      BY <1>5 DEF AfterCommand, new
    <2>3. QED BY <2>1, <2>2 DEF Ideal
  <1>6. QED BY <1>1, <1>2, <1>3, <1>4, <1>5 DEF MayCommand, Command

(* The same of an address byte. *)
LEMMA AddressTyped ==
  ASSUME NEW c \in Ideal, NEW a, MayAddress(c, a), ~ c.wait
  PROVE  /\ AfterAddress(c, a) \in Ideal
         /\ AfterAddress(c, a).wait => AfterAddress(c, a).op \in {"none", "read"}
  <1>1. c.cycles \in Seq(Nat) /\ a \in Nat /\ Append(c.cycles, a) \in Seq(Nat)
    BY DEF Ideal, MayAddress
  <1>2. CASE c.op = "read" /\ Len(c.cycles) = 3
    <2> DEFINE row == AddressedRow(Tail(Append(c.cycles, a)))
    <2>1. row \in Row
      BY <1>2 DEF MayAddress
    <2> HIDE DEF row
    <2>2. c.cells[row] \in PageImage /\ Origin(c) \in Int
      BY <2>1, Constants DEF Ideal, Origin
    <2>3. AfterAddress(c, a) = [c EXCEPT !.cycles = Append(c.cycles, a), !.wait = TRUE,
                                         !.reg = c.cells[row], !.col = Origin(c)]
      BY <1>2 DEF AfterAddress, row
    <2>4. QED BY <1>1, <1>2, <2>2, <2>3 DEF Ideal
  <1>3. CASE ~ (c.op = "read" /\ Len(c.cycles) = 3)
    BY <1>1, <1>3 DEF AfterAddress, Ideal
  <1>4. QED BY <1>2, <1>3

(* The same of a data byte, which never makes it wait. *)
LEMMA DataTyped ==
  ASSUME NEW c \in Ideal, NEW v \in Value, ~ c.wait
  PROVE  AfterData(c, v) \in Ideal /\ ~ AfterData(c, v).wait
  <1> DEFINE g == [c.reg EXCEPT ![c.col + 1] = v]
  <1>0. c.reg \in [Place -> Value] /\ c.col \in Int
    BY DEF Ideal, PageImage
  <1>3. c.col + 1 \in Int
    BY <1>0
  <1>1. g \in PageImage
    BY <1>0 DEF PageImage
  <1>2. AfterData(c, v) = [c EXCEPT !.reg = g, !.col = c.col + 1]
    BY DEF AfterData
  <1> HIDE DEF g
  <1>4. QED BY <1>1, <1>2, <1>3 DEF Ideal

(* What the driver does to its buffers touches neither the operation of the chip nor its wait. *)
LEMMA ComputeTyped ==
  ASSUME NEW c \in Ideal, NEW what, NEW n, what = "correct" => n \in 1 .. PARTS, what = "list" => n \in Block
  PROVE  /\ AfterCompute(c, what, n) \in Ideal
         /\ AfterCompute(c, what, n).wait = c.wait /\ AfterCompute(c, what, n).op = c.op
  <1> DEFINE fixed == Corrected(c.page[n], EccOf(c.page, n))
             page == IF what = "copyin" THEN [i \in Place |-> IF i <= PARTS THEN c.user[i] ELSE c.page[i]]
                     ELSE IF what = "ecc" THEN WithEcc(c.page)
                     ELSE IF what = "correct" THEN [c.page EXCEPT ![n] = fixed]
                     ELSE c.page
             usr == IF what = "copyout" THEN [i \in Place |-> IF i <= PARTS THEN c.page[i] ELSE c.user[i]]
                    ELSE IF what = "mark" THEN [c.user EXCEPT ![n] = BadMark]
                    ELSE c.user
             list == IF what # "list" THEN c.list
                     ELSE IF c.page[BBOFFSET + 1] = Erased THEN c.list \cup {n} ELSE c.list \ {n}
             ok == c.ok /\ ~ (what = "correct" /\ fixed = Junk) /\ what # "invalid"
  <1>1. c.page \in PageImage /\ c.user \in PageImage /\ c.list \in SUBSET Block
    BY DEF Ideal
  <1>2. what = "correct" => fixed \in Value
    <2>1. ASSUME what = "correct" PROVE c.page[n] \in Value
      BY <1>1, <2>1, Constants DEF PageImage
    <2>2. QED BY <2>1, CorrectedTyped
  <1> HIDE DEF fixed
  <1>3. page \in PageImage
    BY <1>1, <1>2, WithEccTyped DEF PageImage
  <1>4. usr \in PageImage
    BY <1>1, Constants DEF PageImage
  <1>5. list \in SUBSET Block
    BY <1>1
  <1>6. ok \in BOOLEAN
    OBVIOUS
  <1>7. AfterCompute(c, what, n) = [c EXCEPT !.page = page, !.user = usr, !.list = list, !.ok = ok]
    BY DEF AfterCompute, fixed
  <1> HIDE DEF page, usr, list, ok
  <1>8. QED BY <1>3, <1>4, <1>5, <1>6, <1>7 DEF Ideal

(* Every operation that is allowed leads from label to label. *)
LEMMA AfterTyped ==
  ASSUME NEW r, NEW l \in Label, NEW o, Allowed(r, o, l)
  PROVE  After(o, l) \in Label
  <1> DEFINE R == [high : SUBSET Pins, outputs : SUBSET Lines, bus : OnTheBus, known : BOOLEAN,
                   loose : BOOLEAN, chip : Ideal]
             Sound(m) == (m.chip.wait => m.chip.op \in {"none", "read"}) /\ (~ m.known => m.bus \in Value)
  <1>1. l \in R /\ Sound(l) /\ l.chip \in Ideal
    BY DEF Label
  <1>2. SUFFICES After(o, l) \in R /\ Sound(After(o, l))
    BY DEF Label
  <1>4. CASE o.do = "set"
    <2> DEFINE c == IF Latching(o, l) THEN Latched(l) ELSE l.chip
               h == l.high \cup {o.pin}
    <2>1. c \in Ideal /\ (c.wait => c.op \in {"none", "read"})
      <3>1. CASE Latching(o, l)
        <4>1. MayLatch(r, l)
          BY <1>4, <3>1 DEF Allowed, Computation
        <4>2. CASE ~ IsLow(l, "CLE")
          BY <1>1, <3>1, <4>1, <4>2, CommandTyped DEF MayLatch, Latched
        <4>3. CASE IsLow(l, "CLE") /\ ~ IsLow(l, "ALE")
          BY <1>1, <3>1, <4>1, <4>3, AddressTyped DEF MayLatch, Latched
        <4>4. CASE IsLow(l, "CLE") /\ IsLow(l, "ALE")
          BY <1>1, <3>1, <4>1, <4>4, DataTyped DEF MayLatch, Latched
        <4>5. QED BY <4>2, <4>3, <4>4
      <3>2. CASE ~ Latching(o, l)
        BY <1>1, <3>2
      <3>3. QED BY <3>1, <3>2
    <2>2. h \in SUBSET Pins
      BY <1>1, <1>4 DEF Allowed, Computation
    <2>3. After(o, l) = [l EXCEPT !.high = h, !.chip = c]
      BY <1>4 DEF After
    <2> HIDE DEF c, h
    <2>4. QED BY <1>1, <2>1, <2>2, <2>3
  <1>5. CASE o.do = "clear"
    <2> DEFINE b == l.loose /\ o.pin # "NCE"
               h == l.high \ {o.pin}
               c == IF o.pin = "NRE" /\ l.chip.op = "read" /\ l.chip.col \in 0 .. PARTS + SPARE
                    THEN [l.chip EXCEPT !.col = l.chip.col + 1] ELSE l.chip
    <2>1. c \in Ideal /\ (c.wait => c.op \in {"none", "read"})
      <3>1. l.chip.col + 1 \in Int
        BY <1>1 DEF Ideal
      <3>2. [l.chip EXCEPT !.col = l.chip.col + 1] \in Ideal
        BY <1>1, <3>1 DEF Ideal
      <3>3. /\ [l.chip EXCEPT !.col = l.chip.col + 1].wait = l.chip.wait
            /\ [l.chip EXCEPT !.col = l.chip.col + 1].op = l.chip.op
        BY <1>1 DEF Ideal
      <3>4. QED BY <1>1, <3>2, <3>3
    <2>2. h \in SUBSET Pins /\ b \in BOOLEAN
      BY <1>1
    <2>3. After(o, l) = [l EXCEPT !.high = h, !.loose = b, !.chip = c]
      BY <1>5 DEF After
    <2> HIDE DEF c, h, b
    <2>4. QED BY <1>1, <2>1, <2>2, <2>3
  <1>6. CASE o.do \in {"in", "out"}
    <2>1. o.do = "in" \/ o.pin \in Lines
      BY <1>6 DEF Allowed, Computation
    <2>2. PICK h \in SUBSET Lines : After(o, l) = [l EXCEPT !.outputs = h]
      <3>1. CASE o.do = "in"
        BY <1>1, <3>1 DEF After
      <3>2. CASE o.do = "out"
        BY <1>1, <2>1, <3>2 DEF After
      <3>3. QED BY <1>6, <3>1, <3>2
    <2>3. QED BY <1>1, <2>2
  <1>7. CASE o.do = "put"
    <2>1. o.val \in OnTheBus
      BY <1>7 DEF Allowed, Computation, OnTheBus
    <2>2. After(o, l) = [l EXCEPT !.bus = o.val, !.known = TRUE]
      BY <1>7 DEF After
    <2>3. QED BY <1>1, <2>1, <2>2
  <1>8. CASE o.do = "putfrom"
    <2> DEFINE v == (IF o.buf = "page" THEN l.chip.page ELSE l.chip.user)[o.at]
    <2>1. v \in Value /\ v \in OnTheBus
      BY <1>1, <1>8 DEF Allowed, Computation, OnTheBus, Ideal, PageImage
    <2>2. After(o, l) = [l EXCEPT !.bus = v, !.known = FALSE]
      BY <1>8 DEF After
    <2> HIDE DEF v
    <2>3. QED BY <1>1, <2>1, <2>2
  <1>9. CASE o.do = "get"
    <2> DEFINE g == Given(l.chip)
               page == IF o.buf = "page" THEN [l.chip.page EXCEPT ![o.at] = g] ELSE l.chip.page
               usr == IF o.buf = "user" THEN [l.chip.user EXCEPT ![o.at] = g] ELSE l.chip.user
               c == [l.chip EXCEPT !.page = page, !.user = usr]
    <2>1. g \in Value
      BY <1>1, Constants DEF Given, Ideal, PageImage
    <2>2. l.chip.page \in [Place -> Value] /\ l.chip.user \in [Place -> Value]
      BY <1>1 DEF Ideal, PageImage
    <2>3. page \in PageImage /\ usr \in PageImage
      BY <2>1, <2>2 DEF PageImage
    <2>4. After(o, l) = [l EXCEPT !.chip = c]
      BY <1>9 DEF After
    <2> HIDE DEF g, page, usr
    <2>5. c \in Ideal /\ c.wait = l.chip.wait /\ c.op = l.chip.op
      BY <1>1, <2>3 DEF Ideal
    <2> HIDE DEF c
    <2>6. QED BY <1>1, <2>4, <2>5
  <1>10. CASE o.do = "wait"
    <2> DEFINE c == [l.chip EXCEPT !.wait = FALSE]
               b == o.skip # 0
    <2>1. c \in Ideal /\ ~ c.wait /\ b \in BOOLEAN
      BY <1>1 DEF Ideal
    <2>2. After(o, l) = [l EXCEPT !.chip = c, !.loose = b]
      BY <1>10 DEF After
    <2> HIDE DEF c, b
    <2>3. QED BY <1>1, <2>1, <2>2
  <1>11. CASE o.do \in Computation
    <2> DEFINE c == AfterCompute(l.chip, o.do, o.at)
    <2>1. (o.do = "correct" => o.at \in 1 .. PARTS) /\ (o.do = "list" => o.at \in Block)
      BY <1>11 DEF Allowed, Computation
    <2>2. c \in Ideal /\ c.wait = l.chip.wait /\ c.op = l.chip.op
      BY <1>1, <2>1, ComputeTyped
    <2>3. After(o, l) = [l EXCEPT !.chip = c]
      BY <1>11 DEF After, Computation
    <2> HIDE DEF c
    <2>4. QED BY <1>1, <2>2, <2>3
  <1>12. QED BY <1>4, <1>5, <1>6, <1>7, <1>8, <1>9, <1>10, <1>11 DEF Allowed

ChipTyped ==
  /\ area \in {"main", "spare"} /\ op \in {"none", "read", "program", "erase", "id", "reset"}
  /\ cycles \in Seq(Nat) /\ Len(cycles) <= 4 /\ reg \in PageImage /\ col \in 0 .. PARTS + SPARE + 1
  /\ cells \in [Row -> PageImage] /\ busy \in BOOLEAN
  /\ (busy /\ op = "read") => Len(cycles) = 4

(* An erased row is a page. *)
LEMMA Blank == [i \in Place |-> Erased] \in PageImage
  BY Constants DEF PageImage

(* Programming a row, as it is done by the chip. *)
LEMMA ProgramRow ==
  ASSUME NEW cc \in [Row -> PageImage], NEW g \in PageImage, NEW row
  PROVE  LET new == [cc EXCEPT ![row] = [i \in Place |-> Programmed(@[i], g[i])]] IN
         /\ new \in [Row -> PageImage]
         /\ \A q \in Row : q # row => new[q] = cc[q]
         /\ row \in Row => new[row] = [i \in Place |-> Programmed(cc[row][i], g[i])]
  <1> DEFINE new == [cc EXCEPT ![row] = [i \in Place |-> Programmed(@[i], g[i])]]
  <1>1. ASSUME NEW q \in Row
        PROVE  /\ new[q] \in PageImage
               /\ new[q] = IF q = row THEN [i \in Place |-> Programmed(cc[q][i], g[i])] ELSE cc[q]
    <2>1. cc[q] \in PageImage
      OBVIOUS
    <2>2. \A i \in Place : Programmed(cc[q][i], g[i]) \in Value
      BY <2>1, ProgrammedTyped DEF PageImage
    <2>3. [i \in Place |-> Programmed(cc[q][i], g[i])] \in PageImage
      BY <2>2 DEF PageImage
    <2>4. new[q] = IF q = row THEN [i \in Place |-> Programmed(cc[q][i], g[i])] ELSE cc[q]
      OBVIOUS
    <2>5. QED BY <2>1, <2>3, <2>4
  <1>2. DOMAIN new = Row /\ new = [q \in Row |-> new[q]]
    OBVIOUS
  <1> HIDE DEF new
  <1>3. QED BY <1>1, <1>2 DEF new

(* A command. *)
LEMMA CommandStep ==
  ASSUME ChipTyped, NEW c \in Ideal, Weak(c), ~ c.wait, NEW k, MayCommand(req, c, k), ChipCommand(k),
         broken \in BOOLEAN, faults \in 0 .. MaxFaults
  PROVE  /\ ChipTyped' /\ Weak(AfterCommand(c, k))' /\ broken' \in BOOLEAN /\ (broken => broken')
         /\ faults' \in 0 .. MaxFaults
         /\ \A q \in Row \ Target(req) : cells'[q] = cells[q]
         /\ Same(c) /\ ~ broken' => Same(AfterCommand(c, k))'
  <1>1. CASE k = "FF"
    <2>1. op' = "reset" /\ busy' = TRUE /\ UNCHANGED <<area, cycles, reg, col, cells, faults, broken>>
      BY <1>1 DEF ChipCommand
    <2>2. AfterCommand(c, k) = [c EXCEPT !.op = "none", !.wait = TRUE]
      BY <1>1 DEF AfterCommand
    <2>3. Weak(AfterCommand(c, k))'
      BY <2>1 DEF Weak, Harmless
    <2>4. ChipTyped'
      BY <2>1 DEF ChipTyped
    <2>5. Same(c) => Same(AfterCommand(c, k))'
      BY <2>1, <2>2 DEF Same, Ideal
    <2>6. QED BY <2>1, <2>3, <2>4, <2>5
  <1>2. CASE k # "FF" /\ busy
    <2>1. UNCHANGED <<chip, faults, broken>>
      BY <1>2 DEF ChipCommand
    <2>2. Weak(AfterCommand(c, k))'
      BY <1>2, <2>1 DEF Weak, Harmless, chip
    <2>3. ChipTyped'
      BY <2>1 DEF ChipTyped, chip
    <2>4. ~ Same(c)
      BY <1>2 DEF Same
    <2>5. QED BY <2>1, <2>2, <2>3, <2>4 DEF chip
  <1>3. CASE k \in {"00", "50"} /\ ~ busy
    <2> DEFINE a == IF k = "00" THEN "main" ELSE "spare"
    <2>1. area' = a /\ op' = "read" /\ cycles' = <<>> /\ UNCHANGED <<reg, col, busy, cells, faults, broken>>
      BY <1>3 DEF ChipCommand
    <2>2. AfterCommand(c, k) = [c EXCEPT !.area = a, !.op = "read", !.cycles = <<>>]
      BY <1>3 DEF AfterCommand
    <2>0. a \in {"main", "spare"}
      OBVIOUS
    <2> HIDE DEF a
    <2>3. Weak(AfterCommand(c, k))'
      BY <1>3, <2>1, <2>2 DEF Weak, Ideal
    <2>4. ChipTyped'
      BY <1>3, <2>0, <2>1 DEF ChipTyped
    <2>5. Same(c) => Same(AfterCommand(c, k))'
      BY <1>3, <2>1, <2>2 DEF Same, Ideal
    <2>6. QED BY <2>1, <2>3, <2>4, <2>5
  <1>4. CASE k \in {"60", "80", "90"} /\ ~ busy
    <2> DEFINE o == IF k = "80" THEN "program" ELSE IF k = "60" THEN "erase" ELSE "id"
               g == [i \in Place |-> Erased]
    <2>1. op' = o /\ cycles' = <<>> /\ reg' = g /\ col' = Start /\ UNCHANGED <<area, busy, cells, faults, broken>>
      BY <1>4 DEF ChipCommand
    <2>2. AfterCommand(c, k) = [c EXCEPT !.op = o, !.cycles = <<>>, !.reg = g, !.col = Origin(c)]
      BY <1>4 DEF AfterCommand
    <2>0. o \in {"program", "erase", "id"} /\ g \in PageImage
      BY Blank
    <2> HIDE DEF o, g
    <2>3. Weak(AfterCommand(c, k))'
      BY <1>4, <2>1, <2>2 DEF Weak, Ideal
    <2>4. ChipTyped'
      BY <2>0, <2>1, Constants DEF ChipTyped, Start
    <2>5. Same(c) => Same(AfterCommand(c, k))'
      BY <1>4, <2>1, <2>2 DEF Same, Ideal, Start, Origin
    <2>6. QED BY <2>1, <2>3, <2>4, <2>5
  <1>5. CASE k = "10" /\ ~ busy
    <2> DEFINE row == AddressedRow(Tail(cycles))
               new == [cells EXCEPT ![row] = [i \in Place |-> Programmed(@[i], reg[i])]]
    <2>1. c.op = "program" /\ Len(c.cycles) = 4 /\ AddressedRow(Tail(c.cycles)) \in Target(req)
      BY <1>5 DEF MayCommand
    <2>2. CASE op = "program" /\ Len(cycles) = 4
      <3>1. MayBreak(new) /\ busy' = TRUE /\ UNCHANGED <<area, op, cycles, reg, col>>
        BY <1>5, <2>2 DEF ChipCommand
      <3>2. op = c.op /\ cycles = c.cycles
        BY <1>5, <2>2 DEF Weak, Harmless
      <3>3. /\ new \in [Row -> PageImage] /\ \A q \in Row : q # row => new[q] = cells[q]
        <4>1. cells \in [Row -> PageImage] /\ reg \in PageImage
          BY DEF ChipTyped
        <4> HIDE DEF row
        <4>2. /\ new \in [Row -> PageImage]
              /\ \A q \in Row : q # row => new[q] = cells[q]
              /\ row \in Row => new[row] = [i \in Place |-> Programmed(cells[row][i], reg[i])]
          BY <4>1, ProgramRow
        <4>3. QED BY <4>2
      <3>4. row \in Target(req)
        BY <2>1, <3>2
      <3>5. new = [cells EXCEPT ![AddressedRow(Tail(cycles))] = [i \in Place |-> Programmed(@[i], reg[i])]]
        OBVIOUS
      <3> HIDE DEF new, row
      <3>6. /\ cells' \in {new, cells} /\ broken' \in BOOLEAN /\ (broken => broken')
            /\ faults' \in 0 .. MaxFaults /\ (~ broken' => cells' = new)
        <4>1. CASE cells' = new /\ UNCHANGED <<faults, broken>>
          BY <4>1
        <4>2. CASE faults < MaxFaults /\ faults' = faults + 1 /\ broken' = TRUE /\ UNCHANGED cells
          <5>1. faults' \in 0 .. MaxFaults
            BY <4>2, NandAssumption
          <5>2. QED BY <4>2, <5>1
        <4>3. QED BY <3>1, <4>1, <4>2 DEF MayBreak
      <3>7. ChipTyped'
        BY <2>2, <3>1, <3>3, <3>6 DEF ChipTyped
      <3>8. Weak(AfterCommand(c, k))'
        BY <3>1 DEF Weak, Harmless
      <3>9. \A q \in Row \ Target(req) : cells'[q] = cells[q]
        BY <3>3, <3>4, <3>6
      <3>10. ASSUME Same(c), ~ broken' PROVE Same(AfterCommand(c, k))'
        <4>1. AfterCommand(c, k) = [c EXCEPT !.op = "none", !.wait = TRUE, !.cells = new]
          BY <1>5, <3>2, <3>5, <3>10 DEF AfterCommand, Same
        <4>2. QED BY <2>2, <3>1, <3>6, <3>10, <4>1 DEF Same, Ideal
      <3>11. QED BY <3>6, <3>7, <3>8, <3>9, <3>10
    <2>3. CASE ~ (op = "program" /\ Len(cycles) = 4)
      <3>1. UNCHANGED <<chip, faults, broken>>
        BY <1>5, <2>3 DEF ChipCommand
      <3>2. Harmless /\ ~ Same(c)
        BY <1>5, <2>1, <2>3 DEF Weak, Same
      <3>3. Weak(AfterCommand(c, k))' /\ ChipTyped'
        BY <3>1, <3>2 DEF Weak, Harmless, chip, ChipTyped
      <3>4. QED BY <3>1, <3>2, <3>3 DEF chip
    <2>4. QED BY <2>2, <2>3
  <1>6. CASE k = "D0" /\ ~ busy
    <2> DEFINE row == AddressedRow(cycles) \div PAGES
               new == [r \in Row |-> IF r \div PAGES = row THEN [i \in Place |-> Erased] ELSE cells[r]]
    <2>1. /\ c.op = "erase" /\ Len(c.cycles) = 3
          /\ \A q \in Row : q \div PAGES = AddressedRow(c.cycles) \div PAGES => q \in Target(req)
      BY <1>6 DEF MayCommand
    <2>2. CASE op = "erase" /\ Len(cycles) = 3
      <3>1. MayBreak(new) /\ busy' = TRUE /\ UNCHANGED <<area, op, cycles, reg, col>>
        BY <1>6, <2>2 DEF ChipCommand
      <3>2. op = c.op /\ cycles = c.cycles
        BY <1>6, <2>2 DEF Weak, Harmless
      <3>3. /\ new \in [Row -> PageImage] /\ \A q \in Row : q \div PAGES # row => new[q] = cells[q]
        BY Blank DEF ChipTyped
      <3>4. \A q \in Row : q \div PAGES = row => q \in Target(req)
        BY <2>1, <3>2
      <3> HIDE DEF new
      <3>6. /\ cells' \in {new, cells} /\ broken' \in BOOLEAN /\ (broken => broken')
            /\ faults' \in 0 .. MaxFaults /\ (~ broken' => cells' = new)
        <4>1. CASE cells' = new /\ UNCHANGED <<faults, broken>>
          BY <4>1
        <4>2. CASE faults < MaxFaults /\ faults' = faults + 1 /\ broken' = TRUE /\ UNCHANGED cells
          <5>1. faults' \in 0 .. MaxFaults
            BY <4>2, NandAssumption
          <5>2. QED BY <4>2, <5>1
        <4>3. QED BY <3>1, <4>1, <4>2 DEF MayBreak
      <3>7. ChipTyped'
        BY <2>2, <3>1, <3>3, <3>6 DEF ChipTyped
      <3>8. Weak(AfterCommand(c, k))'
        BY <3>1 DEF Weak, Harmless
      <3>9. \A q \in Row \ Target(req) : cells'[q] = cells[q]
        BY <3>3, <3>4, <3>6
      <3>10. ASSUME Same(c), ~ broken' PROVE Same(AfterCommand(c, k))'
        <4>1. AfterCommand(c, k) = [c EXCEPT !.op = "none", !.wait = TRUE, !.cells = new]
          BY <1>6, <3>2, <3>10 DEF AfterCommand, Same, new
        <4>2. QED BY <2>2, <3>1, <3>6, <3>10, <4>1 DEF Same, Ideal
      <3>11. QED BY <3>6, <3>7, <3>8, <3>9, <3>10
    <2>3. CASE ~ (op = "erase" /\ Len(cycles) = 3)
      <3>1. UNCHANGED <<chip, faults, broken>>
        BY <1>6, <2>3 DEF ChipCommand
      <3>2. Harmless /\ ~ Same(c)
        BY <1>6, <2>1, <2>3 DEF Weak, Same
      <3>3. Weak(AfterCommand(c, k))' /\ ChipTyped'
        BY <3>1, <3>2 DEF Weak, Harmless, chip, ChipTyped
      <3>4. QED BY <3>1, <3>2, <3>3 DEF chip
    <2>4. QED BY <2>2, <2>3
  <1>7. QED BY <1>1, <1>2, <1>3, <1>4, <1>5, <1>6 DEF MayCommand, Command

(* An address cycle. *)
LEMMA AddressStep ==
  ASSUME ChipTyped, NEW c \in Ideal, Weak(c), ~ c.wait, NEW a, MayAddress(c, a), ChipAddress(a)
  PROVE  /\ ChipTyped' /\ Weak(AfterAddress(c, a))' /\ cells' = cells
         /\ Same(c) => Same(AfterAddress(c, a))'
  <1>1. a \in Nat /\ Len(c.cycles) < 4 /\ c.cycles \in Seq(Nat)
    BY DEF MayAddress, Ideal
  <1>2. CASE busy \/ Len(cycles) = 4
    <2>1. UNCHANGED chip
      BY <1>2 DEF ChipAddress
    <2>0. Len(c.cycles) # 4
      <3>1. ASSUME NEW n \in Nat, n < 4 PROVE n # 4
        BY <3>1
      <3>2. Len(c.cycles) \in Nat
        BY <1>1
      <3>3. QED BY <1>1, <3>1, <3>2
    <2>2. Harmless /\ ~ Same(c)
      BY <2>0, <1>2 DEF Weak, Harmless, Same
    <2>3. Weak(AfterAddress(c, a))' /\ ChipTyped'
      BY <2>1, <2>2 DEF Weak, Harmless, chip, ChipTyped
    <2>4. QED BY <2>1, <2>2, <2>3 DEF chip
  <1>3. CASE ~ (busy \/ Len(cycles) = 4)
    <2>0. cycles \in Seq(Nat) /\ Len(cycles) < 4 /\ ~ busy
      <3>1. cycles \in Seq(Nat) /\ Len(cycles) <= 4
        BY DEF ChipTyped
      <3>2. Len(cycles) # 4 /\ ~ busy
        BY <1>3
      <3>3. Len(cycles) < 4
        <4>1. ASSUME NEW n \in Nat, n <= 4, n # 4 PROVE n < 4
          BY <4>1
        <4>2. Len(cycles) \in Nat
          BY <3>1
        <4>3. QED BY <3>1, <3>2, <4>1, <4>2
      <3>4. QED BY <3>1, <3>2, <3>3
    <2>1. cycles' = Append(cycles, a) /\ UNCHANGED <<area, op, cells>>
      BY <1>3 DEF ChipAddress
    <2>2. cycles' \in Seq(Nat) /\ Len(cycles') = Len(cycles) + 1 /\ Len(cycles') <= 4
      BY <1>1, <2>0, <2>1
    <2>3. CASE op = "read" /\ Len(cycles) = 3
      <3>1. busy' = TRUE /\ reg' = cells[AddressedRow(Tail(cycles'))] /\ col' = Start
        BY <1>3, <2>3 DEF ChipAddress
      <3>2. op = c.op /\ cycles = c.cycles
        BY <2>0, <2>3 DEF Weak, Harmless
      <3> DEFINE row == AddressedRow(Tail(cycles'))
      <3>3. row \in Row /\ row = AddressedRow(Tail(Append(c.cycles, a)))
        BY <2>1, <2>3, <3>2 DEF MayAddress
      <3> HIDE DEF row
      <3>4. reg' = cells[row]
        BY <3>1 DEF row
      <3>9. Len(cycles') = 4
        BY <2>2, <2>3
      <3>5. ChipTyped'
        BY <2>1, <2>2, <3>9, <3>1, <3>3, <3>4, Constants DEF ChipTyped, Start
      <3>6. Weak(AfterAddress(c, a))'
        BY <3>1 DEF Weak, Harmless
      <3>7. ASSUME Same(c) PROVE Same(AfterAddress(c, a))'
        <4>1. AfterAddress(c, a) = [c EXCEPT !.cycles = Append(c.cycles, a), !.wait = TRUE,
                                             !.reg = c.cells[row], !.col = Origin(c)]
          BY <2>3, <3>2, <3>3 DEF AfterAddress
        <4>2. QED BY <2>1, <3>1, <3>2, <3>4, <3>7, <4>1 DEF Same, Ideal, Origin, Start
      <3>8. QED BY <2>1, <3>5, <3>6, <3>7
    <2>4. CASE ~ (op = "read" /\ Len(cycles) = 3)
      <3>1. UNCHANGED <<busy, reg, col>>
        BY <1>3, <2>4 DEF ChipAddress
      <3>2. ChipTyped'
        BY <2>1, <2>2, <3>1 DEF ChipTyped
      <3>3. Weak(AfterAddress(c, a))'
        <4>1. CASE Harmless
          <5>1. op \in {"none", "id", "reset"}
            <6>1. Len(cycles) # 4 /\ ~ busy
              BY <1>3
            <6>2. QED BY <4>1, <6>1 DEF Harmless
          <5>2. QED BY <2>1, <5>1 DEF Weak, Harmless
        <4>2. CASE op = c.op /\ cycles = c.cycles
          <5>1. AfterAddress(c, a) = [c EXCEPT !.cycles = Append(c.cycles, a)]
            BY <2>4, <4>2 DEF AfterAddress
          <5>2. QED BY <2>0, <2>1, <3>1, <4>2, <5>1 DEF Weak, Ideal
        <4>3. QED BY <4>1, <4>2 DEF Weak
      <3>4. ASSUME Same(c) PROVE Same(AfterAddress(c, a))'
        <4>1. op = c.op /\ cycles = c.cycles
          BY <2>0, <3>4 DEF Same
        <4>2. AfterAddress(c, a) = [c EXCEPT !.cycles = Append(c.cycles, a)]
          BY <2>4, <4>1 DEF AfterAddress
        <4>3. QED BY <2>0, <2>1, <3>1, <3>4, <4>1, <4>2 DEF Same, Ideal
      <3>5. QED BY <2>1, <3>2, <3>3, <3>4
    <2>5. QED BY <2>3, <2>4
  <1>4. QED BY <1>2, <1>3

(* A byte of data. *)
LEMMA DataStep ==
  ASSUME ChipTyped, NEW c \in Ideal, Weak(c), ~ c.wait, NEW v \in Value, MayData(c), ChipData(v)
  PROVE  /\ ChipTyped' /\ cells' = cells
         /\ \A w : Weak(AfterData(c, w))'
         /\ Same(c) => Same(AfterData(c, v))'
  <1>1. c.op = "program" /\ Len(c.cycles) = 4 /\ c.col + 1 \in Place
    BY DEF MayData
  <1>2. UNCHANGED <<op, cycles, busy, cells, area>>
    BY DEF ChipData, chip
  <1>3. \A w : Weak(AfterData(c, w))'
    <2>1. \A w : AfterData(c, w).op = c.op /\ AfterData(c, w).cycles = c.cycles
      BY DEF AfterData, Ideal
    <2>2. QED BY <1>2, <2>1 DEF Weak, Harmless
  <1>4. CASE busy \/ op # "program" \/ Len(cycles) # 4 \/ col + 1 \notin Place
    <2>1. UNCHANGED chip
      BY <1>4 DEF ChipData
    <2>2. ~ Same(c)
      BY <1>1, <1>4 DEF Same
    <2>3. QED BY <1>3, <2>1, <2>2 DEF chip, ChipTyped
  <1>5. CASE ~ (busy \/ op # "program" \/ Len(cycles) # 4 \/ col + 1 \notin Place)
    <2>1. reg' = [reg EXCEPT ![col + 1] = v] /\ col' = col + 1
      BY <1>5 DEF ChipData
    <2>2. col' \in 0 .. PARTS + SPARE + 1
      BY <1>5, <2>1, Constants DEF Place, ChipTyped
    <2>3. reg' \in PageImage
      BY <2>1 DEF ChipTyped, PageImage
    <2>4. ChipTyped'
      BY <1>2, <2>2, <2>3 DEF ChipTyped
    <2>5. ASSUME Same(c) PROVE Same(AfterData(c, v))'
      <3>1. AfterData(c, v) = [c EXCEPT !.reg = reg', !.col = col']
        BY <2>1, <2>5 DEF AfterData, Same
      <3>2. QED BY <1>2, <2>5, <3>1 DEF Same, Ideal
    <2>6. QED BY <1>2, <1>3, <2>4, <2>5
  <1>6. QED BY <1>4, <1>5

Typed ==
  /\ ChipTyped
  /\ high \in SUBSET Pins /\ outputs \in SUBSET Lines
  /\ pageBuf \in PageImage /\ user \in PageImage /\ bblist \in SUBSET Block
  /\ before \in [Row -> PageImage] /\ late \in BOOLEAN /\ broken \in BOOLEAN
  /\ calls \in 0 .. MaxCalls /\ faults \in 0 .. MaxFaults

(* The pins are those of the label, but perhaps for chip enable. *)
LEMMA SameLevel ==
  ASSUME NEW l \in Label, PinsAt(l)
  PROVE  /\ \A p : p # "NCE" => (Low(p) <=> IsLow(l, p))
         /\ Low("NCE") => Selected(l)
         /\ ~ l.loose => high = l.high /\ (Selected(l) <=> Low("NCE"))
         /\ IsLow(l, "NCE") => Low("NCE")
  BY DEF PinsAt, Low, IsLow, Selected

(* Raising a pin follows the outline, with the byte the chip latches on the edge of write enable. *)
LEMMA StepSet ==
  ASSUME Typed, NEW l \in Label, NEW o, Allowed(req, o, l), o.do = "set", At(l), DoSet(o.pin)
  PROVE  Typed' /\ At(After(o, l))'
  <1>1. /\ high' = high \cup {o.pin} /\ req' = req
        /\ UNCHANGED <<outputs, bus, pageBuf, user, bblist, calls, before, late>>
    BY DEF DoSet, Proceed, buffers
  <1>2. o.pin \in Pins
    BY DEF Allowed, Computation
  <1>3. l.chip \in Ideal /\ l.loose \in BOOLEAN /\ l.known \in BOOLEAN
    BY DEF Label
  <1>4. PinsAt(l) /\ Weak(l.chip) /\ Spared /\ (Exactly => ExactAt(l))
    BY DEF At
  <1> DEFINE h == l.high \cup {o.pin}
             c == IF Latching(o, l) THEN Latched(l) ELSE l.chip
             m == [l EXCEPT !.high = h, !.chip = c]
  <1>5. After(o, l) = m
    BY DEF After
  <1>6. /\ m.high = h /\ m.chip = c /\ m.outputs = l.outputs /\ m.bus = l.bus /\ m.known = l.known
           /\ m.loose = l.loose
    BY DEF Label
  <1> HIDE DEF m
  <1>7. PinsAt(m)'
    <2>1. CASE high = l.high
      BY <1>1, <1>4, <1>6, <2>1 DEF PinsAt
    <2>2. CASE l.loose /\ high = l.high \ {"NCE"}
      <3>1. high \cup {o.pin} = h \/ high \cup {o.pin} = h \ {"NCE"}
        BY <2>2
      <3>2. QED BY <1>1, <1>4, <1>6, <2>2, <3>1 DEF PinsAt
    <2>3. QED BY <1>4, <2>1, <2>2 DEF PinsAt
  <1>8. /\ ChipTyped' /\ Weak(c)' /\ broken' \in BOOLEAN /\ (broken => broken') /\ faults' \in 0 .. MaxFaults
        /\ \A q \in Row \ Target(req) : cells'[q] = cells[q]
        /\ (Same(l.chip) /\ Exactly /\ ~ broken' => Same(c)')
    <2>1. CASE Latching(o, l)
      <3>1. MayLatch(req, l) /\ o.pin = "NWE"
        BY <2>1 DEF Allowed, Latching, Computation
      <3>2. ~ l.loose /\ ~ l.chip.wait
        BY <3>1 DEF MayLatch
      <3>3. Low("NWE") /\ Low("NCE") /\ "NWE" \in outputs
        BY <1>4, <2>1, <3>2, SameLevel DEF Latching, PinsAt
      <3>4. ChipInput
        BY <3>1, <3>3 DEF DoSet
      <3>5. (Low("CLE") <=> IsLow(l, "CLE")) /\ (Low("ALE") <=> IsLow(l, "ALE"))
        BY <1>4, SameLevel
      <3>6. c = Latched(l)
        BY <2>1
      <3>7. CASE ~ IsLow(l, "CLE")
        <4>1. l.known /\ MayCommand(req, l.chip, l.bus)
          BY <3>1, <3>7 DEF MayLatch
        <4>2. ChipCommand(l.bus)
          BY <1>4, <3>4, <3>5, <3>7, <4>1 DEF ChipInput, PinsAt
        <4>3. c = AfterCommand(l.chip, l.bus)
          BY <3>6, <3>7 DEF Latched
        <4>4. MayCommand(req, l.chip, l.bus)
          BY <4>1
        <4>5. broken \in BOOLEAN /\ faults \in 0 .. MaxFaults /\ ChipTyped
          BY DEF Typed
        <4> HIDE DEF c
        <4>6. /\ ChipTyped' /\ Weak(AfterCommand(l.chip, l.bus))' /\ broken' \in BOOLEAN /\ (broken => broken')
              /\ faults' \in 0 .. MaxFaults
              /\ \A q \in Row \ Target(req) : cells'[q] = cells[q]
              /\ Same(l.chip) /\ ~ broken' => Same(AfterCommand(l.chip, l.bus))'
          BY <1>3, <1>4, <3>2, <4>2, <4>4, <4>5, CommandStep
        <4>8. QED BY <4>3, <4>6
      <3>8. CASE IsLow(l, "CLE") /\ ~ IsLow(l, "ALE")
        <4>1. l.known /\ MayAddress(l.chip, l.bus)
          BY <3>1, <3>8 DEF MayLatch
        <4>2. ChipAddress(l.bus) /\ UNCHANGED <<faults, broken>>
          BY <1>4, <3>4, <3>5, <3>8, <4>1 DEF ChipInput, PinsAt
        <4>3. c = AfterAddress(l.chip, l.bus)
          BY <3>6, <3>8 DEF Latched
        <4>4. MayAddress(l.chip, l.bus) /\ ChipTyped
          BY <4>1 DEF Typed
        <4> HIDE DEF c
        <4>5. /\ ChipTyped' /\ Weak(AfterAddress(l.chip, l.bus))' /\ cells' = cells
              /\ Same(l.chip) => Same(AfterAddress(l.chip, l.bus))'
          BY <1>3, <1>4, <3>2, <4>2, <4>4, AddressStep
        <4>7. QED BY <4>2, <4>3, <4>5 DEF Typed
      <3>9. CASE IsLow(l, "CLE") /\ IsLow(l, "ALE")
        <4>1. ~ l.known /\ MayData(l.chip)
          BY <3>1, <3>9 DEF MayLatch
        <4>2. bus \in Value /\ UNCHANGED <<faults, broken>>
          BY <1>4, <3>4, <3>5, <3>9, <4>1 DEF ChipInput, PinsAt
        <4>10. PICK v \in Value : v = bus
          BY <4>2
        <4>11. ChipData(v)
          BY <3>4, <3>5, <3>9, <4>10 DEF ChipInput
        <4>3. c = AfterData(l.chip, l.bus)
          BY <3>6, <3>9 DEF Latched
        <4> HIDE DEF c
        <4>4. ChipTyped
          BY DEF Typed
        <4>5. /\ ChipTyped' /\ cells' = cells /\ (\A w : Weak(AfterData(l.chip, w))')
              /\ Same(l.chip) => Same(AfterData(l.chip, v))'
          BY <1>3, <1>4, <3>2, <4>1, <4>11, <4>4, DataStep
        <4>6. Exactly => v = l.bus
          BY <1>4, <4>10 DEF ExactAt
        <4>8. Weak(AfterData(l.chip, l.bus))'
          BY <4>5
        <4>9. QED BY <4>2, <4>3, <4>5, <4>6, <4>8 DEF Typed
      <3>10. QED BY <3>7, <3>8, <3>9
    <2>2. CASE ~ Latching(o, l)
      <3>1. ~ (o.pin = "NWE" /\ Low("NWE") /\ Low("NCE") /\ o.pin \in outputs)
        BY <1>4, <2>2, SameLevel DEF Latching, PinsAt
      <3>2. UNCHANGED <<chip, faults, broken>>
        BY <3>1 DEF DoSet
      <3>3. c = l.chip
        BY <2>2
      <3> HIDE DEF c
      <3>4. ChipTyped' /\ Weak(c)' /\ (Same(l.chip) => Same(c)')
        BY <1>4, <3>2, <3>3 DEF chip, Typed, ChipTyped, Weak, Harmless, Same
      <3>5. QED BY <3>2, <3>4 DEF Typed, chip
    <2>3. QED BY <2>1, <2>2
  <1> HIDE DEF c
  <1>9. Typed'
    BY <1>1, <1>2, <1>8 DEF Typed
  <1>10. Spared'
    <2>1. Target(req)' = Target(req)
      BY <1>1 DEF Target, Pack
    <2>2. QED BY <1>1, <1>4, <1>8, <2>1 DEF Spared
  <1>11. ASSUME Exactly' PROVE ExactAt(m)'
    <2>1. Exactly /\ ~ broken'
      BY <1>1, <1>8, <1>11 DEF Exactly, Typed
    <2>2. c.page = l.chip.page /\ c.user = l.chip.user /\ c.list = l.chip.list /\ c.ok = l.chip.ok
      <3>1. CASE Latching(o, l)
        BY <1>3, <3>1 DEF c, Latched, AfterCommand, AfterAddress, AfterData, Ideal
      <3>2. CASE ~ Latching(o, l)
        BY <3>2 DEF c
      <3>3. QED BY <3>1, <3>2
    <2>3. QED BY <1>1, <1>4, <1>6, <1>8, <2>1, <2>2 DEF ExactAt
  <1>12. QED BY <1>4, <1>5, <1>6, <1>7, <1>8, <1>9, <1>10, <1>11 DEF At

(* Lowering a pin follows the outline, with the byte the chip puts out on the edge of read enable. *)
LEMMA StepClear ==
  ASSUME Typed, NEW l \in Label, NEW o, Allowed(req, o, l), o.do = "clear", At(l), DoClear(o.pin)
  PROVE  Typed' /\ At(After(o, l))'
  <1>1. /\ high' = high \ {o.pin} /\ req' = req
        /\ UNCHANGED <<outputs, bus, pageBuf, user, bblist, area, op, cycles, reg, busy, cells, calls, faults,
                       before, late, broken>>
    BY DEF DoClear, Proceed, buffers, obs
  <1>2. o.pin \in Pins /\ (o.pin = "NRE" => ~ IsLow(l, "NRE") /\ IsLow(l, "NCE") /\ ~ l.chip.wait)
    BY DEF Allowed, Computation
  <1>3. l.chip \in Ideal /\ l.loose \in BOOLEAN /\ l.known \in BOOLEAN
    BY DEF Label
  <1>4. PinsAt(l) /\ Weak(l.chip) /\ Spared /\ (Exactly => ExactAt(l))
    BY DEF At
  <1> DEFINE h == l.high \ {o.pin}
             b == l.loose /\ o.pin # "NCE"
             c == IF o.pin = "NRE" /\ l.chip.op = "read" /\ l.chip.col \in 0 .. PARTS + SPARE
                  THEN [l.chip EXCEPT !.col = l.chip.col + 1] ELSE l.chip
             m == [l EXCEPT !.high = h, !.loose = b, !.chip = c]
  <1>5. After(o, l) = m
    BY DEF After
  <1>6. /\ m.high = h /\ m.chip = c /\ m.outputs = l.outputs /\ m.bus = l.bus /\ m.known = l.known /\ m.loose = b
    BY DEF Label
  <1> HIDE DEF m
  <1>7. PinsAt(m)'
    <2>1. CASE high = l.high
      BY <1>1, <1>4, <1>6, <2>1 DEF PinsAt
    <2>2. CASE l.loose /\ high = l.high \ {"NCE"}
      <3>1. CASE o.pin = "NCE"
        <4>1. high \ {o.pin} = h
          BY <2>2, <3>1
        <4>2. QED BY <1>1, <1>4, <1>6, <4>1 DEF PinsAt
      <3>2. CASE o.pin # "NCE"
        <4>1. high \ {o.pin} = h \ {"NCE"}
          BY <2>2
        <4>2. QED BY <1>1, <1>4, <1>6, <2>2, <3>2, <4>1 DEF PinsAt
      <3>3. QED BY <3>1, <3>2
    <2>3. QED BY <1>4, <2>1, <2>2 DEF PinsAt
  <1>8. c.op = l.chip.op /\ c.cycles = l.chip.cycles /\ c.wait = l.chip.wait /\ c.area = l.chip.area
        /\ c.reg = l.chip.reg /\ c.cells = l.chip.cells
        /\ c.page = l.chip.page /\ c.user = l.chip.user /\ c.list = l.chip.list /\ c.ok = l.chip.ok
    BY <1>3 DEF Ideal
  <1>9. col' \in 0 .. PARTS + SPARE + 1
    <2>1. PARTS + SPARE \in Nat /\ col \in 0 .. PARTS + SPARE + 1
      BY Constants DEF Typed, ChipTyped
    <2>2. CASE col \in 0 .. PARTS + SPARE
      <3>1. col + 1 \in 0 .. PARTS + SPARE + 1
        BY <2>1, <2>2
      <3>2. col' \in {col, col + 1}
        BY DEF DoClear
      <3>3. QED BY <2>1, <3>1, <3>2
    <2>3. CASE col \notin 0 .. PARTS + SPARE
      BY <2>1, <2>3 DEF DoClear
    <2>4. QED BY <2>2, <2>3
  <1>10. Typed'
    BY <1>1, <1>2, <1>9 DEF Typed, ChipTyped
  <1>11. Spared'
    <2>1. Target(req)' = Target(req)
      BY <1>1 DEF Target, Pack
    <2>2. QED BY <1>1, <1>4, <2>1 DEF Spared
  <1>12. Weak(c)'
    BY <1>1, <1>4, <1>8 DEF Weak, Harmless
  <1>13. ASSUME Exactly' PROVE ExactAt(m)'
    <2>1. Exactly
      BY <1>1, <1>13 DEF Exactly
    <2>2. ExactAt(l) /\ Same(l.chip)
      BY <1>4, <2>1 DEF ExactAt
    <2>3. col' = c.col
      <3>1. CASE o.pin # "NRE"
        BY <2>2, <3>1 DEF DoClear, Same
      <3>2. CASE o.pin = "NRE"
        <4>1. ~ Low("NRE") /\ Low("NCE")
          BY <1>2, <1>4, <3>2, SameLevel
        <4>2. ~ busy
          BY <1>2, <2>2, <3>2 DEF Same
        <4>3. op = l.chip.op /\ col = l.chip.col
          BY <2>2, <4>2 DEF Same
        <4>4. col' = IF op = "read" /\ col \in 0 .. PARTS + SPARE THEN col + 1 ELSE col
          BY <3>2, <4>1, <4>2 DEF DoClear
        <4>5. [l.chip EXCEPT !.col = l.chip.col + 1].col = l.chip.col + 1
          BY <1>3 DEF Ideal
        <4>6. QED BY <3>2, <4>3, <4>4, <4>5
      <3>3. QED BY <3>1, <3>2
    <2> HIDE DEF c
    <2>4. Same(c)'
      BY <1>1, <1>8, <2>2, <2>3 DEF Same
    <2>5. high' = h
      BY <1>1, <2>2 DEF ExactAt
    <2>6. QED BY <1>1, <1>6, <1>8, <2>2, <2>4, <2>5 DEF ExactAt
  <1> HIDE DEF c
  <1>14. QED BY <1>5, <1>6, <1>7, <1>10, <1>11, <1>12, <1>13 DEF At

(* Turning a line to input or output follows the outline. *)
LEMMA StepDirection ==
  ASSUME Typed, NEW l \in Label, NEW o, Allowed(req, o, l), o.do \in {"in", "out"}, At(l), DoDirection(o.do, o.pin)
  PROVE  Typed' /\ At(After(o, l))'
  <1>1. /\ outputs' = IF o.do = "out" THEN outputs \cup {o.pin} ELSE outputs \ {o.pin}
        /\ UNCHANGED <<req, high, bus, pageBuf, user, bblist, area, op, cycles, reg, col, busy, cells, calls, faults,
                       before, late, broken>>
    BY DEF DoDirection, Proceed, buffers, obs, chip
  <1>2. o.do = "out" => o.pin \in Lines
    BY DEF Allowed, Computation
  <1>4. PinsAt(l) /\ Weak(l.chip) /\ Spared /\ (Exactly => ExactAt(l))
    BY DEF At
  <1> DEFINE d == IF o.do = "out" THEN l.outputs \cup {o.pin} ELSE l.outputs \ {o.pin}
             m == [l EXCEPT !.outputs = d]
  <1>5. After(o, l) = m
    BY DEF After
  <1>6. /\ m.high = l.high /\ m.chip = l.chip /\ m.outputs = d /\ m.bus = l.bus /\ m.known = l.known
           /\ m.loose = l.loose
    BY DEF Label
  <1>7. outputs' = d
    BY <1>1, <1>4 DEF PinsAt
  <1> HIDE DEF m, d
  <1>8. PinsAt(m)'
    BY <1>1, <1>4, <1>6, <1>7 DEF PinsAt
  <1>9. Typed'
    BY <1>1, <1>2 DEF Typed, ChipTyped
  <1>10. Spared'
    <2>1. Target(req)' = Target(req)
      BY <1>1 DEF Target, Pack
    <2>2. QED BY <1>1, <1>4, <2>1 DEF Spared
  <1>11. Weak(m.chip)' /\ (Exactly' => ExactAt(m)')
    BY <1>1, <1>4, <1>6 DEF Weak, Harmless, Exactly, ExactAt, Same
  <1>12. QED BY <1>5, <1>8, <1>9, <1>10, <1>11 DEF At

(* Putting a byte on the bus follows the outline. *)
LEMMA StepPut ==
  ASSUME Typed, NEW l \in Label, NEW o, Allowed(req, o, l), At(l),
         \/ o.do = "put" /\ DoPut(o.val)
         \/ o.do = "putfrom" /\ DoPut((IF o.buf = "page" THEN pageBuf ELSE user)[o.at])
  PROVE  Typed' /\ At(After(o, l))'
  <1>1. /\ bus' = IF o.do = "put" THEN o.val ELSE (IF o.buf = "page" THEN pageBuf ELSE user)[o.at]
        /\ UNCHANGED <<req, high, outputs, pageBuf, user, bblist, area, op, cycles, reg, col, busy, cells,
                       calls, faults,
                       before, late, broken>>
    BY DEF DoPut, Proceed, buffers, obs, chip
  <1>2. o.do = "putfrom" => o.at \in Place
    BY DEF Allowed, Computation
  <1>4. PinsAt(l) /\ Weak(l.chip) /\ Spared /\ (Exactly => ExactAt(l))
    BY DEF At
  <1> DEFINE v == IF o.do = "put" THEN o.val ELSE (IF o.buf = "page" THEN l.chip.page ELSE l.chip.user)[o.at]
             k == o.do = "put"
             m == [l EXCEPT !.bus = v, !.known = k]
  <1>5. After(o, l) = m
    <2>1. CASE o.do = "put"
      BY <2>1 DEF After
    <2>2. CASE o.do = "putfrom"
      BY <2>2 DEF After
    <2>3. QED BY <2>1, <2>2
  <1>6. /\ m.high = l.high /\ m.chip = l.chip /\ m.outputs = l.outputs /\ m.bus = v /\ m.known = k
           /\ m.loose = l.loose
    BY DEF Label
  <1> HIDE DEF m
  <1>8. PinsAt(m)'
    <2>1. IF m.known THEN bus' = m.bus ELSE bus' \in Value
      <3>1. CASE o.do = "put"
        BY <1>1, <1>6, <3>1
      <3>2. CASE o.do = "putfrom"
        <4>1. bus' \in Value
          BY <1>1, <1>2, <3>2 DEF Typed, PageImage
        <4>2. QED BY <1>6, <3>2, <4>1
      <3>3. QED BY <3>1, <3>2
    <2>2. QED BY <1>1, <1>4, <1>6, <2>1 DEF PinsAt
  <1>9. Typed'
    BY <1>1 DEF Typed, ChipTyped
  <1>10. Spared'
    <2>1. Target(req)' = Target(req)
      BY <1>1 DEF Target, Pack
    <2>2. QED BY <1>1, <1>4, <2>1 DEF Spared
  <1>11. Weak(m.chip)'
    BY <1>1, <1>4, <1>6 DEF Weak, Harmless
  <1>12. ASSUME Exactly' PROVE ExactAt(m)'
    <2>1. ExactAt(l)
      BY <1>1, <1>4, <1>12 DEF Exactly
    <2>2. bus' = v
      BY <1>1, <2>1 DEF ExactAt
    <2>3. QED BY <1>1, <1>6, <2>1, <2>2 DEF ExactAt, Same
  <1>13. QED BY <1>5, <1>8, <1>9, <1>10, <1>11, <1>12 DEF At

(* Taking a byte from the bus follows the outline: it is the byte the ideal chip gives. *)
LEMMA StepGet ==
  ASSUME Typed, NEW l \in Label, NEW o, Allowed(req, o, l), o.do = "get", At(l), DoGet(o.buf, o.at)
  PROVE  Typed' /\ At(After(o, l))'
  <1>1. /\ pageBuf' = IF o.buf = "page" THEN [pageBuf EXCEPT ![o.at] = OnBus] ELSE pageBuf
        /\ user' = IF o.buf = "user" THEN [user EXCEPT ![o.at] = OnBus] ELSE user
        /\ UNCHANGED <<req, high, outputs, bus, bblist, area, op, cycles, reg, col, busy, cells, calls, faults,
                       before, late, broken>>
    BY DEF DoGet, Proceed, gpio, obs, chip
  <1>2. /\ o.at \in Place /\ ~ l.chip.wait
        /\ IsLow(l, "NCE") /\ IsLow(l, "NRE") /\ ~ IsLow(l, "NWE") /\ "bus" \notin l.outputs
    BY DEF Allowed, Computation
  <1>3. l.chip \in Ideal
    BY DEF Label
  <1>4. PinsAt(l) /\ Weak(l.chip) /\ Spared /\ (Exactly => ExactAt(l))
    BY DEF At
  <1> DEFINE g == Given(l.chip)
             page == IF o.buf = "page" THEN [l.chip.page EXCEPT ![o.at] = g] ELSE l.chip.page
             usr == IF o.buf = "user" THEN [l.chip.user EXCEPT ![o.at] = g] ELSE l.chip.user
             c == [l.chip EXCEPT !.page = page, !.user = usr]
             m == [l EXCEPT !.chip = c]
  <1>5. After(o, l) = m
    BY DEF After
  <1>6. /\ m.high = l.high /\ m.chip = c /\ m.outputs = l.outputs /\ m.bus = l.bus /\ m.known = l.known
           /\ m.loose = l.loose
    BY DEF Label
  <1>7. c.op = l.chip.op /\ c.cycles = l.chip.cycles /\ c.wait = l.chip.wait /\ c.area = l.chip.area
        /\ c.reg = l.chip.reg /\ c.cells = l.chip.cells /\ c.col = l.chip.col
        /\ c.page = page /\ c.user = usr /\ c.list = l.chip.list /\ c.ok = l.chip.ok
    BY <1>3 DEF Ideal
  <1> HIDE DEF m, c
  <1>8. PinsAt(m)'
    BY <1>1, <1>4, <1>6 DEF PinsAt
  <1>9. OnBus \in Value
    BY Constants DEF OnBus, Typed, ChipTyped, PageImage
  <1>10. Typed'
    <2>1. pageBuf' \in PageImage /\ user' \in PageImage
      BY <1>1, <1>9 DEF Typed, PageImage
    <2>2. QED BY <1>1, <2>1 DEF Typed, ChipTyped
  <1>11. Spared'
    <2>1. Target(req)' = Target(req)
      BY <1>1 DEF Target, Pack
    <2>2. QED BY <1>1, <1>4, <2>1 DEF Spared
  <1>12. Weak(m.chip)'
    BY <1>1, <1>4, <1>6, <1>7 DEF Weak, Harmless
  <1>13. ASSUME Exactly' PROVE ExactAt(m)'
    <2>1. ExactAt(l) /\ Same(l.chip)
      BY <1>1, <1>4, <1>13 DEF Exactly, ExactAt
    <2>2. OnBus = g
      <3>1. Low("NCE") /\ Low("NRE") /\ ~ Low("NWE") /\ "bus" \notin outputs
        BY <1>2, <1>4, SameLevel DEF PinsAt
      <3>2. ~ busy /\ op = l.chip.op /\ col = l.chip.col /\ reg = l.chip.reg
        BY <1>2, <2>1 DEF Same
      <3>3. QED BY <3>1, <3>2 DEF OnBus, Drives, Given
    <2>3. pageBuf' = page /\ user' = usr
      BY <1>1, <2>1, <2>2 DEF ExactAt
    <2>4. Same(m.chip)'
      BY <1>1, <1>6, <1>7, <2>1 DEF Same
    <2> HIDE DEF page, usr, g
    <2>5. QED BY <1>1, <1>6, <1>7, <2>1, <2>3, <2>4 DEF ExactAt
  <1>14. QED BY <1>5, <1>8, <1>10, <1>11, <1>12, <1>13 DEF At

(* The chip is ready. *)
LEMMA StepReady ==
  ASSUME Typed, NEW l \in Label, NEW o, Allowed(req, o, l), o.do = "wait", At(l), ~ busy, Proceed,
         UNCHANGED <<high, faults, late>>, UNCHANGED <<outputs, bus, buffers, chip, calls, before, broken>>
  PROVE  Typed' /\ At(After(o, l))'
  <1>1. UNCHANGED <<req, high, outputs, bus, pageBuf, user, bblist, area, op, cycles, reg, col, busy, cells,
                    calls, faults,
                    before, late, broken>>
    BY DEF Proceed, buffers, chip
  <1>2. ~ l.loose
    BY DEF Allowed, Computation, Quiet
  <1>3. l.chip \in Ideal
    BY DEF Label
  <1>4. PinsAt(l) /\ Weak(l.chip) /\ Spared /\ (Exactly => ExactAt(l))
    BY DEF At
  <1> DEFINE c == [l.chip EXCEPT !.wait = FALSE]
             m == [l EXCEPT !.chip = c, !.loose = (o.skip # 0)]
  <1>5. After(o, l) = m
    BY DEF After
  <1>6. /\ m.high = l.high /\ m.chip = c /\ m.outputs = l.outputs /\ m.bus = l.bus /\ m.known = l.known
    BY DEF Label
  <1>7. c.op = l.chip.op /\ c.cycles = l.chip.cycles /\ c.wait = FALSE /\ c.area = l.chip.area
        /\ c.reg = l.chip.reg /\ c.cells = l.chip.cells /\ c.col = l.chip.col
        /\ c.page = l.chip.page /\ c.user = l.chip.user /\ c.list = l.chip.list /\ c.ok = l.chip.ok
    BY <1>3 DEF Ideal
  <1> HIDE DEF m, c
  <1>8. PinsAt(m)'
    BY <1>1, <1>2, <1>4, <1>6 DEF PinsAt
  <1>9. Typed'
    BY <1>1 DEF Typed, ChipTyped
  <1>10. Spared'
    <2>1. Target(req)' = Target(req)
      BY <1>1 DEF Target, Pack
    <2>2. QED BY <1>1, <1>4, <2>1 DEF Spared
  <1>11. Weak(m.chip)' /\ (Exactly' => ExactAt(m)')
    BY <1>1, <1>4, <1>6, <1>7 DEF Weak, Harmless, Exactly, ExactAt, Same
  <1>12. QED BY <1>5, <1>8, <1>9, <1>10, <1>11 DEF At

(* A wait is given up, and the call goes on at another label. *)
LEMMA StepGivenUp ==
  ASSUME Typed, NEW l \in Label, NEW m \in Label, NEW o, Allowed(req, o, l), o.do = "wait", At(l), Joins(l, m),
         busy, faults < MaxFaults, faults' = faults + 1, late' = TRUE,
         high' = (IF o.raise THEN high \cup {"NCE"} ELSE high),
         UNCHANGED <<req, ret, outputs, bus, buffers, chip, calls, before, broken>>
  PROVE  Typed' /\ At(m)'
  <1>1. UNCHANGED <<req, outputs, bus, pageBuf, user, bblist, area, op, cycles, reg, col, busy, cells, calls,
                    before, broken>>
    BY DEF buffers, chip
  <1>2. ~ l.loose /\ PinsAt(l) /\ Weak(l.chip) /\ Spared
    BY DEF Allowed, Computation, At, Quiet
  <1>3. high = l.high
    BY <1>2 DEF PinsAt
  <1>4. m.loose /\ m.outputs = l.outputs /\ m.high = l.high \cup {"NCE"} /\ m.known /\ l.known /\ l.bus = m.bus
    BY DEF Joins
  <1>5. high' = m.high \/ high' = m.high \ {"NCE"}
    <2>1. CASE "NCE" \in high
      BY <1>3, <1>4, <2>1
    <2>2. CASE "NCE" \notin high
      BY <1>3, <1>4, <2>2
    <2>3. QED BY <2>1, <2>2
  <1>6. PinsAt(m)'
    BY <1>1, <1>2, <1>4, <1>5 DEF PinsAt
  <1>7. Typed'
    <2>1. faults' \in 0 .. MaxFaults
      BY NandAssumption DEF Typed
    <2>2. high' \in SUBSET Pins
      BY DEF Typed, Pins
    <2>3. QED BY <1>1, <2>1, <2>2 DEF Typed, ChipTyped
  <1>8. Spared'
    <2>1. Target(req)' = Target(req)
      BY <1>1 DEF Target, Pack
    <2>2. QED BY <1>1, <1>2, <2>1 DEF Spared
  <1>9. Weak(m.chip)' /\ ~ Exactly'
    BY <1>1 DEF Weak, Harmless, Exactly
  <1>10. QED BY <1>6, <1>7, <1>8, <1>9 DEF At

(* A computation after which the call goes on. *)
LEMMA StepCompute ==
  ASSUME Typed, NEW l \in Label, NEW o, Allowed(req, o, l), o.do \in Computation, At(l),
         DoCompute(o.do, o.at), Proceed,
         o.do # "invalid", o.do = "correct" => Corrected(pageBuf[o.at], EccOf(pageBuf, o.at)) # Junk
  PROVE  Typed' /\ At(After(o, l))'
  <1> DEFINE what == o.do
             n == o.at
             fixed == Corrected(pageBuf[n], EccOf(pageBuf, n))
             page == IF what = "copyin" THEN [i \in Place |-> IF i <= PARTS THEN user[i] ELSE pageBuf[i]]
                     ELSE IF what = "ecc" THEN WithEcc(pageBuf)
                     ELSE IF what = "correct" THEN [pageBuf EXCEPT ![n] = fixed]
                     ELSE pageBuf
             usr == IF what = "copyout" THEN [i \in Place |-> IF i <= PARTS THEN pageBuf[i] ELSE user[i]]
                    ELSE IF what = "mark" THEN [user EXCEPT ![n] = BadMark]
                    ELSE user
             list == IF what # "list" THEN bblist
                     ELSE IF pageBuf[BBOFFSET + 1] = Erased THEN bblist \cup {n} ELSE bblist \ {n}
  <1>1. pageBuf' = page /\ user' = usr /\ bblist' = list
    BY DEF DoCompute
  <1>2. UNCHANGED <<req, high, outputs, bus, area, op, cycles, reg, col, busy, cells, calls, faults, before,
                    late, broken>>
    BY DEF DoCompute, Proceed, gpio, obs, chip
  <1>3. l.chip \in Ideal
    BY DEF Label
  <1>4. PinsAt(l) /\ Weak(l.chip) /\ Spared /\ (Exactly => ExactAt(l))
    BY DEF At
  <1>5. (what = "correct" => n \in 1 .. PARTS) /\ (what = "list" => n \in Block)
    BY DEF Allowed, Computation
  <1>6. page \in PageImage /\ usr \in PageImage /\ list \in SUBSET Block
    <2>1. pageBuf \in PageImage /\ user \in PageImage /\ bblist \in SUBSET Block
      BY DEF Typed
    <2>2. what = "correct" => fixed \in Value
      <3>1. ASSUME what = "correct" PROVE pageBuf[n] \in Value
        BY <1>5, <2>1, <3>1, Constants DEF PageImage
      <3>2. QED BY <3>1, CorrectedTyped
    <2> HIDE DEF fixed
    <2>3. page \in PageImage
      BY <2>1, <2>2, WithEccTyped DEF PageImage
    <2>4. usr \in PageImage
      BY <2>1, Constants DEF PageImage
    <2>5. QED BY <1>5, <2>1, <2>3, <2>4
  <1>7. Typed'
    BY <1>1, <1>2, <1>6 DEF Typed, ChipTyped
  <1> DEFINE c == AfterCompute(l.chip, what, n)
             m == [l EXCEPT !.chip = c]
  <1>8. After(o, l) = m
    BY DEF After, Computation
  <1>9. /\ m.high = l.high /\ m.chip = c /\ m.outputs = l.outputs /\ m.bus = l.bus /\ m.known = l.known
           /\ m.loose = l.loose
    BY DEF Label
  <1>10. c.op = l.chip.op /\ c.cycles = l.chip.cycles /\ c.wait = l.chip.wait /\ c.area = l.chip.area
         /\ c.reg = l.chip.reg /\ c.cells = l.chip.cells /\ c.col = l.chip.col
    BY <1>3 DEF AfterCompute, Ideal
  <1>11. ASSUME pageBuf = l.chip.page, user = l.chip.user, bblist = l.chip.list, l.chip.ok
         PROVE  c.page = page /\ c.user = usr /\ c.list = list /\ c.ok
    <2>1. c.page = page
      BY <1>3, <1>11 DEF AfterCompute, Ideal
    <2>2. c.user = usr
      BY <1>3, <1>11 DEF AfterCompute, Ideal
    <2>3. c.list = list
      BY <1>3, <1>11 DEF AfterCompute, Ideal
    <2>4. c.ok = (l.chip.ok /\ ~ (what = "correct" /\ fixed = Junk) /\ what # "invalid")
      BY <1>3, <1>11 DEF AfterCompute, Ideal
    <2>5. QED BY <1>11, <2>1, <2>2, <2>3, <2>4
  <1> HIDE DEF m, c, page, usr, list
  <1>12. PinsAt(m)'
    BY <1>2, <1>4, <1>9 DEF PinsAt
  <1>13. Spared'
    <2>1. Target(req)' = Target(req)
      BY <1>2 DEF Target, Pack
    <2>2. QED BY <1>2, <1>4, <2>1 DEF Spared
  <1>14. Weak(m.chip)'
    BY <1>2, <1>4, <1>9, <1>10 DEF Weak, Harmless
  <1>15. ASSUME Exactly' PROVE ExactAt(m)'
    <2>1. ExactAt(l)
      BY <1>2, <1>4, <1>15 DEF Exactly
    <2>2. Same(c)'
      BY <1>2, <1>10, <2>1 DEF ExactAt, Same
    <2>3. QED BY <1>1, <1>2, <1>9, <1>11, <2>1, <2>2 DEF ExactAt
  <1>16. QED BY <1>7, <1>8, <1>12, <1>13, <1>14, <1>15 DEF At

(* Between two calls. *)
Idle ==
  /\ Harmless /\ Spared /\ bus \in OnTheBus
  /\ \/ calls = 0 /\ outputs = {} /\ high = {} /\ ~ busy
     \/ calls > 0 /\ outputs = Lines /\ high \cup {"NCE"} = Rest
  /\ "NCE" \notin high => \/ ret \in {"none", "invalid"}
                          \/ ret = "fail" /\ req.op \in {"open", "read", "readspare", "write"}
  /\ (ret = "ok" /\ Exactly) => Result(req, before, [list |-> bblist, user |-> user, cells |-> cells])

(* How a call ends: with its last operation, if that is not the refusal of its arguments. *)
Ends(r, b, s, e) ==
  \/ s # <<>> /\ s[Len(s)].do = "invalid"
  \/ AtRest(e) /\ (e.chip.ok => Result(r, b, e.chip))

Running == \E st : /\ Outline(req, todo, st) /\ At(st[0])
                   /\ Ends(req, before, todo, st[Len(todo)])

(* The last operation of a call. *)
LEMMA LastStep ==
  ASSUME NEW e \in Label, calls' > 0, At(e)', AtRest(e), e.chip.ok => Result(req', before', e.chip)
  PROVE  Idle'
  <1>1. PinsAt(e)' /\ Weak(e.chip)' /\ Spared' /\ (Exactly' => ExactAt(e)')
    BY DEF At
  <1>2. Quiet(e) /\ "NCE" \in e.high /\ Still(e.chip)
    BY DEF AtRest
  <1>3. outputs' = Lines /\ high' = e.high /\ high' \cup {"NCE"} = Rest
    BY <1>1, <1>2 DEF PinsAt, Quiet
  <1>4. Harmless'
    BY <1>1, <1>2 DEF Weak, Still, Harmless
  <1>5. ASSUME Exactly' PROVE Result(req', before', [list |-> bblist', user |-> user', cells |-> cells'])
    <2>1. ExactAt(e)'
      BY <1>1, <1>5
    <2>2. Result(req', before', e.chip)
      BY <2>1 DEF ExactAt
    <2>3. bblist' = e.chip.list /\ user' = e.chip.user /\ cells' = e.chip.cells
      BY <2>1 DEF ExactAt, Same
    <2> DEFINE d == [list |-> bblist', user |-> user', cells |-> cells']
    <2>4. d.list = e.chip.list /\ d.user = e.chip.user /\ d.cells = e.chip.cells
      BY <2>3
    <2> HIDE DEF d
    <2>5. Result(req', before', d)
      BY <2>2, <2>4 DEF Result
    <2>6. QED BY <2>5 DEF d
  <1>6. bus' \in OnTheBus
    BY <1>1 DEF PinsAt, Label, OnTheBus
  <1>7. QED BY <1>1, <1>2, <1>3, <1>4, <1>5, <1>6 DEF Idle

(* A call that is given up. *)
LEMMA StepGive ==
  ASSUME Typed, NEW l \in Label, Quiet(l), PinsAt(l), Spared, Weak(l.chip), calls > 0, busy \/ Still(l.chip),
         UNCHANGED <<req, outputs, bus, calls, before, chip>>, high' \in {high, high \cup {"NCE"}},
         \/ ret' \in {"none", "invalid"}
         \/ ret' = "fail" /\ ("NCE" \notin high' => req.op \in {"open", "read", "readspare", "write"})
  PROVE  Idle'
  <1>1. outputs' = Lines /\ high' \cup {"NCE"} = Rest
    BY DEF PinsAt, Quiet
  <1>2. Harmless'
    BY DEF Weak, Still, Harmless, chip
  <1>3. Spared'
    <2>1. Target(req)' = Target(req)
      BY DEF Target, Pack
    <2>2. QED BY <2>1 DEF Spared, chip
  <1>4. calls' > 0 /\ ret' # "ok" /\ req' = req
    OBVIOUS
  <1>5. bus' \in OnTheBus
    BY DEF PinsAt, Label, OnTheBus
  <1>6. QED BY <1>1, <1>2, <1>3, <1>4, <1>5 DEF Idle

(* The chip gets ready in the middle of a call. *)
LEMMA StepChip ==
  ASSUME Typed, NEW l \in Label, At(l), ChipReady
  PROVE  Typed' /\ At(l)'
  <1>1. /\ busy /\ busy' = FALSE /\ op' = (IF op = "read" THEN op ELSE "none")
        /\ UNCHANGED <<req, high, outputs, bus, pageBuf, user, bblist, area, cycles, reg, col, cells, calls, faults,
                       before, late, broken>>
    BY DEF ChipReady, driver, gpio, buffers, obs
  <1>2. PinsAt(l) /\ Weak(l.chip) /\ Spared /\ (Exactly => ExactAt(l))
    BY DEF At
  <1>3. Typed'
    BY <1>1 DEF Typed, ChipTyped
  <1>4. PinsAt(l)'
    BY <1>1, <1>2 DEF PinsAt
  <1>5. Spared'
    <2>1. Target(req)' = Target(req)
      BY <1>1 DEF Target, Pack
    <2>2. QED BY <1>1, <1>2, <2>1 DEF Spared
  <1>6. l.chip.wait => l.chip.op \in {"none", "read"}
    BY DEF Label
  <1>7. ASSUME Exactly' PROVE ExactAt(l)'
    <2>1. ExactAt(l) /\ Same(l.chip)
      BY <1>1, <1>2, <1>7 DEF Exactly, ExactAt
    <2>2. Same(l.chip)'
      BY <1>1, <1>6, <2>1 DEF Same
    <2>3. QED BY <1>1, <2>1, <2>2 DEF ExactAt
  <1>8. Weak(l.chip)'
    BY <1>1 DEF Weak, Harmless, Typed, ChipTyped
  <1>9. QED BY <1>2, <1>3, <1>4, <1>5, <1>7, <1>8 DEF At

(* Where a call is. *)
Inv == /\ Typed /\ ret \in {"none", "ok", "fail", "invalid"}
       /\ IF todo = <<>> THEN Idle ELSE Running /\ calls > 0 /\ ret = "none" /\ req \in Request

(* After an operation the call is at the next label, or at its end. *)
LEMMA Proceeding ==
  ASSUME todo # <<>>, NEW r, r = req, NEW b, b = before, NEW s, s = todo, NEW st, Outline(r, s, st),
         Ends(r, b, s, st[Len(s)]), s[1].do # "invalid", calls > 0, ret = "none", req \in Request,
         Typed', At(st[1])', Proceed, UNCHANGED <<calls, before>>
  PROVE  Inv'
  <1>1. s \in Seq(Operation) /\ st \in [0 .. Len(s) -> Label] /\ s # <<>>
    BY DEF Outline
  <1>2. Len(s) \in Nat /\ Len(s) >= 1 /\ 1 \in 0 .. Len(s) /\ Len(s) \in 0 .. Len(s)
    BY <1>1
  <1>3. todo' = SubSeq(s, 2, Len(s)) /\ req' = r /\ before' = b /\ calls' > 0
    BY <1>1 DEF Proceed
  <1>4. ret' = IF Len(s) = 1 THEN "ok" ELSE ret
    BY DEF Proceed
  <1>5. CASE Len(s) = 1
    <2>1. todo' = <<>>
      BY <1>1, <1>3, <1>5
    <2>2. AtRest(st[1]) /\ (st[1].chip.ok => Result(r, b, st[1].chip)) /\ st[1] \in Label
      BY <1>1, <1>2, <1>5 DEF Ends
    <2>3. Idle'
      BY <1>3, <2>2, LastStep
    <2>4. QED BY <1>4, <1>5, <2>1, <2>3 DEF Inv
  <1>6. CASE Len(s) # 1
    <2>0. PICK k \in 0 .. Len(s) : k = 1
      BY <1>2
    <2> DEFINE u == SubSeq(s, k + 1, Len(s))
               c == [i \in 0 .. Len(s) - k |-> st[i + k]]
    <2>1. Outline(r, u, c) /\ c[0] = st[1] /\ Len(u) = Len(s) - 1 /\ c[Len(u)] = st[Len(s)]
      <3>1. Outline(r, u, c) /\ c[0] = st[k] /\ Len(u) = Len(s) - k /\ c[Len(u)] = st[Len(s)]
        BY Shift
      <3>2. QED BY <2>0, <3>1
    <2>2. todo' = u
      BY <1>3, <2>0
    <2>3. u[Len(u)] = s[Len(s)] /\ u # <<>>
      <3>0. ASSUME NEW n \in Nat, n >= 1, n # 1 PROVE n >= 2
        BY <3>0
      <3>1. Len(s) >= 2
        BY <1>2, <1>6, <3>0
      <3>2. QED BY <1>1, <2>0, <3>1
    <2> HIDE DEF u, c
    <2>4. Ends(r, b, u, c[Len(u)])
      BY <2>1, <2>3 DEF Ends
    <2>5. Running'
      <3>1. Outline(req', todo', c) /\ Ends(req', before', todo', c[Len(todo')])
        BY <1>3, <2>1, <2>2, <2>4
      <3>2. At(c[0])'
        BY <2>1
      <3>3. QED BY <3>1, <3>2 DEF Running
    <2>6. QED BY <1>3, <1>4, <1>6, <2>2, <2>3, <2>5 DEF Inv
  <1>7. QED BY <1>5, <1>6

(* One operation of a call. *)
LEMMA DoStep ==
  ASSUME Inv, Do
  PROVE  Inv'
  <1>0. todo # <<>> /\ Typed /\ Running /\ calls > 0 /\ ret = "none" /\ req \in Request
    BY DEF Inv, Do
  <1>1. PICK r, b, s : r = req /\ b = before /\ s = todo
    OBVIOUS
  <1>2. PICK st : Outline(r, s, st) /\ At(st[0]) /\ Ends(r, b, s, st[Len(s)])
    BY <1>0, <1>1 DEF Running
  <1>3. s \in Seq(Operation) /\ st \in [0 .. Len(s) -> Label] /\ s # <<>>
    BY <1>0, <1>1, <1>2 DEF Outline
  <1>4. Len(s) \in Nat /\ Len(s) >= 1 /\ 1 \in 1 .. Len(s) /\ 1 - 1 = 0 /\ 0 \in 0 .. Len(s) /\ 1 \in 0 .. Len(s)
    BY <1>3
  <1>5. PICK o, l, m : o = s[1] /\ l = st[0] /\ m = st[1]
    OBVIOUS
  <1>6. l \in Label /\ m \in Label /\ o \in Operation /\ o = Head(todo)
    BY <1>1, <1>3, <1>4, <1>5
  <1>7. /\ Allowed(r, o, l) /\ m = After(o, l)
        /\ (o.do = "wait" /\ o.skip # 0) => 1 + o.skip <= Len(s) /\ Joins(l, st[1 + o.skip])
    BY <1>2, <1>4, <1>5 DEF Outline
  <1>8. Allowed(req, o, l) /\ At(l)
    BY <1>1, <1>2, <1>5, <1>7
  <1>9. ASSUME o.do # "invalid", Typed', At(After(o, l))', Proceed, UNCHANGED <<calls, before>>
        PROVE  Inv'
    <2>1. At(st[1])' /\ s[1].do # "invalid"
      BY <1>5, <1>7, <1>9
    <2>2. QED BY <1>0, <1>1, <1>2, <1>9, <2>1, Proceeding
  <1>10. ASSUME Quiet(l), busy \/ Still(l.chip), Typed', todo' = <<>>, high' \in {high, high \cup {"NCE"}},
                UNCHANGED <<req, outputs, bus, calls, before, chip>>,
                \/ ret' \in {"none", "invalid"}
                \/ ret' = "fail" /\ ("NCE" \notin high' => req.op \in {"open", "read", "readspare", "write"})
         PROVE  Inv'
    <2>1. PinsAt(l) /\ Spared /\ Weak(l.chip)
      BY <1>8 DEF At
    <2>2. Idle'
      BY <1>0, <1>6, <1>10, <2>1, StepGive
    <2>3. QED BY <1>10, <2>2 DEF Inv
  <1>11. CASE o.do = "set" /\ DoSet(o.pin)
    <2>1. Typed' /\ At(After(o, l))'
      BY <1>0, <1>6, <1>8, <1>11, StepSet
    <2>2. Proceed /\ UNCHANGED <<calls, before>>
      BY <1>11 DEF DoSet
    <2>3. QED BY <1>9, <1>11, <2>1, <2>2
  <1>12. CASE o.do = "clear" /\ DoClear(o.pin)
    <2>1. Typed' /\ At(After(o, l))'
      BY <1>0, <1>6, <1>8, <1>12, StepClear
    <2>2. Proceed /\ UNCHANGED <<calls, before>>
      BY <1>12 DEF DoClear, obs
    <2>3. QED BY <1>9, <1>12, <2>1, <2>2
  <1>13. CASE o.do \in {"in", "out"} /\ DoDirection(o.do, o.pin)
    <2>1. Typed' /\ At(After(o, l))'
      BY <1>0, <1>6, <1>8, <1>13, StepDirection
    <2>2. Proceed /\ UNCHANGED <<calls, before>>
      BY <1>13 DEF DoDirection, obs
    <2>3. QED BY <1>9, <1>13, <2>1, <2>2
  <1>14. CASE \/ o.do = "put" /\ DoPut(o.val)
              \/ o.do = "putfrom" /\ DoPut((IF o.buf = "page" THEN pageBuf ELSE user)[o.at])
    <2>1. Typed' /\ At(After(o, l))'
      BY <1>0, <1>6, <1>8, <1>14, StepPut
    <2>2. Proceed /\ UNCHANGED <<calls, before>>
      BY <1>14 DEF DoPut, obs
    <2>3. QED BY <1>9, <1>14, <2>1, <2>2
  <1>15. CASE o.do = "get" /\ DoGet(o.buf, o.at)
    <2>1. Typed' /\ At(After(o, l))'
      BY <1>0, <1>6, <1>8, <1>15, StepGet
    <2>2. Proceed /\ UNCHANGED <<calls, before>>
      BY <1>15 DEF DoGet, obs
    <2>3. QED BY <1>9, <1>15, <2>1, <2>2
  <1>16. CASE o.do = "wait" /\ DoWait(o.raise, o.skip)
    <2>0. UNCHANGED <<outputs, bus, buffers, chip, calls, before, broken>>
      BY <1>16 DEF DoWait
    <2>1. CASE ~ busy /\ Proceed /\ UNCHANGED <<high, faults, late>>
      <3>1. Typed' /\ At(After(o, l))'
        BY <1>0, <1>6, <1>8, <1>16, <2>0, <2>1, StepReady
      <3>2. QED BY <1>9, <1>16, <2>0, <2>1, <3>1
    <2>2. CASE /\ busy /\ faults < MaxFaults
               /\ faults' = faults + 1
               /\ high' = (IF o.raise THEN high \cup {"NCE"} ELSE high)
               /\ IF o.skip = 0 THEN Give("fail")
                  ELSE todo' = SubSeq(todo, o.skip + 2, Len(todo)) /\ UNCHANGED <<req, ret>>
               /\ late' = (late \/ o.skip # 0)
      <3>1. Quiet(l) /\ o.raise \in BOOLEAN /\ o.skip \in Nat
            /\ ((~ o.raise /\ o.skip = 0) => req.op \in {"open", "read", "readspare", "write"})
        BY <1>8, <1>16 DEF Allowed, Computation
      <3>2. Typed'
        <4>1. faults' \in 0 .. MaxFaults
          BY <1>0, <2>2, NandAssumption DEF Typed
        <4>2. high' \in SUBSET Pins
          BY <1>0, <2>2 DEF Typed, Pins
        <4>3. late' \in BOOLEAN
          BY <1>0, <2>2 DEF Typed
        <4>4. QED BY <1>0, <2>0, <4>1, <4>2, <4>3 DEF Typed, ChipTyped, buffers, chip
      <3>3. CASE o.skip = 0
        <4>1. ret' = "fail" /\ todo' = <<>> /\ req' = req
          BY <2>2, <3>3 DEF Give
        <4>2. "NCE" \notin high' => req.op \in {"open", "read", "readspare", "write"}
          BY <2>2, <3>1, <3>3
        <4>3. high' \in {high, high \cup {"NCE"}}
          BY <2>2
        <4>4. QED BY <1>10, <2>0, <2>2, <3>1, <3>2, <4>1, <4>2, <4>3
      <3>4. CASE o.skip # 0
        <4>1. PICK k \in Nat : k = 1 + o.skip
          BY <3>1
        <4>2. k <= Len(s) /\ Joins(l, st[k]) /\ k \in 0 .. Len(s) /\ st[k] \in Label
          BY <1>3, <1>4, <1>7, <1>16, <3>4, <4>1
        <4>3. UNCHANGED <<req, ret>> /\ late' = TRUE /\ todo' = SubSeq(s, k + 1, Len(s))
          <5>1. o.skip + 2 = k + 1
            BY <3>1, <4>1
          <5>2. QED BY <1>1, <2>2, <3>4, <5>1
        <4>4. At(st[k])'
          BY <1>0, <1>6, <1>8, <1>16, <2>0, <2>2, <4>2, <4>3, StepGivenUp
        <4> DEFINE u == SubSeq(s, k + 1, Len(s))
                   c == [i \in 0 .. Len(s) - k |-> st[i + k]]
        <4>5. Outline(r, u, c) /\ c[0] = st[k] /\ Len(u) = Len(s) - k /\ c[Len(u)] = st[Len(s)]
          BY <1>2, <4>2, Shift
        <4>6. CASE k = Len(s)
          <5>1. todo' = <<>>
            BY <1>3, <1>4, <4>3, <4>6
          <5>2. high' \in {high, high \cup {"NCE"}} /\ ret' = "none"
            BY <1>0, <2>2, <4>3
          <5>3. QED BY <1>10, <2>0, <2>2, <3>1, <3>2, <4>3, <5>1, <5>2
        <4>7. CASE k # Len(s)
          <5>1. u[Len(u)] = s[Len(s)] /\ u # <<>>
            <6>1. k < Len(s)
              BY <1>4, <4>2, <4>7
            <6>2. Len(u) = Len(s) - k /\ Len(u) \in Nat /\ Len(u) > 0
              BY <1>4, <4>5, <6>1
            <6>3. u[Len(u)] = s[Len(s)]
              BY <1>3, <1>4, <6>1, <6>2
            <6>4. u # <<>>
              <7> HIDE DEF u
              <7>1. QED BY <6>2
            <6>5. QED BY <6>3, <6>4
          <5> HIDE DEF u, c
          <5>2. Ends(r, b, u, c[Len(u)])
            BY <1>2, <4>5, <5>1 DEF Ends
          <5>3. todo' = u /\ req' = r /\ before' = b
            BY <1>1, <2>0, <4>3 DEF u
          <5>4. Running'
            <6>1. Outline(req', todo', c) /\ Ends(req', before', todo', c[Len(todo')])
              BY <4>5, <5>2, <5>3
            <6>2. At(c[0])'
              BY <4>4, <4>5
            <6>3. QED BY <6>1, <6>2 DEF Running
          <5>5. QED BY <1>0, <2>0, <3>2, <4>3, <5>1, <5>3, <5>4 DEF Inv
        <4>8. QED BY <4>6, <4>7
      <3>5. QED BY <3>3, <3>4
    <2>3. QED BY <1>16, <2>1, <2>2 DEF DoWait
  <1>17. CASE o.do \in Computation /\ DoCompute(o.do, o.at)
    <2> DEFINE fixed == Corrected(pageBuf[o.at], EccOf(pageBuf, o.at))
    <2>0. /\ UNCHANGED <<gpio, chip, calls, faults, obs>>
          /\ IF o.do = "correct" /\ fixed = Junk THEN Give("fail")
             ELSE IF o.do = "invalid" THEN Give("invalid") ELSE Proceed
      BY <1>17 DEF DoCompute
    <2>1. CASE o.do = "correct" /\ fixed = Junk
      <3>1. Quiet(l) /\ Still(l.chip) /\ req.op = "read" /\ o.at \in 1 .. PARTS
        BY <1>8, <2>1 DEF Allowed, Computation
      <3>2. todo' = <<>> /\ ret' = "fail" /\ req' = req
        BY <2>0, <2>1 DEF Give
      <3>3. Typed'
        <4>1. pageBuf' = [pageBuf EXCEPT ![o.at] = Junk] /\ UNCHANGED <<user, bblist>>
          BY <1>17, <2>1 DEF DoCompute
        <4>2. pageBuf' \in PageImage
          BY <1>0, <4>1, Constants DEF Typed, PageImage
        <4>3. QED BY <1>0, <2>0, <4>1, <4>2 DEF Typed, ChipTyped, gpio, chip, obs
      <3>4. QED BY <1>10, <2>0, <3>1, <3>2, <3>3 DEF gpio, obs
    <2>2. CASE o.do = "invalid"
      <3>1. Quiet(l) /\ Still(l.chip)
        BY <1>8, <2>2 DEF Allowed, Computation
      <3>2. todo' = <<>> /\ ret' = "invalid" /\ req' = req
        BY <2>0, <2>2 DEF Give
      <3>3. Typed'
        <4>1. UNCHANGED <<pageBuf, user, bblist>>
          BY <1>17, <2>2 DEF DoCompute
        <4>2. QED BY <1>0, <2>0, <4>1 DEF Typed, ChipTyped, gpio, chip, obs
      <3>4. QED BY <1>10, <2>0, <3>1, <3>2, <3>3 DEF gpio, obs
    <2>3. CASE o.do # "invalid" /\ ~ (o.do = "correct" /\ fixed = Junk)
      <3>1. Proceed
        BY <2>0, <2>3
      <3>2. Typed' /\ At(After(o, l))'
        BY <1>0, <1>6, <1>8, <1>17, <2>3, <3>1, StepCompute
      <3>3. QED BY <1>9, <2>0, <2>3, <3>1, <3>2 DEF obs
    <2>4. QED BY <2>1, <2>2, <2>3
  <1>18. QED BY <1>6, <1>11, <1>12, <1>13, <1>14, <1>15, <1>16, <1>17 DEF Do, Computation

(* One more operation. *)
LEMMA Further ==
  ASSUME NEW r, NEW s, NEW l, NEW m \in Label, Leads(r, s, l, m), NEW o \in Operation, Allowed(r, o, m),
         o.do = "wait" => o.skip = 0
  PROVE  Leads(r, s \o <<o>>, l, After(o, m)) /\ After(o, m) \in Label
  <1>1. After(o, m) \in Label
    BY AfterTyped
  <1>2. Leads(r, <<o>>, m, After(o, m))
    BY <1>1, Single
  <1>3. QED BY <1>1, <1>2, Chain

(* Every primitive operation the driver uses is an operation of an outline. *)
LEMMA OperationsTyped ==
  /\ \A p \in Lines \cup {"BSY"} : {Set(p), Clear(p), Out(p), In(p)} \subseteq Operation
  /\ \A v \in Command \cup Nat : Put(v) \in Operation
  /\ \A b \in {"page", "user", "id"}, i \in Place : {PutFrom(b, i), Get(b, i)} \subseteq Operation
  /\ \A b \in BOOLEAN, k \in Nat : Wait(b, k) \in Operation
  /\ \A w \in Computation, k \in Nat : Compute(w, k) \in Operation
  <1>1. \A p \in Lines \cup {"BSY"} : {Set(p), Clear(p), Out(p), In(p)} \subseteq Operation
    BY DEF Operation, Set, Clear, Out, In
  <1>2. \A v \in Command \cup Nat : Put(v) \in Operation
    BY DEF Operation, Put
  <1>3. \A b \in {"page", "user", "id"}, i \in Place : {PutFrom(b, i), Get(b, i)} \subseteq Operation
    BY DEF Operation, PutFrom, Get
  <1>4. \A b \in BOOLEAN, k \in Nat : Wait(b, k) \in Operation
    BY DEF Operation, Wait
  <1>5. \A w \in Computation, k \in Nat : Compute(w, k) \in Operation
    BY DEF Operation, Compute
  <1>6. QED BY <1>1, <1>2, <1>3, <1>4, <1>5

(* The chip is selected, and no other line in use. *)
Selecting(l) == l.high = {"NWE", "NRE"} /\ l.outputs = Lines /\ ~ l.loose

(* What the pin operations do to a label. *)
LEMMA SetIs ==
  ASSUME NEW l \in Label, NEW p \in Pins, ~ Latching(Set(p), l)
  PROVE  LET m == After(Set(p), l) IN
         /\ m.high = l.high \cup {p} /\ m.outputs = l.outputs /\ m.bus = l.bus /\ m.known = l.known
         /\ m.loose = l.loose /\ m.chip = l.chip
  BY DEF After, Set, Label

(* The label after a rising edge of write enable. *)
LEMMA LatchIs ==
  ASSUME NEW l \in Label, Latching(Set("NWE"), l)
  PROVE  LET m == After(Set("NWE"), l) IN
         /\ m.high = l.high \cup {"NWE"} /\ m.outputs = l.outputs /\ m.bus = l.bus /\ m.known = l.known
         /\ m.loose = l.loose /\ m.chip = Latched(l)
  BY DEF After, Set, Label

(* The label after a pin is lowered. *)
LEMMA ClearIs ==
  ASSUME NEW l \in Label, NEW p \in Pins
  PROVE  LET m == After(Clear(p), l) IN
         /\ m.high = l.high \ {p} /\ m.outputs = l.outputs /\ m.bus = l.bus /\ m.known = l.known
         /\ m.loose = (l.loose /\ p # "NCE")
         /\ m.chip = IF p = "NRE" /\ l.chip.op = "read" /\ l.chip.col \in 0 .. PARTS + SPARE
                     THEN [l.chip EXCEPT !.col = l.chip.col + 1] ELSE l.chip
  BY DEF After, Clear, Label

(* The label after chip enable or a latch enable is lowered. *)
LEMMA OtherClearIs ==
  ASSUME NEW l \in Label, NEW p \in {"NCE", "CLE", "ALE"}
  PROVE  LET m == After(Clear(p), l) IN
         /\ m.high = l.high \ {p} /\ m.outputs = l.outputs /\ m.bus = l.bus /\ m.known = l.known
         /\ m.chip = l.chip /\ (p = "NCE" \/ ~ l.loose => ~ m.loose)
  BY DEF After, Clear, Label

(* The label after a line is turned to output. *)
LEMMA OutIs ==
  ASSUME NEW l \in Label, NEW p \in Lines
  PROVE  LET m == After(Out(p), l) IN
         /\ m.high = l.high /\ m.outputs = l.outputs \cup {p} /\ m.bus = l.bus /\ m.known = l.known
         /\ m.loose = l.loose /\ m.chip = l.chip
  BY DEF After, Out, Label

(* The label after a line is turned to input. *)
LEMMA InIs ==
  ASSUME NEW l \in Label, NEW p \in {"bus", "BSY"}
  PROVE  LET m == After(In(p), l) IN
         /\ m.high = l.high /\ m.outputs = l.outputs \ {p} /\ m.bus = l.bus /\ m.known = l.known
         /\ m.loose = l.loose /\ m.chip = l.chip
  BY DEF After, In, Label

(* The label after a byte is put on the bus. *)
LEMMA PutIs ==
  ASSUME NEW l \in Label
  PROVE  /\ \A v : LET m == After(Put(v), l) IN
            /\ m.high = l.high /\ m.outputs = l.outputs /\ m.bus = v /\ m.known
            /\ m.loose = l.loose /\ m.chip = l.chip
         /\ \A b, i : LET m == After(PutFrom(b, i), l) IN
            /\ m.high = l.high /\ m.outputs = l.outputs /\ ~ m.known
            /\ m.bus = (IF b = "page" THEN l.chip.page ELSE l.chip.user)[i]
            /\ m.loose = l.loose /\ m.chip = l.chip
  BY DEF After, Put, PutFrom, Label

(* The label after a wait. *)
LEMMA WaitIs ==
  ASSUME NEW l \in Label, NEW b, NEW k
  PROVE  LET m == After(Wait(b, k), l) IN
         /\ m.high = l.high /\ m.outputs = l.outputs /\ m.bus = l.bus /\ m.known = l.known
         /\ m.loose = (k # 0) /\ m.chip = [l.chip EXCEPT !.wait = FALSE]
  BY DEF After, Wait, Label

(* The label after the driver has worked on its buffers. *)
LEMMA ComputeIs ==
  ASSUME NEW l \in Label, NEW w \in Computation, NEW k
  PROVE  LET m == After(Compute(w, k), l) IN
         /\ m.high = l.high /\ m.outputs = l.outputs /\ m.bus = l.bus /\ m.known = l.known
         /\ m.loose = l.loose /\ m.chip = AfterCompute(l.chip, w, k)
  BY DEF After, Compute, Label, Computation

(* Sequences of one length that agree everywhere are equal. *)
LEMMA SameSeq ==
  ASSUME NEW S, NEW s \in Seq(S), NEW t \in Seq(S), Len(s) = Len(t), \A i \in 1 .. Len(s) : s[i] = t[i]
  PROVE  s = t
  OBVIOUS

(* The length and the elements of a concatenation. *)
LEMMA Joined ==
  ASSUME NEW S, NEW s \in Seq(S), NEW t \in Seq(S)
  PROVE  /\ s \o t \in Seq(S)
         /\ Len(s \o t) = Len(s) + Len(t)
         /\ \A i \in 1 .. Len(s) : (s \o t)[i] = s[i]
         /\ \A i \in 1 .. Len(t) : (s \o t)[Len(s) + i] = t[i]
  OBVIOUS

(* The same of a concatenation with a single element. *)
LEMMA AppendedOne ==
  ASSUME NEW S, NEW s \in Seq(S), NEW x \in S, NEW b, b = <<x>>
  PROVE  /\ s \o b \in Seq(S) /\ Len(s \o b) = Len(s) + 1
         /\ \A i \in 1 .. Len(s) : (s \o b)[i] = s[i]
         /\ (s \o b)[Len(s) + 1] = x
  <1>1. b \in Seq(S) /\ Len(b) = 1 /\ b[1] = x
    OBVIOUS
  <1>2. /\ s \o b \in Seq(S)
        /\ Len(s \o b) = Len(s) + Len(b)
        /\ \A i \in 1 .. Len(s) : (s \o b)[i] = s[i]
        /\ \A i \in 1 .. Len(b) : (s \o b)[Len(s) + i] = b[i]
    BY <1>1, Joined
  <1>3. QED BY <1>1, <1>2

(* A sequence that is longer by one than its beginning. *)
LEMMA OneMore ==
  ASSUME NEW S, NEW s \in Seq(S), NEW t \in Seq(S), NEW o \in S, NEW n \in Nat, Len(s) = n, Len(t) = n + 1,
         \A i \in 1 .. n : t[i] = s[i], t[n + 1] = o
  PROVE  t = s \o <<o>>
  <1>1. PICK b : b = <<o>>
    OBVIOUS
  <1>2. PICK u : u = s \o b
    OBVIOUS
  <1>3. u \in Seq(S) /\ Len(u) = Len(s) + 1 /\ u[Len(s) + 1] = o /\ \A i \in 1 .. Len(s) : u[i] = s[i]
    <2>1. /\ s \o b \in Seq(S) /\ Len(s \o b) = Len(s) + 1
          /\ \A i \in 1 .. Len(s) : (s \o b)[i] = s[i]
          /\ (s \o b)[Len(s) + 1] = o
      BY <1>1, AppendedOne
    <2>2. QED BY <1>2, <2>1
  <1>4. \A i \in 1 .. n + 1 : i \in 1 .. n \/ i = n + 1
    OBVIOUS
  <1>5. u = t
    BY <1>3, <1>4, SameSeq
  <1>6. QED BY <1>1, <1>2, <1>5

(* The same of sequences that are written out. *)
LEMMA Longer ==
  ASSUME NEW r, NEW s, NEW t \in Seq(Operation), NEW n \in Nat, NEW l, NEW m \in Label, Leads(r, s, l, m),
         NEW o \in Operation, Allowed(r, o, m), o.do = "wait" => o.skip = 0,
         Len(s) = n, Len(t) = n + 1, \A i \in 1 .. n : t[i] = s[i], t[n + 1] = o
  PROVE  Leads(r, t, l, After(o, m)) /\ After(o, m) \in Label
  <1>1. s \in Seq(Operation)
    BY DEF Leads, Outline
  <1>2. t = s \o <<o>>
    BY <1>1, OneMore
  <1>3. QED BY <1>2, Further

(* A byte that is written to the chip, as a command, an address or data. *)
Takes(r, l, put, c) ==
  \/ /\ put.do = "put" /\ put.val \in Command \cup Nat
     /\ \/ "CLE" \in l.high /\ MayCommand(r, l.chip, put.val) /\ c = AfterCommand(l.chip, put.val)
        \/ "CLE" \notin l.high /\ "ALE" \in l.high /\ MayAddress(l.chip, put.val) /\ c = AfterAddress(l.chip, put.val)
  \/ /\ put.do = "putfrom" /\ put.buf \in {"page", "user"} /\ put.at \in Place
     /\ "CLE" \notin l.high /\ "ALE" \notin l.high /\ MayData(l.chip)
     /\ c = AfterData(l.chip, (IF put.buf = "page" THEN l.chip.page ELSE l.chip.user)[put.at])

(* A byte written with the strobe of write enable is taken by the ideal chip once. *)
LEMMA ByteLeads ==
  ASSUME NEW r, NEW l \in Label, l.outputs = Lines, ~ l.loose, ~ l.chip.wait,
         "NRE" \in l.high, "NWE" \in l.high, "NCE" \notin l.high, NEW put \in Operation, NEW c,
         Takes(r, l, put, c)
  PROVE  \E m \in Label : /\ m.high = l.high /\ m.outputs = Lines /\ ~ m.loose /\ m.known = (put.do = "put")
                             /\ m.chip = c
                          /\ Leads(r, WriteByte(put), l, m)
  <1>1. PICK o1, o2, o3 : o1 = Clear("NWE") /\ o2 = put /\ o3 = Set("NWE")
    OBVIOUS
  <1>2. "NWE" \in Pins /\ {o1, o2, o3} \subseteq Operation /\ "NWE" \in Lines /\ "CLE" \in Lines
        /\ "ALE" \in Lines /\ "NRE" \in Lines
        /\ "NCE" \in Lines
    <2>1. "NWE" \in Pins /\ "NWE" \in Lines /\ "CLE" \in Lines /\ "ALE" \in Lines /\ "NRE" \in Lines
          /\ "NCE" \in Lines
      BY DEF Pins, Lines
    <2>2. QED BY <1>1, <2>1, OperationsTyped
  <1>3. o1.do = "clear" /\ o1.pin = "NWE" /\ o3.do = "set" /\ o3.pin = "NWE"
    BY <1>1 DEF Set, Clear
  <1>4. Allowed(r, o1, l)
    BY <1>2, <1>3 DEF Allowed, SafePins, IsLow
  <1>5. PICK a : a = After(o1, l)
    OBVIOUS
  <1>6. a \in Label /\ Leads(r, <<o1>>, l, a)
    <2>1. a \in Label
      BY <1>4, <1>5, AfterTyped
    <2>2. QED BY <1>2, <1>3, <1>4, <1>5, <2>1, Single
  <1>7. a.high = l.high \ {"NWE"} /\ a.outputs = Lines /\ ~ a.loose /\ a.chip = l.chip
    BY <1>1, <1>2, <1>5, ClearIs
  <1>8. Allowed(r, o2, a)
    <2>1. SafePins(a)
      BY <1>2, <1>7 DEF SafePins, IsLow
    <2>2. QED BY <1>1, <2>1 DEF Allowed, Takes
  <1>9. PICK b : b = After(o2, a)
    OBVIOUS
  <1>10. PICK s1, s2, s3 : s1 = <<o1>> /\ s2 = <<o1, o2>> /\ s3 = <<o1, o2, o3>>
    OBVIOUS
  <1>11. /\ s2 \in Seq(Operation) /\ Len(s1) = 1 /\ Len(s2) = 2 /\ s2[1] = s1[1] /\ s2[2] = o2
         /\ s3 \in Seq(Operation) /\ Len(s3) = 3 /\ s3[1] = s2[1] /\ s3[2] = s2[2] /\ s3[3] = o3
    BY <1>2, <1>10
  <1>12. /\ 1 \in Nat /\ 1 + 1 = 2 /\ \A i \in 1 .. 1 : i = 1
         /\ 2 \in Nat /\ 2 + 1 = 3 /\ \A i \in 1 .. 2 : i = 1 \/ i = 2
    OBVIOUS
  <1>13. b \in Label /\ Leads(r, s2, l, b)
    <2>1. Leads(r, s1, l, a) /\ Allowed(r, o2, a) /\ o2 \in Operation /\ o2.do # "wait" /\ a \in Label
      BY <1>1, <1>2, <1>6, <1>8, <1>10 DEF Takes
    <2>2. s2 \in Seq(Operation) /\ Len(s1) = 1 /\ Len(s2) = 1 + 1 /\ (\A i \in 1 .. 1 : s2[i] = s1[i])
          /\ s2[1 + 1] = o2
      BY <1>11, <1>12
    <2>3. QED BY <1>9, <1>12, <2>1, <2>2, Longer
  <1>14. /\ b.high = l.high \ {"NWE"} /\ b.outputs = Lines /\ ~ b.loose /\ b.chip = l.chip
            /\ b.known = (put.do = "put")
         /\ b.bus = IF put.do = "put" THEN put.val ELSE (IF put.buf = "page" THEN l.chip.page ELSE l.chip.user)[put.at]
    <2>1. CASE put.do = "put"
      <3>1. b = [a EXCEPT !.bus = put.val, !.known = TRUE]
        BY <1>1, <1>9, <2>1 DEF After
      <3>2. QED BY <1>6, <1>7, <2>1, <3>1 DEF Label
    <2>2. CASE put.do = "putfrom"
      <3>1. b = [a EXCEPT !.bus = (IF put.buf = "page" THEN a.chip.page ELSE a.chip.user)[put.at], !.known = FALSE]
        BY <1>1, <1>9, <2>2 DEF After
      <3>2. QED BY <1>6, <1>7, <2>2, <3>1 DEF Label
    <2>3. QED BY <2>1, <2>2 DEF Takes
  <1>15. Latching(o3, b)
    BY <1>2, <1>3, <1>14 DEF Latching, IsLow, Selected
  <1>16. (IsLow(b, "CLE") <=> "CLE" \notin l.high) /\ (IsLow(b, "ALE") <=> "ALE" \notin l.high)
    BY <1>2, <1>14 DEF IsLow
  <1>17. MayLatch(r, b) /\ Latched(b) = c
    <2>1. CASE put.do = "put"
      BY <1>14, <1>16, <2>1 DEF MayLatch, Latched, Takes
    <2>2. CASE put.do = "putfrom"
      BY <1>14, <1>16, <2>2 DEF MayLatch, Latched, Takes
    <2>3. QED BY <2>1, <2>2 DEF Takes
  <1>18. Allowed(r, o3, b)
    <2>1. SafePins(b)
      BY <1>2, <1>14 DEF SafePins, IsLow
    <2>2. QED BY <1>2, <1>3, <1>17, <2>1 DEF Allowed
  <1>19. PICK d : d = After(o3, b)
    OBVIOUS
  <1>20. d \in Label /\ Leads(r, s3, l, d)
    BY <1>2, <1>3, <1>11, <1>12, <1>13, <1>18, <1>19, Longer
  <1>21. d.high = b.high \cup {"NWE"} /\ d.outputs = Lines /\ ~ d.loose /\ d.known = (put.do = "put") /\ d.chip = c
    BY <1>1, <1>13, <1>14, <1>15, <1>17, <1>19, LatchIs
  <1>22. d.high = l.high
    BY <1>14, <1>21
  <1>23. WriteByte(put) = s3
    BY <1>1, <1>10 DEF WriteByte
  <1>24. QED BY <1>20, <1>21, <1>22, <1>23

(* A command or an address cycle. *)
LEMMA LatchLeads ==
  ASSUME NEW r, NEW l \in Label, Selecting(l), ~ l.chip.wait, NEW pin \in {"CLE", "ALE"}, NEW v \in Command \cup Nat,
         IF pin = "CLE" THEN MayCommand(r, l.chip, v) ELSE MayAddress(l.chip, v)
  PROVE  \E m \in Label : /\ Selecting(m) /\ m.known
                          /\ m.chip = IF pin = "CLE" THEN AfterCommand(l.chip, v) ELSE AfterAddress(l.chip, v)
                          /\ Leads(r, <<Set(pin)>> \o WriteByte(Put(v)) \o <<Clear(pin)>>, l, m)
  <1>0. l.high = {"NWE", "NRE"} /\ l.outputs = Lines /\ ~ l.loose
    BY DEF Selecting
  <1>1. pin \in Pins /\ pin \in Lines /\ pin # "NWE" /\ pin # "NRE" /\ pin # "NCE" /\ Put(v) \in Operation
        /\ {Set(pin), Clear(pin)} \subseteq Operation /\ "NRE" \in Lines
    <2>1. pin \in Pins /\ pin \in Lines /\ pin # "NWE" /\ pin # "NRE" /\ pin # "NCE" /\ "NRE" \in Lines
      BY DEF Pins, Lines
    <2>2. QED BY <2>1, OperationsTyped
  <1>2. /\ Set(pin).do = "set" /\ Set(pin).pin = pin /\ Clear(pin).do = "clear" /\ Clear(pin).pin = pin
        /\ Put(v).do = "put" /\ Put(v).val = v
    BY DEF Set, Clear, Put
  <1>3. ~ Latching(Set(pin), l)
    BY <1>1, <1>2 DEF Latching
  <1>4. Allowed(r, Set(pin), l)
    BY <1>0, <1>1, <1>2, <1>3 DEF Allowed, SafePins, IsLow
  <1>5. PICK a : a = After(Set(pin), l)
    OBVIOUS
  <1>6. a \in Label /\ Leads(r, <<Set(pin)>>, l, a)
    <2>1. a \in Label
      BY <1>4, <1>5, AfterTyped
    <2>2. QED BY <1>1, <1>2, <1>4, <1>5, <2>1, Single
  <1>7. a.high = {"NWE", "NRE"} \cup {pin} /\ a.outputs = Lines /\ ~ a.loose /\ a.chip = l.chip
    BY <1>0, <1>1, <1>3, <1>5, SetIs
  <1>18. PICK c : c = IF pin = "CLE" THEN AfterCommand(l.chip, v) ELSE AfterAddress(l.chip, v)
    OBVIOUS
  <1>8. \E b \in Label : /\ b.high = a.high /\ b.outputs = Lines /\ ~ b.loose /\ b.known /\ b.chip = c
                         /\ Leads(r, WriteByte(Put(v)), a, b)
    <2>1. "NRE" \in a.high /\ "NWE" \in a.high /\ "NCE" \notin a.high /\ ("CLE" \in a.high <=> pin = "CLE")
          /\ ("ALE" \in a.high <=> pin = "ALE")
      BY <1>1, <1>7
    <2>2. PICK put \in Operation : put = Put(v) /\ put.do = "put" /\ put.val \in Command \cup Nat /\ put.val = v
      BY <1>1, <1>2
    <2>3. a \in Label /\ ~ a.chip.wait /\ Takes(r, a, put, c)
      BY <1>6, <1>7, <1>18, <2>1, <2>2 DEF Takes
    <2>4. \E b \in Label : /\ b.high = a.high /\ b.outputs = Lines /\ ~ b.loose
                              /\ b.known = (put.do = "put") /\ b.chip = c
                         /\ Leads(r, WriteByte(put), a, b)
      <3>1. a \in Label /\ a.outputs = Lines /\ ~ a.loose /\ ~ a.chip.wait /\ "NRE" \in a.high /\ "NWE" \in a.high
            /\ "NCE" \notin a.high /\ put \in Operation /\ Takes(r, a, put, c)
        BY <1>7, <2>1, <2>2, <2>3
      <3>2. QED BY <3>1, ByteLeads
    <2>5. QED BY <2>2, <2>4
  <1>9. PICK b \in Label : /\ b.high = a.high /\ b.outputs = Lines /\ ~ b.loose /\ b.known /\ b.chip = c
                           /\ Leads(r, WriteByte(Put(v)), a, b)
    BY <1>8
  <1>10. Allowed(r, Clear(pin), b)
    BY <1>1, <1>2, <1>7, <1>9 DEF Allowed, SafePins, IsLow
  <1>11. PICK d : d = After(Clear(pin), b)
    OBVIOUS
  <1>12. Leads(r, <<Set(pin)>> \o WriteByte(Put(v)), l, b)
    BY <1>6, <1>9, Chain
  <1>13. d \in Label /\ Leads(r, (<<Set(pin)>> \o WriteByte(Put(v))) \o <<Clear(pin)>>, l, d)
    BY <1>1, <1>2, <1>10, <1>11, <1>12, Further
  <1>14. d.high = b.high \ {pin} /\ d.outputs = Lines /\ ~ d.loose /\ d.known /\ d.chip = c
    BY <1>1, <1>9, <1>11, ClearIs
  <1>15. d.high = {"NWE", "NRE"}
    BY <1>1, <1>7, <1>9, <1>14
  <1>16. Selecting(d)
    BY <1>14, <1>15 DEF Selecting
  <1>17. QED BY <1>13, <1>14, <1>16, <1>18

(* A command is written as the ideal chip takes it, and the pins are as before. *)
LEMMA CmdLeads ==
  ASSUME NEW r, NEW l \in Label, Selecting(l), ~ l.chip.wait, NEW v, MayCommand(r, l.chip, v)
  PROVE  \E m \in Label : /\ Selecting(m) /\ m.known /\ m.chip = AfterCommand(l.chip, v) /\ Leads(r, Cmd(v), l, m)
  <1>1. v \in Command \cup Nat
    BY DEF MayCommand
  <1>2. QED BY <1>1, LatchLeads DEF Cmd

(* An address byte is written as the ideal chip takes it, and the pins are as before. *)
LEMMA AleLeads ==
  ASSUME NEW r, NEW l \in Label, Selecting(l), ~ l.chip.wait, NEW v, MayAddress(l.chip, v)
  PROVE  \E m \in Label : /\ Selecting(m) /\ m.known /\ m.chip = AfterAddress(l.chip, v) /\ Leads(r, Ale(v), l, m)
  <1>1. v \in Command \cup Nat
    BY DEF MayAddress
  <1>2. QED BY <1>1, LatchLeads DEF Ale

(* Quotient and remainder. *)
LEMMA DivMod ==
  ASSUME NEW x \in Nat, NEW d \in Nat, d > 0
  PROVE  x = d * (x \div d) + (x % d) /\ x \div d \in Nat /\ x % d \in 0 .. d - 1
  OBVIOUS
(* A greater multiple is greater by the divisor at least. *)
LEMMA Times ==
  ASSUME NEW d \in Nat, d > 0, NEW j \in Int, NEW k \in Int, j > k
  PROVE  d * j >= d * k + d
  OBVIOUS
(* Quotient and remainder are unique. *)
LEMMA DivUnique ==
  ASSUME NEW x \in Nat, NEW d \in Nat, d > 0, NEW k \in Nat, NEW e \in Nat, x = d * k + e, e < d
  PROVE  x \div d = k /\ x % d = e
  <1>1. PICK q \in Nat, m \in Nat : q = x \div d /\ m = x % d /\ x = d * q + m /\ m < d
    BY DivMod
  <1>2. CASE q > k
    <2>1. d * q >= d * k + d
      BY <1>2, Times
    <2>2. PICK u \in Int, v \in Int : u = d * q /\ v = d * k
      OBVIOUS
    <2>3. QED BY <1>1, <2>1, <2>2
  <1>3. CASE k > q
    <2>1. d * k >= d * q + d
      BY <1>3, Times
    <2>2. PICK u \in Int, v \in Int : u = d * q /\ v = d * k
      OBVIOUS
    <2>3. QED BY <1>1, <2>1, <2>2
  <1>4. CASE q = k
    BY <1>1, <1>4
  <1>5. QED BY <1>2, <1>3, <1>4

(* Products of naturals. *)
LEMMA ProductTyped ==
  ASSUME NEW j \in Nat, NEW k \in Nat
  PROVE  j * k \in Nat /\ (j > 0 /\ k > 0 => j * k > 0) /\ j * k = k * j
  OBVIOUS

(* Multiplication distributes over addition and is associative. *)
LEMMA Distribute ==
  ASSUME NEW i \in Int, NEW j \in Int, NEW k \in Int
  PROVE  i * (j + k) = i * j + i * k /\ i * (j * k) = (i * j) * k
  OBVIOUS

(* The row of a page, and of a block. *)
LEMMA PackTyped ==
  ASSUME NEW page \in Nat, NEW block \in Nat
  PROVE  /\ Pack(page, block) \in Row /\ Pack(page, block) \in Nat
         /\ Pack(page, block) \div PAGES = block % BLOCKS
         /\ block < BLOCKS => Pack(0, block) = block * PAGES
  <1>0. PAGES \in Nat /\ PAGES > 0 /\ BLOCKS \in Nat /\ BLOCKS > 0
    BY Constants
  <1>1. PICK e, k : e = page % PAGES /\ k = block % BLOCKS
    OBVIOUS
  <1>2. e \in Nat /\ e < PAGES
    BY <1>0, <1>1, DivMod
  <1>3. k \in Nat /\ k < BLOCKS
    BY <1>0, <1>1, DivMod
  <1>4. PICK x : x = PAGES * k
    OBVIOUS
  <1>5. x \in Nat
    BY <1>0, <1>3, <1>4, ProductTyped
  <1>6. Pack(page, block) = x + e
    BY <1>1, <1>2, <1>4, <1>5 DEF Pack
  <1>7. PICK y : y = PAGES * BLOCKS
    OBVIOUS
  <1>8. y \in Nat /\ y = BLOCKS * PAGES
    BY <1>0, <1>7, ProductTyped
  <1>9. y >= x + PAGES
    BY <1>0, <1>3, <1>4, <1>7, Times
  <1>10. x + e \in Nat /\ x + e <= y - 1
    BY <1>0, <1>2, <1>5, <1>8, <1>9
  <1>11. x + e \in Row
    <2>1. x + e \in 0 .. y - 1
      BY <1>8, <1>10
    <2>2. QED BY <1>8, <2>1 DEF Row
  <1>12. (x + e) \div PAGES = k
    BY <1>0, <1>2, <1>3, <1>4, <1>10, DivUnique
  <1>13. ASSUME block < BLOCKS PROVE Pack(0, block) = block * PAGES
    <2>1. 0 % PAGES = 0
      <3>1. PAGES * 0 = 0
        BY <1>0
      <3>2. 0 = PAGES * 0 + 0
        BY <3>1
      <3>3. QED BY <1>0, <3>2, DivUnique
    <2>2. block % BLOCKS = block
      <3>1. BLOCKS * 0 = 0
        BY <1>0
      <3>2. block = BLOCKS * 0 + block
        BY <3>1
      <3>3. QED BY <1>0, <1>13, <3>2, DivUnique
    <2>3. PICK z : z = PAGES * block
      OBVIOUS
    <2>4. z \in Nat /\ z = block * PAGES
      BY <1>0, <2>3, ProductTyped
    <2>5. QED BY <2>1, <2>2, <2>3, <2>4 DEF Pack
  <1>14. QED BY <1>1, <1>6, <1>10, <1>11, <1>12, <1>13

(* The three address cycles of a row are those of that row. *)
LEMMA RowAddressed ==
  ASSUME NEW row \in Row
  PROVE  /\ row % CYCLE \in Nat /\ (row \div CYCLE) % CYCLE \in Nat /\ (row \div (CYCLE * CYCLE)) % 2 \in Nat
         /\ AddressedRow(<<row % CYCLE, (row \div CYCLE) % CYCLE, (row \div (CYCLE * CYCLE)) % 2>>) = row
  <1>0. CYCLE \in Nat /\ CYCLE > 0
    BY Constants
  <1>1. PICK s : s = CYCLE * CYCLE
    OBVIOUS
  <1>2. s \in Nat /\ s > 0
    BY <1>0, <1>1, ProductTyped
  <1>3. BLOCKS * PAGES = s * 2
    BY <1>1, NandAssumption
  <1>4. row \in Nat /\ row < s * 2
    <2>1. row \in 0 .. s * 2 - 1
      BY <1>3 DEF Row
    <2>2. QED BY <1>2, <2>1
  <1>5. PICK q, a : q = row \div CYCLE /\ a = row % CYCLE
    OBVIOUS
  <1>6. q \in Nat /\ a \in Nat /\ a < CYCLE /\ row = CYCLE * q + a
    BY <1>0, <1>4, <1>5, DivMod
  <1>7. PICK k, b : k = q \div CYCLE /\ b = q % CYCLE
    OBVIOUS
  <1>8. k \in Nat /\ b \in Nat /\ b < CYCLE /\ q = CYCLE * k + b
    BY <1>0, <1>6, <1>7, DivMod
  <1>9. PICK x, y : x = CYCLE * b /\ y = s * k
    OBVIOUS
  <1>10. x \in Nat /\ y \in Nat
    BY <1>0, <1>2, <1>8, <1>9, ProductTyped
  <1>11. CYCLE * q = y + x
    <2>1. CYCLE * (CYCLE * k + b) = CYCLE * (CYCLE * k) + CYCLE * b
      BY <1>0, <1>8, ProductTyped, Distribute
    <2>2. CYCLE * (CYCLE * k) = (CYCLE * CYCLE) * k
      BY <1>0, <1>8, Distribute
    <2>3. QED BY <1>1, <1>8, <1>9, <2>1, <2>2
  <1>12. x + a < s
    <2>1. s >= x + CYCLE
      BY <1>0, <1>1, <1>8, <1>9, Times
    <2>2. QED BY <1>0, <1>2, <1>6, <1>10, <2>1
  <1>13. row = y + (x + a)
    BY <1>6, <1>10, <1>11
  <1>14. row \div s = k
    <2>1. x + a \in Nat /\ row = s * k + (x + a)
      BY <1>6, <1>9, <1>10, <1>13
    <2>2. QED BY <1>2, <1>4, <1>8, <1>12, <2>1, DivUnique
  <1>15. k < 2
    <2>1. SUFFICES ASSUME k > 1 PROVE FALSE
      BY <1>8
    <2>2. y >= s * 1 + s
      BY <1>2, <1>8, <1>9, <2>1, Times
    <2>3. s * 1 + s = s * 2
      BY <1>2
    <2>4. y >= s * 2
      BY <2>2, <2>3
    <2>5. QED BY <1>2, <1>4, <1>6, <1>10, <1>13, <2>4
  <1>16. k % 2 = k
    BY <1>8, <1>15
  <1>17. AddressedRow(<<a, b, k>>) = row
    <2>1. AddressedRow(<<a, b, k>>) = a + x + y
      BY <1>1, <1>9 DEF AddressedRow
    <2>2. QED BY <1>6, <1>10, <1>13, <2>1
  <1>18. QED BY <1>1, <1>5, <1>6, <1>7, <1>8, <1>14, <1>16, <1>17

(* Three address bytes after none or one. *)
LEMMA ThreeAppended ==
  ASSUME NEW n \in {0, 1}, NEW s \in Seq(Nat), Len(s) = n, NEW t \in Seq(Nat), Len(t) = n + 3, n = 1 => t[1] = s[1]
  PROVE  Append(Append(Append(s, t[n + 1]), t[n + 2]), t[n + 3]) = t
  <1>1. \A v \in Seq(Nat), x \in Nat :
           /\ Append(v, x) \in Seq(Nat) /\ Len(Append(v, x)) = Len(v) + 1
           /\ \A i \in 1 .. Len(v) : Append(v, x)[i] = v[i]
           /\ Append(v, x)[Len(v) + 1] = x
    OBVIOUS
  <1>2. PICK a \in Nat, b \in Nat, c \in Nat : a = t[n + 1] /\ b = t[n + 2] /\ c = t[n + 3]
    OBVIOUS
  <1>3. PICK u : u = Append(s, a)
    OBVIOUS
  <1>4. u \in Seq(Nat) /\ Len(u) = n + 1 /\ (n = 1 => u[1] = t[1]) /\ u[n + 1] = a
    BY <1>1, <1>3
  <1>5. PICK v : v = Append(u, b)
    OBVIOUS
  <1>6. v \in Seq(Nat) /\ Len(v) = n + 2 /\ (n = 1 => v[1] = t[1]) /\ v[n + 1] = a /\ v[n + 2] = b
    BY <1>1, <1>4, <1>5
  <1>7. PICK w : w = Append(v, c)
    OBVIOUS
  <1>8. w \in Seq(Nat) /\ Len(w) = n + 3 /\ (n = 1 => w[1] = t[1]) /\ w[n + 1] = a /\ w[n + 2] = b /\ w[n + 3] = c
    <2>1. w \in Seq(Nat) /\ Len(w) = Len(v) + 1 /\ (\A i \in 1 .. Len(v) : w[i] = v[i]) /\ w[Len(v) + 1] = c
      BY <1>1, <1>2, <1>6, <1>7
    <2>2. Len(w) = n + 3 /\ w[n + 3] = c
      BY <1>6, <2>1
    <2>3. \A i \in 1 .. n + 2 : w[i] = v[i]
      BY <1>6, <2>1
    <2>4. n + 1 \in 1 .. n + 2 /\ n + 2 \in 1 .. n + 2 /\ (n = 1 => 1 \in 1 .. n + 2)
      OBVIOUS
    <2>5. QED BY <1>6, <2>1, <2>2, <2>3, <2>4
  <1>9. ASSUME NEW i \in 1 .. n + 3 PROVE w[i] = t[i]
    <2>1. i = n + 1 \/ i = n + 2 \/ i = n + 3 \/ (n = 1 /\ i = 1)
      OBVIOUS
    <2>2. QED BY <1>2, <1>8, <2>1
  <1>10. w = t
    BY <1>8, <1>9, SameSeq
  <1>11. QED BY <1>2, <1>3, <1>5, <1>7, <1>10

(* The same, written out. *)
LEMMA Numbers ==
  ASSUME NEW a \in Nat, NEW b \in Nat, NEW c \in Nat
  PROVE  /\ Append(Append(Append(<<>>, a), b), c) = <<a, b, c>>
         /\ Append(Append(Append(<<0>>, a), b), c) = <<0, a, b, c>>
  <1>1. PICK s, t : s = <<>> /\ t = <<a, b, c>>
    OBVIOUS
  <1>2. PICK n \in {0, 1} : n = 0
    OBVIOUS
  <1>3. s \in Seq(Nat) /\ Len(s) = n /\ t \in Seq(Nat) /\ Len(t) = n + 3 /\ (n = 1 => t[1] = s[1])
        /\ t[n + 1] = a /\ t[n + 2] = b /\ t[n + 3] = c
    BY <1>1, <1>2
  <1>4. Append(Append(Append(s, t[n + 1]), t[n + 2]), t[n + 3]) = t
    BY <1>3, ThreeAppended
  <1>5. Append(Append(Append(s, a), b), c) = t
    BY <1>3, <1>4
  <1>6. PICK u, v : u = <<0>> /\ v = <<0, a, b, c>>
    OBVIOUS
  <1>7. PICK k \in {0, 1} : k = 1
    OBVIOUS
  <1>8. u \in Seq(Nat) /\ Len(u) = k /\ v \in Seq(Nat) /\ Len(v) = k + 3 /\ (k = 1 => v[1] = u[1])
        /\ v[k + 1] = a /\ v[k + 2] = b /\ v[k + 3] = c
    BY <1>6, <1>7
  <1>9. Append(Append(Append(u, v[k + 1]), v[k + 2]), v[k + 3]) = v
    BY <1>8, ThreeAppended
  <1>10. Append(Append(Append(u, a), b), c) = v
    BY <1>8, <1>9
  <1>11. QED BY <1>1, <1>5, <1>6, <1>10, Zenon

(* The chip waits for the address cycles of a row. *)
Cycling(c) ==
  \/ c.op = "erase" /\ c.cycles = <<>>
  \/ c.op \in {"read", "program"} /\ c.cycles = <<0>>

(* What the three address cycles of a row do to it. *)
Cycled(c, row, d) ==
  /\ d.area = c.area /\ d.op = c.op /\ d.cells = c.cells
  /\ d.page = c.page /\ d.user = c.user /\ d.list = c.list /\ d.ok = c.ok
  /\ AddressedRow(IF c.op = "erase" THEN d.cycles ELSE Tail(d.cycles)) = row
  /\ Len(d.cycles) = IF c.op = "erase" THEN 3 ELSE 4
  /\ IF c.op = "read" THEN d.wait /\ d.reg = c.cells[row] /\ d.col = Origin(c)
     ELSE ~ d.wait /\ d.reg = c.reg /\ d.col = c.col

(* The three row cycles address the row they were made from, whatever the numbers of pages and blocks. *)
LEMMA CyclesLeads ==
  ASSUME NEW r, NEW l \in Label, Selecting(l), ~ l.chip.wait, NEW row \in Row, Cycling(l.chip)
  PROVE  \E m \in Label : Selecting(m) /\ m.known /\ Leads(r, RowCycles(row), l, m) /\ Cycled(l.chip, row, m.chip)
  <1>1. PICK a, b, c : /\ a = row % CYCLE /\ b = (row \div CYCLE) % CYCLE /\ c = (row \div (CYCLE * CYCLE)) % 2
    OBVIOUS
  <1>2. a \in Nat /\ b \in Nat /\ c \in Nat /\ AddressedRow(<<a, b, c>>) = row
    BY <1>1, RowAddressed
  <1>3. l.chip \in Ideal /\ l.chip.cycles \in Seq(Nat)
    BY DEF Label, Ideal
  <1>4. PICK n \in {0, 1} : n = (IF l.chip.op = "erase" THEN 0 ELSE 1) /\ Len(l.chip.cycles) = n
    BY DEF Cycling
  <1>5. MayAddress(l.chip, a)
    BY <1>2, <1>4 DEF MayAddress
  <1>6. PICK x \in Label : Selecting(x) /\ x.known /\ x.chip = AfterAddress(l.chip, a) /\ Leads(r, Ale(a), l, x)
    BY <1>5, AleLeads
  <1>7. x.chip = [l.chip EXCEPT !.cycles = Append(l.chip.cycles, a)]
    BY <1>4, <1>6 DEF AfterAddress
  <1>8. /\ x.chip.cycles = Append(l.chip.cycles, a) /\ x.chip.area = l.chip.area /\ x.chip.op = l.chip.op
        /\ x.chip.cells = l.chip.cells /\ x.chip.page = l.chip.page /\ x.chip.user = l.chip.user
        /\ x.chip.list = l.chip.list /\ x.chip.ok = l.chip.ok /\ x.chip.reg = l.chip.reg /\ x.chip.col = l.chip.col
        /\ x.chip.wait = l.chip.wait
    BY <1>3, <1>7 DEF Ideal
  <1>9. x.chip.cycles \in Seq(Nat) /\ Len(x.chip.cycles) = n + 1
    BY <1>2, <1>3, <1>4, <1>8
  <1>10. MayAddress(x.chip, b)
    BY <1>2, <1>9 DEF MayAddress
  <1>11. PICK y \in Label : Selecting(y) /\ y.known /\ y.chip = AfterAddress(x.chip, b) /\ Leads(r, Ale(b), x, y)
    BY <1>6, <1>8, <1>10, AleLeads
  <1>12. y.chip = [x.chip EXCEPT !.cycles = Append(x.chip.cycles, b)]
    BY <1>9, <1>11 DEF AfterAddress
  <1>13. /\ y.chip.cycles = Append(x.chip.cycles, b) /\ y.chip.area = l.chip.area /\ y.chip.op = l.chip.op
         /\ y.chip.cells = l.chip.cells /\ y.chip.page = l.chip.page /\ y.chip.user = l.chip.user
         /\ y.chip.list = l.chip.list /\ y.chip.ok = l.chip.ok /\ y.chip.reg = l.chip.reg /\ y.chip.col = l.chip.col
         /\ y.chip.wait = l.chip.wait
    <2>1. x.chip \in Ideal
      BY DEF Label
    <2>2. QED BY <1>8, <1>12, <2>1 DEF Ideal
  <1>14. y.chip.cycles \in Seq(Nat) /\ Len(y.chip.cycles) = n + 2
    BY <1>2, <1>9, <1>13
  <1>15. PICK w : w = Append(y.chip.cycles, c)
    OBVIOUS
  <1>16. w \in Seq(Nat) /\ Len(w) = n + 3
    BY <1>2, <1>14, <1>15
  <1>17. w = Append(Append(Append(l.chip.cycles, a), b), c)
    BY <1>8, <1>13, <1>15
  <1>18. AddressedRow(IF l.chip.op = "erase" THEN w ELSE Tail(w)) = row
    <2>1. CASE l.chip.op = "erase" /\ l.chip.cycles = <<>>
      <3>1. w = <<a, b, c>>
        <4>1. Append(Append(Append(<<>>, a), b), c) = <<a, b, c>>
          BY <1>2, Numbers
        <4>2. QED BY <1>17, <2>1, <4>1, Zenon
      <3>2. QED BY <1>2, <2>1, <3>1
    <2>2. CASE l.chip.op \in {"read", "program"} /\ l.chip.cycles = <<0>>
      <3>1. w = <<0, a, b, c>>
        <4>1. Append(Append(Append(<<0>>, a), b), c) = <<0, a, b, c>>
          BY <1>2, Numbers
        <4>2. QED BY <1>17, <2>2, <4>1, Zenon
      <3>2. Tail(w) = <<a, b, c>>
        BY <3>1
      <3>3. QED BY <1>2, <2>2, <3>2
    <2>3. QED BY <2>1, <2>2 DEF Cycling
  <1>19. MayAddress(y.chip, c)
    BY <1>2, <1>13, <1>14, <1>15, <1>18 DEF MayAddress
  <1>20. PICK z \in Label : Selecting(z) /\ z.known /\ z.chip = AfterAddress(y.chip, c) /\ Leads(r, Ale(c), y, z)
    BY <1>11, <1>13, <1>19, AleLeads
  <1>21. y.chip \in Ideal
    BY DEF Label
  <1>22. /\ z.chip.cycles = w /\ z.chip.area = l.chip.area /\ z.chip.op = l.chip.op
         /\ z.chip.cells = l.chip.cells /\ z.chip.page = l.chip.page /\ z.chip.user = l.chip.user
         /\ z.chip.list = l.chip.list /\ z.chip.ok = l.chip.ok
         /\ IF l.chip.op = "read" THEN z.chip.wait /\ z.chip.reg = l.chip.cells[row] /\ z.chip.col = Origin(l.chip)
            ELSE ~ z.chip.wait /\ z.chip.reg = l.chip.reg /\ z.chip.col = l.chip.col
    <2>1. CASE l.chip.op = "read"
      <3>1. n = 1 /\ Len(y.chip.cycles) = 3 /\ y.chip.op = "read"
        BY <1>4, <1>13, <1>14, <2>1
      <3>2. z.chip = [y.chip EXCEPT !.cycles = w, !.wait = TRUE, !.reg = y.chip.cells[AddressedRow(Tail(w))],
                                    !.col = Origin(y.chip)]
        BY <1>15, <1>20, <3>1 DEF AfterAddress
      <3>3. AddressedRow(Tail(w)) = row
        BY <1>18, <2>1
      <3>4. Origin(y.chip) = Origin(l.chip)
        BY <1>13 DEF Origin
      <3>5. z.chip = [y.chip EXCEPT !.cycles = w, !.wait = TRUE, !.reg = y.chip.cells[row], !.col = Origin(l.chip)]
        BY <3>2, <3>3, <3>4
      <3>6. QED BY <1>13, <1>21, <2>1, <3>5 DEF Ideal
    <2>2. CASE l.chip.op # "read"
      <3>1. z.chip = [y.chip EXCEPT !.cycles = w]
        BY <1>13, <1>15, <1>20, <2>2 DEF AfterAddress
      <3>2. QED BY <1>13, <1>21, <2>2, <3>1 DEF Ideal
    <2>3. QED BY <2>1, <2>2
  <1>23. Leads(r, RowCycles(row), l, z)
    <2>1. Leads(r, Ale(a) \o Ale(b), l, y)
      BY <1>6, <1>11, Chain
    <2>2. Leads(r, (Ale(a) \o Ale(b)) \o Ale(c), l, z)
      BY <1>20, <2>1, Chain
    <2>3. QED BY <1>1, <2>2 DEF RowCycles
  <1>24. Len(w) = IF l.chip.op = "erase" THEN 3 ELSE 4
    BY <1>4, <1>16
  <1>25. Cycled(l.chip, row, z.chip)
    BY <1>18, <1>22, <1>24 DEF Cycled
  <1>26. QED BY <1>20, <1>23, <1>25

(* Two and five operations that are written out. *)
LEMMA Two ==
  ASSUME NEW r, NEW x \in Label, NEW y \in Label, NEW z \in Label, NEW a \in Operation, NEW b \in Operation,
         Allowed(r, a, x), y = After(a, x), Allowed(r, b, y), z = After(b, y),
         a.do = "wait" => a.skip = 0, b.do = "wait" => b.skip = 0
  PROVE  Leads(r, <<a, b>>, x, z)
  <1>1. PICK s, t : s = <<a>> /\ t = <<a, b>>
    OBVIOUS
  <1>2. /\ t \in Seq(Operation) /\ 1 \in Nat /\ Len(s) = 1 /\ Len(t) = 1 + 1
        /\ (\A i \in 1 .. 1 : t[i] = s[i]) /\ t[1 + 1] = b
    BY <1>1
  <1>3. Leads(r, s, x, y)
    BY <1>1, Single
  <1>4. Leads(r, t, x, After(b, y))
    BY <1>2, <1>3, Longer
  <1>5. QED BY <1>1, <1>4

(* An outline of five operations. *)
LEMMA Five ==
  ASSUME NEW r, NEW x \in Label, NEW x1 \in Label, NEW x2 \in Label, NEW x3 \in Label, NEW x4 \in Label,
         NEW x5 \in Label,
         NEW o1 \in Operation, NEW o2 \in Operation, NEW o3 \in Operation, NEW o4 \in Operation, NEW o5 \in Operation,
         Allowed(r, o1, x), x1 = After(o1, x), Allowed(r, o2, x1), x2 = After(o2, x1), Allowed(r, o3, x2),
         x3 = After(o3, x2),
         Allowed(r, o4, x3), x4 = After(o4, x3), Allowed(r, o5, x4), x5 = After(o5, x4),
         o1.do # "wait", o2.do # "wait", o3.do # "wait", o4.do # "wait", o5.do # "wait"
  PROVE  Leads(r, <<o1, o2, o3, o4, o5>>, x, x5)
  <1>1. PICK s2, s3, s4, s5 : s2 = <<o1, o2>> /\ s3 = <<o1, o2, o3>> /\ s4 = <<o1, o2, o3, o4>>
             /\ s5 = <<o1, o2, o3, o4, o5>>
    OBVIOUS
  <1>2. Leads(r, s2, x, x2)
    BY <1>1, Two
  <1>3. Leads(r, s3, x, x3)
    <2>0. PICK n \in Nat : n = 2
      OBVIOUS
    <2>1. /\ s3 \in Seq(Operation) /\ Len(s2) = n /\ Len(s3) = n + 1
          /\ (\A i \in 1 .. n : s3[i] = s2[i]) /\ s3[n + 1] = o3
      BY <1>1, <2>0
    <2>2. Leads(r, s2, x, x2) /\ Allowed(r, o3, x2) /\ o3 \in Operation /\ o3.do # "wait" /\ x2 \in Label
      BY <1>2
    <2>3. Leads(r, s3, x, After(o3, x2))
      BY <2>1, <2>2, Longer
    <2>4. QED BY <2>3
  <1>4. Leads(r, s4, x, x4)
    <2>0. PICK n \in Nat : n = 3
      OBVIOUS
    <2>1. /\ s4 \in Seq(Operation) /\ Len(s3) = n /\ Len(s4) = n + 1
          /\ (\A i \in 1 .. n : s4[i] = s3[i]) /\ s4[n + 1] = o4
      BY <1>1, <2>0
    <2>2. Leads(r, s3, x, x3) /\ Allowed(r, o4, x3) /\ o4 \in Operation /\ o4.do # "wait" /\ x3 \in Label
      BY <1>3
    <2>3. Leads(r, s4, x, After(o4, x3))
      BY <2>1, <2>2, Longer
    <2>4. QED BY <2>3
  <1>5. Leads(r, s5, x, x5)
    <2>0. PICK n \in Nat : n = 4
      OBVIOUS
    <2>1. /\ s5 \in Seq(Operation) /\ Len(s4) = n /\ Len(s5) = n + 1
          /\ (\A i \in 1 .. n : s5[i] = s4[i]) /\ s5[n + 1] = o5
      BY <1>1, <2>0
    <2>2. Leads(r, s4, x, x4) /\ Allowed(r, o5, x4) /\ o5 \in Operation /\ o5.do # "wait" /\ x4 \in Label
      BY <1>4
    <2>3. Leads(r, s5, x, After(o5, x4))
      BY <2>1, <2>2, Longer
    <2>4. QED BY <2>3
  <1>6. QED BY <1>1, <1>5

(* A selected chip, perhaps only because a wait was given up. *)
Reading(l) == l.high = {"NWE", "NRE"} /\ l.outputs = Lines /\ l.known

(* Everything but the buffers, the column and what a program operation fills is the same. *)
SameDevice(c, d) ==
  d.area = c.area /\ d.op = c.op /\ d.cycles = c.cycles /\ d.cells = c.cells /\ d.wait = c.wait
  /\ d.list = c.list /\ d.ok = c.ok

(* One byte is read. *)
LEMMA ReadByteLeads ==
  ASSUME NEW r, NEW l \in Label, Reading(l), ~ l.chip.wait, NEW b \in {"page", "user", "id"}, NEW i \in Place
  PROVE  \E m \in Label : \E v :
           /\ Reading(m) /\ m.bus = l.bus /\ m.loose = l.loose /\ SameDevice(l.chip, m.chip)
              /\ m.chip.reg = l.chip.reg
           /\ m.chip.col = IF l.chip.op = "read" /\ l.chip.col \in 0 .. PARTS + SPARE THEN l.chip.col + 1 ELSE l.chip.col
           /\ m.chip.page = IF b = "page" THEN [l.chip.page EXCEPT ![i] = v] ELSE l.chip.page
           /\ m.chip.user = IF b = "user" THEN [l.chip.user EXCEPT ![i] = v] ELSE l.chip.user
           /\ v = IF l.chip.op = "read" /\ m.chip.col \in Place THEN l.chip.reg[m.chip.col] ELSE Junk
           /\ Leads(r, ReadByte(b, i), l, m)
  <1>0. l.high = {"NWE", "NRE"} /\ l.outputs = Lines /\ l.known
    BY DEF Reading
  <1>1. PICK o1, o2, o3, o4, o5 : /\ o1 = In("bus") /\ o2 = Clear("NRE") /\ o3 = Get(b, i) /\ o4 = Set("NRE")
                                  /\ o5 = Out("bus")
    OBVIOUS
  <1>2. "bus" \in Lines /\ "NRE" \in Pins /\ "NRE" \in Lines /\ "NCE" \in Lines /\ "NWE" \in Lines
    BY DEF Lines, Pins
  <1>3. {o1, o2, o3, o4, o5} \subseteq Operation
    BY <1>1, <1>2, OperationsTyped
  <1>4. /\ o1.do = "in" /\ o1.pin = "bus" /\ o2.do = "clear" /\ o2.pin = "NRE" /\ o3.do = "get"
           /\ o3.buf = b /\ o3.at = i
        /\ o4.do = "set" /\ o4.pin = "NRE" /\ o5.do = "out" /\ o5.pin = "bus"
    BY <1>1 DEF In, Out, Clear, Set, Get
  <1>5. PICK x1 : x1 = After(o1, l)
    OBVIOUS
  <1>6. Allowed(r, o1, l) /\ x1 \in Label
    <2>1. Allowed(r, o1, l)
      BY <1>0, <1>2, <1>4 DEF Allowed, SafePins, IsLow
    <2>2. QED BY <1>5, <2>1, AfterTyped
  <1>7. /\ x1.high = l.high /\ x1.outputs = Lines \ {"bus"} /\ x1.bus = l.bus /\ x1.known = l.known
        /\ x1.loose = l.loose /\ x1.chip = l.chip
    BY <1>0, <1>1, <1>5, InIs
  <1>8. PICK x2 : x2 = After(o2, x1)
    OBVIOUS
  <1>9. Allowed(r, o2, x1) /\ x2 \in Label
    <2>1. Allowed(r, o2, x1)
      BY <1>0, <1>2, <1>4, <1>7 DEF Allowed, SafePins, IsLow
    <2>2. QED BY <1>6, <1>8, <2>1, AfterTyped
  <1>10. /\ x2.high = {"NWE"} /\ x2.outputs = Lines \ {"bus"} /\ x2.bus = l.bus /\ x2.known = l.known
            /\ x2.loose = l.loose
         /\ x2.chip = IF l.chip.op = "read" /\ l.chip.col \in 0 .. PARTS + SPARE
                      THEN [l.chip EXCEPT !.col = l.chip.col + 1] ELSE l.chip
    <2>1. /\ x2.high = x1.high \ {"NRE"} /\ x2.outputs = x1.outputs /\ x2.bus = x1.bus /\ x2.known = x1.known
          /\ x2.loose = x1.loose
          /\ x2.chip = IF x1.chip.op = "read" /\ x1.chip.col \in 0 .. PARTS + SPARE
                       THEN [x1.chip EXCEPT !.col = x1.chip.col + 1] ELSE x1.chip
      <3>1. x1.loose \in BOOLEAN
        BY <1>6 DEF Label
      <3>2. QED BY <1>1, <1>2, <1>6, <1>8, <3>1, ClearIs
    <2>2. {"NWE", "NRE"} \ {"NRE"} = {"NWE"}
      OBVIOUS
    <2>3. QED BY <1>0, <1>7, <2>1, <2>2
  <1>11. PICK c, v : c = x2.chip /\ v = Given(c)
    OBVIOUS
  <1>12. l.chip \in Ideal /\ c \in Ideal
    BY <1>9, <1>11 DEF Label
  <1>13. /\ SameDevice(l.chip, c) /\ c.reg = l.chip.reg /\ c.page = l.chip.page /\ c.user = l.chip.user
         /\ c.col = IF l.chip.op = "read" /\ l.chip.col \in 0 .. PARTS + SPARE THEN l.chip.col + 1 ELSE l.chip.col
    BY <1>10, <1>11, <1>12 DEF Ideal, SameDevice
  <1>14. PICK x3 : x3 = After(o3, x2)
    OBVIOUS
  <1>15. Allowed(r, o3, x2) /\ x3 \in Label
    <2>1. ~ c.wait
      BY <1>13 DEF SameDevice
    <2>2. Allowed(r, o3, x2)
      BY <1>2, <1>4, <1>10, <1>11, <2>1 DEF Allowed, SafePins, IsLow
    <2>3. QED BY <1>9, <1>14, <2>2, AfterTyped
  <1>16. /\ x3.high = {"NWE"} /\ x3.outputs = Lines \ {"bus"} /\ x3.bus = l.bus /\ x3.known = l.known
            /\ x3.loose = l.loose
         /\ x3.chip = [c EXCEPT !.page = IF b = "page" THEN [c.page EXCEPT ![i] = v] ELSE c.page,
                                !.user = IF b = "user" THEN [c.user EXCEPT ![i] = v] ELSE c.user]
    <2>1. x3 = [x2 EXCEPT !.chip = [x2.chip EXCEPT
                 !.page = IF b = "page" THEN [x2.chip.page EXCEPT ![i] = Given(x2.chip)] ELSE x2.chip.page,
                 !.user = IF b = "user" THEN [x2.chip.user EXCEPT ![i] = Given(x2.chip)] ELSE x2.chip.user]]
      BY <1>4, <1>14 DEF After
    <2>2. QED BY <1>9, <1>10, <1>11, <2>1 DEF Label
  <1>17. PICK x4 : x4 = After(o4, x3)
    OBVIOUS
  <1>18. Allowed(r, o4, x3) /\ x4 \in Label /\ ~ Latching(o4, x3)
    <2>1. ~ Latching(o4, x3)
      BY <1>4 DEF Latching
    <2>2. Allowed(r, o4, x3)
      BY <1>2, <1>4, <1>16, <2>1 DEF Allowed, SafePins, IsLow
    <2>3. QED BY <1>15, <1>17, <2>1, <2>2, AfterTyped
  <1>19. /\ x4.high = {"NWE", "NRE"} /\ x4.outputs = Lines \ {"bus"} /\ x4.bus = l.bus /\ x4.known = l.known
         /\ x4.loose = l.loose /\ x4.chip = x3.chip
    BY <1>1, <1>2, <1>15, <1>16, <1>17, <1>18, SetIs
  <1>20. PICK x5 : x5 = After(o5, x4)
    OBVIOUS
  <1>21. Allowed(r, o5, x4) /\ x5 \in Label
    <2>1. Allowed(r, o5, x4)
      BY <1>2, <1>4, <1>19 DEF Allowed, SafePins, IsLow
    <2>2. QED BY <1>18, <1>20, <2>1, AfterTyped
  <1>22. /\ x5.high = {"NWE", "NRE"} /\ x5.outputs = Lines /\ x5.bus = l.bus /\ x5.known = l.known
         /\ x5.loose = l.loose /\ x5.chip = x3.chip
    <2>1. (Lines \ {"bus"}) \cup {"bus"} = Lines
      BY <1>2
    <2>2. /\ x5.high = x4.high /\ x5.outputs = x4.outputs \cup {"bus"} /\ x5.bus = x4.bus /\ x5.known = x4.known
          /\ x5.loose = x4.loose /\ x5.chip = x4.chip
      BY <1>1, <1>2, <1>18, <1>20, OutIs
    <2>3. QED BY <1>19, <2>1, <2>2
  <1>23. Reading(x5)
    BY <1>0, <1>22 DEF Reading
  <1>24. PICK d : d = x5.chip
    OBVIOUS
  <1>25. /\ SameDevice(l.chip, d) /\ d.reg = l.chip.reg /\ d.col = c.col
         /\ d.page = IF b = "page" THEN [l.chip.page EXCEPT ![i] = v] ELSE l.chip.page
         /\ d.user = IF b = "user" THEN [l.chip.user EXCEPT ![i] = v] ELSE l.chip.user
    <2>1. d = [c EXCEPT !.page = IF b = "page" THEN [c.page EXCEPT ![i] = v] ELSE c.page,
                        !.user = IF b = "user" THEN [c.user EXCEPT ![i] = v] ELSE c.user]
      BY <1>16, <1>22, <1>24
    <2>2. QED BY <1>12, <1>13, <2>1 DEF Ideal, SameDevice
  <1>26. v = IF l.chip.op = "read" /\ d.col \in Place THEN l.chip.reg[d.col] ELSE Junk
    BY <1>11, <1>13, <1>25 DEF Given, SameDevice
  <1>27. Leads(r, ReadByte(b, i), l, x5)
    <2>1. Leads(r, <<o1, o2, o3, o4, o5>>, l, x5)
      BY <1>3, <1>4, <1>5, <1>6, <1>8, <1>9, <1>14, <1>15, <1>17, <1>18, <1>20, <1>21, Five
    <2>2. QED BY <1>1, <2>1 DEF ReadByte
  <1>28. QED BY <1>13, <1>21, <1>22, <1>23, <1>24, <1>25, <1>26, <1>27

(* A part of a page or buffer that is copied. *)
Filled(old, new, from, start, n) ==
  [k \in Place |-> IF k \in from + 1 .. from + n THEN new[start + (k - from)] ELSE old[k]]

(* One more byte of it. *)
Fills(old, new, from, start, j, p, v) ==
  /\ old \in PageImage /\ from \in Nat /\ start \in Nat /\ j \in Nat
  /\ p \in Place /\ p = from + (j + 1) /\ v = new[start + (j + 1)]

(* A buffer filled with one byte more. *)
LEMMA FilledNext ==
  ASSUME NEW old, NEW new, NEW from, NEW start, NEW j, NEW p, NEW v, Fills(old, new, from, start, j, p, v)
  PROVE  [Filled(old, new, from, start, j) EXCEPT ![p] = v] = Filled(old, new, from, start, j + 1)
  <1>10. /\ old \in PageImage /\ from \in Nat /\ start \in Nat /\ j \in Nat
         /\ p \in Place /\ p = from + (j + 1) /\ v = new[start + (j + 1)]
    BY DEF Fills
  <1>0. Place \subseteq Nat
    BY Constants
  <1>1. PICK g, h, e : /\ g = Filled(old, new, from, start, j) /\ h = Filled(old, new, from, start, j + 1)
                       /\ e = [g EXCEPT ![p] = v]
    OBVIOUS
  <1>2. /\ g = [k \in Place |-> g[k]]
        /\ \A k \in Place : g[k] = IF k \in from + 1 .. from + j THEN new[start + (k - from)] ELSE old[k]
    BY <1>1 DEF Filled
  <1>4. /\ h = [k \in Place |-> h[k]]
        /\ \A k \in Place : h[k] = IF k \in from + 1 .. from + (j + 1) THEN new[start + (k - from)] ELSE old[k]
    BY <1>1 DEF Filled
  <1>6. e = [k \in Place |-> e[k]] /\ \A k \in Place : e[k] = IF k = p THEN v ELSE g[k]
    BY <1>1, <1>2
  <1>7. ASSUME NEW k \in Place PROVE e[k] = h[k]
    <2>1. k \in Nat
      BY <1>0
    <2>2. CASE k = p
      <3>1. k \in from + 1 .. from + (j + 1) /\ k - from = j + 1
        BY <1>10, <2>1, <2>2
      <3>2. QED BY <1>4, <1>6, <1>10, <2>2, <3>1
    <2>3. CASE k # p
      <3>1. k \in from + 1 .. from + (j + 1) <=> k \in from + 1 .. from + j
        BY <1>10, <2>1, <2>3
      <3>2. QED BY <1>2, <1>4, <1>6, <2>3, <3>1
    <2>4. QED BY <2>2, <2>3
  <1>8. e = h
    BY <1>4, <1>6, <1>7
  <1>9. QED BY <1>1, <1>8

(* A buffer filled with no byte is unchanged. *)
LEMMA FilledFirst ==
  ASSUME NEW old \in PageImage, NEW new, NEW from \in Nat, NEW start
  PROVE  Filled(old, new, from, start, 0) = old
  <1>1. \A k \in Place : k \notin from + 1 .. from + 0
    BY Constants
  <1>2. old = [k \in Place |-> old[k]]
    BY DEF PageImage
  <1>3. Filled(old, new, from, start, 0) = [k \in Place |-> old[k]]
    BY <1>1 DEF Filled
  <1>4. QED BY <1>2, <1>3

(* Some bytes of a page have been read. *)
Got(l, b, from, i, m) ==
  /\ Reading(m) /\ m.bus = l.bus /\ m.loose = l.loose /\ SameDevice(l.chip, m.chip) /\ m.chip.reg = l.chip.reg
  /\ m.chip.col = l.chip.col + i
  /\ m.chip.page = IF b = "page" THEN Filled(l.chip.page, l.chip.reg, from, l.chip.col, i) ELSE l.chip.page
  /\ m.chip.user = IF b = "user" THEN Filled(l.chip.user, l.chip.reg, from, l.chip.col, i) ELSE l.chip.user

(* A loop over read strobes fills the buffer with consecutive bytes of the register. *)
LEMMA ReadBytesLeads ==
  ASSUME NEW r, NEW l \in Label, Reading(l), ~ l.chip.wait, l.chip.op = "read", NEW b \in {"page", "user"},
         NEW from \in Nat, NEW n \in Nat, from + n <= PARTS + SPARE, l.chip.col \in Nat,
         l.chip.col + n <= PARTS + SPARE
  PROVE  /\ ReadBytes(b, from, n) \in Seq(Operation)
         /\ \E m \in Label : Got(l, b, from, n, m) /\ Leads(r, ReadBytes(b, from, n), l, m)
  <1>0. PARTS + SPARE \in Nat /\ Place = 1 .. PARTS + SPARE
    BY Constants DEF Place
  <1>1. PICK start \in Nat : start = l.chip.col
    OBVIOUS
  <1>2. PICK old \in PageImage, other \in PageImage, reg0 \in PageImage : old = l.chip.page
             /\ other = l.chip.user /\ reg0 = l.chip.reg
    BY DEF Label, Ideal
  <1> DEFINE f == [i \in 1 .. n |-> ReadByte(b, from + i)]
             H == [i \in 0 .. n |-> {x \in Label : Got(l, b, from, i, x)}]
  <1>3. H \in [0 .. n -> SUBSET Label]
    OBVIOUS
  <1>4. ASSUME NEW i \in 1 .. n, NEW x \in H[i - 1]
        PROVE  \E y \in H[i] : Leads(r, f[i], x, y)
    <2>1. i \in Nat /\ i >= 1 /\ i - 1 \in 0 .. n /\ i \in 0 .. n
      OBVIOUS
    <2>2. x \in Label /\ Got(l, b, from, i - 1, x)
      BY <2>1
    <2> HIDE DEF f, H
    <2>3. from + i \in Place /\ start + (i - 1) \in 0 .. PARTS + SPARE /\ start + i \in Place
          /\ (start + (i - 1)) + 1 = start + i
      <3>1. PICK N \in Nat : N = PARTS + SPARE
        BY <1>0
      <3>2. from + n <= N /\ start + n <= N /\ i <= n
        BY <1>1, <3>1
      <3>3. from + i \in 1 .. N /\ start + (i - 1) \in 0 .. N /\ start + i \in 1 .. N
            /\ (start + (i - 1)) + 1 = start + i
        BY <2>1, <3>2
      <3>4. QED BY <1>0, <3>1, <3>3
    <2>4. Reading(x) /\ ~ x.chip.wait /\ x.chip.op = "read" /\ x.chip.col = start + (i - 1)
      BY <1>1, <2>2 DEF Got, SameDevice
    <2>5. PICK p \in Place : p = from + i
      BY <2>3
    <2>15. PICK y \in Label : \E v :
            /\ Reading(y) /\ y.bus = x.bus /\ y.loose = x.loose /\ SameDevice(x.chip, y.chip)
               /\ y.chip.reg = x.chip.reg
            /\ y.chip.col = IF x.chip.op = "read" /\ x.chip.col \in 0 .. PARTS + SPARE THEN x.chip.col + 1 ELSE x.chip.col
            /\ y.chip.page = IF b = "page" THEN [x.chip.page EXCEPT ![p] = v] ELSE x.chip.page
            /\ y.chip.user = IF b = "user" THEN [x.chip.user EXCEPT ![p] = v] ELSE x.chip.user
            /\ v = IF x.chip.op = "read" /\ y.chip.col \in Place THEN x.chip.reg[y.chip.col] ELSE Junk
            /\ Leads(r, ReadByte(b, p), x, y)
      <3>1. x \in Label /\ Reading(x) /\ ~ x.chip.wait /\ b \in {"page", "user", "id"} /\ p \in Place
        BY <2>2, <2>4
      <3>2. QED BY <3>1, ReadByteLeads
    <2>6. PICK v :
            /\ Reading(y) /\ y.bus = x.bus /\ y.loose = x.loose /\ SameDevice(x.chip, y.chip)
               /\ y.chip.reg = x.chip.reg
            /\ y.chip.col = IF x.chip.op = "read" /\ x.chip.col \in 0 .. PARTS + SPARE THEN x.chip.col + 1 ELSE x.chip.col
            /\ y.chip.page = IF b = "page" THEN [x.chip.page EXCEPT ![p] = v] ELSE x.chip.page
            /\ y.chip.user = IF b = "user" THEN [x.chip.user EXCEPT ![p] = v] ELSE x.chip.user
            /\ v = IF x.chip.op = "read" /\ y.chip.col \in Place THEN x.chip.reg[y.chip.col] ELSE Junk
            /\ Leads(r, ReadByte(b, p), x, y)
      BY <2>15
    <2>7. y.chip.col = start + i
      BY <2>3, <2>4, <2>6
    <2>8. v = reg0[start + i]
      BY <1>2, <2>2, <2>3, <2>4, <2>6, <2>7 DEF Got
    <2>9. y.chip.page = IF b = "page" THEN Filled(old, reg0, from, start, i) ELSE old
      <3>1. x.chip.page = IF b = "page" THEN Filled(old, reg0, from, start, i - 1) ELSE old
        BY <1>1, <1>2, <2>2 DEF Got
      <3>2. PICK j \in Nat : j = i - 1 /\ j + 1 = i
        BY <2>1
      <3>3. p \in Place /\ p = from + (j + 1) /\ v = reg0[start + (j + 1)]
        BY <2>5, <2>8, <3>2
      <3>6. Fills(old, reg0, from, start, j, p, v)
        BY <3>3 DEF Fills
      <3>4. [Filled(old, reg0, from, start, j) EXCEPT ![p] = v] = Filled(old, reg0, from, start, j + 1)
        BY <3>6, FilledNext
      <3>5. QED BY <2>6, <3>1, <3>2, <3>4
    <2>10. y.chip.user = IF b = "user" THEN Filled(other, reg0, from, start, i) ELSE other
      <3>1. x.chip.user = IF b = "user" THEN Filled(other, reg0, from, start, i - 1) ELSE other
        BY <1>1, <1>2, <2>2 DEF Got
      <3>2. PICK j \in Nat : j = i - 1 /\ j + 1 = i
        BY <2>1
      <3>3. p \in Place /\ p = from + (j + 1) /\ v = reg0[start + (j + 1)]
        BY <2>5, <2>8, <3>2
      <3>6. Fills(other, reg0, from, start, j, p, v)
        BY <3>3 DEF Fills
      <3>4. [Filled(other, reg0, from, start, j) EXCEPT ![p] = v] = Filled(other, reg0, from, start, j + 1)
        BY <3>6, FilledNext
      <3>5. QED BY <2>6, <3>1, <3>2, <3>4
    <2>11. SameDevice(l.chip, y.chip) /\ y.chip.reg = l.chip.reg /\ y.bus = l.bus /\ y.loose = l.loose
      BY <2>2, <2>6 DEF Got, SameDevice
    <2>12. Got(l, b, from, i, y)
      BY <1>1, <1>2, <2>6, <2>7, <2>9, <2>10, <2>11 DEF Got
    <2>13. y \in H[i] /\ f[i] = ReadByte(b, p)
      BY <2>1, <2>5, <2>12 DEF f, H
    <2>14. QED BY <2>6, <2>13
  <1>5. l \in H[0]
    <2>1. 1 \in Nat /\ 1 >= 1
      OBVIOUS
    <2>2. Filled(old, reg0, from, start, 0) = old /\ Filled(other, reg0, from, start, 0) = other
      BY FilledFirst
    <2>3. l.chip.col = l.chip.col + 0
      BY <1>1
    <2>4. Got(l, b, from, 0, l)
      BY <1>1, <1>2, <2>2, <2>3 DEF Got, SameDevice
    <2>5. QED BY <2>4
  <1>6. f \in [1 .. n -> Seq(Operation)]
    <2>1. ASSUME NEW i \in 1 .. n PROVE ReadByte(b, from + i) \in Seq(Operation)
      <3>1. from + i \in Place /\ "bus" \in Lines /\ "NRE" \in Lines
        BY <1>0 DEF Lines, Pins
      <3>2. {In("bus"), Clear("NRE"), Get(b, from + i), Set("NRE"), Out("bus")} \subseteq Operation
        BY <3>1, OperationsTyped
      <3>3. QED BY <3>2 DEF ReadByte
    <2>2. QED BY <2>1
  <1>7. ReadBytes(b, from, n) = FlattenSeq(f)
    BY DEF ReadBytes
  <1> HIDE DEF f, H
  <1>8. PICK m \in H[n] : Leads(r, FlattenSeq(f), l, m)
    BY <1>3, <1>4, <1>5, <1>6, ChainAll
  <1>9. m \in Label /\ Got(l, b, from, n, m)
    BY <1>8 DEF H
  <1>10. FlattenSeq(f) \in Seq(Operation)
    BY <1>8 DEF Leads, Outline
  <1>11. QED BY <1>7, <1>8, <1>9, <1>10

(* Some bytes of a page have been written to its register. *)
Written(l, buf, i, m) ==
  /\ Selecting(m)
  /\ m.chip.area = l.chip.area /\ m.chip.op = l.chip.op /\ m.chip.cycles = l.chip.cycles
     /\ m.chip.cells = l.chip.cells
  /\ m.chip.wait = l.chip.wait /\ m.chip.list = l.chip.list /\ m.chip.ok = l.chip.ok
  /\ m.chip.page = l.chip.page /\ m.chip.user = l.chip.user
  /\ m.chip.col = l.chip.col + i /\ m.chip.reg = Filled(l.chip.reg, buf, l.chip.col, 0, i)

(* A loop over write strobes loads the register with consecutive bytes of the buffer. *)
LEMMA WriteBytesLeads ==
  ASSUME NEW r, NEW l \in Label, Selecting(l), ~ l.chip.wait, l.chip.op = "program", Len(l.chip.cycles) = 4,
         NEW b \in {"page", "user"}, NEW n \in Nat, l.chip.col \in Nat, l.chip.col + n <= PARTS + SPARE
  PROVE  \E m \in Label : /\ Written(l, IF b = "page" THEN l.chip.page ELSE l.chip.user, n, m)
                          /\ Leads(r, WriteBytes(b, 0, n), l, m)
  <1>0. PARTS + SPARE \in Nat /\ Place = 1 .. PARTS + SPARE
    BY Constants DEF Place
  <1>1. PICK start \in Nat : start = l.chip.col
    OBVIOUS
  <1>2. PICK buf \in PageImage, reg0 \in PageImage : buf = (IF b = "page" THEN l.chip.page ELSE l.chip.user)
             /\ reg0 = l.chip.reg
    BY DEF Label, Ideal
  <1>3. PICK x0, y0 : x0 = After(Clear("ALE"), l) /\ y0 = After(Clear("CLE"), x0)
    OBVIOUS
  <1>4. "ALE" \in Pins /\ "CLE" \in Pins /\ "NRE" \in Lines /\ "ALE" \in Lines /\ "CLE" \in Lines
    BY DEF Pins, Lines
  <1>5. l.high = {"NWE", "NRE"} /\ l.outputs = Lines /\ ~ l.loose
    BY DEF Selecting
  <1>6. Clear("ALE").do = "clear" /\ Clear("ALE").pin = "ALE" /\ Clear("CLE").do = "clear" /\ Clear("CLE").pin = "CLE"
    BY DEF Clear
  <1>7. Allowed(r, Clear("ALE"), l) /\ x0 \in Label
    <2>1. Allowed(r, Clear("ALE"), l)
      BY <1>4, <1>5, <1>6 DEF Allowed, SafePins, IsLow
    <2>2. QED BY <1>3, <2>1, AfterTyped
  <1>8. x0.high = {"NWE", "NRE"} /\ x0.outputs = Lines /\ ~ x0.loose /\ x0.chip = l.chip
    <2>1. x0.high = l.high \ {"ALE"} /\ x0.outputs = l.outputs /\ ~ x0.loose /\ x0.chip = l.chip
      BY <1>3, <1>4, <1>5, ClearIs
    <2>2. {"NWE", "NRE"} \ {"ALE"} = {"NWE", "NRE"}
      OBVIOUS
    <2>3. QED BY <1>5, <2>1, <2>2
  <1>9. Allowed(r, Clear("CLE"), x0) /\ y0 \in Label
    <2>1. Allowed(r, Clear("CLE"), x0)
      BY <1>4, <1>6, <1>8 DEF Allowed, SafePins, IsLow
    <2>2. QED BY <1>3, <1>7, <2>1, AfterTyped
  <1>10. y0.high = {"NWE", "NRE"} /\ y0.outputs = Lines /\ ~ y0.loose /\ y0.chip = l.chip
    <2>1. y0.high = x0.high \ {"CLE"} /\ y0.outputs = x0.outputs /\ ~ y0.loose /\ y0.chip = x0.chip
      BY <1>3, <1>7, <1>8, OtherClearIs
    <2>2. {"NWE", "NRE"} \ {"CLE"} = {"NWE", "NRE"}
      OBVIOUS
    <2>3. QED BY <1>8, <2>1, <2>2
  <1>11. Leads(r, <<Clear("ALE"), Clear("CLE")>>, l, y0)
    <2>1. PICK o \in Operation, p \in Operation : o = Clear("ALE") /\ p = Clear("CLE") /\ o.do # "wait"
               /\ p.do # "wait"
      BY <1>4, <1>6, OperationsTyped
    <2>2. Allowed(r, o, l) /\ x0 = After(o, l) /\ Allowed(r, p, x0) /\ y0 = After(p, x0)
      BY <1>3, <1>7, <1>9, <2>1
    <2>3. Leads(r, <<o, p>>, l, y0)
      BY <1>7, <1>9, <2>1, <2>2, Two
    <2>4. QED BY <2>1, <2>3
  <1> DEFINE f == [i \in 1 .. n |-> WriteByte(PutFrom(b, 0 + i))]
             H == [i \in 0 .. n |-> {x \in Label : Written(l, buf, i, x)}]
  <1>12. H \in [0 .. n -> SUBSET Label]
    OBVIOUS
  <1>13. ASSUME NEW i \in 1 .. n, NEW x \in H[i - 1]
         PROVE  \E y \in H[i] : Leads(r, f[i], x, y)
    <2>1. i \in Nat /\ i >= 1 /\ i - 1 \in 0 .. n /\ i \in 0 .. n /\ 0 + i = i
      OBVIOUS
    <2>2. x \in Label /\ Written(l, buf, i - 1, x)
      BY <2>1
    <2> HIDE DEF f, H
    <2>3. i \in Place /\ start + i \in Place /\ (start + (i - 1)) + 1 = start + i
      BY <1>0, <1>1, <2>1
    <2>4. PICK put \in Operation : put = PutFrom(b, i)
      BY <2>3, OperationsTyped
    <2>5. put.do = "putfrom" /\ put.buf = b /\ put.at = i
      BY <2>4 DEF PutFrom
    <2>6. /\ Selecting(x) /\ x.high = {"NWE", "NRE"} /\ x.outputs = Lines /\ ~ x.loose /\ ~ x.chip.wait
          /\ x.chip.op = "program" /\ Len(x.chip.cycles) = 4 /\ x.chip.col = start + (i - 1)
          /\ (IF b = "page" THEN x.chip.page ELSE x.chip.user) = buf
          /\ x.chip.reg = Filled(reg0, buf, start, 0, i - 1)
      BY <1>1, <1>2, <2>2 DEF Written, Selecting
    <2>7. PICK c : c = AfterData(x.chip, buf[i])
      OBVIOUS
    <2>8. Takes(r, x, put, c)
      BY <2>3, <2>5, <2>6, <2>7 DEF Takes, MayData
    <2>9. PICK y \in Label : /\ y.high = x.high /\ y.outputs = Lines /\ ~ y.loose
                                /\ y.known = (put.do = "put") /\ y.chip = c
                             /\ Leads(r, WriteByte(put), x, y)
      <3>1. "NRE" \in x.high /\ "NWE" \in x.high /\ "NCE" \notin x.high
        BY <2>6
      <3>2. QED BY <2>2, <2>6, <2>8, <3>1, ByteLeads
    <2>10. Selecting(y)
      BY <2>6, <2>9 DEF Selecting
    <2>11. c = [x.chip EXCEPT !.reg = [x.chip.reg EXCEPT ![start + i] = buf[i]], !.col = start + i]
      BY <2>3, <2>6, <2>7 DEF AfterData
    <2>12. [x.chip.reg EXCEPT ![start + i] = buf[i]] = Filled(reg0, buf, start, 0, i)
      <3>1. PICK j \in Nat : j = i - 1 /\ j + 1 = i
        BY <2>1
      <3>2. PICK p, v : p = start + i /\ v = buf[i]
        OBVIOUS
      <3>3. p \in Place /\ p = start + (j + 1) /\ v = buf[0 + (j + 1)]
        BY <2>1, <2>3, <3>1, <3>2
      <3>6. Fills(reg0, buf, start, 0, j, p, v)
        BY <3>3 DEF Fills
      <3>4. [Filled(reg0, buf, start, 0, j) EXCEPT ![p] = v] = Filled(reg0, buf, start, 0, j + 1)
        BY <3>6, FilledNext
      <3>5. QED BY <2>6, <3>1, <3>2, <3>4
    <2>13. x.chip \in Ideal
      BY <2>2 DEF Label
    <2>14. PICK g : g = Filled(reg0, buf, start, 0, i)
      OBVIOUS
    <2>15. c = [x.chip EXCEPT !.reg = g, !.col = start + i]
      BY <2>11, <2>12, <2>14
    <2>16. c.reg = g /\ c.col = start + i /\ c.area = x.chip.area /\ c.op = x.chip.op /\ c.cycles = x.chip.cycles
           /\ c.cells = x.chip.cells /\ c.wait = x.chip.wait /\ c.list = x.chip.list /\ c.ok = x.chip.ok
           /\ c.page = x.chip.page /\ c.user = x.chip.user
      BY <2>13, <2>15 DEF Ideal
    <2>17. Written(l, buf, i, y)
      BY <1>1, <1>2, <2>2, <2>9, <2>10, <2>14, <2>16 DEF Written
    <2>18. y \in H[i] /\ f[i] = WriteByte(put)
      BY <2>1, <2>4, <2>17 DEF f, H
    <2>19. QED BY <2>9, <2>18
  <1>14. y0 \in H[0]
    <2>1. Filled(reg0, buf, start, 0, 0) = reg0
      BY FilledFirst
    <2>2. l.chip.col = l.chip.col + 0
      BY <1>1
    <2>3. Written(l, buf, 0, y0)
      BY <1>1, <1>2, <1>10, <2>1, <2>2 DEF Written, Selecting
    <2>4. QED BY <1>9, <2>3
  <1>15. f \in [1 .. n -> Seq(Operation)]
    <2>1. ASSUME NEW i \in 1 .. n PROVE WriteByte(PutFrom(b, 0 + i)) \in Seq(Operation)
      <3>1. 0 + i \in Place /\ "NWE" \in Lines
        BY <1>0 DEF Lines, Pins
      <3>2. {Clear("NWE"), PutFrom(b, 0 + i), Set("NWE")} \subseteq Operation
        BY <3>1, OperationsTyped
      <3>3. QED BY <3>2 DEF WriteByte
    <2>2. QED BY <2>1
  <1>16. WriteBytes(b, 0, n) = <<Clear("ALE"), Clear("CLE")>> \o FlattenSeq(f)
    BY DEF WriteBytes
  <1> HIDE DEF f, H
  <1>17. PICK m \in H[n] : Leads(r, FlattenSeq(f), y0, m)
    BY <1>12, <1>13, <1>14, <1>15, ChainAll
  <1>18. m \in Label /\ Written(l, buf, n, m)
    BY <1>17 DEF H
  <1>19. Leads(r, WriteBytes(b, 0, n), l, m)
    BY <1>11, <1>16, <1>17, Chain
  <1>20. QED BY <1>2, <1>18, <1>19

(* Chip enable is lowered. *)
Begin(l) == l.outputs = Lines /\ l.high \cup {"NCE"} = Rest

(* Chip enable selects the chip. *)
LEMMA SelectLeads ==
  ASSUME NEW r, NEW l \in Label, Begin(l)
  PROVE  /\ \E m \in Label : Selecting(m) /\ m.chip = l.chip /\ m.known = l.known /\ Leads(r, <<Clear("NCE")>>, l, m)
         /\ \E m \in Label : Selecting(m) /\ m.chip = l.chip /\ m.known = l.known
                             /\ Leads(r, <<Out("bus"), Clear("NCE")>>, l, m)
  <1>1. l.outputs = Lines /\ l.high \cup {"NCE"} = {"NCE", "NWE", "NRE"}
    BY DEF Begin, Rest
  <1>2. "NRE" \in Lines /\ "bus" \in Lines /\ "NCE" \in Lines /\ "NCE" \in Pins /\ Lines \cup {"bus"} = Lines
    BY DEF Pins, Lines
  <1>3. PICK o \in Operation, p \in Operation : o = Out("bus") /\ p = Clear("NCE")
    BY <1>2, OperationsTyped
  <1>4. o.do = "out" /\ o.pin = "bus" /\ p.do = "clear" /\ p.pin = "NCE"
    BY <1>3 DEF Out, Clear
  <1>5. ASSUME NEW x \in Label, x.outputs = Lines, x.high \cup {"NCE"} = {"NCE", "NWE", "NRE"},
               x.chip = l.chip, x.known = l.known
        PROVE  /\ Allowed(r, p, x) /\ After(p, x) \in Label /\ Selecting(After(p, x))
               /\ After(p, x).chip = l.chip /\ After(p, x).known = l.known
    <2>1. Allowed(r, p, x)
      BY <1>2, <1>4, <1>5 DEF Allowed, SafePins, IsLow
    <2>2. After(p, x) \in Label
      BY <2>1, AfterTyped
    <2>3. PICK m : m = After(Clear("NCE"), x)
      OBVIOUS
    <2>4. m.high = x.high \ {"NCE"} /\ m.outputs = Lines /\ m.known = l.known /\ ~ m.loose /\ m.chip = l.chip
      BY <1>5, <2>3, OtherClearIs
    <2>5. x.high \ {"NCE"} = {"NWE", "NRE"}
      BY <1>5
    <2>6. Selecting(m)
      BY <2>4, <2>5 DEF Selecting
    <2>7. QED BY <1>3, <2>1, <2>2, <2>3, <2>4, <2>6
  <1>6. Leads(r, <<p>>, l, After(p, l)) /\ After(p, l) \in Label /\ Selecting(After(p, l))
        /\ After(p, l).chip = l.chip /\ After(p, l).known = l.known
    <2>1. /\ Allowed(r, p, l) /\ After(p, l) \in Label /\ Selecting(After(p, l))
          /\ After(p, l).chip = l.chip /\ After(p, l).known = l.known
      BY <1>1, <1>5
    <2>2. QED BY <1>4, <2>1, Single
  <1>7. PICK y : y = After(o, l)
    OBVIOUS
  <1>8. Allowed(r, o, l) /\ y \in Label
    <2>1. Allowed(r, o, l)
      BY <1>1, <1>2, <1>4 DEF Allowed, SafePins, IsLow, Begin, Rest
    <2>2. QED BY <1>7, <2>1, AfterTyped
  <1>9. y.outputs = Lines /\ y.high = l.high /\ y.chip = l.chip /\ y.known = l.known
    <2>1. y.outputs = l.outputs \cup {"bus"} /\ y.high = l.high /\ y.chip = l.chip /\ y.known = l.known
      BY <1>2, <1>3, <1>7, OutIs
    <2>2. QED BY <1>1, <1>2, <2>1
  <1>10. /\ Allowed(r, p, y) /\ After(p, y) \in Label /\ Selecting(After(p, y))
         /\ After(p, y).chip = l.chip /\ After(p, y).known = l.known
    BY <1>1, <1>5, <1>8, <1>9
  <1>11. Leads(r, <<o, p>>, l, After(p, y))
    <2>1. PICK z \in Label : z = After(p, y)
      BY <1>10
    <2>2. y \in Label /\ Allowed(r, o, l) /\ y = After(o, l) /\ Allowed(r, p, y) /\ o.do # "wait" /\ p.do # "wait"
      BY <1>4, <1>7, <1>8, <1>10
    <2>3. Leads(r, <<o, p>>, l, z)
      BY <2>1, <2>2, Two
    <2>4. QED BY <2>1, <2>3
  <1>12. QED BY <1>3, <1>6, <1>10, <1>11

Buffers(c, d) == d.page = c.page /\ d.user = c.user /\ d.list = c.list /\ d.ok = c.ok

(* Commands, and the column address. *)
ReadCommanded(c, k, d) ==
  /\ Buffers(c, d) /\ d.cells = c.cells /\ ~ d.wait
  /\ d.op = "read" /\ d.cycles = <<>> /\ Origin(d) = IF k = "00" THEN 0 ELSE PARTS

OtherCommanded(c, k, d) ==
  /\ Buffers(c, d) /\ d.cells = c.cells /\ ~ d.wait
  /\ d.op = (IF k = "80" THEN "program" ELSE IF k = "60" THEN "erase" ELSE "id")
  /\ d.cycles = <<>> /\ d.reg = [i \in Place |-> Erased] /\ d.col = Origin(c)

(* The read commands, which choose the area. *)
LEMMA ReadCommand ==
  ASSUME NEW r, NEW l \in Label, Selecting(l), ~ l.chip.wait, NEW k \in {"00", "50"}
  PROVE  \E m \in Label : Selecting(m) /\ m.known /\ Leads(r, Cmd(k), l, m) /\ ReadCommanded(l.chip, k, m.chip)
  <1>1. MayCommand(r, l.chip, k)
    BY DEF MayCommand, Command
  <1>2. PICK m \in Label : Selecting(m) /\ m.known /\ m.chip = AfterCommand(l.chip, k) /\ Leads(r, Cmd(k), l, m)
    BY <1>1, CmdLeads
  <1>3. m.chip = [l.chip EXCEPT !.area = IF k = "00" THEN "main" ELSE "spare", !.op = "read", !.cycles = <<>>]
    BY <1>2 DEF AfterCommand
  <1>4. l.chip \in Ideal
    BY DEF Label
  <1>5. PICK d : d = m.chip
    OBVIOUS
  <1>6. /\ d.area = (IF k = "00" THEN "main" ELSE "spare") /\ d.op = "read" /\ d.cycles = <<>> /\ d.wait = l.chip.wait
        /\ d.page = l.chip.page /\ d.user = l.chip.user /\ d.list = l.chip.list /\ d.ok = l.chip.ok
        /\ d.cells = l.chip.cells
    BY <1>3, <1>4, <1>5 DEF Ideal
  <1>7. Origin(d) = IF k = "00" THEN 0 ELSE PARTS
    BY <1>6 DEF Origin
  <1>8. QED BY <1>2, <1>5, <1>6, <1>7 DEF Buffers, ReadCommanded

(* The commands that begin an erase, a program or an identification. *)
LEMMA OtherCommand ==
  ASSUME NEW r, NEW l \in Label, Selecting(l), ~ l.chip.wait, NEW k \in {"60", "80", "90"}
  PROVE  \E m \in Label : Selecting(m) /\ m.known /\ Leads(r, Cmd(k), l, m) /\ OtherCommanded(l.chip, k, m.chip)
  <1>1. MayCommand(r, l.chip, k)
    BY DEF MayCommand, Command
  <1>2. PICK m \in Label : Selecting(m) /\ m.known /\ m.chip = AfterCommand(l.chip, k) /\ Leads(r, Cmd(k), l, m)
    BY <1>1, CmdLeads
  <1>0. PICK blank : blank = [i \in Place |-> Erased]
    OBVIOUS
  <1>3. m.chip = [l.chip EXCEPT !.op = IF k = "80" THEN "program" ELSE IF k = "60" THEN "erase" ELSE "id",
                               !.cycles = <<>>, !.reg = blank, !.col = Origin(l.chip)]
    BY <1>0, <1>2 DEF AfterCommand
  <1>4. l.chip \in Ideal
    BY DEF Label
  <1>5. PICK d : d = m.chip
    OBVIOUS
  <1>6. /\ d.op = (IF k = "80" THEN "program" ELSE IF k = "60" THEN "erase" ELSE "id") /\ d.cycles = <<>>
        /\ d.wait = l.chip.wait /\ d.reg = blank /\ d.col = Origin(l.chip)
        /\ d.page = l.chip.page /\ d.user = l.chip.user /\ d.list = l.chip.list /\ d.ok = l.chip.ok
        /\ d.cells = l.chip.cells
    BY <1>3, <1>4, <1>5 DEF Ideal
  <1>7. QED BY <1>0, <1>2, <1>5, <1>6 DEF Buffers, OtherCommanded

(* The column cycle, always zero. *)
LEMMA ColumnAddress ==
  ASSUME NEW r, NEW l \in Label, Selecting(l), ~ l.chip.wait, l.chip.cycles = <<>>
  PROVE  \E m \in Label :
           /\ Selecting(m) /\ m.known /\ Leads(r, Ale(0), l, m) /\ Buffers(l.chip, m.chip)
              /\ m.chip.cells = l.chip.cells
           /\ ~ m.chip.wait /\ m.chip.op = l.chip.op /\ m.chip.cycles = <<0>> /\ m.chip.reg = l.chip.reg
           /\ m.chip.col = l.chip.col /\ Origin(m.chip) = Origin(l.chip)
  <1>1. MayAddress(l.chip, 0) /\ Len(l.chip.cycles) = 0 /\ Append(l.chip.cycles, 0) = <<0>>
    BY DEF MayAddress
  <1>2. PICK m \in Label : Selecting(m) /\ m.known /\ m.chip = AfterAddress(l.chip, 0) /\ Leads(r, Ale(0), l, m)
    BY <1>1, AleLeads
  <1>3. m.chip = [l.chip EXCEPT !.cycles = <<0>>]
    BY <1>1, <1>2 DEF AfterAddress
  <1>4. l.chip \in Ideal
    BY DEF Label
  <1>5. PICK d : d = m.chip
    OBVIOUS
  <1>6. /\ d.area = l.chip.area /\ d.op = l.chip.op /\ d.cycles = <<0>> /\ d.wait = l.chip.wait /\ d.reg = l.chip.reg
        /\ d.col = l.chip.col /\ d.page = l.chip.page /\ d.user = l.chip.user /\ d.list = l.chip.list
           /\ d.ok = l.chip.ok
        /\ d.cells = l.chip.cells
    BY <1>3, <1>4, <1>5 DEF Ideal
  <1>7. Origin(d) = Origin(l.chip)
    BY <1>6 DEF Origin
  <1>8. QED BY <1>2, <1>5, <1>6, <1>7 DEF Buffers

(* A row is read into the page register. *)
LEMMA ReadRowLeads ==
  ASSUME NEW r, NEW l \in Label, Begin(l), ~ l.chip.wait, NEW k \in {"00", "50"}, NEW row \in Row
  PROVE  \E m \in Label :
           /\ Selecting(m) /\ m.known /\ Buffers(l.chip, m.chip) /\ m.chip.cells = l.chip.cells
           /\ m.chip.wait /\ m.chip.op = "read" /\ Len(m.chip.cycles) = 4 /\ m.chip.reg = l.chip.cells[row]
           /\ m.chip.col = (IF k = "00" THEN 0 ELSE PARTS)
           /\ Leads(r, <<Clear("NCE")>> \o Cmd(k) \o Ale(0) \o RowCycles(row), l, m)
  <1>1. PICK x \in Label : Selecting(x) /\ x.chip = l.chip /\ Leads(r, <<Clear("NCE")>>, l, x)
    BY SelectLeads
  <1>12. PICK y \in Label : Selecting(y) /\ y.known /\ Leads(r, Cmd(k), x, y) /\ ReadCommanded(x.chip, k, y.chip)
    BY <1>1, ReadCommand
  <1>2. /\ Selecting(y) /\ Leads(r, Cmd(k), x, y) /\ Buffers(x.chip, y.chip) /\ y.chip.cells = x.chip.cells
        /\ ~ y.chip.wait /\ y.chip.op = "read" /\ y.chip.cycles = <<>>
           /\ Origin(y.chip) = IF k = "00" THEN 0 ELSE PARTS
    BY <1>12 DEF ReadCommanded
  <1>3. PICK z \in Label :
           /\ Selecting(z) /\ z.known /\ Leads(r, Ale(0), y, z) /\ Buffers(y.chip, z.chip)
              /\ z.chip.cells = y.chip.cells
           /\ ~ z.chip.wait /\ z.chip.op = y.chip.op /\ z.chip.cycles = <<0>> /\ Origin(z.chip) = Origin(y.chip)
    BY <1>2, <1>12, ColumnAddress
  <1>4. z.chip.op = "read" /\ z.chip.op # "erase" /\ Cycling(z.chip)
    BY <1>2, <1>3 DEF Cycling
  <1>5. PICK m \in Label : Selecting(m) /\ m.known /\ Leads(r, RowCycles(row), z, m) /\ Cycled(z.chip, row, m.chip)
    BY <1>3, <1>4, CyclesLeads
  <1>6. m.chip.wait /\ m.chip.reg = z.chip.cells[row] /\ m.chip.col = Origin(z.chip) /\ Len(m.chip.cycles) = 4
    BY <1>4, <1>5 DEF Cycled
  <1>7. Leads(r, <<Clear("NCE")>> \o Cmd(k) \o Ale(0) \o RowCycles(row), l, m)
    <2>1. Leads(r, <<Clear("NCE")>> \o Cmd(k), l, y)
      BY <1>1, <1>2, Chain
    <2>2. Leads(r, (<<Clear("NCE")>> \o Cmd(k)) \o Ale(0), l, z)
      BY <1>3, <2>1, Chain
    <2>3. QED BY <1>5, <2>2, Chain
  <1>8. QED BY <1>1, <1>2, <1>3, <1>5, <1>6, <1>7 DEF Buffers, Cycled

(* The wait for the chip. *)
Waited(r, l, raise, skip) ==
  /\ Allowed(r, Wait(raise, skip), l) /\ Wait(raise, skip) \in Operation
  /\ LET m == After(Wait(raise, skip), l) IN
     /\ m \in Label /\ m.high = l.high /\ m.outputs = l.outputs /\ m.bus = l.bus /\ m.known = l.known
     /\ (skip = 0 => Selecting(m)) /\ m.loose = (skip # 0)
     /\ Buffers(l.chip, m.chip) /\ m.chip.cells = l.chip.cells /\ ~ m.chip.wait /\ m.chip.op = l.chip.op
     /\ m.chip.cycles = l.chip.cycles /\ m.chip.reg = l.chip.reg /\ m.chip.col = l.chip.col

(* A wait: the chip is ready after it, or the call goes on late or gives up. *)
LEMMA WaitLeads ==
  ASSUME NEW r, NEW l \in Label, Selecting(l), NEW raise \in BOOLEAN, NEW skip \in Nat,
         (~ raise /\ skip = 0) => r.op \in {"open", "read", "readspare", "write"}
  PROVE  Waited(r, l, raise, skip)
  <1>1. l.high = {"NWE", "NRE"} /\ l.outputs = Lines /\ ~ l.loose
    BY DEF Selecting
  <1>2. PICK o : o = Wait(raise, skip)
    OBVIOUS
  <1>3. o.do = "wait" /\ o.raise = raise /\ o.skip = skip
    BY <1>2 DEF Wait
  <1>4. Quiet(l) /\ SafePins(l)
    <2>1. {"NWE", "NRE"} \cup {"NCE"} = {"NCE", "NWE", "NRE"}
      OBVIOUS
    <2>2. "NRE" \in Lines
      BY DEF Lines, Pins
    <2>3. Quiet(l)
      BY <1>1, <2>1 DEF Quiet, Rest
    <2>4. SafePins(l)
      BY <1>1, <2>2 DEF SafePins, IsLow
    <2>5. QED BY <2>3, <2>4
  <1>5. Allowed(r, o, l)
    BY <1>3, <1>4 DEF Allowed
  <1>6. o \in Operation
    BY <1>2, OperationsTyped
  <1>7. PICK m : m = After(o, l)
    OBVIOUS
  <1>8. m \in Label
    BY <1>5, <1>7, AfterTyped
  <1>9. /\ m.high = l.high /\ m.outputs = l.outputs /\ m.bus = l.bus /\ m.known = l.known
        /\ m.loose = (skip # 0) /\ m.chip = [l.chip EXCEPT !.wait = FALSE]
    BY <1>2, <1>7, WaitIs
  <1>10. l.chip \in Ideal
    BY DEF Label
  <1>11. PICK d : d = m.chip
    OBVIOUS
  <1>12. /\ d.page = l.chip.page /\ d.user = l.chip.user /\ d.list = l.chip.list /\ d.ok = l.chip.ok
         /\ d.cells = l.chip.cells /\ ~ d.wait /\ d.op = l.chip.op
         /\ d.cycles = l.chip.cycles /\ d.reg = l.chip.reg /\ d.col = l.chip.col
    BY <1>9, <1>10, <1>11 DEF Ideal
  <1>13. skip = 0 => Selecting(m)
    BY <1>1, <1>9 DEF Selecting
  <1>14. QED BY <1>2, <1>5, <1>6, <1>7, <1>8, <1>9, <1>11, <1>12, <1>13 DEF Buffers, Waited

(* Chip enable is raised. *)
LEMMA DeselectLeads ==
  ASSUME NEW r, NEW l \in Label, l.high = {"NWE", "NRE"}, l.outputs = Lines
  PROVE  /\ Allowed(r, Set("NCE"), l) /\ Set("NCE") \in Operation /\ Set("NCE").do = "set"
         /\ LET m == After(Set("NCE"), l) IN
            /\ m \in Label /\ m.high = Rest /\ m.outputs = Lines /\ m.bus = l.bus /\ m.known = l.known
            /\ m.loose = l.loose /\ m.chip = l.chip
  <1>1. "NCE" \in Pins /\ "NCE" \in Lines /\ "NRE" \in Lines
    BY DEF Pins, Lines
  <1>2. PICK o \in Operation : o = Set("NCE")
    BY <1>1, OperationsTyped
  <1>3. o.do = "set" /\ o.pin = "NCE"
    BY <1>2 DEF Set
  <1>4. ~ Latching(o, l)
    BY <1>3 DEF Latching
  <1>5. Allowed(r, o, l)
    BY <1>1, <1>3, <1>4 DEF Allowed, SafePins, IsLow
  <1>6. After(o, l) \in Label
    BY <1>5, AfterTyped
  <1>7. PICK m : m = After(o, l)
    OBVIOUS
  <1>8. /\ m.high = l.high \cup {"NCE"} /\ m.outputs = l.outputs /\ m.bus = l.bus /\ m.known = l.known
        /\ m.loose = l.loose /\ m.chip = l.chip
    BY <1>1, <1>2, <1>4, <1>7, SetIs
  <1>9. {"NWE", "NRE"} \cup {"NCE"} = Rest
    BY DEF Rest
  <1>10. QED BY <1>2, <1>3, <1>5, <1>6, <1>7, <1>8, <1>9

(* The end of a program or erase operation. *)
LEMMA EndLeads ==
  ASSUME NEW r, NEW l \in Label, Selecting(l), l.chip.op = "none"
  PROVE  \E m \in Label :
           /\ AtRest(m) /\ m.known = l.known /\ Buffers(l.chip, m.chip) /\ m.chip.cells = l.chip.cells
              /\ ~ m.chip.wait
           /\ Leads(r, <<Wait(TRUE, 0), Set("NCE")>>, l, m)
  <1>1. PICK o, p, x, y : o = Wait(TRUE, 0) /\ p = Set("NCE") /\ x = After(o, l) /\ y = After(p, x)
    OBVIOUS
  <1>2. PICK raise \in BOOLEAN, skip \in Nat : raise = TRUE /\ skip = 0
    OBVIOUS
  <1>3. o = Wait(raise, skip) /\ x = After(Wait(raise, skip), l)
    BY <1>1, <1>2
  <1>4. /\ Allowed(r, o, l) /\ o \in Operation /\ x \in Label /\ x.high = l.high /\ x.outputs = l.outputs
        /\ x.known = l.known /\ Selecting(x)
        /\ Buffers(l.chip, x.chip) /\ x.chip.cells = l.chip.cells /\ ~ x.chip.wait /\ x.chip.op = l.chip.op
    <2>1. (~ raise /\ skip = 0) => r.op \in {"open", "read", "readspare", "write"}
      BY <1>2
    <2>2. Waited(r, l, raise, skip)
      BY <2>1, WaitLeads
    <2>3. QED BY <1>2, <1>3, <2>2 DEF Waited
  <1>5. x.high = {"NWE", "NRE"} /\ x.outputs = Lines /\ ~ x.loose
    BY <1>4 DEF Selecting
  <1>6. /\ Allowed(r, p, x) /\ p \in Operation /\ p.do = "set" /\ y \in Label /\ y.high = Rest /\ y.outputs = Lines
        /\ y.known = x.known /\ y.loose = x.loose /\ y.chip = x.chip
    BY <1>1, <1>4, <1>5, DeselectLeads
  <1>7. AtRest(y)
    <2>1. Rest \cup {"NCE"} = Rest /\ "NCE" \in Rest
      BY DEF Rest
    <2>2. QED BY <1>4, <1>5, <1>6, <2>1 DEF AtRest, Quiet, Still
  <1>8. o.skip = 0
    BY <1>1 DEF Wait
  <1>9. Leads(r, <<o, p>>, l, y)
    BY <1>1, <1>4, <1>6, <1>8, Two
  <1>10. QED BY <1>1, <1>4, <1>6, <1>7, <1>9

(* A page or its spare area is programmed. *)
ProgramWanted(r, l, pointer, page, block, b, n) ==
  /\ l \in Label /\ Begin(l) /\ ~ l.chip.wait /\ pointer \in {"00", "50"} /\ page \in Nat /\ block \in Nat
  /\ Pack(page, block) \in Target(r) /\ b \in {"page", "user"}
  /\ n = IF pointer = "00" THEN PARTS + SPARE ELSE SPARE
ProgramGot(r, l, pointer, page, block, b, n, m) ==
  /\ m \in Label /\ AtRest(m) /\ m.known /\ Buffers(l.chip, m.chip) /\ ~ m.chip.wait
  /\ Leads(r, Program(pointer, page, block, b, n), l, m)
  /\ m.chip.cells[Pack(page, block)] =
       [i \in Place |-> Programmed(l.chip.cells[Pack(page, block)][i],
                                   IF pointer = "50" /\ i <= PARTS THEN Erased
                                   ELSE (IF b = "page" THEN l.chip.page ELSE l.chip.user)
                                          [IF pointer = "50" THEN i - PARTS ELSE i])]
(* The programming routine: the addressed row is programmed with the buffer, and no other row changes. *)
LEMMA ProgramLeads ==
  ASSUME NEW r, NEW l, NEW pointer, NEW page, NEW block, NEW b, NEW n, ProgramWanted(r, l, pointer, page, block, b, n)
  PROVE  \E m : ProgramGot(r, l, pointer, page, block, b, n, m)
  <1> SUFFICES ASSUME l \in Label, Begin(l), ~ l.chip.wait, pointer \in {"00", "50"}, page \in Nat, block \in Nat,
                      Pack(page, block) \in Target(r), b \in {"page", "user"},
                      n = IF pointer = "00" THEN PARTS + SPARE ELSE SPARE
               PROVE  \E m \in Label :
           /\ AtRest(m) /\ m.known /\ Buffers(l.chip, m.chip) /\ ~ m.chip.wait
           /\ Leads(r, Program(pointer, page, block, b, n), l, m)
           /\ m.chip.cells[Pack(page, block)] =
                [i \in Place |-> Programmed(l.chip.cells[Pack(page, block)][i],
                                            IF pointer = "50" /\ i <= PARTS THEN Erased
                                            ELSE (IF b = "page" THEN l.chip.page ELSE l.chip.user)
                                                   [IF pointer = "50" THEN i - PARTS ELSE i])]
    BY DEF ProgramWanted, ProgramGot
  <1>0. PARTS \in Nat /\ SPARE \in Nat /\ Place = 1 .. PARTS + SPARE
    BY Constants DEF Place
  <1>1. PICK row \in Row : row = Pack(page, block)
    BY PackTyped
  <1>2. PICK start \in Nat : start = (IF pointer = "00" THEN 0 ELSE PARTS) /\ start + n = PARTS + SPARE /\ n \in Nat
    BY <1>0
  <1>3. PICK buf \in PageImage : buf = IF b = "page" THEN l.chip.page ELSE l.chip.user
    BY DEF Label, Ideal
  <1>4. PICK x \in Label : Selecting(x) /\ x.chip = l.chip /\ Leads(r, <<Out("bus"), Clear("NCE")>>, l, x)
    BY SelectLeads
  <1>29. PICK y \in Label : Selecting(y) /\ y.known /\ Leads(r, Cmd(pointer), x, y)
              /\ ReadCommanded(x.chip, pointer, y.chip)
    BY <1>4, ReadCommand
  <1>5. /\ Selecting(y) /\ Leads(r, Cmd(pointer), x, y) /\ Buffers(x.chip, y.chip) /\ y.chip.cells = x.chip.cells
        /\ ~ y.chip.wait /\ Origin(y.chip) = IF pointer = "00" THEN 0 ELSE PARTS
    BY <1>29 DEF ReadCommanded
  <1>6. PICK k \in {"60", "80", "90"} : k = "80"
    OBVIOUS
  <1>30. PICK z \in Label : Selecting(z) /\ z.known /\ Leads(r, Cmd(k), y, z) /\ OtherCommanded(y.chip, k, z.chip)
    BY <1>5, <1>29, OtherCommand
  <1>7. /\ Selecting(z) /\ Leads(r, Cmd(k), y, z) /\ Buffers(y.chip, z.chip) /\ z.chip.cells = y.chip.cells
        /\ ~ z.chip.wait /\ z.chip.op = (IF k = "80" THEN "program" ELSE IF k = "60" THEN "erase" ELSE "id")
        /\ z.chip.cycles = <<>> /\ z.chip.reg = [i \in Place |-> Erased] /\ z.chip.col = Origin(y.chip)
    BY <1>30 DEF OtherCommanded
  <1>8. PICK u \in Label :
           /\ Selecting(u) /\ u.known /\ Leads(r, Ale(0), z, u) /\ Buffers(z.chip, u.chip)
              /\ u.chip.cells = z.chip.cells
           /\ ~ u.chip.wait /\ u.chip.op = z.chip.op /\ u.chip.cycles = <<0>> /\ u.chip.reg = z.chip.reg
           /\ u.chip.col = z.chip.col /\ Origin(u.chip) = Origin(z.chip)
    BY <1>7, <1>30, ColumnAddress
  <1>9. u.chip.op = "program" /\ Cycling(u.chip)
    BY <1>6, <1>7, <1>8 DEF Cycling
  <1>10. PICK v \in Label : Selecting(v) /\ v.known /\ Leads(r, RowCycles(row), u, v) /\ Cycled(u.chip, row, v.chip)
    BY <1>8, <1>9, CyclesLeads
  <1>11. /\ v.chip.op = "program" /\ v.chip.cells = u.chip.cells /\ Buffers(u.chip, v.chip)
         /\ AddressedRow(Tail(v.chip.cycles)) = row /\ Len(v.chip.cycles) = 4 /\ ~ v.chip.wait
         /\ v.chip.reg = u.chip.reg /\ v.chip.col = u.chip.col
    BY <1>9, <1>10 DEF Cycled, Buffers
  <1>12. /\ v.chip.col = start /\ v.chip.cells = l.chip.cells /\ v.chip.reg = [i \in Place |-> Erased]
         /\ buf = IF b = "page" THEN v.chip.page ELSE v.chip.user
    BY <1>2, <1>3, <1>4, <1>5, <1>7, <1>8, <1>11 DEF Buffers
  <1>13. PICK w \in Label : /\ Written(v, IF b = "page" THEN v.chip.page ELSE v.chip.user, n, w)
                            /\ Leads(r, WriteBytes(b, 0, n), v, w)
    <2>1. v.chip.col \in Nat /\ v.chip.col + n <= PARTS + SPARE /\ n \in Nat
      BY <1>0, <1>2, <1>12
    <2>2. QED BY <1>10, <1>11, <2>1, WriteBytesLeads
  <1>14. /\ Selecting(w) /\ w.chip.op = "program" /\ w.chip.cycles = v.chip.cycles /\ w.chip.cells = l.chip.cells
         /\ ~ w.chip.wait /\ Buffers(v.chip, w.chip)
         /\ w.chip.reg = Filled([i \in Place |-> Erased], buf, start, 0, n)
    BY <1>11, <1>12, <1>13 DEF Written, Buffers
  <1>15. MayCommand(r, w.chip, "10")
    BY <1>1, <1>11, <1>14 DEF MayCommand, Command
  <1>16. PICK e \in Label : Selecting(e) /\ e.known /\ e.chip = AfterCommand(w.chip, "10")
              /\ Leads(r, Cmd("10"), w, e)
    BY <1>14, <1>15, CmdLeads
  <1>17. PICK page1 : page1 = [i \in Place |-> Programmed(l.chip.cells[row][i], w.chip.reg[i])]
    OBVIOUS
  <1>18. PICK cells1 : cells1 = [l.chip.cells EXCEPT ![row] = page1]
    OBVIOUS
  <1>19. l.chip \in Ideal /\ w.chip \in Ideal
    BY DEF Label
  <1>20. cells1[row] = page1
    <2>1. l.chip.cells \in [Row -> PageImage]
      BY <1>19 DEF Ideal
    <2>2. QED BY <1>18, <2>1
  <1>21. e.chip = [w.chip EXCEPT !.op = "none", !.wait = TRUE, !.cells = cells1]
    <2>1. e.chip = [w.chip EXCEPT !.op = "none", !.wait = TRUE,
              !.cells = [w.chip.cells EXCEPT ![AddressedRow(Tail(w.chip.cycles))] =
                           [i \in Place |-> Programmed(w.chip.cells[AddressedRow(Tail(w.chip.cycles))][i], w.chip.reg[i])]]]
      BY <1>16 DEF AfterCommand
    <2>2. AddressedRow(Tail(w.chip.cycles)) = row
      BY <1>11, <1>14
    <2>3. QED BY <1>14, <1>17, <1>18, <2>1, <2>2
  <1>22. e.chip.op = "none" /\ e.chip.cells = cells1 /\ Buffers(w.chip, e.chip)
    BY <1>19, <1>21 DEF Ideal, Buffers
  <1>23. PICK m \in Label :
           /\ AtRest(m) /\ m.known = e.known /\ Buffers(e.chip, m.chip) /\ m.chip.cells = e.chip.cells
              /\ ~ m.chip.wait
           /\ Leads(r, <<Wait(TRUE, 0), Set("NCE")>>, e, m)
    BY <1>16, <1>22, EndLeads
  <1>24. Leads(r, Program(pointer, page, block, b, n), l, m)
    <2>1. PICK a1, a2, a3, a4, a5, a6, a7, a8 :
            /\ a1 = <<Out("bus"), Clear("NCE")>> /\ a2 = Cmd(pointer) /\ a3 = Cmd("80") /\ a4 = Ale(0)
               /\ a5 = RowCycles(row)
            /\ a6 = WriteBytes(b, 0, n) /\ a7 = Cmd("10") /\ a8 = <<Wait(TRUE, 0), Set("NCE")>>
      OBVIOUS
    <2>2. /\ Leads(r, a1, l, x) /\ Leads(r, a2, x, y) /\ Leads(r, a3, y, z) /\ Leads(r, a4, z, u)
             /\ Leads(r, a5, u, v)
          /\ Leads(r, a6, v, w) /\ Leads(r, a7, w, e) /\ Leads(r, a8, e, m)
      BY <1>4, <1>5, <1>6, <1>7, <1>8, <1>10, <1>13, <1>16, <1>23, <2>1
    <2>3. Leads(r, (a1 \o a2) \o a3, l, z)
      BY <2>2, Chain
    <2>4. Leads(r, ((a1 \o a2) \o a3) \o a4, l, u)
      BY <2>2, <2>3, Chain
    <2>5. Leads(r, (((a1 \o a2) \o a3) \o a4) \o a5, l, v)
      BY <2>2, <2>4, Chain
    <2>6. Leads(r, ((((a1 \o a2) \o a3) \o a4) \o a5) \o a6, l, w)
      BY <2>2, <2>5, Chain
    <2>7. Leads(r, a7 \o a8, w, m)
      BY <2>2, Chain
    <2>8. Leads(r, (((((a1 \o a2) \o a3) \o a4) \o a5) \o a6) \o (a7 \o a8), l, m)
      BY <2>6, <2>7, Chain
    <2>9. Program(pointer, page, block, b, n) = (((((a1 \o a2) \o a3) \o a4) \o a5) \o a6) \o (a7 \o a8)
      BY <1>1, <2>1 DEF Program, ProgramEnd
    <2>10. QED BY <2>8, <2>9
  <1>25. ASSUME NEW i \in Place
         PROVE  w.chip.reg[i] = IF pointer = "50" /\ i <= PARTS THEN Erased ELSE buf[IF pointer = "50" THEN i - PARTS ELSE i]
    <2>1. i \in Nat /\ i >= 1 /\ i <= PARTS + SPARE
      BY <1>0
    <2>2. w.chip.reg[i] = IF i \in start + 1 .. start + n THEN buf[0 + (i - start)] ELSE Erased
      BY <1>14 DEF Filled
    <2>3. i \in start + 1 .. start + n <=> i > start
      BY <1>0, <1>2, <2>1
    <2>4. CASE pointer = "50"
      <3>1. start = PARTS /\ 0 + (i - start) = i - PARTS /\ (i > start <=> ~ (i <= PARTS))
        BY <1>0, <1>2, <2>1, <2>4
      <3>2. QED BY <2>2, <2>3, <2>4, <3>1
    <2>5. CASE pointer = "00"
      <3>1. start = 0 /\ 0 + (i - start) = i /\ i > start
        BY <1>0, <1>2, <2>1, <2>5
      <3>2. QED BY <2>2, <2>3, <2>5, <3>1
    <2>6. QED BY <2>4, <2>5
  <1>26. m.chip.cells[row] = [i \in Place |-> Programmed(l.chip.cells[row][i],
                                            IF pointer = "50" /\ i <= PARTS THEN Erased
                                            ELSE buf[IF pointer = "50" THEN i - PARTS ELSE i])]
    BY <1>17, <1>20, <1>22, <1>23, <1>25
  <1>27. m.known /\ Buffers(l.chip, m.chip)
    BY <1>4, <1>5, <1>7, <1>8, <1>11, <1>14, <1>16, <1>22, <1>23 DEF Buffers
  <1>28. QED BY <1>1, <1>3, <1>23, <1>24, <1>26, <1>27

(* A row is ready to be read. *)
Loaded(r, x, skip, b, from, n) ==
  /\ x \in Label /\ Selecting(x) /\ x.known /\ x.chip.op = "read" /\ Len(x.chip.cycles) = 4
  /\ skip \in Nat /\ (skip = 0 => r.op \in {"open", "read", "readspare", "write"})
  /\ b \in {"page", "user"} /\ from \in Nat /\ n \in Nat /\ from + n <= PARTS + SPARE
  /\ x.chip.col \in Nat /\ x.chip.col + n <= PARTS + SPARE

(* It has been read, and chip enable raised. *)
Unloaded(x, skip, b, from, n, m) ==
  /\ m \in Label /\ m.high = Rest /\ m.outputs = Lines /\ m.known /\ m.loose = (skip # 0) /\ m.bus = x.bus
  /\ Still(m.chip) /\ ~ m.chip.wait /\ m.chip.cells = x.chip.cells /\ m.chip.list = x.chip.list
     /\ m.chip.ok = x.chip.ok
  /\ m.chip.page = IF b = "page" THEN Filled(x.chip.page, x.chip.reg, from, x.chip.col, n) ELSE x.chip.page
  /\ m.chip.user = IF b = "user" THEN Filled(x.chip.user, x.chip.reg, from, x.chip.col, n) ELSE x.chip.user

Unloading(r, x, skip, b, from, n) ==
  \E o \in Operation, y \in Label, bytes \in Seq(Operation), p \in Operation, m \in Label :
    /\ o = Wait(FALSE, skip) /\ o.do = "wait" /\ o.skip = skip /\ Allowed(r, o, x) /\ y = After(o, x)
    /\ bytes = ReadBytes(b, from, n) /\ p = Set("NCE")
    /\ Unloaded(x, skip, b, from, n, m) /\ Leads(r, bytes \o <<p>>, y, m)

(* The rest of a read routine once the row is loaded: the bytes, and the chip is deselected. *)
LEMMA BytesLeads ==
  ASSUME NEW r, NEW x, NEW skip, NEW b, NEW from, NEW n, Loaded(r, x, skip, b, from, n)
  PROVE  Unloading(r, x, skip, b, from, n)
  <1>0. /\ x \in Label /\ Selecting(x) /\ x.known /\ x.chip.op = "read" /\ Len(x.chip.cycles) = 4
        /\ skip \in Nat /\ (skip = 0 => r.op \in {"open", "read", "readspare", "write"})
        /\ b \in {"page", "user"} /\ from \in Nat /\ n \in Nat /\ from + n <= PARTS + SPARE
        /\ x.chip.col \in Nat /\ x.chip.col + n <= PARTS + SPARE
    BY DEF Loaded
  <1>1. PICK o, y, p : o = Wait(FALSE, skip) /\ y = After(o, x) /\ p = Set("NCE")
    OBVIOUS
  <1>2. PICK raise \in BOOLEAN : raise = FALSE
    OBVIOUS
  <1>3. o = Wait(raise, skip) /\ y = After(Wait(raise, skip), x)
    BY <1>1, <1>2
  <1>4. /\ Allowed(r, o, x) /\ o \in Operation /\ y \in Label /\ y.high = x.high /\ y.outputs = x.outputs
        /\ y.known = x.known /\ y.bus = x.bus /\ y.loose = (skip # 0)
        /\ Buffers(x.chip, y.chip) /\ y.chip.cells = x.chip.cells /\ ~ y.chip.wait /\ y.chip.op = x.chip.op
        /\ y.chip.cycles = x.chip.cycles /\ y.chip.reg = x.chip.reg /\ y.chip.col = x.chip.col
    <2>1. x \in Label /\ Selecting(x) /\ skip \in Nat
          /\ ((~ raise /\ skip = 0) => r.op \in {"open", "read", "readspare", "write"})
      BY <1>0
    <2>2. Waited(r, x, raise, skip)
      BY <2>1, WaitLeads
    <2>3. QED BY <1>3, <2>2 DEF Waited
  <1>5. Reading(y)
    BY <1>0, <1>4 DEF Reading, Selecting
  <1>6. /\ ReadBytes(b, from, n) \in Seq(Operation)
        /\ \E m \in Label : Got(y, b, from, n, m) /\ Leads(r, ReadBytes(b, from, n), y, m)
    <2>1. /\ y \in Label /\ Reading(y) /\ ~ y.chip.wait /\ y.chip.op = "read" /\ y.chip.col \in Nat
          /\ y.chip.col + n <= PARTS + SPARE
      BY <1>0, <1>4, <1>5
    <2>2. QED BY <1>0, <2>1, ReadBytesLeads
  <1>7. PICK bytes : bytes = ReadBytes(b, from, n)
    OBVIOUS
  <1>8. PICK z \in Label : Got(y, b, from, n, z) /\ Leads(r, bytes, y, z)
    BY <1>6, <1>7
  <1>9. /\ z.high = {"NWE", "NRE"} /\ z.outputs = Lines /\ z.known /\ z.bus = y.bus /\ z.loose = y.loose
        /\ SameDevice(y.chip, z.chip)
        /\ z.chip.page = IF b = "page" THEN Filled(y.chip.page, y.chip.reg, from, y.chip.col, n) ELSE y.chip.page
        /\ z.chip.user = IF b = "user" THEN Filled(y.chip.user, y.chip.reg, from, y.chip.col, n) ELSE y.chip.user
    BY <1>8 DEF Got, Reading
  <1>10. PICK m : m = After(p, z)
    OBVIOUS
  <1>11. /\ Allowed(r, p, z) /\ p \in Operation /\ p.do = "set" /\ m \in Label /\ m.high = Rest /\ m.outputs = Lines
         /\ m.bus = z.bus /\ m.known = z.known /\ m.loose = z.loose /\ m.chip = z.chip
    BY <1>1, <1>9, <1>10, DeselectLeads
  <1>12. Leads(r, bytes \o <<p>>, y, m)
    BY <1>7, <1>8, <1>10, <1>11, Further
  <1>14. Still(m.chip) /\ ~ m.chip.wait
    BY <1>0, <1>4, <1>9, <1>11 DEF Still, SameDevice
  <1>15. /\ m.chip.cells = x.chip.cells /\ m.chip.list = x.chip.list /\ m.chip.ok = x.chip.ok
         /\ m.chip.page = IF b = "page" THEN Filled(x.chip.page, x.chip.reg, from, x.chip.col, n) ELSE x.chip.page
         /\ m.chip.user = IF b = "user" THEN Filled(x.chip.user, x.chip.reg, from, x.chip.col, n) ELSE x.chip.user
    BY <1>4, <1>9, <1>11 DEF SameDevice, Buffers
  <1>16. m.known /\ m.loose = (skip # 0) /\ m.bus = x.bus
    BY <1>4, <1>9, <1>11
  <1>17. Unloaded(x, skip, b, from, n, m)
    BY <1>11, <1>14, <1>15, <1>16 DEF Unloaded
  <1>18. o.do = "wait" /\ o.skip = skip
    BY <1>1 DEF Wait
  <1>19. bytes \in Seq(Operation)
    BY <1>6, <1>7
  <1>20. QED BY <1>1, <1>4, <1>7, <1>11, <1>12, <1>17, <1>18, <1>19 DEF Unloading

(* The spare area of a page is read. *)
SpareRead(c, row, b, from, d) ==
  /\ Still(d) /\ ~ d.wait /\ d.cells = c.cells /\ d.list = c.list /\ d.ok = c.ok
  /\ d.page = IF b = "page" THEN Filled(c.page, c.cells[row], from, PARTS, SPARE) ELSE c.page
  /\ d.user = IF b = "user" THEN Filled(c.user, c.cells[row], from, PARTS, SPARE) ELSE c.user

SpareWanted(r, l, page, block, b, from, goOn) ==
  /\ l \in Label /\ Begin(l) /\ ~ l.chip.wait /\ page \in Nat /\ block \in Nat /\ b \in {"page", "user"}
  /\ from \in 0 .. PARTS /\ goOn \in BOOLEAN /\ (~ goOn => r.op \in {"open", "read", "readspare", "write"})
SpareGot(r, l, page, block, b, from, goOn, m) ==
  /\ m \in Label /\ m.high = Rest /\ m.outputs = Lines /\ m.known /\ m.loose = goOn
  /\ SpareRead(l.chip, Pack(page, block), b, from, m.chip)
  /\ Leads(r, ReadSpare(page, block, b, from, goOn), l, m)
(* The spare area routine: the buffer receives the spare bytes of the addressed row. *)
LEMMA ReadSpareLeads ==
  ASSUME NEW r, NEW l, NEW page, NEW block, NEW b, NEW from, NEW goOn, SpareWanted(r, l, page, block, b, from, goOn)
  PROVE  \E m : SpareGot(r, l, page, block, b, from, goOn, m)
  <1> SUFFICES ASSUME l \in Label, Begin(l), ~ l.chip.wait, page \in Nat, block \in Nat, b \in {"page", "user"},
                      from \in 0 .. PARTS, goOn \in BOOLEAN, ~ goOn => r.op \in {"open", "read", "readspare", "write"}
               PROVE  \E m \in Label :
                        /\ m.high = Rest /\ m.outputs = Lines /\ m.known /\ m.loose = goOn
                        /\ SpareRead(l.chip, Pack(page, block), b, from, m.chip)
                        /\ Leads(r, ReadSpare(page, block, b, from, goOn), l, m)
    BY DEF SpareWanted, SpareGot
  <1>0. PARTS \in Nat /\ SPARE \in Nat
    BY Constants
  <1>1. PICK row \in Row : row = Pack(page, block)
    BY PackTyped
  <1>2. PICK k \in {"00", "50"} : k = "50"
    OBVIOUS
  <1>3. PICK x \in Label :
           /\ Selecting(x) /\ x.known /\ Buffers(l.chip, x.chip) /\ x.chip.cells = l.chip.cells
           /\ x.chip.wait /\ x.chip.op = "read" /\ Len(x.chip.cycles) = 4 /\ x.chip.reg = l.chip.cells[row]
           /\ x.chip.col = (IF k = "00" THEN 0 ELSE PARTS)
           /\ Leads(r, <<Clear("NCE")>> \o Cmd(k) \o Ale(0) \o RowCycles(row), l, x)
    BY ReadRowLeads
  <1>4. PICK n \in Nat : n = SPARE /\ from + n <= PARTS + SPARE /\ x.chip.col \in Nat
             /\ x.chip.col + n <= PARTS + SPARE
    BY <1>0, <1>2, <1>3
  <1>5. PICK s : s = (<<Clear("NCE")>> \o Cmd(k) \o Ale(0) \o RowCycles(row))
    OBVIOUS
  <1>6. s \in Seq(Operation)
    BY <1>3, <1>5 DEF Leads, Outline
  <1>7. PICK skip \in Nat : skip = (IF goOn THEN Len(ReadBytes(b, from, n)) + 1 ELSE 0) /\ (skip = 0 <=> ~ goOn)
    <2>1. Loaded(r, x, 1, b, from, n)
      BY <1>3, <1>4 DEF Loaded
    <2>2. ReadBytes(b, from, n) \in Seq(Operation)
      <3>1. Unloading(r, x, 1, b, from, n)
        BY <2>1, BytesLeads
      <3>2. QED BY <3>1 DEF Unloading
    <2>3. QED BY <2>2
  <1>8. Loaded(r, x, skip, b, from, n)
    BY <1>3, <1>4, <1>7 DEF Loaded
  <1>9. PICK o \in Operation, y \in Label, bytes \in Seq(Operation), p \in Operation, m \in Label :
           /\ o = Wait(FALSE, skip) /\ o.do = "wait" /\ o.skip = skip /\ Allowed(r, o, x) /\ y = After(o, x)
           /\ bytes = ReadBytes(b, from, n) /\ p = Set("NCE")
           /\ Unloaded(x, skip, b, from, n, m) /\ Leads(r, bytes \o <<p>>, y, m)
    <2>1. Unloading(r, x, skip, b, from, n)
      BY <1>8, BytesLeads
    <2>2. QED BY <2>1 DEF Unloading
  <1>10. PICK w, q, t : w = <<o>> /\ q = <<p>> /\ t = bytes \o q
    OBVIOUS
  <1>11. w \in Seq(Operation) /\ q \in Seq(Operation) /\ t \in Seq(Operation) /\ Len(t) = Len(bytes) + 1
    BY <1>10
  <1>12. Leads(r, t, y, m)
    BY <1>9, <1>10
  <1>13. Leads(r, w \o t, x, m)
    <2>1. CASE ~ goOn
      <3>1. Leads(r, <<o>>, x, y)
        BY <1>3, <1>7, <1>9, <2>1, Single
      <3>2. QED BY <1>10, <1>12, <3>1, Chain
    <2>2. CASE goOn
      <3>1. o.skip = Len(t)
        BY <1>7, <1>9, <1>11, <2>2
      <3>2. Joins(x, m)
        <4>1. {"NWE", "NRE"} \cup {"NCE"} = Rest
          BY DEF Rest
        <4>2. m.loose
          BY <1>7, <1>9, <2>2 DEF Unloaded
        <4>3. QED BY <1>3, <1>9, <4>1, <4>2 DEF Joins, Selecting, Unloaded
      <3>3. QED BY <1>3, <1>9, <1>10, <1>12, <3>1, <3>2, Skipping
    <2>3. QED BY <2>1, <2>2
  <1>14. Leads(r, s \o (w \o t), l, m)
    BY <1>3, <1>5, <1>13, Chain
  <1>15. ReadSpare(page, block, b, from, goOn) = s \o (w \o t)
    <2>1. ReadSpare(page, block, b, from, goOn) = ((s \o w) \o bytes) \o q
      BY <1>1, <1>2, <1>4, <1>5, <1>7, <1>9, <1>10 DEF ReadSpare
    <2>2. ((s \o w) \o bytes) \o q = s \o (w \o (bytes \o q))
      <3>1. s \in Seq(Operation) /\ w \in Seq(Operation) /\ bytes \in Seq(Operation) /\ q \in Seq(Operation)
        BY <1>6, <1>9, <1>11
      <3>2. QED BY <3>1, SMTT(60)
    <2>3. QED BY <1>10, <2>1, <2>2
  <1>16. SpareRead(l.chip, row, b, from, m.chip)
    <2>1. x.chip.col = PARTS
      BY <1>2, <1>3
    <2>2. QED BY <1>3, <1>4, <1>9, <2>1 DEF SpareRead, Unloaded, Buffers
  <1>17. m.loose = goOn
    <2>1. m.loose = (skip # 0)
      BY <1>9 DEF Unloaded
    <2>2. QED BY <1>7, <2>1
  <1>18. m.high = Rest /\ m.outputs = Lines /\ m.known
    BY <1>9 DEF Unloaded
  <1>19. QED BY <1>1, <1>9, <1>14, <1>15, <1>16, <1>17, <1>18

(* A call that starts at a label: it is carried out to its end. *)
Starts(l) == l \in Label /\ Quiet(l) /\ Still(l.chip) /\ ~ l.chip.wait
Complete(r, l, s) == \E m \in Label : Leads(r, s, l, m) /\ Ends(r, l.chip.cells, s, m)

(* A routine may begin at a quiet label. *)
LEMMA QuietBegins ==
  ASSUME NEW l, Quiet(l)
  PROVE  Begin(l) /\ ~ l.loose
  BY DEF Quiet, Begin

(* The fields of the requests of each kind. *)
LEMMA RequestTyped ==
  ASSUME NEW r \in Request
  PROVE  /\ r.op \in {"open", "erase", "mark", "read", "readspare", "write", "writespare"}
         /\ r.op \notin {"open"} => r.block \in Nat
         /\ r.op \in {"read", "readspare", "write", "writespare"} => r.page \in Nat
         /\ r.op = "write" => r.data \in [1 .. PARTS -> Value]
         /\ r.op = "writespare" => r.data \in [1 .. SPARE -> Value]
  <1>1. CASE r \in [op : {"open"}] \cup [op : {"erase", "mark"}, block : Nat]
                   \cup [op : {"read", "readspare"}, page : Nat, block : Nat]
    BY <1>1
  <1>2. CASE r \in [op : {"write"}, page : Nat, block : Nat, data : [1 .. PARTS -> Value]]
    BY <1>2
  <1>3. CASE r \in [op : {"writespare"}, page : Nat, block : Nat, data : [1 .. SPARE -> Value]]
    BY <1>3
  <1>4. QED BY <1>1, <1>2, <1>3, RequestAssumption

(* One thing the functions do with their buffers. *)
Computable(r, l, w, n) ==
  /\ l \in Label /\ l.outputs = Lines /\ l.high \cup {"NCE"} = Rest /\ w \in Computation /\ n \in Nat
  /\ w = "correct" => n \in 1 .. PARTS /\ Quiet(l) /\ Still(l.chip) /\ r.op = "read"
  /\ w = "invalid" => Quiet(l) /\ Still(l.chip)
  /\ w = "list" => n \in Block
  /\ w = "mark" => n \in Place
Computed(r, l, w, n, m) ==
  /\ m \in Label /\ m.high = l.high /\ m.outputs = l.outputs /\ m.bus = l.bus /\ m.known = l.known
  /\ m.loose = l.loose /\ m.chip = AfterCompute(l.chip, w, n)
  /\ Compute(w, n) \in Operation /\ Compute(w, n).do = w
  /\ Leads(r, <<Compute(w, n)>>, l, m)
(* Work on the buffers is an outline of one step. *)
LEMMA ComputeLeads ==
  ASSUME NEW r, NEW l, NEW w, NEW n, Computable(r, l, w, n)
  PROVE  \E m : Computed(r, l, w, n, m)
  <1>0. /\ l \in Label /\ l.outputs = Lines /\ l.high \cup {"NCE"} = Rest /\ w \in Computation /\ n \in Nat
        /\ w = "correct" => n \in 1 .. PARTS /\ Quiet(l) /\ Still(l.chip) /\ r.op = "read"
        /\ w = "invalid" => Quiet(l) /\ Still(l.chip)
        /\ w = "list" => n \in Block
        /\ w = "mark" => n \in Place
    BY DEF Computable
  <1>1. PICK o : o = Compute(w, n)
    OBVIOUS
  <1>2. o.do = w /\ o.at = n
    BY <1>1 DEF Compute
  <1>3. o \in Operation
    BY <1>0, <1>1, OperationsTyped
  <1>4. SafePins(l)
    <2>1. "NRE" \in Lines
      BY DEF Lines, Pins
    <2>2. "NRE" \in l.high
      BY <1>0 DEF Rest
    <2>3. QED BY <1>0, <2>1, <2>2 DEF SafePins, IsLow
  <1>5. Allowed(r, o, l)
    BY <1>0, <1>2, <1>4 DEF Allowed
  <1>6. After(o, l) \in Label
    BY <1>0, <1>5, AfterTyped
  <1>7. PICK m : m = After(o, l)
    OBVIOUS
  <1>8. /\ m.high = l.high /\ m.outputs = l.outputs /\ m.bus = l.bus /\ m.known = l.known
        /\ m.loose = l.loose /\ m.chip = AfterCompute(l.chip, w, n)
    BY <1>0, <1>1, <1>7, ComputeIs
  <1>9. o.do # "wait"
    BY <1>0, <1>2 DEF Computation
  <1>10. Leads(r, <<o>>, l, m)
    BY <1>0, <1>3, <1>5, <1>6, <1>7, <1>9, Single
  <1>11. Computed(r, l, w, n, m)
    BY <1>1, <1>2, <1>3, <1>6, <1>7, <1>8, <1>10 DEF Computed
  <1>12. QED BY <1>11

(* The last operation of a sequence. *)
LEMMA LastOf ==
  ASSUME NEW s \in Seq(Operation), NEW o \in Operation
  PROVE  /\ (s \o <<o>>)[Len(s \o <<o>>)] = o
         /\ <<o>>[Len(<<o>>)] = o
  <1>1. PICK b, t : b = <<o>> /\ t = s \o b
    OBVIOUS
  <1>2. Len(t) = Len(s) + 1 /\ t[Len(s) + 1] = o
    BY <1>1, AppendedOne
  <1>3. QED BY <1>1, <1>2

(* A call with a wrong page or block number is refused. *)
LEMMA InvalidComplete ==
  ASSUME NEW r, NEW l, Starts(l)
  PROVE  Complete(r, l, <<Compute("invalid", 0)>>)
  <1>1. l.outputs = Lines /\ l.high \cup {"NCE"} = Rest /\ l \in Label /\ Quiet(l) /\ Still(l.chip)
    BY DEF Starts, Quiet
  <1>2. PICK w \in Computation, n \in Nat : w = "invalid" /\ n = 0
    BY DEF Computation
  <1>3. Computable(r, l, w, n)
    BY <1>1, <1>2 DEF Computable
  <1>4. PICK m : Computed(r, l, w, n, m)
    BY <1>3, ComputeLeads
  <1>5. PICK o : o = Compute(w, n)
    OBVIOUS
  <1>6. m \in Label /\ o.do = "invalid" /\ Leads(r, <<o>>, l, m)
    BY <1>2, <1>4, <1>5 DEF Computed
  <1>7. <<o>> # <<>> /\ <<o>>[Len(<<o>>)].do = "invalid"
    BY <1>6
  <1>8. Complete(r, l, <<o>>)
    BY <1>6, <1>7 DEF Complete, Ends
  <1>9. QED BY <1>2, <1>5, <1>8

(* A block is erased. *)
LEMMA EraseComplete ==
  ASSUME NEW r, r.op = "erase", r.block \in Nat, NEW l, Starts(l)
  PROVE  Complete(r, l, Erase(r.block))
  <1>1. l \in Label /\ Begin(l) /\ ~ l.chip.wait
    BY QuietBegins DEF Starts
  <1>2. PICK row \in Row : row = Pack(0, r.block) /\ row \div PAGES = r.block % BLOCKS
    <2>1. PICK page \in Nat : page = 0
      OBVIOUS
    <2>2. QED BY <2>1, PackTyped
  <1>3. PICK x \in Label : Selecting(x) /\ x.chip = l.chip /\ Leads(r, <<Clear("NCE")>>, l, x)
    BY <1>1, SelectLeads
  <1>4. PICK k \in {"60", "80", "90"} : k = "60"
    OBVIOUS
  <1>5. PICK y \in Label : Selecting(y) /\ y.known /\ Leads(r, Cmd(k), x, y) /\ OtherCommanded(x.chip, k, y.chip)
    BY <1>1, <1>3, OtherCommand
  <1>6. y.chip.op = "erase" /\ ~ y.chip.wait /\ y.chip.cells = l.chip.cells /\ Cycling(y.chip)
    BY <1>3, <1>4, <1>5 DEF OtherCommanded, Cycling
  <1>7. PICK z \in Label : Selecting(z) /\ z.known /\ Leads(r, RowCycles(row), y, z) /\ Cycled(y.chip, row, z.chip)
    BY <1>5, <1>6, CyclesLeads
  <1>8. /\ z.chip.op = "erase" /\ z.chip.cells = l.chip.cells /\ AddressedRow(z.chip.cycles) = row
           /\ Len(z.chip.cycles) = 3
        /\ ~ z.chip.wait
    BY <1>6, <1>7 DEF Cycled
  <1>9. Target(r) = {q \in Row : q \div PAGES = r.block % BLOCKS}
    BY DEF Target
  <1>10. MayCommand(r, z.chip, "D0")
    BY <1>2, <1>8, <1>9 DEF MayCommand, Command
  <1>11. PICK e \in Label : Selecting(e) /\ e.known /\ e.chip = AfterCommand(z.chip, "D0")
              /\ Leads(r, Cmd("D0"), z, e)
    BY <1>7, <1>8, <1>10, CmdLeads
  <1>12. PICK cells1 : cells1 = [q \in Row |-> IF q \div PAGES = row \div PAGES THEN [i \in Place |-> Erased] ELSE z.chip.cells[q]]
    OBVIOUS
  <1>13. e.chip = [z.chip EXCEPT !.op = "none", !.wait = TRUE, !.cells = cells1]
    BY <1>8, <1>11, <1>12 DEF AfterCommand
  <1>14. e.chip.op = "none" /\ e.chip.cells = cells1
    <2>1. z.chip \in Ideal
      BY DEF Label
    <2>2. QED BY <1>13, <2>1 DEF Ideal
  <1>15. PICK m \in Label :
           /\ AtRest(m) /\ m.known = e.known /\ Buffers(e.chip, m.chip) /\ m.chip.cells = e.chip.cells
              /\ ~ m.chip.wait
           /\ Leads(r, <<Wait(TRUE, 0), Set("NCE")>>, e, m)
    BY <1>11, <1>14, EndLeads
  <1>16. Leads(r, Erase(r.block), l, m)
    <2>1. PICK a1, a2, a3, a4, a5 :
            /\ a1 = <<Clear("NCE")>> /\ a2 = Cmd("60") /\ a3 = RowCycles(row) /\ a4 = Cmd("D0")
            /\ a5 = <<Wait(TRUE, 0), Set("NCE")>>
      OBVIOUS
    <2>2. Leads(r, a1, l, x) /\ Leads(r, a2, x, y) /\ Leads(r, a3, y, z) /\ Leads(r, a4, z, e) /\ Leads(r, a5, e, m)
      BY <1>3, <1>4, <1>5, <1>7, <1>11, <1>15, <2>1
    <2>3. Leads(r, (a1 \o a2) \o a3, l, z)
      BY <2>2, Chain
    <2>4. Leads(r, ((a1 \o a2) \o a3) \o a4, l, e)
      BY <2>2, <2>3, Chain
    <2>5. Leads(r, (((a1 \o a2) \o a3) \o a4) \o a5, l, m)
      BY <2>2, <2>4, Chain
    <2>6. Erase(r.block) = (((a1 \o a2) \o a3) \o a4) \o a5
      BY <1>2, <2>1 DEF Erase
    <2>7. QED BY <2>5, <2>6
  <1>17. Result(r, l.chip.cells, m.chip)
    <2>1. \A q \in Target(r) : m.chip.cells[q] = [i \in Place |-> Erased]
      BY <1>2, <1>9, <1>12, <1>14, <1>15
    <2>2. QED BY <2>1 DEF Result
  <1>18. QED BY <1>15, <1>16, <1>17 DEF Complete, Ends

(* The spare area of a page is read to the caller's buffer. *)
LEMMA ReadSpareComplete ==
  ASSUME NEW r, r.op = "readspare", r.block \in Nat, r.page \in Nat, NEW l, Starts(l)
  PROVE  Complete(r, l, ReadSpare(r.page, r.block, "user", 0, FALSE))
  <1>0. PARTS \in Nat /\ SPARE \in Nat /\ PARTS = 2 /\ Place = 1 .. PARTS + SPARE /\ SPARE >= 8
    BY Constants DEF Place
  <1>1. l \in Label /\ Begin(l) /\ ~ l.chip.wait
    BY QuietBegins DEF Starts
  <1>2. PICK page, block, b, from, goOn :
           page = r.page /\ block = r.block /\ b = "user" /\ from = 0 /\ goOn = FALSE
    OBVIOUS
  <1>3. PICK row \in Row : row = Pack(page, block)
    BY <1>2, PackTyped
  <1>10. SpareWanted(r, l, page, block, b, from, goOn)
    <2>1. from \in 0 .. PARTS /\ page \in Nat /\ block \in Nat /\ b \in {"page", "user"}
      BY <1>0, <1>2
    <2>4. goOn \in BOOLEAN
      BY <1>2
    <2>2. r.op \in {"open", "read", "readspare", "write"}
      OBVIOUS
    <2>3. QED BY <1>1, <2>1, <2>2, <2>4 DEF SpareWanted
  <1>11. PICK m : SpareGot(r, l, page, block, b, from, goOn, m)
    BY <1>10, ReadSpareLeads
  <1>4. /\ m \in Label /\ m.high = Rest /\ m.outputs = Lines /\ m.known /\ m.loose = goOn
        /\ SpareRead(l.chip, Pack(page, block), b, from, m.chip)
        /\ Leads(r, ReadSpare(page, block, b, from, goOn), l, m)
    BY <1>11 DEF SpareGot
  <1>5. AtRest(m)
    <2>1. Rest \cup {"NCE"} = Rest /\ "NCE" \in Rest
      BY DEF Rest
    <2>2. QED BY <1>2, <1>4, <2>1 DEF AtRest, Quiet, SpareRead
  <1>6. ASSUME NEW s \in 0 .. SPARE - 1
        PROVE  m.chip.user[s + 1] = Spare(l.chip.cells[row], s)
    <2>1. m.chip.user = Filled(l.chip.user, l.chip.cells[row], 0, PARTS, SPARE)
      BY <1>2, <1>3, <1>4 DEF SpareRead
    <2>2. s + 1 \in Place /\ s + 1 \in 0 + 1 .. 0 + SPARE /\ PARTS + ((s + 1) - 0) = PARTS + s + 1
      BY <1>0
    <2>3. m.chip.user[s + 1] = l.chip.cells[row][PARTS + ((s + 1) - 0)]
      BY <2>1, <2>2 DEF Filled
    <2>4. QED BY <2>2, <2>3 DEF Spare
  <1>7. Addressed(r) = row
    BY <1>2, <1>3 DEF Addressed
  <1>8. Result(r, l.chip.cells, m.chip)
    BY <1>6, <1>7 DEF Result
  <1>9. QED BY <1>2, <1>4, <1>5, <1>8 DEF Complete, Ends

(* A call that ends with the programming of a row, after something that leads to where it starts. *)
LEMMA ProgramEnds ==
  ASSUME NEW r, r.op \notin {"open", "erase", "readspare", "read"}, NEW l, NEW s, NEW x, Leads(r, s, l, x),
         NEW pointer, NEW page, NEW block, NEW b, NEW n,
         ProgramWanted(r, x, pointer, page, block, b, n), Pack(page, block) = Addressed(r),
         NEW old, old = x.chip.cells[Addressed(r)], old = l.chip.cells[Addressed(r)],
         \A i \in Place : (IF pointer = "50" /\ i <= PARTS THEN Erased
                           ELSE (IF b = "page" THEN x.chip.page ELSE x.chip.user)[IF pointer = "50" THEN i - PARTS ELSE i])
                          = Image(r, old)[i]
  PROVE  Complete(r, l, s \o Program(pointer, page, block, b, n))
  <1>1. PICK m : ProgramGot(r, x, pointer, page, block, b, n, m)
    BY ProgramLeads
  <1>2. PICK t : t = Program(pointer, page, block, b, n)
    OBVIOUS
  <1>3. Leads(r, t, x, m) /\ m \in Label /\ AtRest(m)
    BY <1>1, <1>2 DEF ProgramGot
  <1>4. Leads(r, s \o t, l, m)
    BY <1>3, Chain
  <1>5. m.chip.cells[Addressed(r)] =
          [i \in Place |-> Programmed(old[i],
                                      IF pointer = "50" /\ i <= PARTS THEN Erased
                                      ELSE (IF b = "page" THEN x.chip.page ELSE x.chip.user)
                                             [IF pointer = "50" THEN i - PARTS ELSE i])]
    BY <1>1 DEF ProgramGot
  <1>6. m.chip.cells[Addressed(r)] = [i \in Place |-> Programmed(old[i], Image(r, old)[i])]
    BY <1>5, Zenon
  <1>7. Result(r, l.chip.cells, m.chip)
    BY <1>6 DEF Result
  <1>8. QED BY <1>2, <1>3, <1>4, <1>7 DEF Complete, Ends

(* The spare area of a page is written. *)
LEMMA WriteSpareComplete ==
  ASSUME NEW r, r.op = "writespare", r.block \in Nat, r.page \in Nat, NEW l, Starts(l),
         \A i \in 1 .. SPARE : l.chip.user[i] = r.data[i]
  PROVE  Complete(r, l, Program("50", r.page, r.block, "user", SPARE))
  <1>0. PARTS \in Nat /\ SPARE \in Nat /\ PARTS = 2 /\ Place = 1 .. PARTS + SPARE /\ SPARE >= 8
    BY Constants DEF Place
  <1>1. l \in Label /\ Begin(l) /\ ~ l.chip.wait
    BY QuietBegins DEF Starts
  <1>2. PICK pointer, page, block, b, n :
           pointer = "50" /\ page = r.page /\ block = r.block /\ b = "user" /\ n = SPARE
    OBVIOUS
  <1>3. Pack(page, block) = Addressed(r) /\ Pack(page, block) \in Target(r)
    BY <1>2 DEF Addressed, Target
  <1>4. ProgramWanted(r, l, pointer, page, block, b, n)
    BY <1>1, <1>2, <1>3 DEF ProgramWanted
  <1>5. PICK old : old = l.chip.cells[Addressed(r)]
    OBVIOUS
  <1>6. ASSUME NEW i \in Place
        PROVE  (IF pointer = "50" /\ i <= PARTS THEN Erased
                ELSE (IF b = "page" THEN l.chip.page ELSE l.chip.user)[IF pointer = "50" THEN i - PARTS ELSE i])
               = Image(r, old)[i]
    <2>1. Image(r, old)[i] = IF i <= PARTS THEN Erased ELSE r.data[(i - PARTS - 1) + 1]
      BY DEF Image
    <2>2. CASE i <= PARTS
      BY <1>2, <2>1, <2>2
    <2>3. CASE ~ (i <= PARTS)
      <3>1. i - PARTS \in 1 .. SPARE /\ (i - PARTS - 1) + 1 = i - PARTS
        BY <1>0, <2>3
      <3>2. l.chip.user[i - PARTS] = r.data[i - PARTS]
        BY <3>1
      <3>3. QED BY <1>2, <2>1, <2>3, <3>1, <3>2
    <2>4. QED BY <2>2, <2>3
  <1>7. PICK s : s = <<>>
    OBVIOUS
  <1>8. Leads(r, s, l, l)
    BY <1>1, <1>7, Nothing
  <1>9. PICK t : t = Program(pointer, page, block, b, n)
    OBVIOUS
  <1>10. Complete(r, l, s \o Program(pointer, page, block, b, n))
    BY <1>3, <1>4, <1>5, <1>6, <1>8, ProgramEnds
  <1>11. t \in Seq(Operation)
    <2>1. PICK m : ProgramGot(r, l, pointer, page, block, b, n, m)
      BY <1>4, ProgramLeads
    <2>2. QED BY <1>9, <2>1 DEF ProgramGot, Leads, Outline
  <1>12. s \o t = t
    BY <1>7, <1>11
  <1>13. QED BY <1>2, <1>9, <1>10, <1>12

(* What a computation leaves alone. *)
LEMMA ComputeKeeps ==
  ASSUME NEW c \in Ideal, NEW w, NEW n
  PROVE  LET d == AfterCompute(c, w, n) IN
         /\ d.area = c.area /\ d.op = c.op /\ d.cycles = c.cycles /\ d.cells = c.cells /\ d.wait = c.wait
         /\ d.reg = c.reg /\ d.col = c.col /\ (Still(c) => Still(d))
  BY DEF AfterCompute, Ideal, Still

(* The marker of a bad block is written. *)
LEMMA MarkComplete ==
  ASSUME NEW r, r.op = "mark", r.block \in Nat, NEW l, Starts(l)
  PROVE  Complete(r, l, MarkBad(r.block))
  <1>0. /\ PARTS \in Nat /\ SPARE \in Nat /\ PARTS = 2 /\ Place = 1 .. PARTS + SPARE /\ SPARE >= 8 /\ BBOFFSET = 5
        /\ BLOCKS \in Nat
    BY Constants DEF Place
  <1>1. l \in Label /\ Begin(l) /\ ~ l.chip.wait /\ Quiet(l) /\ Still(l.chip)
    BY QuietBegins DEF Starts
  <1>2. PICK w, k : w = "mark" /\ k = BBOFFSET + 1
    OBVIOUS
  <1>3. w \in Computation /\ k \in Nat /\ k \in Place /\ k = 6
    BY <1>0, <1>2 DEF Computation
  <1>4. CASE ~ (r.block < BLOCKS)
    <2>1. Computable(r, l, w, k)
      BY <1>1, <1>2, <1>3 DEF Computable, Begin
    <2>2. PICK x : Computed(r, l, w, k, x)
      BY <2>1, ComputeLeads
    <2>3. Starts(x)
      <3>1. l.chip \in Ideal
        BY <1>1 DEF Label
      <3>2. x \in Label /\ x.high = l.high /\ x.outputs = l.outputs /\ x.loose = l.loose
            /\ x.chip = AfterCompute(l.chip, w, k)
        BY <2>2 DEF Computed
      <3>3. Still(x.chip) /\ ~ x.chip.wait
        BY <1>1, <3>1, <3>2, ComputeKeeps
      <3>4. QED BY <1>1, <3>2, <3>3 DEF Starts, Quiet
    <2>4. PICK v \in Computation, n \in Nat : v = "invalid" /\ n = 0
      BY DEF Computation
    <2>5. Computable(r, x, v, n)
      BY <2>3, <2>4 DEF Computable, Starts, Quiet
    <2>6. PICK m : Computed(r, x, v, n, m)
      BY <2>5, ComputeLeads
    <2>7. PICK o, q, s : o = Compute(v, n) /\ q = Compute(w, k) /\ s = <<q>>
      OBVIOUS
    <2>8. m \in Label /\ o \in Operation /\ o.do = "invalid" /\ Leads(r, <<o>>, x, m)
      BY <2>4, <2>6, <2>7 DEF Computed
    <2>9. Leads(r, s, l, x) /\ q \in Operation
      BY <2>2, <2>7 DEF Computed
    <2>10. Leads(r, s \o <<o>>, l, m)
      BY <2>8, <2>9, Chain
    <2>11. s \in Seq(Operation)
      BY <2>7, <2>9
    <2>12. (s \o <<o>>)[Len(s \o <<o>>)] = o /\ s \o <<o>> # <<>>
      <3>1. (s \o <<o>>)[Len(s \o <<o>>)] = o
        BY <2>8, <2>11, LastOf
      <3>2. PICK a : a = <<o>>
        OBVIOUS
      <3>3. Len(s \o a) = Len(s) + 1 /\ Len(s) \in Nat
        BY <2>8, <2>11, <3>2, AppendedOne
      <3>4. s \o a # <<>>
        BY <3>3
      <3>5. QED BY <3>1, <3>2, <3>4
    <2>13. Complete(r, l, s \o <<o>>)
      BY <2>8, <2>10, <2>12 DEF Complete, Ends
    <2>14. MarkBad(r.block) = (<<>> \o <<Compute("mark", BBOFFSET + 1)>>) \o <<Compute("invalid", 0)>>
      BY <1>4 DEF MarkBad
    <2>15. <<>> \o s = s
      BY <2>11
    <2>16. QED BY <1>2, <2>4, <2>7, <2>13, <2>14, <2>15
  <1>5. CASE r.block < BLOCKS
    <2>1. PICK page, block, b, from, goOn :
             page = 0 /\ block = r.block /\ b = "user" /\ from = 0 /\ goOn = TRUE
      OBVIOUS
    <2>2. SpareWanted(r, l, page, block, b, from, goOn)
      <3>1. from \in 0 .. PARTS /\ page \in Nat /\ block \in Nat /\ b \in {"page", "user"}
        BY <1>0, <2>1
      <3>2. goOn \in BOOLEAN /\ goOn
        BY <2>1
      <3>3. QED BY <1>1, <3>1, <3>2 DEF SpareWanted
    <2>3. PICK x : SpareGot(r, l, page, block, b, from, goOn, x)
      BY <2>2, ReadSpareLeads
    <2>4. PICK s : s = ReadSpare(page, block, b, from, goOn)
      OBVIOUS
    <2>5. /\ x \in Label /\ x.high = Rest /\ x.outputs = Lines /\ x.known /\ Leads(r, s, l, x)
          /\ SpareRead(l.chip, Pack(page, block), b, from, x.chip)
      BY <2>3, <2>4 DEF SpareGot
    <2>6. Computable(r, x, w, k)
      <3>1. x.high \cup {"NCE"} = Rest
        BY <2>5 DEF Rest
      <3>2. QED BY <1>2, <1>3, <2>5, <3>1 DEF Computable
    <2>7. PICK y : Computed(r, x, w, k, y)
      BY <2>6, ComputeLeads
    <2>8. PICK q, t : q = Compute(w, k) /\ t = <<q>>
      OBVIOUS
    <2>9. Leads(r, t, x, y)
      BY <2>7, <2>8 DEF Computed
    <2>10. Leads(r, s \o t, l, y)
      BY <2>5, <2>9, Chain
    <2>11. PICK row \in Row : row = Pack(page, block)
      BY <2>2, PackTyped DEF SpareWanted
    <2>12. Addressed(r) = row /\ row \in Target(r)
      BY <2>1, <2>11 DEF Addressed, Target
    <2>13. y \in Label /\ Begin(y) /\ y.chip = AfterCompute(x.chip, w, k)
      <3>1. Rest \cup {"NCE"} = Rest
        BY DEF Rest
      <3>2. QED BY <2>5, <2>7, <3>1 DEF Computed, Begin
    <2>14. x.chip \in Ideal /\ l.chip \in Ideal
      BY <1>1, <2>5 DEF Label
    <2>15. ~ y.chip.wait /\ y.chip.cells = l.chip.cells
      BY <2>5, <2>13, <2>14, ComputeKeeps DEF SpareRead
    <2>16. PICK pointer, n : pointer = "50" /\ n = SPARE
      OBVIOUS
    <2>17. ProgramWanted(r, y, pointer, page, block, b, n)
      BY <2>2, <2>11, <2>12, <2>13, <2>15, <2>16 DEF ProgramWanted, SpareWanted
    <2>18. PICK old : old = l.chip.cells[row]
      OBVIOUS
    <2>19. y.chip.user = [x.chip.user EXCEPT ![k] = BadMark]
      BY <1>2, <2>13 DEF AfterCompute
    <2>20. x.chip.user = Filled(l.chip.user, old, 0, PARTS, SPARE)
      BY <2>1, <2>5, <2>11, <2>18 DEF SpareRead
    <2>21. ASSUME NEW i \in Place
           PROVE  (IF pointer = "50" /\ i <= PARTS THEN Erased
                   ELSE (IF b = "page" THEN y.chip.page ELSE y.chip.user)[IF pointer = "50" THEN i - PARTS ELSE i])
                  = Image(r, old)[i]
      <3>1. Image(r, old)[i] = IF i <= PARTS THEN Erased ELSE IF i - PARTS - 1 = BBOFFSET THEN BadMark ELSE old[i]
        BY DEF Image
      <3>2. CASE i <= PARTS
        BY <2>16, <3>1, <3>2
      <3>3. CASE ~ (i <= PARTS)
        <4>1. PICK j \in 1 .. SPARE : j = i - PARTS /\ PARTS + (j - 0) = i /\ j \in Place /\ j \in 0 + 1 .. 0 + SPARE
          BY <1>0, <3>3
        <4>2. x.chip.user[j] = old[i]
          BY <2>20, <4>1 DEF Filled
        <4>3. y.chip.user[j] = IF j = k THEN BadMark ELSE old[i]
          <5>1. x.chip.user \in [Place -> Value]
            BY <2>14 DEF Ideal, PageImage
          <5>2. QED BY <2>19, <4>1, <4>2, <5>1
        <4>4. (j = k) <=> (i - PARTS - 1 = BBOFFSET)
          BY <1>0, <1>2, <4>1
        <4>5. QED BY <2>1, <2>16, <3>1, <3>3, <4>1, <4>3, <4>4
      <3>4. QED BY <3>2, <3>3
    <2>22. Complete(r, l, (s \o t) \o Program(pointer, page, block, b, n))
      <3>1. r.op \notin {"open", "erase", "readspare", "read"}
        OBVIOUS
      <3>2. old = y.chip.cells[Addressed(r)] /\ old = l.chip.cells[Addressed(r)] /\ Pack(page, block) = Addressed(r)
        BY <2>11, <2>12, <2>15, <2>18
      <3>3. PICK u : u = s \o t
        OBVIOUS
      <3>4. Leads(r, u, l, y)
        BY <2>10, <3>3
      <3>5. Complete(r, l, u \o Program(pointer, page, block, b, n))
        BY <2>17, <2>21, <3>1, <3>2, <3>4, ProgramEnds
      <3>6. QED BY <3>3, <3>5
    <2>23. MarkBad(r.block) = (ReadSpare(0, r.block, "user", 0, TRUE) \o <<Compute("mark", BBOFFSET + 1)>>)
                              \o Program("50", 0, r.block, "user", SPARE)
      BY <1>5 DEF MarkBad
    <2>24. QED BY <1>2, <2>1, <2>4, <2>8, <2>16, <2>22, <2>23
  <1>6. QED BY <1>4, <1>5

(* The ECC bytes of the two parts of a page. *)
LEMMA EccOfIs ==
  ASSUME NEW row
  PROVE  /\ EccOf(row, 1) = <<Spare(row, 0), Spare(row, 1), Spare(row, 2)>>
         /\ EccOf(row, 2) = <<Spare(row, 3), Spare(row, 6), Spare(row, 7)>>
  <1>1. \A k \in 1 .. 3 : k = 1 \/ k = 2 \/ k = 3
    OBVIOUS
  <1>2. /\ 3 * (1 - 1) + 1 = 1 /\ 3 * (1 - 1) + 2 = 2 /\ 3 * (1 - 1) + 3 = 3
        /\ 3 * (2 - 1) + 1 = 4 /\ 3 * (2 - 1) + 2 = 5 /\ 3 * (2 - 1) + 3 = 6
    OBVIOUS
  <1>3. \A k \in 1 .. 3 : /\ EccOf(row, 1)[k] = row[PARTS + EccPlace(3 * (1 - 1) + k) + 1]
                          /\ EccOf(row, 2)[k] = row[PARTS + EccPlace(3 * (2 - 1) + k) + 1]
    BY DEF EccOf
  <1>4. /\ EccOf(row, 1)[1] = Spare(row, 0) /\ EccOf(row, 1)[2] = Spare(row, 1) /\ EccOf(row, 1)[3] = Spare(row, 2)
        /\ EccOf(row, 2)[1] = Spare(row, 3) /\ EccOf(row, 2)[2] = Spare(row, 6) /\ EccOf(row, 2)[3] = Spare(row, 7)
    <2>1. /\ row[PARTS + EccPlace(1) + 1] = Spare(row, 0) /\ row[PARTS + EccPlace(2) + 1] = Spare(row, 1)
          /\ row[PARTS + EccPlace(3) + 1] = Spare(row, 2) /\ row[PARTS + EccPlace(4) + 1] = Spare(row, 3)
          /\ row[PARTS + EccPlace(5) + 1] = Spare(row, 6) /\ row[PARTS + EccPlace(6) + 1] = Spare(row, 7)
      BY EccPlaces DEF Spare
    <2>2. 1 \in 1 .. 3 /\ 2 \in 1 .. 3 /\ 3 \in 1 .. 3
      OBVIOUS
    <2>3. QED BY <1>2, <1>3, <2>1, <2>2
  <1>5. \A p \in {1, 2} : EccOf(row, p) = [k \in 1 .. 3 |-> EccOf(row, p)[k]]
    BY DEF EccOf
  <1>6. ASSUME NEW f, f = [k \in 1 .. 3 |-> f[k]], NEW a, NEW b, NEW c, f[1] = a, f[2] = b, f[3] = c
        PROVE  f = <<a, b, c>>
    BY <1>6
  <1>7. QED BY <1>4, <1>5, <1>6

(* What is corrected agrees with its ECC, and differs by one bit at most. *)
LEMMA CorrectedIs ==
  ASSUME NEW v, NEW e, NEW f, f = Corrected(v, e), f # Junk
  PROVE  <<f, f, f>> = e /\ (f = v \/ <<v, f>> \in OneBit)
  <1>1. CASE e = <<v, v, v>>
    BY <1>1 DEF Corrected
  <1>2. CASE e # <<v, v, v>>
    <2>1. PICK w \in Value : <<v, w>> \in OneBit /\ e = <<w, w, w>>
      BY <1>2 DEF Corrected
    <2>2. f = e[1]
      BY <1>2, <2>1 DEF Corrected
    <2>3. QED BY <2>1, <2>2
  <1>3. QED BY <1>1, <1>2

(* One part of a page is corrected. *)
CorrectedTo(c, n, d) ==
  /\ d.page = [c.page EXCEPT ![n] = Corrected(c.page[n], EccOf(c.page, n))]
  /\ d.user = c.user /\ d.list = c.list
  /\ d.ok = (c.ok /\ ~ (Corrected(c.page[n], EccOf(c.page, n)) = Junk))
(* The ideal chip and buffers after a correction. *)
LEMMA CorrectIs ==
  ASSUME NEW c \in Ideal, NEW n \in 1 .. PARTS, NEW d, d = AfterCompute(c, "correct", n)
  PROVE  CorrectedTo(c, n, d)
  <1>1. PICK w : w = "correct"
    OBVIOUS
  <1>2. d = AfterCompute(c, w, n)
    BY <1>1
  <1>3. d.page = [c.page EXCEPT ![n] = Corrected(c.page[n], EccOf(c.page, n))]
    BY <1>1, <1>2 DEF AfterCompute, Ideal
  <1>4. d.user = c.user /\ d.list = c.list
    BY <1>1, <1>2 DEF AfterCompute, Ideal
  <1>5. d.ok = (c.ok /\ ~ (Corrected(c.page[n], EccOf(c.page, n)) = Junk))
    BY <1>1, <1>2 DEF AfterCompute, Ideal
  <1>6. QED BY <1>3, <1>4, <1>5 DEF CorrectedTo

(* The page that has been read is copied to the caller. *)
LEMMA CopyOutIs ==
  ASSUME NEW c \in Ideal, NEW n, NEW d, d = AfterCompute(c, "copyout", n)
  PROVE  /\ d.user = [i \in Place |-> IF i <= PARTS THEN c.page[i] ELSE c.user[i]]
         /\ d.ok = c.ok
  <1>1. PICK w : w = "copyout"
    OBVIOUS
  <1>2. d = AfterCompute(c, w, n)
    BY <1>1
  <1>3. d.user = [i \in Place |-> IF i <= PARTS THEN c.page[i] ELSE c.user[i]]
    BY <1>1, <1>2 DEF AfterCompute, Ideal
  <1>4. d.ok = c.ok
    BY <1>1, <1>2 DEF AfterCompute, Ideal
  <1>5. QED BY <1>3, <1>4

(* What the corrections and the copy make of a page. *)
LEMMA Corrections ==
  ASSUME NEW old \in PageImage, NEW c \in Ideal, c.page = old, NEW n1, n1 = 1, NEW n2, n2 = 2,
         NEW d \in Ideal, d = AfterCompute(c, "correct", n1),
         NEW e \in Ideal, e = AfterCompute(d, "correct", n2),
         NEW k, NEW f \in Ideal, f = AfterCompute(e, "copyout", k), f.ok
  PROVE  /\ <<f.user[1], f.user[1], f.user[1]>> = <<Spare(old, 0), Spare(old, 1), Spare(old, 2)>>
         /\ <<f.user[2], f.user[2], f.user[2]>> = <<Spare(old, 3), Spare(old, 6), Spare(old, 7)>>
         /\ \A i \in 1 .. 2 : f.user[i] = old[i] \/ <<old[i], f.user[i]>> \in OneBit
  <1>0. PARTS = 2 /\ n1 \in 1 .. PARTS /\ n2 \in 1 .. PARTS /\ n1 \in Place /\ n2 \in Place
    BY Constants
  <1>1. PICK a : a = Corrected(old[1], EccOf(old, 1))
    OBVIOUS
  <1>14. CorrectedTo(c, n1, d) /\ CorrectedTo(d, n2, e)
    BY <1>0, CorrectIs
  <1>2. d.page = [old EXCEPT ![1] = a] /\ (d.ok => ~ (a = Junk))
    BY <1>1, <1>14 DEF CorrectedTo
  <1>3. old \in [Place -> Value] /\ 1 \in Place /\ 2 \in Place
    BY <1>0 DEF PageImage
  <1>4. d.page[2] = old[2] /\ d.page[1] = a
    <2>1. PICK g : g = [old EXCEPT ![1] = a]
      OBVIOUS
    <2>2. g[1] = a /\ g[2] = old[2]
      BY <1>3, <2>1
    <2>3. QED BY <1>2, <2>1, <2>2
  <1>5. EccOf(d.page, 2) = EccOf(old, 2)
    <2>1. \A s \in {3, 6, 7} : Spare(d.page, s) = Spare(old, s)
      <3>1. \A s \in {3, 6, 7} : PARTS + s + 1 \in Place /\ PARTS + s + 1 # 1
        BY <1>0, Constants
      <3>2. QED BY <1>2, <1>3, <3>1 DEF Spare
    <2>2. QED BY <2>1, EccOfIs
  <1>6. PICK b : b = Corrected(old[2], EccOf(old, 2))
    OBVIOUS
  <1>7. e.page = [d.page EXCEPT ![2] = b] /\ (e.ok => d.ok /\ ~ (b = Junk))
    <2>1. Corrected(d.page[2], EccOf(d.page, 2)) = b
      BY <1>4, <1>5, <1>6
    <2>2. QED BY <1>14, <2>1 DEF CorrectedTo
  <1>8. f.user = [i \in Place |-> IF i <= PARTS THEN e.page[i] ELSE e.user[i]] /\ f.ok = e.ok
    BY CopyOutIs
  <1>9. a # Junk /\ b # Junk
    BY <1>2, <1>7, <1>8
  <1>10. f.user[1] = a /\ f.user[2] = b
    <2>1. d.page \in [Place -> Value]
      BY DEF Ideal, PageImage
    <2>2. e.page[1] = a /\ e.page[2] = b
      BY <1>0, <1>4, <1>7, <2>1
    <2>3. QED BY <1>0, <1>8, <2>2
  <1>11. /\ <<a, a, a>> = EccOf(old, 1) /\ (a = old[1] \/ <<old[1], a>> \in OneBit)
         /\ <<b, b, b>> = EccOf(old, 2) /\ (b = old[2] \/ <<old[2], b>> \in OneBit)
    BY <1>1, <1>6, <1>9, CorrectedIs
  <1>12. \A i \in 1 .. 2 : i = 1 \/ i = 2
    OBVIOUS
  <1>13. QED BY <1>10, <1>11, <1>12, EccOfIs

(* Only the buffers differ after a computation, so that the next one may follow. *)
Between(l) == l \in Label /\ l.outputs = Lines /\ l.high = Rest /\ ~ l.loose /\ Still(l.chip)
(* Between two routines the driver may work on its buffers. *)
LEMMA StepBetween ==
  ASSUME NEW r, NEW l, Between(l), NEW w \in Computation, NEW n \in Nat,
         w = "correct" => n \in 1 .. PARTS /\ r.op = "read", w = "list" => n \in Block, w = "mark" => n \in Place
  PROVE  \E m : Computed(r, l, w, n, m) /\ Between(m)
  <1>1. Rest \cup {"NCE"} = Rest
    BY DEF Rest
  <1>2. Computable(r, l, w, n)
    BY <1>1 DEF Computable, Between, Quiet
  <1>3. PICK m : Computed(r, l, w, n, m)
    BY <1>2, ComputeLeads
  <1>4. l.chip \in Ideal
    BY DEF Between, Label
  <1>5. m \in Label /\ m.high = l.high /\ m.outputs = l.outputs /\ m.loose = l.loose
        /\ m.chip = AfterCompute(l.chip, w, n)
    BY <1>3 DEF Computed
  <1>6. Still(m.chip)
    BY <1>4, <1>5, ComputeKeeps DEF Between
  <1>7. QED BY <1>3, <1>5, <1>6 DEF Between

(* Between two routines the chip is at rest. *)
LEMMA BetweenRests ==
  ASSUME NEW l, Between(l)
  PROVE  AtRest(l) /\ Quiet(l) /\ Begin(l) /\ l \in Label /\ l.chip \in Ideal
  <1>1. Rest \cup {"NCE"} = Rest /\ "NCE" \in Rest
    BY DEF Rest
  <1>2. QED BY <1>1 DEF Between, AtRest, Quiet, Begin, Label

(* A page is read, corrected and copied to the caller. *)
LEMMA ReadComplete ==
  ASSUME NEW r, r.op = "read", r.block \in Nat, r.page \in Nat, NEW l, Starts(l)
  PROVE  Complete(r, l, ReadPage(r.page, r.block))
  <1>0. PARTS \in Nat /\ SPARE \in Nat /\ PARTS = 2 /\ Place = 1 .. PARTS + SPARE /\ SPARE >= 8
    BY Constants DEF Place
  <1>1. l \in Label /\ Begin(l) /\ ~ l.chip.wait
    BY QuietBegins DEF Starts
  <1>2. PICK page \in Nat, block \in Nat : page = r.page /\ block = r.block
    OBVIOUS
  <1>3. PICK row \in Row : row = Pack(page, block)
    BY PackTyped
  <1>4. PICK k \in {"00", "50"} : k = "00"
    OBVIOUS
  <1>5. PICK x \in Label :
          /\ Selecting(x) /\ x.known /\ Buffers(l.chip, x.chip) /\ x.chip.cells = l.chip.cells
          /\ x.chip.wait /\ x.chip.op = "read" /\ Len(x.chip.cycles) = 4 /\ x.chip.reg = l.chip.cells[row]
          /\ x.chip.col = (IF k = "00" THEN 0 ELSE PARTS)
          /\ Leads(r, <<Clear("NCE")>> \o Cmd(k) \o Ale(0) \o RowCycles(row), l, x)
    BY <1>1, ReadRowLeads
  <1>6. PICK s : s = (<<Clear("NCE")>> \o Cmd(k) \o Ale(0) \o RowCycles(row))
    OBVIOUS
  <1>7. PICK skip, b, from, n : skip = 0 /\ b = "page" /\ from = 0 /\ n = PARTS + SPARE
    OBVIOUS
  <1>8. Loaded(r, x, skip, b, from, n)
    <2>1. skip \in Nat /\ b \in {"page", "user"} /\ from \in Nat /\ n \in Nat /\ from + n <= PARTS + SPARE
      BY <1>0, <1>7
    <2>2. x.chip.col \in Nat /\ x.chip.col + n <= PARTS + SPARE
      BY <1>0, <1>4, <1>5, <1>7
    <2>3. QED BY <1>5, <2>1, <2>2 DEF Loaded
  <1>9. PICK o \in Operation, y \in Label, bytes \in Seq(Operation), p \in Operation, z \in Label :
          /\ o = Wait(FALSE, skip) /\ o.do = "wait" /\ o.skip = skip /\ Allowed(r, o, x) /\ y = After(o, x)
          /\ bytes = ReadBytes(b, from, n) /\ p = Set("NCE")
          /\ Unloaded(x, skip, b, from, n, z) /\ Leads(r, bytes \o <<p>>, y, z)
    <2>1. Unloading(r, x, skip, b, from, n)
      BY <1>8, BytesLeads
    <2>2. QED BY <2>1 DEF Unloading
  <1>10. PICK w, q : w = <<o>> /\ q = <<p>>
    OBVIOUS
  <1>11. s \in Seq(Operation) /\ w \in Seq(Operation) /\ q \in Seq(Operation)
    <2>1. Leads(r, s, l, x)
      BY <1>5, <1>6
    <2>2. s \in Seq(Operation)
      BY <2>1 DEF Leads, Outline
    <2>3. QED BY <1>10, <2>2
  <1>12. Leads(r, s \o (w \o (bytes \o q)), l, z)
    <2>1. Leads(r, w, x, y)
      BY <1>7, <1>9, <1>10, Single
    <2>2. Leads(r, w \o (bytes \o q), x, z)
      BY <1>9, <1>10, <2>1, Chain
    <2>3. QED BY <1>5, <1>6, <2>2, Chain
  <1>13. Between(z)
    <2>1. z.loose \in BOOLEAN
      BY DEF Label
    <2>2. QED BY <1>7, <1>9, <2>1 DEF Unloaded, Between
  <1>14. PICK old \in PageImage : old = l.chip.cells[row]
    BY <1>1 DEF Label, Ideal
  <1>15. z.chip.page = old
    <2>1. z.chip.page = Filled(x.chip.page, old, 0, x.chip.col, n)
      BY <1>5, <1>7, <1>9, <1>14 DEF Unloaded
    <2>2. x.chip.col = 0
      BY <1>4, <1>5
    <2>3. \A i \in Place : i \in 0 + 1 .. 0 + n /\ 0 + (i - 0) = i
      BY <1>0, <1>7
    <2>4. z.chip.page = [i \in Place |-> old[i]]
      BY <2>1, <2>2, <2>3 DEF Filled
    <2>5. QED BY <2>4 DEF PageImage
  <1>16. PICK v \in Computation, u \in Computation, n1 \in Nat, n2 \in Nat, n3 \in Nat :
           v = "correct" /\ u = "copyout" /\ n1 = 1 /\ n2 = 2 /\ n3 = 0
    BY DEF Computation
  <1>17. PICK z1 : Computed(r, z, v, n1, z1) /\ Between(z1)
    BY <1>0, <1>13, <1>16, StepBetween
  <1>18. PICK z2 : Computed(r, z1, v, n2, z2) /\ Between(z2)
    BY <1>0, <1>16, <1>17, StepBetween
  <1>19. PICK m : Computed(r, z2, u, n3, m) /\ Between(m)
    BY <1>0, <1>16, <1>18, StepBetween
  <1>20. PICK c1, c2, c3 : c1 = Compute(v, n1) /\ c2 = Compute(v, n2) /\ c3 = Compute(u, n3)
    OBVIOUS
  <1>21. /\ c1 \in Operation /\ c2 \in Operation /\ c3 \in Operation
         /\ Leads(r, <<c1>>, z, z1) /\ Leads(r, <<c2>>, z1, z2) /\ Leads(r, <<c3>>, z2, m)
         /\ z1.chip = AfterCompute(z.chip, v, n1) /\ z2.chip = AfterCompute(z1.chip, v, n2)
         /\ m.chip = AfterCompute(z2.chip, u, n3)
    BY <1>17, <1>18, <1>19, <1>20 DEF Computed
  <1>22. PICK f, g : f = <<c1>> \o <<c2>> /\ g = <<c3>>
    OBVIOUS
  <1>23. Leads(r, f, z, z2) /\ Leads(r, g, z2, m)
    BY <1>21, <1>22, Chain
  <1>24. f = [i \in 1 .. PARTS |-> Compute("correct", i)]
    <2>8. PICK a, b2 : a = <<c1>> /\ b2 = <<c2>>
      OBVIOUS
    <2>1. a = <<c1>> /\ b2 = <<c2>> /\ a \in Seq(Operation) /\ Len(a) = 1 /\ a[1] = c1
      <3>1. c1 \in Operation
        BY <1>21
      <3>2. QED BY <2>8, <3>1
    <2>2. f \in Seq(Operation) /\ Len(f) = 2 /\ f[1] = c1 /\ f[2] = c2
      <3>1. /\ a \o b2 \in Seq(Operation) /\ Len(a \o b2) = Len(a) + 1
            /\ \A i \in 1 .. Len(a) : (a \o b2)[i] = a[i]
            /\ (a \o b2)[Len(a) + 1] = c2
        BY <1>21, <2>1, AppendedOne
      <3>2. QED BY <1>22, <2>1, <3>1
    <2>3. PICK t : t = [i \in 1 .. PARTS |-> Compute("correct", i)]
      OBVIOUS
    <2>4. t[1] = c1 /\ t[2] = c2 /\ \A i \in 1 .. 2 : i = 1 \/ i = 2
      BY <1>0, <1>16, <1>20, <2>3
    <2>5. t \in Seq(Operation) /\ Len(t) = 2
      <3>1. \A i \in 1 .. PARTS : t[i] \in Operation
        BY <1>0, <1>21, <2>4
      <3>2. t = [i \in 1 .. PARTS |-> t[i]]
        BY <2>3
      <3>3. QED BY <1>0, <3>1, <3>2
    <2>6. f = t
      BY <2>2, <2>4, <2>5, SameSeq
    <2>7. QED BY <2>3, <2>6
  <1>25. f \in Seq(Operation) /\ g \in Seq(Operation)
    BY <1>21, <1>22
  <1>26. PICK a : a = s \o (w \o (bytes \o q))
    OBVIOUS
  <1>27. Leads(r, (a \o f) \o g, l, m)
    <2>1. Leads(r, a \o f, l, z2)
      BY <1>12, <1>23, <1>26, Chain
    <2>2. QED BY <1>23, <2>1, Chain
  <1>28. ReadPage(r.page, r.block) = (a \o f) \o g
    <2>1. ReadPage(r.page, r.block) = ((((s \o w) \o bytes) \o q) \o f) \o g
      BY <1>2, <1>3, <1>4, <1>6, <1>7, <1>9, <1>10, <1>16, <1>20, <1>22, <1>24 DEF ReadPage
    <2>2. ((s \o w) \o bytes) \o q = a
      <3>1. s \in Seq(Operation) /\ w \in Seq(Operation) /\ bytes \in Seq(Operation) /\ q \in Seq(Operation)
        BY <1>9, <1>11
      <3>2. ((s \o w) \o bytes) \o q = s \o (w \o (bytes \o q))
        BY <3>1, SMTT(60)
      <3>3. QED BY <1>26, <3>2
    <2>3. QED BY <2>1, <2>2
  <1>29. Addressed(r) = row
    BY <1>2, <1>3 DEF Addressed
  <1>30. ASSUME m.chip.ok PROVE Result(r, l.chip.cells, m.chip)
    <2>1. z.chip \in Ideal /\ z1.chip \in Ideal /\ z2.chip \in Ideal /\ m.chip \in Ideal
      BY <1>13, <1>17, <1>18, <1>19, BetweenRests
    <2>2. PICK c, d, e, h : c = z.chip /\ d = z1.chip /\ e = z2.chip /\ h = m.chip
      OBVIOUS
    <2>3. /\ old \in PageImage /\ c \in Ideal /\ c.page = old /\ d \in Ideal /\ e \in Ideal /\ h \in Ideal /\ h.ok
          /\ d = AfterCompute(c, "correct", n1) /\ e = AfterCompute(d, "correct", n2)
             /\ h = AfterCompute(e, "copyout", n3)
      BY <1>15, <1>16, <1>21, <1>30, <2>1, <2>2
    <2>4. /\ <<h.user[1], h.user[1], h.user[1]>> = <<Spare(old, 0), Spare(old, 1), Spare(old, 2)>>
          /\ <<h.user[2], h.user[2], h.user[2]>> = <<Spare(old, 3), Spare(old, 6), Spare(old, 7)>>
          /\ \A i \in 1 .. 2 : h.user[i] = old[i] \/ <<old[i], h.user[i]>> \in OneBit
      BY <1>16, <2>3, Corrections
    <2>5. QED BY <1>14, <1>29, <2>2, <2>4 DEF Result
  <1>31. AtRest(m) /\ m \in Label
    BY <1>19, BetweenRests
  <1>32. QED BY <1>27, <1>28, <1>30, <1>31 DEF Complete, Ends

(* What the buffers hold when a page is written. *)
LEMMA CopyInIs ==
  ASSUME NEW c \in Ideal, NEW n, NEW d, d = AfterCompute(c, "copyin", n)
  PROVE  d.page = [i \in Place |-> IF i <= PARTS THEN c.user[i] ELSE c.page[i]]
  <1>1. PICK w : w = "copyin"
    OBVIOUS
  <1>2. d = AfterCompute(c, w, n)
    BY <1>1
  <1>3. QED BY <1>1, <1>2 DEF AfterCompute, Ideal

(* The page buffer after the code has been computed. *)
LEMMA EccIs ==
  ASSUME NEW c \in Ideal, NEW n, NEW d, d = AfterCompute(c, "ecc", n)
  PROVE  d.page = WithEcc(c.page)
  <1>1. PICK w : w = "ecc"
    OBVIOUS
  <1>2. d = AfterCompute(c, w, n)
    BY <1>1
  <1>3. QED BY <1>1, <1>2 DEF AfterCompute, Ideal

(* The buffer that is programmed is the image of the call. *)
LEMMA WrittenImage ==
  ASSUME NEW r, r.op = "write", NEW old, NEW a \in PageImage, \A i \in 1 .. PARTS : a[i] = r.data[i],
         \A i \in Place : i > PARTS => a[i] = old[i], NEW i \in Place
  PROVE  WithEcc(a)[i] = Image(r, old)[i]
  <1>0. PARTS = 2 /\ Place \subseteq Nat
    BY Constants
  <1>1. PICK s : s = i - PARTS - 1
    OBVIOUS
  <1>2. WithEcc(a)[i] = IF s \in {0, 1, 2} THEN a[1] ELSE IF s \in {3, 6, 7} THEN a[2] ELSE a[i]
    BY <1>1, WithEccIs
  <1>3. Image(r, old)[i] = IF i <= PARTS THEN r.data[i] ELSE IF s \in {0, 1, 2} THEN r.data[1]
                           ELSE IF s \in {3, 6, 7} THEN r.data[2] ELSE old[i]
    BY <1>1 DEF Image
  <1>4. a[1] = r.data[1] /\ a[2] = r.data[2]
    BY <1>0
  <1>5. CASE i <= PARTS
    <2>1. s \notin {0, 1, 2} /\ s \notin {3, 6, 7} /\ i \in 1 .. PARTS
      BY <1>0, <1>1, <1>5 DEF Place
    <2>2. QED BY <1>2, <1>3, <1>5, <2>1
  <1>6. CASE ~ (i <= PARTS)
    <2>1. a[i] = old[i]
      BY <1>0, <1>6
    <2>2. QED BY <1>2, <1>3, <1>4, <1>6, <2>1
  <1>7. QED BY <1>5, <1>6

(* A page is written, with the ECC of its data and the rest of its spare area. *)
LEMMA WriteComplete ==
  ASSUME NEW r, r.op = "write", r.block \in Nat, r.page \in Nat, NEW l, Starts(l),
         \A i \in 1 .. PARTS : l.chip.user[i] = r.data[i]
  PROVE  Complete(r, l, WritePage(r.page, r.block))
  <1>0. PARTS \in Nat /\ SPARE \in Nat /\ PARTS = 2 /\ Place = 1 .. PARTS + SPARE /\ SPARE >= 8
    BY Constants DEF Place
  <1>1. l \in Label /\ Begin(l) /\ ~ l.chip.wait
    BY QuietBegins DEF Starts
  <1>2. PICK w \in Computation, u \in Computation, n0 \in Nat : w = "copyin" /\ u = "ecc" /\ n0 = 0
    BY DEF Computation
  <1>3. PICK x : Computed(r, l, w, n0, x)
    <2>1. Computable(r, l, w, n0)
      BY <1>1, <1>2 DEF Computable, Begin
    <2>2. QED BY <2>1, ComputeLeads
  <1>4. PICK c1, a1 : c1 = Compute(w, n0) /\ a1 = <<c1>>
    OBVIOUS
  <1>5. /\ x \in Label /\ x.high = l.high /\ x.outputs = l.outputs /\ x.chip = AfterCompute(l.chip, w, n0)
        /\ Leads(r, a1, l, x)
    BY <1>3, <1>4 DEF Computed
  <1>6. l.chip \in Ideal /\ x.chip \in Ideal
    BY <1>1, <1>5 DEF Label
  <1>7. Begin(x) /\ ~ x.chip.wait /\ x.chip.cells = l.chip.cells
    BY <1>1, <1>5, <1>6, ComputeKeeps DEF Begin
  <1>8. PICK page, block, b, from, goOn :
           page = r.page /\ block = r.block /\ b = "page" /\ from = PARTS /\ goOn = FALSE
    OBVIOUS
  <1>9. SpareWanted(r, x, page, block, b, from, goOn)
    <2>1. from \in 0 .. PARTS /\ page \in Nat /\ block \in Nat /\ b \in {"page", "user"}
      BY <1>0, <1>8
    <2>2. goOn \in BOOLEAN
      BY <1>8
    <2>3. r.op \in {"open", "read", "readspare", "write"}
      OBVIOUS
    <2>4. QED BY <1>5, <1>7, <2>1, <2>2, <2>3 DEF SpareWanted
  <1>10. PICK y : SpareGot(r, x, page, block, b, from, goOn, y)
    BY <1>9, ReadSpareLeads
  <1>11. PICK a2 : a2 = ReadSpare(page, block, b, from, goOn)
    OBVIOUS
  <1>12. /\ y \in Label /\ y.high = Rest /\ y.outputs = Lines /\ Leads(r, a2, x, y)
         /\ SpareRead(x.chip, Pack(page, block), b, from, y.chip)
    BY <1>10, <1>11 DEF SpareGot
  <1>13. ~ y.loose
    <2>1. y.loose = goOn
      BY <1>10 DEF SpareGot
    <2>2. QED BY <1>8, <2>1
  <1>14. Between(y)
    BY <1>12, <1>13 DEF Between, SpareRead
  <1>15. PICK z : Computed(r, y, u, n0, z) /\ Between(z)
    BY <1>2, <1>14, StepBetween
  <1>16. PICK c3, a3 : c3 = Compute(u, n0) /\ a3 = <<c3>>
    OBVIOUS
  <1>17. z \in Label /\ z.chip = AfterCompute(y.chip, u, n0) /\ Leads(r, a3, y, z)
    BY <1>15, <1>16 DEF Computed
  <1>18. y.chip \in Ideal
    BY <1>12 DEF Label
  <1>19. Begin(z) /\ ~ z.chip.wait /\ z.chip.cells = l.chip.cells
    <2>1. ~ y.chip.wait /\ y.chip.cells = l.chip.cells
      BY <1>7, <1>12 DEF SpareRead
    <2>2. ~ z.chip.wait /\ z.chip.cells = l.chip.cells
      BY <1>17, <1>18, <2>1, ComputeKeeps
    <2>3. QED BY <1>15, <2>2, BetweenRests
  <1>20. PICK row \in Row : row = Pack(page, block)
    BY <1>9, PackTyped DEF SpareWanted
  <1>21. Addressed(r) = row /\ row \in Target(r)
    BY <1>8, <1>20 DEF Addressed, Target
  <1>22. PICK old : old = l.chip.cells[row]
    OBVIOUS
  <1>23. PICK a \in PageImage : a = y.chip.page
    BY <1>18 DEF Ideal
  <1>24. a = Filled(x.chip.page, old, PARTS, PARTS, SPARE)
    BY <1>7, <1>8, <1>12, <1>20, <1>22, <1>23 DEF SpareRead
  <1>25. \A i \in Place : i > PARTS => a[i] = old[i]
    <2>1. \A i \in Place : i > PARTS => i \in PARTS + 1 .. PARTS + SPARE /\ PARTS + (i - PARTS) = i
      BY <1>0
    <2>2. QED BY <1>24, <2>1 DEF Filled
  <1>26. \A i \in 1 .. PARTS : a[i] = r.data[i]
    <2>1. \A i \in 1 .. PARTS : i \notin PARTS + 1 .. PARTS + SPARE /\ i <= PARTS /\ i \in Place
      BY <1>0
    <2>2. x.chip.page = [i \in Place |-> IF i <= PARTS THEN l.chip.user[i] ELSE l.chip.page[i]]
      BY <1>2, <1>5, <1>6, CopyInIs
    <2>3. QED BY <1>24, <2>1, <2>2 DEF Filled
  <1>27. z.chip.page = WithEcc(a)
    BY <1>2, <1>17, <1>18, <1>23, EccIs
  <1>28. PICK pointer, n : pointer = "00" /\ n = PARTS + SPARE
    OBVIOUS
  <1>29. ProgramWanted(r, z, pointer, page, block, b, n)
    BY <1>9, <1>17, <1>19, <1>20, <1>21, <1>28 DEF ProgramWanted, SpareWanted
  <1>30. ASSUME NEW i \in Place
         PROVE  (IF pointer = "50" /\ i <= PARTS THEN Erased
                 ELSE (IF b = "page" THEN z.chip.page ELSE z.chip.user)[IF pointer = "50" THEN i - PARTS ELSE i])
                = Image(r, old)[i]
    <2>1. WithEcc(a)[i] = Image(r, old)[i]
      BY <1>25, <1>26, WrittenImage
    <2>2. QED BY <1>8, <1>27, <1>28, <2>1
  <1>31. PICK s : s = (a1 \o a2) \o a3
    OBVIOUS
  <1>32. Leads(r, s, l, z)
    <2>1. Leads(r, a1 \o a2, l, y)
      BY <1>5, <1>12, Chain
    <2>2. QED BY <1>17, <1>31, <2>1, Chain
  <1>33. Complete(r, l, s \o Program(pointer, page, block, b, n))
    <2>1. r.op \notin {"open", "erase", "readspare", "read"}
      OBVIOUS
    <2>2. old = z.chip.cells[Addressed(r)] /\ old = l.chip.cells[Addressed(r)] /\ Pack(page, block) = Addressed(r)
      BY <1>19, <1>20, <1>21, <1>22
    <2>3. QED BY <1>29, <1>30, <1>32, <2>1, <2>2, ProgramEnds
  <1>34. WritePage(r.page, r.block) = s \o Program(pointer, page, block, b, n)
    BY <1>2, <1>4, <1>8, <1>11, <1>16, <1>28, <1>31 DEF WritePage
  <1>35. QED BY <1>33, <1>34

(* The pins before and while they are configured. *)
Wired(l) ==
  /\ l \in Label /\ ~ l.loose
  /\ \/ l.outputs = Lines /\ l.high \cup {"NCE"} = Rest
     \/ l.high = {} /\ ("NCE" \in l.outputs => "NWE" \in l.outputs)
(* While the pins are being wired the bus is never driven from both sides. *)
LEMMA WiredSafe ==
  ASSUME NEW l, Wired(l)
  PROVE  SafePins(l)
  <1>1. CASE l.outputs = Lines /\ l.high \cup {"NCE"} = Rest
    <2>1. "NRE" \in l.high /\ "NRE" \in l.outputs
      BY <1>1 DEF Rest, Lines, Pins
    <2>2. QED BY <2>1 DEF SafePins, IsLow
  <1>2. CASE l.high = {} /\ ("NCE" \in l.outputs => "NWE" \in l.outputs)
    BY <1>2 DEF SafePins, Selected, IsLow, Pulled, Wired
  <1>3. QED BY <1>1, <1>2 DEF Wired

(* Pins are made outputs, write enable before chip enable. *)
Driven(l, s) == l.outputs \cup {p \in Lines : \E j \in 1 .. Len(s) : s[j] = Out(p)}
Configures(l, s) ==
  /\ Wired(l) /\ s \in Seq(Operation)
  /\ \A j \in 1 .. Len(s) : \/ s[j] = In("BSY")
                            \/ \E p \in Lines : s[j] = Out(p) /\ (p = "NCE" => "NWE" \in l.outputs)
(* Turning lines to output one after another. *)
LEMMA DriveLeads ==
  ASSUME NEW r, NEW l, NEW s, Configures(l, s)
  PROVE  \E m : Wired(m) /\ m = [l EXCEPT !.outputs = Driven(l, s)] /\ Leads(r, s, l, m)
  <1> DEFINE n == Len(s)
             O(i) == l.outputs \cup {p \in Lines : \E j \in 1 .. i : s[j] = Out(p)}
             st == [i \in 0 .. n |-> [l EXCEPT !.outputs = O(i)]]
  <1>1. l \in Label /\ Wired(l) /\ s \in Seq(Operation) /\ n \in Nat /\ l.outputs \subseteq Lines
    BY DEF Configures, Wired, Label
  <1>2. ASSUME NEW i \in 0 .. n
        PROVE  st[i] \in Label /\ Wired(st[i])
    <2>1. PICK o : o = O(i)
      OBVIOUS
    <2>2. o \subseteq Lines
      BY <1>1, <2>1
    <2>3. PICK m : m = [l EXCEPT !.outputs = o]
      OBVIOUS
    <2>4. m \in Label /\ m.high = l.high /\ m.loose = l.loose /\ m.outputs = o
      BY <1>1, <2>2, <2>3 DEF Label
    <2>5. l.outputs \subseteq o
      BY <2>1
    <2>6. l.outputs = Lines => o = Lines
      BY <2>2, <2>5
    <2>7. ("NCE" \in o /\ "NCE" \notin l.outputs) => "NWE" \in l.outputs
      <3>1. ASSUME "NCE" \in o, "NCE" \notin l.outputs PROVE "NWE" \in l.outputs
        <4>1. PICK j \in 1 .. i : s[j] = Out("NCE")
          BY <2>1, <3>1
        <4>2. j \in 1 .. n
          BY <1>1
        <4>3. Out("NCE") # In("BSY") /\ \A p : Out(p) = Out("NCE") => p = "NCE"
          BY DEF Out, In
        <4>4. QED BY <4>1, <4>2, <4>3 DEF Configures
      <3>2. QED BY <3>1
    <2>8. Wired(m)
      BY <1>1, <2>4, <2>5, <2>6, <2>7 DEF Wired
    <2>9. QED BY <2>1, <2>3, <2>4, <2>8
  <1>3. \A i \in 0 .. n : st[i] = [l EXCEPT !.outputs = O(i)]
    OBVIOUS
  <1>4. st \in [0 .. n -> Label]
    BY <1>2
  <1> HIDE DEF st
  <1>5. ASSUME NEW i \in 1 .. n
        PROVE  /\ Allowed(r, s[i], st[i - 1]) /\ st[i] = After(s[i], st[i - 1]) /\ s[i].do # "wait"
    <2>1. i - 1 \in 0 .. n /\ i \in 0 .. n
      BY <1>1
    <2>2. SafePins(st[i - 1])
      BY <1>2, <2>1, WiredSafe
    <2>3. PICK a, o : a = O(i - 1) /\ o = O(i)
      OBVIOUS
    <2>4. PICK x \in Label, y \in Label : x = st[i - 1] /\ y = st[i]
      BY <1>2, <2>1
    <2>5. x = [l EXCEPT !.outputs = a] /\ y = [l EXCEPT !.outputs = o]
      BY <1>3, <2>1, <2>3, <2>4
    <2>6. a \subseteq Lines
      BY <1>1, <2>3
    <2>7. y = [x EXCEPT !.outputs = o] /\ x.outputs = a
      BY <1>1, <2>5 DEF Label
    <2>8. \A j \in 1 .. i : j = i \/ j \in 1 .. i - 1
      BY <1>1
    <2>9. \A j \in 1 .. i - 1 : j \in 1 .. i
      BY <1>1
    <2>10. CASE s[i] = In("BSY")
      <3>1. s[i].do = "in" /\ s[i].pin = "BSY" /\ \A p : s[i] # Out(p)
        BY <2>10 DEF In, Out
      <3>2. o = a
        BY <2>3, <2>8, <2>9, <3>1
      <3>3. "BSY" \notin Lines
        BY DEF Lines, Pins
      <3>4. x.outputs \ {"BSY"} = o
        BY <2>6, <2>7, <3>2, <3>3
      <3>5. y = After(s[i], x)
        BY <2>7, <3>1, <3>4 DEF After
      <3>6. Allowed(r, s[i], x)
        BY <2>2, <2>4, <3>1 DEF Allowed
      <3>7. QED BY <2>4, <3>1, <3>5, <3>6
    <2>11. CASE \E p \in Lines : s[i] = Out(p)
      <3>0. PICK p \in Lines : s[i] = Out(p)
        BY <2>11
      <3>1. s[i].do = "out" /\ s[i].pin = p /\ \A q : s[i] = Out(q) => q = p
        BY <3>0 DEF Out
      <3>2. o = a \cup {p}
        <4>1. i \in 1 .. i
          BY <1>1
        <4>2. QED BY <2>3, <2>8, <2>9, <3>0, <3>1, <4>1
      <3>5. y = After(s[i], x)
        BY <2>7, <3>1, <3>2 DEF After
      <3>6. Allowed(r, s[i], x)
        BY <2>2, <2>4, <3>1 DEF Allowed
      <3>7. QED BY <2>4, <3>1, <3>5, <3>6
    <2>12. QED BY <2>10, <2>11 DEF Configures
  <1>6. Outline(r, s, st)
    BY <1>1, <1>4, <1>5 DEF Outline
  <1>7. st[0] = l
    <2>1. O(0) = l.outputs
      <3>1. 1 .. 0 = {}
        OBVIOUS
      <3>2. QED BY <3>1
    <2>2. 0 \in 0 .. n
      BY <1>1
    <2>3. QED BY <1>1, <1>3, <2>1, <2>2 DEF Label
  <1>8. PICK m : m = st[n]
    OBVIOUS
  <1>9. n \in 0 .. n
    BY <1>1
  <1>10. Wired(m) /\ m = [l EXCEPT !.outputs = Driven(l, s)]
    BY <1>2, <1>3, <1>8, <1>9 DEF Driven
  <1>11. Leads(r, s, l, m)
    BY <1>6, <1>7, <1>8 DEF Leads
  <1>12. QED BY <1>10, <1>11

(* The two rounds of configuration leave every line driven. *)
LEMMA ConfigureLeads ==
  ASSUME NEW r, NEW l, Wired(l)
  PROVE  \E m : /\ Wired(m) /\ m.outputs = Lines /\ m.high = l.high /\ m.chip = l.chip
                /\ Leads(r, <<Out("bus"), Out("CLE"), Out("ALE"), Out("NWE"), In("BSY")>>
                            \o <<Out("CLE"), Out("NCE"), Out("NWE"), Out("ALE"), Out("NRE"), Out("bus")>>, l, m)
  <1> DEFINE s == <<Out("bus"), Out("CLE"), Out("ALE"), Out("NWE"), In("BSY")>>
             t == <<Out("CLE"), Out("NCE"), Out("NWE"), Out("ALE"), Out("NRE"), Out("bus")>>
  <1>1. /\ \A p \in Lines : Out(p) \in Operation
        /\ In("BSY") \in Operation
    BY OperationsTyped
  <1>2. Lines = {"NCE", "NWE", "NRE", "CLE", "ALE", "bus"}
    BY DEF Lines, Pins
  <1>3. /\ Len(s) = 5 /\ s \in Seq(Operation)
        /\ s[1] = Out("bus") /\ s[2] = Out("CLE") /\ s[3] = Out("ALE") /\ s[4] = Out("NWE") /\ s[5] = In("BSY")
    BY <1>1, <1>2
  <1>4. /\ Len(t) = 6 /\ t \in Seq(Operation)
        /\ t[1] = Out("CLE") /\ t[2] = Out("NCE") /\ t[3] = Out("NWE") /\ t[4] = Out("ALE") /\ t[5] = Out("NRE")
        /\ t[6] = Out("bus")
    BY <1>1, <1>2
  <1> HIDE DEF s, t
  <1>5. Configures(l, s)
    <2>1. \A j \in 1 .. 5 : j = 1 \/ j = 2 \/ j = 3 \/ j = 4 \/ j = 5
      OBVIOUS
    <2>2. QED BY <1>2, <1>3, <2>1 DEF Configures
  <1>6. PICK x : Wired(x) /\ x = [l EXCEPT !.outputs = Driven(l, s)] /\ Leads(r, s, l, x)
    BY <1>5, DriveLeads
  <1>7. x.outputs = Driven(l, s) /\ x.high = l.high /\ x.chip = l.chip
    BY <1>6 DEF Wired, Label
  <1>8. "NWE" \in x.outputs
    <2>1. 4 \in 1 .. Len(s)
      BY <1>3
    <2>2. QED BY <1>2, <1>3, <1>7, <2>1 DEF Driven
  <1>9. Configures(x, t)
    <2>1. \A j \in 1 .. 6 : j = 1 \/ j = 2 \/ j = 3 \/ j = 4 \/ j = 5 \/ j = 6
      OBVIOUS
    <2>2. QED BY <1>2, <1>4, <1>6, <1>8, <2>1 DEF Configures
  <1>10. PICK m : Wired(m) /\ m = [x EXCEPT !.outputs = Driven(x, t)] /\ Leads(r, t, x, m)
    BY <1>9, DriveLeads
  <1>11. m.outputs = Driven(x, t) /\ m.high = l.high /\ m.chip = l.chip
    BY <1>6, <1>7, <1>10 DEF Wired, Label
  <1>12. m.outputs = Lines
    <2>1. 1 \in 1 .. Len(t) /\ 2 \in 1 .. Len(t) /\ 3 \in 1 .. Len(t) /\ 4 \in 1 .. Len(t) /\ 5 \in 1 .. Len(t)
          /\ 6 \in 1 .. Len(t)
      BY <1>4
    <2>2. \A p \in Lines : \E j \in 1 .. Len(t) : t[j] = Out(p)
      BY <1>2, <1>4, <2>1
    <2>3. Lines \subseteq m.outputs
      BY <1>11, <2>2 DEF Driven
    <2>4. m.outputs \subseteq Lines
      BY <1>10 DEF Wired, Label
    <2>5. QED BY <2>3, <2>4
  <1>13. Leads(r, s \o t, l, m)
    BY <1>6, <1>10, Chain
  <1>14. QED BY <1>10, <1>11, <1>12, <1>13 DEF s, t

(* Nothing is latched while the chip is not selected. *)
Unselected(l) == l \in Label /\ l.outputs = Lines /\ "NCE" \in l.high /\ ~ l.loose
(* Levels may be set while the chip is not selected. *)
LEMMA LineLeads ==
  ASSUME NEW r, NEW l, Unselected(l), NEW p \in Pins
  PROVE  /\ Allowed(r, Set(p), l) /\ Unselected(After(Set(p), l)) /\ After(Set(p), l).high = l.high \cup {p}
         /\ After(Set(p), l).chip = l.chip
         /\ p \in {"CLE", "ALE"} => /\ Allowed(r, Clear(p), l) /\ Unselected(After(Clear(p), l))
                                    /\ After(Clear(p), l).high = l.high \ {p} /\ After(Clear(p), l).chip = l.chip
  <1>1. "NCE" \in Lines
    BY DEF Lines, Pins
  <1>2. ~ Selected(l)
    BY <1>1 DEF Unselected, Selected, IsLow
  <1>3. SafePins(l)
    BY <1>2 DEF SafePins
  <1>4. PICK o : o = Set(p)
    OBVIOUS
  <1>5. o.do = "set" /\ o.pin = p /\ ~ Latching(o, l)
    BY <1>2, <1>4 DEF Set, Latching
  <1>6. Allowed(r, o, l)
    BY <1>3, <1>5 DEF Allowed
  <1>7. After(o, l) \in Label
    BY <1>6, AfterTyped DEF Unselected
  <1>8. PICK m : m = After(o, l)
    OBVIOUS
  <1>9. m.high = l.high \cup {p} /\ m.outputs = l.outputs /\ m.loose = l.loose /\ m.chip = l.chip
    BY <1>4, <1>5, <1>8, SetIs DEF Unselected
  <1>10. Unselected(m)
    BY <1>7, <1>8, <1>9 DEF Unselected
  <1>11. ASSUME p \in {"CLE", "ALE"}
         PROVE  /\ Allowed(r, Clear(p), l) /\ Unselected(After(Clear(p), l))
                /\ After(Clear(p), l).high = l.high \ {p} /\ After(Clear(p), l).chip = l.chip
    <2>1. PICK q : q = Clear(p)
      OBVIOUS
    <2>2. q.do = "clear" /\ q.pin = p
      BY <2>1 DEF Clear
    <2>3. Allowed(r, q, l)
      BY <1>3, <1>11, <2>2 DEF Allowed
    <2>4. After(q, l) \in Label
      BY <2>3, AfterTyped DEF Unselected
    <2>5. PICK n : n = After(q, l)
      OBVIOUS
    <2>6. p \in {"NCE", "CLE", "ALE"} /\ p # "NCE"
      BY <1>11
    <2>7. n.high = l.high \ {p} /\ n.outputs = l.outputs /\ n.chip = l.chip /\ ~ n.loose
      BY <2>1, <2>5, <2>6, OtherClearIs DEF Unselected
    <2>8. Unselected(n)
      BY <2>4, <2>5, <2>6, <2>7 DEF Unselected
    <2>9. QED BY <2>1, <2>3, <2>5, <2>7, <2>8
  <1>12. QED BY <1>4, <1>6, <1>8, <1>9, <1>10, <1>11

(* The lines are set to where they rest. *)
LEMMA LinesLead ==
  ASSUME NEW r, NEW l, Wired(l), l.outputs = Lines
  PROVE  \E m \in Label : /\ m.outputs = Lines /\ m.high = Rest /\ m.chip = l.chip
                          /\ Leads(r, <<Set("NCE"), Clear("CLE"), Clear("ALE"), Set("NWE"), Set("NRE")>>, l, m)
  <1>0. {"NCE", "CLE", "ALE", "NWE", "NRE"} \subseteq Pins /\ Pins \subseteq Lines
    BY DEF Pins, Lines
  <1>1. l \in Label /\ ~ l.loose /\ SafePins(l)
    BY WiredSafe DEF Wired
  <1>2. PICK o1, o2, o3, o4, o5 :
          o1 = Set("NCE") /\ o2 = Clear("CLE") /\ o3 = Clear("ALE") /\ o4 = Set("NWE") /\ o5 = Set("NRE")
    OBVIOUS
  <1>3. /\ o1.do = "set" /\ o1.pin = "NCE" /\ o2.do = "clear" /\ o3.do = "clear" /\ o4.do = "set" /\ o5.do = "set"
        /\ ~ Latching(o1, l)
    BY <1>2 DEF Set, Clear, Latching
  <1>4. o1 \in Operation /\ o2 \in Operation /\ o3 \in Operation /\ o4 \in Operation /\ o5 \in Operation
    <2>1. \A p \in Pins : Set(p) \in Operation /\ Clear(p) \in Operation
      BY <1>0, OperationsTyped
    <2>2. QED BY <1>0, <1>2, <2>1
  <1>5. Allowed(r, o1, l)
    BY <1>0, <1>1, <1>3 DEF Allowed
  <1>6. PICK x1 \in Label : x1 = After(o1, l)
    BY <1>1, <1>5, AfterTyped
  <1>7. x1.high = l.high \cup {"NCE"} /\ Unselected(x1) /\ x1.chip = l.chip
    <2>1. PICK p \in Pins : p = "NCE"
      BY <1>0
    <2>2. o1 = Set(p)
      BY <1>2, <2>1
    <2>3. x1.high = l.high \cup {p} /\ x1.outputs = l.outputs /\ x1.loose = l.loose /\ x1.chip = l.chip
      BY <1>1, <1>3, <1>6, <2>2, SetIs
    <2>4. QED BY <1>1, <2>1, <2>3 DEF Unselected
  <1>8. PICK x2 \in Label : x2 = After(o2, x1)
    BY <1>0, <1>2, <1>7, LineLeads DEF Unselected
  <1>9. Allowed(r, o2, x1) /\ Unselected(x2) /\ x2.high = x1.high \ {"CLE"} /\ x2.chip = l.chip
    BY <1>0, <1>2, <1>7, <1>8, LineLeads
  <1>10. PICK x3 \in Label : x3 = After(o3, x2)
    BY <1>0, <1>2, <1>9, LineLeads DEF Unselected
  <1>11. Allowed(r, o3, x2) /\ Unselected(x3) /\ x3.high = x2.high \ {"ALE"} /\ x3.chip = l.chip
    BY <1>0, <1>2, <1>9, <1>10, LineLeads
  <1>12. PICK x4 \in Label : x4 = After(o4, x3)
    BY <1>0, <1>2, <1>11, LineLeads DEF Unselected
  <1>13. Allowed(r, o4, x3) /\ Unselected(x4) /\ x4.high = x3.high \cup {"NWE"} /\ x4.chip = l.chip
    BY <1>0, <1>2, <1>11, <1>12, LineLeads
  <1>14. PICK x5 \in Label : x5 = After(o5, x4)
    BY <1>0, <1>2, <1>13, LineLeads DEF Unselected
  <1>15. Allowed(r, o5, x4) /\ Unselected(x5) /\ x5.high = x4.high \cup {"NRE"} /\ x5.chip = l.chip
    BY <1>0, <1>2, <1>13, <1>14, LineLeads
  <1>16. x5.high = Rest
    <2>1. x5.high = (((x1.high \ {"CLE"}) \ {"ALE"}) \cup {"NWE"}) \cup {"NRE"}
      BY <1>9, <1>11, <1>13, <1>15
    <2>2. x1.high = {"NCE"} \/ x1.high = Rest
      <3>1. l.high = {} \/ l.high \cup {"NCE"} = Rest
        BY DEF Wired
      <3>2. QED BY <1>7, <3>1
    <2>3. CASE x1.high = {"NCE"}
      BY <2>1, <2>3 DEF Rest
    <2>4. CASE x1.high = Rest
      BY <2>1, <2>4 DEF Rest
    <2>5. QED BY <2>2, <2>3, <2>4
  <1>17. Leads(r, <<o1, o2, o3, o4, o5>>, l, x5)
    <2>1. o1.do # "wait" /\ o2.do # "wait" /\ o3.do # "wait" /\ o4.do # "wait" /\ o5.do # "wait"
      BY <1>3
    <2>2. QED BY <1>1, <1>4, <1>5, <1>6, <1>8, <1>9, <1>10, <1>11, <1>12, <1>13, <1>14, <1>15, <2>1, Five
  <1>18. QED BY <1>2, <1>15, <1>16, <1>17 DEF Unselected

(* The reset at the end of the initialisation. *)
LEMMA ResetEnd ==
  ASSUME NEW r, r.op = "open", NEW l \in Label, Selecting(l), l.chip.op = "none"
  PROVE  \E m : /\ Between(m) /\ ~ m.chip.wait /\ m.chip.cells = l.chip.cells
                /\ Leads(r, <<Set("NCE"), Wait(FALSE, 0)>>, l, m)
  <1>1. PICK o, q, x : o = Set("NCE") /\ q = Wait(FALSE, 0) /\ x = After(o, l)
    OBVIOUS
  <1>2. /\ Allowed(r, o, l) /\ o \in Operation /\ o.do = "set"
        /\ x \in Label /\ x.high = Rest /\ x.outputs = Lines /\ x.loose = l.loose /\ x.chip = l.chip
    BY <1>1, DeselectLeads DEF Selecting
  <1>3. o.do = "set" /\ q \in Operation /\ q.do = "wait" /\ q.raise \in BOOLEAN /\ q.skip = 0
    <2>1. \A b \in BOOLEAN, k \in Nat : Wait(b, k) \in Operation
      BY OperationsTyped
    <2>2. FALSE \in BOOLEAN /\ 0 \in Nat
      OBVIOUS
    <2>3. QED BY <1>1, <1>2, <2>1, <2>2 DEF Wait
  <1>4. Quiet(x)
    <2>1. Rest \cup {"NCE"} = Rest
      BY DEF Rest
    <2>2. QED BY <1>2, <2>1 DEF Quiet, Selecting
  <1>5. Allowed(r, q, x)
    <2>1. SafePins(x)
      <3>1. "NRE" \in Lines /\ "NRE" \in Rest
        BY DEF Lines, Pins, Rest
      <3>2. QED BY <1>2, <3>1 DEF SafePins, IsLow
    <2>2. QED BY <1>3, <1>4, <2>1 DEF Allowed
  <1>6. PICK m \in Label : m = After(q, x)
    BY <1>2, <1>5, AfterTyped
  <1>7. /\ m.high = x.high /\ m.outputs = x.outputs /\ m.loose = (0 # 0) /\ m.chip = [x.chip EXCEPT !.wait = FALSE]
    <2>1. PICK b, k : b = FALSE /\ k = 0
      OBVIOUS
    <2>2. q = Wait(b, k)
      BY <1>1, <2>1
    <2>3. /\ m.high = x.high /\ m.outputs = x.outputs /\ m.loose = (k # 0) /\ m.chip = [x.chip EXCEPT !.wait = FALSE]
      BY <1>2, <1>6, <2>2, WaitIs
    <2>4. QED BY <2>1, <2>3
  <1>8. x.chip \in Ideal
    BY <1>2 DEF Label
  <1>9. Still(m.chip) /\ ~ m.chip.wait /\ m.chip.cells = l.chip.cells
    <2>1. m.chip.op = "none" /\ ~ m.chip.wait /\ m.chip.cells = l.chip.cells
      BY <1>2, <1>7, <1>8 DEF Ideal
    <2>2. QED BY <2>1 DEF Still
  <1>10. Between(m)
    BY <1>2, <1>7, <1>9 DEF Between
  <1>11. Leads(r, <<o, q>>, l, m)
    BY <1>1, <1>2, <1>3, <1>5, <1>6, Two
  <1>12. QED BY <1>1, <1>9, <1>10, <1>11

(* The driver is initialised and the chip reset. *)
LEMMA InitialiseLeads ==
  ASSUME NEW r, r.op = "open", NEW l, Wired(l), ~ l.chip.wait
  PROVE  \E m : Between(m) /\ ~ m.chip.wait /\ m.chip.cells = l.chip.cells /\ Leads(r, Initialise, l, m)
  <1>1. PICK a, a3, a4, a5, a6 :
          /\ a = <<Out("bus"), Out("CLE"), Out("ALE"), Out("NWE"), In("BSY")>>
                 \o <<Out("CLE"), Out("NCE"), Out("NWE"), Out("ALE"), Out("NRE"), Out("bus")>>
          /\ a3 = <<Set("NCE"), Clear("CLE"), Clear("ALE"), Set("NWE"), Set("NRE")>>
          /\ a4 = <<Clear("NCE")>> /\ a5 = Cmd("FF") /\ a6 = <<Set("NCE"), Wait(FALSE, 0)>>
    OBVIOUS
  <1>2. PICK x : Wired(x) /\ x.outputs = Lines /\ x.high = l.high /\ x.chip = l.chip /\ Leads(r, a, l, x)
    BY <1>1, ConfigureLeads
  <1>3. PICK y \in Label : y.outputs = Lines /\ y.high = Rest /\ y.chip = l.chip /\ Leads(r, a3, x, y)
    BY <1>1, <1>2, LinesLead
  <1>4. Begin(y)
    <2>1. Rest \cup {"NCE"} = Rest
      BY DEF Rest
    <2>2. QED BY <1>3, <2>1 DEF Begin
  <1>5. PICK z \in Label : Selecting(z) /\ z.chip = l.chip /\ Leads(r, a4, y, z)
    BY <1>1, <1>3, <1>4, SelectLeads
  <1>6. MayCommand(r, z.chip, "FF")
    BY DEF MayCommand, Command
  <1>7. PICK v \in Label : Selecting(v) /\ v.chip = AfterCommand(z.chip, "FF") /\ Leads(r, a5, z, v)
    BY <1>1, <1>5, <1>6, CmdLeads
  <1>8. v.chip.op = "none" /\ v.chip.cells = l.chip.cells
    <2>1. z.chip \in Ideal
      BY DEF Label
    <2>2. QED BY <1>5, <1>7, <2>1 DEF AfterCommand, Ideal
  <1>9. PICK m : Between(m) /\ ~ m.chip.wait /\ m.chip.cells = v.chip.cells /\ Leads(r, a6, v, m)
    BY <1>1, <1>7, <1>8, ResetEnd
  <1>10. Leads(r, (((a \o a3) \o a4) \o a5) \o a6, l, m)
    <2>1. Leads(r, a \o a3, l, y)
      BY <1>2, <1>3, Chain
    <2>2. Leads(r, (a \o a3) \o a4, l, z)
      BY <1>5, <2>1, Chain
    <2>3. Leads(r, ((a \o a3) \o a4) \o a5, l, v)
      BY <1>7, <2>2, Chain
    <2>4. QED BY <1>9, <2>3, Chain
  <1>11. Initialise = (((a \o a3) \o a4) \o a5) \o a6
    BY <1>1 DEF Initialise
  <1>12. QED BY <1>8, <1>9, <1>10, <1>11

(* The identification of the device is read. *)
LEMMA IdentifyLeads ==
  ASSUME NEW r, NEW l, Between(l), ~ l.chip.wait
  PROVE  \E m : /\ Between(m) /\ ~ m.chip.wait /\ m.chip.cells = l.chip.cells
                /\ Leads(r, <<Out("bus"), Clear("NCE")>> \o Cmd("90") \o Ale(0)
                            \o ReadByte("id", 1) \o ReadByte("id", 2) \o <<Set("NCE")>>, l, m)
  <1>1. PICK b, i1, i2, k : b = "id" /\ i1 = 1 /\ i2 = 2 /\ k = "90"
    OBVIOUS
  <1>2. PICK a1, a2, a3, a4, a5, p, a6 :
          /\ a1 = <<Out("bus"), Clear("NCE")>> /\ a2 = Cmd(k) /\ a3 = Ale(0)
          /\ a4 = ReadByte(b, i1) /\ a5 = ReadByte(b, i2) /\ p = Set("NCE") /\ a6 = <<p>>
    OBVIOUS
  <1>3. l \in Label /\ Begin(l)
    BY BetweenRests
  <1>4. PICK x \in Label : Selecting(x) /\ x.chip = l.chip /\ Leads(r, a1, l, x)
    BY <1>2, <1>3, SelectLeads
  <1>5. PICK y \in Label : Selecting(y) /\ y.known /\ Leads(r, a2, x, y) /\ OtherCommanded(x.chip, k, y.chip)
    <2>1. ~ x.chip.wait /\ k \in {"60", "80", "90"}
      BY <1>1, <1>4
    <2>2. QED BY <1>2, <1>4, <2>1, OtherCommand
  <1>6. ~ y.chip.wait /\ y.chip.op = "id" /\ y.chip.cycles = <<>> /\ y.chip.cells = l.chip.cells
    BY <1>1, <1>4, <1>5 DEF OtherCommanded
  <1>7. PICK z \in Label :
          /\ Selecting(z) /\ z.known /\ Leads(r, a3, y, z) /\ Buffers(y.chip, z.chip) /\ z.chip.cells = y.chip.cells
          /\ ~ z.chip.wait /\ z.chip.op = y.chip.op /\ z.chip.cycles = <<0>> /\ z.chip.reg = y.chip.reg
          /\ z.chip.col = y.chip.col /\ Origin(z.chip) = Origin(y.chip)
    BY <1>2, <1>5, <1>6, ColumnAddress
  <1>8. Reading(z) /\ z.chip.op = "id" /\ z.chip.cells = l.chip.cells
    BY <1>6, <1>7 DEF Reading, Selecting
  <1>9. b \in {"page", "user", "id"} /\ i1 \in Place /\ i2 \in Place
    BY <1>1, Constants
  <1>10. PICK u \in Label : \E v :
           /\ Reading(u) /\ u.bus = z.bus /\ u.loose = z.loose /\ SameDevice(z.chip, u.chip)
              /\ u.chip.reg = z.chip.reg
           /\ u.chip.col = IF z.chip.op = "read" /\ z.chip.col \in 0 .. PARTS + SPARE THEN z.chip.col + 1 ELSE z.chip.col
           /\ u.chip.page = IF b = "page" THEN [z.chip.page EXCEPT ![i1] = v] ELSE z.chip.page
           /\ u.chip.user = IF b = "user" THEN [z.chip.user EXCEPT ![i1] = v] ELSE z.chip.user
           /\ v = IF z.chip.op = "read" /\ u.chip.col \in Place THEN z.chip.reg[u.chip.col] ELSE Junk
           /\ Leads(r, ReadByte(b, i1), z, u)
    <2>1. Reading(z) /\ ~ z.chip.wait /\ b \in {"page", "user", "id"} /\ i1 \in Place
      BY <1>7, <1>8, <1>9
    <2>2. QED BY <2>1, ReadByteLeads
  <1>11. Reading(u) /\ u.loose = z.loose /\ SameDevice(z.chip, u.chip) /\ Leads(r, a4, z, u)
    BY <1>2, <1>10
  <1>12. ~ u.chip.wait
    BY <1>7, <1>11 DEF SameDevice
  <1>13. PICK w \in Label : \E v :
           /\ Reading(w) /\ w.bus = u.bus /\ w.loose = u.loose /\ SameDevice(u.chip, w.chip)
              /\ w.chip.reg = u.chip.reg
           /\ w.chip.col = IF u.chip.op = "read" /\ u.chip.col \in 0 .. PARTS + SPARE THEN u.chip.col + 1 ELSE u.chip.col
           /\ w.chip.page = IF b = "page" THEN [u.chip.page EXCEPT ![i2] = v] ELSE u.chip.page
           /\ w.chip.user = IF b = "user" THEN [u.chip.user EXCEPT ![i2] = v] ELSE u.chip.user
           /\ v = IF u.chip.op = "read" /\ w.chip.col \in Place THEN u.chip.reg[w.chip.col] ELSE Junk
           /\ Leads(r, ReadByte(b, i2), u, w)
    BY <1>9, <1>11, <1>12, ReadByteLeads
  <1>14. Reading(w) /\ w.loose = u.loose /\ SameDevice(u.chip, w.chip) /\ Leads(r, a5, u, w)
    BY <1>2, <1>13
  <1>15. w.chip.op = "id" /\ w.chip.cells = l.chip.cells /\ ~ w.chip.wait /\ ~ w.loose
    BY <1>7, <1>8, <1>11, <1>12, <1>14 DEF SameDevice, Selecting
  <1>16. PICK m : m = After(p, w)
    OBVIOUS
  <1>17. /\ Allowed(r, p, w) /\ p \in Operation /\ p.do = "set"
         /\ m \in Label /\ m.high = Rest /\ m.outputs = Lines /\ m.loose = w.loose /\ m.chip = w.chip
    <2>1. w.high = {"NWE", "NRE"} /\ w.outputs = Lines
      BY <1>14 DEF Reading
    <2>2. QED BY <1>2, <1>16, <2>1, DeselectLeads
  <1>18. Leads(r, a6, w, m)
    BY <1>2, <1>16, <1>17, Single
  <1>19. Between(m) /\ ~ m.chip.wait /\ m.chip.cells = l.chip.cells
    BY <1>15, <1>17 DEF Between, Still
  <1>20. Leads(r, ((((a1 \o a2) \o a3) \o a4) \o a5) \o a6, l, m)
    <2>1. Leads(r, a1 \o a2, l, y)
      BY <1>4, <1>5, Chain
    <2>2. Leads(r, (a1 \o a2) \o a3, l, z)
      BY <1>7, <2>1, Chain
    <2>3. Leads(r, ((a1 \o a2) \o a3) \o a4, l, u)
      BY <1>11, <2>2, Chain
    <2>4. Leads(r, (((a1 \o a2) \o a3) \o a4) \o a5, l, w)
      BY <1>14, <2>3, Chain
    <2>5. QED BY <1>18, <2>4, Chain
  <1>21. QED BY <1>1, <1>2, <1>19, <1>20

(* The list agrees with the markers of the first blocks. *)
Listed(cells0, i, l) ==
  /\ Between(l) /\ ~ l.chip.wait /\ l.chip.cells = cells0
  /\ \A k \in Block : k < i => (k \in l.chip.list <=> Spare(cells0[k * PAGES], BBOFFSET) = Erased)

(* The bad block list after the mark of one block has been looked at. *)
LEMMA ListIs ==
  ASSUME NEW c \in Ideal, NEW n, NEW d, d = AfterCompute(c, "list", n)
  PROVE  d.list = IF c.page[BBOFFSET + 1] = Erased THEN c.list \cup {n} ELSE c.list \ {n}
  <1>1. PICK w : w = "list"
    OBVIOUS
  <1>2. d = AfterCompute(c, w, n)
    BY <1>1
  <1>3. QED BY <1>1, <1>2 DEF AfterCompute, Ideal

(* The marker of one more block is read. *)
LEMMA ListOne ==
  ASSUME NEW r, r.op = "open", NEW k \in Block, NEW cells0, NEW l, Listed(cells0, k, l)
  PROVE  \E m : /\ Listed(cells0, k + 1, m)
                /\ Leads(r, ReadSpare(0, k, "page", 0, FALSE) \o <<Compute("list", k)>>, l, m)
  <1>0. /\ PARTS \in Nat /\ SPARE \in Nat /\ PARTS = 2 /\ Place = 1 .. PARTS + SPARE /\ SPARE >= 8 /\ BBOFFSET = 5
        /\ BLOCKS \in Nat /\ k \in Nat /\ k < BLOCKS
    BY Constants DEF Place, Block
  <1>1. /\ Between(l) /\ l \in Label /\ Begin(l) /\ ~ l.chip.wait /\ l.chip.cells = cells0
        /\ \A j \in Block : j < k => (j \in l.chip.list <=> Spare(cells0[j * PAGES], BBOFFSET) = Erased)
    BY BetweenRests DEF Listed
  <1>2. PICK page, b, from, goOn : page = 0 /\ b = "page" /\ from = 0 /\ goOn = FALSE
    OBVIOUS
  <1>3. SpareWanted(r, l, page, k, b, from, goOn)
    <2>1. from \in 0 .. PARTS /\ page \in Nat /\ k \in Nat /\ b \in {"page", "user"}
      BY <1>0, <1>2
    <2>2. goOn \in BOOLEAN
      BY <1>2
    <2>3. r.op \in {"open", "read", "readspare", "write"}
      OBVIOUS
    <2>4. QED BY <1>1, <2>1, <2>2, <2>3 DEF SpareWanted
  <1>4. PICK x : SpareGot(r, l, page, k, b, from, goOn, x)
    BY <1>3, ReadSpareLeads
  <1>5. PICK a : a = ReadSpare(page, k, b, from, goOn)
    OBVIOUS
  <1>6. /\ x \in Label /\ x.high = Rest /\ x.outputs = Lines /\ Leads(r, a, l, x)
        /\ SpareRead(l.chip, Pack(page, k), b, from, x.chip)
    BY <1>4, <1>5 DEF SpareGot
  <1>7. ~ x.loose
    <2>1. x.loose = goOn
      BY <1>4 DEF SpareGot
    <2>2. QED BY <1>2, <2>1
  <1>8. Between(x)
    BY <1>6, <1>7 DEF Between, SpareRead
  <1>9. PICK w \in Computation : w = "list"
    BY DEF Computation
  <1>10. PICK m : Computed(r, x, w, k, m) /\ Between(m)
    BY <1>0, <1>8, <1>9, StepBetween
  <1>11. PICK o, q : o = Compute(w, k) /\ q = <<o>>
    OBVIOUS
  <1>12. m.chip = AfterCompute(x.chip, w, k) /\ Leads(r, q, x, m)
    BY <1>10, <1>11 DEF Computed
  <1>13. Leads(r, a \o q, l, m)
    BY <1>6, <1>12, Chain
  <1>14. x.chip \in Ideal /\ l.chip \in Ideal
    BY <1>1, <1>6 DEF Label
  <1>15. ~ m.chip.wait /\ m.chip.cells = cells0
    <2>1. ~ x.chip.wait /\ x.chip.cells = cells0
      BY <1>1, <1>6 DEF SpareRead
    <2>2. QED BY <1>12, <1>14, <2>1, ComputeKeeps
  <1>16. x.chip.page[BBOFFSET + 1] = Spare(cells0[k * PAGES], BBOFFSET)
    <2>1. Pack(page, k) = k * PAGES
      BY <1>0, <1>2, PackTyped
    <2>2. PICK row : row = cells0[k * PAGES]
      OBVIOUS
    <2>3. x.chip.page = Filled(l.chip.page, row, 0, PARTS, SPARE)
      BY <1>1, <1>2, <1>6, <2>1, <2>2 DEF SpareRead
    <2>4. BBOFFSET + 1 \in Place /\ BBOFFSET + 1 \in 0 + 1 .. 0 + SPARE
          /\ PARTS + ((BBOFFSET + 1) - 0) = PARTS + BBOFFSET + 1
      BY <1>0
    <2>5. QED BY <2>2, <2>3, <2>4 DEF Filled, Spare
  <1>17. x.chip.list = l.chip.list
    BY <1>6 DEF SpareRead
  <1>18. m.chip.list = IF Spare(cells0[k * PAGES], BBOFFSET) = Erased THEN l.chip.list \cup {k} ELSE l.chip.list \ {k}
    <2>1. PICK c, d : c \in Ideal /\ c = x.chip /\ d = m.chip
      BY <1>14
    <2>2. d = AfterCompute(c, "list", k)
      BY <1>9, <1>12, <2>1
    <2>3. d.list = IF c.page[BBOFFSET + 1] = Erased THEN c.list \cup {k} ELSE c.list \ {k}
      BY <2>1, <2>2, ListIs
    <2>4. QED BY <1>16, <1>17, <2>1, <2>3
  <1>19. ASSUME NEW j \in Block, j < k + 1
         PROVE  j \in m.chip.list <=> Spare(cells0[j * PAGES], BBOFFSET) = Erased
    <2>1. j = k \/ j < k
      BY <1>0, <1>19 DEF Block
    <2>2. CASE j = k
      BY <1>18, <2>2
    <2>3. CASE j < k
      <3>1. j # k
        BY <1>0, <2>3
      <3>2. j \in m.chip.list <=> j \in l.chip.list
        BY <1>18, <3>1
      <3>3. QED BY <1>1, <2>3, <3>2
    <2>4. QED BY <2>1, <2>2, <2>3
  <1>20. Listed(cells0, k + 1, m)
    BY <1>10, <1>15, <1>19 DEF Listed
  <1>21. QED BY <1>2, <1>5, <1>9, <1>11, <1>13, <1>20

(* The marker of every block is read. *)
LEMMA ListLeads ==
  ASSUME NEW r, r.op = "open", NEW l, Between(l), ~ l.chip.wait
  PROVE  \E m : /\ Listed(l.chip.cells, BLOCKS, m)
                /\ Leads(r, FlattenSeq([b \in 1 .. BLOCKS |->
                              ReadSpare(0, b - 1, "page", 0, FALSE) \o <<Compute("list", b - 1)>>]), l, m)
  <1>0. BLOCKS \in Nat
    BY Constants
  <1>1. PICK cells0 : cells0 = l.chip.cells
    OBVIOUS
  <1> DEFINE f == [b \in 1 .. BLOCKS |-> ReadSpare(0, b - 1, "page", 0, FALSE) \o <<Compute("list", b - 1)>>]
             H == [i \in 0 .. BLOCKS |-> {x \in Label : Listed(cells0, i, x)}]
  <1>2. H \in [0 .. BLOCKS -> SUBSET Label]
    OBVIOUS
  <1>3. \A i \in 0 .. BLOCKS : \A x : x \in H[i] <=> x \in Label /\ Listed(cells0, i, x)
    OBVIOUS
  <1>4. \A i \in 1 .. BLOCKS : f[i] = ReadSpare(0, i - 1, "page", 0, FALSE) \o <<Compute("list", i - 1)>>
    OBVIOUS
  <1>5. f = [i \in 1 .. BLOCKS |-> f[i]]
    OBVIOUS
  <1> HIDE DEF f, H
  <1>6. ASSUME NEW i \in 1 .. BLOCKS, NEW x \in H[i - 1]
        PROVE  \E y \in H[i] : Leads(r, f[i], x, y)
    <2>1. i - 1 \in 0 .. BLOCKS /\ i \in 0 .. BLOCKS /\ i - 1 \in Block /\ (i - 1) + 1 = i
      BY <1>0 DEF Block
    <2>2. PICK k \in Block : k = i - 1 /\ k + 1 = i
      BY <2>1
    <2>3. Listed(cells0, k, x)
      BY <1>3, <2>1, <2>2
    <2>4. PICK y : /\ Listed(cells0, k + 1, y)
                   /\ Leads(r, ReadSpare(0, k, "page", 0, FALSE) \o <<Compute("list", k)>>, x, y)
      BY <2>3, ListOne
    <2>5. y \in Label
      BY <2>4 DEF Listed, Between
    <2>6. QED BY <1>3, <1>4, <2>1, <2>2, <2>4, <2>5
  <1>7. l \in H[0]
    <2>1. 0 \in 0 .. BLOCKS
      BY <1>0
    <2>2. \A k \in Block : ~ (k < 0)
      BY <1>0 DEF Block
    <2>3. Listed(cells0, 0, l)
      BY <1>1, <2>2 DEF Listed
    <2>4. QED BY <1>3, <2>1, <2>3 DEF Between
  <1>8. f \in [1 .. BLOCKS -> Seq(Operation)]
    <2>1. ASSUME NEW i \in 1 .. BLOCKS
          PROVE  f[i] \in Seq(Operation)
      <3>1. PICK k \in Block : k = i - 1
        BY <1>0 DEF Block
      <3>2. PICK g \in SUBSET Block : g = {j \in Block : Spare(cells0[j * PAGES], BBOFFSET) = Erased}
        OBVIOUS
      <3>3. PICK c : c = [l.chip EXCEPT !.list = g]
        OBVIOUS
      <3>4. l.chip \in Ideal /\ l \in Label
        BY DEF Between, Label
      <3>5. c \in Ideal /\ c.list = g /\ c.cells = cells0 /\ c.op = l.chip.op /\ c.cycles = l.chip.cycles
            /\ c.wait = l.chip.wait
        BY <1>1, <3>3, <3>4 DEF Ideal
      <3>6. PICK x : x = [l EXCEPT !.chip = c]
        OBVIOUS
      <3>7. /\ x \in Label /\ x.chip = c /\ x.high = l.high /\ x.outputs = l.outputs /\ x.loose = l.loose
        BY <3>4, <3>5, <3>6 DEF Label
      <3>8. Between(x)
        BY <3>5, <3>7 DEF Between, Still
      <3>9. Listed(cells0, k, x)
        BY <3>2, <3>5, <3>7, <3>8 DEF Listed
      <3>10. PICK y : Leads(r, ReadSpare(0, k, "page", 0, FALSE) \o <<Compute("list", k)>>, x, y)
        BY <3>9, ListOne
      <3>11. QED BY <1>4, <3>1, <3>10 DEF Leads, Outline
    <2>2. QED BY <1>5, <2>1
  <1>9. PICK m \in H[BLOCKS] : Leads(r, FlattenSeq(f), l, m)
    BY <1>0, <1>2, <1>6, <1>7, <1>8, ChainAll
  <1>10. Listed(l.chip.cells, BLOCKS, m)
    <2>1. BLOCKS \in 0 .. BLOCKS
      BY <1>0
    <2>2. QED BY <1>1, <1>3, <1>9, <2>1
  <1>11. Leads(r, FlattenSeq([b \in 1 .. BLOCKS |->
                    ReadSpare(0, b - 1, "page", 0, FALSE) \o <<Compute("list", b - 1)>>]), l, m)
    BY <1>9 DEF f
  <1>12. QED BY <1>10, <1>11

(* The device is opened: initialised, reset, identified, and the list made. *)
LEMMA OpenComplete ==
  ASSUME NEW r, r.op = "open", NEW l, Wired(l), ~ l.chip.wait
  PROVE  Complete(r, l, Initialise \o GetDetails)
  <1>1. PICK x : Between(x) /\ ~ x.chip.wait /\ x.chip.cells = l.chip.cells /\ Leads(r, Initialise, l, x)
    BY InitialiseLeads
  <1>2. PICK a, b : /\ a = <<Out("bus"), Clear("NCE")>> \o Cmd("90") \o Ale(0)
                            \o ReadByte("id", 1) \o ReadByte("id", 2) \o <<Set("NCE")>>
                    /\ b = FlattenSeq([k \in 1 .. BLOCKS |->
                              ReadSpare(0, k - 1, "page", 0, FALSE) \o <<Compute("list", k - 1)>>])
    OBVIOUS
  <1>3. PICK y : Between(y) /\ ~ y.chip.wait /\ y.chip.cells = x.chip.cells /\ Leads(r, a, x, y)
    BY <1>1, <1>2, IdentifyLeads
  <1>4. PICK m : Listed(y.chip.cells, BLOCKS, m) /\ Leads(r, b, y, m)
    BY <1>2, <1>3, ListLeads
  <1>5. GetDetails = a \o b
    BY <1>2 DEF GetDetails
  <1>6. Leads(r, Initialise \o (a \o b), l, m)
    <2>1. Leads(r, a \o b, x, m)
      BY <1>3, <1>4, Chain
    <2>2. QED BY <1>1, <2>1, Chain
  <1>7. AtRest(m) /\ m \in Label
    BY <1>4, BetweenRests DEF Listed
  <1>8. Result(r, l.chip.cells, m.chip)
    <2>1. m.chip.list \subseteq Block
      BY <1>7 DEF Label, Ideal
    <2>2. \A k \in Block : k < BLOCKS
      BY Constants DEF Block
    <2>3. PICK cells1 : cells1 = y.chip.cells /\ cells1 = m.chip.cells
      BY <1>4 DEF Listed
    <2>4. \A k \in Block : (k \in m.chip.list <=> Spare(cells1[k * PAGES], BBOFFSET) = Erased)
      BY <1>4, <2>2, <2>3 DEF Listed
    <2>5. m.chip.list = {k \in Block : Spare(cells1[k * PAGES], BBOFFSET) = Erased}
      BY <2>1, <2>4
    <2>6. QED BY <2>3, <2>5 DEF Result
  <1>9. QED BY <1>5, <1>6, <1>7, <1>8 DEF Complete, Ends

(* Where a call begins, and the data it is given. *)
Ready(r, l) ==
  /\ IF r.op = "open" THEN Wired(l) /\ ~ l.chip.wait ELSE Starts(l)
  /\ r.op = "write" => \A i \in 1 .. PARTS : l.chip.user[i] = r.data[i]
  /\ r.op = "writespare" => \A i \in 1 .. SPARE : l.chip.user[i] = r.data[i]

(* Every call is carried out to its end. *)
LEMMA CallComplete ==
  ASSUME NEW r \in Request, NEW l, Ready(r, l)
  PROVE  Complete(r, l, Operations(r))
  <1>1. /\ r.op \in {"open", "erase", "mark", "read", "readspare", "write", "writespare"}
        /\ r.op # "open" => r.block \in Nat
        /\ r.op \in {"read", "readspare", "write", "writespare"} => r.page \in Nat
    BY RequestTyped
  <1>2. CASE r.op = "open"
    <2>1. Complete(r, l, Initialise \o GetDetails)
      BY <1>2, OpenComplete DEF Ready
    <2>2. QED BY <1>2, <2>1 DEF Operations
  <1>3. CASE r.op # "open"
    <2>0. Starts(l) /\ r.block \in Nat
      BY <1>1, <1>3 DEF Ready
    <2>1. CASE r.op = "read"
      <3>1. Complete(r, l, ReadPage(r.page, r.block))
        BY <1>1, <2>0, <2>1, ReadComplete
      <3>2. QED BY <2>1, <3>1 DEF Operations
    <2>2. CASE r.op = "write"
      <3>1. Complete(r, l, WritePage(r.page, r.block))
        BY <1>1, <2>0, <2>2, WriteComplete DEF Ready
      <3>2. QED BY <2>2, <3>1 DEF Operations
    <2>3. CASE r.op = "erase"
      <3>1. Complete(r, l, Erase(r.block))
        BY <2>0, <2>3, EraseComplete
      <3>2. QED BY <2>3, <3>1 DEF Operations
    <2>4. CASE r.op = "mark"
      <3>1. Complete(r, l, MarkBad(r.block))
        BY <2>0, <2>4, MarkComplete
      <3>2. QED BY <2>4, <3>1 DEF Operations
    <2>5. CASE r.op \in {"readspare", "writespare"} /\ ~ (r.block < BLOCKS /\ r.page < PAGES)
      <3>1. Complete(r, l, <<Compute("invalid", 0)>>)
        BY <2>0, InvalidComplete
      <3>2. QED BY <2>5, <3>1 DEF Operations
    <2>6. CASE r.op = "readspare" /\ (r.block < BLOCKS /\ r.page < PAGES)
      <3>1. Complete(r, l, ReadSpare(r.page, r.block, "user", 0, FALSE))
        BY <1>1, <2>0, <2>6, ReadSpareComplete
      <3>2. QED BY <2>6, <3>1 DEF Operations
    <2>7. CASE r.op = "writespare" /\ (r.block < BLOCKS /\ r.page < PAGES)
      <3>1. Complete(r, l, Program("50", r.page, r.block, "user", SPARE))
        BY <1>1, <2>0, <2>7, WriteSpareComplete DEF Ready
      <3>2. QED BY <2>7, <3>1 DEF Operations
    <2>8. QED BY <1>1, <1>3, <2>1, <2>2, <2>3, <2>4, <2>5, <2>6, <2>7
  <1>4. QED BY <1>2, <1>3

(* The invariant holds at power up. *)
LEMMA InitStep ==
  ASSUME Init
  PROVE  Inv
  <1>1. /\ todo = <<>> /\ ret = "none" /\ high = {} /\ outputs = {} /\ bus = Junk
        /\ pageBuf = [i \in Place |-> Junk] /\ user = [i \in Place |-> Junk] /\ bblist = {}
        /\ area = "main" /\ op = "none" /\ cycles = <<>> /\ reg = [i \in Place |-> Erased] /\ col = 0 /\ busy = FALSE
        /\ calls = 0 /\ faults = 0 /\ before = cells /\ late = FALSE /\ broken = FALSE
        /\ \E c \in Content : cells = [r \in Row |-> IF r = 0 THEN c ELSE [i \in Place |-> Erased]]
    BY DEF Init
  <1>2. cells \in [Row -> PageImage]
    <2>1. PICK c \in Content : cells = [r \in Row |-> IF r = 0 THEN c ELSE [i \in Place |-> Erased]]
      BY <1>1
    <2>2. c \in PageImage /\ [i \in Place |-> Erased] \in PageImage
      BY NandAssumption, Blank DEF PageImage
    <2>3. QED BY <2>1, <2>2
  <1>3. ChipTyped
    <2>1. [i \in Place |-> Erased] \in PageImage /\ 0 \in 0 .. PARTS + SPARE + 1
      BY Blank, Constants
    <2>2. cycles \in Seq(Nat) /\ Len(cycles) <= 4
      BY <1>1
    <2>3. reg \in PageImage /\ col \in 0 .. PARTS + SPARE + 1
      BY <1>1, <2>1
    <2>4. busy \in BOOLEAN /\ ~ busy /\ area = "main" /\ op = "none"
      BY <1>1
    <2>5. QED BY <1>2, <2>2, <2>3, <2>4 DEF ChipTyped
  <1>4. Typed
    <2>1. [i \in Place |-> Junk] \in PageImage
      BY Constants DEF PageImage
    <2>2. 0 \in 0 .. MaxCalls /\ 0 \in 0 .. MaxFaults
      BY NandAssumption
    <2>3. QED BY <1>1, <1>2, <1>3, <2>1, <2>2 DEF Typed
  <1>5. Idle
    BY <1>1, Constants DEF Idle, Harmless, Spared, OnTheBus
  <1>6. QED BY <1>1, <1>4, <1>5 DEF Inv

(* A call begins. *)
LEMMA CallStep ==
  ASSUME Inv, NEW r \in Request, Call(r)
  PROVE  Inv'
  <1>1. /\ todo = <<>> /\ calls < MaxCalls /\ ((calls = 0) => r.op = "open")
        /\ calls' = calls + 1 /\ req' = r /\ ret' = "none" /\ todo' = Operations(r)
        /\ user' = [i \in Place |-> IF r.op \in {"write", "writespare"} /\ i <= Len(r.data) THEN r.data[i] ELSE Junk]
        /\ before' = cells /\ late' = busy /\ broken' = FALSE
        /\ UNCHANGED <<high, outputs, bus, pageBuf, bblist, area, op, cycles, reg, col, busy, cells, faults>>
    BY DEF Call, gpio, chip
  <1>2. Typed /\ Idle
    BY <1>1 DEF Inv
  <1>0. PARTS \in Nat /\ SPARE \in Nat /\ Place = 1 .. PARTS + SPARE /\ Junk \in Value
    BY Constants DEF Place
  <1>3. user' \in PageImage
    <2>1. ASSUME NEW i \in Place, r.op \in {"write", "writespare"}, i <= Len(r.data)
          PROVE  r.data[i] \in Value
      <3>1. CASE r.op = "write"
        <4>1. r.data \in [1 .. PARTS -> Value]
          BY <3>1, RequestTyped
        <4>2. Len(r.data) = PARTS
          BY <1>0, <4>1
        <4>3. QED BY <1>0, <2>1, <4>1, <4>2
      <3>2. CASE r.op = "writespare"
        <4>1. r.data \in [1 .. SPARE -> Value]
          BY <3>2, RequestTyped
        <4>2. Len(r.data) = SPARE
          BY <1>0, <4>1
        <4>3. QED BY <1>0, <2>1, <4>1, <4>2
      <3>3. QED BY <2>1, <3>1, <3>2
    <2>2. QED BY <1>0, <1>1, <2>1 DEF PageImage
  <1>4. Typed'
    <2>1. calls' \in 0 .. MaxCalls
      BY <1>1, <1>2, NandAssumption DEF Typed
    <2>2. before' \in [Row -> PageImage] /\ late' \in BOOLEAN /\ broken' \in BOOLEAN
      BY <1>1, <1>2 DEF Typed, ChipTyped
    <2>3. QED BY <1>1, <1>2, <1>3, <2>1, <2>2 DEF Typed, ChipTyped
  <1>5. PICK usr \in PageImage : usr = user'
    BY <1>3
  <1>6. PICK st : st = IF op \in {"none", "id", "reset"} \/ (op = "read" /\ Len(cycles) = 4) THEN op ELSE "none"
    OBVIOUS
  <1>7. PICK c : c = [area |-> area, op |-> st, cycles |-> cycles, reg |-> reg, col |-> col, cells |-> cells,
                      wait |-> FALSE, page |-> pageBuf, user |-> usr, list |-> bblist, ok |-> TRUE]
    OBVIOUS
  <1>8. /\ c.area = area /\ c.op = st /\ c.cycles = cycles /\ c.reg = reg /\ c.col = col /\ c.cells = cells
        /\ ~ c.wait /\ c.page = pageBuf /\ c.user = usr /\ c.list = bblist /\ c.ok
    BY <1>7
  <1>9. c \in Ideal /\ Still(c)
    <2>1. st \in {"none", "read", "program", "erase", "id", "reset"}
      BY <1>6
    <2>2. col \in Int
      BY <1>0, <1>2 DEF Typed, ChipTyped
    <2>3. c \in Ideal
      BY <1>2, <1>5, <1>7, <2>1, <2>2 DEF Typed, ChipTyped, Ideal
    <2>4. Still(c)
      BY <1>6, <1>8 DEF Still
    <2>5. QED BY <2>3, <2>4
  <1>10. PICK l : l = [high |-> high, outputs |-> outputs, bus |-> bus, known |-> TRUE, loose |-> FALSE, chip |-> c]
    OBVIOUS
  <1>11. l.high = high /\ l.outputs = outputs /\ l.bus = bus /\ l.known /\ ~ l.loose /\ l.chip = c
    BY <1>10
  <1>12. l \in Label
    BY <1>2, <1>8, <1>9, <1>10 DEF Label, Typed, Idle
  <1>13. Ready(r, l)
    <2>1. calls \in Nat
      BY <1>2, NandAssumption DEF Typed
    <2>2. Wired(l)
      BY <1>2, <1>11, <1>12 DEF Idle, Wired
    <2>3. r.op # "open" => Starts(l)
      BY <1>1, <1>2, <1>8, <1>9, <1>11, <1>12, <2>1 DEF Idle, Starts, Quiet
    <2>4. ASSUME r.op = "write", NEW i \in 1 .. PARTS PROVE l.chip.user[i] = r.data[i]
      <3>1. r.data \in [1 .. PARTS -> Value]
        BY <2>4, RequestTyped
      <3>2. Len(r.data) = PARTS /\ i \in Place /\ i <= PARTS
        BY <1>0, <3>1
      <3>3. QED BY <1>1, <1>5, <1>8, <1>11, <2>4, <3>2
    <2>5. ASSUME r.op = "writespare", NEW i \in 1 .. SPARE PROVE l.chip.user[i] = r.data[i]
      <3>1. r.data \in [1 .. SPARE -> Value]
        BY <2>5, RequestTyped
      <3>2. Len(r.data) = SPARE /\ i \in Place /\ i <= SPARE
        BY <1>0, <3>1
      <3>3. QED BY <1>1, <1>5, <1>8, <1>11, <2>5, <3>2
    <2>6. QED BY <1>8, <1>11, <2>2, <2>3, <2>4, <2>5 DEF Ready
  <1>14. PICK s : s = Operations(r)
    OBVIOUS
  <1>15. PICK m \in Label : Leads(r, s, l, m) /\ Ends(r, c.cells, s, m)
    <2>1. Complete(r, l, s)
      BY <1>13, <1>14, CallComplete
    <2>2. QED BY <1>11, <2>1 DEF Complete
  <1>16. At(l)'
    <2>1. PinsAt(l)'
      BY <1>1, <1>11 DEF PinsAt
    <2>2. Weak(l.chip)'
      BY <1>1, <1>2 DEF Idle, Harmless, Weak
    <2>3. Spared'
      BY <1>1 DEF Spared
    <2>4. ASSUME Exactly' PROVE ExactAt(l)'
      <3>1. ~ busy /\ ~ busy'
        BY <1>1, <2>4 DEF Exactly
      <3>2. op = st
        BY <1>2, <1>6, <3>1 DEF Idle, Harmless
      <3>3. Same(c)'
        BY <1>1, <1>8, <3>1, <3>2 DEF Same
      <3>4. QED BY <1>1, <1>5, <1>8, <1>11, <3>3 DEF ExactAt
    <2>5. QED BY <2>1, <2>2, <2>3, <2>4 DEF At
  <1>17. PICK f : Outline(r, s, f) /\ f[0] = l /\ f[Len(s)] = m
    BY <1>15 DEF Leads
  <1>18. calls' > 0
    BY <1>1, <1>2, NandAssumption DEF Typed
  <1>19. CASE s # <<>>
    <2>1. Running'
      <3>1. Outline(req', todo', f) /\ Ends(req', before', todo', f[Len(todo')])
        BY <1>1, <1>8, <1>14, <1>15, <1>17
      <3>2. At(f[0])'
        BY <1>16, <1>17
      <3>3. QED BY <3>1, <3>2 DEF Running
    <2>2. QED BY <1>1, <1>4, <1>14, <1>18, <1>19, <2>1 DEF Inv
  <1>20. CASE s = <<>>
    <2>1. m = l
      BY <1>17, <1>20
    <2>2. AtRest(m) /\ (m.chip.ok => Result(r, cells, m.chip))
      BY <1>8, <1>15, <1>20 DEF Ends
    <2>3. At(m)'
      BY <1>16, <2>1
    <2>4. m.chip.ok => Result(req', before', m.chip)
      BY <1>1, <2>2
    <2>5. Idle'
      BY <1>18, <2>2, <2>3, <2>4, LastStep
    <2>6. QED BY <1>1, <1>4, <1>14, <1>20, <2>5 DEF Inv
  <1>21. QED BY <1>19, <1>20

(* The chip gets ready, between two calls or within one. *)
LEMMA ReadyStep ==
  ASSUME Inv, ChipReady
  PROVE  Inv'
  <1>1. /\ busy /\ busy' = FALSE /\ op' = (IF op = "read" THEN op ELSE "none")
        /\ UNCHANGED <<todo, req, ret, high, outputs, bus, pageBuf, user, bblist, area, cycles, reg, col,
                       cells, calls,
                       faults, before, late, broken>>
    BY DEF ChipReady, driver, gpio, buffers, obs
  <1>2. CASE todo = <<>>
    <2>1. Typed /\ Idle /\ ret \in {"none", "ok", "fail", "invalid"}
      BY <1>2 DEF Inv
    <2>2. Typed'
      BY <1>1, <2>1 DEF Typed, ChipTyped
    <2>3. Harmless'
      BY <1>1, <2>1 DEF Typed, ChipTyped, Harmless
    <2>4. Spared'
      <3>1. Target(req)' = Target(req)
        BY <1>1 DEF Target, Pack
      <3>2. QED BY <1>1, <2>1, <3>1 DEF Idle, Spared
    <2>5. ASSUME ret' = "ok", Exactly'
          PROVE  Result(req', before', [list |-> bblist', user |-> user', cells |-> cells'])
      <3>1. ret = "ok" /\ Exactly
        BY <1>1, <2>5 DEF Exactly
      <3>2. Result(req, before, [list |-> bblist, user |-> user, cells |-> cells])
        BY <2>1, <3>1 DEF Idle
      <3>3. [list |-> bblist', user |-> user', cells |-> cells'] = [list |-> bblist, user |-> user, cells |-> cells]
        BY <1>1
      <3>4. req' = req /\ before' = before
        BY <1>1
      <3>5. QED BY <3>2, <3>3, <3>4
    <2>6. Idle'
      BY <1>1, <2>1, <2>3, <2>4, <2>5 DEF Idle
    <2>7. QED BY <1>1, <1>2, <2>1, <2>2, <2>6 DEF Inv
  <1>3. CASE todo # <<>>
    <2>1. Typed /\ Running /\ calls > 0 /\ ret = "none" /\ req \in Request
      BY <1>3 DEF Inv
    <2>2. PICK r, s, b : r = req /\ s = todo /\ b = before
      OBVIOUS
    <2>3. PICK st : Outline(r, s, st) /\ At(st[0]) /\ Ends(r, b, s, st[Len(s)])
      BY <2>1, <2>2 DEF Running
    <2>4. s \in Seq(Operation) /\ st[0] \in Label
      BY <2>3 DEF Outline
    <2>5. PICK l \in Label : l = st[0]
      BY <2>4
    <2>6. Typed' /\ At(l)'
      BY <2>1, <2>3, <2>5, StepChip
    <2>7. Running'
      <3>1. Outline(req', todo', st) /\ Ends(req', before', todo', st[Len(todo')])
        BY <1>1, <2>2, <2>3
      <3>2. At(st[0])'
        BY <2>5, <2>6
      <3>3. QED BY <3>1, <3>2 DEF Running
    <2>8. QED BY <1>1, <1>3, <2>1, <2>6, <2>7 DEF Inv
  <1>4. QED BY <1>2, <1>3

(* A cell changes between two calls. *)
LEMMA ErrorStep ==
  ASSUME Inv, BitError
  PROVE  Inv'
  <1>1. /\ faults < MaxFaults /\ faults' = faults + 1 /\ todo = <<>> /\ before' = cells' /\ ret' = "none"
        /\ UNCHANGED <<todo, req, high, outputs, bus, pageBuf, user, bblist, area, op, cycles, reg, col,
                       busy, calls, late, broken>>
    BY DEF BitError, gpio, buffers
  <1>2. Typed /\ Idle
    BY <1>1 DEF Inv
  <1>3. cells' \in [Row -> PageImage]
    <2>1. PICK q \in Row, i \in 1 .. PARTS, v \in Value : cells' = [cells EXCEPT ![q][i] = v]
      BY DEF BitError
    <2>2. cells \in [Row -> PageImage] /\ cells[q] \in PageImage
      BY <1>2 DEF Typed, ChipTyped
    <2>3. [cells[q] EXCEPT ![i] = v] \in PageImage
      BY <2>2 DEF PageImage
    <2>4. cells' = [cells EXCEPT ![q] = [cells[q] EXCEPT ![i] = v]]
      BY <2>1
    <2>5. QED BY <2>2, <2>3, <2>4
  <1>4. Typed'
    <2>1. faults' \in 0 .. MaxFaults
      BY <1>1, <1>2, NandAssumption DEF Typed
    <2>2. QED BY <1>1, <1>2, <1>3, <2>1 DEF Typed, ChipTyped
  <1>5. Idle'
    BY <1>1, <1>2 DEF Idle, Harmless, Spared
  <1>6. QED BY <1>1, <1>4, <1>5 DEF Inv

(* Nothing happens. *)
LEMMA StutterStep ==
  ASSUME Inv, UNCHANGED vars
  PROVE  Inv'
  <1>1. UNCHANGED <<todo, req, ret, high, outputs, bus, pageBuf, user, bblist, area, op, cycles, reg, col,
                    busy, cells,
                    calls, faults, before, late, broken>>
    BY DEF vars, driver, gpio, buffers, chip, obs
  <1>2. Typed' = Typed /\ Idle' = Idle /\ Running' = Running
    BY <1>1 DEF Typed, ChipTyped, Idle, Harmless, Spared, Exactly, Running, At, PinsAt, Weak, ExactAt, Same
  <1>3. QED BY <1>1, <1>2 DEF Inv

(* The invariant holds throughout: every action preserves it. *)
LEMMA AlwaysInv == Spec => []Inv
  <1>1. ASSUME Inv, [Next]_vars
        PROVE  Inv'
    <2>1. ASSUME NEW r \in Request, Call(r) PROVE Inv'
      BY <1>1, <2>1, CallStep
    <2>2. CASE Do
      BY <1>1, <2>2, DoStep
    <2>3. CASE ChipReady
      BY <1>1, <2>3, ReadyStep
    <2>4. CASE BitError
      BY <1>1, <2>4, ErrorStep
    <2>5. CASE Finished \/ UNCHANGED vars
      BY <1>1, <2>5, StutterStep DEF Finished
    <2>6. QED BY <1>1, <2>1, <2>2, <2>3, <2>4, <2>5 DEF Next
  <1>2. QED BY <1>1, InitStep, PTL DEF Spec

(* Where a call is tells which operation may be next. *)
LEMMA NextAllowed ==
  ASSUME Inv, todo # <<>>
  PROVE  \E l \in Label : At(l) /\ Allowed(req, Head(todo), l)
  <1>1. PICK r, s : r = req /\ s = todo
    OBVIOUS
  <1>2. PICK st : Outline(r, s, st) /\ At(st[0])
    BY <1>1 DEF Inv, Running
  <1>3. s \in Seq(Operation) /\ st \in [0 .. Len(s) -> Label]
    BY <1>2 DEF Outline
  <1>4. 1 \in 1 .. Len(s) /\ 0 \in 0 .. Len(s) /\ 1 - 1 = 0 /\ s[1] = Head(s)
    BY <1>1, <1>3
  <1>5. Allowed(r, s[1], st[0]) /\ st[0] \in Label
    BY <1>2, <1>3, <1>4 DEF Outline
  <1>6. QED BY <1>1, <1>2, <1>4, <1>5

(* Every variable keeps its type, and the next operation of a running call never
   reaches outside its buffer, whatever the geometry, the requests and the number
   of calls and faults (the byte loops of evm66x_nand.c index data by a counter). *)
THEOREM TypeCorrect == Spec => []TypeOK
  <1>1. ASSUME Inv
        PROVE  TypeOK
    <2>1. Typed /\ ret \in {"none", "ok", "fail", "invalid"}
      BY <1>1 DEF Inv
    <2>2. ASSUME todo # <<>>, Head(todo).do \in {"get", "putfrom"}
          PROVE  Head(todo).at \in Place
      <3>1. PICK l \in Label : Allowed(req, Head(todo), l)
        BY <1>1, <2>2, NextAllowed
      <3>2. QED BY <2>2, <3>1 DEF Allowed, Computation
    <2>3. {busy, late, broken} \subseteq BOOLEAN
      BY <2>1 DEF Typed, ChipTyped
    <2>4. QED BY <2>1, <2>2, <2>3 DEF TypeOK, Typed, ChipTyped, PageImage, Pins, Lines
  <1>2. QED BY <1>1, AlwaysInv, PTL

(* The processor never drives the data lines while the selected chip drives them,
   in no step of any call: every turn of the GPIO direction registers is on the safe
   side of the read strobe, on every path of every call, a timed-out one included. *)
THEOREM PinsKeptSafe == Spec => []PinsSafe
  <1>1. ASSUME Inv
        PROVE  PinsSafe
    <2>1. CASE todo = <<>>
      <3>1. Idle /\ Typed
        BY <1>1, <2>1 DEF Inv
      <3>2. CASE calls = 0 /\ outputs = {}
        BY <3>2 DEF PinsSafe, Low, Pulled
      <3>3. CASE outputs = Lines /\ high \cup {"NCE"} = Rest
        <4>1. "NRE" \in high /\ "NRE" \in outputs /\ "NCE" \in outputs
          BY <3>3 DEF Rest, Lines, Pins
        <4>2. ~ Drives /\ (Low("NCE") => "NCE" \notin high)
          BY <4>1 DEF Drives, Low
        <4>3. QED BY <3>1, <4>2 DEF Idle, PinsSafe
      <3>4. QED BY <3>1, <3>2, <3>3 DEF Idle
    <2>2. CASE todo # <<>>
      <3>1. PICK l \in Label : At(l) /\ Allowed(req, Head(todo), l)
        BY <1>1, <2>2, NextAllowed
      <3>2. PinsAt(l) /\ SafePins(l)
        BY <3>1 DEF At, Allowed
      <3>3. ASSUME Drives, "bus" \in outputs
            PROVE  FALSE
        <4>1. Low("NCE") /\ Low("NRE") /\ ~ Low("NWE")
          BY <3>3 DEF Drives
        <4>2. Selected(l) /\ IsLow(l, "NRE") /\ ~ IsLow(l, "NWE")
          BY <3>2, <4>1, SameLevel
        <4>3. "bus" \in l.outputs
          BY <3>2, <3>3 DEF PinsAt
        <4>4. QED BY <3>2, <4>2, <4>3 DEF SafePins
      <3>4. QED BY <2>2, <3>3 DEF PinsSafe
    <2>3. QED BY <2>1, <2>2
  <1>2. QED BY <1>1, AlwaysInv, PTL

(* Between calls nothing but the rows the last request may touch has changed, and
   a call that reports success, with no wait given up and no more bits in error than
   the code corrects, has done exactly what it was asked: the rows read, programmed,
   erased or marked are the addressed ones, for every page and block number. *)
THEOREM EveryCallExact == Spec => []CallsExact
  <1>1. ASSUME Inv
        PROVE  CallsExact
    <2>1. SUFFICES ASSUME todo = <<>>, ret # "none"
                   PROVE  /\ \A q \in Row \ Target(req) : cells[q] = before[q]
                          /\ (ret = "ok" /\ ~ late /\ ~ broken) =>
                               Result(req, before, [list |-> bblist, user |-> user, cells |-> cells])
      <3>1. PICK e : e = [list |-> bblist, user |-> user, cells |-> cells]
        OBVIOUS
      <3>2. e.list = bblist /\ e.user = user /\ e.cells = cells
        BY <3>1
      <3>3. QED BY <3>1, <3>2 DEF CallsExact, Result
    <2>2. Idle
      BY <1>1, <2>1 DEF Inv
    <2>3. QED BY <2>2 DEF Idle, Spared, Exactly
  <1>2. QED BY <1>1, AlwaysInv, PTL

==============================================================================
