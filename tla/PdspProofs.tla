----------------------------- MODULE PdspProofs -----------------------------
(***************************************************************************)
(* Theorems about Pdsp, for any set of calls and any number of them: the   *)
(* type invariant, that the firmware obeys whole commands, and that a      *)
(* channel programmed while no command was pending has been programmed.    *)
(***************************************************************************)
EXTENDS Pdsp, TLAPS

(* The firmware has fetched nothing of a command unless it is fetching. *)
Typed ==
  /\ TypeOK
  /\ fwpc = "fetch" \/ fetched = <<>>

LEMMA InitTyped == Init => Typed
  BY PdspAssumption DEF Init, Typed, TypeOK, Word, Content, Clear

LEMMA CallTyped == ASSUME Typed, NEW k \in Kinds, Call(k) PROVE Typed'
  BY PdspAssumption DEF Typed, TypeOK, Call, Word, Content, Clear, Sync, LastWord, Loaded

LEMMA CoreTyped == ASSUME Typed, CoreStep PROVE Typed'
  <1> USE DEF Typed, TypeOK
  <1>1. CASE WriteWord
    <2>1. calls \in Content
      BY <1>1, PdspAssumption DEF WriteWord, Content, Clear
    <2>2. QED BY <1>1, <2>1, PdspAssumption DEF WriteWord, Word
  <1>2. CASE Wait
    BY <1>2 DEF Wait
  <1>3. CASE Disable \/ Confirm
    BY <1>3 DEF Disable, Confirm
  <1>4. CASE Copy
    BY <1>4 DEF Copy
  <1>5. CASE Synchronize
    BY <1>5 DEF Synchronize, Word, Content, Clear, Sync
  <1>6. CASE ResetPdsp
    BY <1>6 DEF ResetPdsp
  <1>7. CASE Enable
    BY <1>7 DEF Enable
  <1>8. QED BY <1>1, <1>2, <1>3, <1>4, <1>5, <1>6, <1>7 DEF CoreStep

LEMMA Below == ASSUME NEW n \in Nat, n < 5 PROVE n \in Word
  BY DEF Word

LEMMA PdspTyped == ASSUME Typed, PdspStep PROVE Typed'
  <1> USE DEF Typed, TypeOK
  <1>1. CASE Follow
    BY <1>1 DEF Follow, core
  <1>2. CASE Boot
    BY <1>2 DEF Boot, core, Word, Content, Clear
  <1>3. CASE Fetch
    <2>1. fetched \in Seq(Content) /\ Len(fetched) \in Nat /\ Len(fetched) < 5
      BY <1>3 DEF Fetch
    <2>2. cmd[Len(fetched)] \in Content
      <3>1. Len(fetched) \in Word
        BY <2>1, Below
      <3>2. cmd \in [Word -> Content]
        OBVIOUS
      <3>3. QED BY <3>1, <3>2
    <2>3. fetched' \in Seq(Content) /\ Len(fetched') = Len(fetched) + 1
      BY <1>3, <2>1, <2>2 DEF Fetch
    <2>4. Len(fetched') <= 5
      BY <2>1, <2>3
    <2>5. QED BY <1>3, <2>3, <2>4 DEF Fetch, core
  <1>4. CASE Obey
    BY <1>4 DEF Obey, core, Word, Content, Clear
  <1>5. QED BY <1>1, <1>2, <1>3, <1>4 DEF PdspStep

LEMMA NextTyped == Typed /\ [Next]_vars => Typed'
  <1> SUFFICES ASSUME Typed, [Next]_vars PROVE Typed'
    OBVIOUS
  <1>1. CASE UNCHANGED vars
    BY <1>1 DEF Typed, TypeOK, vars, core
  <1>2. QED BY <1>1, CallTyped, CoreTyped, PdspTyped DEF Next

(* The words, the fetched command and the bookkeeping of the calls always  *)
(* have their types, however often and whenever calls are made.            *)
THEOREM TypeCorrect == Spec => []TypeOK
  <1>1. Spec => []Typed
    BY InitTyped, NextTyped, PTL DEF Spec
  <1>2. Typed => TypeOK
    BY DEF Typed
  <1>3. QED BY <1>1, <1>2, PTL

-----------------------------------------------------------------------------
(* The inductive invariant of the commands *)

Downloading == pc \in {"halt", "confirm", "copy", "sync", "reset", "enable"}

(* Until its firmware has started the PDSP is off, or the download that    *)
(* starts it is in its last steps and has put the sync word.               *)
BootInv ==
  /\ fwpc # "boot" => Loaded /\ ~ Downloading /\ cmd[0] # Sync
  /\ ~ Loaded \/ Downloading => enabled = FALSE /\ running = FALSE
  /\ Downloading => calls > 0 /\ kind[calls] = "download"
  /\ pc \in {"sync", "reset", "enable"} => Loaded
  /\ fwpc = "boot" /\ Loaded =>
       /\ calls > 0 /\ kind[calls] = "download"
       /\ pc \in {"sync", "reset", "enable", "wait"}
       /\ pc # "sync" => cmd[0] = Sync

(* What is known of call c once its first word can be fetched: its words   *)
(* are complete until another call is made, which "program" does not allow *)
(* and which finds the command byte set.                                   *)
Settled(c) ==
  IF c = calls
  THEN /\ pc # "write"
       /\ kind[c] = "program" => pc = "wait"
       /\ \A i \in Used(kind[c]) : cmd[i] = c
  ELSE kind[c] # "program" /\ ~ prompt[c + 1]

Pending == cmd[0] <= calls /\ (cmd[0] \in 1 .. calls => Settled(cmd[0]))

(* The words are written from the last one down to next. *)
Writing ==
  pc = "write" =>
    /\ calls > 0 /\ kind[calls] # "download" /\ cmd[0] # calls
    /\ next <= LastWord(kind[calls])
    /\ \A i \in Word : next < i /\ i <= LastWord(kind[calls]) => cmd[i] = calls

(* The command byte stays set until the command is obeyed. *)
Fetching ==
  fwpc = "fetch" =>
    /\ cmd[0] \in 1 .. calls /\ Len(fetched) > 0
    /\ fetched[1] \in 1 .. calls /\ Settled(fetched[1])
    /\ fetched[1] = calls =>
         \A i \in Used(kind[calls]) : i < Len(fetched) => fetched[i + 1] = calls

Intact(command) ==
  /\ command[1] \in 1 .. calls
  /\ kind[command[1]] = "program" \/ Undisturbed(command[1]) =>
       \A i \in Used(kind[command[1]]) : command[i + 1] = command[1]

(* A channel programmed while no command was pending is not forgotten. *)
PromptInv ==
  calls > 0 /\ prompt[calls] /\ kind[calls] = "program" =>
    /\ pc = "write" => cmd[0] = Clear /\ fwpc # "fetch"
    /\ pc = "wait" => \/ cmd[0] = calls /\ (fwpc = "fetch" => fetched[1] = calls)
                      \/ Obeyed(calls)
    /\ pc = "idle" => Obeyed(calls)

CommandInv ==
  Typed /\ BootInv /\ Pending /\ Writing /\ Fetching /\ CommandsIntact /\ PromptInv

LEMMA InitCommand == Init => CommandInv
  <1> SUFFICES ASSUME Init PROVE CommandInv
    OBVIOUS
  <1>1. Typed
    BY InitTyped
  <1>2. cmd[0] = Clear /\ obeyed = <<>> /\ calls = 0 /\ pc = "idle" /\ fwpc # "fetch"
    BY DEF Init, Word
  <1>3. BootInv
    BY <1>2 DEF Init, BootInv, Downloading, Loaded, Clear, Sync
  <1>4. Pending /\ Writing /\ Fetching /\ CommandsIntact /\ PromptInv
    BY <1>2 DEF Pending, Writing, Fetching, CommandsIntact, PromptInv, Clear
  <1>5. QED BY <1>1, <1>3, <1>4 DEF CommandInv

(* The facts of the type invariant that the lemmas below need. *)
LEMMA Shape ==
  ASSUME Typed
  PROVE  /\ calls \in Nat
         /\ kind \in Seq(Kinds) /\ Len(kind) = calls
         /\ prompt \in Seq(BOOLEAN) /\ Len(prompt) = calls
         /\ fetched \in Seq(Content) /\ obeyed \in Seq(Seq(Content))
         /\ cmd \in [Word -> Content] /\ next \in 0 .. 4
         /\ fwpc \in {"boot", "poll", "fetch"}
  BY PdspAssumption DEF Typed, TypeOK, Word

LEMMA IntactAll == CommandsIntact <=> \A n \in 1 .. Len(obeyed) : Intact(obeyed[n])
  BY DEF CommandsIntact, Intact, Writer

(* A new call does not change what earlier ones were. *)
LEMMA CallKeeps ==
  ASSUME Typed, NEW k \in Kinds, Call(k)
  PROVE  /\ calls' = calls + 1
         /\ \A c \in 1 .. calls : kind'[c] = kind[c] /\ prompt'[c] = prompt[c]
         /\ kind'[calls'] = k /\ prompt'[calls'] = (cmd[0] = Clear)
  BY Shape DEF Call

LEMMA CallCommand == ASSUME CommandInv, NEW k \in Kinds, Call(k) PROVE CommandInv'
  <1> USE DEF CommandInv
  <1>1. Typed'
    BY CallTyped
  <1>2. PICK cs \in Nat : cs = calls
    BY Shape
  <1>3. /\ calls' = cs + 1 /\ pc = "idle"
        /\ \A c \in 1 .. cs : kind'[c] = kind[c] /\ prompt'[c] = prompt[c]
        /\ kind'[cs + 1] = k /\ prompt'[cs + 1] = (cmd[0] = Clear)
    BY <1>2, CallKeeps DEF Call
  <1>4. cmd' = cmd /\ fwpc' = fwpc /\ fetched' = fetched /\ obeyed' = obeyed
    BY DEF Call
  <1>5. BootInv'
    <2>1. /\ enabled' = enabled /\ running' = running /\ iram' = iram
          /\ k = "download" => ~ Loaded
          /\ pc' = IF k = "download" THEN "halt" ELSE "write"
      BY DEF Call
    <2>2. QED BY <1>2, <1>3, <1>4, <2>1 DEF BootInv, Downloading, Loaded
  <1>6. ASSUME NEW c \in 1 .. cs, Settled(c), cmd[0] # Clear PROVE Settled(c)'
    <2>1. c + 1 \in 1 .. cs + 1 /\ c # cs + 1
      OBVIOUS
    <2>2. kind[c] # "program"
      BY <1>2, <1>3, <1>6 DEF Settled
    <2>3. ~ prompt'[c + 1]
      <3>1. CASE c = cs
        BY <1>3, <1>6, <3>1
      <3>2. CASE c # cs
        BY <1>2, <1>3, <1>6, <3>2 DEF Settled
      <3>3. QED BY <3>1, <3>2
    <2>4. QED BY <1>3, <2>1, <2>2, <2>3 DEF Settled
  <1>7. Pending'
    <2>1. cmd[0] \in Int /\ cmd[0] <= cs /\ (cmd[0] \in 1 .. cs => Settled(cmd[0]))
      BY <1>2, Shape DEF Pending, Word, Content, Clear, Sync
    <2>2. cmd[0] \in 1 .. cs + 1 => cmd[0] \in 1 .. cs /\ cmd[0] # Clear
      BY <2>1 DEF Clear
    <2>3. cmd[0] \in 1 .. cs + 1 => Settled(cmd[0])'
      BY <1>4, <1>6, <2>1, <2>2
    <2>4. QED BY <1>3, <1>4, <2>1, <2>3 DEF Pending
  <1>8. Writing'
    <2>1. cmd[0] # cs + 1
      BY <1>2, Shape DEF Pending, Word, Content, Clear, Sync
    <2>2. pc' = "write" => k # "download" /\ next' = LastWord(k)
      BY DEF Call
    <2>3. \A i \in Word : ~ (LastWord(k) < i /\ i <= LastWord(k))
      BY DEF Word, LastWord
    <2>4. QED BY <1>2, <1>3, <1>4, <2>1, <2>2, <2>3 DEF Writing, Word, LastWord
  <1>9. Fetching'
    <2>1. SUFFICES ASSUME fwpc = "fetch" PROVE Fetching'
      BY <1>4 DEF Fetching
    <2>2. cmd[0] \in 1 .. cs /\ fetched[1] \in 1 .. cs /\ Len(fetched) > 0 /\ Settled(fetched[1])
      BY <1>2, <2>1 DEF Fetching
    <2>3. Settled(fetched[1])'
      BY <1>4, <1>6, <2>2 DEF Clear
    <2>4. cmd[0] \in 1 .. cs + 1 /\ fetched[1] \in 1 .. cs + 1 /\ fetched[1] # cs + 1
      BY <2>2
    <2>5. QED BY <1>3, <1>4, <2>2, <2>3, <2>4 DEF Fetching
  <1>10. ASSUME NEW f, Intact(f) PROVE Intact(f)'
    <2>1. PICK c \in 1 .. cs : c = f[1]
      BY <1>2, <1>10 DEF Intact
    <2>2. c \in 1 .. cs + 1 /\ ~ c >= cs + 1 /\ kind'[c] = kind[c]
      BY <1>3, <2>1
    <2>3. Undisturbed(c)' => Undisturbed(c)
      <3>1. CASE c = cs
        BY <1>2, <3>1 DEF Undisturbed
      <3>2. CASE c # cs
        BY <1>2, <1>3, <2>1, <2>2, <3>2 DEF Undisturbed
      <3>3. QED BY <3>1, <3>2
    <2>4. QED BY <1>2, <1>3, <1>10, <2>1, <2>2, <2>3 DEF Intact
  <1>11. CommandsIntact'
    <2>1. \A n \in 1 .. Len(obeyed) : Intact(obeyed[n])'
      BY <1>4, <1>10, IntactAll
    <2>2. CommandsIntact' <=> \A n \in 1 .. Len(obeyed)' : Intact(obeyed[n])'
      BY DEF CommandsIntact, Intact, Writer
    <2>3. QED BY <1>4, <2>1, <2>2
  <1>12. PromptInv'
    <2>1. pc' \in {"write", "halt"} /\ (k # "download" => pc' = "write")
      BY DEF Call
    <2>2. cmd[0] = Clear => fwpc # "fetch"
      BY <1>2 DEF Fetching, Clear
    <2>3. QED BY <1>3, <1>4, <2>1, <2>2 DEF PromptInv
  <1>13. QED BY <1>1, <1>5, <1>7, <1>8, <1>9, <1>11, <1>12

(* Commands that have been obeyed stay what they are when no call is made. *)
LEMMA IntactStays ==
  ASSUME CommandsIntact, UNCHANGED <<calls, kind, prompt, obeyed>>
  PROVE  CommandsIntact'
  BY DEF CommandsIntact, Writer, Undisturbed

LEMMA WriteCommand == ASSUME CommandInv, WriteWord PROVE CommandInv'
  <1> USE DEF CommandInv
  <1>1. Typed'
    BY CoreTyped DEF CoreStep
  <1>2. PICK cs \in Nat : cs = calls
    BY Shape
  <1>3. /\ pc = "write" /\ next \in 0 .. 4 /\ cs > 0 /\ kind[cs] # "download" /\ cmd[0] # cs
        /\ next <= LastWord(kind[cs])
        /\ \A i \in Word : next < i /\ i <= LastWord(kind[cs]) => cmd[i] = cs
    BY <1>2, Shape DEF WriteWord, Writing
  <1>4. /\ next' = (IF next = 0 THEN 0 ELSE next - 1)
        /\ pc' = IF next > 0 THEN "write" ELSE IF kind[cs] = "program" THEN "wait" ELSE "idle"
        /\ UNCHANGED <<enabled, running, iram, fwpc, fetched, calls, kind, prompt, obeyed>>
    BY <1>2 DEF WriteWord
  <1>5. cmd' = [cmd EXCEPT ![next] = cs] /\ cmd \in [Word -> Content] /\ next \in Word
    BY <1>2, Shape DEF WriteWord, Word
  <1>6. /\ next = 0 => cmd'[0] = cs
        /\ next > 0 => cmd'[0] = cmd[0]
        /\ \A i \in Word : next < i /\ i <= LastWord(kind[cs]) => cmd'[i] = cs
        /\ cmd'[next] = cs
    BY <1>3, <1>5 DEF Word
  <1>7. BootInv'
    BY <1>2, <1>3, <1>4, <1>6 DEF BootInv, Downloading, Loaded, Sync
  <1>8. ASSUME NEW c \in 1 .. cs, c # cs, Settled(c) PROVE Settled(c)'
    BY <1>2, <1>4, <1>8 DEF Settled
  <1>9. CASE next > 0
    <2>1. pc' = "write" /\ next' = next - 1 /\ cmd'[0] = cmd[0] /\ cmd[0] \in Int
      BY <1>4, <1>6, <1>9, Shape DEF Word, Content, Clear, Sync
    <2>2. Pending'
      BY <1>2, <1>3, <1>4, <1>8, <2>1 DEF Pending
    <2>3. Writing'
      <3>1. ASSUME NEW i \in Word, next - 1 < i, i <= LastWord(kind[cs]) PROVE cmd'[i] = cs
        <4>1. i = next \/ next < i
          BY <1>3, <3>1 DEF Word
        <4>2. QED BY <1>6, <3>1, <4>1
      <3>2. next - 1 <= LastWord(kind[cs])
        BY <1>3 DEF LastWord
      <3>3. QED BY <1>2, <1>3, <1>4, <2>1, <3>1, <3>2 DEF Writing
    <2>4. Fetching'
      <3>1. ASSUME fwpc = "fetch" PROVE fetched[1] # cs
        BY <1>2, <1>3, <3>1 DEF Fetching, Settled
      <3>2. QED BY <1>2, <1>4, <1>8, <2>1, <3>1 DEF Fetching
    <2>5. CommandsIntact'
      BY <1>4, IntactStays
    <2>6. PromptInv'
      BY <1>2, <1>3, <1>4, <2>1 DEF PromptInv
    <2>7. QED BY <1>1, <1>7, <2>2, <2>3, <2>4, <2>5, <2>6
  <1>10. CASE next = 0
    <2>1. cmd'[0] = cs /\ pc' # "write" /\ (kind[cs] = "program" => pc' = "wait")
      BY <1>4, <1>6, <1>10
    <2>2. Pending'
      <3>1. \A i \in Used(kind[cs]) : cmd'[i] = cs
        <4>1. \A i \in Used(kind[cs]) : i \in Word /\ i <= LastWord(kind[cs])
          BY DEF Used, LastWord, Word
        <4>2. QED BY <1>6, <1>10, <2>1, <4>1 DEF Word
      <3>2. Settled(cs)'
        BY <1>2, <1>4, <2>1, <3>1 DEF Settled
      <3>3. QED BY <1>2, <1>4, <2>1, <3>2 DEF Pending
    <2>3. Writing'
      BY <2>1 DEF Writing
    <2>4. Fetching'
      <3>1. ASSUME fwpc = "fetch" PROVE fetched[1] # cs
        BY <1>2, <1>3, <3>1 DEF Fetching, Settled
      <3>2. QED BY <1>2, <1>3, <1>4, <1>8, <2>1, <3>1 DEF Fetching
    <2>5. CommandsIntact'
      BY <1>4, IntactStays
    <2>6. PromptInv'
      BY <1>2, <1>3, <1>4, <2>1, <1>10 DEF PromptInv
    <2>7. QED BY <1>1, <1>7, <2>2, <2>3, <2>4, <2>5, <2>6
  <1>11. QED BY <1>3, <1>9, <1>10

LEMMA WaitCommand == ASSUME CommandInv, Wait PROVE CommandInv'
  <1> USE DEF CommandInv
  <1>1. Typed'
    BY CoreTyped DEF CoreStep
  <1>2. /\ pc = "wait" /\ cmd[0] = Clear /\ pc' = "idle"
        /\ UNCHANGED <<cmd, enabled, running, iram, fwpc, fetched, calls, kind, prompt, next, obeyed>>
    BY DEF Wait
  <1>3. fwpc # "fetch" /\ cmd[0] \notin 1 .. calls
    BY <1>2 DEF Fetching, Clear
  <1>4. BootInv'
    BY <1>2 DEF BootInv, Downloading, Loaded, Clear, Sync
  <1>5. Pending' /\ Writing' /\ Fetching'
    BY <1>2, <1>3 DEF Pending, Writing, Fetching
  <1>6. CommandsIntact'
    BY <1>2, IntactStays
  <1>7. PromptInv'
    <2>1. PICK cs \in Nat : cs = calls
      BY Shape
    <2>2. cs > 0 => cmd[0] # cs
      BY <1>2 DEF Clear
    <2>3. Obeyed(cs)' = Obeyed(cs)
      BY <1>2 DEF Obeyed
    <2>4. QED BY <1>2, <2>1, <2>2, <2>3 DEF PromptInv
  <1>8. QED BY <1>1, <1>4, <1>5, <1>6, <1>7

LEMMA DownloadCommand ==
  ASSUME CommandInv, Disable \/ Confirm \/ Copy \/ Synchronize \/ ResetPdsp \/ Enable
  PROVE  CommandInv'
  <1> USE DEF CommandInv
  <1>1. Typed'
    BY CoreTyped DEF CoreStep
  <1>2. /\ Downloading /\ UNCHANGED <<calls, kind, prompt, obeyed>>
        /\ pc' # "write" /\ pc' # "idle" /\ fwpc' = "boot"
        /\ cmd' = cmd \/ cmd' = [cmd EXCEPT ![0] = Sync]
    BY DEF Disable, Confirm, Copy, Synchronize, ResetPdsp, Enable, Downloading, BootInv
  <1>3. fwpc = "boot" /\ calls > 0 /\ kind[calls] = "download"
    BY <1>2 DEF BootInv
  <1>4. BootInv'
    <2>1. CASE Disable \/ Confirm \/ Copy
      BY <1>2, <1>3, <2>1 DEF Disable, Confirm, Copy, BootInv, Downloading, Loaded
    <2>2. CASE Synchronize
      BY <1>2, <1>3, <2>2, Shape DEF Synchronize, BootInv, Downloading, Loaded, Word
    <2>3. CASE ResetPdsp \/ Enable
      BY <1>2, <1>3, <2>3 DEF ResetPdsp, Enable, BootInv, Downloading, Loaded
    <2>4. QED BY <2>1, <2>2, <2>3
  <1>5. Pending'
    <2>1. ASSUME cmd' = cmd PROVE Pending'
      <3>1. ASSUME NEW c \in 1 .. calls, Settled(c) PROVE Settled(c)'
        BY <1>2, <1>3, <2>1, <3>1 DEF Settled
      <3>2. QED BY <1>2, <2>1, <3>1 DEF Pending
    <2>2. ASSUME cmd' = [cmd EXCEPT ![0] = Sync] PROVE Pending'
      BY <1>2, <2>2, Shape DEF Pending, Sync, Word
    <2>3. QED BY <1>2, <2>1, <2>2
  <1>6. Writing' /\ Fetching' /\ PromptInv'
    BY <1>2, <1>3 DEF Writing, Fetching, PromptInv
  <1>7. CommandsIntact'
    BY <1>2, IntactStays
  <1>8. QED BY <1>1, <1>4, <1>5, <1>6, <1>7

LEMMA FollowCommand == ASSUME CommandInv, Follow PROVE CommandInv'
  <1> USE DEF CommandInv
  <1>1. Typed'
    BY PdspTyped DEF PdspStep
  <1>2. UNCHANGED <<cmd, enabled, iram, fwpc, fetched, calls, kind, prompt, pc, next, obeyed>> /\ running' = enabled
    BY DEF Follow, core
  <1>3. BootInv'
    BY <1>2 DEF BootInv, Downloading, Loaded
  <1>4. Pending' /\ Writing' /\ Fetching'
    BY <1>2 DEF Pending, Writing, Fetching, Settled
  <1>5. CommandsIntact'
    BY <1>2, IntactStays
  <1>6. PromptInv'
    BY <1>2 DEF PromptInv, Obeyed
  <1>7. QED BY <1>1, <1>3, <1>4, <1>5, <1>6

LEMMA BootCommand == ASSUME CommandInv, Boot PROVE CommandInv'
  <1> USE DEF CommandInv
  <1>1. Typed'
    BY PdspTyped DEF PdspStep
  <1>2. /\ running /\ Loaded /\ fwpc = "boot" /\ fwpc' = "poll"
        /\ cmd' = [cmd EXCEPT ![0] = Clear]
        /\ UNCHANGED <<enabled, running, iram, fetched, calls, kind, prompt, pc, next, obeyed>>
    BY DEF Boot, core
  <1>3. cmd'[0] = Clear
    BY <1>2, Shape DEF Word
  <1>4. calls > 0 /\ kind[calls] = "download" /\ pc = "wait" /\ ~ Downloading
    BY <1>2 DEF BootInv, Downloading
  <1>5. BootInv'
    BY <1>2, <1>3, <1>4 DEF BootInv, Downloading, Loaded, Clear, Sync
  <1>6. Pending'
    BY <1>2, <1>3, Shape DEF Pending, Clear
  <1>7. Writing' /\ Fetching' /\ PromptInv'
    BY <1>2, <1>4 DEF Writing, Fetching, PromptInv
  <1>8. CommandsIntact'
    BY <1>2, IntactStays
  <1>9. QED BY <1>1, <1>5, <1>6, <1>7, <1>8

LEMMA FetchCommand == ASSUME CommandInv, Fetch PROVE CommandInv'
  <1> USE DEF CommandInv
  <1>1. Typed'
    BY PdspTyped DEF PdspStep
  <1>2. /\ running /\ Loaded /\ fwpc' = "fetch" /\ fetched' = Append(fetched, cmd[Len(fetched)])
        /\ UNCHANGED <<cmd, enabled, running, iram, calls, kind, prompt, pc, next, obeyed>>
        /\ (fwpc = "poll" /\ cmd[0] # Clear) \/ fwpc = "fetch"
    BY DEF Fetch, core
  <1>3. BootInv'
    BY <1>2 DEF BootInv, Downloading, Loaded
  <1>4. Pending' /\ Writing'
    BY <1>2 DEF Pending, Writing, Settled
  <1>5. CommandsIntact'
    BY <1>2, IntactStays
  <1>6. fetched \in Seq(Content) /\ Len(fetched) \in Nat
    BY Shape
  <1>7. PICK cs \in Nat : cs = calls
    BY Shape
  <1>8. CASE fwpc = "poll"
    <2>1. fetched' = <<cmd[0]>> /\ Len(fetched') = 1 /\ fetched'[1] = cmd[0]
      BY <1>2, <1>6, <1>8 DEF Typed
    <2>2. cmd[0] \in 1 .. cs /\ Settled(cmd[0])
      BY <1>2, <1>7, <1>8, Shape DEF BootInv, Pending, Word, Content, Clear, Sync
    <2>3. Settled(cmd[0])'
      BY <1>2, <2>2 DEF Settled
    <2>4. \A i \in Used(kind[cs]) : i < 1 => i = 0
      BY DEF Used, Word
    <2>5. \A i \in Used(kind[cs]) : i < Len(fetched') => fetched'[i + 1] = fetched'[1]
      BY <2>1, <2>4
    <2>6. Fetching'
      BY <1>2, <1>7, <2>1, <2>2, <2>3, <2>5 DEF Fetching
    <2>7. PromptInv'
      BY <1>2, <1>8, <2>1 DEF PromptInv, Obeyed
    <2>8. QED BY <1>1, <1>3, <1>4, <1>5, <2>6, <2>7
  <1>9. CASE fwpc = "fetch"
    <2>1. /\ cmd[0] \in 1 .. cs /\ Len(fetched) > 0 /\ fetched[1] \in 1 .. cs /\ Settled(fetched[1])
          /\ fetched[1] = cs => \A i \in Used(kind[cs]) : i < Len(fetched) => fetched[i + 1] = cs
      BY <1>7, <1>9 DEF Fetching
    <2>2. fetched'[1] = fetched[1] /\ Len(fetched') = Len(fetched) + 1
      BY <1>2, <1>6, <2>1
    <2>3. Settled(fetched[1])'
      BY <1>2, <2>1, <2>2 DEF Settled
    <2>4. ASSUME fetched[1] = cs, NEW i \in Used(kind[cs]), i < Len(fetched')
          PROVE  fetched'[i + 1] = cs
      <3>1. i \in Nat
        BY DEF Used, Word
      <3>2. CASE i < Len(fetched)
        <4>1. fetched'[i + 1] = fetched[i + 1]
          BY <1>2, <1>6, <3>1, <3>2
        <4>2. QED BY <2>1, <2>4, <3>2, <4>1
      <3>3. CASE i = Len(fetched)
        <4>1. fetched'[i + 1] = cmd[i]
          BY <1>2, <1>6, <3>1, <3>3
        <4>2. cmd[i] = cs
          BY <1>7, <2>1, <2>4 DEF Settled
        <4>3. QED BY <4>1, <4>2
      <3>4. QED BY <1>6, <2>2, <2>4, <3>1, <3>2, <3>3
    <2>5. Fetching'
      <3>1. fetched'[1] = cs => \A i \in Used(kind[cs]) : i < Len(fetched') => fetched'[i + 1] = cs
        BY <2>2, <2>4
      <3>2. Len(fetched') > 0
        BY <1>6, <2>2
      <3>3. fetched'[1] \in 1 .. cs
        BY <2>1, <2>2
      <3>4. QED BY <1>2, <1>7, <2>1, <2>3, <3>1, <3>2, <3>3 DEF Fetching
    <2>6. PromptInv'
      BY <1>2, <1>9, <2>2 DEF PromptInv, Obeyed
    <2>7. QED BY <1>1, <1>3, <1>4, <1>5, <2>5, <2>6
  <1>10. QED BY <1>2, <1>8, <1>9

LEMMA ObeyCommand == ASSUME CommandInv, Obey PROVE CommandInv'
  <1> USE DEF CommandInv
  <1>1. Typed'
    BY PdspTyped DEF PdspStep
  <1>2. /\ running /\ Loaded /\ fwpc = "fetch" /\ Len(fetched) = 5
        /\ fwpc' = "poll" /\ fetched' = <<>> /\ obeyed' = Append(obeyed, fetched)
        /\ cmd' = [cmd EXCEPT ![0] = Clear]
        /\ UNCHANGED <<enabled, running, iram, calls, kind, prompt, pc, next>>
    BY DEF Obey, core
  <1>3. cmd'[0] = Clear /\ \A i \in 1 .. 4 : cmd'[i] = cmd[i]
    BY <1>2, Shape DEF Word
  <1>4. PICK cs \in Nat : cs = calls
    BY Shape
  <1>5. BootInv'
    BY <1>2, <1>3 DEF BootInv, Downloading, Loaded, Clear, Sync
  <1>6. Pending' /\ Fetching'
    BY <1>2, <1>3, <1>4 DEF Pending, Fetching, Clear
  <1>7. Writing'
    <2>1. \A i \in Word : next < i => i \in 1 .. 4
      BY Shape DEF Word
    <2>2. QED BY <1>2, <1>3, <1>4, <2>1 DEF Writing, Clear
  <1>8. PICK c \in 1 .. cs : c = fetched[1]
    BY <1>2, <1>4 DEF Fetching
  <1>9. Intact(fetched)
    <2>1. CASE c = cs
      <3>1. \A i \in Used(kind[c]) : i < 5
        BY DEF Used, Word
      <3>2. QED BY <1>2, <1>4, <1>8, <2>1, <3>1 DEF Fetching, Intact
    <2>2. CASE c # cs
      BY <1>2, <1>4, <1>8, <2>2 DEF Fetching, Settled, Intact, Undisturbed
    <2>3. QED BY <2>1, <2>2
  <1>10. CommandsIntact'
    <2>1. obeyed \in Seq(Seq(Content)) /\ fetched \in Seq(Content) /\ Len(obeyed) \in Nat
      BY Shape
    <2>2. ASSUME NEW n \in 1 .. Len(obeyed') PROVE Intact(obeyed'[n])
      <3>1. CASE n = Len(obeyed) + 1
        BY <1>2, <1>9, <2>1, <3>1
      <3>2. CASE n \in 1 .. Len(obeyed)
        BY <1>2, <2>1, <3>2, IntactAll
      <3>3. QED BY <1>2, <2>1, <3>1, <3>2
    <2>3. QED BY <1>2, <2>2 DEF CommandsIntact, Intact, Writer, Undisturbed
  <1>11. PromptInv'
    <2>1. ASSUME NEW d, Obeyed(d) \/ fetched[1] = d PROVE Obeyed(d)'
      <3>1. obeyed \in Seq(Seq(Content)) /\ Len(obeyed) \in Nat /\ fetched \in Seq(Content)
        BY Shape
      <3>2. Len(obeyed') = Len(obeyed) + 1 /\ obeyed'[Len(obeyed) + 1] = fetched
        BY <1>2, <3>1
      <3>3. \A n \in 1 .. Len(obeyed) : obeyed'[n] = obeyed[n]
        BY <1>2, <3>1
      <3>4. CASE Obeyed(d)
        BY <3>1, <3>2, <3>3, <3>4 DEF Obeyed, Writer
      <3>5. CASE fetched[1] = d
        <4>1. Len(obeyed) + 1 \in 1 .. Len(obeyed')
          BY <3>1, <3>2
        <4>2. Writer(obeyed'[Len(obeyed) + 1], 0) = d
          BY <3>2, <3>5 DEF Writer
        <4>3. QED BY <4>1, <4>2 DEF Obeyed, Writer
      <3>6. QED BY <2>1, <3>4, <3>5
    <2>2. cmd[0] # Clear
      BY <1>2, <1>4 DEF Fetching, Clear
    <2>3. QED BY <1>2, <1>4, <2>1, <2>2 DEF PromptInv
  <1>12. QED BY <1>1, <1>5, <1>6, <1>7, <1>10, <1>11

LEMMA NextCommand == CommandInv /\ [Next]_vars => CommandInv'
  <1> SUFFICES ASSUME CommandInv, [Next]_vars PROVE CommandInv'
    OBVIOUS
  <1>1. CASE UNCHANGED vars
    <2>1. UNCHANGED <<cmd, enabled, running, iram, fwpc, fetched, calls, kind, prompt, pc, next, obeyed>>
      BY <1>1 DEF vars, core
    <2>2. Typed'
      BY <1>1, NextTyped DEF CommandInv
    <2>3. BootInv' /\ Pending' /\ Writing' /\ Fetching'
      BY <2>1 DEF CommandInv, BootInv, Downloading, Loaded, Pending, Writing, Fetching, Settled
    <2>4. CommandsIntact' /\ PromptInv'
      BY <2>1, IntactStays DEF CommandInv, PromptInv, Obeyed
    <2>5. QED BY <2>2, <2>3, <2>4 DEF CommandInv
  <1>2. CASE CoreStep
    BY <1>2, WriteCommand, WaitCommand, DownloadCommand DEF CoreStep
  <1>3. CASE PdspStep
    BY <1>3, FollowCommand, BootCommand, FetchCommand, ObeyCommand DEF PdspStep
  <1>4. QED BY <1>1, <1>2, <1>3, CallCommand DEF Next

(* Words that the firmware obeys together were written by one call, though *)
(* the core writes and the firmware fetches them without a lock            *)
(* (QueueFun.h:156-219): always for program_accumulator, and for the calls *)
(* that do not wait if the next one finds the command byte clear.          *)
THEOREM CommandsAreWhole == Spec => []CommandsIntact
  <1>1. Spec => []CommandInv
    BY InitCommand, NextCommand, PTL DEF Spec
  <1>2. CommandInv => CommandsIntact
    BY DEF CommandInv
  <1>3. QED BY <1>1, <1>2, PTL

(* When program_accumulator has returned, the firmware has obeyed it, if   *)
(* no command was pending when it was called (QueueFun.h:156-190), also    *)
(* after a download that found commands written before it.                 *)
THEOREM PromptCommandsObeyed == Spec => []PromptIsObeyed
  <1>1. Spec => []CommandInv
    BY InitCommand, NextCommand, PTL DEF Spec
  <1>2. CommandInv => PromptIsObeyed
    BY DEF CommandInv, PromptInv, PromptIsObeyed, ReturnedIsObeyed
  <1>3. QED BY <1>1, <1>2, PTL
=============================================================================
