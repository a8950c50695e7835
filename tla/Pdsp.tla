-------------------------------- MODULE Pdsp --------------------------------
(***************************************************************************)
(* One packed data structure processor (PDSP) of the queue manager and the *)
(* DSP core that controls it through QueueFun.h: downloading firmware,     *)
(* programming and disabling accumulator channels, setting the timer.      *)
(* Commands go through five shared words.  The core writes the first word, *)
(* which holds the command byte, last; the firmware polls that byte, takes *)
(* the words it needs, obeys and clears the byte.                          *)
(*                                                                         *)
(* Abstracted: a word holds the number of the call that wrote it, and the  *)
(* firmware image is copied in two steps.  The firmware is external.       *)
(***************************************************************************)
EXTENDS Integers, Sequences

CONSTANTS
  Kinds,     \* the calls the core makes
  MaxCalls   \* bound: how many calls it makes

ASSUME PdspAssumption ==
  /\ Kinds \subseteq {"program", "disable", "timer", "download"}
  /\ MaxCalls \in Nat

Word == 0 .. 4
Clear == 0   \* a word of zeros
Sync == -1   \* 0xffffffff
Content == {Clear, Sync} \cup 1 .. MaxCalls

VARIABLES
  cmd,      \* the command words
  enabled,  \* control register: enable bit
  running,  \* control register: the PDSP has not halted
  iram,     \* its instruction memory: "none", "torn" or "firmware"
  fwpc,     \* the firmware: "boot", "poll" or "fetch"
  fetched,  \* the words it has fetched of the command it obeys
  calls,    \* number of the current or last call
  kind,     \* kind[n]: what call n was
  pc,       \* where the core is in it
  next      \* the word it writes next

(* Observation only: *)
VARIABLES
  prompt,   \* prompt[n]: the command byte was clear when call n was made
  obeyed    \* the commands the firmware has obeyed, as fetched

core == <<calls, kind, prompt, pc, next>>
vars == <<cmd, enabled, running, iram, fwpc, fetched, core, obeyed>>

(* A command writes its words downwards, to the first one, from this one. *)
LastWord(k) == IF k = "timer" THEN 1 ELSE 4

(* The words the firmware looks at: all are set for "program", the channel *)
(* is next to the command byte for "disable".                              *)
Used(k) == IF k = "program" THEN Word ELSE IF k = "timer" THEN {0, 1} ELSE {0}

-----------------------------------------------------------------------------
Init ==
  /\ cmd = [i \in Word |-> Clear]
  /\ \/ enabled = FALSE /\ running = FALSE /\ iram = "none" /\ fwpc = "boot"
     \/ enabled = TRUE /\ running = TRUE /\ iram = "firmware" /\ fwpc = "poll"
  /\ fetched = <<>>
  /\ calls = 0 /\ kind = <<>> /\ prompt = <<>> /\ pc = "idle" /\ next = 0
  /\ obeyed = <<>>

Loaded == iram = "firmware"

(* A call of program_accumulator, disable_accumulator, set_firmware_timer  *)
(* or pdsp_download_firmware, which the repository calls only for a PDSP   *)
(* without firmware.                                                       *)
Call(k) ==
  /\ pc = "idle" /\ calls < MaxCalls
  /\ k = "download" => ~ Loaded
  /\ calls' = calls + 1 /\ kind' = Append(kind, k)
  /\ prompt' = Append(prompt, cmd[0] = Clear)
  /\ pc' = IF k = "download" THEN "halt" ELSE "write"
  /\ next' = LastWord(k)
  /\ UNCHANGED <<cmd, enabled, running, iram, fwpc, fetched, obeyed>>

(* Mutants of WriteWord: the first word is written first; the first word   *)
(* is not written; the counter wraps; nothing is waited for.               *)
WriteFirstWordFirst ==
  /\ pc = "write"
  /\ cmd' = [cmd EXCEPT ![LastWord(kind[calls]) - next] = calls]
  /\ next' = IF next = 0 THEN 0 ELSE next - 1
  /\ pc' = IF next > 0 THEN "write" ELSE IF kind[calls] = "program" THEN "wait" ELSE "idle"
  /\ UNCHANGED <<enabled, running, iram, fwpc, fetched, calls, kind, prompt, obeyed>>
WriteAllButFirst ==
  /\ pc = "write"
  /\ cmd' = IF next = 0 THEN cmd ELSE [cmd EXCEPT ![next] = calls]
  /\ next' = IF next = 0 THEN 0 ELSE next - 1
  /\ pc' = IF next > 0 THEN "write" ELSE IF kind[calls] = "program" THEN "wait" ELSE "idle"
  /\ UNCHANGED <<enabled, running, iram, fwpc, fetched, calls, kind, prompt, obeyed>>
WriteOneTooMany ==
  /\ pc = "write"
  /\ cmd' = [cmd EXCEPT ![next] = calls]
  /\ next' = next - 1
  /\ pc' = IF next > 0 THEN "write" ELSE IF kind[calls] = "program" THEN "wait" ELSE "idle"
  /\ UNCHANGED <<enabled, running, iram, fwpc, fetched, calls, kind, prompt, obeyed>>
WriteWithoutWait ==
  /\ pc = "write"
  /\ cmd' = [cmd EXCEPT ![next] = calls]
  /\ next' = IF next = 0 THEN 0 ELSE next - 1
  /\ pc' = IF next > 0 THEN "write" ELSE "idle"
  /\ UNCHANGED <<enabled, running, iram, fwpc, fetched, calls, kind, prompt, obeyed>>

(* One word of the command; only program_accumulator waits afterwards. *)
WriteWord ==
  /\ pc = "write"
  /\ cmd' = [cmd EXCEPT ![next] = calls]
  /\ next' = IF next = 0 THEN 0 ELSE next - 1
  /\ pc' = IF next > 0 THEN "write" ELSE IF kind[calls] = "program" THEN "wait" ELSE "idle"
  /\ UNCHANGED <<enabled, running, iram, fwpc, fetched, calls, kind, prompt, obeyed>>

(* "wait for the command byte to clear" *)
Wait ==
  /\ pc = "wait" /\ cmd[0] = Clear
  /\ pc' = "idle"
  /\ UNCHANGED <<cmd, enabled, running, iram, fwpc, fetched, calls, kind, prompt, next, obeyed>>

-----------------------------------------------------------------------------
(* pdsp_download_firmware *)

(* pdsp_disable clears the enable bit; the PDSP halts some time later. *)
Disable ==
  /\ pc = "halt"
  /\ enabled' = FALSE
  /\ pc' = "confirm"
  /\ UNCHANGED <<cmd, running, iram, fwpc, fetched, calls, kind, prompt, next, obeyed>>

(* pdsp_running returns bit 15 of the control register as a Uint8. *)
PdspRunning == (IF running THEN 2 ^ 15 ELSE 0) % 2 ^ 8

Confirm ==
  /\ pc = "confirm" /\ PdspRunning # 1
  /\ pc' = "copy"
  /\ UNCHANGED <<cmd, enabled, running, iram, fwpc, fetched, calls, kind, prompt, next, obeyed>>

(* memcpy to the instruction memory. *)
Copy ==
  /\ pc = "copy"
  /\ iram' = IF iram = "torn" THEN "firmware" ELSE "torn"
  /\ pc' = IF iram = "torn" THEN "sync" ELSE "copy"
  /\ UNCHANGED <<cmd, enabled, running, fwpc, fetched, calls, kind, prompt, next, obeyed>>

(* Fill the first command word; the read back loop has a bound and its     *)
(* result is not looked at.                                                *)
Synchronize ==
  /\ pc = "sync"
  /\ cmd' = [cmd EXCEPT ![0] = Sync]
  /\ pc' = "reset"
  /\ UNCHANGED <<enabled, running, iram, fwpc, fetched, calls, kind, prompt, next, obeyed>>

(* Reset the program counter, with the bits of the register kept. *)
ResetPdsp ==
  /\ pc = "reset"
  /\ fwpc' = "boot" /\ fetched' = <<>>
  /\ pc' = "enable"
  /\ UNCHANGED <<cmd, enabled, running, iram, calls, kind, prompt, next, obeyed>>

(* Mutant of Enable: the wrong bit is set. *)
EnableNothing ==
  /\ pc = "enable"
  /\ pc' = "wait"
  /\ UNCHANGED <<cmd, enabled, running, iram, fwpc, fetched, calls, kind, prompt, next, obeyed>>

(* pdsp_enable *)
Enable ==
  /\ pc = "enable"
  /\ enabled' = TRUE
  /\ pc' = "wait"
  /\ UNCHANGED <<cmd, running, iram, fwpc, fetched, calls, kind, prompt, next, obeyed>>

-----------------------------------------------------------------------------
(* The PDSP starts or halts after its enable bit has changed. *)
Follow ==
  /\ running # enabled
  /\ running' = enabled
  /\ UNCHANGED <<cmd, enabled, iram, fwpc, fetched, core, obeyed>>

(* The firmware clears the sync word when it starts. *)
Boot ==
  /\ running /\ Loaded /\ fwpc = "boot"
  /\ cmd' = [cmd EXCEPT ![0] = Clear]
  /\ fwpc' = "poll"
  /\ UNCHANGED <<enabled, running, iram, fetched, core, obeyed>>

(* It fetches a command word by word, from the one it polls on. *)
Fetch ==
  /\ running /\ Loaded
  /\ \/ fwpc = "poll" /\ cmd[0] # Clear
     \/ fwpc = "fetch" /\ Len(fetched) < 5
  /\ fetched' = Append(fetched, cmd[Len(fetched)])
  /\ fwpc' = "fetch"
  /\ UNCHANGED <<cmd, enabled, running, iram, core, obeyed>>

(* It obeys and acknowledges it. *)
Obey ==
  /\ running /\ Loaded /\ fwpc = "fetch" /\ Len(fetched) = 5
  /\ obeyed' = Append(obeyed, fetched)
  /\ fetched' = <<>>
  /\ cmd' = [cmd EXCEPT ![0] = Clear]
  /\ fwpc' = "poll"
  /\ UNCHANGED <<enabled, running, iram, core>>

CoreStep ==
  WriteWord \/ Wait \/ Disable \/ Confirm \/ Copy \/ Synchronize \/ ResetPdsp \/ Enable
PdspStep == Follow \/ Boot \/ Fetch \/ Obey

Next == CoreStep \/ PdspStep \/ \E k \in Kinds : Call(k)

Spec == Init /\ [][Next]_vars

(* The core executes its calls and the PDSP its firmware. *)
FairSpec == Spec /\ WF_vars(CoreStep) /\ WF_vars(PdspStep)

-----------------------------------------------------------------------------
TypeOK ==
  /\ cmd \in [Word -> Content]
  /\ enabled \in BOOLEAN /\ running \in BOOLEAN
  /\ iram \in {"none", "torn", "firmware"}
  /\ fwpc \in {"boot", "poll", "fetch"}
  /\ fetched \in Seq(Content) /\ Len(fetched) <= 5
  /\ calls \in 0 .. MaxCalls
  /\ kind \in Seq(Kinds) /\ Len(kind) = calls
  /\ prompt \in Seq(BOOLEAN) /\ Len(prompt) = calls
  /\ pc \in {"idle", "write", "wait", "halt", "confirm", "copy", "sync", "reset", "enable"}
  /\ next \in Word
  /\ obeyed \in Seq(Seq(Content))

(* Word i of an obeyed command was written by this call. *)
Writer(command, i) == command[i + 1]

(* No call was made while the command of call c was pending. *)
Undisturbed(c) == c >= calls \/ prompt[c + 1]

(* Words that are obeyed together were written by one call, although the   *)
(* firmware fetches them while the core writes ("write first word last",   *)
(* QueueFun.h:166): always for program_accumulator, and for the calls that *)
(* do not wait unless the next call was made too early.                    *)
CommandsIntact ==
  \A n \in 1 .. Len(obeyed) :
    LET c == Writer(obeyed[n], 0) IN
    /\ c \in 1 .. calls
    /\ kind[c] = "program" \/ Undisturbed(c) =>
         \A i \in Used(kind[c]) : Writer(obeyed[n], i) = c

Obeyed(c) == \E n \in 1 .. Len(obeyed) : Writer(obeyed[n], 0) = c

(* When program_accumulator has returned, the channel has been programmed  *)
(* ("This function programs a Hi or Lo Accumulator channel",               *)
(* QueueFun.h:156).                                                        *)
ReturnedIsObeyed ==
  pc = "idle" /\ calls > 0 => (kind[calls] = "program" => Obeyed(calls))

(* That holds unless the call was made while another command was pending.  *)
PromptIsObeyed == calls > 0 => (prompt[calls] => ReturnedIsObeyed)

(* With firmware, calls return ... *)
CallsReturn == pc # "idle" /\ (Loaded \/ kind[calls] = "download") ~> pc = "idle"

(* ... and every command, waited for or not, is obeyed, if neither it nor  *)
(* the next one is issued while another one is pending.                    *)
EveryCommandObeyed ==
  \A c \in 1 .. MaxCalls :
    (Loaded /\ calls = c /\ kind[calls] # "download" /\ prompt[calls]) ~>
       Obeyed(c) \/ ~Undisturbed(c)
=============================================================================
