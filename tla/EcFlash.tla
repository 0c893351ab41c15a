------------------------------- MODULE EcFlash -------------------------------
(***************************************************************************)
(* ec_flash.cc: reading, verifying, writing and erasing the EC's flash     *)
(* with commands whose size is limited, each of which may fail before or   *)
(* after the EC carried it out. A run of ectool makes one call; the flash  *)
(* and an erase in progress outlive it.                                    *)
(*                                                                         *)
(* Sizes are in units of a flash byte; the I/O buffers hold a few of them. *)
(* The EC answers a read in full, refuses what lies outside the flash and  *)
(* touches its flash for nobody while it erases.                           *)
(***************************************************************************)
EXTENDS Integers

CONSTANTS
  FlashSize,
  Offsets, Sizes,    \* of the calls; size 0 is an empty file
  ec_max_insize,
  PdataMax,          \* ec_max_outsize - sizeof(struct ec_params_flash_write)
  VER0_SIZE,         \* EC_FLASH_WRITE_VER0_SIZE
  WriteSizes,        \* write sizes ECs report
  EcHasV1,           \* the EC knows EC_VER_FLASH_WRITE
  MaxPolls           \* ERASE_ASYNC_TIMEOUT / ERASE_ASYNC_WAIT_MS

ASSUME FlashSizeAssumption == FlashSize \in Nat \ {0}
ASSUME OffsetsAssumption == Offsets \subseteq Nat
ASSUME SizesAssumption == Sizes \subseteq Nat
ASSUME InsizeAssumption == ec_max_insize \in Nat \ {0}
ASSUME PdataMaxAssumption == PdataMax \in Nat
ASSUME Ver0SizeAssumption == VER0_SIZE \in Nat /\ VER0_SIZE <= PdataMax
ASSUME WriteSizesAssumption == WriteSizes \subseteq Nat
ASSUME EcHasV1Assumption == EcHasV1 \in BOOLEAN
ASSUME MaxPollsAssumption == MaxPolls \in Nat \ {0}

VARIABLES
  pc, op, offset, size,   \* the call
  i, rv,
  pdata_max_size, write_size, step,   \* of ec_flash_write()
  buf,       \* what ec_flash_read() fills
  polls,     \* how often ec_flash_erase_async() asked for the result
  flash,     \* EC: what each location holds
  eraser,    \* EC: the last erase, done in the background or not
  sent,      \* length of the last EC_CMD_FLASH_WRITE (history)
  blank      \* the range could take the data when the call began (history)

callVars == <<op, offset, size, blank>>
writeVars == <<pdata_max_size, write_size, step>>
ecVars == <<flash, eraser>>
vars == <<pc, callVars, i, rv, writeVars, buf, polls, ecVars, sent>>

\* Contents: the k-th byte of the file is the number k.
Erased == -1
Old == -2
Corrupt == -3
Unset == -4

Location == 0 .. FlashSize - 1
Span(o, n) == o .. o + n - 1
InFlash(o, n) == Span(o, n) \subseteq Location
Least(a, b) == IF a < b THEN a ELSE b

\* Flash programs erased locations; programming the same again is harmless.
Program(old, new) == IF old \in {Erased, new} THEN new ELSE Corrupt
Programmable(o, n) ==
  \A a \in Span(o, n) \cap Location : flash[a] \in {Erased, a - o}

Error == -1
BusyRv == -2       \* FLASH_ERASE_BUSY_RV
Killed == -3       \* the process did not live to return

Op == {"read", "verify", "write", "erase", "erase_async"}
NoErase == [status |-> "none", offset |-> 0, size |-> 0]
Erasing == eraser.status = "busy"

Init ==
  /\ pc = "done" /\ op = "read" /\ offset = 0 /\ size = 0 /\ blank = FALSE
  /\ i = 0 /\ rv = Error
  /\ pdata_max_size = 0 /\ write_size = 0 /\ step = 0
  /\ buf = [k \in Location |-> Unset]
  /\ polls = 0
  /\ flash = [a \in Location |-> Old] /\ eraser = NoErase
  /\ sent = 0

Finish(r) == pc' = "done" /\ rv' = r

-----------------------------------------------------------------------------
(* cmd_flash_read(), cmd_flash_write(), cmd_flash_erase(): only a write    *)
(* accepts size 0.                                                         *)
FirstStep(o) == CASE o \in {"read", "verify"} -> "read"
                  [] o = "write" -> "version"
                  [] OTHER -> o

Begin ==
  /\ pc = "done"
  /\ \E o \in Op, off \in Offsets, n \in Sizes :
       /\ n > 0 \/ o = "write"
       /\ op' = o /\ offset' = off /\ size' = n
       /\ pc' = FirstStep(o)
       /\ blank' = Programmable(off, n)
  /\ i' = 0 /\ rv' = 0 /\ polls' = 0 /\ sent' = 0
  /\ pdata_max_size' = PdataMax /\ write_size' = 0 /\ step' = 0
  /\ buf' = [k \in Location |-> Unset]
  /\ UNCHANGED ecVars

\* Bugs: chunks one short of the step, and an offset that starts over.
ShortRead == Least(size - i, ec_max_insize - 1)
ReadRestarts == IF i = 0 THEN ec_max_insize ELSE 0
ReadSize == Least(size - i, ec_max_insize)
NextRead == i + ec_max_insize

\* ec_flash_read(), one command per chunk.
ReadChunk ==
  /\ pc = "read" /\ i < size
  /\ LET n == ReadSize
     IN \/ /\ Finish(Error)
           /\ UNCHANGED <<i, buf>>
        \/ /\ InFlash(offset + i, n) /\ ~Erasing
           /\ buf' = [k \in Location |->
                        IF k \in Span(i, n) THEN flash[offset + k] ELSE buf[k]]
           /\ i' = NextRead
           /\ UNCHANGED <<pc, rv>>
  /\ UNCHANGED <<callVars, writeVars, polls, ecVars, sent>>

\* ec_flash_verify() compares the whole buffer.
ReadEnd ==
  /\ pc = "read" /\ i >= size
  /\ Finish(IF op = "verify" /\ \E k \in Span(0, size) : buf[k] # k
            THEN Error ELSE 0)
  /\ UNCHANGED <<callVars, i, writeVars, buf, polls, ecVars, sent>>

-----------------------------------------------------------------------------
(* ec_flash_write().                                                       *)

\* A version query that fails counts as "not supported".
AskVersion ==
  /\ pc = "version"
  /\ \E supported \in BOOLEAN :
       /\ supported => EcHasV1
       /\ pdata_max_size' = IF supported THEN PdataMax ELSE VER0_SIZE
  /\ pc' = "write_size"
  /\ UNCHANGED <<callVars, i, rv, write_size, step, buf, polls, ecVars, sent>>

StepUnrounded(ws) == pdata_max_size     \* a bug
StepFor(ws) == (pdata_max_size \div ws) * ws

\* get_flash_write_size() with version 2 or 0 of EC_CMD_FLASH_INFO, and the
\* step computed from it. Neither version known, or a failing command, is an
\* error, as are a write size of 0 and one that fits no command.
AskWriteSize ==
  /\ pc = "write_size"
  /\ \/ /\ Finish(Error)
        /\ UNCHANGED <<write_size, step>>
     \/ \E ws \in WriteSizes :
          /\ write_size' = ws
          /\ step' = IF ws = 0 THEN 0 ELSE StepFor(ws)
          /\ IF step' = 0 THEN Finish(Error)
             ELSE pc' = "write" /\ UNCHANGED rv
  /\ UNCHANGED <<callVars, i, pdata_max_size, buf, polls, ecVars, sent>>

\* Bugs: the last chunk is as long as the others, or is forgotten.
WholeStep == step
WriteDoneEarly == i + step >= size
WriteSize == Least(size - i, step)
WriteDone == i >= size

\* The EC may have programmed a chunk whose command fails.
WriteChunk ==
  /\ pc = "write" /\ ~WriteDone
  /\ LET n == WriteSize
         target == Span(offset + i, n)
         Accepts == InFlash(offset + i, n) /\ ~Erasing
         Programs == flash' = [a \in Location |->
                       IF a \in target THEN Program(flash[a], a - offset)
                       ELSE flash[a]]
     IN /\ sent' = n
        /\ \/ /\ Finish(Error)
              /\ UNCHANGED <<i, flash>>
           \/ /\ Accepts /\ Programs
              /\ Finish(Error)
              /\ UNCHANGED i
           \/ /\ Accepts /\ Programs
              /\ i' = i + step
              /\ UNCHANGED <<pc, rv>>
  /\ UNCHANGED <<callVars, writeVars, buf, polls, eraser>>

WriteEnd ==
  /\ pc = "write" /\ WriteDone
  /\ Finish(0)
  /\ UNCHANGED <<callVars, i, writeVars, buf, polls, ecVars, sent>>

-----------------------------------------------------------------------------
(* ec_flash_erase() and ec_flash_erase_async().                            *)

\* An erase of any part of the range may have happened when it fails.
ErasesSome(o, n) ==
  \E done \in SUBSET Span(o, n) :
    flash' = [a \in Location |-> IF a \in done THEN Erased ELSE flash[a]]
ErasesAll(o, n) ==
  flash' = [a \in Location |-> IF a \in Span(o, n) THEN Erased ELSE flash[a]]

CanErase == InFlash(offset, size) /\ ~Erasing

Erase ==
  /\ pc = "erase"
  /\ \/ /\ Finish(Error) /\ UNCHANGED flash
     \/ /\ CanErase /\ ErasesSome(offset, size) /\ Finish(Error)
     \/ /\ CanErase /\ ErasesAll(offset, size) /\ Finish(0)
  /\ UNCHANGED <<callVars, i, writeVars, buf, polls, eraser, sent>>

\* FLASH_ERASE_SECTOR_ASYNC. A lost answer ends the call, not the erase.
StartErase ==
  /\ pc = "erase_async"
  /\ \/ /\ Finish(Error) /\ UNCHANGED eraser
     \/ /\ CanErase
        /\ eraser' = [status |-> "busy", offset |-> offset, size |-> size]
        /\ \/ Finish(Error)
           \/ pc' = "poll" /\ rv' = BusyRv
  /\ UNCHANGED <<callVars, i, writeVars, buf, polls, flash, sent>>

\* A bug: busy taken for done.
BusyIsDone == IF eraser.status = "failed" THEN Error ELSE 0
\* "It's important that we retry even when the underlying ioctl returns an error".
KeepPolling == rv < 0 /\ polls < MaxPolls
EraseResult == CASE eraser.status = "busy" -> BusyRv
                 [] eraser.status = "failed" -> Error
                 [] OTHER -> 0

\* FLASH_ERASE_GET_RESULT after every pause, whatever the last one returned.
PollErase ==
  /\ pc = "poll" /\ KeepPolling
  /\ polls' = polls + 1
  /\ rv' \in {Error, EraseResult}
  /\ UNCHANGED <<pc, callVars, i, writeVars, buf, ecVars, sent>>

PollEnd ==
  /\ pc = "poll" /\ ~KeepPolling
  /\ Finish(rv)
  /\ UNCHANGED <<callVars, i, writeVars, buf, polls, ecVars, sent>>

\* The process dies, between or during commands.
Dies ==
  /\ pc # "done"
  /\ Finish(Killed)
  /\ UNCHANGED <<callVars, i, writeVars, buf, polls, ecVars, sent>>

\* EC: the background erase ends.
EraserEnds ==
  /\ Erasing
  /\ \/ /\ ErasesAll(eraser.offset, eraser.size)
        /\ eraser' = [eraser EXCEPT !.status = "ok"]
     \/ /\ ErasesSome(eraser.offset, eraser.size)
        /\ eraser' = [eraser EXCEPT !.status = "failed"]
  /\ UNCHANGED <<pc, callVars, i, rv, writeVars, buf, polls, sent>>

HostStep == \/ ReadChunk \/ ReadEnd
            \/ AskVersion \/ AskWriteSize \/ WriteChunk \/ WriteEnd
            \/ Erase \/ StartErase \/ PollErase \/ PollEnd

Next == Begin \/ HostStep \/ Dies \/ EraserEnds

Spec == Init /\ [][Next]_vars

\* The process runs; the EC need not ever finish erasing.
FairSpec == Spec /\ WF_vars(HostStep)

-----------------------------------------------------------------------------
Succeeded(o) == pc = "done" /\ op = o /\ rv = 0

(***************************************************************************)
(* ec_flash_read() and ec_flash_verify() that return 0 have seen every     *)
(* byte of the range, in place, whatever the size of a chunk: "0 if        *)
(* success, negative if error".                                            *)
(***************************************************************************)
ReadTruthful ==
  /\ Succeeded("read") =>
       \A k \in Span(0, size) : buf[k] = flash[offset + k]
  /\ Succeeded("verify") =>
       \A k \in Span(0, size) : flash[offset + k] = k

(***************************************************************************)
(* ec_flash_write() that returns 0 has left the file in flash, when the    *)
(* range was erased or held the start of the same file: an interrupted     *)
(* write can be repeated.                                                  *)
(***************************************************************************)
WriteTruthful ==
  Succeeded("write") /\ blank => \A k \in Span(0, size) : flash[offset + k] = k

(***************************************************************************)
(* Erases that return 0 have erased all of the range; the asynchronous one *)
(* does not take "queued" or "busy" for done.                              *)
(***************************************************************************)
EraseTruthful ==
  Succeeded("erase") \/ Succeeded("erase_async") =>
    \A a \in Span(offset, size) : flash[a] = Erased

(***************************************************************************)
(* A call touches its own range only. What else changes is the range of an *)
(* erase the EC is still at, maybe for a call that gave up.                *)
(***************************************************************************)
OnlyTarget ==
  [][\A a \in Location :
       flash'[a] # flash[a] =>
         \/ a \in Span(offset, size)
         \/ Erasing /\ a \in Span(eraser.offset, eraser.size)]_vars

(***************************************************************************)
(* No write command carries more than ec_max_outsize allows, and when the  *)
(* file is a whole number of write blocks, so is every command: the EC     *)
(* takes nothing else ("Write offset and size must be a multiple of this").*)
(***************************************************************************)
WritesAligned ==
  sent > 0 => /\ sent <= pdata_max_size
              /\ size % write_size = 0 => /\ sent % write_size = 0
                                          /\ i % write_size = 0

\* At most this many commands and decisions are left of a call.
StepsLeft ==
  LET Bytes == IF i < size THEN size - i ELSE 0
  IN CASE pc = "done" -> 0
       [] pc \in {"read", "write"} -> 1 + Bytes
       [] pc = "write_size" -> 2 + Bytes [] pc = "version" -> 3 + Bytes
       [] pc = "erase" -> 1
       [] pc = "poll" -> 1 + MaxPolls - polls [] pc = "erase_async" -> 2 + MaxPolls

(***************************************************************************)
(* A call comes closer to its end with every step it makes, whatever the   *)
(* EC answers: each chunk moves on, each question for an erase is counted, *)
(* and an erase that goes on and on makes no call longer.                  *)
(***************************************************************************)
ClosesIn ==
  [][/\ HostStep => StepsLeft' < StepsLeft
     /\ pc # "done" => StepsLeft' \in 0 .. StepsLeft]_vars

(***************************************************************************)
(* Every call ends, even when the EC never stops erasing.                  *)
(***************************************************************************)
CallEnds == pc # "done" ~> pc = "done"
=============================================================================
