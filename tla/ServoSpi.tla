------------------------------- MODULE ServoSpi -------------------------------
(***************************************************************************)
(* comm-servo-spi.cc: one host command over SPI, through the FTDI chip of  *)
(* a Servo v2. Every byte the host clocks out clocks one in: a status byte *)
(* until the EC has an answer, then EC_SPI_FRAME_START and the answer. The *)
(* EC starts over when chip select rises, so an abandoned answer is gone   *)
(* - if chip select does rise.                                             *)
(***************************************************************************)
EXTENDS Naturals

CONSTANTS
  Command, NoCommand, RespLen, InSizes,
  RESP_TIMEOUT

ASSUME NoCommandAssumption == NoCommand \notin Command
ASSUME RespLenAssumption == RespLen \in [Command -> Nat]
ASSUME InSizesAssumption == InSizes \subseteq Nat
ASSUME RespTimeoutAssumption == RESP_TIMEOUT \in Nat \ {0}

VARIABLES
  pc,        \* where ec_command_servo_spi() is
  cur, ret,  \* as in HostCommand
  result,    \* what send_request() and get_response() came to
  status,    \* the status byte of get_response()
  elapsed,   \* seconds since its deadline was set
  pins_ok,   \* history: the pins were last set to idle without an error
  cs,        \* chip select, active low
  ec, job    \* EC: what it sends, and the command it works on

hostVars == <<pc, cur, ret, result, status, elapsed, pins_ok>>
ecVars == <<ec, job>>
vars == <<hostVars, cs, ecVars>>

NoCall == [cmd |-> NoCommand, insize |-> 0]
Pending == [status |-> "none", cmd |-> NoCommand, len |-> 0]
Failed == [status |-> "error", cmd |-> NoCommand, len |-> 0]
Ok(c, n) == [status |-> "ok", cmd |-> c, len |-> n]

\* The status bytes of ec_commands.h.
Refusals == {"PAST_END", "RX_BAD_DATA", "NOT_READY"}
Sends == {"RX_READY", "PROCESSING", "FRAME_START"} \cup Refusals

Init ==
  /\ pc = "return" /\ cur = NoCall /\ ret = Pending
  /\ result = Failed /\ status = "unset" /\ elapsed = 0
  /\ pins_ok = TRUE
  /\ cs = "high" /\ ec = "RX_READY" /\ job = NoCommand

Stop(r) == pc' = "stop" /\ result' = r
Return(r) == pc' = "return" /\ cur' = NoCall /\ ret' = r

\* Rising chip select ends whatever the EC was at; it is not ready at once.
PinsTo(level) ==
  /\ cs' = level
  /\ IF cs = "low" /\ level = "high"
     THEN ec' = "NOT_READY" /\ job' = NoCommand
     ELSE UNCHANGED ecVars

-----------------------------------------------------------------------------
Call ==
  /\ pc = "return"
  /\ \E c \in Command, n \in InSizes : cur' = [cmd |-> c, insize |-> n]
  /\ pc' = "start" /\ ret' = Pending
  /\ result' = Failed /\ status' = "unset" /\ elapsed' = 0
  /\ UNCHANGED <<pins_ok, cs, ecVars>>

SelectEc ==
  /\ pc = "start"
  /\ PinsTo("low") /\ pc' = "send"
  /\ UNCHANGED <<cur, ret, result, status, elapsed, pins_ok>>

\* "Start failed": the call returns at once.
SelectFails ==
  /\ pc = "start"
  /\ UNCHANGED cs \/ cs' = "low"
  /\ Return(Failed) /\ pins_ok' = FALSE
  /\ UNCHANGED <<result, status, elapsed, ecVars>>

\* send_request() clocks the request out and looks at what it clocked in. An
\* EC that was listening has the request now, or finds it bad. An EC that
\* still works on an older one ignores it, and may finish meanwhile. This step,
\* like ReadStatus and ReadResponse, is the end of a raw_read(): that repeats
\* ftdi_read_data() for as long as it returns 0, and no deadline ends it.
SendRequest ==
  /\ pc = "send"
  /\ \/ /\ ec = "RX_READY"
        /\ \/ ec' = "PROCESSING" /\ job' = cur.cmd
           \/ ec' = "RX_BAD_DATA" /\ UNCHANGED job
        /\ pc' = "await" /\ UNCHANGED result
     \/ /\ ec \in Refusals
        /\ Stop(Failed) /\ UNCHANGED ecVars
     \/ /\ ec = "PROCESSING"
        /\ pc' = "await" /\ UNCHANGED <<result, ecVars>>
     \/ /\ ec \in {"PROCESSING", "FRAME_START"}
        /\ ec' = "PAST_END" /\ job' = NoCommand
        /\ Stop(Failed)
  /\ UNCHANGED <<cur, ret, status, elapsed, pins_ok, cs>>

\* ftdi_write_data() or raw_read() fails, before or after the EC has it all.
SendFails ==
  /\ pc = "send"
  /\ \/ UNCHANGED ecVars
     \/ ec = "RX_READY" /\ ec' = "PROCESSING" /\ job' = cur.cmd
  /\ Stop(Failed)
  /\ UNCHANGED <<cur, ret, status, elapsed, pins_ok, cs>>

IsFrameUnlessBusy(b) == b # "PROCESSING"   \* a bug: errors taken for a frame
IsFrame(b) == b = "FRAME_START"

\* get_response(): a turn of the loop looks at the deadline and then asks for
\* one status byte; ftdi_write_data() may fail.
AskStatus ==
  /\ pc = "await" /\ elapsed < RESP_TIMEOUT
  /\ \/ pc' = "status" /\ UNCHANGED result
     \/ Stop(Failed)
  /\ UNCHANGED <<cur, ret, status, elapsed, pins_ok, cs, ecVars>>

\* The byte arrives, however late, or the read fails.
ReadStatus ==
  /\ pc = "status"
  /\ \/ /\ status' = ec
        /\ pc' = IF IsFrame(ec) THEN "header" ELSE "await"
        /\ UNCHANGED result
     \/ Stop(Failed) /\ UNCHANGED status
  /\ UNCHANGED <<cur, ret, elapsed, pins_ok, cs, ecVars>>

TooLateIgnored == FALSE     \* a bug: the loop has no deadline
TooLate == elapsed >= RESP_TIMEOUT

\* The deadline passed. A status never read is whatever the stack held; were
\* it EC_SPI_FRAME_START, the header read next would not have its version.
DeadlinePasses ==
  /\ pc = "await" /\ TooLate
  /\ Stop(Failed)
  /\ UNCHANGED <<cur, ret, status, elapsed, pins_ok, cs, ecVars>>

FitsAlways == TRUE          \* a bug: the length is not checked
Fits == RespLen[job] <= cur.insize

\* Header and data, checked for version, length, checksum and result.
ReadResponse ==
  /\ pc = "header"
  /\ \/ /\ Fits
        /\ Stop(Ok(job, 0))
     \/ Stop(Failed)
  /\ ec' = "PAST_END" /\ job' = NoCommand
  /\ UNCHANGED <<cur, ret, status, elapsed, pins_ok, cs>>

\* A bug: an error returns without mpsse_stop().
RaiseCsOnSuccess == IF result.status = "ok" THEN PinsTo("high")
                    ELSE UNCHANGED <<cs, ecVars>>
RaiseCs == PinsTo("high")

Deselect ==
  /\ pc = "stop"
  /\ RaiseCs /\ Return(result) /\ pins_ok' = TRUE
  /\ UNCHANGED <<result, status, elapsed>>

\* "Stop failed": chip select may still be low when the call returns.
DeselectFails ==
  /\ pc = "stop"
  /\ PinsTo("high") \/ UNCHANGED <<cs, ecVars>>
  /\ Return(Failed) /\ pins_ok' = FALSE
  /\ UNCHANGED <<result, status, elapsed>>

Tick ==
  /\ pc \in {"await", "status"} /\ elapsed < RESP_TIMEOUT
  /\ elapsed' = elapsed + 1
  /\ UNCHANGED <<pc, cur, ret, result, status, pins_ok, cs, ecVars>>

\* The process dies with the pins as they are, and comm_init_servo_spi() of
\* the next one puts them in the idle state before anything else is sent.
Dies ==
  /\ pc # "closed"
  /\ pc' = "closed" /\ cur' = NoCall /\ ret' = Pending
  /\ UNCHANGED <<result, status, elapsed, pins_ok, cs, ecVars>>

Reopen ==
  /\ pc = "closed"
  /\ PinsTo("high") /\ pc' = "return" /\ pins_ok' = TRUE
  /\ UNCHANGED <<cur, ret, result, status, elapsed>>

\* The steps that wait for the chip to deliver, and those that do not.
ReadStep == SendRequest \/ SendFails \/ ReadStatus \/ ReadResponse
HostStep == \/ SelectEc \/ SelectFails \/ AskStatus \/ DeadlinePasses
            \/ Deselect \/ DeselectFails

-----------------------------------------------------------------------------
(* The EC, as ec_commands.h describes it.                                  *)
EcFinishes ==
  /\ ec = "PROCESSING"
  /\ ec' = "FRAME_START"
  /\ UNCHANGED <<hostVars, cs, job>>

\* "EC processes CS# interrupt and sets up DMA for next request".
EcListens ==
  /\ ec = "NOT_READY" /\ cs = "high"
  /\ ec' = "RX_READY"
  /\ UNCHANGED <<hostVars, cs, job>>

Next == \/ Call \/ HostStep \/ ReadStep \/ Tick \/ Dies \/ Reopen
        \/ EcFinishes \/ EcListens

Spec == Init /\ [][Next]_vars

\* The host process runs and time passes; nothing is asked of the EC, nor of
\* the chip: a raw_read() need never end.
FairSpec == Spec /\ WF_vars(HostStep) /\ WF_vars(Tick)

-----------------------------------------------------------------------------
\* Typing, and the host reads a header only when the EC is about to send one.
TypeOK ==
  /\ pc \in {"closed", "return", "start", "send", "await", "status", "header",
             "stop"}
  /\ cur \in [cmd : Command \cup {NoCommand}, insize : InSizes \cup {0}]
  /\ {ret.status, result.status} \subseteq {"none", "error", "ok"}
  /\ status \in Sends \cup {"unset"}
  /\ pc = "header" => ec = "FRAME_START"
  /\ elapsed \in 0 .. RESP_TIMEOUT
  /\ pins_ok \in BOOLEAN
  /\ cs \in {"high", "low"} /\ ec \in Sends
  /\ job \in Command \cup {NoCommand}

(***************************************************************************)
(* A call returns as success only the EC's answer to its own command, and  *)
(* one that fits the buffer, even after calls that gave up waiting or      *)
(* broke off, unless the last of them failed to set the pins.              *)
(***************************************************************************)
OwnAnswer ==
  [][ret' # ret /\ ret'.status = "ok" /\ pins_ok =>
       ret'.cmd = cur.cmd /\ RespLen[cur.cmd] <= cur.insize]_vars

\* comm-host.h promises the length of the answer; this transport returns 0.
Promised == IF ret.status = "ok" THEN Ok(ret.cmd, RespLen[ret.cmd]) ELSE ret
Promise == INSTANCE HostCommand WITH ret <- Promised

(***************************************************************************)
(* But for that length the transport keeps the promise of ec_command(),    *)
(* call by call and whatever earlier calls left behind, except for a       *)
(* success after the pins were last set with an error.                     *)
(***************************************************************************)
KeepsPromise ==
  /\ Promise!Init
  /\ [][(ret'.status = "ok" => pins_ok) => [Promise!Next]_<<cur, Promised>>]_vars

(***************************************************************************)
(* "Make sure the EC was listening": a call waits for an answer only while *)
(* the EC works on its own request, with the same exception.               *)
(***************************************************************************)
EcWasListening ==
  pc \in {"await", "status"} /\ pins_ok /\ ec \in {"PROCESSING", "FRAME_START"} =>
    job = cur.cmd

\* The call is in raw_read(), or about to be.
InRead == pc \in {"send", "status", "header"}

(***************************************************************************)
(* The deadline ends every call, whatever the EC sends, except one that    *)
(* stays in a raw_read() to which the chip delivers nothing.               *)
(***************************************************************************)
ReturnsUnlessStarved ==
  pc \notin {"return", "closed"} ~> (pc \in {"return", "closed"} \/ []InRead)
=============================================================================
