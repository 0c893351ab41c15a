----------------------------- MODULE LpcTransfer -----------------------------
(***************************************************************************)
(* comm-lpc.cc: one host command over LPC I/O ports. Host and EC share a   *)
(* packet memory and a status register. The host writes the data, then the *)
(* header, then the command port, polls the busy flags for a second and    *)
(* reads the answer back from the same memory. The host gives up after     *)
(* that second, the EC does not: it may answer while the next command is   *)
(* being written, by the same process or by the next one.                  *)
(*                                                                         *)
(* Protocol 2 (ec_command_lpc) and 3 (ec_command_lpc_3) differ in what the *)
(* command port and the checksum carry. A checksum is modelled by what it  *)
(* tells: whether header and body belong together, and for protocol 2 also *)
(* to the command. (An 8-bit sum misses one mixture in 256.)               *)
(***************************************************************************)
EXTENDS Naturals

CONSTANTS
  Command, NoCommand, RespLen, InSizes,
  Oversize,      \* the commands whose request exceeds the packet memory
  Ecs            \* the ECs: the protocol they speak, and whether a command
                 \* written while one runs is lost or waits for its turn

ASSUME NoCommandAssumption == NoCommand \notin Command
ASSUME RespLenAssumption == RespLen \in [Command -> Nat]
ASSUME InSizesAssumption == InSizes \subseteq Nat
ASSUME OversizeAssumption == Oversize \subseteq Command
ASSUME EcsAssumption == Ecs \subseteq [proto : {2, 3}, drops : BOOLEAN]

VARIABLES
  pc,      \* where ec_command_lpc*() is
  cur,     \* the arguments of the call
  ret,     \* what the last call returned
  header, body,  \* the packet memory: header (or args) and data (or params)
  port,    \* the last byte written to EC_LPC_ADDR_HOST_CMD
  from_host,     \* EC_LPC_STATUS_FROM_HOST: a command not yet picked up
  ec,      \* the EC there is; comm_init_lpc() finds out its protocol
  job,     \* the request the EC is processing
  result   \* the byte at EC_LPC_ADDR_HOST_DATA

hostVars == <<pc, cur, ret>>
portVars == <<header, body, port, from_host>>
ecVars == <<ec, job, result>>
vars == <<hostVars, portVars, ecVars>>

NoCall == [cmd |-> NoCommand, insize |-> 0]
Pending == [status |-> "none", cmd |-> NoCommand, len |-> 0]
Failed == [status |-> "error", cmd |-> NoCommand, len |-> 0]

Part == [kind : {"none", "request", "response", "bad"},
         cmd : Command \cup {NoCommand}]
PartOf(k, c) == [kind |-> k, cmd |-> c]
NoPart == PartOf("none", NoCommand)
Garbled == "garbled"   \* a request the EC cannot make sense of
Idle == "idle"

ASSUME JobAssumption == {Garbled, Idle} \cap Command = {}

Init ==
  /\ pc = "return" /\ cur = NoCall /\ ret = Pending
  /\ header = NoPart /\ body = NoPart
  /\ port = NoCommand /\ from_host = FALSE
  /\ ec \in Ecs /\ job = Idle /\ result = "success"

Return(r) == pc' = "return" /\ cur' = NoCall /\ ret' = r

-----------------------------------------------------------------------------
(* The host.                                                               *)

\* Protocol 3 refuses a request larger than the packet memory; protocol 2
\* has no such check.
TooBigIgnored == FALSE      \* a bug: the request is not measured
TooBig == ec.proto = 3 /\ cur.cmd \in Oversize

Call ==
  /\ pc = "return"
  /\ \E c \in Command, n \in InSizes : cur' = [cmd |-> c, insize |-> n]
  /\ pc' = "check" /\ ret' = Pending
  /\ UNCHANGED <<portVars, ecVars>>

Refuse == /\ pc = "check" /\ TooBig
          /\ Return(Failed)
          /\ UNCHANGED <<portVars, ecVars>>

\* Oversize params of protocol 2 run over into other registers.
WriteData ==
  /\ pc = "check" /\ ~TooBig
  /\ body' = PartOf(IF cur.cmd \in Oversize THEN "bad" ELSE "request", cur.cmd)
  /\ pc' = "header"
  /\ UNCHANGED <<cur, ret, header, port, from_host, ecVars>>

WriteHeader ==
  /\ pc = "header"
  /\ header' = PartOf("request", cur.cmd)
  /\ pc' = "start"
  /\ UNCHANGED <<cur, ret, body, port, from_host, ecVars>>

\* outb() to the command port; the hardware raises the busy flag.
StartCommand ==
  /\ pc = "start"
  /\ port' = cur.cmd /\ from_host' = TRUE
  /\ pc' = "wait"
  /\ UNCHANGED <<cur, ret, header, body, ecVars>>

Busy == from_host \/ job # Idle

WaitForever == FALSE        \* a bug: the loop has no deadline

\* wait_for_ec() saw a busy flag on every poll of its second.
WaitTimesOut ==
  /\ pc = "wait" /\ Busy
  /\ Return(Failed)
  /\ UNCHANGED <<portVars, ecVars>>

WaitDone ==
  /\ pc = "wait" /\ ~Busy
  /\ pc' = "result"
  /\ UNCHANGED <<cur, ret, portVars, ecVars>>

\* A bug: the length is not compared with the caller's buffer.
ResponseOkAnySize ==
  /\ header.kind = "response"
  /\ body = header
  /\ ec.proto = 2 => header.cmd = cur.cmd

\* The header has the version (protocol 3) or flag (protocol 2) of a response,
\* the data fits, and the checksum adds up.
ResponseOk ==
  /\ header.kind = "response"
  /\ RespLen[header.cmd] <= cur.insize
  /\ body = header
  /\ ec.proto = 2 => header.cmd = cur.cmd

ReadResponse ==
  /\ pc = "result"
  /\ IF result = "success" /\ ResponseOk
     THEN Return([status |-> "ok", cmd |-> header.cmd,
                  len |-> RespLen[header.cmd]])
     ELSE Return(Failed)
  /\ UNCHANGED <<portVars, ecVars>>

\* The process dies; the next one that takes the lock starts over.
HostDies ==
  /\ pc # "return"
  /\ Return(Pending)
  /\ UNCHANGED <<portVars, ecVars>>

HostStep == \/ Refuse \/ WriteData \/ WriteHeader \/ StartCommand
            \/ WaitTimesOut \/ WaitDone \/ ReadResponse

-----------------------------------------------------------------------------
(* The EC, as ec_commands.h describes it ("EC is busy. This covers both    *)
(* the EC processing a command, and the host has written a new command but *)
(* the EC hasn't picked it up yet").                                       *)

ValidRequest == /\ header.kind = "request" /\ body = header
                /\ ec.proto = 2 => port = header.cmd

EcPicksUp ==
  /\ from_host /\ job = Idle
  /\ job' = IF ValidRequest THEN header.cmd ELSE Garbled
  /\ from_host' = FALSE
  /\ UNCHANGED <<hostVars, header, body, port, ec, result>>

EcDrops ==
  /\ ec.drops /\ from_host /\ job # Idle
  /\ from_host' = FALSE
  /\ UNCHANGED <<hostVars, header, body, port, ecVars>>

\* The answer replaces the packet memory; an EC may also refuse, or answer
\* with a header the host does not accept.
EcAnswers ==
  /\ job # Idle
  /\ \/ /\ job # Garbled
        /\ \E k \in {"response", "bad"} :
             header' = PartOf(k, job) /\ body' = PartOf("response", job)
        /\ result' = "success"
     \/ /\ header' = PartOf("bad", NoCommand) /\ body' = header'
        /\ result' = "error"
  /\ job' = Idle
  /\ UNCHANGED <<hostVars, port, from_host, ec>>

EcStep == EcPicksUp \/ EcDrops \/ EcAnswers

Next == Call \/ HostStep \/ HostDies \/ EcStep

Spec == Init /\ [][Next]_vars

\* The host process runs; nothing is asked of the EC.
FairSpec == Spec /\ WF_vars(HostStep)

-----------------------------------------------------------------------------
\* Typing, and the command port of a protocol 3 EC has never started a request
\* that does not fit the packet memory.
TypeOK ==
  /\ pc \in {"return", "check", "header", "start", "wait", "result"}
  /\ cur \in [cmd : Command \cup {NoCommand}, insize : InSizes \cup {0}]
  /\ ret.status \in {"none", "error", "ok"}
  /\ header \in Part /\ body \in Part
  /\ port \in Command \cup {NoCommand}
  /\ ec.proto = 3 => port \notin Oversize
  /\ from_host \in BOOLEAN
  /\ ec \in Ecs
  /\ job \in Command \cup {Garbled, Idle}
  /\ result \in {"success", "error"}

Promise == INSTANCE HostCommand

(***************************************************************************)
(* The transfer keeps the promise of ec_command(): what it returns as      *)
(* success is the whole answer to this command, even when the EC was still *)
(* busy with one that an earlier call gave up on.                          *)
(***************************************************************************)
KeepsPromise == Promise!Spec

(***************************************************************************)
(* Every call returns, whatever the EC does: the wait is bounded by its    *)
(* timeout.                                                                *)
(***************************************************************************)
CallReturns == pc # "return" ~> pc = "return"
=============================================================================
