---------------------------- MODULE KernelTransfer ----------------------------
(***************************************************************************)
(* comm-dev.cc and comm-i2c.cc: a host command as ioctls on a node of the  *)
(* kernel. Over /dev/cros_ec one ioctl carries out the command, for any    *)
(* number of processes in turn, except that a slow command is answered by  *)
(* a second ioctl, between which and the first anything can happen. Over   *)
(* /dev/i2c-N one ioctl writes the request and another reads the response, *)
(* by the process that has the GEC lock.                                   *)
(***************************************************************************)
EXTENDS Naturals

CONSTANTS
  Proc,
  Command, NoCommand, RespLen, InSizes,   \* as in HostCommand
  Slow,            \* commands the EC may answer by EC_RES_IN_PROGRESS
  Version0,        \* commands sent in version 0
  ec_max_insize    \* what comm_init_i2c() and comm_init_buffer() set

ASSUME KernelAssumption ==
  /\ NoCommand \notin Command
  /\ RespLen \in [Command -> Nat]
  /\ InSizes \subseteq Nat /\ ec_max_insize \in Nat
  /\ Slow \subseteq Command /\ Version0 \subseteq Command

VARIABLES
  ec_command_proto,   \* "DEV" or "I2C", which main() chose
  pc,          \* where each process is in its call
  cur, ret,    \* as in HostCommand, of each process
  overtaken,   \* history: the EC served others while the call was in progress
  job,         \* EC: the command it works on, or NoCommand
  last         \* EC: its last response, as far as it can still be had

callVars == <<pc, cur, ret, overtaken>>
vars == <<ec_command_proto, callVars, job, last>>

NoCall == [cmd |-> NoCommand, insize |-> 0]
Pending == [status |-> "none", cmd |-> NoCommand, len |-> 0]
Failed == [status |-> "error", cmd |-> NoCommand, len |-> 0]
Ok(c, n) == [status |-> "ok", cmd |-> c, len |-> n]

\* A response has a result, a length, and on the I2C bus a checksum.
NoResponse == [cmd |-> NoCommand, result |-> "unavailable", len |-> 0]
Success(c) == [cmd |-> c, result |-> "success", len |-> RespLen[c]]
Errors(c) == {[cmd |-> c, result |-> "error", len |-> 0]}
Garbled(c) == {[cmd |-> c, result |-> "garbled", len |-> RespLen[c]]}
Responses(c) == {Success(c)} \cup Errors(c)

Init ==
  /\ ec_command_proto \in {"DEV", "I2C"}
  /\ pc = [p \in Proc |-> "idle"]
  /\ cur = [p \in Proc |-> NoCall]
  /\ ret = [p \in Proc |-> Pending]
  /\ overtaken = [p \in Proc |-> FALSE]
  /\ job = NoCommand
  /\ last = NoResponse

-----------------------------------------------------------------------------
Dev == ec_command_proto = "DEV"
At(p, place) == pc[p] = place

\* On the I2C bus the GEC lock keeps the others out.
MayCall(p) == Dev \/ \A q \in Proc \ {p} : At(q, "idle")

TooBig(insize) == ~Dev /\ insize > ec_max_insize

Return(p, r) ==
  /\ pc' = [pc EXCEPT ![p] = "idle"]
  /\ cur' = [cur EXCEPT ![p] = NoCall]
  /\ ret' = [ret EXCEPT ![p] = r]

GoTo(p, place) == pc' = [pc EXCEPT ![p] = place] /\ UNCHANGED <<cur, ret>>

Call(p) ==
  /\ At(p, "idle") /\ MayCall(p)
  /\ pc' = [pc EXCEPT ![p] = IF Dev THEN "ioctl" ELSE "write"]
  /\ \E c \in Command, n \in InSizes : cur' = [cur EXCEPT ![p] = [cmd |-> c, insize |-> n]]
  /\ ret' = [ret EXCEPT ![p] = Pending]
  /\ overtaken' = [overtaken EXCEPT ![p] = FALSE]
  /\ UNCHANGED <<ec_command_proto, job, last>>

Refuse(p) ==
  /\ At(p, "write") /\ TooBig(cur[p].insize)
  /\ Return(p, Failed)
  /\ UNCHANGED <<overtaken, ec_command_proto, job, last>>

-----------------------------------------------------------------------------
\* /dev: what a response makes of a call. The kernel fails one that does not
\* fit, with a negative result of the ioctl.
Fits(r, p) == r.len <= cur[p].insize
Result(r, p) == IF r.result = "success" /\ Fits(r, p) THEN Ok(r.cmd, r.len) ELSE Failed

\* The others, that are about to ask for their response, are not the last.
Overtakes(p) == [q \in Proc |-> overtaken[q] \/ (q # p /\ At(q, "resend"))]

\* CROS_EC_DEV_IOCXCMD: the kernel lets one process at a time talk to the EC.
Ioctl(p) ==
  /\ At(p, "ioctl") /\ cur[p].cmd \notin Slow
  /\ \E r \in Responses(cur[p].cmd) :
       /\ last' = r
       /\ Return(p, Result(r, p))
  /\ overtaken' = Overtakes(p)
  /\ UNCHANGED <<ec_command_proto, job>>

\* The EC is still at it when the kernel's patience ends: EAGAIN, and
\* EC_RES_IN_PROGRESS.
IoctlInProgress(p) ==
  /\ At(p, "ioctl") /\ cur[p].cmd \in Slow /\ job = NoCommand
  /\ job' = cur[p].cmd
  /\ last' = NoResponse
  /\ GoTo(p, "resend")
  /\ overtaken' = Overtakes(p)
  /\ UNCHANGED ec_command_proto

\* Wrong: the second ioctl follows whatever the first one failed with.
IoctlFailsAndResends(p) ==
  /\ At(p, "ioctl")
  /\ GoTo(p, "resend")
  /\ UNCHANGED <<ec_command_proto, overtaken, job, last>>
\* Another errno, or a refusal because the EC is busy; a slow command may
\* have been begun.
IoctlFails(p) ==
  /\ At(p, "ioctl")
  /\ Return(p, Failed)
  /\ \/ UNCHANGED <<overtaken, job, last>>
     \/ /\ cur[p].cmd \in Slow /\ job = NoCommand
        /\ job' = cur[p].cmd
        /\ last' = NoResponse
        /\ overtaken' = Overtakes(p)
  /\ UNCHANGED ec_command_proto

\* EC_CMD_RESEND_RESPONSE, which has no other version than 0, but is sent in
\* that of the command. What it is told now is final.
Resend(p) ==
  /\ At(p, "resend")
  /\ Return(p, IF cur[p].cmd \in Version0 THEN Result(last, p) ELSE Failed)
  /\ UNCHANGED <<overtaken, ec_command_proto, job, last>>

ResendFails(p) ==
  /\ At(p, "resend")
  /\ Return(p, Failed)
  /\ UNCHANGED <<overtaken, ec_command_proto, job, last>>

-----------------------------------------------------------------------------
\* I2C: the EC takes a request when it has nothing to do, and holds the clock
\* while it works.
Write(p) ==
  /\ At(p, "write") /\ ~TooBig(cur[p].insize)
  /\ \/ /\ job = NoCommand
        /\ job' = cur[p].cmd
        /\ last' = NoResponse
        /\ GoTo(p, "read")
     \/ Return(p, Failed) /\ UNCHANGED <<job, last>>
  /\ UNCHANGED <<overtaken, ec_command_proto>>

\* The result, the length of the packet, the checksum, in that order.
Read(p) ==
  /\ At(p, "read")
  /\ \/ job = NoCommand /\ Return(p, Result(last, p))
     \/ Return(p, Failed)
  /\ UNCHANGED <<overtaken, ec_command_proto, job, last>>

-----------------------------------------------------------------------------
\* The EC is done with what it was at. The bus can garble what it says.
EcFinishes ==
  /\ job # NoCommand
  /\ last' \in Responses(job) \cup IF Dev THEN {} ELSE Garbled(job)
  /\ job' = NoCommand
  /\ UNCHANGED <<ec_command_proto, callVars>>

\* The process is killed in the middle of its call; another one starts afresh.
Dies(p) ==
  /\ ~At(p, "idle")
  /\ Return(p, Pending)
  /\ UNCHANGED <<overtaken, ec_command_proto, job, last>>

HostStep(p) ==
  \/ Call(p) \/ Refuse(p) \/ Ioctl(p) \/ IoctlInProgress(p) \/ IoctlFails(p)
  \/ Resend(p) \/ ResendFails(p) \/ Write(p) \/ Read(p)

Next == EcFinishes \/ \E p \in Proc : HostStep(p) \/ Dies(p)

Spec == Init /\ [][Next]_vars

-----------------------------------------------------------------------------
(***************************************************************************)
(* A call returns as success only the EC's answer to its own command, and  *)
(* all of it, also when the answer to a slow command is fetched by a       *)
(* second ioctl, after calls that gave up and processes that died, as long *)
(* as the EC served no other process in between: the kernel's lock covers  *)
(* an ioctl, and not the pair.                                             *)
(***************************************************************************)
OwnAnswer ==
  [][\A p \in Proc :
       ret'[p] # ret[p] /\ ret'[p].status = "ok" /\ ~overtaken[p] =>
         ret'[p] = Ok(cur[p].cmd, RespLen[cur[p].cmd])]_vars

Promise(p) == INSTANCE HostCommand WITH cur <- cur[p], ret <- ret[p]

(***************************************************************************)
(* Each process sees the promise of ec_command() kept, call by call, over  *)
(* either node and whatever the others do, except for a success of a call  *)
(* that was overtaken.                                                     *)
(***************************************************************************)
KeepsPromise ==
  /\ \A p \in Proc : Promise(p)!Init
  /\ [][\A p \in Proc :
          (ret'[p].status = "ok" => ~overtaken[p]) =>
            [Promise(p)!Next]_<<cur[p], ret[p]>>]_vars
=============================================================================
