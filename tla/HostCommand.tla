----------------------------- MODULE HostCommand -----------------------------
(***************************************************************************)
(* What comm-host.h promises of ec_command(), whatever the transport:      *)
(* "Send a command to the EC. Returns the length of output data returned   *)
(* (0 if none), or negative on error." A successful call returns the EC's  *)
(* answer to the command it was given, and an answer that fits the         *)
(* caller's buffer.                                                        *)
(***************************************************************************)
EXTENDS Naturals

CONSTANTS
  Command,    \* commands, each with its parameters
  NoCommand,
  RespLen,    \* the length of the EC's answer to each command
  InSizes     \* the insize arguments of callers

VARIABLES
  cur,   \* the call in progress: its command and insize
  ret    \* how the last call ended

NoCall == [cmd |-> NoCommand, insize |-> 0]
Pending == [status |-> "none", cmd |-> NoCommand, len |-> 0]
Failed == [status |-> "error", cmd |-> NoCommand, len |-> 0]
Answer(c) == [status |-> "ok", cmd |-> c, len |-> RespLen[c]]

Init == cur = NoCall /\ ret = Pending

Call == /\ cur = NoCall
        /\ \E c \in Command, n \in InSizes : cur' = [cmd |-> c, insize |-> n]
        /\ ret' = Pending

Succeed == /\ cur # NoCall
           /\ RespLen[cur.cmd] <= cur.insize
           /\ ret' = Answer(cur.cmd)
           /\ cur' = NoCall

Fail == /\ cur # NoCall
        /\ ret' = Failed
        /\ cur' = NoCall

\* The process ends in the middle of a call; another one starts afresh.
Abandon == cur' = NoCall /\ ret' = Pending

Next == Call \/ Succeed \/ Fail \/ Abandon

Spec == Init /\ [][Next]_<<cur, ret>>
=============================================================================
