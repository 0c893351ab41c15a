----------------------------- MODULE UsbTransfer -----------------------------
(***************************************************************************)
(* comm-usb.cc: one host command as a bulk OUT transfer and a bulk IN      *)
(* transfer, each with a timeout of its own. The EC's answers wait in the  *)
(* IN endpoint, packet by packet, until some transfer reads them: nothing  *)
(* tells a caller that the packets it reads answer its own request.        *)
(*                                                                         *)
(* Sizes are in units of sizeof(struct ec_host_response).                  *)
(***************************************************************************)
EXTENDS Naturals, Sequences

CONSTANTS
  Command, NoCommand, RespLen, InSizes,
  MaxPacket,     \* wMaxPacketSize of the IN endpoint
  Depth          \* bound: requests and packets that the EC holds

ASSUME NoCommandAssumption == NoCommand \notin Command
ASSUME RespLenAssumption == RespLen \in [Command -> Nat]
ASSUME InSizesAssumption == InSizes \subseteq Nat
ASSUME MaxPacketAssumption == MaxPacket \in Nat \ {0}
ASSUME DepthAssumption == Depth \in Nat \ {0}

VARIABLES
  pc,       \* where ec_command_usb() is
  cur, ret, \* as in HostCommand
  res,      \* what the IN transfer has received
  fresh,    \* history: the call began in step with the EC, with a buffer
            \* large enough for the answer
  jobs,     \* EC: requests received and not yet answered
  packets   \* IN endpoint: packets nobody has read

vars == <<pc, cur, ret, res, fresh, jobs, packets>>

NoCall == [cmd |-> NoCommand, insize |-> 0]
Pending == [status |-> "none", cmd |-> NoCommand, len |-> 0]
Failed == [status |-> "error", cmd |-> NoCommand, len |-> 0]
Ok(c, n) == [status |-> "ok", cmd |-> c, len |-> n]

\* The first packet received is taken for the response header.
Nothing == [cmd |-> NoCommand, kind |-> "tail", size |-> 0]
Empty == [got |-> 0, first |-> Nothing]

Header == 1
Total(c) == Header + RespLen[c]

\* An answer fills packets, the last one with what is left. No empty packet
\* follows an answer that fills its last one.
PacketCount(c) == (Total(c) + MaxPacket - 1) \div MaxPacket
PacketSize(c, k) == IF k * MaxPacket <= Total(c) THEN MaxPacket
                    ELSE Total(c) % MaxPacket
AnswerTo(c) ==
  [k \in 1 .. PacketCount(c) |->
     [cmd |-> c, kind |-> IF k = 1 THEN "success" ELSE "tail",
      size |-> PacketSize(c, k)]]
RefusalOf(c) == <<[cmd |-> c, kind |-> "refused", size |-> Header]>>

Init ==
  /\ pc = "return" /\ cur = NoCall /\ ret = Pending
  /\ res = Empty /\ fresh = FALSE
  /\ jobs = <<>> /\ packets = <<>>

InStep == jobs = <<>> /\ packets = <<>>

Return(r) == pc' = "return" /\ cur' = NoCall /\ ret' = r /\ res' = Empty

-----------------------------------------------------------------------------
Call ==
  /\ pc = "return"
  /\ \E c \in Command, n \in InSizes :
       /\ cur' = [cmd |-> c, insize |-> n]
       /\ fresh' = (InStep /\ RespLen[c] <= n)
  /\ pc' = "out" /\ ret' = Pending
  /\ UNCHANGED <<res, jobs, packets>>

\* do_xfer(): the OUT transfer. The EC takes no more than it has room for.
SendRequest ==
  /\ pc = "out" /\ Len(jobs) < Depth
  /\ jobs' = Append(jobs, cur.cmd)
  /\ pc' = "in"
  /\ UNCHANGED <<cur, ret, res, fresh, packets>>

SendFails ==
  /\ pc = "out"
  /\ \/ UNCHANGED jobs
     \/ Len(jobs) < Depth /\ jobs' = Append(jobs, cur.cmd)
  /\ Return(Failed)
  /\ UNCHANGED <<fresh, packets>>

\* do_xfer(): the IN transfer ends when the buffer is full or a short packet
\* arrives, and fails on a packet that does not fit.
RoomForAny == MaxPacket     \* a bug: the transfer is not bounded by the buffer
Room == Header + cur.insize - res.got

EveryPacketLast(p) == TRUE  \* a bug: only one packet is read
LastPacket(p) == p.size = Room \/ p.size < MaxPacket

ReceivePacket ==
  /\ pc = "in" /\ packets # <<>>
  /\ packets' = Tail(packets)
  /\ LET p == Head(packets)
     IN IF p.size > Room THEN Return(Failed)
        ELSE /\ res' = [got |-> res.got + p.size,
                        first |-> IF res.got = 0 THEN p ELSE res.first]
             /\ pc' = IF LastPacket(p) THEN "reply" ELSE "in"
             /\ UNCHANGED <<cur, ret>>
  /\ UNCHANGED <<fresh, jobs>>

\* A bug: the transfer waits for ever.
NoTimeout == FALSE

\* Five seconds without a packet, or a broken transfer.
ReceiveFails ==
  /\ pc = "in"
  /\ Return(Failed)
  /\ UNCHANGED <<fresh, jobs, packets>>

DataLenReceived == res.got  \* a bug: counts the header of the answer
DataLen == RespLen[res.first.cmd]

\* What the header says is returned unchecked; the tail of another answer may
\* read as anything.
Reply ==
  /\ pc = "reply"
  /\ CASE res.first.kind = "success" ->
            Return(Ok(res.first.cmd, DataLen))
       [] res.first.kind = "refused" -> Return(Failed)
       [] OTHER -> Return(Failed) \/ Return(Ok(NoCommand, 0))
  /\ UNCHANGED <<fresh, jobs, packets>>

Dies ==
  /\ pc # "return"
  /\ Return(Pending)
  /\ UNCHANGED <<fresh, jobs, packets>>

HostStep == SendRequest \/ SendFails \/ ReceivePacket \/ ReceiveFails \/ Reply

\* The EC works through its requests.
EcAnswers ==
  /\ jobs # <<>> /\ Len(packets) < Depth
  /\ \E a \in {AnswerTo(Head(jobs)), RefusalOf(Head(jobs))} :
       packets' = packets \o a
  /\ jobs' = Tail(jobs)
  /\ UNCHANGED <<pc, cur, ret, res, fresh>>

Next == Call \/ HostStep \/ Dies \/ EcAnswers

Spec == Init /\ [][Next]_vars

\* The host process runs, and libusb times out.
FairSpec == Spec /\ WF_vars(HostStep)

-----------------------------------------------------------------------------
Packet == [cmd : Command \cup {NoCommand},
           kind : {"success", "refused", "tail"}, size : 0 .. MaxPacket]

\* Typing; the IN transfer never holds more than the response buffer.
TypeOK ==
  /\ pc \in {"return", "out", "in", "reply"}
  /\ cur \in [cmd : Command \cup {NoCommand}, insize : InSizes \cup {0}]
  /\ ret.status \in {"none", "error", "ok"}
  /\ res.got <= Header + cur.insize /\ res.first \in Packet
  /\ fresh \in BOOLEAN
  /\ Len(jobs) <= Depth /\ \A k \in DOMAIN jobs : jobs[k] \in Command
  /\ \A k \in DOMAIN packets : packets[k] \in Packet

(***************************************************************************)
(* A call that begins with nothing left over from earlier ones, and whose  *)
(* buffer is large enough, returns the answer to its own command or fails, *)
(* whatever went wrong before: errors do not leak into a later call that   *)
(* found the EC idle.                                                      *)
(***************************************************************************)
OwnAnswer ==
  [][ret' # ret /\ ret'.status = "ok" /\ fresh =>
       ret' = Ok(cur.cmd, RespLen[cur.cmd])]_vars

Promise == INSTANCE HostCommand

(***************************************************************************)
(* The transport keeps the promise of ec_command(), call by call, except   *)
(* for a success of a call that found something left over or has too small *)
(* a buffer.                                                               *)
(***************************************************************************)
KeepsPromise ==
  /\ Promise!Init
  /\ [][(ret'.status = "ok" => fresh) => [Promise!Next]_<<cur, ret>>]_vars

(***************************************************************************)
(* Such a call, when it succeeds, also leaves nothing behind for the next  *)
(* one: host and EC stay in step until a call fails.                       *)
(***************************************************************************)
StaysInStep == pc = "return" /\ ret.status = "ok" /\ fresh => InStep

\* At most this many steps are left of a call: no packet that leaves the
\* transfer going is empty.
StepsLeft == CASE pc = "return" -> 0 [] pc = "reply" -> 1
               [] pc = "in" -> 2 + Room [] pc = "out" -> 3 + Room

(***************************************************************************)
(* A call comes closer to its end with every step it makes, and nothing    *)
(* the EC sends, late or too much, makes it longer than its buffer is.     *)
(***************************************************************************)
ClosesIn ==
  [][/\ HostStep => StepsLeft' < StepsLeft
     /\ pc # "return" => StepsLeft' \in 0 .. StepsLeft]_vars

(***************************************************************************)
(* Every call returns, even when the EC falls silent: both transfers have  *)
(* a timeout.                                                              *)
(***************************************************************************)
CallReturns == pc # "return" ~> pc = "return"
=============================================================================
