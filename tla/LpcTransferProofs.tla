-------------------------- MODULE LpcTransferProofs --------------------------
(***************************************************************************)
(* LpcTransfer is well typed and implements HostCommand, for any set of    *)
(* commands, lengths, buffers and ECs. The invariant follows an answer     *)
(* through the shared packet memory: once the command port is written and  *)
(* the EC has picked the command up, the only success the host can read    *)
(* there is its own.                                                       *)
(***************************************************************************)
EXTENDS LpcTransfer, TLAPS

\* A protocol 3 response does not name its command, so such an EC must not
\* lose a command that is written while it works on another.
NoSilentDrop == \A e \in Ecs : e.proto = 3 => ~e.drops

\* A call has a command while it lasts; one that protocol 3 cannot carry is
\* never written.
CallInv ==
  /\ pc # "return" => cur.cmd \in Command
  /\ pc = "return" => cur = NoCall
  /\ pc \in {"header", "start"} /\ ec.proto = 3 => cur.cmd \notin Oversize

\* A request or a response belongs to a command.
PartInv == header.kind \in {"request", "response"} => header.cmd \in Command

BaseInv == TypeOK /\ CallInv /\ PartInv

\* From the moment the header is written, the packet memory holds no request
\* but that of the call.
RequestInv ==
  pc \in {"start", "wait", "result"} /\ header.kind = "request" => header.cmd = cur.cmd

\* What the host would take for success is the answer to its own command.
OwnOrRefused ==
  result = "success" /\ header.kind = "response" => header.cmd = cur.cmd

\* An EC that has picked up the command works on it, or on nothing that makes
\* sense, or has answered it.
PickedUpInv ==
  pc = "wait" /\ ~from_host /\ ec.proto = 3 =>
    \/ job \in {Garbled, cur.cmd}
    \/ job = Idle /\ OwnOrRefused

\* A host that reads the result sees an EC at rest.
RestInv ==
  pc = "result" => ~from_host /\ job = Idle /\ (ec.proto = 3 => OwnOrRefused)

LpcInv == BaseInv /\ RequestInv /\ PickedUpInv /\ RestInv

-----------------------------------------------------------------------------
\* The base invariant holds before the first call.
LEMMA BaseInit == Init => BaseInv
<1> SUFFICES ASSUME Init PROVE BaseInv
  OBVIOUS
<1>1. TypeOK
  BY OversizeAssumption, NoCommandAssumption
     DEF Init, TypeOK, NoCall, Pending, NoPart, PartOf, Part
<1>2. CallInv /\ PartInv
  BY DEF Init, CallInv, PartInv, NoPart, PartOf
<1> QED BY <1>1, <1>2 DEF BaseInv

\* Every step of host and EC keeps it.
LEMMA BaseStep == BaseInv /\ [Next]_vars => BaseInv'
<1> SUFFICES ASSUME BaseInv, [Next]_vars PROVE BaseInv'
  OBVIOUS
<1> USE InSizesAssumption DEF BaseInv, TypeOK, CallInv, PartInv, Part, PartOf
<1>r. ASSUME NEW r, r.status \in {"none", "error", "ok"}, Return(r), UNCHANGED <<portVars, ecVars>>
      PROVE  BaseInv'
  BY <1>r DEF Return, NoCall, portVars, ecVars
<1>1. CASE Call
  BY <1>1 DEF Call, Pending, portVars, ecVars
<1>2. CASE Refuse \/ WaitTimesOut \/ HostDies
  BY <1>2, <1>r DEF Refuse, WaitTimesOut, HostDies, Failed, Pending
<1>3. CASE WriteData
  BY <1>3 DEF WriteData, TooBig, ecVars
<1>4. CASE WriteHeader
  BY <1>4 DEF WriteHeader, ecVars
<1>5. CASE StartCommand
  BY <1>5 DEF StartCommand, ecVars
<1>6. CASE WaitDone
  BY <1>6 DEF WaitDone, portVars, ecVars
<1>7. CASE ReadResponse
  BY <1>7, <1>r DEF ReadResponse, Failed
<1>8. CASE EcPicksUp
  <2>1. /\ job' \in {header.cmd, Garbled} /\ job' \in Command \cup {Garbled}
        /\ UNCHANGED <<hostVars, header, body, port, ec, result>>
    BY <1>8 DEF EcPicksUp, ValidRequest
  <2>2. from_host' \in BOOLEAN
    BY <1>8, Zenon DEF EcPicksUp
  <2> QED BY <2>1, <2>2 DEF hostVars
<1>9. CASE EcDrops
  <2>1. UNCHANGED <<hostVars, header, body, port, ecVars>>
    BY <1>9 DEF EcDrops
  <2>2. from_host' \in BOOLEAN
    BY <1>9, Zenon DEF EcDrops
  <2> QED BY <2>1, <2>2 DEF hostVars, ecVars
<1>10. CASE EcAnswers
  BY <1>10 DEF EcAnswers, hostVars
<1>11. CASE UNCHANGED vars
  BY <1>11 DEF vars, hostVars, portVars, ecVars
<1> QED BY <1>1, <1>2, <1>3, <1>4, <1>5, <1>6, <1>7, <1>8, <1>9, <1>10, <1>11
           DEF Next, HostStep, EcStep

\* Every variable of host, ports and EC has its type, and no protocol 3 EC is
\* told to start a request that exceeds the packet memory.
THEOREM LpcTypeCorrect == Spec => []TypeOK
<1>1. Spec => []BaseInv
  BY BaseInit, BaseStep, PTL DEF Spec
<1> QED BY <1>1, PTL DEF BaseInv

-----------------------------------------------------------------------------
\* The invariant of the answer holds before the first call.
LEMMA LpcInit == Init => LpcInv
BY BaseInit DEF Init, LpcInv, RequestInv, PickedUpInv, RestInv

\* Every step keeps it, provided that no command is lost where the answer does
\* not tell.
LEMMA LpcStep ==
  ASSUME NoSilentDrop PROVE LpcInv /\ [Next]_vars => LpcInv'
<1> SUFFICES ASSUME LpcInv, [Next]_vars PROVE LpcInv'
  OBVIOUS
<1>b. BaseInv /\ BaseInv'
  BY BaseStep DEF LpcInv
<1> SUFFICES RequestInv' /\ PickedUpInv' /\ RestInv'
  BY <1>b DEF LpcInv
<1> USE <1>b DEF BaseInv, TypeOK, CallInv, PartInv, PartOf, RequestInv, PickedUpInv,
                 RestInv, OwnOrRefused, LpcInv
<1>1. CASE Call \/ Refuse \/ WaitTimesOut \/ HostDies \/ ReadResponse
  BY <1>1 DEF Call, Refuse, WaitTimesOut, HostDies, ReadResponse, Return
<1>2. CASE WriteData \/ WriteHeader
  BY <1>2 DEF WriteData, WriteHeader
<1>3. CASE StartCommand
  BY <1>3 DEF StartCommand, ecVars
<1>4. CASE WaitDone
  BY <1>4, JobAssumption DEF WaitDone, Busy, Garbled, Idle, portVars, ecVars
<1>5. CASE EcPicksUp
  BY <1>5 DEF EcPicksUp, ValidRequest, hostVars
<1>6. CASE EcDrops
  BY <1>6 DEF EcDrops, NoSilentDrop, hostVars, ecVars
<1>7. CASE EcAnswers
  BY <1>7 DEF EcAnswers, hostVars
<1>8. CASE UNCHANGED vars
  BY <1>8 DEF vars, hostVars, portVars, ecVars
<1> QED BY <1>1, <1>2, <1>3, <1>4, <1>5, <1>6, <1>7, <1>8 DEF Next, HostStep, EcStep

\* A host that accepts a response has that of its own command before it.
LEMMA AcceptedIsOwn ==
  ASSUME LpcInv, pc = "result", result = "success", ResponseOk
  PROVE  header.cmd = cur.cmd /\ RespLen[cur.cmd] <= cur.insize
<1>1. ec.proto \in {2, 3}
  BY EcsAssumption DEF LpcInv, BaseInv, TypeOK
<1> QED BY <1>1 DEF LpcInv, RestInv, OwnOrRefused, ResponseOk

\* A step of the transfer is a step of the abstract call, or leaves it alone.
LEMMA PromiseStep == LpcInv /\ [Next]_vars => [Promise!Next]_<<cur, ret>>
<1> SUFFICES ASSUME LpcInv, Next, ~UNCHANGED <<cur, ret>> PROVE Promise!Next
  BY DEF vars, hostVars
<1>1. pc # "return" <=> cur # NoCall
  BY NoCommandAssumption DEF LpcInv, BaseInv, CallInv, NoCall
<1>2. CASE Call
  <2>1. Promise!Call
    BY <1>1, <1>2 DEF Call, Promise!Call, NoCall, Pending, Promise!NoCall, Promise!Pending
  <2> QED BY <2>1 DEF Promise!Next
<1>3. ASSUME pc # "return", Return(Failed) PROVE Promise!Next
  BY <1>1, <1>3 DEF Return, Promise!Next, Promise!Fail, NoCall, Failed, Promise!NoCall,
                    Promise!Failed
<1>4. CASE HostDies
  BY <1>4 DEF HostDies, Return, Promise!Next, Promise!Abandon, NoCall, Pending,
              Promise!NoCall, Promise!Pending
<1>5. CASE ReadResponse
  <2>1. CASE result = "success" /\ ResponseOk
    <3>1. header.cmd = cur.cmd /\ RespLen[cur.cmd] <= cur.insize
      BY <1>5, <2>1, AcceptedIsOwn DEF ReadResponse
    <3>2. Promise!Succeed
      BY <1>1, <1>5, <2>1, <3>1
         DEF ReadResponse, Return, Promise!Succeed, Promise!Answer, NoCall, Promise!NoCall
    <3> QED BY <3>2 DEF Promise!Next
  <2> QED BY <1>3, <1>5, <2>1 DEF ReadResponse
<1>6. CASE Refuse \/ WaitTimesOut
  BY <1>3, <1>6 DEF Refuse, WaitTimesOut
<1>7. ~(WriteData \/ WriteHeader \/ StartCommand \/ WaitDone \/ EcStep)
  BY DEF WriteData, WriteHeader, StartCommand, WaitDone, EcStep, EcPicksUp, EcDrops,
         EcAnswers, hostVars
<1> QED BY <1>2, <1>4, <1>5, <1>6, <1>7 DEF Next, HostStep

\* ec_command_lpc() and ec_command_lpc_3() implement the promise of ec_command():
\* whatever earlier calls gave up on, and however late the EC is, a call that
\* succeeds returns the whole answer to its own command, and one that fits.
THEOREM LpcKeepsPromise ==
  ASSUME NoSilentDrop PROVE Spec => KeepsPromise
<1>1. Init => Promise!Init
  BY DEF Init, Promise!Init, NoCall, Pending, Promise!NoCall, Promise!Pending
<1>2. Spec => []LpcInv
  BY LpcInit, LpcStep, PTL DEF Spec
<1> QED BY <1>1, <1>2, PromiseStep, PTL DEF Spec, KeepsPromise, Promise!Spec
=============================================================================
