-------------------------- MODULE UsbTransferProofs ---------------------------
(***************************************************************************)
(* UsbTransfer is well typed, and a call that begins in step with the EC   *)
(* returns its own answer, as HostCommand promises, and stays in step, for *)
(* any commands, lengths, buffers and packet size. The invariant says what *)
(* is left of the answer while such a call reads it; that the transfer     *)
(* ends with the last packet and not before is arithmetic on their sizes.  *)
(* Every step of any call brings it closer to its end.                     *)
(***************************************************************************)
EXTENDS UsbTransfer, Integers, TLAPS

\* The types of TypeOK but that of fresh, and what they leave open.
Typed ==
  /\ pc \in {"return", "out", "in", "reply"}
  /\ cur \in [cmd : Command \cup {NoCommand}, insize : InSizes \cup {0}]
  /\ ret.status \in {"none", "error", "ok"}
  /\ res.got \in Nat /\ res.got <= Header + cur.insize /\ res.first \in Packet
  /\ Len(jobs) <= Depth

\* A call has a command, and has not begun to read before it has sent.
CallInv ==
  /\ pc # "return" => cur.cmd \in Command
  /\ pc = "return" => cur = NoCall
  /\ pc \in {"return", "out"} => res = Empty
  /\ jobs \in Seq(Command) /\ packets \in Seq(Packet)

\* The bytes in n packets that are full.
Bytes(n) == n * MaxPacket

\* After n packets of the answer to c: the others wait, and the transfer has
\* seen the header of this answer unless n is 0.
ReadOfAnswer(c, n) ==
  /\ Len(packets) = PacketCount(c) - n
  /\ \A k \in 1 .. Len(packets) : packets[k] = AnswerTo(c)[n + k]
  /\ n < PacketCount(c) => res.got = Bytes(n)
  /\ IF n = 0 THEN res = Empty ELSE res.first = AnswerTo(c)[1]

\* Where the transfer of a call in step can be.
Awaited(c) == jobs = <<c>> /\ packets = <<>> /\ res = Empty
Answered(c) == jobs = <<>> /\ \E n \in 0 .. PacketCount(c) : ReadOfAnswer(c, n)
Refused(c) ==
  /\ jobs = <<>>
  /\ \/ packets = RefusalOf(c) /\ res = Empty
     \/ packets = <<>> /\ res.first = RefusalOf(c)[1]

\* A call that began in step finds nothing but its own answer.
FreshInv ==
  fresh =>
    /\ pc # "return" => RespLen[cur.cmd] <= cur.insize
    /\ pc = "out" => InStep
    /\ pc = "in" => Awaited(cur.cmd) \/ Answered(cur.cmd) \/ Refused(cur.cmd)
    /\ pc = "reply" => /\ InStep /\ res.first.cmd = cur.cmd
                       /\ res.first.kind \in {"success", "refused"}
    /\ pc = "return" /\ ret.status = "ok" => InStep

UsbInv == Typed /\ fresh \in BOOLEAN /\ CallInv /\ FreshInv

-----------------------------------------------------------------------------
\* What divides a number leaves less than itself.
LEMMA Division ==
  ASSUME NEW a \in Nat, NEW w \in Nat \ {0}
  PROVE  /\ a \div w \in Nat /\ a % w \in 0 .. w - 1
         /\ a = (a \div w) * w + (a % w)
OBVIOUS

\* Quotient and remainder are determined by that.
LEMMA DivisionUnique ==
  ASSUME NEW w \in Nat \ {0}, NEW q \in Nat, NEW r \in 0 .. w - 1
  PROVE  (q * w + r) % w = r
OBVIOUS

\* A product with one factor more.
LEMMA BytesAdd ==
  ASSUME NEW n \in Nat
  PROVE  Bytes(0) = 0 /\ Bytes(n) \in Nat /\ Bytes(n + 1) = Bytes(n) + MaxPacket
BY MaxPacketAssumption DEF Bytes

\* More full packets hold no fewer bytes.
LEMMA BytesMonotone ==
  ASSUME NEW m \in Nat, NEW n \in Nat, m <= n
  PROVE  Bytes(m) <= Bytes(n)
BY MaxPacketAssumption DEF Bytes

\* The packets of an answer hold all of it, and those before the last do not.
LEMMA PacketsHold ==
  ASSUME NEW c \in Command
  PROVE  /\ Total(c) \in Nat \ {0} /\ PacketCount(c) \in Nat \ {0}
         /\ Bytes(PacketCount(c) - 1) < Total(c) /\ Total(c) <= Bytes(PacketCount(c))
<1> DEFINE a == Total(c) + MaxPacket - 1
           q == PacketCount(c)
           r == a % MaxPacket
<1>1. Total(c) \in Nat \ {0} /\ a \in Nat /\ a >= MaxPacket /\ MaxPacket \in Nat \ {0}
  BY RespLenAssumption, MaxPacketAssumption DEF Total, Header
<1>2. q \in Nat /\ r \in 0 .. MaxPacket - 1 /\ a = Bytes(q) + r
  BY <1>1, Division DEF PacketCount, Bytes
<1>3. Bytes(0) = 0
  BY BytesAdd
<1>4. q # 0
  <2> SUFFICES ASSUME q = 0 PROVE FALSE
    OBVIOUS
  <2>1. a = r
    BY <1>1, <1>2, <1>3
  <2> HIDE DEF a, q, r
  <2> QED BY <1>1, <1>2, <2>1
<1>5. q - 1 \in Nat /\ (q - 1) + 1 = q
  <2> HIDE DEF q
  <2> QED BY <1>2, <1>4
<1>6. Bytes(q) = Bytes(q - 1) + MaxPacket /\ Bytes(q - 1) \in Nat
  <2> HIDE DEF q
  <2> QED BY <1>5, BytesAdd
<1>7. a = Total(c) + MaxPacket - 1
  OBVIOUS
<1> HIDE DEF a, q, r
<1>8. Bytes(q - 1) < Total(c) /\ Total(c) <= Bytes(q)
  BY <1>1, <1>2, <1>6, <1>7
<1> QED BY <1>1, <1>2, <1>4, <1>8 DEF q

\* Every packet before the last is full and leaves something; the last one has
\* what is left.
LEMMA PacketSizes ==
  ASSUME NEW c \in Command, NEW n \in Nat, n < PacketCount(c)
  PROVE  /\ PacketSize(c, n + 1) \in 1 .. MaxPacket /\ Bytes(n) \in Nat
         /\ n + 1 < PacketCount(c) =>
              /\ PacketSize(c, n + 1) = MaxPacket
              /\ Bytes(n + 1) = Bytes(n) + MaxPacket /\ Bytes(n + 1) < Total(c)
         /\ n + 1 = PacketCount(c) => PacketSize(c, n + 1) = Total(c) - Bytes(n)
<1> DEFINE last == PacketCount(c) - 1
<1>1. PacketCount(c) \in Nat \ {0} /\ last \in Nat /\ n <= last /\ PacketCount(c) = last + 1
  BY PacketsHold
<1>2. /\ Total(c) \in Nat \ {0} /\ MaxPacket \in Nat \ {0}
      /\ Bytes(last) < Total(c) /\ Total(c) <= Bytes(PacketCount(c))
  BY PacketsHold, MaxPacketAssumption
<1>3. Bytes(n) \in Nat /\ Bytes(n + 1) = Bytes(n) + MaxPacket
  BY BytesAdd
<1>4. PacketSize(c, n + 1) = IF Bytes(n + 1) <= Total(c) THEN MaxPacket
                             ELSE Total(c) % MaxPacket
  BY DEF PacketSize, Bytes
<1> HIDE DEF last
<1>5. CASE n + 1 < PacketCount(c)
  <2>1. n + 1 \in Nat /\ n + 1 <= last
    BY <1>1, <1>5
  <2>2. Bytes(n + 1) <= Bytes(last) /\ Bytes(last) \in Nat
    BY <1>1, <2>1, BytesMonotone, BytesAdd
  <2>3. Bytes(n + 1) < Total(c)
    BY <1>2, <1>3, <2>2
  <2> QED BY <1>2, <1>3, <1>4, <1>5, <2>3
<1>6. CASE n + 1 = PacketCount(c)
  <2>1. n = last
    BY <1>1, <1>6
  <2>2. Bytes(n) < Total(c) /\ Total(c) <= Bytes(n) + MaxPacket
    BY <1>2, <1>3, <1>6, <2>1
  <2>3. CASE Total(c) = Bytes(n) + MaxPacket
    BY <1>2, <1>3, <1>4, <1>6, <2>3
  <2>4. CASE Total(c) < Bytes(n) + MaxPacket
    <3> DEFINE r == Total(c) - Bytes(n)
    <3>1. r \in 1 .. MaxPacket - 1 /\ Total(c) = Bytes(n) + r
      BY <1>2, <1>3, <2>2, <2>4
    <3>2. r \in 0 .. MaxPacket - 1
      BY <1>2, <3>1
    <3>3. (n * MaxPacket + r) % MaxPacket = r
      <4> HIDE DEF r
      <4> QED BY <1>2, <3>2, DivisionUnique
    <3>4. Total(c) % MaxPacket = r
      BY <3>1, <3>3 DEF Bytes
    <3> QED BY <1>2, <1>3, <1>4, <1>6, <2>4, <3>1, <3>4
  <2> QED BY <1>2, <1>3, <2>2, <2>3, <2>4
<1> QED BY <1>1, <1>5, <1>6

\* The packets of an answer are packets, the first one with its header.
LEMMA AnswerPackets ==
  ASSUME NEW c \in Command
  PROVE  /\ AnswerTo(c) \in Seq(Packet) /\ Len(AnswerTo(c)) = PacketCount(c)
         /\ AnswerTo(c)[1].cmd = c /\ AnswerTo(c)[1].kind = "success"
         /\ RefusalOf(c) \in Seq(Packet)
         /\ \A n \in Nat : n < PacketCount(c) =>
              AnswerTo(c)[n + 1].size = PacketSize(c, n + 1)
<1>1. PacketCount(c) \in Nat \ {0} /\ MaxPacket \in Nat \ {0}
  BY PacketsHold, MaxPacketAssumption
<1>2. \A k \in 1 .. PacketCount(c) : PacketSize(c, k) \in 0 .. MaxPacket
  <2> TAKE k \in 1 .. PacketCount(c)
  <2>1. k - 1 \in Nat /\ k - 1 < PacketCount(c) /\ (k - 1) + 1 = k
    BY <1>1
  <2>2. PacketSize(c, k) \in 1 .. MaxPacket
    BY <2>1, PacketSizes
  <2> QED BY <1>1, <2>2
<1> HIDE DEF PacketSize, PacketCount
<1>3. AnswerTo(c) \in [1 .. PacketCount(c) -> Packet]
  BY <1>2 DEF AnswerTo, Packet
<1>4. AnswerTo(c) \in Seq(Packet) /\ Len(AnswerTo(c)) = PacketCount(c)
  BY <1>1, <1>3
<1>5. RefusalOf(c) \in Seq(Packet)
  BY <1>1 DEF RefusalOf, Packet, Header
<1>6. AnswerTo(c)[1].cmd = c /\ AnswerTo(c)[1].kind = "success"
  BY <1>1 DEF AnswerTo
<1>7. \A n \in Nat : n < PacketCount(c) => AnswerTo(c)[n + 1].size = PacketSize(c, n + 1)
  BY <1>1 DEF AnswerTo
<1> QED BY <1>4, <1>5, <1>6, <1>7

-----------------------------------------------------------------------------
\* What the invariant says of types, without fresh.
LEMMA UsbTypes ==
  UsbInv => /\ Typed /\ CallInv
            /\ cur.insize \in Nat /\ res.got \in Nat /\ res.got <= 1 + cur.insize
            /\ Room = 1 + cur.insize - res.got /\ Room \in Nat
<1> SUFFICES ASSUME UsbInv
             PROVE  /\ Typed /\ CallInv
                    /\ cur.insize \in Nat /\ res.got \in Nat /\ res.got <= 1 + cur.insize
                    /\ Room = 1 + cur.insize - res.got /\ Room \in Nat
  OBVIOUS
<1>1. Typed /\ CallInv
  BY Zenon DEF UsbInv
<1>2. cur.insize \in InSizes \cup {0}
  BY <1>1 DEF Typed
<1>3. cur.insize \in Nat
  <2>1. InSizes \cup {0} \subseteq Nat
    BY InSizesAssumption
  <2> QED BY <1>2, <2>1, Zenon
<1>4. res.got \in Nat /\ res.got <= 1 + cur.insize
  BY <1>1 DEF Typed, Header
<1>5. Room = 1 + cur.insize - res.got
  BY DEF Room, Header
<1> QED BY <1>1, <1>3, <1>4, <1>5

\* The invariant holds before the first call.
LEMMA UsbInit == Init => UsbInv
<1> SUFFICES ASSUME Init PROVE UsbInv
  OBVIOUS
<1>1. Empty.got = 0 /\ Empty.first \in Packet
  BY MaxPacketAssumption DEF Empty, Nothing, Packet
<1>2. Typed
  BY <1>1, DepthAssumption DEF Init, Typed, NoCall, Pending, Header
<1>3. CallInv
  BY DEF Init, CallInv
<1>4. ~ fresh
  BY DEF Init
<1>5. fresh \in BOOLEAN
  BY Zenon DEF Init
<1>6. FreshInv
  BY <1>4, Zenon DEF FreshInv
<1> QED BY <1>2, <1>3, <1>5, <1>6, Zenon DEF UsbInv

\* A call that returns has no buffer and nothing received.
LEMMA ReturnTypes ==
  ASSUME NEW r, Return(r), r.status \in {"none", "error", "ok"}, Len(jobs') <= Depth
  PROVE  Typed' /\ pc' = "return" /\ res' = Empty /\ cur' = NoCall
BY MaxPacketAssumption DEF Typed, Return, NoCall, Empty, Nothing, Packet, Header

\* What ec_command_usb() may return by what it took for the header.
LEMMA ReplyReturns ==
  ASSUME Reply
  PROVE  /\ res.first.kind = "success" => Return(Ok(res.first.cmd, DataLen))
         /\ res.first.kind = "refused" => Return(Failed)
         /\ \E r : Return(r) /\ r.status \in {"error", "ok"}
<1>1. CASE res.first.kind = "success"
  <2>1. Return(Ok(res.first.cmd, DataLen)) /\ res.first.kind # "refused"
    BY <1>1, Zenon DEF Reply
  <2> QED BY <1>1, <2>1 DEF Ok
<1>2. CASE res.first.kind = "refused"
  <2>1. Return(Failed) /\ res.first.kind # "success"
    BY <1>2, Zenon DEF Reply
  <2> QED BY <1>2, <2>1 DEF Failed
<1>3. CASE res.first.kind # "success" /\ res.first.kind # "refused"
  <2>1. Return(Failed) \/ Return(Ok(NoCommand, 0))
    BY <1>3, Zenon DEF Reply
  <2> QED BY <1>3, <2>1 DEF Failed, Ok
<1> QED BY <1>1, <1>2, <1>3

\* Every step of host and EC keeps the types.
LEMMA UsbTypeStep == UsbInv /\ [Next]_vars => Typed' /\ CallInv'
<1> DEFINE Kept == Typed' /\ CallInv'
<1> SUFFICES ASSUME UsbInv, [Next]_vars PROVE Kept
  OBVIOUS
<1>a. Typed /\ CallInv
  BY UsbTypes
<1> USE DepthAssumption, InSizesAssumption, MaxPacketAssumption DEF Typed, CallInv
<1>1. CASE Call
  BY <1>a, <1>1 DEF Call, Pending, Empty, Header
<1>2. CASE SendRequest
  BY <1>a, <1>2 DEF SendRequest, Empty, Header
<1>3. CASE SendFails
  <2>1. jobs' \in Seq(Command) /\ Len(jobs') <= Depth
    BY <1>a, <1>3 DEF SendFails
  <2> QED BY <1>a, <1>3, <2>1, ReturnTypes DEF SendFails, Failed
<1>4. CASE ReceivePacket
  <2> DEFINE p == Head(packets)
  <2>1. p \in Packet /\ p.size \in Nat /\ packets' \in Seq(Packet)
    <3>1. packets \in Seq(Packet) /\ packets # <<>> /\ packets' = Tail(packets)
      BY <1>a, <1>4 DEF ReceivePacket
    <3>2. p \in Packet /\ packets' \in Seq(Packet)
      BY <3>1
    <3> HIDE DEF p
    <3> QED BY <3>2 DEF Packet
  <2>2. Len(jobs') <= Depth /\ jobs' \in Seq(Command) /\ jobs' = jobs
    BY <1>a, <1>4 DEF ReceivePacket
  <2>3. CASE p.size > Room
    <3>1. Return(Failed)
      BY <1>4, <2>3 DEF ReceivePacket
    <3> HIDE DEF p
    <3> QED BY <2>1, <2>2, <3>1, ReturnTypes DEF Failed
  <2>4. CASE ~ (p.size > Room)
    <3>1. /\ pc' \in {"reply", "in"} /\ cur' = cur /\ ret' = ret
          /\ res'.got = res.got + p.size /\ res'.first \in Packet
      BY <1>a, <1>4, <2>1, <2>4 DEF ReceivePacket
    <3>2. res.got + p.size <= Header + cur.insize /\ cur.insize \in Nat
      <4> HIDE DEF p
      <4> QED BY <2>1, <2>4, UsbTypes DEF Header
    <3>3. pc = "in"
      BY <1>4 DEF ReceivePacket
    <3> HIDE DEF p
    <3> QED BY <1>a, <2>1, <2>2, <3>1, <3>2, <3>3
  <2> QED BY <2>3, <2>4
<1>5. CASE ReceiveFails
  BY <1>a, <1>5, ReturnTypes DEF ReceiveFails, Failed
<1>6. CASE Reply
  <2>1. PICK r : Return(r) /\ r.status \in {"error", "ok"}
    BY <1>6, ReplyReturns
  <2> QED BY <1>a, <1>6, <2>1, ReturnTypes DEF Reply
<1>7. CASE Dies
  BY <1>a, <1>7, ReturnTypes DEF Dies, Pending
<1>8. CASE EcAnswers
  <2>1. Head(jobs) \in Command /\ jobs' \in Seq(Command) /\ Len(jobs') <= Depth
    BY <1>a, <1>8 DEF EcAnswers
  <2>2. packets' \in Seq(Packet)
    <3>1. PICK a \in {AnswerTo(Head(jobs)), RefusalOf(Head(jobs))} : packets' = packets \o a
      BY <1>8 DEF EcAnswers
    <3>2. a \in Seq(Packet)
      BY <2>1, <3>1, AnswerPackets
    <3> QED BY <1>a, <3>1, <3>2
  <2> QED BY <1>a, <1>8, <2>1, <2>2 DEF EcAnswers
<1>9. CASE UNCHANGED vars
  BY <1>a, <1>9 DEF vars
<1> QED BY <1>1, <1>2, <1>3, <1>4, <1>5, <1>6, <1>7, <1>8, <1>9 DEF Next, HostStep

\* The one variable with a Boolean value.
LEMMA FreshType == UsbInv /\ [Next]_vars => fresh' \in BOOLEAN
<1> SUFFICES ASSUME UsbInv, [Next]_vars PROVE fresh' \in BOOLEAN
  OBVIOUS
<1>1. CASE Call
  <2>1. PICK c \in Command, n \in InSizes : fresh' = (InStep /\ RespLen[c] <= n)
    BY <1>1, Zenon DEF Call
  <2> QED BY <2>1, Zenon
<1>2. CASE UNCHANGED fresh
  BY <1>2, Zenon DEF UsbInv
<1>3. Call \/ UNCHANGED fresh
  BY Zenon DEF Next, HostStep, SendRequest, SendFails, ReceivePacket,
     ReceiveFails, Reply, Dies, EcAnswers, vars
<1> QED BY <1>1, <1>2, <1>3

-----------------------------------------------------------------------------
\* The next packet of an answer fits the buffer, and ends the transfer only if
\* it is the last one.
LEMMA NextPacket ==
  ASSUME UsbInv, pc = "in", RespLen[cur.cmd] <= cur.insize,
         NEW n \in 0 .. PacketCount(cur.cmd), ReadOfAnswer(cur.cmd, n),
         packets # <<>>
  PROVE  /\ n < PacketCount(cur.cmd)
         /\ Head(packets) = AnswerTo(cur.cmd)[n + 1] /\ Head(packets).size <= Room
         /\ n + 1 < PacketCount(cur.cmd) =>
              ~ LastPacket(Head(packets))
              /\ res.got + Head(packets).size = Bytes(n + 1)
         /\ (res.got = 0) <=> (n = 0)
<1> DEFINE c == cur.cmd
           p == Head(packets)
<1>1. c \in Command /\ PacketCount(c) \in Nat /\ Len(packets) = PacketCount(c) - n
  BY PacketsHold, UsbTypes DEF CallInv, ReadOfAnswer
<1>2. packets \in Seq(Packet) /\ Len(packets) \in Nat \ {0}
  BY UsbTypes DEF CallInv
<1>3. n \in Nat /\ n < PacketCount(c)
  BY <1>1, <1>2
<1>4. p = AnswerTo(c)[n + 1] /\ res.got = Bytes(n)
  BY <1>2, <1>3 DEF ReadOfAnswer
<1>5. p.size = PacketSize(c, n + 1)
  BY <1>1, <1>3, <1>4, AnswerPackets
<1>6. /\ Total(c) \in Nat /\ Total(c) <= Header + cur.insize /\ cur.insize \in Nat
      /\ Room = Header + cur.insize - Bytes(n) /\ Header = 1 /\ MaxPacket \in Nat
  BY <1>1, <1>4, UsbTypes, RespLenAssumption, MaxPacketAssumption DEF Total, Header
<1>7. /\ p.size \in 1 .. MaxPacket /\ Bytes(n) \in Nat
      /\ n + 1 < PacketCount(c) =>
           /\ p.size = MaxPacket
           /\ Bytes(n + 1) = Bytes(n) + MaxPacket /\ Bytes(n + 1) < Total(c)
      /\ n + 1 = PacketCount(c) => p.size = Total(c) - Bytes(n)
  BY <1>1, <1>3, <1>5, PacketSizes
<1>8. (Bytes(n) = 0) <=> (n = 0)
  <2>1. Bytes(0) = 0 /\ Bytes(1) = MaxPacket
    BY BytesAdd, MaxPacketAssumption
  <2>2. n # 0 => Bytes(1) <= Bytes(n)
    BY <1>3, BytesMonotone
  <2> QED BY <1>7, <2>1, <2>2, MaxPacketAssumption
<1> HIDE DEF c, p
<1>9. p.size <= Room
  BY <1>1, <1>3, <1>6, <1>7
<1>10. n + 1 < PacketCount(c) => ~ LastPacket(p) /\ res.got + p.size = Bytes(n + 1)
  <2> SUFFICES ASSUME n + 1 < PacketCount(c)
               PROVE  ~ LastPacket(p) /\ res.got + p.size = Bytes(n + 1)
    OBVIOUS
  <2>1. p.size = MaxPacket /\ Bytes(n) + MaxPacket < Total(c)
    BY <1>7
  <2>2. Room > MaxPacket
    BY <1>6, <1>7, <2>1
  <2>3. ~ LastPacket(p)
    BY <1>6, <2>1, <2>2 DEF LastPacket
  <2>4. res.got + p.size = Bytes(n + 1)
    BY <1>4, <1>7, <2>1
  <2> QED BY <2>3, <2>4
<1> QED BY <1>3, <1>4, <1>8, <1>9, <1>10 DEF c, p

\* A call in step that receives a packet stays so.
LEMMA FreshReceive == UsbInv /\ ReceivePacket => FreshInv'
<1> SUFFICES ASSUME UsbInv, ReceivePacket, fresh' PROVE FreshInv'
  BY DEF FreshInv
<1> DEFINE c == cur.cmd
           p == Head(packets)
<1>1. fresh /\ pc = "in" /\ packets # <<>> /\ jobs' = jobs /\ packets' = Tail(packets)
  BY DEF ReceivePacket
<1>2. c \in Command /\ RespLen[c] <= cur.insize /\ packets \in Seq(Packet)
  BY <1>1 DEF UsbInv, CallInv, FreshInv
<1>3. ~ Awaited(c) /\ (Answered(c) \/ Refused(c)) /\ jobs = <<>>
  BY <1>1 DEF UsbInv, FreshInv, Awaited, Answered, Refused
<1>4. CASE Refused(c)
  <2>1. packets = RefusalOf(c) /\ res = Empty
    BY <1>1, <1>4 DEF Refused
  <2>2. p = RefusalOf(c)[1] /\ packets' = <<>> /\ p.size = Header
    BY <1>1, <2>1 DEF RefusalOf
  <2>3. p.size <= Room
    BY <2>1, <2>2, UsbTypes DEF Empty, Header
  <2>4. pc' \in {"reply", "in"} /\ cur' = cur /\ res'.first = p
    <3>1. ~ (p.size > Room)
      BY <2>2, <2>3, UsbTypes DEF Header
    <3> QED BY <2>1, <3>1 DEF ReceivePacket, Empty
  <2> QED BY <1>1, <1>2, <1>3, <2>2, <2>4 DEF FreshInv, Refused, InStep, RefusalOf
<1>5. CASE Answered(c)
  <2>1. PICK n \in 0 .. PacketCount(c) : ReadOfAnswer(c, n)
    BY <1>5 DEF Answered
  <2>2. /\ n < PacketCount(c) /\ p = AnswerTo(c)[n + 1] /\ p.size <= Room
        /\ n + 1 < PacketCount(c) => ~ LastPacket(p) /\ res.got + p.size = Bytes(n + 1)
        /\ (res.got = 0) <=> (n = 0)
    BY <1>1, <1>2, <2>1, NextPacket
  <2>3. ~ (p.size > Room) /\ PacketCount(c) \in Nat
    <3>1. p \in Packet /\ p.size \in Nat
      <4>1. p \in Packet
        BY <1>1, <1>2
      <4> QED BY <4>1, MaxPacketAssumption DEF Packet
    <3>2. Room \in Int
      BY UsbTypes
    <3> HIDE DEF p
    <3> QED BY <1>2, <2>2, <3>1, <3>2, PacketsHold
  <2>4. /\ cur' = cur /\ res'.got = res.got + p.size
        /\ res'.first = (IF res.got = 0 THEN p ELSE res.first)
        /\ pc' = (IF LastPacket(p) THEN "reply" ELSE "in")
    BY <2>3 DEF ReceivePacket
  <2>5. res'.first = AnswerTo(c)[1]
    BY <2>1, <2>2, <2>4 DEF ReadOfAnswer
  <2>6. /\ Len(packets') = PacketCount(c) - (n + 1) /\ n + 1 \in 1 .. PacketCount(c)
        /\ \A k \in 1 .. Len(packets') : packets'[k] = AnswerTo(c)[(n + 1) + k]
    <3>1. /\ Len(packets) = PacketCount(c) - n
          /\ \A k \in 1 .. Len(packets) : packets[k] = AnswerTo(c)[n + k]
      BY <2>1 DEF ReadOfAnswer
    <3>2. /\ Len(packets') = Len(packets) - 1 /\ Len(packets) \in Nat
          /\ \A k \in 1 .. Len(packets') : packets'[k] = packets[k + 1]
      BY <1>1, <1>2
    <3> HIDE DEF c
    <3>3. ASSUME NEW k \in 1 .. Len(packets') PROVE packets'[k] = AnswerTo(c)[(n + 1) + k]
      <4>1. k + 1 \in 1 .. Len(packets) /\ n + (k + 1) = (n + 1) + k
        BY <3>2
      <4> QED BY <3>1, <3>2, <4>1
    <3> QED BY <2>2, <2>3, <3>1, <3>2, <3>3
  <2>7. ReadOfAnswer(c, n + 1)'
    <3>1. n + 1 < PacketCount(c) => res'.got = Bytes(n + 1)
      BY <2>2, <2>4
    <3>2. n + 1 # 0
      OBVIOUS
    <3> QED BY <2>4, <2>5, <2>6, <3>1, <3>2 DEF ReadOfAnswer, Bytes, PacketCount, AnswerTo
  <2>8. Answered(c)'
    <3>1. jobs' = <<>> /\ n + 1 \in 0 .. PacketCount(c)'
      BY <1>1, <1>3, <2>3, <2>4, <2>6 DEF PacketCount, Total
    <3> HIDE DEF c
    <3> QED BY <2>7, <3>1 DEF Answered
  <2>9. pc' = "reply" => packets' = <<>>
    <3>1. pc' = "reply" => n + 1 = PacketCount(c)
      BY <2>2, <2>3, <2>4
    <3> QED BY <1>1, <1>2, <2>6, <3>1
  <2>10. res'.first.cmd = cur'.cmd /\ res'.first.kind = "success"
    BY <1>2, <2>4, <2>5, AnswerPackets
  <2> QED BY <1>1, <1>2, <1>3, <2>4, <2>8, <2>9, <2>10 DEF FreshInv, InStep
<1> QED BY <1>3, <1>4, <1>5

\* An EC that answers a call in step does so in full.
LEMMA FreshAnswers == UsbInv /\ EcAnswers => FreshInv'
<1> SUFFICES ASSUME UsbInv, EcAnswers, fresh' PROVE FreshInv'
  BY DEF FreshInv
<1> DEFINE c == cur.cmd
<1>1. fresh /\ jobs # <<>> /\ pc' = pc /\ cur' = cur /\ ret' = ret /\ res' = res
  BY DEF EcAnswers
<1>2. CASE pc = "in"
  <2>1. Awaited(c) /\ c \in Command /\ RespLen[c] <= cur.insize
    BY <1>1, <1>2 DEF UsbInv, CallInv, FreshInv, Awaited, Answered, Refused
  <2>2. PICK a \in {AnswerTo(c), RefusalOf(c)} : packets' = packets \o a
    BY <2>1 DEF EcAnswers, Awaited
  <2>3. jobs' = <<>> /\ packets' = a /\ res = Empty
    BY <2>1, <2>2, AnswerPackets DEF EcAnswers, Awaited
  <2>4. CASE a = AnswerTo(c)
    <3>1. 0 \in 0 .. PacketCount(c) /\ res.got = Bytes(0)
      <4>1. res.got = 0
        BY <2>3 DEF Empty
      <4>2. PacketCount(c) \in Nat
        BY <2>1, PacketsHold
      <4> HIDE DEF c
      <4> QED BY <4>1, <4>2, BytesAdd
    <3>2. /\ Len(packets') = PacketCount(c) - 0
          /\ \A k \in 1 .. Len(packets') : packets'[k] = AnswerTo(c)[0 + k]
      BY <2>1, <2>3, <2>4, PacketsHold, AnswerPackets
    <3>3. ReadOfAnswer(c, 0)'
      BY <1>1, <2>3, <3>1, <3>2 DEF ReadOfAnswer, Bytes, PacketCount, AnswerTo
    <3>4. Answered(c)'
      BY <1>1, <2>3, <3>1, <3>3 DEF Answered
    <3> QED BY <1>1, <1>2, <2>1, <3>4 DEF FreshInv
  <2>5. CASE a = RefusalOf(c)
    <3>1. Refused(c)'
      BY <1>1, <2>3, <2>5 DEF Refused, RefusalOf
    <3> QED BY <1>1, <1>2, <2>1, <3>1 DEF FreshInv
  <2> QED BY <2>2, <2>4, <2>5
<1>3. CASE pc # "in"
  <2>1. ~ InStep
    BY <1>1 DEF InStep
  <2> QED BY <1>1, <1>3, <2>1 DEF UsbInv, TypeOK, FreshInv
<1> QED BY <1>2, <1>3

\* The reply that a call in step returns is to its own command.
LEMMA FreshReply ==
  UsbInv /\ Reply /\ fresh =>
    /\ ret'.status = "ok" => ret' = Ok(cur.cmd, RespLen[cur.cmd])
    /\ InStep'
<1> SUFFICES ASSUME UsbInv, Reply, fresh
             PROVE  /\ ret'.status = "ok" => ret' = Ok(cur.cmd, RespLen[cur.cmd])
                    /\ InStep'
  OBVIOUS
<1>1. InStep /\ res.first.cmd = cur.cmd /\ res.first.kind \in {"success", "refused"}
  BY DEF UsbInv, FreshInv, Reply
<1>2. CASE res.first.kind = "success"
  BY <1>1, <1>2, ReplyReturns DEF Reply, Return, DataLen, InStep
<1>3. CASE res.first.kind = "refused"
  BY <1>1, <1>3, ReplyReturns DEF Reply, Return, Failed, InStep
<1> QED BY <1>1, <1>2, <1>3

\* Every step keeps what a call in step finds.
LEMMA FreshStep == UsbInv /\ [Next]_vars => FreshInv'
<1> SUFFICES ASSUME UsbInv, [Next]_vars PROVE FreshInv'
  OBVIOUS
<1>1. CASE Call
  <2>1. PICK c \in Command, n \in InSizes :
          cur' = [cmd |-> c, insize |-> n] /\ fresh' = (InStep /\ RespLen[c] <= n)
    BY <1>1, Zenon DEF Call
  <2>2. pc' = "out" /\ cur'.cmd = c /\ cur'.insize = n
    BY <1>1, <2>1 DEF Call
  <2>3. fresh' => InStep /\ RespLen[c] <= n
    BY <2>1, Zenon
  <2>4. InStep => InStep'
    BY <1>1 DEF Call, InStep
  <2> QED BY <2>2, <2>3, <2>4 DEF FreshInv
<1>2. CASE SendRequest
  <2>1. /\ pc = "out" /\ pc' = "in" /\ cur' = cur /\ fresh' = fresh /\ packets' = packets
        /\ jobs' = Append(jobs, cur.cmd) /\ res' = Empty
    BY <1>2 DEF SendRequest, UsbInv, CallInv
  <2>2. fresh => InStep /\ RespLen[cur.cmd] <= cur.insize
    BY <2>1 DEF UsbInv, FreshInv
  <2>3. fresh => Awaited(cur.cmd)'
    BY <2>1, <2>2 DEF InStep, Awaited
  <2> QED BY <2>1, <2>2, <2>3 DEF FreshInv
<1>3. CASE SendFails \/ ReceiveFails \/ Dies
  <2>1. pc' = "return" /\ ret' \in {Pending, Failed}
    BY <1>3 DEF SendFails, ReceiveFails, Dies, Return
  <2> QED BY <2>1 DEF Failed, Pending, FreshInv
<1>4. CASE ReceivePacket
  BY <1>4, FreshReceive
<1>5. CASE Reply
  <2>1. pc' = "return" /\ fresh' = fresh
    BY <1>5, ReplyReturns DEF Reply, Return
  <2> QED BY <1>5, <2>1, FreshReply DEF FreshInv
<1>6. CASE EcAnswers
  BY <1>6, FreshAnswers
<1>7. CASE UNCHANGED vars
  BY <1>7 DEF vars, UsbInv, FreshInv, InStep, Awaited, Answered, Refused, ReadOfAnswer
<1> QED BY <1>1, <1>2, <1>3, <1>4, <1>5, <1>6, <1>7 DEF Next, HostStep

\* The invariant of ec_command_usb() and the endpoint it reads.
THEOREM UsbInvariant == Spec => []UsbInv
<1>1. UsbInv /\ [Next]_vars => UsbInv'
  BY UsbTypeStep, FreshType, FreshStep, Zenon DEF UsbInv
<1> QED BY UsbInit, <1>1, PTL DEF Spec

\* Every variable has its type, and the IN transfer never holds more than the
\* response buffer.
THEOREM UsbTypeCorrect == Spec => []TypeOK
<1>1. Typed /\ CallInv => \A k \in DOMAIN jobs : jobs[k] \in Command
  BY DEF CallInv
<1>2. Typed /\ CallInv => \A k \in DOMAIN packets : packets[k] \in Packet
  BY DEF CallInv
<1>3. UsbInv => TypeOK
  BY <1>1, <1>2, Zenon DEF UsbInv, Typed, TypeOK
<1> QED BY <1>3, UsbInvariant, PTL

\* A call that began in step with the EC and succeeded has read its answer to
\* the last packet.
THEOREM UsbStaysInStep == Spec => []StaysInStep
<1>1. UsbInv => StaysInStep
  BY DEF UsbInv, FreshInv, StaysInStep
<1> QED BY <1>1, UsbInvariant, PTL

\* Such a call returns the answer to its own command, or fails.
THEOREM UsbOwnAnswer == Spec => OwnAnswer
<1> DEFINE Own == ret' # ret /\ ret'.status = "ok" /\ fresh =>
                    ret' = Ok(cur.cmd, RespLen[cur.cmd])
<1>1. UsbInv /\ [Next]_vars => [Own]_vars
  <2> SUFFICES ASSUME UsbInv, Next, ret' # ret, ret'.status = "ok", fresh
               PROVE  Reply
    BY FreshReply
  <2>1. ret' \notin {Pending, Failed}
    BY DEF Pending, Failed
  <2> QED BY <2>1 DEF Next, HostStep, Call, SendRequest, SendFails, ReceivePacket,
             ReceiveFails, Dies, EcAnswers, Return
<1>2. [][UsbInv /\ [Next]_vars]_vars => [][Own]_vars
  BY <1>1, PTL
<1> QED BY <1>1, UsbInvariant, PTL DEF Spec, OwnAnswer

-----------------------------------------------------------------------------
\* A step of the transfer is a step of the abstract call, or leaves it alone,
\* unless it is a success of a call out of step.
LEMMA PromiseStep ==
  UsbInv /\ [Next]_vars /\ (ret'.status = "ok" => fresh) => [Promise!Next]_<<cur, ret>>
<1> SUFFICES ASSUME UsbInv, Next, ret'.status = "ok" => fresh, ~UNCHANGED <<cur, ret>>
             PROVE  Promise!Next
  BY DEF vars
<1> USE DEF Promise!Next, Promise!NoCall, Promise!Pending, Promise!Failed, NoCall, Pending,
            Failed
<1>1. pc # "return" <=> cur # NoCall
  BY UsbTypes, NoCommandAssumption DEF CallInv
<1>2. CASE Call
  <2>1. pc = "return" /\ ret' = Pending
        /\ \E c \in Command, n \in InSizes : cur' = [cmd |-> c, insize |-> n]
    BY <1>2 DEF Call
  <2>2. Promise!Call
    BY <1>1, <2>1 DEF Promise!Call
  <2> QED BY <2>2
<1>3. ASSUME pc # "return", Return(Failed) PROVE Promise!Next
  <2>1. Promise!Fail
    BY <1>1, <1>3 DEF Return, Promise!Fail
  <2> QED BY <2>1
<1>4. CASE SendFails \/ ReceiveFails
  BY <1>3, <1>4 DEF SendFails, ReceiveFails
<1>5. CASE Dies
  BY <1>5 DEF Dies, Return, Promise!Abandon
<1>6. CASE ReceivePacket
  BY <1>3, <1>6 DEF ReceivePacket
<1>7. CASE Reply
  <2>1. pc # "return"
    BY <1>7 DEF Reply
  <2>2. PICK r : Return(r) /\ r.status \in {"error", "ok"}
    BY <1>7, ReplyReturns
  <2>3. CASE r.status = "ok"
    <3>1. ret' = Ok(cur.cmd, RespLen[cur.cmd]) /\ cur' = NoCall
      BY <1>7, <2>2, <2>3, FreshReply DEF Return
    <3>2. RespLen[cur.cmd] <= cur.insize
      BY <2>1, <2>2, <2>3 DEF Return, UsbInv, FreshInv
    <3>3. Promise!Succeed
      BY <1>1, <2>1, <3>1, <3>2 DEF Promise!Succeed, Promise!Answer, Ok
    <3> QED BY <3>3
  <2>4. CASE r.status # "ok"
    <3>1. Return(Failed)
      <4>1. ret'.status # "ok"
        BY <2>2, <2>4 DEF Return
      <4>2. Return(Failed) \/ \E c, n : Return(Ok(c, n))
        BY <1>7, Zenon DEF Reply
      <4> QED BY <4>1, <4>2 DEF Return, Ok
    <3> QED BY <1>3, <2>1, <3>1
  <2> QED BY <2>3, <2>4
<1>8. ~(SendRequest \/ EcAnswers)
  BY DEF SendRequest, EcAnswers
<1> QED BY <1>2, <1>4, <1>5, <1>6, <1>7, <1>8 DEF Next, HostStep

\* Call by call the transport implements ec_command(), for calls in step.
THEOREM UsbKeepsPromise == Spec => KeepsPromise
<1>1. Init => Promise!Init
  BY DEF Init, Promise!Init, NoCall, Pending, Promise!NoCall, Promise!Pending
<1>2. UsbInv /\ [Next]_vars => ((ret'.status = "ok" => fresh) => [Promise!Next]_<<cur, ret>>)
  BY PromiseStep
<1> QED BY <1>1, <1>2, UsbInvariant, PTL DEF Spec, KeepsPromise

-----------------------------------------------------------------------------
\* What the measure is at each place of a call.
StepsLeftAt ==
  /\ Room \in Nat
  /\ pc = "return" => StepsLeft = 0
  /\ pc = "reply" => StepsLeft = 1
  /\ pc = "in" => StepsLeft = 2 + Room
  /\ pc = "out" => StepsLeft = 3 + Room

\* The measure is a natural number, given by the place and the room left.
LEMMA MeasureByPlace == UsbInv => StepsLeftAt
<1> SUFFICES ASSUME UsbInv PROVE StepsLeftAt
  OBVIOUS
<1>1. Room \in Nat
  BY UsbTypes
<1>2. /\ pc = "return" => StepsLeft = 0
      /\ pc = "reply" => StepsLeft = 1
      /\ pc = "in" => StepsLeft = 2 + Room
      /\ pc = "out" => StepsLeft = 3 + Room
  BY DEF StepsLeft
<1> QED BY <1>1, <1>2 DEF StepsLeftAt

\* A packet that leaves the transfer going takes room.
LEMMA PacketTakesRoom ==
  ASSUME UsbInv, ReceivePacket, pc' = "in"
  PROVE  pc = "in" /\ Room' < Room
<1> DEFINE p == Head(packets)
<1>1. pc = "in" /\ packets # <<>>
  BY DEF ReceivePacket
<1>2. p \in Packet /\ Room \in Nat /\ res.got \in Nat /\ Room = 1 + cur.insize - res.got
  <2>1. packets \in Seq(Packet)
    BY UsbTypes DEF CallInv
  <2> QED BY <1>1, <2>1, UsbTypes DEF Typed
<1>3. p.size <= Room /\ cur' = cur /\ ~LastPacket(p) /\ res'.got = res.got + p.size
  <2>1. ~Return(Failed)
    BY DEF Return
  <2>2. ~(p.size > Room) /\ pc' = (IF LastPacket(p) THEN "reply" ELSE "in") /\ cur' = cur
        /\ res' = [got |-> res.got + p.size, first |-> IF res.got = 0 THEN p ELSE res.first]
    BY <2>1 DEF ReceivePacket
  <2>3. p.size \in Int
    BY <1>2, MaxPacketAssumption DEF Packet
  <2> HIDE DEF p
  <2> QED BY <1>2, <2>2, <2>3
<1>4. p.size = MaxPacket
  BY <1>2, <1>3, MaxPacketAssumption DEF LastPacket, Packet
<1> HIDE DEF p
<1>5. cur.insize \in Nat
  BY UsbTypes, InSizesAssumption DEF Typed
<1> QED BY <1>1, <1>2, <1>3, <1>4, <1>5, MaxPacketAssumption DEF Room, Header

\* Every step of a call leaves fewer of them.
LEMMA HostStepCloses ==
  ASSUME UsbInv, StepsLeftAt, UsbInv', StepsLeftAt', HostStep
  PROVE  StepsLeft' < StepsLeft
<1>1. pc \in {"return", "out", "in", "reply"} /\ pc' \in {"return", "out", "in", "reply"}
  BY DEF UsbInv, Typed
<1>2. ASSUME pc # "return", pc' = "return" PROVE StepsLeft' < StepsLeft
  BY <1>1, <1>2 DEF StepsLeftAt
<1>3. CASE SendRequest
  <2>1. pc = "out" /\ pc' = "in" /\ Room' = Room
    BY <1>3 DEF SendRequest, Room
  <2> QED BY <2>1 DEF StepsLeftAt
<1>4. CASE ReceivePacket
  <2>1. pc = "in" /\ pc' \in {"return", "in", "reply"}
    BY <1>4 DEF ReceivePacket, Return
  <2>2. CASE pc' = "in"
    <3>1. Room' < Room
      BY <1>4, <2>2, PacketTakesRoom
    <3>2. /\ StepsLeft' = 2 + Room' /\ Room' \in Nat
          /\ StepsLeft = 2 + Room /\ Room \in Nat
      BY <2>1, <2>2 DEF StepsLeftAt
    <3> QED BY <3>1, <3>2 DEF Room, Header
  <2>3. CASE pc' = "reply"
    BY <2>1, <2>3 DEF StepsLeftAt
  <2> QED BY <1>2, <2>1, <2>2, <2>3
<1>5. CASE SendFails \/ ReceiveFails \/ Reply
  <2>1. pc # "return"
    BY <1>5 DEF SendFails, ReceiveFails, Reply
  <2>2. pc' = "return"
    BY <1>5, ReplyReturns DEF SendFails, ReceiveFails, Return
  <2> QED BY <1>2, <2>1, <2>2
<1> QED BY <1>3, <1>4, <1>5 DEF HostStep

(***************************************************************************)
(* A call comes closer to its end with every step it makes, whatever the   *)
(* EC sends: what CallReturns needs besides is that the process runs and   *)
(* libusb times out.                                                       *)
(***************************************************************************)
THEOREM UsbClosesIn == Spec => ClosesIn
<1> DEFINE Closes == /\ HostStep => StepsLeft' < StepsLeft
                     /\ pc # "return" => StepsLeft' \in 0 .. StepsLeft
           Measured == UsbInv /\ StepsLeftAt
<1>1. Measured /\ Measured' /\ [Next]_vars => [Closes]_vars
  <2> SUFFICES ASSUME UsbInv, StepsLeftAt, StepsLeftAt', UsbInv', Next PROVE Closes
    OBVIOUS
  <2>1. StepsLeft \in Nat /\ StepsLeft' \in Nat
    <3>1. pc \in {"return", "out", "in", "reply"} /\ pc' \in {"return", "out", "in", "reply"}
      BY DEF UsbInv, Typed
    <3> QED BY <3>1 DEF StepsLeftAt
  <2>2. CASE HostStep
    <3>1. StepsLeft' < StepsLeft
      BY <2>2, HostStepCloses
    <3> QED BY <2>1, <3>1
  <2>3. CASE ~HostStep /\ Dies
    <3>1. StepsLeft' = 0
      BY <2>3 DEF Dies, Return, StepsLeftAt
    <3> QED BY <2>1, <2>3, <3>1
  <2>4. CASE ~HostStep /\ EcAnswers
    <3>1. pc' = pc /\ Room' = Room
      BY <2>4 DEF EcAnswers, Room
    <3>2. pc # "return" => StepsLeft' = StepsLeft
      BY <3>1 DEF StepsLeftAt, UsbInv, Typed
    <3> QED BY <2>1, <2>4, <3>2
  <2>5. CASE ~HostStep /\ Call
    BY <2>5 DEF Call
  <2> QED BY <2>2, <2>3, <2>4, <2>5 DEF Next
<1>2. UsbInv => Measured
  BY MeasureByPlace
<1> QED BY <1>1, <1>2, UsbInvariant, PTL DEF Spec, ClosesIn
=============================================================================
