---------------------------- MODULE EcFlashProofs ----------------------------
(***************************************************************************)
(* What ec_flash.cc promises of reading, verifying, writing and erasing,   *)
(* for flashes, offsets, sizes and buffers of any size, and any write size *)
(* an EC may report. The invariant says how far a call has come: what is   *)
(* before i is done, in place, and stays so because the EC carries out     *)
(* nothing else meanwhile.                                                 *)
(***************************************************************************)
EXTENDS EcFlash, TLAPS

FlashTypeOK ==
  /\ pc \in {"done", "read", "version", "write_size", "write", "erase", "erase_async",
             "poll"}
  /\ op \in Op /\ offset \in Nat /\ size \in Nat /\ blank \in BOOLEAN
  /\ i \in Nat /\ rv \in Int
  /\ pdata_max_size \in Nat /\ write_size \in Nat /\ step \in Nat
  /\ buf \in [Location -> Int]
  /\ polls \in 0 .. MaxPolls
  /\ flash \in [Location -> Int]
  /\ eraser \in [status : {"none", "busy", "ok", "failed"}, offset : Nat, size : Nat]
  /\ sent \in Nat

\* Each operation has its places; only a write may be of nothing.
PlaceInv ==
  /\ pc = "read" => op \in {"read", "verify"}
  /\ pc \in {"version", "write_size", "write"} => op = "write"
  /\ pc = "erase" => op = "erase"
  /\ pc \in {"erase_async", "poll"} => op = "erase_async"
  /\ pc \in {"version", "write_size"} => i = 0 /\ sent = 0
  /\ op # "write" => sent = 0
  /\ op # "write" /\ pc # "done" => size > 0

\* A transfer the EC has begun to carry out has the EC to itself.
QuietInv == op \in {"read", "verify", "write"} /\ i > 0 => ~Erasing

\* Of a read or verify all that lies before i is in the buffer.
ReadInv ==
  op \in {"read", "verify"} /\ (pc = "done" => rv = 0) =>
    /\ pc = "done" => i >= size /\ i > 0
    /\ \A k \in Span(0, size) :
         k < i => /\ k \in Location /\ offset + k \in Location
                  /\ buf[k] = flash[offset + k]
    /\ op = "verify" /\ pc = "done" => \A k \in Span(0, size) : buf[k] = k

\* Of a write into a range that can take it all that lies before i is in flash,
\* and the rest can still be written.
WriteInv ==
  op = "write" /\ blank /\ (pc = "done" => rv = 0) =>
    /\ pc = "done" => i >= size
    /\ \A k \in Span(0, size) :
         offset + k \in Location => flash[offset + k] \in {Erased, k}
    /\ \A k \in Span(0, size) :
         k < i => offset + k \in Location /\ flash[offset + k] = k

\* A length or place that is a number of blocks of w.
Blocks(a, w) == a % w = 0

\* Writes go in steps of whole blocks, no longer than the buffer.
AlignInv ==
  pc = "write" \/ sent > 0 =>
    /\ write_size > 0 /\ step > 0
    /\ Blocks(i, write_size) /\ Blocks(step, write_size)
    /\ step <= pdata_max_size /\ sent <= pdata_max_size
    /\ Blocks(size, write_size) => Blocks(sent, write_size)

\* While its result is asked for, the last erase is the one of this call.
ErasedRange == \A a \in Span(offset, size) : flash[a] = Erased
PollInv ==
  pc = "poll" =>
    /\ InFlash(offset, size)
    /\ eraser.offset = offset /\ eraser.size = size
    /\ eraser.status \in {"busy", "failed", "ok"}
    /\ eraser.status = "ok" => ErasedRange
    /\ rv = 0 => eraser.status = "ok"

\* An erase that is said to be complete is.
EraseInv ==
  op \in {"erase", "erase_async"} /\ pc = "done" /\ rv = 0 => ErasedRange /\ ~Erasing

FlashInv ==
  FlashTypeOK /\ PlaceInv /\ QuietInv /\ ReadInv /\ WriteInv /\ AlignInv /\ PollInv
    /\ EraseInv

-----------------------------------------------------------------------------
(* Arithmetic of chunks and blocks.                                        *)

\* A natural number is so many blocks, and a rest shorter than one.
LEMMA DivMod ==
  ASSUME NEW a \in Nat, NEW w \in Nat \ {0}
  PROVE  a = (a \div w) * w + (a % w) /\ a % w \in 0 .. w - 1 /\ a \div w \in Nat
OBVIOUS

\* A number of blocks has no rest.
LEMMA BlocksMod ==
  ASSUME NEW m \in Nat, NEW w \in Nat \ {0}
  PROVE  Blocks(m * w, w)
BY DEF Blocks

\* Blocks put together, or taken away from others, are blocks.
LEMMA SumOfBlocks ==
  ASSUME NEW a \in Nat, NEW b \in Nat, NEW w \in Nat \ {0}, Blocks(a, w), Blocks(b, w)
  PROVE  Blocks(a + b, w)
<1> DEFINE m == a \div w
           n == b \div w
<1>1. a = m * w /\ b = n * w /\ m \in Nat /\ n \in Nat
  BY DivMod DEF Blocks
<1>2. a + b = (m + n) * w /\ m + n \in Nat
  BY <1>1
<1> QED BY <1>2, BlocksMod

\* ... and so is what is left of blocks when some of them are taken away.
LEMMA DifferenceOfBlocks ==
  ASSUME NEW a \in Nat, NEW b \in Nat, NEW w \in Nat \ {0}, Blocks(a, w), Blocks(b, w), b <= a
  PROVE  Blocks(a - b, w)
<1> DEFINE m == a \div w
           n == b \div w
<1>1. a = m * w /\ b = n * w /\ m \in Nat /\ n \in Nat
  BY DivMod DEF Blocks
<1>2. n <= m
  BY <1>1
<1>3. a - b = (m - n) * w /\ m - n \in Nat
  BY <1>1, <1>2
<1> QED BY <1>3, BlocksMod

\* A chunk that begins at a whole block, and takes a step of whole blocks or the
\* rest of a file of whole blocks, is made of blocks and ends at one.
LEMMA ChunkBlocks ==
  ASSUME NEW from \in Nat, NEW to \in Nat, NEW s \in Nat, NEW n \in Nat,
         NEW w \in Nat \ {0}, from < to, n = s \/ n = to - from,
         Blocks(from, w), Blocks(s, w)
  PROVE  /\ Blocks(from + s, w)
         /\ Blocks(to, w) => Blocks(n, w)
<1>1. Blocks(from + s, w)
  BY SumOfBlocks
<1>2. ASSUME Blocks(to, w) PROVE Blocks(to - from, w)
  BY <1>2, DifferenceOfBlocks
<1> QED BY <1>1, <1>2

\* StepFor() is a number of whole blocks that the buffer can hold.
LEMMA StepBlocks ==
  ASSUME pdata_max_size \in Nat, NEW ws \in Nat \ {0}
  PROVE  StepFor(ws) \in Nat /\ Blocks(StepFor(ws), ws) /\ StepFor(ws) <= pdata_max_size
<1>1. pdata_max_size \div ws \in Nat
  BY DivMod
<1>2. StepFor(ws) \in Nat /\ StepFor(ws) <= pdata_max_size
  BY <1>1, DivMod DEF StepFor
<1> QED BY <1>1, <1>2, BlocksMod DEF StepFor

\* An erase, whole or in part, changes nothing but to Erased, and within its
\* range only.
LEMMA EraseEffect ==
  ASSUME FlashTypeOK, NEW o \in Nat, NEW n \in Nat, ErasesSome(o, n) \/ ErasesAll(o, n)
  PROVE  /\ flash' \in [Location -> Int]
         /\ \A a \in Location : flash'[a] \in {flash[a], Erased}
         /\ \A a \in Location : flash'[a] # flash[a] => a \in Span(o, n)
         /\ ErasesAll(o, n) /\ InFlash(o, n) => \A a \in Span(o, n) : flash'[a] = Erased
BY DEF FlashTypeOK, ErasesSome, ErasesAll, Erased, InFlash

\* Programming the file leaves its bytes where a location was erased or held
\* them, and changes nothing outside of the chunk.
LEMMA ProgramEffect ==
  ASSUME FlashTypeOK, NEW n \in Nat,
         flash' = [a \in Location |-> IF a \in Span(offset + i, n)
                                      THEN Program(flash[a], a - offset) ELSE flash[a]]
  PROVE  /\ flash' \in [Location -> Int]
         /\ \A a \in Location :
              /\ a \in Span(offset + i, n) /\ flash[a] \in {Erased, a - offset} =>
                   flash'[a] = a - offset
              /\ a \notin Span(offset + i, n) => flash'[a] = flash[a]
<1>1. \A a \in Location : a \in Int /\ flash[a] \in Int /\ a - offset \in Int
  BY FlashSizeAssumption DEF FlashTypeOK, Location
<1> QED BY <1>1 DEF FlashTypeOK, Program, Corrupt, Erased

-----------------------------------------------------------------------------
\* The invariant holds before the first call.
LEMMA FlashInit == Init => FlashInv
<1> SUFFICES ASSUME Init PROVE FlashInv
  OBVIOUS
<1>1. FlashTypeOK
  <2>1. buf \in [Location -> Int] /\ flash \in [Location -> Int]
    BY DEF Init, Unset, Old
  <2>2. eraser \in [status : {"none", "busy", "ok", "failed"}, offset : Nat, size : Nat]
    BY DEF Init, NoErase
  <2>3. polls \in 0 .. MaxPolls
    BY MaxPollsAssumption DEF Init
  <2>4. blank \in BOOLEAN
    BY DEF Init
  <2>5. /\ pc = "done" /\ op \in Op /\ offset = 0 /\ size = 0 /\ i = 0 /\ rv \in Int
        /\ pdata_max_size = 0 /\ write_size = 0 /\ step = 0 /\ sent = 0
    BY DEF Init, Op, Error
  <2> QED BY <2>1, <2>2, <2>3, <2>4, <2>5 DEF FlashTypeOK
<1>2. PlaceInv /\ QuietInv /\ ReadInv /\ WriteInv /\ AlignInv /\ PollInv /\ EraseInv
  BY DEF Init, PlaceInv, QuietInv, ReadInv, WriteInv, AlignInv, PollInv, EraseInv, Error
<1> QED BY <1>1, <1>2 DEF FlashInv

\* Every step keeps the types.
LEMMA FlashTypeStep == FlashInv /\ [Next]_vars => FlashTypeOK'
<1> SUFFICES ASSUME FlashInv, [Next]_vars PROVE FlashTypeOK'
  OBVIOUS
<1> USE MaxPollsAssumption
    DEF FlashInv, FlashTypeOK, callVars, writeVars, ecVars, Finish, Error, BusyRv, Killed
<1>1. CASE Begin
  BY <1>1, OffsetsAssumption, SizesAssumption, PdataMaxAssumption
     DEF Begin, FirstStep, Op, Programmable, Unset
<1>2. CASE ReadChunk
  <2>1. ASSUME NEW n \in Nat, InFlash(offset + i, n)
        PROVE  [k \in Location |-> IF k \in Span(i, n) THEN flash[offset + k] ELSE buf[k]]
                 \in [Location -> Int]
    <3>1. \A k \in Location : k \in Int
      BY FlashSizeAssumption DEF Location
    <3>2. \A k \in Location : k \in Span(i, n) => offset + k \in Span(offset + i, n)
      BY <2>1, <3>1 DEF Span
    <3> QED BY <2>1, <3>2 DEF InFlash
  <2>2. ReadSize \in Nat /\ NextRead \in Nat
    BY <1>2, InsizeAssumption DEF ReadChunk, ReadSize, NextRead, Least
  <2> QED BY <1>2, <2>1, <2>2 DEF ReadChunk
<1>3. CASE ReadEnd
  BY <1>3 DEF ReadEnd
<1>4. CASE AskVersion
  BY <1>4, PdataMaxAssumption, Ver0SizeAssumption DEF AskVersion
<1>5. CASE AskWriteSize
  BY <1>5, StepBlocks, WriteSizesAssumption DEF AskWriteSize
<1>6. CASE WriteChunk
  <2>1. WriteSize \in Nat
    BY <1>6 DEF WriteChunk, WriteDone, WriteSize, Least
  <2> QED BY <1>6, <2>1, ProgramEffect DEF WriteChunk
<1>7. CASE WriteEnd
  BY <1>7 DEF WriteEnd
<1>8. CASE Erase
  BY <1>8, EraseEffect DEF Erase
<1>9. CASE StartErase
  BY <1>9 DEF StartErase
<1>10. CASE PollErase
  BY <1>10 DEF PollErase, KeepPolling, EraseResult
<1>11. CASE PollEnd
  BY <1>11 DEF PollEnd
<1>12. CASE Dies
  BY <1>12 DEF Dies
<1>13. CASE EraserEnds
  BY <1>13, EraseEffect DEF EraserEnds
<1>14. CASE UNCHANGED vars
  BY <1>14 DEF vars
<1> QED BY <1>1, <1>2, <1>3, <1>4, <1>5, <1>6, <1>7, <1>8, <1>9, <1>10, <1>11, <1>12,
           <1>13, <1>14 DEF Next, HostStep

\* Every step keeps operations in their places.
LEMMA FlashPlaceStep == FlashInv /\ [Next]_vars => PlaceInv' /\ QuietInv'
<1> DEFINE Kept == PlaceInv' /\ QuietInv'
<1> SUFFICES ASSUME FlashInv, [Next]_vars PROVE Kept
  OBVIOUS
<1> USE DEF FlashInv, FlashTypeOK, PlaceInv, QuietInv, callVars, writeVars, ecVars, Finish,
            Erasing
<1>1. CASE Begin
  BY <1>1, SizesAssumption DEF Begin, FirstStep, Op
<1>2. CASE ReadChunk \/ ReadEnd
  BY <1>2 DEF ReadChunk, ReadEnd
<1>3. CASE AskVersion
  BY <1>3 DEF AskVersion
<1>4. CASE AskWriteSize
  BY <1>4 DEF AskWriteSize
<1>5. CASE WriteChunk \/ WriteEnd
  BY <1>5 DEF WriteChunk, WriteEnd
<1>6. CASE Erase
  BY <1>6 DEF Erase
<1>7. CASE StartErase
  BY <1>7 DEF StartErase
<1>8. CASE PollErase \/ PollEnd
  BY <1>8 DEF PollErase, PollEnd
<1>9. CASE Dies
  BY <1>9 DEF Dies
<1>10. CASE EraserEnds
  BY <1>10 DEF EraserEnds
<1>11. CASE UNCHANGED vars
  BY <1>11 DEF vars
<1> QED BY <1>1, <1>2, <1>3, <1>4, <1>5, <1>6, <1>7, <1>8, <1>9, <1>10, <1>11
           DEF Next, HostStep

\* Every step keeps what was read, and what is in the buffer is in flash.
LEMMA FlashReadStep == FlashInv /\ [Next]_vars => ReadInv'
<1> SUFFICES ASSUME FlashInv, [Next]_vars PROVE ReadInv'
  OBVIOUS
<1> USE DEF FlashInv, FlashTypeOK, ReadInv, callVars, writeVars, ecVars, Finish
<1>1. CASE Begin
  BY <1>1, OffsetsAssumption, SizesAssumption DEF Begin, FirstStep, Op, Span
<1>2. CASE ReadChunk
  <2>1. i < size /\ ReadSize \in Nat /\ ReadSize <= ec_max_insize /\ NextRead = i + ec_max_insize
    BY <1>2, InsizeAssumption DEF ReadChunk, ReadSize, NextRead, Least
  <2>2. CASE Finish(Error)
    BY <1>2, <2>2 DEF ReadChunk, Error
  <2>3. CASE /\ InFlash(offset + i, ReadSize)
             /\ buf' = [k \in Location |-> IF k \in Span(i, ReadSize) THEN flash[offset + k]
                                           ELSE buf[k]]
             /\ i' = NextRead /\ UNCHANGED <<pc, rv>>
    <3>1. \A k \in Span(0, size) : k < NextRead /\ ~(k < i) =>
             k \in Span(i, ReadSize) /\ offset + k \in Span(offset + i, ReadSize)
      BY <2>1 DEF ReadSize, Least, Span
    <3>2. \A k \in Span(0, size) : offset + k \in Location => k \in Location
      BY FlashSizeAssumption DEF Span, Location
    <3>3. \A k \in Span(0, size) : k < NextRead =>
             k \in Location /\ offset + k \in Location /\ buf'[k] = flash[offset + k]
      <4> SUFFICES ASSUME NEW k \in Span(0, size), k < NextRead
                   PROVE k \in Location /\ offset + k \in Location /\ buf'[k] = flash[offset + k]
        OBVIOUS
      <4>1. CASE k < i
        <5>1. k \in Location /\ offset + k \in Location /\ buf[k] = flash[offset + k]
          BY <1>2, <4>1 DEF ReadChunk, PlaceInv
        <5> QED BY <2>3, <5>1
      <4>2. CASE ~(k < i)
        <5>1. k \in Span(i, ReadSize) /\ offset + k \in Location /\ k \in Location
          BY <2>3, <3>1, <3>2, <4>2 DEF InFlash
        <5> QED BY <2>3, <5>1
      <4> QED BY <4>1, <4>2
    <3> QED BY <1>2, <2>1, <2>3, <3>3 DEF ReadChunk
  <2> QED BY <1>2, <2>2, <2>3 DEF ReadChunk
<1>3. CASE ReadEnd
  <2>1. i > 0
    BY <1>3 DEF ReadEnd, PlaceInv
  <2> QED BY <1>3, <2>1 DEF ReadEnd, PlaceInv, Error
<1>4. CASE AskVersion \/ AskWriteSize \/ WriteChunk \/ WriteEnd
  BY <1>4 DEF AskVersion, AskWriteSize, WriteChunk, WriteEnd, PlaceInv
<1>5. CASE Erase \/ StartErase \/ PollErase \/ PollEnd
  BY <1>5 DEF Erase, StartErase, PollErase, PollEnd, PlaceInv
<1>6. CASE Dies
  BY <1>6 DEF Dies, Killed
<1>7. CASE EraserEnds
  <2>1. op \in {"read", "verify"} => ~(i > 0)
    BY <1>7 DEF EraserEnds, QuietInv
  <2>2. \A k \in Span(0, size) : ~(k < 0)
    BY DEF Span
  <2> QED BY <1>7, <2>1, <2>2 DEF EraserEnds
<1>8. CASE UNCHANGED vars
  BY <1>8 DEF vars
<1> QED BY <1>1, <1>2, <1>3, <1>4, <1>5, <1>6, <1>7, <1>8 DEF Next, HostStep

\* Every step keeps what was written, and room for the rest.
LEMMA FlashWriteStep == FlashInv /\ [Next]_vars => WriteInv'
<1> SUFFICES ASSUME FlashInv, [Next]_vars PROVE WriteInv'
  OBVIOUS
<1> USE DEF FlashInv, FlashTypeOK, WriteInv, callVars, writeVars, ecVars, Finish
<1>1. CASE Begin
  <2> SUFFICES ASSUME blank'
               PROVE  /\ pc' # "done" /\ i' = 0
                      /\ \A k \in Span(0, size') :
                           offset' + k \in Location => flash'[offset' + k] \in {Erased, k}
    BY DEF Span
  <2>1. PICK off \in Offsets, n \in Sizes : offset' = off /\ size' = n /\ blank' = Programmable(off, n)
    BY <1>1 DEF Begin
  <2>2. \A k \in Span(0, n) : off + k \in Span(off, n) /\ (off + k) - off = k
    BY OffsetsAssumption, SizesAssumption DEF Span
  <2>3. \A k \in Span(0, n) : off + k \in Location => flash[off + k] \in {Erased, k}
    BY <2>1, <2>2 DEF Programmable
  <2> QED BY <1>1, <2>1, <2>3 DEF Begin, FirstStep, Op
<1>2. CASE ReadChunk \/ ReadEnd
  BY <1>2 DEF ReadChunk, ReadEnd, PlaceInv
<1>3. CASE AskVersion
  BY <1>3 DEF AskVersion
<1>4. CASE AskWriteSize
  BY <1>4 DEF AskWriteSize, Error
<1>5. CASE WriteChunk
  <2>1. i < size /\ WriteSize \in Nat /\ i + WriteSize <= size
        /\ (i + WriteSize = size \/ WriteSize = step)
    BY <1>5 DEF WriteChunk, WriteDone, WriteSize, Least
  <2>2. CASE Finish(Error)
    BY <1>5, <2>2 DEF WriteChunk, Error
  <2>3. CASE /\ InFlash(offset + i, WriteSize)
             /\ flash' = [a \in Location |-> IF a \in Span(offset + i, WriteSize)
                                             THEN Program(flash[a], a - offset) ELSE flash[a]]
             /\ i' = i + step /\ UNCHANGED <<pc, rv>>
    <3> SUFFICES ASSUME blank
                 PROVE  \A k \in Span(0, size) :
                          /\ offset + k \in Location => flash'[offset + k] \in {Erased, k}
                          /\ k < i' => offset + k \in Location /\ flash'[offset + k] = k
      BY <1>5, <2>3 DEF WriteChunk
    <3> SUFFICES ASSUME NEW k \in Span(0, size)
                 PROVE  /\ offset + k \in Location => flash'[offset + k] \in {Erased, k}
                        /\ k < i' => offset + k \in Location /\ flash'[offset + k] = k
      OBVIOUS
    <3>1. k \in Nat /\ k < size /\ (offset + k) - offset = k
      BY DEF Span
    <3>2. /\ offset + k \in Location => flash[offset + k] \in {Erased, k}
          /\ k < i => offset + k \in Location /\ flash[offset + k] = k
      BY <1>5 DEF WriteChunk, PlaceInv
    <3>e. \A a \in Location :
            /\ a \in Span(offset + i, WriteSize) /\ flash[a] \in {Erased, a - offset} =>
                 flash'[a] = a - offset
            /\ a \notin Span(offset + i, WriteSize) => flash'[a] = flash[a]
      BY <2>1, <2>3, ProgramEffect
    <3>3. CASE offset + k \in Span(offset + i, WriteSize)
      <4>1. offset + k \in Location
        BY <2>3, <3>3 DEF InFlash
      <4> QED BY <3>1, <3>2, <3>3, <3>e, <4>1
    <3>4. CASE offset + k \notin Span(offset + i, WriteSize)
      <4>1. k < i \/ ~(k < i + step)
        BY <2>1, <3>1, <3>4 DEF Span
      <4>2. offset + k \in Location => flash'[offset + k] = flash[offset + k]
        BY <3>4, <3>e
      <4> QED BY <2>3, <3>2, <4>1, <4>2
    <3> QED BY <3>3, <3>4
  <2> QED BY <1>5, <2>2, <2>3 DEF WriteChunk
<1>6. CASE WriteEnd
  BY <1>6 DEF WriteEnd, WriteDone
<1>7. CASE Erase \/ StartErase \/ PollErase \/ PollEnd
  BY <1>7 DEF Erase, StartErase, PollErase, PollEnd, PlaceInv
<1>8. CASE Dies
  BY <1>8 DEF Dies, Killed
<1>9. CASE EraserEnds
  <2> SUFFICES ASSUME op = "write", blank, pc = "done" => rv = 0
               PROVE  /\ pc = "done" => i >= size
                      /\ \A k \in Span(0, size) :
                           offset + k \in Location => flash'[offset + k] \in {Erased, k}
                      /\ ~(i > 0)
    BY <1>9 DEF EraserEnds, Span
  <2>1. \A a \in Location : flash'[a] \in {flash[a], Erased}
    BY <1>9, EraseEffect DEF EraserEnds
  <2> QED BY <1>9, <2>1 DEF EraserEnds, QuietInv
<1>10. CASE UNCHANGED vars
  BY <1>10 DEF vars
<1> QED BY <1>1, <1>2, <1>3, <1>4, <1>5, <1>6, <1>7, <1>8, <1>9, <1>10 DEF Next, HostStep

\* Every step keeps writes in whole blocks.
LEMMA FlashAlignStep == FlashInv /\ [Next]_vars => AlignInv'
<1> SUFFICES ASSUME FlashInv, [Next]_vars PROVE AlignInv'
  OBVIOUS
<1> USE DEF FlashInv, FlashTypeOK, AlignInv, callVars, writeVars, ecVars, Finish
<1>1. CASE Begin
  BY <1>1 DEF Begin, FirstStep, Op
<1>2. CASE ReadChunk \/ ReadEnd \/ Erase \/ StartErase \/ PollErase \/ PollEnd
  <2>1. op # "write"
    BY <1>2 DEF ReadChunk, ReadEnd, Erase, StartErase, PollErase, PollEnd, PlaceInv
  <2>2. sent' = sent /\ pc' # "write"
    BY <1>2 DEF ReadChunk, ReadEnd, Erase, StartErase, PollErase, PollEnd
  <2> QED BY <2>1, <2>2 DEF PlaceInv
<1>3. CASE AskVersion
  BY <1>3 DEF AskVersion, PlaceInv
<1>4. CASE AskWriteSize
  <2>1. i' = 0 /\ sent' = 0 /\ UNCHANGED <<size, pdata_max_size>>
    BY <1>4 DEF AskWriteSize, PlaceInv
  <2>2. CASE pc' = "write"
    <3>1. PICK ws \in WriteSizes : write_size' = ws /\ step' = (IF ws = 0 THEN 0 ELSE StepFor(ws))
                                   /\ step' # 0
      BY <1>4, <2>2 DEF AskWriteSize
    <3>2. ws \in Nat \ {0} /\ step' = StepFor(ws)
      BY <3>1, WriteSizesAssumption
    <3>3. step' \in Nat /\ Blocks(step', ws) /\ step' <= pdata_max_size
      BY <3>2, StepBlocks
    <3>4. Blocks(0, ws)
      BY <3>2 DEF Blocks
    <3> QED BY <2>1, <3>1, <3>2, <3>3, <3>4
  <2> QED BY <2>1, <2>2
<1>5. CASE WriteChunk
  <2> DEFINE n == WriteSize
  <2>1. /\ i < size /\ n \in Nat /\ sent' = n /\ i' \in {i, i + step}
        /\ n = step \/ n = size - i
        /\ n <= step
        /\ UNCHANGED <<size, writeVars>>
    BY <1>5 DEF WriteChunk, WriteDone, WriteSize, Least
  <2>2. /\ write_size \in Nat \ {0} /\ step > 0 /\ step <= pdata_max_size
        /\ Blocks(i, write_size) /\ Blocks(step, write_size)
    BY <1>5 DEF WriteChunk
  <2>3. i \in Nat /\ size \in Nat /\ step \in Nat /\ pdata_max_size \in Nat
    OBVIOUS
  <2> HIDE DEF n, FlashInv, FlashTypeOK, AlignInv
  <2>4. Blocks(i + step, write_size) /\ (Blocks(size, write_size) => Blocks(n, write_size))
    BY <2>1, <2>2, <2>3, ChunkBlocks
  <2>5. Blocks(i', write_size) /\ sent' <= pdata_max_size
    BY <2>1, <2>2, <2>3, <2>4
  <2> QED BY <2>1, <2>2, <2>4, <2>5 DEF AlignInv, writeVars
<1>6. CASE WriteEnd
  BY <1>6 DEF WriteEnd
<1>7. CASE Dies
  BY <1>7 DEF Dies
<1>8. CASE EraserEnds
  BY <1>8 DEF EraserEnds
<1>9. CASE UNCHANGED vars
  BY <1>9 DEF vars
<1> QED BY <1>1, <1>2, <1>3, <1>4, <1>5, <1>6, <1>7, <1>8, <1>9 DEF Next, HostStep

\* Every step keeps the erase asked about that of the call, and what is said to
\* be erased erased.
LEMMA FlashEraseStep == FlashInv /\ [Next]_vars => PollInv' /\ EraseInv'
<1> DEFINE Kept == PollInv' /\ EraseInv'
<1> SUFFICES ASSUME FlashInv, [Next]_vars PROVE Kept
  OBVIOUS
<1> USE DEF FlashInv, FlashTypeOK, PollInv, EraseInv, ErasedRange, Erasing, callVars,
            writeVars, ecVars, Finish
<1>1. CASE Begin
  BY <1>1 DEF Begin, FirstStep, Op
<1>2. CASE ReadChunk \/ ReadEnd \/ AskVersion \/ AskWriteSize \/ WriteChunk \/ WriteEnd
  <2>1. op' = op /\ op \notin {"erase", "erase_async"} /\ pc' # "poll"
    BY <1>2 DEF ReadChunk, ReadEnd, AskVersion, AskWriteSize, WriteChunk, WriteEnd, PlaceInv
  <2> QED BY <2>1
<1>3. CASE Erase
  <2>1. CASE CanErase /\ ErasesAll(offset, size)
    <3>1. \A a \in Span(offset, size) : flash'[a] = Erased
      BY <2>1, EraseEffect DEF CanErase
    <3> QED BY <1>3, <2>1, <3>1 DEF Erase, CanErase
  <2>2. CASE Finish(Error)
    BY <1>3, <2>2 DEF Erase, Error
  <2> QED BY <1>3, <2>1, <2>2 DEF Erase
<1>4. CASE StartErase
  BY <1>4 DEF StartErase, CanErase, Error, BusyRv
<1>5. CASE PollErase
  BY <1>5 DEF PollErase, EraseResult, Error, BusyRv, PlaceInv
<1>6. CASE PollEnd
  BY <1>6 DEF PollEnd
<1>7. CASE Dies
  BY <1>7 DEF Dies, Killed
<1>8. CASE EraserEnds
  <2>1. UNCHANGED <<pc, callVars, rv>> /\ UNCHANGED <<eraser.offset, eraser.size>>
    BY <1>8 DEF EraserEnds
  <2>2. CASE ErasesAll(eraser.offset, eraser.size) /\ eraser' = [eraser EXCEPT !.status = "ok"]
    <3>1. InFlash(eraser.offset, eraser.size) =>
            \A a \in Span(eraser.offset, eraser.size) : flash'[a] = Erased
      BY <2>2, EraseEffect
    <3> QED BY <1>8, <2>1, <2>2, <3>1 DEF EraserEnds
  <2>3. CASE eraser' = [eraser EXCEPT !.status = "failed"]
    BY <1>8, <2>1, <2>3 DEF EraserEnds
  <2> QED BY <1>8, <2>2, <2>3 DEF EraserEnds
<1>9. CASE UNCHANGED vars
  BY <1>9 DEF vars
<1> QED BY <1>1, <1>2, <1>3, <1>4, <1>5, <1>6, <1>7, <1>8, <1>9 DEF Next, HostStep

\* The invariant of the calls of ec_flash.cc and of the flash they work on.
THEOREM FlashInvariant == Spec => []FlashInv
<1>1. FlashInv /\ [Next]_vars => FlashInv'
  BY FlashTypeStep, FlashPlaceStep, FlashReadStep, FlashWriteStep, FlashAlignStep,
     FlashEraseStep DEF FlashInv
<1> QED BY FlashInit, <1>1, PTL DEF Spec

-----------------------------------------------------------------------------
\* A read or verify that returns 0 has seen every byte of the range in place,
\* whatever its chunks.
THEOREM FlashReadTruthful == Spec => []ReadTruthful
<1>1. FlashInv => ReadTruthful
  <2> SUFFICES ASSUME FlashInv, NEW k \in Span(0, size),
                      Succeeded("read") \/ Succeeded("verify")
               PROVE  /\ Succeeded("read") => buf[k] = flash[offset + k]
                      /\ Succeeded("verify") => flash[offset + k] = k
    BY DEF ReadTruthful
  <2>1. k < i
    BY DEF FlashInv, FlashTypeOK, ReadInv, Succeeded, Span
  <2> QED BY <2>1 DEF FlashInv, ReadInv, Succeeded
<1> QED BY <1>1, FlashInvariant, PTL

\* A write that returns 0 has left the file in flash, if the range was erased
\* or held parts of the same file.
THEOREM FlashWriteTruthful == Spec => []WriteTruthful
<1>1. FlashInv => WriteTruthful
  <2> SUFFICES ASSUME FlashInv, NEW k \in Span(0, size), Succeeded("write"), blank
               PROVE  flash[offset + k] = k
    BY DEF WriteTruthful
  <2>1. k < i
    BY DEF FlashInv, FlashTypeOK, WriteInv, Succeeded, Span
  <2> QED BY <2>1 DEF FlashInv, WriteInv, Succeeded
<1> QED BY <1>1, FlashInvariant, PTL

\* An erase that returns 0 has erased the whole range, in the background or not.
THEOREM FlashEraseTruthful == Spec => []EraseTruthful
<1>1. FlashInv => EraseTruthful
  BY DEF FlashInv, EraseInv, ErasedRange, EraseTruthful, Succeeded
<1> QED BY <1>1, FlashInvariant, PTL

\* No write command exceeds the buffer, and a file of whole blocks is written
\* in whole blocks at whole blocks, for every write size and buffer.
THEOREM FlashWritesAligned == Spec => []WritesAligned
<1>1. FlashInv => WritesAligned
  BY DEF FlashInv, AlignInv, Blocks, WritesAligned
<1> QED BY <1>1, FlashInvariant, PTL

\* Nothing but the range of the call, or of an erase the EC is still at, ever
\* changes.
THEOREM FlashOnlyTarget == Spec => OnlyTarget
<1> DEFINE Target == \A a \in Location :
              flash'[a] # flash[a] =>
                \/ a \in Span(offset, size)
                \/ Erasing /\ a \in Span(eraser.offset, eraser.size)
<1>1. FlashInv /\ [Next]_vars => [Target]_vars
  <2> SUFFICES ASSUME FlashInv, Next PROVE Target
    OBVIOUS
  <2> USE DEF FlashInv, FlashTypeOK
  <2>1. CASE WriteChunk
    <3>1. i < size /\ WriteSize \in Nat /\ i + WriteSize <= size
      BY <2>1 DEF WriteChunk, WriteDone, WriteSize, Least
    <3>2. \A a \in Span(offset + i, WriteSize) : a \in Span(offset, size)
      BY <3>1 DEF Span
    <3> QED BY <2>1, <3>1, <3>2, ProgramEffect DEF WriteChunk
  <2>2. CASE Erase
    BY <2>2, EraseEffect DEF Erase
  <2>3. CASE EraserEnds
    BY <2>3, EraseEffect DEF EraserEnds
  <2>4. CASE ~(WriteChunk \/ Erase \/ EraserEnds)
    <3>1. flash' = flash
      BY <2>4 DEF Next, HostStep, Begin, ReadChunk, ReadEnd, AskVersion, AskWriteSize,
                  WriteEnd, StartErase, PollErase, PollEnd, Dies, ecVars
    <3> QED BY <3>1
  <2> QED BY <2>1, <2>2, <2>3, <2>4
<1> QED BY <1>1, FlashInvariant, PTL DEF Spec, OnlyTarget

-----------------------------------------------------------------------------
\* What is left of n bytes at k.
Ahead(n, k) == IF k < n THEN n - k ELSE 0

\* What the measure is at each place of a call.
StepsLeftAt ==
  /\ Ahead(size, i) \in Nat
  /\ pc = "done" => StepsLeft = 0
  /\ pc \in {"read", "write"} => StepsLeft = 1 + Ahead(size, i)
  /\ pc = "write_size" => StepsLeft = 2 + Ahead(size, i)
  /\ pc = "version" => StepsLeft = 3 + Ahead(size, i)
  /\ pc = "erase" => StepsLeft = 1
  /\ pc = "poll" => StepsLeft = 1 + MaxPolls - polls
  /\ pc = "erase_async" => StepsLeft = 2 + MaxPolls

\* The measure is given by the place, the bytes ahead and the questions asked.
LEMMA MeasureByPlace == FlashTypeOK => StepsLeftAt
<1> SUFFICES ASSUME FlashTypeOK PROVE StepsLeftAt
  OBVIOUS
<1> DEFINE Bytes == IF i < size THEN size - i ELSE 0
<1>1. Bytes = Ahead(size, i) /\ Ahead(size, i) \in Nat
  BY DEF FlashTypeOK, Ahead
<1>2. /\ pc = "done" => StepsLeft = 0
      /\ pc \in {"read", "write"} => StepsLeft = 1 + Bytes
      /\ pc = "write_size" => StepsLeft = 2 + Bytes
      /\ pc = "version" => StepsLeft = 3 + Bytes
      /\ pc = "erase" => StepsLeft = 1
      /\ pc = "poll" => StepsLeft = 1 + MaxPolls - polls
      /\ pc = "erase_async" => StepsLeft = 2 + MaxPolls
  BY DEF StepsLeft
<1> QED BY <1>1, <1>2 DEF StepsLeftAt

\* In a call it is positive, and in any state a natural number.
LEMMA MeasureType ==
  FlashTypeOK /\ StepsLeftAt => StepsLeft \in Nat /\ (pc # "done" => StepsLeft > 0)
BY MaxPollsAssumption DEF StepsLeftAt, FlashTypeOK

\* Fewer bytes are ahead of a later place.
LEMMA AheadShrinks ==
  ASSUME NEW n \in Nat, NEW k \in Nat, NEW m \in Nat, k < n, m > k
  PROVE  Ahead(n, m) < Ahead(n, k) /\ Ahead(n, k) \in Nat /\ Ahead(n, m) \in Nat
BY DEF Ahead

\* A chunk leaves fewer bytes ahead.
LEMMA ChunkCloses ==
  ASSUME FlashInv, FlashInv', StepsLeftAt, StepsLeftAt',
         ReadChunk \/ WriteChunk, pc' # "done"
  PROVE  StepsLeft' < StepsLeft
<1>1. size \in Nat /\ i \in Nat /\ i' \in Nat /\ step \in Nat
  BY DEF FlashInv, FlashTypeOK
<1>2. pc \in {"read", "write"} /\ pc' = pc /\ i < size /\ size' = size
  BY <1>1 DEF ReadChunk, WriteChunk, WriteDone, Finish, callVars
<1>3. i' > i
  <2>1. CASE ReadChunk
    BY <1>1, <2>1, InsizeAssumption DEF ReadChunk, NextRead, Finish
  <2>2. CASE WriteChunk
    <3>1. step > 0 /\ pc = "write"
      BY <2>2 DEF WriteChunk, FlashInv, AlignInv
    <3>2. i' = i + step
      BY <2>2 DEF WriteChunk, Finish
    <3> QED BY <1>1, <3>1, <3>2
  <2> QED BY <2>1, <2>2
<1>4. Ahead(size', i') = Ahead(size, i')
  BY <1>2
<1>5. Ahead(size, i') < Ahead(size, i) /\ Ahead(size, i) \in Nat /\ Ahead(size, i') \in Nat
  BY <1>1, <1>2, <1>3, AheadShrinks
<1>6. StepsLeft = 1 + Ahead(size, i) /\ StepsLeft' = 1 + Ahead(size, i')
  BY <1>2, <1>4 DEF StepsLeftAt
<1> QED BY <1>5, <1>6

\* Every step of a call leaves fewer of them.
LEMMA HostStepCloses ==
  ASSUME FlashInv, FlashInv', StepsLeftAt, StepsLeftAt', HostStep
  PROVE  StepsLeft' < StepsLeft
<1>1. /\ FlashTypeOK /\ FlashTypeOK'
      /\ StepsLeft \in Nat /\ (pc # "done" => StepsLeft > 0)
  BY MeasureType DEF FlashInv
<1>2. ASSUME pc # "done", pc' = "done" PROVE StepsLeft' < StepsLeft
  BY <1>1, <1>2 DEF StepsLeftAt
<1>3. CASE ReadChunk \/ WriteChunk
  <2>1. pc # "done"
    BY <1>3 DEF ReadChunk, WriteChunk
  <2> QED BY <1>2, <1>3, <2>1, ChunkCloses
<1>4. CASE ReadEnd \/ WriteEnd \/ Erase \/ PollEnd
  <2>1. pc # "done" /\ pc' = "done"
    BY <1>4 DEF ReadEnd, WriteEnd, Erase, PollEnd, Finish
  <2> QED BY <1>2, <2>1
<1>5. CASE AskVersion
  <2>1. pc = "version" /\ pc' = "write_size" /\ size' = size /\ i' = i
    BY <1>5 DEF AskVersion, callVars
  <2>2. StepsLeft = 3 + Ahead(size, i) /\ StepsLeft' = 2 + Ahead(size, i)
    BY <2>1 DEF StepsLeftAt
  <2> QED BY <2>2 DEF StepsLeftAt
<1>6. CASE AskWriteSize
  <2>1. pc = "write_size" /\ pc' \in {"done", "write"} /\ size' = size /\ i' = i
    BY <1>6 DEF AskWriteSize, Finish, callVars
  <2>2. pc' = "write" => StepsLeft = 2 + Ahead(size, i) /\ StepsLeft' = 1 + Ahead(size, i)
    BY <2>1 DEF StepsLeftAt
  <2> QED BY <1>2, <2>1, <2>2 DEF StepsLeftAt
<1>7. CASE StartErase
  <2>1. pc = "erase_async" /\ pc' \in {"done", "poll"}
    BY <1>7 DEF StartErase, Finish
  <2>2. pc' = "poll" => StepsLeft = 2 + MaxPolls /\ StepsLeft' = 1 + MaxPolls - polls'
    BY <2>1 DEF StepsLeftAt
  <2>3. polls' \in 0 .. MaxPolls /\ MaxPolls \in Nat
    BY <1>1, MaxPollsAssumption DEF FlashTypeOK
  <2> QED BY <1>2, <2>1, <2>2, <2>3
<1>8. CASE PollErase
  <2>1. pc = "poll" /\ pc' = "poll" /\ polls' = polls + 1
    BY <1>8 DEF PollErase
  <2>2. StepsLeft = 1 + MaxPolls - polls /\ StepsLeft' = 1 + MaxPolls - polls'
    BY <2>1 DEF StepsLeftAt
  <2>3. polls \in 0 .. MaxPolls /\ MaxPolls \in Nat
    BY <1>1, MaxPollsAssumption DEF FlashTypeOK
  <2> QED BY <2>1, <2>2, <2>3
<1> QED BY <1>3, <1>4, <1>5, <1>6, <1>7, <1>8 DEF HostStep

(***************************************************************************)
(* A call comes closer to its end with every step it makes, whatever the   *)
(* EC answers and however long it erases: what CallEnds needs besides is   *)
(* that the process runs.                                                  *)
(***************************************************************************)
THEOREM FlashClosesIn == Spec => ClosesIn
<1> DEFINE Closes == /\ HostStep => StepsLeft' < StepsLeft
                     /\ pc # "done" => StepsLeft' \in 0 .. StepsLeft
           Measured == FlashInv /\ StepsLeftAt
<1>1. Measured /\ Measured' /\ [Next]_vars => [Closes]_vars
  <2> SUFFICES ASSUME FlashInv, FlashInv', StepsLeftAt, StepsLeftAt', Next PROVE Closes
    OBVIOUS
  <2>1. StepsLeft \in Nat /\ StepsLeft' \in Nat
    <3>1. FlashTypeOK /\ FlashTypeOK'
      BY DEF FlashInv
    <3>2. FlashTypeOK' /\ StepsLeftAt' => StepsLeft' \in Nat
      BY MaxPollsAssumption DEF StepsLeftAt, FlashTypeOK
    <3> QED BY <3>1, <3>2, MeasureType
  <2>2. CASE HostStep
    <3>1. StepsLeft' < StepsLeft
      BY <2>2, HostStepCloses
    <3> QED BY <2>1, <3>1
  <2>3. CASE ~HostStep /\ Dies
    <3>1. StepsLeft' = 0
      BY <2>3 DEF Dies, Finish, StepsLeftAt
    <3> QED BY <2>1, <2>3, <3>1
  <2>4. CASE ~HostStep /\ EraserEnds
    <3>1. pc' = pc /\ size' = size /\ i' = i /\ polls' = polls
      BY <2>4 DEF EraserEnds, callVars
    <3>2. StepsLeft' = StepsLeft
      BY <3>1 DEF StepsLeftAt, FlashInv, FlashTypeOK
    <3> QED BY <2>1, <2>4, <3>2
  <2>5. CASE ~HostStep /\ Begin
    BY <2>5 DEF Begin
  <2> QED BY <2>2, <2>3, <2>4, <2>5 DEF Next
<1>2. FlashInv => Measured
  BY MeasureByPlace DEF FlashInv
<1> QED BY <1>1, <1>2, FlashInvariant, PTL DEF Spec, ClosesIn

(***************************************************************************)
(* Every variable has its type, for any sizes: no more questions are asked *)
(* for an erase than ERASE_ASYNC_TIMEOUT allows, and no place in a file is *)
(* negative.                                                               *)
(***************************************************************************)
THEOREM FlashTypeCorrect == Spec => []FlashTypeOK
<1> QED BY FlashInvariant, PTL DEF FlashInv
=============================================================================
