---------------------------- MODULE KeyScanProofs -----------------------------
(***************************************************************************)
(* cmd_keyscan() is well typed and plays, when it returns 0, each test and *)
(* nothing else, for any file, any number of tests and any EC. The         *)
(* invariant relates the sequence in the EC to the items sent so far, and  *)
(* says that a run without an error has left a trace of every test behind  *)
(* it and of none ahead.                                                   *)
(***************************************************************************)
EXTENDS KeyScan, SequenceTheorems, TLAPS

\* A test is being run.
Testing == {"clear", "add", "start", "input"}

\* The types of TypeOK but that of any_err, and that of played.
Typed ==
  /\ pc \in {"file", "next"} \cup Testing \cup Ends
  /\ lines \in 0..MaxLines
  /\ DOMAIN tests = Index
  /\ \A i \in Index : tests[i].expect \subseteq Texts /\ tests[i].items \in Seq(Scans)
  /\ test_count \in Nat /\ cur_test \subseteq Index
  /\ testnum \in 0..test_count /\ upto \in Nat
  /\ tty \in {"cooked", "raw"}
  /\ typed \in Seq(Scans) /\ sequence \in Seq(Scans)
  /\ DOMAIN played = Index

\* Only tests that are memory of tests are run, one after the other.
CountInv ==
  /\ pc = "file" => testnum = 0
  /\ pc \in {"next", "zero"} \cup Testing => test_count <= KEYSCAN_MAX_TESTS
  /\ pc \in Testing => testnum < test_count
  /\ pc = "zero" => testnum = test_count

\* The EC holds the items sent so far, whatever it held before the test.
SequenceInv ==
  /\ pc = "clear" => upto = 0
  /\ pc = "add" => upto <= Len(test.items) /\ sequence = SubSeq(test.items, 1, upto)
  /\ pc = "start" => sequence = test.items
  /\ pc = "input" => played[testnum] = {test.items}

\* Nothing was played of a test that has not started.
AheadInv ==
  pc \notin Ends =>
    \A i \in Index : i > testnum \/ (i = testnum /\ pc # "input") => played[i] = {}

\* Until something fails, every test that is over was played as it is, and the
\* terminal is raw only while one is played.
BehindInv ==
  /\ ~any_err => \A i \in Index : i < testnum => played[i] = {tests[i].items}
  /\ ~any_err /\ pc \notin {"start", "input", "crashed"} => tty = "cooked"
  /\ pc = "zero" => ~any_err

KeyScanInv ==
  Typed /\ any_err \in BOOLEAN /\ CountInv /\ SequenceInv /\ AheadInv /\ BehindInv

-----------------------------------------------------------------------------
\* Sequences sent item by item: nothing is sent, one more is, all are.
LEMMA ItemsSent ==
  ASSUME NEW S, NEW items \in Seq(S), NEW n \in Nat, n <= Len(items)
  PROVE  /\ SubSeq(items, 1, 0) = <<>> /\ SubSeq(items, 1, Len(items)) = items
         /\ n < Len(items) =>
              Append(SubSeq(items, 1, n), items[n + 1]) = SubSeq(items, 1, n + 1)
         /\ \A m \in 0..Len(items) : SubSeq(items, m + 1, Len(items)) \in Seq(S)
<1>1. SubSeq(items, 1, 0) = <<>> /\ SubSeq(items, 1, Len(items)) = items
  BY SubSeqEmpty, SubSeqFull
<1>2. ASSUME n < Len(items)
      PROVE  Append(SubSeq(items, 1, n), items[n + 1]) = SubSeq(items, 1, n + 1)
  <2>1. n + 1 \in 1..Len(items) /\ 1 \in 1..Len(items) /\ n + 1 \in 1..n + 1 /\ (n + 1) - 1 = n
    BY <1>2
  <2>2. SubSeq(items, 1, n + 1) = SubSeq(items, 1, (n + 1) - 1) \o <<items[n + 1]>>
    BY <2>1, SubSeqRecursiveSecond
  <2>3. SubSeq(items, 1, n) \in Seq(S) /\ items[n + 1] \in S
    BY <2>1, SubSeqProperties
  <2> QED BY <2>1, <2>2, <2>3, AppendIsConcat
<1>3. ASSUME NEW m \in 0..Len(items) PROVE SubSeq(items, m + 1, Len(items)) \in Seq(S)
  <2>1. m + 1 \in Int /\ Len(items) \in Int /\ \A i \in m + 1..Len(items) : items[i] \in S
    OBVIOUS
  <2> QED BY <2>1, SubSeqProperties
<1> QED BY <1>1, <1>2, <1>3

\* What the invariant says without the one variable with a Boolean value.
LEMMA KeyScanTypes ==
  KeyScanInv => Typed /\ CountInv /\ SequenceInv /\ AheadInv /\ BehindInv
BY Zenon DEF KeyScanInv

\* An error stays, and a test that fails is one.
LEMMA ErrorsStay ==
  KeyScanInv /\ [Next]_vars => any_err' \in BOOLEAN /\ (any_err => any_err')
<1> SUFFICES ASSUME KeyScanInv, [Next]_vars
             PROVE  any_err' \in BOOLEAN /\ (any_err => any_err')
  OBVIOUS
<1>1. any_err \in BOOLEAN
  BY Zenon DEF KeyScanInv
<1>2. ASSUME NEW err \in BOOLEAN, Verdict(err)
      PROVE  any_err' \in BOOLEAN /\ (any_err => any_err')
  BY <1>1, <1>2, Zenon DEF Verdict
<1>3. UNCHANGED any_err \/ \E err \in BOOLEAN : Verdict(err)
  BY Zenon DEF Next, ReadFile, GiveUp, TestLine, ExpectLine, SeqLine, EndTestLine, EndOfFile,
     RunTests, NextTest, Clear, Add, SetToRaw, Start, CollectInput, GetInput, Outcome,
     Acknowledged, runVars, vars
<1> QED BY <1>1, <1>2, <1>3, Zenon

\* What a verdict changes.
LEMMA VerdictEffect ==
  /\ Verdict(TRUE) => any_err' /\ testnum' = testnum + 1 /\ pc' = "next"
  /\ \A err \in BOOLEAN : Verdict(err) => testnum' = testnum + 1 /\ pc' = "next"
BY Zenon DEF Verdict

\* The invariant holds when cmd_keyscan() is called.
LEMMA KeyScanInit == Init => KeyScanInv
<1> SUFFICES ASSUME Init PROVE KeyScanInv
  OBVIOUS
<1>1. Typed
  <2>1. sequence \in Seq(Scans)
    <3>1. CASE sequence = <<>>
      BY <3>1
    <3>2. CASE \E s \in Scans : sequence = <<s>>
      BY <3>2
    <3> QED BY <3>1, <3>2 DEF Init
  <2>2. /\ DOMAIN tests = Index /\ DOMAIN played = Index
        /\ \A i \in Index : tests[i] = NoTest
    BY DEF Init
  <2>3. NoTest.expect \subseteq Texts /\ NoTest.items \in Seq(Scans)
    BY DEF NoTest
  <2>4. lines \in 0..MaxLines
    BY KeyScanAssumption DEF Init
  <2> HIDE DEF Index, NoTest
  <2> QED BY <2>1, <2>2, <2>3, <2>4 DEF Init, Typed
<1>2. CountInv /\ SequenceInv /\ AheadInv
  BY KeyScanAssumption DEF Init, CountInv, SequenceInv, AheadInv, Ends, Testing, Index
<1>3. BehindInv
  BY KeyScanAssumption DEF Init, BehindInv, Index
<1>4. any_err \in BOOLEAN
  BY Zenon DEF Init
<1> QED BY <1>1, <1>2, <1>3, <1>4, Zenon DEF KeyScanInv

-----------------------------------------------------------------------------
\* Reading the file keeps the invariant: no test is run, and the tests that are
\* run are those there is memory for.
LEMMA ReadFileStep ==
  KeyScanInv /\ ReadFile => Typed' /\ CountInv' /\ SequenceInv' /\ AheadInv' /\ BehindInv'
<1> SUFFICES ASSUME KeyScanInv, ReadFile
             PROVE  Typed' /\ CountInv' /\ SequenceInv' /\ AheadInv' /\ BehindInv'
  OBVIOUS
<1>1. Typed /\ CountInv /\ SequenceInv /\ AheadInv /\ BehindInv
  BY KeyScanTypes
<1>2. /\ pc = "file" /\ pc' \in {"file", "next", "failure", "crashed"}
      /\ testnum' = testnum /\ upto' = upto /\ tty' = tty /\ typed' = typed
      /\ played' = played /\ sequence' = sequence
      /\ pc' = "next" => test_count' <= KEYSCAN_MAX_TESTS
      /\ lines' \in {lines, lines + 1} /\ lines' <= MaxLines
      /\ test_count' \in {test_count, test_count + 1}
  BY <1>1, KeyScanAssumption
     DEF Typed, ReadFile, GiveUp, TestLine, ExpectLine, SeqLine, EndTestLine, EndOfFile, Line,
         fileVars, runVars
<1>3. any_err' = any_err
  BY Zenon DEF ReadFile, GiveUp, TestLine, ExpectLine, SeqLine, EndTestLine, EndOfFile, runVars
<1>4. cur_test' \subseteq Index
  BY <1>1, KeyScanAssumption
     DEF Typed, ReadFile, GiveUp, TestLine, ExpectLine, SeqLine, EndTestLine, EndOfFile, Line,
         fileVars, runVars, Full, Index
<1>5. /\ DOMAIN tests' = Index
      /\ \A i \in Index : tests'[i].expect \subseteq Texts /\ tests'[i].items \in Seq(Scans)
  <2>1. CASE tests' = tests
    BY <1>1, <2>1 DEF Typed
  <2>2. CASE ExpectLine /\ tests' # tests
    <3>1. PICK i \in cur_test, text \in Texts : tests' = [tests EXCEPT ![i].expect = {text}]
      BY <2>2 DEF ExpectLine
    <3> QED BY <1>1, <3>1 DEF Typed
  <2>3. CASE SeqLine /\ tests' # tests
    <3>1. PICK i \in cur_test, s \in Scans :
            tests' = [tests EXCEPT ![i].items = Append(@, s)]
      BY <2>3 DEF SeqLine
    <3>2. i \in Index /\ tests[i].items \in Seq(Scans)
      BY <1>1 DEF Typed
    <3>3. Append(tests[i].items, s) \in Seq(Scans)
      BY <3>2
    <3> QED BY <1>1, <3>1, <3>2, <3>3 DEF Typed
  <2> QED BY <2>1, <2>2, <2>3 DEF ReadFile, GiveUp, TestLine, EndTestLine, EndOfFile, fileVars
<1>6. Typed'
  BY <1>1, <1>2, <1>4, <1>5, KeyScanAssumption DEF Typed, Ends
<1>7. CountInv' /\ SequenceInv' /\ AheadInv'
  BY <1>1, <1>2 DEF Typed, CountInv, SequenceInv, AheadInv, Ends, Testing
<1>8. BehindInv'
  <2>1. \A i \in Index : ~ (i < testnum')
    BY <1>1, <1>2, KeyScanAssumption DEF CountInv, Index
  <2>2. ~any_err => tty' = "cooked"
    BY <1>1, <1>2 DEF BehindInv
  <2> QED BY <1>2, <1>3, <2>1, <2>2 DEF BehindInv
<1> QED BY <1>6, <1>7, <1>8

-----------------------------------------------------------------------------
\* A test being run is one there is memory for.
LEMMA TestInRange ==
  KeyScanInv /\ pc \in Testing =>
    /\ testnum \in Index /\ testnum < test_count /\ testnum + 1 \in 0..test_count
    /\ test.items \in Seq(Scans) /\ Len(test.items) \in Nat
<1> SUFFICES ASSUME KeyScanInv, pc \in Testing
             PROVE  /\ testnum \in Index /\ testnum < test_count
                    /\ testnum + 1 \in 0..test_count
                    /\ test.items \in Seq(Scans) /\ Len(test.items) \in Nat
  OBVIOUS
<1>1. testnum < test_count /\ test_count <= KEYSCAN_MAX_TESTS /\ test_count \in Nat
  BY KeyScanTypes DEF Typed, CountInv
<1>2. testnum \in Nat
  BY <1>1, KeyScanTypes DEF Typed
<1>3. testnum \in Index /\ testnum + 1 \in 0..test_count
  BY <1>1, <1>2, KeyScanAssumption DEF Index
<1>4. test.items \in Seq(Scans)
  BY <1>3, KeyScanTypes DEF Typed, test
<1> QED BY <1>1, <1>3, <1>4

\* The invariant after a step, but for the type of any_err.
Kept == Typed' /\ CountInv' /\ SequenceInv' /\ AheadInv' /\ BehindInv'

\* A test that failed and that was not played to the EC is left behind.
LEMMA Fails ==
  ASSUME KeyScanInv, pc \in Testing, Verdict(TRUE), UNCHANGED fileVars,
         upto' \in Nat, tty' \in {"cooked", "raw"}, typed' \in Seq(Scans),
         sequence' \in Seq(Scans), played' = played
  PROVE  Kept
<1>1. any_err' /\ testnum' = testnum + 1 /\ pc' = "next"
  BY VerdictEffect
<1>2. Typed /\ CountInv /\ AheadInv
  BY KeyScanTypes
<1>3. testnum + 1 \in 0..test_count /\ testnum \in Nat
  BY TestInRange, <1>2 DEF Typed
<1>4. Typed'
  BY <1>1, <1>2, <1>3 DEF Typed, fileVars
<1>5. CountInv' /\ SequenceInv'
  BY <1>1, <1>2 DEF CountInv, SequenceInv, Testing, fileVars
<1>6. AheadInv'
  <2>1. \A i \in Index : i > testnum => played[i] = {}
    BY <1>2 DEF AheadInv, Ends, Testing
  <2>2. \A i \in Index : i \in Int
    BY DEF Index
  <2> QED BY <1>1, <1>3, <2>1, <2>2 DEF AheadInv
<1>7. BehindInv'
  BY <1>1 DEF BehindInv
<1> QED BY <1>4, <1>5, <1>6, <1>7 DEF Kept

\* Between tests: the next one begins, or all of them are over.
LEMMA NextTestStep == KeyScanInv /\ NextTest => Kept
<1> SUFFICES ASSUME KeyScanInv, NextTest PROVE Kept
  OBVIOUS
<1>1. Typed /\ CountInv /\ SequenceInv /\ AheadInv /\ BehindInv
  BY KeyScanTypes
<1>2. /\ pc = "next" /\ upto' = 0
      /\ testnum' = testnum /\ tty' = tty /\ typed' = typed /\ played' = played
      /\ sequence' = sequence /\ UNCHANGED fileVars
      /\ pc' \in {"clear", "failure", "zero"}
      /\ pc' = "clear" => testnum < test_count
      /\ pc' \in {"failure", "zero"} => ~ (testnum < test_count)
  BY DEF NextTest
<1>3. any_err' = any_err /\ (pc' = "zero" => ~any_err)
  <2>1. any_err' = any_err
    BY Zenon DEF NextTest
  <2>2. pc' = "zero" => ~any_err
    BY DEF NextTest
  <2> QED BY <2>1, <2>2
<1>4. Typed'
  BY <1>1, <1>2 DEF Typed, fileVars, Testing, Ends
<1>5. CountInv'
  BY <1>1, <1>2 DEF Typed, CountInv, fileVars, Testing
<1>6. SequenceInv' /\ AheadInv'
  BY <1>1, <1>2 DEF SequenceInv, AheadInv, Ends, Testing
<1>7. BehindInv'
  BY <1>1, <1>2, <1>3 DEF BehindInv, fileVars
<1> QED BY <1>4, <1>5, <1>6, <1>7 DEF Kept

\* A test that goes on before it is played has played nothing.
LEMMA GoesOn ==
  ASSUME KeyScanInv, pc \in {"clear", "add"}, pc' \in {"add", "start"},
         UNCHANGED <<fileVars, any_err, testnum, typed, played>>,
         upto' \in Nat, sequence' \in Seq(Scans), tty' \in {"cooked", "raw"},
         pc' = "add" => tty' = tty /\ upto' <= Len(test.items)
                        /\ sequence' = SubSeq(test.items, 1, upto'),
         pc' = "start" => sequence' = test.items
  PROVE  Kept
<1>1. Typed /\ CountInv /\ AheadInv /\ BehindInv /\ testnum \in Nat
  BY KeyScanTypes DEF Typed
<1>2. test' = test /\ testnum' = testnum /\ played' = played /\ tests' = tests
  BY DEF test, fileVars
<1>3. Typed'
  BY <1>1 DEF Typed, Testing, fileVars
<1>4. CountInv' /\ SequenceInv' /\ AheadInv'
  BY <1>1, <1>2 DEF CountInv, SequenceInv, AheadInv, Testing, Ends, fileVars
<1>5. BehindInv'
  BY <1>1, <1>2 DEF BehindInv
<1> QED BY <1>3, <1>4, <1>5 DEF Kept

\* The sequence is cleared.
LEMMA ClearStep == KeyScanInv /\ Clear => Kept
<1> SUFFICES ASSUME KeyScanInv, Clear PROVE Kept
  OBVIOUS
<1>1. Typed /\ SequenceInv /\ pc \in Testing
  BY KeyScanTypes DEF Clear, Testing
<1>2. /\ pc = "clear" /\ upto' = upto /\ tty' = tty /\ typed' = typed /\ played' = played
      /\ UNCHANGED fileVars /\ sequence' \in {<<>>, sequence}
  BY DEF Clear, Outcome
<1>3. upto' = 0 /\ tty' \in {"cooked", "raw"} /\ typed' \in Seq(Scans)
      /\ sequence' \in Seq(Scans)
  <2>1. upto = 0 /\ tty \in {"cooked", "raw"} /\ typed \in Seq(Scans)
        /\ sequence \in Seq(Scans)
    BY <1>1, <1>2 DEF Typed, SequenceInv
  <2>2. <<>> \in Seq(Scans)
    OBVIOUS
  <2> QED BY <1>2, <2>1, <2>2, Zenon
<1>4. CASE Verdict(TRUE)
  BY <1>1, <1>2, <1>3, <1>4, Fails
<1>5. CASE sequence' = <<>> /\ Acknowledged("add")
  <2>1. any_err' = any_err /\ testnum' = testnum /\ pc' = "add"
    BY <1>5, Zenon DEF Acknowledged
  <2>2. Len(test.items) \in Nat /\ SubSeq(test.items, 1, 0) = <<>>
    BY <1>1, TestInRange, ItemsSent
  <2> QED BY <1>2, <1>3, <1>5, <2>1, <2>2, GoesOn
<1> QED BY <1>4, <1>5 DEF Clear, Outcome

\* The next item of the test is added to the sequence.
LEMMA AddStep == KeyScanInv /\ Add => Kept
<1> SUFFICES ASSUME KeyScanInv, Add PROVE Kept
  OBVIOUS
<1> DEFINE items == test.items
           longer == Append(sequence, items[upto + 1])
<1>1. Typed /\ SequenceInv /\ pc \in Testing
  BY KeyScanTypes DEF Add, Testing
<1>2. /\ pc = "add" /\ upto < Len(items) /\ upto' = upto + 1 /\ tty' = tty
      /\ typed' = typed /\ played' = played
      /\ UNCHANGED fileVars /\ sequence' \in {longer, sequence}
  BY DEF Add, Outcome
<1>3. items \in Seq(Scans) /\ Len(items) \in Nat /\ upto \in Nat
      /\ sequence = SubSeq(items, 1, upto) /\ sequence \in Seq(Scans)
  BY <1>1, <1>2, TestInRange DEF Typed, SequenceInv
<1>4. longer = SubSeq(items, 1, upto + 1) /\ longer \in Seq(Scans)
  <2>1. items[upto + 1] \in Scans
    BY <1>2, <1>3
  <2> HIDE DEF items
  <2> QED BY <1>2, <1>3, <2>1, ItemsSent, AppendProperties
<1>5. upto' \in Nat /\ tty' \in {"cooked", "raw"} /\ typed' \in Seq(Scans)
      /\ sequence' \in Seq(Scans)
  <2>1. upto + 1 \in Nat /\ tty \in {"cooked", "raw"} /\ typed \in Seq(Scans)
    BY <1>1, <1>3 DEF Typed
  <2> QED BY <1>2, <1>3, <1>4, <2>1, Zenon
<1>6. CASE Verdict(TRUE)
  BY <1>1, <1>2, <1>5, <1>6, Fails
<1>7. CASE sequence' = longer /\ Acknowledged("add")
  <2>1. any_err' = any_err /\ testnum' = testnum /\ pc' = "add"
    BY <1>7, Zenon DEF Acknowledged
  <2>2. upto' <= Len(items) /\ sequence' = SubSeq(items, 1, upto')
    BY <1>2, <1>3, <1>4, <1>7
  <2> QED BY <1>2, <1>5, <2>1, <2>2, GoesOn
<1> QED BY <1>6, <1>7 DEF Add, Outcome

\* The last item has been added.
LEMMA SetToRawStep == KeyScanInv /\ SetToRaw => Kept
<1> SUFFICES ASSUME KeyScanInv, SetToRaw PROVE Kept
  OBVIOUS
<1>1. Typed /\ SequenceInv /\ pc \in Testing
  BY KeyScanTypes DEF SetToRaw, Testing
<1>2. /\ pc = "add" /\ upto = Len(test.items) /\ pc' = "start" /\ tty' = "raw"
      /\ upto' = upto /\ testnum' = testnum /\ sequence' = sequence
      /\ UNCHANGED <<fileVars, typed, played>>
  BY DEF SetToRaw
<1>3. any_err' = any_err
  BY Zenon DEF SetToRaw
<1>4. sequence = test.items /\ upto \in Nat /\ sequence \in Seq(Scans)
  <2>1. sequence = SubSeq(test.items, 1, Len(test.items)) /\ test.items \in Seq(Scans)
    BY <1>1, <1>2, TestInRange DEF SequenceInv
  <2> QED BY <1>1, <2>1, SubSeqFull DEF Typed
<1> QED BY <1>2, <1>3, <1>4, GoesOn

\* The EC plays the sequence, which is then all that it was told to play for
\* the test.
LEMMA StartStep == KeyScanInv /\ Start => Kept
<1> SUFFICES ASSUME KeyScanInv, Start PROVE Kept
  OBVIOUS
<1>1. /\ Typed /\ CountInv /\ SequenceInv /\ AheadInv /\ BehindInv
      /\ pc = "start" /\ pc \in Testing
  BY KeyScanTypes DEF Start, Testing
<1>2. upto' = upto /\ tty' = tty /\ sequence' = sequence /\ UNCHANGED fileVars
  BY DEF Start
<1>3. typed' \in Seq(Scans)
  <2>1. typed \in Seq(Scans) /\ typed \o sequence \in Seq(Scans)
    BY <1>1 DEF Typed
  <2> QED BY <2>1 DEF Start
<1>4. CASE Verdict(TRUE) /\ UNCHANGED played
  BY <1>1, <1>2, <1>3, <1>4, Fails DEF Typed
<1>5. CASE /\ played' = [played EXCEPT ![testnum] = @ \cup {sequence}]
           /\ Acknowledged("input")
  <2>1. any_err' = any_err /\ testnum' = testnum /\ pc' = "input"
    BY <1>5, Zenon DEF Acknowledged
  <2>2. testnum \in Index /\ DOMAIN played = Index /\ played[testnum] = {}
        /\ sequence = test.items
    BY <1>1, TestInRange DEF Typed, AheadInv, SequenceInv, Ends
  <2>3. /\ DOMAIN played' = Index /\ played'[testnum] = {test.items}
        /\ \A i \in Index : i # testnum => played'[i] = played[i]
    BY <1>5, <2>2
  <2>4. test' = test /\ tests' = tests /\ test_count' = test_count
    BY <1>2, <2>1 DEF test, fileVars
  <2>5. Typed'
    BY <1>1, <1>2, <1>3, <2>1, <2>3 DEF Typed, Testing, fileVars
  <2>6. CountInv' /\ SequenceInv'
    BY <1>1, <2>1, <2>3, <2>4 DEF CountInv, SequenceInv, Testing
  <2>7. \A i \in Index : i \in Int
    BY DEF Index
  <2>8. AheadInv'
    BY <1>1, <2>1, <2>2, <2>3, <2>7 DEF AheadInv, Ends
  <2>9. BehindInv'
    BY <1>1, <2>1, <2>2, <2>3, <2>4, <2>7 DEF BehindInv
  <2> QED BY <2>5, <2>6, <2>8, <2>9 DEF Kept
<1> QED BY <1>4, <1>5 DEF Start

\* The test is over: when it succeeded, it was played as it is and the terminal
\* is cooked again.
LEMMA CollectInputStep == KeyScanInv /\ CollectInput => Kept
<1> SUFFICES ASSUME KeyScanInv, CollectInput PROVE Kept
  OBVIOUS
<1>1. /\ Typed /\ CountInv /\ SequenceInv /\ AheadInv /\ BehindInv
      /\ pc = "input" /\ pc \in Testing
  BY KeyScanTypes DEF CollectInput, Testing
<1>2. /\ upto' = upto /\ tty' = "cooked" /\ sequence' = sequence /\ played' = played
      /\ UNCHANGED fileVars
  BY DEF CollectInput
<1>3. typed' \in Seq(Scans)
  <2>1. PICK n \in 0..Len(typed) : typed' = SubSeq(typed, n + 1, Len(typed))
    BY Zenon DEF CollectInput
  <2>2. typed \in Seq(Scans) /\ Len(typed) \in Nat /\ Len(typed) <= Len(typed)
    BY <1>1 DEF Typed
  <2> QED BY <2>1, <2>2, ItemsSent
<1>4. CASE Verdict(TRUE)
  BY <1>1, <1>2, <1>3, <1>4, Fails DEF Typed
<1>5. CASE pc' = "crashed" /\ UNCHANGED <<any_err, testnum>>
  <2>1. testnum' = testnum /\ tests' = tests
    BY <1>2, <1>5 DEF fileVars
  <2>2. Typed'
    BY <1>1, <1>2, <1>3, <1>5, <2>1 DEF Typed, Ends, fileVars
  <2>3. CountInv' /\ SequenceInv' /\ AheadInv'
    BY <1>5 DEF CountInv, SequenceInv, AheadInv, Ends, Testing
  <2>4. BehindInv'
    BY <1>1, <1>2, <1>5, <2>1 DEF BehindInv
  <2> QED BY <2>2, <2>3, <2>4 DEF Kept
<1>6. CASE \E err \in BOOLEAN : Verdict(err)
  <2>1. testnum' = testnum + 1 /\ pc' = "next"
    BY <1>6, VerdictEffect
  <2>2. /\ testnum \in Index /\ testnum + 1 \in 0..test_count /\ testnum < test_count
        /\ played[testnum] = {tests[testnum].items}
    BY <1>1, TestInRange DEF SequenceInv, test
  <2>3. any_err => any_err'
    BY ErrorsStay DEF Next, RunTests
  <2>4. tests' = tests /\ test_count' = test_count
    BY <1>2 DEF fileVars
  <2>5. Typed'
    BY <1>1, <1>2, <1>3, <2>1, <2>2 DEF Typed, fileVars
  <2>6. CountInv' /\ SequenceInv'
    BY <1>1, <2>1, <2>4 DEF CountInv, SequenceInv, Testing
  <2>7. (\A i \in Index : i \in Int) /\ testnum \in Int
    BY <2>2 DEF Index
  <2>8. AheadInv'
    <3>1. \A i \in Index : i > testnum => played[i] = {}
      BY <1>1 DEF AheadInv, Ends
    <3> QED BY <1>2, <2>1, <2>7, <3>1 DEF AheadInv
  <2>9. BehindInv'
    <3>1. ~any_err => \A i \in Index : i < testnum => played[i] = {tests[i].items}
      BY <1>1 DEF BehindInv
    <3>2. \A i \in Index : i < testnum + 1 => i < testnum \/ i = testnum
      BY <2>7
    <3>3. ~any_err => \A i \in Index : i < testnum + 1 => played[i] = {tests[i].items}
      BY <2>2, <3>1, <3>2
    <3> QED BY <1>2, <2>1, <2>3, <2>4, <3>3 DEF BehindInv
  <2> QED BY <2>5, <2>6, <2>8, <2>9 DEF Kept
<1>7. \/ Verdict(TRUE) \/ (pc' = "crashed" /\ UNCHANGED <<any_err, testnum>>)
      \/ \E err \in BOOLEAN : Verdict(err)
  BY Zenon DEF CollectInput, GetInput
<1> QED BY <1>4, <1>5, <1>6, <1>7

-----------------------------------------------------------------------------
\* The invariant of cmd_keyscan() and the EC that plays its tests.
THEOREM KeyScanInvariant == Spec => []KeyScanInv
<1>1. KeyScanInv /\ [Next]_vars => KeyScanInv'
  <2> SUFFICES ASSUME KeyScanInv, [Next]_vars PROVE Kept /\ any_err' \in BOOLEAN
    BY Zenon DEF Kept, KeyScanInv
  <2> SUFFICES Kept
    BY ErrorsStay
  <2>1. CASE ReadFile
    BY <2>1, ReadFileStep DEF Kept
  <2>2. CASE NextTest \/ Clear \/ Add
    BY <2>2, NextTestStep, ClearStep, AddStep
  <2>3. CASE SetToRaw \/ Start \/ CollectInput
    BY <2>3, SetToRawStep, StartStep, CollectInputStep
  <2>4. CASE UNCHANGED vars
    <3>1. Typed /\ CountInv /\ SequenceInv /\ AheadInv /\ BehindInv
      BY KeyScanTypes
    <3>2. test' = test
      BY <2>4 DEF vars, fileVars, runVars, test
    <3>3. Typed'
      BY <2>4, <3>1 DEF vars, fileVars, runVars, Typed
    <3>4. CountInv' /\ SequenceInv' /\ AheadInv'
      BY <2>4, <3>1, <3>2 DEF vars, fileVars, runVars, CountInv, SequenceInv, AheadInv
    <3>5. BehindInv'
      BY <2>4, <3>1 DEF vars, fileVars, runVars, BehindInv
    <3> QED BY <3>3, <3>4, <3>5 DEF Kept
  <2> QED BY <2>1, <2>2, <2>3, <2>4 DEF Next, RunTests
<1> QED BY KeyScanInit, <1>1, PTL DEF Spec

\* Every variable has its type, and the test being read is one of the array.
THEOREM KeyScanTypeCorrect == Spec => []TypeOK
<1>1. KeyScanInv => TypeOK
  BY Zenon DEF KeyScanInv, Typed, TypeOK, Testing
<1> QED BY <1>1, KeyScanInvariant, PTL

\* When cmd_keyscan() returns 0, each test was played as it is and nothing else
\* was, and the terminal is as it was.
THEOREM KeyScanSuccessIsWhole == Spec => []SuccessIsWhole
<1>1. KeyScanInv => SuccessIsWhole
  <2> SUFFICES ASSUME KeyScanInv, pc = "zero"
               PROVE  /\ \A i \in 0..test_count - 1 : played[i] = {tests[i].items}
                      /\ tty = "cooked"
    BY DEF SuccessIsWhole
  <2>1. /\ ~any_err /\ tty = "cooked" /\ testnum = test_count
        /\ test_count <= KEYSCAN_MAX_TESTS /\ test_count \in Nat
    BY KeyScanTypes DEF Typed, CountInv, BehindInv
  <2>2. \A i \in 0..test_count - 1 : i \in Index /\ i < testnum
    BY <2>1, KeyScanAssumption DEF Index
  <2> QED BY <2>1, <2>2, KeyScanTypes DEF BehindInv
<1> QED BY <1>1, KeyScanInvariant, PTL
=============================================================================
