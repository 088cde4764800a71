--------------------------- MODULE NativeTestsProofs ---------------------------
(***************************************************************************)
(* Proofs about NativeTests, for any binary and any package.               *)
(***************************************************************************)
EXTENDS NativeTests, FiniteSetTheorems, TLAPS

(***************************************************************************)
(* What the events do to the entries of the result tree.                   *)
(***************************************************************************)
LEMMA EventTypes ==
  ASSUME NEW r \in [Test -> Status], NEW id
  PROVE  /\ TestStarted(r, id) \in [Test -> Status]
         /\ TestFailed(r, id) \in [Test -> Status]
         /\ TestHasEnded(r, id) \in [Test -> Status]
BY DEF TestStarted, TestFailed, TestHasEnded, InsertTest, ReportTestFailure, TestEnded,
       ReportTestEnded, Status

LEMMA StartedAt ==
  ASSUME NEW r \in [Test -> Status], NEW t, NEW u \in Test
  PROVE  TestStarted(r, Prefixed(t))[u] =
           IF u = t /\ t \in Known /\ r[u] = "absent" THEN "notExecuted" ELSE r[u]
BY NativeAssumption DEF TestStarted, Prefixed, IsKnownTest, InsertTest

LEMMA FailedAt ==
  ASSUME NEW r \in [Test -> Status], NEW t, NEW u \in Test
  PROVE  TestFailed(r, Prefixed(t))[u] = IF u = t /\ t \in Known THEN "fail" ELSE r[u]
BY NativeAssumption DEF TestFailed, Prefixed, IsKnownTest, ReportTestFailure

LEMMA EndedAt ==
  ASSUME NEW r \in [Test -> Status], NEW t, NEW u \in Test
  PROVE  TestHasEnded(r, Prefixed(t))[u] =
           IF u = t /\ t \in Known THEN (IF r[u] = "fail" THEN "fail" ELSE "pass") ELSE r[u]
BY NativeAssumption
DEF TestHasEnded, Prefixed, IsKnownTest, TestEnded, ReportTestEnded

(* Events under a name without the prefix do not pass the filter. *)
LEMMA BareUnknown ==
  ASSUME NEW r, NEW t
  PROVE  TestHasEnded(TestFailed(r, Bare(t)), Bare(t)) = r
BY DEF TestHasEnded, TestFailed, IsKnownTest, Bare

(* The end of a test changes the entry of the test in progress only. *)
LEMMA DoTestEndedAt ==
  ASSUME TypeOK, NEW t, NEW testPassed \in BOOLEAN, DoTestEnded(t, testPassed)
  PROVE  \A u \in Test :
           \/ results'[u] = results[u]
           \/ /\ mTestInProgress /\ u = mCurrentTestResult /\ u \in Known
              /\ \/ results'[u] = "fail"
                 \/ results'[u] = "pass" /\ t = u /\ testPassed
<1> SUFFICES ASSUME NEW u \in Test, mTestInProgress
             PROVE  \/ results'[u] = results[u]
                    \/ /\ u = mCurrentTestResult /\ u \in Known
                       /\ \/ results'[u] = "fail"
                          \/ results'[u] = "pass" /\ t = u /\ testPassed
  BY DEF DoTestEnded
<1> DEFINE id == Prefixed(mCurrentTestResult)
           failed == TestFailed(results, id)
<1>1. failed \in [Test -> Status] /\ results \in [Test -> Status]
  BY EventTypes DEF TypeOK
<1>2. CASE mCurrentTestResult # t \/ ~testPassed
  <2>1. results' = TestHasEnded(failed, id)
    BY <1>2 DEF DoTestEnded
  <2>2. failed[u] = IF u = mCurrentTestResult /\ u \in Known THEN "fail" ELSE results[u]
    BY <1>1, FailedAt
  <2>3. QED
    BY <1>1, <2>1, <2>2, EndedAt
<1>3. CASE mCurrentTestResult = t /\ testPassed
  <2>1. results' = TestHasEnded(results, id)
    BY <1>3 DEF DoTestEnded
  <2>2. QED
    BY <1>1, <1>3, <2>1, EndedAt
<1>4. QED
  BY <1>2, <1>3

(***************************************************************************)
(* What a line does, whatever its kind.                                    *)
(***************************************************************************)
Kind == {"running", "ran", "run", "ok", "failed", "text"}

LEMMA ParseType ==
  ASSUME TypeOK, NEW kind \in Kind, NEW t \in Test \cup {None, Unknown},
         Parse(kind, t)
  PROVE  /\ mCurrentTestResult' \in Test \cup {None, Unknown}
         /\ mTestInProgress' \in BOOLEAN /\ mTestRunInProgress' \in BOOLEAN
         /\ mTestRunStartReported' \in BOOLEAN
         /\ mNumTestsRun' \in Nat /\ mNumTestsExpected' \in Nat
         /\ results' \in [Test -> Status]
         /\ runOpen' \in BOOLEAN /\ runFailed' \in BOOLEAN
<1> USE DEF TypeOK
<1>1. CASE kind = "running"
  <2>1. Cardinality(Test) \in Nat
    BY NativeAssumption, FS_CardinalityType
  <2>2. ProcessRunStartedTag
    BY <1>1 DEF Parse
  <2>3. /\ mNumTestsExpected' = Cardinality(Test)
        /\ mNumTestsRun' = mNumTestsRun \/ mNumTestsRun' = 0
    BY <2>2, Zenon DEF ProcessRunStartedTag
  <2>4. /\ UNCHANGED <<mCurrentTestResult, mTestInProgress, results, runFailed>>
        /\ runOpen' \in BOOLEAN /\ mTestRunInProgress' \in BOOLEAN
        /\ mTestRunStartReported' \in BOOLEAN
    BY <2>2, Zenon DEF ProcessRunStartedTag
  <2>5. mNumTestsRun' \in Nat /\ mNumTestsExpected' \in Nat
    BY <2>1, <2>3
  <2>6. QED
    BY <2>4, <2>5
<1>2. CASE kind = "ran"
  <2>1. ProcessRunCompletedTag
    BY <1>2 DEF Parse
  <2>2. QED
    BY <2>1 DEF ProcessRunCompletedTag
<1>3. CASE kind = "run"
  BY <1>3, EventTypes DEF Parse, ProcessTestStartedTag, parserVars, listenerVars
<1>4. ASSUME NEW testPassed \in BOOLEAN, DoTestEnded(t, testPassed)
      PROVE  /\ mCurrentTestResult' = None /\ mTestInProgress' \in BOOLEAN
             /\ mNumTestsRun' \in Nat /\ results' \in [Test -> Status]
             /\ UNCHANGED <<mTestRunInProgress, mTestRunStartReported, mNumTestsExpected,
                            runOpen, runFailed>>
  <2>unchanged. /\ mCurrentTestResult' = None
                /\ UNCHANGED <<mTestRunInProgress, mTestRunStartReported, mNumTestsExpected,
                               runOpen, runFailed>>
    BY <1>4, Zenon DEF DoTestEnded
  <2>1. CASE mTestInProgress
    <3> DEFINE id == Prefixed(mCurrentTestResult)
    <3>1. results' = TestHasEnded(results, id) \/ results' = TestHasEnded(TestFailed(results, id), id)
      BY <1>4, <2>1 DEF DoTestEnded
    <3>2. TestFailed(results, id) \in [Test -> Status]
      BY EventTypes
    <3>3. results' \in [Test -> Status]
      BY <3>1, <3>2, EventTypes
    <3>4. mNumTestsRun' = mNumTestsRun + 1 /\ mTestInProgress' = FALSE
      BY <1>4, <2>1 DEF DoTestEnded
    <3>5. mNumTestsRun' \in Nat
      BY <3>4
    <3>6. QED
      BY <2>unchanged, <3>3, <3>4, <3>5, Zenon
  <2>2. CASE ~mTestInProgress
    BY <1>4, <2>2 DEF DoTestEnded
  <2>3. QED
    BY <2>1, <2>2
<1>5. CASE kind = "ok" \/ kind = "failed"
  <2>1. \/ DoTestEnded(t, TRUE) \/ DoTestEnded(t, FALSE)
        \/ UNCHANGED <<parserVars, listenerVars>>
    BY <1>5 DEF Parse
  <2>2. QED
    BY <1>4, <2>1 DEF parserVars, listenerVars
<1>6. CASE kind = "text"
  BY <1>6 DEF Parse, parserVars, listenerVars
<1>7. QED
  BY <1>1, <1>2, <1>3, <1>5, <1>6 DEF Kind

(* The parts of the parser's invariant that a line keeps. *)
LEMMA ParseProgress ==
  ASSUME TypeOK, InProgress, ~finished, NEW kind \in Kind, NEW t \in Test \cup {None, Unknown},
         kind \in {"run", "ok", "failed"} => t # None,
         Parse(kind, t)
  PROVE  /\ mTestInProgress' => mCurrentTestResult' # None
         /\ mCurrentTestResult' \in Known => results'[mCurrentTestResult'] # "absent"
         /\ mCurrentTestResult' = Unknown => mCurrentTestResult = Unknown \/ (kind = "run" /\ t = Unknown)
         /\ mTestRunInProgress' \/ mTestRunStartReported' => runOpen'
         /\ \A u \in Known : results'[u] # results[u] =>
              /\ runOpen
              /\ results'[u] # "notExecuted" => results[u] # "absent"
              /\ results'[u] = "pass" => kind = "ok" /\ u = t
<1> USE NativeAssumption DEF TypeOK, InProgress
<1>1. CASE kind = "running"
  <2>1. ProcessRunStartedTag
    BY <1>1 DEF Parse
  <2>2. UNCHANGED <<mCurrentTestResult, mTestInProgress, results>>
    BY <2>1, Zenon DEF ProcessRunStartedTag
  <2>3. \/ UNCHANGED <<mTestRunInProgress, mTestRunStartReported, runOpen>>
        \/ runOpen' = IF mTestRunStartReported THEN runOpen ELSE TRUE
    BY <2>1, Zenon DEF ProcessRunStartedTag
  <2>4. mTestRunInProgress' \/ mTestRunStartReported' => runOpen'
    BY <2>3
  <2>5. QED
    BY <2>2, <2>4
<1>2. CASE kind = "ran"
  <2>1. ProcessRunCompletedTag
    BY <1>2 DEF Parse
  <2>2. QED
    BY <2>1 DEF ProcessRunCompletedTag
<1>3. CASE kind = "run"
  <2>1. CASE mTestRunInProgress
    <3>1. /\ mCurrentTestResult' = t /\ mTestInProgress'
          /\ UNCHANGED <<mTestRunInProgress, mTestRunStartReported, runOpen>>
          /\ results' = TestStarted(results, Prefixed(t))
      BY <1>3, <2>1 DEF Parse, ProcessTestStartedTag
    <3>2. \A u \in Test : results'[u] =
            IF u = t /\ t \in Known /\ results[u] = "absent" THEN "notExecuted" ELSE results[u]
      BY <3>1, StartedAt
    <3>3. QED
      BY <1>3, <2>1, <3>1, <3>2
  <2>2. CASE ~mTestRunInProgress
    BY <1>3, <2>2 DEF Parse, parserVars, listenerVars
  <2>3. QED
    BY <2>1, <2>2
<1>4. CASE kind = "ok" \/ kind = "failed"
  <2>1. CASE mTestRunInProgress
    <3>1. PICK passed \in BOOLEAN : DoTestEnded(t, passed) /\ (passed => kind = "ok")
      BY <1>4, <2>1 DEF Parse
    <3>2. /\ mCurrentTestResult' = None /\ ~mTestInProgress'
          /\ UNCHANGED <<mTestRunInProgress, mTestRunStartReported, runOpen>>
      BY <3>1, Zenon DEF DoTestEnded
    <3>3. \A u \in Test :
            \/ results'[u] = results[u]
            \/ /\ mTestInProgress /\ u = mCurrentTestResult /\ u \in Known
               /\ \/ results'[u] = "fail"
                  \/ results'[u] = "pass" /\ t = u /\ passed
      BY <3>1, DoTestEndedAt
    <3>4. ASSUME NEW u \in Known, results'[u] # results[u]
          PROVE  /\ runOpen
                 /\ results'[u] # "notExecuted" => results[u] # "absent"
                 /\ results'[u] = "pass" => kind = "ok" /\ u = t
      <4>1. u = mCurrentTestResult /\ results[u] # "absent"
        BY <3>3, <3>4
      <4>2. results'[u] = "pass" => kind = "ok" /\ u = t
        BY <3>1, <3>3, <3>4
      <4>3. QED
        BY <2>1, <4>1, <4>2
    <3>5. QED
      BY <3>2, <3>4
  <2>2. CASE ~mTestRunInProgress
    <3>1. UNCHANGED <<parserVars, listenerVars>>
      BY <1>4, <2>2 DEF Parse
    <3>2. QED
      BY <3>1 DEF parserVars, listenerVars
  <2>3. QED
    BY <2>1, <2>2
<1>5. CASE kind = "text"
  BY <1>5 DEF Parse, parserVars, listenerVars
<1>6. QED
  BY <1>1, <1>2, <1>3, <1>4, <1>5 DEF Kind

(***************************************************************************)
(* A line that is delivered to the parser in a step of the binary or of    *)
(* the instrumentation, and what the step does to the binary.              *)
(***************************************************************************)
\* What the step that prints a line does to the tests of the binary.
Tells(kind, t) ==
  /\ \A u \in Test : verdict[u] # "none" => verdict'[u] # "none"
  /\ executing # None => executing' = executing \/ verdict'[executing] # "none"
  /\ kind = "run" /\ t # Unknown => t \in Test /\ verdict[t] = "none" /\ executing' = t
  /\ kind \in {"ok", "failed"} /\ executing # None =>
       verdict'[executing] # "none" \/ process' = "gone"

Delivered(kind, t) ==
  /\ ~finished /\ UNCHANGED finished
  /\ Tells(kind, t)
  /\ kind \in {"run", "ok", "failed"} => t # None
  /\ kind = "run" /\ t = Unknown => process' = "gone"
  /\ process # "gone"
  /\ kind = "ok" /\ t \in Known => verdict'[t] = "ok"
  /\ \A u \in Known : verdict[u] = "ok" => verdict'[u] = "ok"
  /\ Parse(kind, t)

(* The parser does nothing. *)
Quiet ==
  /\ UNCHANGED <<parserVars, finished, listenerVars, verdict, executing>>
  /\ process' = process \/ (process' \in {"gone", "exited"} /\ process # "gone")

LEMMA MarkerDelivers ==
  ASSUME IInv, NEW kind \in Kind, NEW t \in Test \cup {None, Unknown},
         process \in {"boot", "running", "summary"},
         kind \in {"run", "ok", "failed"} => t # None,
         kind = "run" => t # Unknown,
         kind = "ok" /\ t \in Known => verdict'[t] = "ok",
         \A u \in Known : verdict[u] = "ok" => verdict'[u] = "ok",
         Tells(kind, t), Marker(kind, t)
  PROVE  Delivered(kind, t) \/ Delivered("text", t)
<1>1. Tells("text", t)
  BY DEF Tells
<1>2. QED
  BY <1>1 DEF IInv, InProgress, Marker, StatusLine, Delivered

(***************************************************************************)
(* Every step delivers a line, leaves the parser alone, or is the last.    *)
(***************************************************************************)
LEMMA StepDelivers ==
  ASSUME IInv, Binary \/ NextLine \/ StatusCode \/ NextRead
  PROVE  \/ Quiet
         \/ \E kind \in Kind, t \in Test \cup {None, Unknown} : Delivered(kind, t)
<1> USE NativeAssumption DEF Kind
<1>0. /\ executing \in Test \cup {None} /\ verdict \in [Test -> {"none", "ok", "failed"}]
      /\ Executing
  BY DEF IInv, TypeOK
<1>a. ASSUME NEW kind \in {"running", "ran", "text"}, NEW t, UNCHANGED <<executing, verdict>>
      PROVE  Tells(kind, t)
  BY <1>0, <1>a DEF Tells
<1>1. CASE Begin
  <2>1. Marker("running", None) /\ process = "boot" /\ UNCHANGED <<executing, verdict>>
    BY <1>1 DEF Begin
  <2>2. QED
    BY <1>a, <2>1, MarkerDelivers
<1>2. CASE End
  <2>1. Marker("ran", None) /\ process = "running" /\ UNCHANGED <<executing, verdict>>
    BY <1>2 DEF End
  <2>2. QED
    BY <1>a, <2>1, MarkerDelivers
<1>3. CASE FailedTests
  <2>1. PICK t \in Test \cup {Unknown} : Marker("failed", t)
    BY <1>3 DEF FailedTests
  <2>2. process = "summary" /\ UNCHANGED verdict
    BY <1>3 DEF FailedTests
  <2>3. Tells("failed", t)
    BY <1>0, <2>2 DEF Tells, Executing
  <2>4. QED
    BY <2>1, <2>2, <2>3, MarkerDelivers
<1>4. CASE Exit \/ Die
  BY <1>4 DEF Exit, Die, Quiet
<1>5. ASSUME NEW t \in Test, RunTest(t)
      PROVE  Delivered("run", t) \/ Delivered("text", t)
  <2>1. /\ Marker("run", t) /\ process = "running" /\ executing = None /\ executing' = t
        /\ verdict[t] = "none" /\ UNCHANGED verdict
    BY <1>5 DEF RunTest
  <2>2. Tells("run", t)
    BY <2>1 DEF Tells
  <2>3. QED
    BY <2>1, <2>2, MarkerDelivers
<1>6. ASSUME NEW outcome \in {"ok", "failed"}, EndTest(outcome)
      PROVE  Delivered(outcome, executing) \/ Delivered("text", executing)
  <2>1. /\ process = "running" /\ executing \in Test
        /\ verdict[executing] = "none" /\ verdict \in [Test -> {"none", "ok", "failed"}]
        /\ verdict' = [verdict EXCEPT ![executing] = outcome]
        /\ Marker(outcome, executing)
    BY <1>6 DEF EndTest, IInv, TypeOK, Executing
  <2>2. \A u \in Known : verdict[u] = "ok" => verdict'[u] = "ok"
    BY <2>1
  <2>3. outcome = "ok" => verdict'[executing] = "ok"
    BY <2>1
  <2>4. Tells(outcome, executing)
    BY <2>1 DEF Tells
  <2>5. QED
    BY <2>1, <2>2, <2>3, <2>4, MarkerDelivers
<1>7. ASSUME NEW place, Output(place)
      PROVE  Delivered("text", None)
  <2>1. Tells("text", None)
    BY <1>a, <1>7 DEF Output
  <2>2. QED
    BY <1>7, <2>1 DEF Output, StatusLine, Delivered, IInv, InProgress
<1>8. ASSUME NEW kind \in {"run", "ok", "failed"}, CutOff(kind)
      PROVE  Delivered(kind, Unknown)
  <2>1. Tells(kind, Unknown)
    BY <1>8 DEF CutOff, Tells
  <2>2. QED
    BY <1>8, <2>1 DEF CutOff, StatusLine, Delivered, IInv, InProgress
<1>9. CASE NextLine
  <2>1. Tells("text", None)
    BY <1>a, <1>9 DEF NextLine, processVars
  <2>2. Delivered("text", None)
    BY <1>9, <2>1 DEF NextLine, processVars, Delivered, IInv, InProgress
  <2>3. QED
    BY <2>2
<1>10. CASE StatusCode \/ NextRead
  BY <1>10 DEF StatusCode, NextRead, processVars, Quiet
<1>11. executing \in Test \cup {None, Unknown}
  BY DEF IInv, TypeOK
<1>12. QED
  BY <1>1, <1>2, <1>3, <1>4, <1>5, <1>6, <1>7, <1>8, <1>9, <1>10, <1>11 DEF Binary

(***************************************************************************)
(* Delivered lines, quiet steps and the end of the output keep the parts   *)
(* of the invariant that are about the parser.                             *)
(***************************************************************************)
LEMMA DeliveredKeeps ==
  ASSUME IInv, NEW kind \in Kind, NEW t \in Test \cup {None, Unknown}, Delivered(kind, t),
         mCurrentTestResult' = Unknown => process' = "gone"
  PROVE  InProgress' /\ PassEarned'
<1>1. InProgress'
  BY ParseProgress DEF IInv, InProgress, Delivered
<1>2. PassEarned'
  BY ParseProgress DEF IInv, PassEarned, Delivered
<1>3. QED
  BY <1>1, <1>2

LEMMA QuietKeeps ==
  ASSUME IInv, Quiet
  PROVE  InProgress' /\ PassEarned'
BY DEF Quiet, parserVars, listenerVars, IInv, InProgress, PassEarned

LEMMA DoneKeepsResults ==
  ASSUME Done
  PROVE  UNCHANGED results
BY BareUnknown DEF Done, HandleTestRunFailed, listenerVars

LEMMA DoneKeeps ==
  ASSUME IInv, Done
  PROVE  InProgress' /\ PassEarned'
<1>1. /\ finished' /\ process \in {"exited", "gone"}
      /\ UNCHANGED <<process, verdict, results>>
      /\ mCurrentTestResult' \in {None, mCurrentTestResult}
  BY DoneKeepsResults DEF Done, HandleTestRunFailed, processVars, listenerVars
<1>2. QED
  BY <1>1, NativeAssumption DEF IInv, InProgress, PassEarned

(***************************************************************************)
(* The rest of the type invariant and the test that is executed.           *)
(***************************************************************************)
DeviceType ==
  /\ wrapped \in BOOLEAN
  /\ process \in {"boot", "running", "summary", "exited", "gone"}
  /\ executing \in Test \cup {None}
  /\ verdict \in [Test -> {"none", "ok", "failed"}]
  /\ column \in {"start", "mid"} /\ disturbed \in BOOLEAN
  /\ inMessage \in BOOLEAN /\ readMultiLine \in BOOLEAN /\ dropped \in BOOLEAN
  /\ finished \in BOOLEAN

ParserType ==
  /\ mCurrentTestResult \in Test \cup {None, Unknown}
  /\ mTestInProgress \in BOOLEAN /\ mTestRunInProgress \in BOOLEAN
  /\ mTestRunStartReported \in BOOLEAN
  /\ mNumTestsRun \in Nat /\ mNumTestsExpected \in Nat
  /\ results \in [Test -> Status]
  /\ runOpen \in BOOLEAN /\ runFailed \in BOOLEAN

LEMMA TypeParts == TypeOK <=> DeviceType /\ ParserType
BY DEF TypeOK, DeviceType, ParserType

LEMMA StatusLineType ==
  ASSUME DeviceType, NEW kind, NEW t, StatusLine(kind, t)
  PROVE  /\ wrapped' \in BOOLEAN
         /\ inMessage' \in BOOLEAN /\ readMultiLine' \in BOOLEAN /\ dropped' \in BOOLEAN
BY Zenon DEF StatusLine, DeviceType

LEMMA MarkerType ==
  ASSUME DeviceType, NEW kind, NEW t, Marker(kind, t)
  PROVE  /\ column' \in {"start", "mid"} /\ disturbed' \in BOOLEAN
         /\ wrapped' \in BOOLEAN
         /\ inMessage' \in BOOLEAN /\ readMultiLine' \in BOOLEAN /\ dropped' \in BOOLEAN
         /\ finished' \in BOOLEAN
<1>1. StatusLine(IF column = "start" THEN kind ELSE "text", t)
  BY Zenon DEF Marker
<1>2. /\ wrapped' \in BOOLEAN
      /\ inMessage' \in BOOLEAN /\ readMultiLine' \in BOOLEAN /\ dropped' \in BOOLEAN
  BY <1>1, StatusLineType
<1>3. column' = "start" /\ disturbed' = (disturbed \/ column # "start") /\ finished' = finished
  BY Zenon DEF Marker
<1>4. QED
  BY <1>2, <1>3 DEF DeviceType

LEMMA DeviceStep ==
  ASSUME IInv, Binary \/ NextLine \/ StatusCode \/ NextRead
  PROVE  DeviceType' /\ Executing'
<1>1. DeviceType /\ Executing
  BY TypeParts DEF IInv
<1>2. CASE Begin
  <2>1. /\ process' = "running" /\ UNCHANGED <<executing, verdict>>
        /\ Marker("running", None)
    BY <1>2 DEF Begin
  <2>2. QED
    BY <1>1, <2>1, MarkerType DEF DeviceType, Executing
<1>3. CASE End
  <2>1. /\ process' = "summary" /\ executing = None /\ UNCHANGED <<executing, verdict>>
        /\ Marker("ran", None)
    BY <1>3 DEF End
  <2>2. QED
    BY <1>1, <2>1, MarkerType DEF DeviceType, Executing
<1>4. CASE FailedTests
  <2>1. UNCHANGED <<process, executing, verdict>> /\ \E t : Marker("failed", t)
    BY <1>4 DEF FailedTests
  <2>2. QED
    BY <1>1, <2>1, MarkerType DEF DeviceType, Executing
<1>5. CASE Exit \/ Die
  BY <1>1, <1>5 DEF Exit, Die, wrapVars, DeviceType, Executing
<1>6. ASSUME NEW t \in Test, RunTest(t)
      PROVE  DeviceType' /\ Executing'
  <2>1. /\ UNCHANGED <<process, verdict>> /\ executing' = t /\ verdict[t] = "none"
        /\ process = "running" /\ Marker("run", t)
    BY <1>6 DEF RunTest
  <2>2. QED
    BY <1>1, <2>1, MarkerType DEF DeviceType, Executing
<1>7. ASSUME NEW outcome \in {"ok", "failed"}, EndTest(outcome)
      PROVE  DeviceType' /\ Executing'
  <2>1. /\ UNCHANGED process /\ executing' = None
        /\ verdict' = [verdict EXCEPT ![executing] = outcome]
        /\ Marker(outcome, executing)
    BY <1>7 DEF EndTest
  <2>2. verdict' \in [Test -> {"none", "ok", "failed"}]
    BY <1>1, <2>1 DEF DeviceType
  <2>3. QED
    BY <1>1, <2>1, <2>2, MarkerType DEF DeviceType, Executing
<1>8. ASSUME NEW place \in {"start", "mid"}, Output(place)
      PROVE  DeviceType' /\ Executing'
  <2>1. /\ UNCHANGED <<process, executing, verdict, disturbed, finished>> /\ column' = place
        /\ StatusLine("text", None)
    BY <1>8 DEF Output
  <2>2. QED
    BY <1>1, <2>1, StatusLineType DEF DeviceType, Executing
<1>9. ASSUME NEW kind, CutOff(kind)
      PROVE  DeviceType' /\ Executing'
  <2>1. /\ process' = "gone" /\ UNCHANGED <<executing, verdict, column, finished>>
        /\ disturbed' = TRUE /\ StatusLine(kind, Unknown)
    BY <1>9, Zenon DEF CutOff
  <2>2. QED
    BY <1>1, <2>1, StatusLineType DEF DeviceType, Executing
<1>10. CASE NextLine
  <2>1. UNCHANGED <<processVars, wrapped, inMessage, readMultiLine, finished>> /\ dropped' \in BOOLEAN
    BY <1>1, <1>10, Zenon DEF NextLine, DeviceType
  <2>2. QED
    BY <1>1, <2>1 DEF processVars, DeviceType, Executing
<1>11. CASE StatusCode
  BY <1>1, <1>11 DEF StatusCode, processVars, DeviceType, Executing
<1>12. CASE NextRead
  BY <1>1, <1>12 DEF NextRead, processVars, DeviceType, Executing
<1>13. QED
  BY <1>2, <1>3, <1>4, <1>5, <1>6, <1>7, <1>8, <1>9, <1>10, <1>11, <1>12 DEF Binary

(***************************************************************************)
(* The invariant holds at the start and every step keeps it.               *)
(***************************************************************************)
LEMMA IInvInit == Init => IInv
<1> SUFFICES ASSUME Init
             PROVE  IInv
  OBVIOUS
<1> USE NativeAssumption DEF Init
<1>1. TypeOK
  <2>1. results \in [Test -> Status] /\ verdict \in [Test -> {"none", "ok", "failed"}]
    BY DEF Status
  <2>2. mNumTestsRun \in Nat /\ mNumTestsExpected \in Nat
    OBVIOUS
  <2>3. QED
    BY <2>1, <2>2 DEF TypeOK
<1>2. InProgress
  BY DEF InProgress
<1>3. Executing /\ PassEarned
  BY DEF Executing, PassEarned
<1>4. QED
  BY <1>1, <1>2, <1>3 DEF IInv

LEMMA DoneType ==
  ASSUME IInv, Done
  PROVE  TypeOK' /\ Executing'
<1>1. /\ UNCHANGED <<processVars, wrapVars, mTestInProgress, mTestRunInProgress,
                     mTestRunStartReported, mNumTestsRun, mNumTestsExpected, results>>
      /\ finished' = TRUE
      /\ mCurrentTestResult' \in {None, mCurrentTestResult}
  BY DoneKeepsResults DEF Done, HandleTestRunFailed
<1>2. runOpen' \in {FALSE, runOpen} /\ runFailed' \in {TRUE, runFailed}
  BY DEF Done, HandleTestRunFailed, listenerVars
<1>3. DeviceType' /\ Executing'
  BY <1>1, TypeParts, Zenon DEF processVars, wrapVars, IInv, DeviceType, Executing
<1>4. mCurrentTestResult' \in Test \cup {None, Unknown} /\ runOpen' \in BOOLEAN /\ runFailed' \in BOOLEAN
  BY <1>1, <1>2 DEF IInv, TypeOK
<1>5. ParserType'
  BY <1>1, <1>4, TypeParts, Zenon DEF IInv, ParserType
<1>6. TypeOK'
  BY <1>3, <1>5 DEF TypeOK, DeviceType, ParserType
<1>7. QED
  BY <1>3, <1>6

LEMMA IInvStep == IInv /\ [Next]_vars => IInv'
<1> SUFFICES ASSUME IInv, [Next]_vars
             PROVE  IInv'
  OBVIOUS
<1>1. CASE Done
  BY <1>1, DoneType, DoneKeeps DEF IInv
<1>2. CASE Binary \/ NextLine \/ StatusCode \/ NextRead
  <2>1. DeviceType' /\ Executing'
    BY <1>2, DeviceStep
  <2>2. CASE Quiet
    <3>1. ParserType'
      BY <2>2, TypeParts DEF IInv, Quiet, parserVars, listenerVars, ParserType
    <3>2. QED
      BY <2>1, <2>2, <3>1, TypeParts, QuietKeeps DEF IInv, TypeOK, DeviceType, ParserType
  <2>3. ASSUME NEW kind \in Kind, NEW t \in Test \cup {None, Unknown}, Delivered(kind, t)
        PROVE  IInv'
    <3>1. TypeOK /\ InProgress /\ Parse(kind, t) /\ ~finished
      BY <2>3 DEF IInv, Delivered
    <3>2. ParserType'
      BY <3>1, ParseType DEF ParserType
    <3>3. mCurrentTestResult' = Unknown => process' = "gone"
      <4>1. mCurrentTestResult' = Unknown =>
              mCurrentTestResult = Unknown \/ (kind = "run" /\ t = Unknown)
        BY <2>3, <3>1, ParseProgress DEF Delivered
      <4>2. QED
        BY <2>3, <3>1, <4>1 DEF Delivered, InProgress
    <3>4. InProgress' /\ PassEarned'
      BY <2>3, <3>3, DeliveredKeeps
    <3>5. QED
      BY <2>1, <3>2, <3>4 DEF IInv, TypeOK, DeviceType, ParserType
  <2>4. QED
    BY <1>2, <2>2, <2>3, StepDelivers
<1>3. CASE UNCHANGED vars
  BY <1>3 DEF vars, processVars, wrapVars, parserVars, listenerVars, IInv, TypeOK,
       InProgress, Executing, PassEarned
<1>4. QED
  BY <1>1, <1>2, <1>3 DEF Next

THEOREM NativeInvariant == Spec => []IInv
BY IInvInit, IInvStep, PTL DEF Spec

(***************************************************************************)
(* The variables of binary, parsers and result tree keep their types.      *)
(***************************************************************************)
THEOREM NativeTypeCorrect == Spec => []TypeOK
<1>1. IInv => TypeOK
  BY DEF IInv
<1>2. QED
  BY NativeInvariant, <1>1, PTL

(***************************************************************************)
(* No interleaving of output, lost markers, crashes and cut-off lines      *)
(* makes GeeTestResultParser report a pass that the binary did not print.  *)
(***************************************************************************)
THEOREM PassesEarned == Spec => []PassEarned
<1>1. IInv => PassEarned
  BY DEF IInv
<1>2. QED
  BY NativeInvariant, <1>1, PTL

(***************************************************************************)
(* The parser keeps the contract CtsSession relies on: events for known    *)
(* tests within a run, verdicts for started tests.                         *)
(***************************************************************************)
THEOREM ContractKept == Spec => KeepsContract
<1> DEFINE Kept == \A t \in Known : results'[t] # results[t] =>
                     /\ runOpen
                     /\ results'[t] # "notExecuted" => results[t] # "absent"
<1>1. ASSUME IInv, Next
      PROVE  Kept
  <2>1. CASE Done
    BY <2>1, DoneKeepsResults
  <2>2. CASE Binary \/ NextLine \/ StatusCode \/ NextRead
    <3>1. CASE Quiet
      BY <3>1 DEF Quiet, listenerVars
    <3>2. ASSUME NEW kind \in Kind, NEW t \in Test \cup {None, Unknown}, Delivered(kind, t)
          PROVE  Kept
      BY <1>1, <3>2, ParseProgress DEF Delivered, IInv
    <3>3. QED
      BY <1>1, <2>2, <3>1, <3>2, StepDelivers
  <2>3. QED
    BY <1>1, <2>1, <2>2 DEF Next
<1>2. ASSUME IInv, [Next]_vars
      PROVE  [Kept]_vars
  BY <1>1, <1>2
<1>3. QED
  BY NativeInvariant, <1>2, PTL DEF Spec, KeepsContract

(***************************************************************************)
(* Lost tests.  done() compares two numbers only, so the invariant has to  *)
(* say which tests were counted: a set C of as many tests as were counted, *)
(* each of them at its end in the binary (so that it is not started again) *)
(* and with a result in the report.                                        *)
(***************************************************************************)
CountedAre(C) ==
  /\ mNumTestsRun = Cardinality(C)
  /\ \A t \in C : /\ verdict[t] # "none" \/ process = "gone"
                  /\ t \in Known => results[t] \in {"pass", "fail"}
  /\ mTestInProgress => mCurrentTestResult \notin C

Counted ==
  /\ \E C \in SUBSET Test : CountedAre(C)
  /\ mNumTestsExpected \in {0, Cardinality(Test)}
  /\ mTestInProgress /\ process # "gone" /\ ~finished =>
       mCurrentTestResult = executing \/ verdict[mCurrentTestResult] # "none"

CountInv == IInv /\ Counted /\ AllOrFailed

LEMMA CountInit == Init => Counted /\ AllOrFailed
<1> SUFFICES ASSUME Init
             PROVE  Counted /\ AllOrFailed
  OBVIOUS
<1>1. Cardinality({}) = 0
  BY FS_EmptySet
<1>2. CountedAre({})
  BY <1>1 DEF Init, CountedAre
<1>3. {} \in SUBSET Test
  OBVIOUS
<1>4. mNumTestsExpected = 0 /\ ~mTestInProgress /\ ~finished
  BY DEF Init
<1>5. QED
  BY <1>2, <1>3, <1>4 DEF Counted, AllOrFailed

(* The lines that neither start nor end a test. *)
LEMMA OtherLineCounts ==
  ASSUME IInv, Counted, NEW kind \in {"running", "ran", "text"},
         NEW t \in Test \cup {None, Unknown}, Delivered(kind, t)
  PROVE  \E C \in SUBSET Test : CountedAre(C)'
<1>1. PICK C \in SUBSET Test : CountedAre(C)
  BY DEF Counted
<1>2. /\ \A u \in Test : verdict[u] # "none" => verdict'[u] # "none"
      /\ process # "gone" /\ Parse(kind, t)
  BY DEF Delivered, Tells
<1>3. UNCHANGED <<mCurrentTestResult, mTestInProgress, results>>
  BY <1>2, Zenon DEF Parse, ProcessRunStartedTag, ProcessRunCompletedTag, parserVars, listenerVars
<1>4. mNumTestsRun' = mNumTestsRun \/ mNumTestsRun' = 0
  BY <1>2, Zenon DEF Parse, ProcessRunStartedTag, ProcessRunCompletedTag, parserVars, listenerVars
<1>5. CASE mNumTestsRun' = mNumTestsRun
  <2>1. CountedAre(C)'
    BY <1>1, <1>2, <1>3, <1>5 DEF CountedAre
  <2>2. QED
    BY <2>1
<1>6. CASE mNumTestsRun' = 0
  <2>1. Cardinality({}) = 0
    BY FS_EmptySet
  <2>2. CountedAre({})'
    BY <1>6, <2>1 DEF CountedAre
  <2>3. {} \in SUBSET Test
    OBVIOUS
  <2>4. QED
    BY <2>2, <2>3
<1>7. QED
  BY <1>4, <1>5, <1>6

(* The test in progress is one of the binary's, as long as lines come. *)
LEMMA CurrentIsTest ==
  ASSUME IInv, Counted, mTestInProgress, ~finished, process # "gone"
  PROVE  /\ mCurrentTestResult \in Test
         /\ mCurrentTestResult = executing \/ verdict[mCurrentTestResult] # "none"
BY DEF IInv, TypeOK, InProgress, Counted

LEMMA StartCounts ==
  ASSUME IInv, Counted, NEW t \in Test \cup {Unknown}, Delivered("run", t)
  PROVE  \E C \in SUBSET Test : CountedAre(C)'
<1>1. PICK C \in SUBSET Test : CountedAre(C)
  BY DEF Counted
<1>2. /\ \A u \in Test : verdict[u] # "none" => verdict'[u] # "none"
      /\ process # "gone" /\ Parse("run", t)
      /\ t # Unknown => verdict[t] = "none"
  BY DEF Delivered, Tells
<1>3. t \notin C
  BY <1>1, <1>2, NativeAssumption DEF CountedAre
<1>4. CASE mTestRunInProgress
  <2>1. /\ mCurrentTestResult' = t /\ mNumTestsRun' = mNumTestsRun
        /\ results' = TestStarted(results, Prefixed(t))
    BY <1>2, <1>4 DEF Parse, ProcessTestStartedTag
  <2>2. \A u \in C : results'[u] = results[u]
    BY <1>3, <2>1, StartedAt DEF IInv, TypeOK
  <2>3. CountedAre(C)'
    BY <1>1, <1>2, <1>3, <2>1, <2>2 DEF CountedAre
  <2>4. QED
    BY <2>3
<1>5. CASE ~mTestRunInProgress
  <2>1. UNCHANGED <<parserVars, listenerVars>>
    BY <1>2, <1>5 DEF Parse
  <2>2. CountedAre(C)'
    BY <1>1, <1>2, <2>1 DEF CountedAre, parserVars, listenerVars
  <2>3. QED
    BY <2>2
<1>6. QED
  BY <1>4, <1>5

LEMMA EndCounts ==
  ASSUME IInv, Counted, NEW kind \in {"ok", "failed"},
         NEW t \in Test \cup {Unknown}, Delivered(kind, t)
  PROVE  \E C \in SUBSET Test : CountedAre(C)'
<1>1. PICK C \in SUBSET Test : CountedAre(C)
  BY DEF Counted
<1>2. /\ \A u \in Test : verdict[u] # "none" => verdict'[u] # "none"
      /\ process # "gone" /\ ~finished /\ Parse(kind, t)
      /\ executing # None => verdict'[executing] # "none" \/ process' = "gone"
  BY DEF Delivered, Tells
<1>3. CASE UNCHANGED <<parserVars, listenerVars>>
  <2>1. CountedAre(C)'
    BY <1>1, <1>2, <1>3 DEF CountedAre, parserVars, listenerVars
  <2>2. QED
    BY <2>1
<1>4. ASSUME NEW testPassed \in BOOLEAN, DoTestEnded(t, testPassed)
      PROVE  \E D \in SUBSET Test : CountedAre(D)'
  <2>1. CASE ~mTestInProgress
    <3>1. UNCHANGED <<results, mTestInProgress, mNumTestsRun>>
      BY <1>4, <2>1, Zenon DEF DoTestEnded
    <3>2. CountedAre(C)'
      BY <1>1, <1>2, <2>1, <3>1 DEF CountedAre
    <3>3. QED
      BY <3>2
  <2>2. CASE mTestInProgress
    <3>0. PICK m \in Test : m = mCurrentTestResult
      BY <1>2, <2>2, CurrentIsTest
    <3> DEFINE id == Prefixed(m)
               failed == TestFailed(results, id)
               D == C \cup {m}
    <3>1. verdict'[m] # "none" \/ process' = "gone"
      BY <1>2, <2>2, <3>0, CurrentIsTest, NativeAssumption
    <3>2. m \notin C /\ mNumTestsRun = Cardinality(C)
      BY <1>1, <2>2, <3>0 DEF CountedAre
    <3>3. IsFiniteSet(C)
      BY NativeAssumption, FS_Subset
    <3>4. Cardinality(D) = Cardinality(C) + 1
      BY <3>2, <3>3, FS_AddElement
    <3>5. mNumTestsRun' = mNumTestsRun + 1 /\ mTestInProgress' = FALSE
      BY <1>4, <2>2, Zenon DEF DoTestEnded
    <3>6. mNumTestsRun' = Cardinality(D)
      BY <3>2, <3>4, <3>5
    <3>7. results \in [Test -> Status] /\ failed \in [Test -> Status]
      BY EventTypes DEF IInv, TypeOK
    <3>8. results' = TestHasEnded(results, id) \/ results' = TestHasEnded(failed, id)
      BY <1>4, <2>2, <3>0 DEF DoTestEnded
    <3>9. \A u \in Test : u # m => results'[u] = results[u]
      BY <3>7, <3>8, EndedAt, FailedAt
    <3>10. m \in Known => results'[m] \in {"pass", "fail"}
      BY <3>1, <3>7, <3>8, EndedAt
    <3>11. CountedAre(D)'
      <4>1. \A u \in C : /\ verdict[u] # "none" \/ process = "gone"
                         /\ u \in Known => results[u] \in {"pass", "fail"}
        BY <1>1 DEF CountedAre
      <4>2. \A u \in D : verdict'[u] # "none" \/ process' = "gone"
        BY <1>2, <3>1, <4>1
      <4>3. \A u \in D : u \in Known => results'[u] \in {"pass", "fail"}
        BY <3>2, <3>9, <3>10, <4>1
      <4>4. QED
        BY <3>5, <3>6, <4>2, <4>3, Zenon DEF CountedAre
    <3>12. D \in SUBSET Test
      BY <3>1
    <3>13. QED
      BY <3>11, <3>12
  <2>3. QED
    BY <2>1, <2>2
<1>5. QED
  BY <1>2, <1>3, <1>4 DEF Parse

LEMMA CountDelivered ==
  ASSUME IInv, Counted, NEW kind \in Kind, NEW t \in Test \cup {None, Unknown}, Delivered(kind, t)
  PROVE  Counted' /\ AllOrFailed'
<1>1. /\ ~finished /\ ~finished' /\ process # "gone" /\ Tells(kind, t) /\ Parse(kind, t)
      /\ kind \in {"run", "ok", "failed"} => t # None
      /\ kind = "run" /\ t = Unknown => process' = "gone"
  BY DEF Delivered
<1>2. \E C \in SUBSET Test : CountedAre(C)'
  BY <1>1, OtherLineCounts, StartCounts, EndCounts DEF Kind
<1>3. mNumTestsExpected' \in {0, Cardinality(Test)}
  <2>1. mNumTestsExpected \in {0, Cardinality(Test)}
    BY DEF Counted
  <2>2. mNumTestsExpected' \in {mNumTestsExpected, Cardinality(Test)}
    BY <1>1, Zenon DEF Parse, ProcessRunStartedTag, ProcessRunCompletedTag, ProcessTestStartedTag,
         DoTestEnded, parserVars
  <2>3. QED
    BY <2>1, <2>2
<1>4. \/ mTestInProgress' = mTestInProgress /\ mCurrentTestResult' = mCurrentTestResult
      \/ ~mTestInProgress'
      \/ kind = "run" /\ mCurrentTestResult' = t
  BY <1>1, Zenon DEF Parse, ProcessRunStartedTag, ProcessRunCompletedTag, ProcessTestStartedTag,
       DoTestEnded, parserVars
<1>5. ASSUME mTestInProgress', process' # "gone"
      PROVE  mCurrentTestResult' = executing' \/ verdict'[mCurrentTestResult'] # "none"
  <2>1. CASE mTestInProgress' = mTestInProgress /\ mCurrentTestResult' = mCurrentTestResult
    <3>1. /\ mCurrentTestResult \in Test
          /\ mCurrentTestResult = executing \/ verdict[mCurrentTestResult] # "none"
      BY <1>1, <1>5, <2>1, CurrentIsTest
    <3>2. QED
      BY <1>1, <2>1, <3>1, NativeAssumption DEF Tells
  <2>2. CASE kind = "run" /\ mCurrentTestResult' = t
    BY <1>1, <1>5, <2>2 DEF Tells
  <2>3. QED
    BY <1>4, <1>5, <2>1, <2>2
<1>6. Counted'
  BY <1>2, <1>3, <1>5 DEF Counted
<1>7. QED
  BY <1>1, <1>6 DEF AllOrFailed

LEMMA CountQuiet ==
  ASSUME IInv, Counted, AllOrFailed, Quiet
  PROVE  Counted' /\ AllOrFailed'
<1>1. PICK C \in SUBSET Test : CountedAre(C)
  BY DEF Counted
<1>2. UNCHANGED <<parserVars, finished, listenerVars, verdict, executing>>
  BY DEF Quiet
<1>3. process = "gone" => process' = "gone"
  BY DEF Quiet
<1>4. CountedAre(C)'
  BY <1>1, <1>2, <1>3 DEF CountedAre, parserVars, listenerVars
<1>5. Counted'
  BY <1>2, <1>3, <1>4 DEF Counted, parserVars
<1>6. AllOrFailed'
  BY <1>2 DEF AllOrFailed, parserVars, listenerVars
<1>7. QED
  BY <1>5, <1>6

(* The end: if no more tests were expected than counted, all were counted. *)
LEMMA CountDone ==
  ASSUME IInv, Counted, Done
  PROVE  Counted' /\ AllOrFailed'
<1>1. PICK C \in SUBSET Test : CountedAre(C)
  BY DEF Counted
<1>2. /\ UNCHANGED <<processVars, mTestInProgress, mNumTestsRun, mNumTestsExpected, results>>
      /\ finished' /\ mCurrentTestResult' \in {None, mCurrentTestResult}
  BY DoneKeepsResults DEF Done, HandleTestRunFailed, listenerVars
<1>3. CountedAre(C)'
  BY <1>1, <1>2, NativeAssumption DEF CountedAre, processVars
<1>4. Counted'
  BY <1>2, <1>3 DEF Counted
<1>5. ASSUME mNumTestsExpected > 0, ~runFailed'
      PROVE  \A t \in Known : results'[t] \in {"pass", "fail"}
  <2>1. ~(mNumTestsExpected > mNumTestsRun)
    BY <1>5 DEF Done, HandleTestRunFailed
  <2>2. mNumTestsExpected \in {0, Cardinality(Test)} /\ mNumTestsRun = Cardinality(C)
    BY <1>1 DEF Counted, CountedAre
  <2>3. mNumTestsRun \in Nat /\ Cardinality(Test) \in Nat
    BY NativeAssumption, FS_CardinalityType DEF IInv, TypeOK
  <2>4. Cardinality(Test) <= Cardinality(C)
    BY <1>5, <2>1, <2>2, <2>3
  <2>5. C = Test
    <3>1. /\ Cardinality(C) <= Cardinality(Test)
          /\ Cardinality(Test) = Cardinality(C) => Test = C
      BY NativeAssumption, FS_Subset
    <3>2. Cardinality(C) \in Nat
      BY <2>2, <2>3
    <3>3. QED
      BY <2>3, <2>4, <3>1, <3>2
  <2>6. \A t \in C : t \in Known => results[t] \in {"pass", "fail"}
    BY <1>1 DEF CountedAre
  <2>7. QED
    BY <1>2, <2>5, <2>6, NativeAssumption
<1>6. AllOrFailed'
  BY <1>2, <1>5 DEF AllOrFailed
<1>7. QED
  BY <1>4, <1>6

LEMMA CountStep == CountInv /\ [Next]_vars => CountInv'
<1> SUFFICES ASSUME IInv, Counted, AllOrFailed, [Next]_vars
             PROVE  Counted' /\ AllOrFailed'
  BY IInvStep DEF CountInv
<1>1. CASE Done
  BY <1>1, CountDone
<1>2. CASE Binary \/ NextLine \/ StatusCode \/ NextRead
  BY <1>2, StepDelivers, CountQuiet, CountDelivered
<1>3. CASE UNCHANGED vars
  <2>1. Quiet
    BY <1>3 DEF vars, processVars, Quiet
  <2>2. QED
    BY <2>1, CountQuiet
<1>4. QED
  BY <1>1, <1>2, <1>3 DEF Next

(***************************************************************************)
(* A test of the binary that the parser lost does not go unnoticed: once   *)
(* done() was called and the run's start was seen, every known test has a  *)
(* verdict in the report or the run is reported as failed.                 *)
(***************************************************************************)
THEOREM LostTestsFailTheRun == Spec => []AllOrFailed
<1>1. Init => CountInv
  BY IInvInit, CountInit DEF CountInv
<1>2. Spec => []CountInv
  BY <1>1, CountStep, PTL DEF Spec
<1>3. CountInv => AllOrFailed
  BY DEF CountInv
<1>4. QED
  BY <1>2, <1>3, PTL

(***************************************************************************)
(* The undisturbed run.  As long as every marker started a line, parser    *)
(* and binary go in step: the parser collects the test that is executed,   *)
(* it counted the tests that have ended, and the report has their          *)
(* verdicts.  When the binary has said that its tests ran, no run is in    *)
(* progress, so that the list of failed tests that follows is not read.    *)
(***************************************************************************)
Ended == { t \in Test : verdict[t] # "none" }

\* Before "Running n tests": nothing has been seen.
Untouched ==
  /\ mNumTestsRun = 0 /\ executing = None /\ mCurrentTestResult = None
  /\ \A t \in Test : verdict[t] = "none"
  /\ ~mTestInProgress /\ ~mTestRunInProgress /\ ~mTestRunStartReported /\ ~runOpen

InStep ==
  /\ mNumTestsExpected = Cardinality(Test) /\ mNumTestsRun = Cardinality(Ended)
  /\ mCurrentTestResult = executing /\ (mTestInProgress <=> executing # None)

Over ==
  /\ ~mTestRunInProgress /\ ~runOpen /\ executing = None
  /\ \A t \in Test : verdict[t] # "none"

Reported ==
  \A t \in Known :
    /\ verdict[t] = "ok" => results[t] = "pass"
    /\ verdict[t] = "failed" => results[t] = "fail"
    /\ verdict[t] = "none" =>
         results[t] = IF executing = t THEN "notExecuted" ELSE "absent"

Agreed ==
  /\ process \in {"boot", "running", "summary", "exited"} /\ ~runFailed
  /\ process = "boot" => Untouched
  /\ process # "boot" => InStep
  /\ process = "running" => (mTestRunInProgress <=> Test # {})
  /\ process \in {"summary", "exited"} => Over
  /\ Reported

AgreedInv == IInv /\ (~disturbed => Agreed)

\* Nothing that Agreed speaks of changes, but the process may.
Silent ==
  UNCHANGED <<executing, verdict, parserVars, listenerVars>>

LEMMA SilentKeeps ==
  ASSUME Agreed, Silent
  PROVE  /\ Untouched => Untouched'
         /\ InStep => InStep'
         /\ Over => Over'
         /\ Reported'
         /\ process' = process => Agreed'
<1>1. /\ Untouched => Untouched'
      /\ InStep => InStep'
      /\ Over => Over'
  BY DEF Silent, parserVars, listenerVars, Untouched, InStep, Over, Ended
<1>2. Reported'
  BY DEF Agreed, Silent, listenerVars, Reported
<1>3. runFailed' = runFailed /\ mTestRunInProgress' = mTestRunInProgress
  BY DEF Silent, parserVars, listenerVars
<1>4. process' = process => Agreed'
  BY <1>1, <1>2, <1>3 DEF Agreed
<1>5. QED
  BY <1>1, <1>2, <1>4

(* A marker that starts a line is read as what it is. *)
LEMMA MarkerIsRead ==
  ASSUME IInv, NEW kind, NEW t, Marker(kind, t), ~disturbed'
  PROVE  ~disturbed /\ Parse(kind, t)
<1>1. column = "start" /\ ~disturbed
  BY DEF Marker, IInv, TypeOK
<1>2. StatusLine(kind, t)
  BY <1>1 DEF Marker
<1>3. QED
  BY <1>1, <1>2 DEF StatusLine

LEMMA AgreedInit == Init => Agreed
<1> SUFFICES ASSUME Init
             PROVE  Agreed
  OBVIOUS
<1>1. Untouched
  BY DEF Init, Untouched
<1>2. Reported
  BY NativeAssumption DEF Init, Reported
<1>3. process = "boot" /\ ~runFailed
  BY DEF Init
<1>4. QED
  BY <1>1, <1>2, <1>3 DEF Agreed

LEMMA BeginAgrees ==
  ASSUME IInv, Agreed, Begin, ~disturbed'
  PROVE  Agreed'
<1>1. /\ process = "boot" /\ process' = "running" /\ UNCHANGED <<executing, verdict>>
      /\ ProcessRunStartedTag
  <2>1. Marker("running", None)
    BY DEF Begin
  <2>2. Parse("running", None)
    BY <2>1, MarkerIsRead
  <2>3. QED
    BY <2>2 DEF Begin, Parse
<1>2. Untouched /\ Reported /\ ~runFailed
  BY <1>1 DEF Agreed
<1>3. mNumTestsExpected' = Cardinality(Test) /\ UNCHANGED <<mCurrentTestResult, mTestInProgress, results, runFailed>>
  BY <1>1, Zenon DEF ProcessRunStartedTag
<1>4. mNumTestsRun' = 0
  BY <1>1, <1>2 DEF ProcessRunStartedTag, Untouched
<1>5. mTestRunInProgress' <=> Test # {}
  BY <1>1, <1>2 DEF ProcessRunStartedTag, Untouched
<1>6. mNumTestsRun' = Cardinality(Ended')
  <2>1. Ended' = {}
    BY <1>1, <1>2 DEF Ended, Untouched
  <2>2. Cardinality({}) = 0
    BY FS_EmptySet
  <2>3. QED
    BY <1>4, <2>1, <2>2
<1>7. InStep'
  BY <1>1, <1>2, <1>3, <1>6 DEF InStep, Untouched
<1>8. Reported'
  BY <1>1, <1>2, <1>3 DEF Reported
<1>9. QED
  BY <1>1, <1>2, <1>3, <1>5, <1>7, <1>8 DEF Agreed

LEMMA RunTestAgrees ==
  ASSUME IInv, Agreed, NEW t \in Test, RunTest(t), ~disturbed'
  PROVE  Agreed'
<1>1. /\ process = "running" /\ process' = process /\ executing = None /\ executing' = t
      /\ verdict[t] = "none" /\ verdict' = verdict
      /\ Marker("run", t)
  BY DEF RunTest
<1>2. InStep /\ Reported /\ ~runFailed /\ mTestRunInProgress
  BY <1>1 DEF Agreed
<1>3. ProcessTestStartedTag(t)
  <2>1. Parse("run", t)
    BY <1>1, MarkerIsRead
  <2>2. QED
    BY <1>2, <2>1 DEF Parse
<1>4. /\ mCurrentTestResult' = t /\ mTestInProgress'
      /\ results' = TestStarted(results, Prefixed(t))
      /\ UNCHANGED <<mTestRunInProgress, mNumTestsRun, mNumTestsExpected, runFailed>>
  BY <1>3 DEF ProcessTestStartedTag
<1>5. \A u \in Test : results'[u] =
        IF u = t /\ t \in Known /\ results[u] = "absent" THEN "notExecuted" ELSE results[u]
  BY <1>4, StartedAt DEF IInv, TypeOK
<1>6. Reported'
  BY <1>1, <1>2, <1>5, NativeAssumption DEF Reported
<1>7. InStep'
  <2>1. Ended' = Ended
    BY <1>1 DEF Ended
  <2>2. QED
    BY <1>1, <1>2, <1>4, <2>1, NativeAssumption DEF InStep
<1>8. QED
  BY <1>1, <1>2, <1>4, <1>6, <1>7 DEF Agreed

LEMMA EndTestAgrees ==
  ASSUME IInv, Agreed, NEW outcome \in {"ok", "failed"}, EndTest(outcome), ~disturbed'
  PROVE  Agreed'
<1>0. verdict \in [Test -> {"none", "ok", "failed"}] /\ results \in [Test -> Status]
  BY DEF IInv, TypeOK
<1>1. PICK e \in Test : e = executing
  BY DEF EndTest, IInv, TypeOK
<1>2. /\ process = "running" /\ process' = process /\ executing' = None
      /\ verdict' = [verdict EXCEPT ![e] = outcome] /\ verdict[e] = "none"
      /\ Marker(outcome, e) /\ e # None
  BY <1>1, NativeAssumption DEF EndTest, IInv, Executing
<1>3. InStep /\ Reported /\ ~runFailed /\ (mTestRunInProgress <=> Test # {})
  BY <1>2 DEF Agreed
<1>4. mTestInProgress /\ mCurrentTestResult = e
  BY <1>1, <1>2, <1>3 DEF InStep
<1>5. PICK passed \in BOOLEAN : DoTestEnded(e, passed) /\ (passed <=> outcome = "ok")
  <2>1. Parse(outcome, e)
    BY <1>2, MarkerIsRead
  <2>2. QED
    BY <1>3, <2>1 DEF Parse
<1>6. /\ mCurrentTestResult' = None /\ mTestInProgress' = FALSE
      /\ mNumTestsRun' = mNumTestsRun + 1
      /\ UNCHANGED <<mTestRunInProgress, mNumTestsExpected, runFailed>>
      /\ results' = TestHasEnded(IF passed THEN results ELSE TestFailed(results, Prefixed(e)), Prefixed(e))
  <2>1. /\ mCurrentTestResult' = None /\ mTestInProgress' = FALSE
        /\ mNumTestsRun' = mNumTestsRun + 1
        /\ UNCHANGED <<mTestRunInProgress, mNumTestsExpected, runFailed>>
    BY <1>4, <1>5, Zenon DEF DoTestEnded
  <2>2. results' = TestHasEnded(IF passed THEN results ELSE TestFailed(results, Prefixed(e)), Prefixed(e))
    BY <1>4, <1>5 DEF DoTestEnded
  <2>3. QED
    BY <2>1, <2>2
<1>7. Reported'
  <2>1. TestFailed(results, Prefixed(e)) \in [Test -> Status]
    BY <1>0, EventTypes
  <2>2. \A u \in Test : u # e => results'[u] = results[u]
    BY <1>0, <1>6, <2>1, EndedAt, FailedAt
  <2>3. e \in Known => results[e] = "notExecuted"
    BY <1>1, <1>2, <1>3 DEF Reported
  <2>4. e \in Known => results'[e] = IF passed THEN "pass" ELSE "fail"
    <3>1. CASE passed
      BY <1>0, <1>6, <2>3, <3>1, EndedAt
    <3>2. CASE ~passed
      BY <1>0, <1>6, <2>1, <3>2, EndedAt, FailedAt
    <3>3. QED
      BY <3>1, <3>2
  <2>5. ASSUME NEW u \in Known
        PROVE  /\ verdict'[u] = "ok" => results'[u] = "pass"
               /\ verdict'[u] = "failed" => results'[u] = "fail"
               /\ verdict'[u] = "none" => results'[u] = IF executing' = u THEN "notExecuted" ELSE "absent"
    <3>1. u \in Test
      BY NativeAssumption
    <3>2. CASE u = e
      BY <1>0, <1>2, <1>5, <2>4, <3>2
    <3>3. CASE u # e
      <4>1. verdict'[u] = verdict[u] /\ results'[u] = results[u]
        BY <1>0, <1>2, <2>2, <3>1, <3>3
      <4>2. executing # u /\ executing' # u
        BY <1>1, <1>2, <3>1, <3>3, NativeAssumption
      <4>3. QED
        BY <1>3, <4>1, <4>2 DEF Reported
    <3>4. QED
      BY <3>2, <3>3
  <2>6. QED
    BY <2>5, Zenon DEF Reported
<1>8. InStep'
  <2>1. IsFiniteSet(Ended) /\ e \notin Ended
    <3>1. Ended \in SUBSET Test /\ e \notin Ended
      BY <1>2 DEF Ended
    <3>2. QED
      BY <3>1, NativeAssumption, FS_Subset
  <2>2. Cardinality(Ended \cup {e}) = Cardinality(Ended) + 1
    BY <2>1, FS_AddElement
  <2>3. Ended' = Ended \cup {e}
    <3>1. \A u \in Test : verdict'[u] = IF u = e THEN outcome ELSE verdict[u]
      BY <1>0, <1>2
    <3>2. QED
      BY <3>1 DEF Ended
  <2>4. mNumTestsRun' = Cardinality(Ended')
    BY <1>3, <1>6, <2>2, <2>3 DEF InStep
  <2>5. QED
    BY <1>2, <1>3, <1>6, <2>4 DEF InStep
<1>9. QED
  BY <1>2, <1>3, <1>6, <1>7, <1>8 DEF Agreed

LEMMA EndAgrees ==
  ASSUME IInv, Agreed, End, ~disturbed'
  PROVE  Agreed'
<1>1. /\ process = "running" /\ process' = "summary" /\ executing = None
      /\ \A t \in Test : verdict[t] # "none"
      /\ UNCHANGED <<executing, verdict>> /\ Marker("ran", None)
  BY DEF End
<1>2. ProcessRunCompletedTag
  <2>1. Parse("ran", None)
    BY <1>1, MarkerIsRead
  <2>2. QED
    BY <2>1 DEF Parse
<1>3. /\ runOpen' = FALSE /\ mTestRunInProgress' = FALSE
      /\ UNCHANGED <<mCurrentTestResult, mTestInProgress, mNumTestsRun, mNumTestsExpected,
                     results, runFailed>>
  BY <1>2 DEF ProcessRunCompletedTag
<1>4. Over'
  BY <1>1, <1>3 DEF Over
<1>5. InStep' /\ Reported' /\ ~runFailed'
  BY <1>1, <1>3 DEF Agreed, InStep, Ended, Reported
<1>6. QED
  BY <1>1, <1>4, <1>5 DEF Agreed

(* Every other step of an undisturbed run leaves parser and report alone. *)
LEMMA OtherStepsAreSilent ==
  ASSUME IInv, Agreed, ~disturbed',
         \/ FailedTests \/ Exit \/ Die
         \/ \E place \in {"start", "mid"} : Output(place)
         \/ \E kind \in {"run", "ok", "failed"} : CutOff(kind)
         \/ NextLine \/ StatusCode \/ NextRead \/ Done
  PROVE  Silent /\ (process' = process \/ (process = "summary" /\ process' = "exited"))
<1>1. CASE FailedTests
  <2>1. process = "summary" /\ UNCHANGED <<process, executing, verdict>>
    BY <1>1 DEF FailedTests
  <2>2. PICK t : Marker("failed", t)
    BY <1>1 DEF FailedTests
  <2>3. Parse("failed", t)
    BY <2>2, MarkerIsRead
  <2>4. ~mTestRunInProgress
    BY <2>1 DEF Agreed, Over
  <2>5. UNCHANGED <<parserVars, listenerVars>>
    BY <2>3, <2>4 DEF Parse
  <2>6. QED
    BY <2>1, <2>5 DEF Silent
<1>2. CASE Exit
  BY <1>2 DEF Exit, Silent
<1>3. CASE Die \/ \E kind \in {"run", "ok", "failed"} : CutOff(kind)
  BY <1>3 DEF Die, CutOff
<1>4. CASE \E place \in {"start", "mid"} : Output(place)
  <2>1. StatusLine("text", None) /\ UNCHANGED <<process, executing, verdict>>
    BY <1>4 DEF Output
  <2>2. UNCHANGED <<parserVars, listenerVars>>
    BY <2>1 DEF StatusLine, Parse
  <2>3. QED
    BY <2>1, <2>2 DEF Silent
<1>5. CASE NextLine
  BY <1>5 DEF NextLine, Parse, processVars, Silent
<1>6. CASE StatusCode \/ NextRead
  BY <1>6 DEF StatusCode, NextRead, processVars, Silent
<1>7. CASE Done
  <2>1. process = "exited" /\ UNCHANGED processVars
    BY <1>7 DEF Done, Agreed
  <2>2. InStep /\ Over
    BY <2>1 DEF Agreed
  <2>3. Ended = Test
    BY <2>2 DEF Over, Ended
  <2>4. mNumTestsExpected = mNumTestsRun
    BY <2>2, <2>3 DEF InStep
  <2>5. mNumTestsRun \in Nat
    BY DEF IInv, TypeOK
  <2>6. ~(mNumTestsExpected > mNumTestsRun) /\ ~mTestRunInProgress
    BY <2>2, <2>4, <2>5 DEF Over
  <2>7. UNCHANGED <<listenerVars, mCurrentTestResult, mTestInProgress, mTestRunInProgress,
                    mTestRunStartReported, mNumTestsRun, mNumTestsExpected>>
    BY <1>7, <2>6 DEF Done
  <2>8. QED
    BY <2>1, <2>7 DEF processVars, parserVars, Silent
<1>8. QED
  BY <1>1, <1>2, <1>3, <1>4, <1>5, <1>6, <1>7

LEMMA AgreedStep == AgreedInv /\ [Next]_vars => AgreedInv'
<1> SUFFICES ASSUME IInv, ~disturbed => Agreed, [Next]_vars, ~disturbed'
             PROVE  Agreed'
  BY IInvStep DEF AgreedInv
<1>1. ~disturbed /\ Agreed
  <2>1. ~disturbed
    BY DEF Next, Binary, Begin, RunTest, EndTest, End, FailedTests, Exit, Die, CutOff, Output,
         Marker, NextLine, StatusCode, NextRead, Done, processVars, vars, IInv, TypeOK
  <2>2. QED
    BY <2>1
<1>2. CASE Begin \/ End
  BY <1>1, <1>2, BeginAgrees, EndAgrees
<1>3. CASE \E t \in Test : RunTest(t)
  BY <1>1, <1>3, RunTestAgrees
<1>4. CASE \E outcome \in {"ok", "failed"} : EndTest(outcome)
  BY <1>1, <1>4, EndTestAgrees
<1>5. ASSUME Silent, process' = process \/ (process = "summary" /\ process' = "exited")
      PROVE  Agreed'
  <2>1. CASE process' = process
    BY <1>1, <1>5, <2>1, SilentKeeps
  <2>2. CASE process = "summary" /\ process' = "exited"
    <3>1. InStep /\ Over /\ ~runFailed
      BY <1>1, <2>2 DEF Agreed
    <3>2. InStep' /\ Over' /\ Reported' /\ ~runFailed'
      BY <1>1, <1>5, <3>1, SilentKeeps DEF Silent, listenerVars
    <3>3. QED
      BY <2>2, <3>2 DEF Agreed
  <2>3. QED
    BY <1>5, <2>1, <2>2
<1>6. CASE UNCHANGED vars
  <2>1. Silent /\ process' = process
    BY <1>6 DEF vars, processVars, Silent
  <2>2. QED
    BY <1>5, <2>1
<1>7. QED
  BY <1>1, <1>2, <1>3, <1>4, <1>5, <1>6, OtherStepsAreSilent DEF Next, Binary

(***************************************************************************)
(* If every marker started a line and the binary came to its end, the      *)
(* report of done() is what the binary found out about every known test,   *)
(* and no run is left open or reported as failed.                          *)
(***************************************************************************)
THEOREM ReportIsFaithful == Spec => []Faithful
<1>1. Init => AgreedInv
  BY IInvInit, AgreedInit DEF AgreedInv
<1>2. Spec => []AgreedInv
  BY <1>1, AgreedStep, PTL DEF Spec
<1>3. AgreedInv => Faithful
  <2> SUFFICES ASSUME IInv, Agreed, finished
               PROVE  /\ ~runFailed /\ ~runOpen
                      /\ \A t \in Known : results[t] = IF verdict[t] = "ok" THEN "pass" ELSE "fail"
    BY DEF AgreedInv, Faithful
  <2>1. process = "exited"
    BY DEF IInv, InProgress, Agreed
  <2>2. Over /\ Reported /\ ~runFailed
    BY <2>1 DEF Agreed
  <2>3. \A t \in Known : verdict[t] \in {"ok", "failed"}
    BY <2>2, NativeAssumption DEF Over, IInv, TypeOK
  <2>4. QED
    BY <2>2, <2>3 DEF Over, Reported
<1>4. QED
  BY <1>2, <1>3, PTL
===============================================================================
