------------------------------ MODULE NativeTests ------------------------------
(***************************************************************************)
(* The package test of a native package: a gtest binary on the device      *)
(* prints its progress, adb delivers the output line by line, and          *)
(* GeeTestResultParser turns it into test events for filter and reporter.  *)
(* A binary wrapped in an instrumentation has its lines sent as status     *)
(* messages that WrappedGTestResultParser takes apart first.               *)
(*                                                                         *)
(* The binary is external.  It runs its tests in any order, may die or be  *)
(* cut off at any place, and its tests print what they like, so that a     *)
(* marker need not start a line: the parser does not see such a marker.    *)
(* Test output that looks like a marker is left out.                       *)
(***************************************************************************)
EXTENDS TestReport, FiniteSets

CONSTANTS
  Test,           \* tests of the binary
  Known,          \* those the package's XML lists
  None,           \* null
  Unknown         \* UNKNOWN_CLASS#UNKNOWN_TEST

ASSUME NativeAssumption ==
  /\ IsFiniteSet(Test) /\ Known \subseteq Test
  /\ None \notin Test /\ Unknown \notin Test /\ None # Unknown

VARIABLES
  wrapped,                \* the package is a WrappedGTest, not a GeeTest
  \* the binary and its connection
  process,                \* boot, running, summary, exited, or gone before that
  executing,              \* the test it executes
  verdict,                \* what it found out about each test
  column,                 \* is the output at the start of a line?
  disturbed,              \* history variable: a marker was lost, or the end
  inMessage,              \* a status message has begun and not ended
  \* WrappedGTestResultParser
  readMultiLine,          \* local of parseInstrumentation, new for each read
  dropped,                \* history variable: text was lost with a later read; Faithful holds still
  \* GeeTestResultParser
  mCurrentTestResult,     \* the test whose result is collected
  mTestInProgress, mTestRunInProgress, mTestRunStartReported,
  mNumTestsRun, mNumTestsExpected,
  finished,               \* done() was called
  \* what filter and reporter were told
  results,                \* the result tree of the package
  runOpen, runFailed      \* a run was started and not ended; one failed

processVars == <<process, executing, verdict, column, disturbed>>
wrapVars    == <<wrapped, inMessage, readMultiLine, dropped>>
parserVars  == <<mCurrentTestResult, mTestInProgress, mTestRunInProgress,
                 mTestRunStartReported, mNumTestsRun, mNumTestsExpected>>
listenerVars == <<results, runOpen, runFailed>>
vars == <<processVars, wrapVars, parserVars, finished, listenerVars>>

Init ==
  /\ wrapped \in BOOLEAN
  /\ process = "boot" /\ executing = None /\ verdict = [t \in Test |-> "none"]
  /\ column = "start" /\ disturbed = FALSE
  /\ inMessage = FALSE /\ readMultiLine = FALSE /\ dropped = FALSE
  /\ mCurrentTestResult = None /\ mTestInProgress = FALSE
  /\ mTestRunInProgress = FALSE /\ mTestRunStartReported = FALSE
  /\ mNumTestsRun = 0 /\ mNumTestsExpected = 0
  /\ finished = FALSE
  /\ results = [t \in Test |-> "absent"]
  /\ runOpen = FALSE /\ runFailed = FALSE

-------------------------------------------------------------------------------
(* Events: an identifier is a test with or without mFakePackagePrefix *)

Prefixed(t) == <<"prefix", t>>
Bare(t)     == <<"", t>>

\* ResultFilter.isKnownTest
IsKnownTest(id) == id[1] = "prefix" /\ id[2] \in Known

TestStarted(r, id) == IF IsKnownTest(id) THEN InsertTest(r, id[2]) ELSE r
TestFailed(r, id)  == IF IsKnownTest(id) THEN ReportTestFailure(r, id[2]) ELSE r
TestHasEnded(r, id) == IF IsKnownTest(id) THEN TestEnded(r, id[2], "none") ELSE r

-------------------------------------------------------------------------------
(* GeeTestResultParser *)

\* "Running n tests": nothing happens when there are none.
ProcessRunStartedTag ==
  /\ mNumTestsExpected' = Cardinality(Test)
  /\ IF Test = {}
       THEN UNCHANGED <<mNumTestsRun, mTestRunInProgress, mTestRunStartReported, runOpen>>
       ELSE /\ mTestRunStartReported' = TRUE
            /\ runOpen' = IF mTestRunStartReported THEN runOpen ELSE TRUE
            /\ mNumTestsRun' = 0
            /\ mTestRunInProgress' = TRUE
  /\ UNCHANGED <<mCurrentTestResult, mTestInProgress, results, runFailed>>

\* Mutant: the run stays in progress.
ProcessRunCompletedTagOpen ==
  /\ runOpen' = FALSE /\ mTestRunStartReported' = FALSE
  /\ UNCHANGED <<mCurrentTestResult, mTestInProgress, mNumTestsRun, mNumTestsExpected,
                 mTestRunInProgress, results, runFailed>>

\* "n tests ran"
ProcessRunCompletedTag ==
  /\ runOpen' = FALSE /\ mTestRunStartReported' = FALSE
  /\ mTestRunInProgress' = FALSE
  /\ UNCHANGED <<mCurrentTestResult, mTestInProgress, mNumTestsRun, mNumTestsExpected,
                 results, runFailed>>

\* "[ RUN      ] t": a test still in progress is forgotten.
ProcessTestStartedTag(t) ==
  /\ mCurrentTestResult' = t
  /\ mTestInProgress' = TRUE
  /\ results' = TestStarted(results, Prefixed(t))
  /\ UNCHANGED <<mTestRunInProgress, mTestRunStartReported, mNumTestsRun, mNumTestsExpected,
                 runOpen, runFailed>>

\* Mutant: the test named in the line is the one that ended.
DoTestEndedByLine(t, testPassed) ==
  /\ mCurrentTestResult' = None
  /\ mTestInProgress' = FALSE
  /\ mNumTestsRun' = mNumTestsRun + 1
  /\ results' = LET id == Prefixed(t) IN
                TestHasEnded(IF testPassed THEN results ELSE TestFailed(results, id), id)
  /\ UNCHANGED <<mTestRunInProgress, mTestRunStartReported, mNumTestsExpected, runOpen, runFailed>>

\* Mutant: the name in the line is not compared.
DoTestEndedAnyName(t, testPassed) ==
  /\ mCurrentTestResult' = None
  /\ IF ~mTestInProgress
       THEN UNCHANGED <<results, mTestInProgress, mNumTestsRun>>
       ELSE LET id == Prefixed(mCurrentTestResult) IN
            /\ results' = TestHasEnded(IF testPassed THEN results ELSE TestFailed(results, id), id)
            /\ mTestInProgress' = FALSE
            /\ mNumTestsRun' = mNumTestsRun + 1
  /\ UNCHANGED <<mTestRunInProgress, mTestRunStartReported, mNumTestsExpected, runOpen, runFailed>>

\* "[       OK ] t" or "[  FAILED  ] t": ends the test in progress, if there is
\* one; when its name is another, the test in progress fails in any case.
\* Without a test in progress a TestIdentifier is built from null names first;
\* if its constructor refuses them the output is given up, which is Die.
DoTestEnded(t, testPassed) ==
  /\ mCurrentTestResult' = None
  /\ IF ~mTestInProgress
       THEN UNCHANGED <<results, mTestInProgress, mNumTestsRun>>
       ELSE LET id == Prefixed(mCurrentTestResult)
                failed == mCurrentTestResult # t \/ ~testPassed
            IN
            /\ results' = TestHasEnded(IF failed THEN TestFailed(results, id) ELSE results, id)
            /\ mTestInProgress' = FALSE
            /\ mNumTestsRun' = mNumTestsRun + 1
  /\ UNCHANGED <<mTestRunInProgress, mTestRunStartReported, mNumTestsExpected, runOpen, runFailed>>

\* parse: markers count inside a run, and the run's own markers always; other
\* text goes to the trace of the test in progress.
Parse(kind, t) ==
  \/ kind = "running" /\ ProcessRunStartedTag
  \/ kind = "ran" /\ ProcessRunCompletedTag
  \/ kind = "run" /\ mTestRunInProgress /\ ProcessTestStartedTag(t)
  \/ kind = "ok" /\ mTestRunInProgress /\ DoTestEnded(t, TRUE)
  \/ kind = "failed" /\ mTestRunInProgress /\ DoTestEnded(t, FALSE)
  \/ kind = "text" /\ UNCHANGED <<parserVars, listenerVars>>
  \/ kind \in {"run", "ok", "failed"} /\ ~mTestRunInProgress
     /\ UNCHANGED <<parserVars, listenerVars>>

\* handleTestRunFailed: the test in progress is failed and ended under a name
\* without mFakePackagePrefix.
HandleTestRunFailed ==
  /\ IF mCurrentTestResult # None
       THEN LET id == Bare(mCurrentTestResult) IN
            results' = TestHasEnded(TestFailed(results, id), id)
       ELSE UNCHANGED results
  /\ mCurrentTestResult' = None
  /\ runFailed' = TRUE /\ runOpen' = FALSE

\* Mutant: the tests are not counted.
DoneUncounted ==
  /\ process \in {"exited", "gone"} /\ ~finished
  /\ finished' = TRUE
  /\ IF mTestRunInProgress
       THEN HandleTestRunFailed
       ELSE UNCHANGED <<listenerVars, mCurrentTestResult>>
  /\ UNCHANGED <<processVars, wrapVars, mTestInProgress, mTestRunInProgress,
                 mTestRunStartReported, mNumTestsRun, mNumTestsExpected>>

\* done: the output is at its end, or flush was called when the device was lost.
Done ==
  /\ process \in {"exited", "gone"} /\ ~finished
  /\ finished' = TRUE
  /\ IF mNumTestsExpected > mNumTestsRun \/ mTestRunInProgress
       THEN HandleTestRunFailed
       ELSE UNCHANGED <<listenerVars, mCurrentTestResult>>
  /\ UNCHANGED <<processVars, wrapVars, mTestInProgress, mTestRunInProgress,
                 mTestRunStartReported, mNumTestsRun, mNumTestsExpected>>

-------------------------------------------------------------------------------
(* WrappedGTestResultParser: the lines of an instrumentation *)

\* "INSTRUMENTATION_STATUS: gtest=..." starts a message; without an
\* instrumentation the line is the binary's own.
StatusLine(kind, t) ==
  /\ Parse(kind, t)
  /\ inMessage' = wrapped /\ readMultiLine' = wrapped
  /\ UNCHANGED <<wrapped, dropped>>

\* The next line of a message: passed on if its first was in the same read.
NextLine ==
  /\ inMessage /\ process \in {"running", "summary"}
  /\ Parse("text", None)
  /\ dropped' = (dropped \/ ~readMultiLine)
  /\ UNCHANGED <<processVars, wrapped, inMessage, readMultiLine, finished>>

\* "INSTRUMENTATION_STATUS_CODE" and the like end a message.
StatusCode ==
  /\ inMessage /\ inMessage' = FALSE
  /\ readMultiLine' = FALSE
  /\ UNCHANGED <<processVars, wrapped, dropped, parserVars, finished, listenerVars>>

\* The next read of adb is another call of processNewLines.
NextRead ==
  /\ readMultiLine /\ readMultiLine' = FALSE
  /\ UNCHANGED <<processVars, wrapped, inMessage, dropped, parserVars, finished,
                 listenerVars>>

-------------------------------------------------------------------------------
(* The binary *)

\* A marker is printed; within a line that has begun it is text.
Marker(kind, t) ==
  /\ StatusLine(IF column = "start" THEN kind ELSE "text", t)
  /\ column' = "start"
  /\ disturbed' = (disturbed \/ column # "start")
  /\ UNCHANGED finished

Begin ==
  /\ process = "boot" /\ process' = "running"
  /\ Marker("running", None)
  /\ UNCHANGED <<executing, verdict>>

RunTest(t) ==
  /\ process = "running" /\ executing = None /\ verdict[t] = "none"
  /\ executing' = t
  /\ Marker("run", t)
  /\ UNCHANGED <<process, verdict>>

EndTest(outcome) ==
  /\ process = "running" /\ executing # None
  /\ verdict' = [verdict EXCEPT ![executing] = outcome]
  /\ executing' = None
  /\ Marker(outcome, executing)
  /\ UNCHANGED process

\* Output of the binary or of a child, a whole line or the beginning of one.
\* A status message is always a line of its own.
Output(place) ==
  /\ process \in {"boot", "running", "summary"} /\ column = "start"
  /\ wrapped => place = "start"
  /\ StatusLine("text", None)
  /\ column' = place
  /\ UNCHANGED <<process, executing, verdict, disturbed, finished>>

End ==
  /\ process = "running" /\ executing = None /\ \A t \in Test : verdict[t] # "none"
  /\ process' = "summary"
  /\ Marker("ran", None)
  /\ UNCHANGED <<executing, verdict>>

\* "[  FAILED  ] n tests, listed below:" and the list.
FailedTests ==
  /\ process = "summary" /\ \E t \in Test : verdict[t] = "failed"
  /\ \E t \in {u \in Test : verdict[u] = "failed"} \cup {Unknown} : Marker("failed", t)
  /\ UNCHANGED <<process, executing, verdict>>

Exit ==
  /\ process = "summary" /\ process' = "exited"
  /\ UNCHANGED <<executing, verdict, column, disturbed, wrapVars, parserVars, finished, listenerVars>>

\* The binary dies, or its output stops: a crash, a time-out, a lost device.
\* What an instrumentation says then (INSTRUMENTATION_RESULT) is not passed on.
Die ==
  /\ process \in {"boot", "running", "summary"} /\ process' = "gone"
  /\ disturbed' = TRUE
  /\ UNCHANGED <<executing, verdict, column, wrapVars, parserVars, finished,
                 listenerVars>>

\* The connection is lost within a marker: flush hands on the line as it is, and
\* its name is that of no test.
CutOff(kind) ==
  /\ process = "running" /\ process' = "gone" /\ column = "start"
  /\ (kind = "run") <=> (executing = None)
  /\ disturbed' = TRUE
  /\ StatusLine(kind, Unknown)
  /\ UNCHANGED <<executing, verdict, column, finished>>

Binary ==
  \/ Begin \/ End \/ FailedTests \/ Exit \/ Die
  \/ \E t \in Test : RunTest(t)
  \/ \E outcome \in {"ok", "failed"} : EndTest(outcome)
  \/ \E place \in {"start", "mid"} : Output(place)
  \/ \E kind \in {"run", "ok", "failed"} : CutOff(kind)

Next == Binary \/ NextLine \/ StatusCode \/ NextRead \/ Done

Spec == Init /\ [][Next]_vars

-------------------------------------------------------------------------------
(* Type invariant *)

TypeOK ==
  /\ wrapped \in BOOLEAN
  /\ process \in {"boot", "running", "summary", "exited", "gone"}
  /\ executing \in Test \cup {None}
  /\ verdict \in [Test -> {"none", "ok", "failed"}]
  /\ column \in {"start", "mid"} /\ disturbed \in BOOLEAN
  /\ inMessage \in BOOLEAN /\ readMultiLine \in BOOLEAN /\ dropped \in BOOLEAN
  /\ mCurrentTestResult \in Test \cup {None, Unknown}
  /\ mTestInProgress \in BOOLEAN /\ mTestRunInProgress \in BOOLEAN
  /\ mTestRunStartReported \in BOOLEAN
  /\ mNumTestsRun \in Nat /\ mNumTestsExpected \in Nat
  /\ finished \in BOOLEAN
  /\ results \in [Test -> Status]
  /\ runOpen \in BOOLEAN /\ runFailed \in BOOLEAN

-------------------------------------------------------------------------------
(* Safety *)

\* A test passes in the report only if the binary said so, whatever markers were
\* lost between its start and its end.
PassEarned == \A t \in Known : results[t] = "pass" => verdict[t] = "ok"

\* When the output ends and the run's start was seen, either every known test
\* has its verdict or the run is reported as failed: a test that the parser
\* lost does not go unnoticed.
AllOrFailed ==
  finished /\ mNumTestsExpected > 0 =>
    runFailed \/ \A t \in Known : results[t] \in {"pass", "fail"}

\* If every marker started a line and the binary came to its end, the report is
\* what the binary found out, no more (the list of failed tests at the end
\* reads like results) and no less, and no run is left open.  It holds even when
\* text of a message that is split over reads was dropped: verdicts are not lost.
Faithful ==
  finished /\ ~disturbed =>
    /\ ~runFailed /\ ~runOpen
    /\ \A t \in Known : results[t] = IF verdict[t] = "ok" THEN "pass" ELSE "fail"

\* What CtsSession takes for granted of a package test: events for known tests
\* are sent within a run, and a verdict only for a test that was started, for
\* which the reporter has a Test object.
KeepsContract ==
  [][\A t \in Known : results'[t] # results[t] =>
       /\ runOpen
       /\ results'[t] # "notExecuted" => results[t] # "absent"]_vars

\* What these rest on: the parser has a test in progress if and only if it
\* collects a result, the reporter has that test, and a run in progress is open
\* until the end of the output.
InProgress ==
  /\ mTestInProgress /\ ~finished => mCurrentTestResult # None
  /\ mCurrentTestResult \in Known => results[mCurrentTestResult] # "absent"
  /\ mCurrentTestResult = Unknown => process = "gone"
  /\ (mTestRunInProgress \/ mTestRunStartReported) /\ ~finished => runOpen
  /\ finished => process \in {"exited", "gone"}

\* A test has no verdict while it is executed, and none is after the last.
Executing ==
  /\ executing # None => verdict[executing] = "none"
  /\ process = "summary" => executing = None

IInv == TypeOK /\ InProgress /\ Executing /\ PassEarned

\* "Report that the last known test failed": a test that was in progress when
\* the binary died is a failure.
CrashIsFailure ==
  \A t \in Known : finished /\ executing = t /\ results[t] # "absent" => results[t] = "fail"
===============================================================================
