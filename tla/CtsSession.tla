------------------------------ MODULE CtsSession ------------------------------
(***************************************************************************)
(* One CTS session: the chain of invocations that build one report.        *)
(*                                                                         *)
(* The first invocation runs a plan; every later one continues the session *)
(* from its saved report.  In an invocation CtsTest.run walks the list of  *)
(* packages, each package's test (instrumentation, native, host jar) sends *)
(* its events through a ResultFilter to CtsXmlResultReporter, and the      *)
(* reporter writes testResult.xml when the invocation ends.  A device can  *)
(* disappear at every call made on it: run() then leaves through its       *)
(* finally block and, with --resume, run() is called again on the same     *)
(* CtsTest object, usually with another device.                            *)
(*                                                                         *)
(* The package tests are external here: they start tests within a test run *)
(* and may send any events for tests that were started, in any order, late *)
(* or twice, as parsers and timed-out threads do; and may stop anywhere.   *)
(***************************************************************************)
EXTENDS TestReport

CONSTANTS
  Package, Test,          \* package URIs and test identifiers (class#method)
  None,                   \* null
  PackageTests,           \* the tests each package's XML lists
  KnownFailures,          \* those listed with expectation="failure"
  Plans,                  \* what --plan, --package or --class may ask for:
                          \* functions from chosen packages to excluded tests
  PlanOrder, NameOrder,   \* position of a package in the plan and by name
  IncludeKnownFailures,   \* --run-known-failures
  Resume,                 \* --resume
  PerfTests               \* tests that deliver a performance result

ASSUME SessionAssumption ==
  /\ None \notin Package /\ None \notin Test
  /\ PackageTests \in [Package -> SUBSET Test]
  /\ KnownFailures \in [Package -> SUBSET Test]
  /\ \A plan \in Plans : DOMAIN plan \subseteq Package
  /\ PlanOrder \in [Package -> Nat] /\ NameOrder \in [Package -> Nat]
  /\ IncludeKnownFailures \in BOOLEAN /\ Resume \in BOOLEAN
  /\ PerfTests \subseteq Test

VARIABLES
  pc,                     \* where the invocation is, see Phase
  continuing,             \* mContinueSessionId is set
  mRemainingTestPkgs,     \* CtsTest: packages still to run
  expected,               \* TestPackage.mKnownTests of the packages chosen
  knownTests,             \* the local of run(): the package in progress
  mKnownTestsMap,         \* ResultFilter: tests it lets through, by run name
  mRemainingTestsMap,     \* ResultFilter: those it has not seen end
  mCurrentTestRun,        \* ResultFilter: name of the current test run
  mResults,               \* CtsXmlResultReporter: results by package
  mCurrentPkgResult,      \* CtsXmlResultReporter: package events go to
  mMap,                   \* CtsHostStore: tests with a stored result
  runOpen, begun,         \* package test: in a test run?  tests it started
  saved,                  \* testResult.xml
  history                 \* history variable: worst event sent for a test

reporterVars == <<mResults, mCurrentPkgResult>>
filterVars   == <<mKnownTestsMap, mRemainingTestsMap, mCurrentTestRun>>
runnerVars   == <<runOpen, begun>>
planVars     == <<continuing, expected>>
vars == <<pc, continuing, mRemainingTestPkgs, expected, knownTests, filterVars,
          reporterVars, mMap, runnerVars, saved, history>>

\* The try block of CtsTest.run.
InTry == {"prepare", "loop", "running", "between", "cleanup"}
Phase == {"idle", "started", "lost", "over"} \cup InTry
Built(phase) == phase \in InTry \cup {"lost", "over"}

NoTests   == [p \in Package |-> {}]
NoResults == [p \in Package |-> [t \in Test |-> "absent"]]
NoHistory == [p \in Package |-> [t \in Test |-> "none"]]

-------------------------------------------------------------------------------
(* What to run *)

\* TestPackageRepo and TestPackageXmlParser: known failures are left out of a
\* package unless the repository was built to include them.
Repo(p, includeKnownFailures) ==
  IF includeKnownFailures THEN PackageTests[p] ELSE PackageTests[p] \ KnownFailures[p]

\* Mutant: the derived plan excludes nothing.
DerivedPlanWhole(results) ==
  [p \in {q \in Package : GetTestsWithStatus(results[q], "notExecuted") # {}} |-> {}]

\* PlanCreator.createDerivedPlan for NOT_EXECUTED: the packages of a report
\* that have such tests, all their other tests excluded.  CtsTest creates the
\* PlanCreator itself, so its own mIncludeKnownFailures keeps its default.
DerivedPlan(results) ==
  [p \in {q \in Package : GetTestsWithStatus(results[q], "notExecuted") # {}} |->
     Repo(p, FALSE) \ GetTestsWithStatus(results[p], "notExecuted")]

\* buildTestsToRun: what createTest leaves of each chosen package.
TestsToRun(plan) ==
  [p \in Package |->
     IF p \in DOMAIN plan THEN Repo(p, IncludeKnownFailures) \ plan[p] ELSE {}]

\* Plans are kept in the order of their file, reports are sorted by name.
Position(p) == IF continuing THEN NameOrder[p] ELSE PlanOrder[p]
First(p, S) == p \in S /\ \A q \in S : Position(p) <= Position(q)
Last(p, S)  == p \in S /\ \A q \in S : Position(q) <= Position(p)

\* new ResultFilter(listener, packages)
NewResultFilter(pkgs, tests) ==
  /\ mKnownTestsMap' = [p \in Package |-> IF p \in pkgs THEN tests[p] ELSE {}]
  /\ mRemainingTestsMap' = [p \in Package |-> IF p \in pkgs THEN tests[p] ELSE {}]
  /\ mCurrentTestRun' = None

-------------------------------------------------------------------------------
(* The invocation *)

Init ==
  /\ pc = "idle" /\ continuing = FALSE
  /\ mRemainingTestPkgs = {} /\ expected = NoTests /\ knownTests = None
  /\ mKnownTestsMap = NoTests /\ mRemainingTestsMap = NoTests /\ mCurrentTestRun = None
  /\ mResults = NoResults /\ mCurrentPkgResult = None
  /\ runOpen = FALSE /\ begun = {}
  /\ history = NoHistory
  /\ mMap = {}
  /\ saved = [file |-> "none", results |-> NoResults, history |-> NoHistory]

\* The end of an invocation: its objects are garbage, the next one has new
\* ones.  CtsHostStore.mMap is static and the report is a file: both stay.
Discard ==
  /\ pc' = "idle" /\ continuing' = FALSE
  /\ mRemainingTestPkgs' = {} /\ expected' = NoTests /\ knownTests' = None
  /\ mKnownTestsMap' = NoTests /\ mRemainingTestsMap' = NoTests /\ mCurrentTestRun' = None
  /\ mResults' = NoResults /\ mCurrentPkgResult' = None
  /\ runOpen' = FALSE /\ begun' = {}
  /\ history' = NoHistory

\* CtsXmlResultReporter.invocationStarted of a new session: a new directory
\* and an empty result tree.
InvocationStarted ==
  /\ pc = "idle" /\ saved.file # "written"
  /\ pc' = "started"
  /\ saved' = [file |-> "none", results |-> NoResults, history |-> NoHistory]
  /\ UNCHANGED <<planVars, mRemainingTestPkgs, knownTests, filterVars, reporterVars, mMap,
                 runnerVars, history>>

\* Mutant: the invocation starts with an empty result tree.
ContinueSessionEmpty ==
  /\ pc = "idle" /\ saved.file = "written"
  /\ pc' = "started" /\ continuing' = TRUE
  /\ UNCHANGED <<mRemainingTestPkgs, expected, knownTests, filterVars, reporterVars, mMap,
                 runnerVars, saved, history>>

\* The same for --continue-session: the tree is parsed from the saved report,
\* which serialize wrote and parse restores status by status.  A report that
\* does not parse makes it throw, so the invocation does not start.
ContinueSession ==
  /\ pc = "idle" /\ saved.file = "written"
  /\ pc' = "started" /\ continuing' = TRUE
  /\ mResults' = saved.results
  /\ history' = saved.history
  /\ UNCHANGED <<mRemainingTestPkgs, expected, knownTests, filterVars, mCurrentPkgResult, mMap,
                 runnerVars, saved>>

\* run() on a fresh CtsTest: build the list of packages, then as in Resumed.
Run(plan) ==
  /\ pc = "started"
  /\ expected' = TestsToRun(plan)
  /\ mRemainingTestPkgs' = DOMAIN plan
  /\ NewResultFilter(DOMAIN plan, TestsToRun(plan))
  /\ pc' = "prepare"
  /\ UNCHANGED <<continuing, knownTests, reporterVars, mMap, runnerVars, saved, history>>

RunPlan == ~continuing /\ \E plan \in Plans : Run(plan)
RunDerivedPlan == continuing /\ Run(DerivedPlan(saved.results))

\* run() called again after the device was lost: mRemainingTestPkgs is kept,
\* the filter is new.
Resumed ==
  /\ pc = "lost" /\ Resume
  /\ NewResultFilter(mRemainingTestPkgs, expected)
  /\ pc' = "prepare"
  /\ UNCHANGED <<planVars, mRemainingTestPkgs, knownTests, reporterVars, mMap, runnerVars,
                 saved, history>>

\* Prerequisite apks, device info and the initial reboot.
Prepare ==
  /\ pc = "prepare"
  /\ pc' = IF mRemainingTestPkgs = {} THEN "cleanup" ELSE "loop"
  /\ UNCHANGED <<planVars, mRemainingTestPkgs, knownTests, filterVars, reporterVars, mMap,
                 runnerVars, saved, history>>

\* Top of the loop: take the head of the list and announce it to the reporter
\* (forwardPackageDetails goes to the listener, past the filter).
StartPackage(p) ==
  /\ pc = "loop" /\ First(p, mRemainingTestPkgs)
  /\ knownTests' = p
  /\ mCurrentPkgResult' = p
  /\ pc' = "running"
  /\ UNCHANGED <<planVars, mRemainingTestPkgs, filterVars, mResults, mMap, runnerVars, saved,
                 history>>

\* Mutant: the package stays in the list.
PackageReturnedKept ==
  /\ pc = "running" /\ pc' = "between"
  /\ runOpen' = FALSE /\ begun' = {}
  /\ UNCHANGED <<planVars, mRemainingTestPkgs, knownTests, filterVars, reporterVars, mMap, saved,
                 history>>

\* test.run(filter) has returned: the package leaves the list.
PackageReturned ==
  /\ pc = "running"
  /\ mRemainingTestPkgs' = mRemainingTestPkgs \ {knownTests}
  /\ pc' = IF mRemainingTestPkgs' = {} THEN "cleanup" ELSE "between"
  /\ runOpen' = FALSE /\ begun' = {}
  /\ UNCHANGED <<planVars, knownTests, filterVars, reporterVars, mMap, saved, history>>

\* rebootIfNecessary and changeToHomeScreen.
BetweenPackages ==
  /\ pc = "between" /\ pc' = "loop"
  /\ UNCHANGED <<planVars, mRemainingTestPkgs, knownTests, filterVars, reporterVars, mMap,
                 runnerVars, saved, history>>

\* Mutant: only the package in progress is looked at.
ReportUnexecutedOfCurrent ==
  /\ mResults' = [p \in Package |->
       IF p = knownTests THEN InsertTests(mResults[p], mRemainingTestsMap[p]) ELSE mResults[p]]
  /\ UNCHANGED mCurrentPkgResult

\* reportUnexecutedTests: testRunStarted, then testStarted for every test left,
\* of every package that has some, straight to the reporter.
ReportUnexecutedTests ==
  LET left == {p \in Package : mRemainingTestsMap[p] # {}} IN
  /\ mResults' = [p \in Package |-> InsertTests(mResults[p], mRemainingTestsMap[p])]
  /\ \/ left = {} /\ UNCHANGED mCurrentPkgResult
     \/ \E p \in left : Last(p, left) /\ mCurrentPkgResult' = p

\* The ways out of the try block, all through finally: the list is done
\* (final screenshot and uninstalls included), a device call threw
\* DeviceNotAvailableException, or the package test threw something else.
LeaveTry(phase) ==
  /\ ReportUnexecutedTests
  /\ pc' = phase
  /\ runOpen' = FALSE /\ begun' = {}
  /\ UNCHANGED <<planVars, mRemainingTestPkgs, knownTests, filterVars, mMap, saved, history>>

Finish       == pc = "cleanup" /\ LeaveTry("over")
DeviceLost   == pc \in InTry \ {"loop"} /\ LeaveTry("lost")
PackageThrew == pc = "running" /\ LeaveTry("over")

\* invocationEnded: the report overwrites testResult.xml in place; when the
\* write fails the error is only logged and the file stays cut short.
InvocationEnded(file) ==
  /\ pc \in {"over", "lost"}
  /\ saved' = [file |-> file, results |-> mResults, history |-> history]
  /\ Discard
  /\ UNCHANGED mMap

\* The host process dies: memory is gone, CtsHostStore with it.
HostCrash ==
  /\ pc # "idle"
  /\ Discard
  /\ mMap' = {}
  /\ UNCHANGED saved

-------------------------------------------------------------------------------
(* The package in progress and what its events do *)

\* Mutant: every test of a known run is let through.
IsKnownRun(t) == mCurrentTestRun # None

\* isKnownTest
IsKnownTest(t) == mCurrentTestRun # None /\ t \in mKnownTestsMap[mCurrentTestRun]

Worse(p, t, event) ==
  IF t \in expected[p]
    THEN [history EXCEPT ![p][t] = IF @ = "failed" THEN @ ELSE event]
    ELSE history

\* Mutant: the filter only notes the first run.
TestRunStartedOnce ==
  /\ pc = "running"
  /\ mCurrentTestRun' = IF mCurrentTestRun = None THEN knownTests ELSE mCurrentTestRun
  /\ mCurrentPkgResult' = knownTests
  /\ runOpen' = TRUE
  /\ UNCHANGED <<pc, planVars, mRemainingTestPkgs, knownTests, mKnownTestsMap,
                 mRemainingTestsMap, mResults, mMap, begun, saved, history>>

\* testRunStarted through the filter; every package test uses its package's
\* URI as run name.  A package test may start several runs.
TestRunStarted ==
  /\ pc = "running"
  /\ mCurrentTestRun' = knownTests
  /\ mCurrentPkgResult' = knownTests
  /\ runOpen' = TRUE
  /\ UNCHANGED <<pc, planVars, mRemainingTestPkgs, knownTests, mKnownTestsMap,
                 mRemainingTestsMap, mResults, mMap, begun, saved, history>>

TestStarted(t) ==
  /\ pc = "running" /\ runOpen
  /\ begun' = begun \cup {t}
  /\ mResults' = IF IsKnownTest(t)
                   THEN [mResults EXCEPT ![mCurrentPkgResult] = InsertTest(@, t)]
                   ELSE mResults
  /\ UNCHANGED <<pc, planVars, mRemainingTestPkgs, knownTests, filterVars, mCurrentPkgResult,
                 mMap, runOpen, saved, history>>

TestFailed(t) ==
  /\ pc = "running" /\ t \in begun
  /\ mResults' = IF IsKnownTest(t)
                   THEN [mResults EXCEPT ![mCurrentPkgResult] = ReportTestFailure(@, t)]
                   ELSE mResults
  /\ history' = Worse(knownTests, t, "failed")
  /\ UNCHANGED <<pc, planVars, mRemainingTestPkgs, knownTests, filterVars, mCurrentPkgResult,
                 mMap, runnerVars, saved>>

\* testEnded: the filter forwards first and then forgets the test.
TestHasEnded(t, inMetrics) ==
  /\ pc = "running" /\ t \in begun
  /\ inMetrics = "none" \/ t \in PerfTests
  /\ IF IsKnownTest(t)
       THEN LET perf == PerfOf(inMetrics, IF t \in mMap THEN "result" ELSE "none") IN
            /\ mResults' = [mResults EXCEPT ![mCurrentPkgResult] = TestEnded(@, t, perf)]
            /\ mMap' = IF inMetrics = "none" THEN mMap \ {t} ELSE mMap
            /\ mRemainingTestsMap' = [mRemainingTestsMap EXCEPT ![mCurrentTestRun] = @ \ {t}]
       ELSE UNCHANGED <<mResults, mMap, mRemainingTestsMap>>
  /\ history' = Worse(knownTests, t, "ended")
  /\ UNCHANGED <<pc, planVars, mRemainingTestPkgs, knownTests, mKnownTestsMap,
                 mCurrentTestRun, mCurrentPkgResult, runnerVars, saved>>

\* A host test delivers its result to CtsHostStore while it runs.
StoreCtsResult(t) ==
  /\ pc = "running" /\ t \in begun /\ t \in PerfTests
  /\ mMap' = mMap \cup {t}
  /\ UNCHANGED <<pc, planVars, mRemainingTestPkgs, knownTests, filterVars, reporterVars,
                 runnerVars, saved, history>>

-------------------------------------------------------------------------------
PackageTest ==
  \/ TestRunStarted
  \/ \E t \in Test : TestStarted(t) \/ TestFailed(t) \/ StoreCtsResult(t)
  \/ \E t \in Test, m \in PerfText : TestHasEnded(t, m)

Start == InvocationStarted \/ ContinueSession

Harness ==
  \/ RunPlan \/ RunDerivedPlan \/ Resumed
  \/ Prepare
  \/ \E p \in Package : StartPackage(p)
  \/ PackageReturned
  \/ BetweenPackages
  \/ Finish
  \/ InvocationEnded("written")

Fault == DeviceLost \/ PackageThrew \/ HostCrash \/ InvocationEnded("truncated")

Next == Start \/ Harness \/ PackageTest \/ Fault

Spec == Init /\ [][Next]_vars

\* The harness thread runs on, a package test is ended by its timeouts, and
\* Trade Federation either resumes an aborted run or ends the invocation.
FairSpec == Spec /\ WF_vars(Harness)

-------------------------------------------------------------------------------
(* Type invariant *)

Results == [Package -> [Test -> Status]]
History == [Package -> [Test -> {"none", "ended", "failed"}]]
Report  == [file : {"none", "written", "truncated"}, results : Results, history : History]

TypeOK ==
  /\ pc \in Phase /\ continuing \in BOOLEAN
  /\ mRemainingTestPkgs \subseteq Package
  /\ expected \in [Package -> SUBSET Test]
  /\ knownTests \in Package \cup {None}
  /\ mKnownTestsMap \in [Package -> SUBSET Test]
  /\ mRemainingTestsMap \in [Package -> SUBSET Test]
  /\ mCurrentTestRun \in Package \cup {None}
  /\ mResults \in Results
  /\ mCurrentPkgResult \in Package \cup {None}
  /\ mMap \subseteq Test
  /\ runOpen \in BOOLEAN /\ begun \subseteq Test
  /\ saved \in Report
  /\ history \in History

-------------------------------------------------------------------------------
(* Safety *)

\* Every expected test is accounted for: it is in the result tree, or the
\* filter still holds it and will put it there in the finally block.  So when
\* run() has been left, however it was left and however often it was resumed,
\* no expected test is missing from the report.
Accounted ==
  Built(pc) =>
    \A p \in Package : \A t \in expected[p] :
      mResults[p][t] = "absent" => pc \in InTry /\ t \in mRemainingTestsMap[p]

\* The verdict of a test is the one its executions earned, over all attempts of
\* a resumed run and all invocations of a continued session: FAIL once a
\* failure was sent, PASS once it ended without one, no verdict otherwise.
\* A performance result may turn a failure into PASS (see FailureStands).
Verdict(results, sent) ==
  \A p \in Package, t \in Test :
    /\ sent[p][t] = "none" => results[p][t] \in {"absent", "notExecuted"}
    /\ sent[p][t] = "ended" => results[p][t] = "pass"
    /\ sent[p][t] = "failed" =>
         results[p][t] = "fail" \/ (t \in PerfTests /\ results[p][t] = "pass")

VerdictsEarned ==
  Verdict(mResults, history) /\ Verdict(saved.results, saved.history)

\* Events are credited to the package that sent them: the filter's current run
\* and the reporter's current package agree with the package in progress,
\* although forwardPackageDetails moves the one and not the other; and the
\* reporter finds the Test object of every known test that was started, so that
\* testFailed and testEnded do not dereference null.
EventsCredited ==
  pc = "running" =>
    /\ mCurrentPkgResult = knownTests
    /\ runOpen => mCurrentTestRun = knownTests
    /\ \A t \in begun \cap expected[knownTests] : mResults[knownTests][t] # "absent"

\* Nothing enters the report that no package definition lists, whatever a
\* package test sends.
OnlyDefinedTests ==
  \A p \in Package, t \in Test : mResults[p][t] # "absent" => t \in PackageTests[p]

\* Continuing a session leaves its verdicts alone: only tests the saved report
\* has as notExecuted are run again, so a test that passed or failed keeps its
\* result.  This is what the comment on the derived plan in CtsTest says.
ContinueKeepsVerdicts ==
  continuing =>
    \A p \in Package, t \in Test :
      saved.results[p][t] \in {"pass", "fail"} => mResults[p][t] = saved.results[p][t]

\* A test that was reported as failed is a failure in the report, whatever
\* performance result it delivers.
FailureStands ==
  \A p \in Package, t \in Test : history[p][t] = "failed" => mResults[p][t] = "fail"

(* The inductive invariant: the properties above, and what they rest on *)

\* The package in progress is in the list, and only it has started tests;
\* plans choose defined tests; only performance tests use CtsHostStore.
InProgress ==
  /\ pc = "running" => knownTests \in mRemainingTestPkgs
  /\ pc # "running" => ~runOpen /\ begun = {}
  /\ begun # {} => runOpen
  /\ pc \in {"idle", "started"} => expected = NoTests
  /\ pc = "idle" => ~continuing
  /\ mMap \subseteq PerfTests
  /\ \A p \in Package : expected[p] \subseteq PackageTests[p]

\* In the try block the filter knows all expected tests of the packages still
\* to run, and never more than was expected.
FilterCurrent ==
  pc \in InTry =>
    \A p \in Package :
      /\ mRemainingTestsMap[p] \subseteq mKnownTestsMap[p]
      /\ mKnownTestsMap[p] \subseteq expected[p]
      /\ p \in mRemainingTestPkgs => mKnownTestsMap[p] = expected[p]

SavedDefined ==
  \A p \in Package, t \in Test : saved.results[p][t] # "absent" => t \in PackageTests[p]

\* A continued session touches the tests it expects only, and these were not
\* executed before unless known failures are included.
ContinueExpected ==
  continuing =>
    \A p \in Package, t \in Test :
      /\ t \notin expected[p] => mResults[p][t] = saved.results[p][t]
      /\ t \in expected[p] /\ ~IncludeKnownFailures => saved.results[p][t] = "notExecuted"

IInv ==
  /\ TypeOK /\ InProgress /\ FilterCurrent /\ SavedDefined /\ ContinueExpected
  /\ Accounted /\ VerdictsEarned /\ EventsCredited /\ OnlyDefinedTests

-------------------------------------------------------------------------------
(* The session implements the ledger *)

Stage ==
  IF pc = "idle" THEN "none" ELSE IF pc \in {"over", "lost"} THEN "closed" ELSE "open"

Ledger == INSTANCE VerdictLedger
  WITH Listed <- PackageTests, Again <- IncludeKnownFailures,
       stage <- Stage, reopened <- continuing, chosen <- expected, ledger <- mResults,
       kept <- [file |-> saved.file, ledger |-> saved.results]

\* Whatever runner, filter and reporter do between them, from outside a session
\* only ever does what a ledger may do: it loses no test when it is left, makes
\* no failure good, touches no test it was not asked for, continues from the
\* report as it was written.
ImplementsLedger == Ledger!Spec

-------------------------------------------------------------------------------
(* Liveness *)

\* If faults stop, no invocation goes on forever: resuming makes progress.
InvocationsEnd == (<>[][~Fault]_vars) => []<>(pc = "idle")

===============================================================================
