------------------------------ MODULE JarHostTest ------------------------------
(***************************************************************************)
(* A package of host tests.  The harness runs the tests of a jar one after *)
(* the other, in an order left open here, each in a thread of its own that *)
(* gets a limited time.  A test that does not end in time is failed and    *)
(* left to itself: its thread goes on, with the same TestResult, through   *)
(* the same filter into the same report, while the next tests run.         *)
(*                                                                         *)
(* External: JUnitRunUtil forwards the events of the TestResult to the     *)
(* filter and turns the loss of the device into an exception; TestCase     *)
(* reports whatever a test throws; RunUtil.runTimed gives the thread its   *)
(* time, long enough for a test to start.                                  *)
(***************************************************************************)
EXTENDS TestReport

CONSTANTS
  Test, NoTest,
  Loadable,     \* tests that loadTest finds in the jar
  Plain,        \* tests that are no TestCase; they may throw
  PerfTests     \* tests that put a performance result in CtsHostStore

ASSUME JarAssumption ==
  NoTest \notin Test /\ Loadable \subseteq Test /\ Plain \subseteq Test /\ PerfTests \subseteq Test

VARIABLES
  harness,          \* JarHostTest: next step
  mTests,           \* tests it has yet to run
  test,             \* the test it runs
  harnessSaw,       \* status the harness saw in reportTestEnded
  thread,           \* of each test: next step
  threadSaw,        \* status each thread saw in reportTestEnded
  outcome,          \* how each test really ended
  store,            \* CtsHostStore
  results,          \* the report of the package
  mRemainingTests, mCurrentTestRun   \* the filter

vars == <<harness, mTests, test, harnessSaw, thread, threadSaw, outcome, store, results,
          mRemainingTests, mCurrentTestRun>>

Init ==
  /\ harness = "run" /\ mTests = Test /\ test = NoTest /\ harnessSaw = "absent"
  /\ thread = [t \in Test |-> "none"] /\ threadSaw = [t \in Test |-> "absent"]
  /\ outcome = [t \in Test |-> "none"]
  /\ store = [t \in Test |-> "none"]
  /\ results = [t \in Test |-> "absent"]
  /\ mRemainingTests = Test /\ mCurrentTestRun = "none"

\* Mutant: a test of any package is known in every run.
IsKnownAnywhere(t) == mCurrentTestRun # "none"

\* isKnownTest: of the run that goes on now.
IsKnownTest(t) == mCurrentTestRun = "this"

\* A failure through the filter into the report.
TestFailed(t) == results' = IF IsKnownTest(t) THEN ReportTestFailure(results, t) ELSE results

-------------------------------------------------------------------------------
(* The thread of a test *)

ThreadStep(t, from, to) ==
  /\ thread[t] = from /\ thread' = [thread EXCEPT ![t] = to]
  /\ UNCHANGED <<harness, mTests, test, harnessSaw, mCurrentTestRun>>

StartTest(t) ==
  /\ ThreadStep(t, "fresh", "body")
  /\ results' = IF IsKnownTest(t) THEN InsertTest(results, t) ELSE results
  /\ UNCHANGED <<threadSaw, outcome, store, mRemainingTests>>

\* CtsHostStore.storeCtsResult
StoreResult(t) ==
  /\ t \in PerfTests /\ store[t] = "none"
  /\ ThreadStep(t, "body", "body") /\ store' = [store EXCEPT ![t] = "result"]
  /\ UNCHANGED <<threadSaw, outcome, results, mRemainingTests>>

Ends(t, how) == outcome' = [outcome EXCEPT ![t] = how]

BodyPasses(t) ==
  /\ ThreadStep(t, "body", "end") /\ Ends(t, "pass")
  /\ UNCHANGED <<threadSaw, store, results, mRemainingTests>>

BodyFails(t) ==
  /\ ThreadStep(t, "body", "end") /\ Ends(t, "fail") /\ TestFailed(t)
  /\ UNCHANGED <<threadSaw, store, mRemainingTests>>

\* A failure without end; run() catches the exception.
DeviceLost(t) ==
  /\ ThreadStep(t, "body", "lost") /\ Ends(t, "fail") /\ TestFailed(t)
  /\ UNCHANGED <<threadSaw, store, mRemainingTests>>

\* Any other exception: neither failure nor end.
BodyThrows(t) ==
  /\ t \in Plain
  /\ ThreadStep(t, "body", "over") /\ Ends(t, "throw")
  /\ UNCHANGED <<threadSaw, store, results, mRemainingTests>>

\* testEnded of filter and reporter: collectCtsResults, then reportTestEnded
\* looks at the status ...
Collected(t) == IF store[t] = "result" THEN ReportPerformanceResult(results, t) ELSE results

EndTest(t) ==
  /\ UNCHANGED <<outcome, mRemainingTests>>
  /\ \/ /\ ~IsKnownTest(t) /\ ThreadStep(t, "end", "over")
        /\ UNCHANGED <<threadSaw, store, results>>
     \/ /\ IsKnownTest(t) /\ ThreadStep(t, "end", "ended")
        /\ results' = Collected(t) /\ store' = [store EXCEPT ![t] = "none"]
        /\ threadSaw' = [threadSaw EXCEPT ![t] = results'[t]]

\* Mutant: a test that ends has passed.
VerdictPass(t, saw) == [results EXCEPT ![t] = "pass"]

\* ... and then sets it.
Verdict(t, saw) == IF saw = "fail" THEN results ELSE [results EXCEPT ![t] = "pass"]
Executed(t) == IF mCurrentTestRun = "this" THEN mRemainingTests \ {t} ELSE mRemainingTests

EndedTest(t) ==
  /\ ThreadStep(t, "ended", "over")
  /\ results' = Verdict(t, threadSaw[t]) /\ mRemainingTests' = Executed(t)
  /\ UNCHANGED <<threadSaw, outcome, store>>

Thread(t) ==
  \/ StartTest(t) \/ StoreResult(t) \/ BodyPasses(t) \/ BodyFails(t) \/ DeviceLost(t)
  \/ BodyThrows(t) \/ EndTest(t) \/ EndedTest(t)

-------------------------------------------------------------------------------
(* The harness *)

HarnessStep(from, to) ==
  /\ harness = from
  /\ harness' = to
  /\ UNCHANGED <<threadSaw, outcome>>

Run ==
  /\ HarnessStep("run", "next") /\ mCurrentTestRun' = "this"
  /\ UNCHANGED <<mTests, test, harnessSaw, thread, store, results, mRemainingTests>>

\* run: a test that cannot be loaded is skipped.
RunTest(t) ==
  /\ HarnessStep("next", "timed")
  /\ t \in mTests \cap Loadable /\ mTests' = mTests \ {t} /\ test' = t
  /\ thread' = [thread EXCEPT ![t] = "fresh"]
  /\ UNCHANGED <<harnessSaw, store, results, mRemainingTests, mCurrentTestRun>>

SkipTest(t) ==
  /\ HarnessStep("next", "next")
  /\ t \in mTests \ Loadable /\ mTests' = mTests \ {t}
  /\ UNCHANGED <<test, harnessSaw, thread, store, results, mRemainingTests, mCurrentTestRun>>

\* An exception that run() caught is thrown on.
NextOrThrow == IF thread[test] = "lost" THEN "aborted" ELSE "next"

\* runTest: the thread ended in time.
InTime ==
  /\ HarnessStep("timed", NextOrThrow) /\ thread[test] \in {"over", "lost"}
  /\ UNCHANGED <<mTests, test, harnessSaw, thread, store, results, mRemainingTests, mCurrentTestRun>>

\* Mutant: a test that ran out of time is ended without an error.
TimedOutQuietly ==
  /\ HarnessStep("timed", "late") /\ thread[test] \notin {"fresh", "over", "lost"}
  /\ UNCHANGED <<results, mTests, test, harnessSaw, thread, store, mRemainingTests, mCurrentTestRun>>

\* Mutant: it is failed but not ended.
TimedOutNoEnd ==
  /\ HarnessStep("timed", "next") /\ thread[test] \notin {"fresh", "over", "lost"}
  /\ TestFailed(test)
  /\ UNCHANGED <<mTests, test, harnessSaw, thread, store, mRemainingTests, mCurrentTestRun>>

\* Out of time: addError, then ...
TimedOut ==
  /\ HarnessStep("timed", "late") /\ thread[test] \notin {"fresh", "over", "lost"}
  /\ TestFailed(test)
  /\ UNCHANGED <<mTests, test, harnessSaw, thread, store, mRemainingTests, mCurrentTestRun>>

\* ... endTest, as above.
LateEndTest ==
  /\ HarnessStep("late", "ended")
  /\ results' = Collected(test) /\ store' = [store EXCEPT ![test] = "none"]
  /\ harnessSaw' = results'[test]
  /\ UNCHANGED <<mTests, test, thread, mRemainingTests, mCurrentTestRun>>

LateEndedTest ==
  /\ HarnessStep("ended", NextOrThrow)
  /\ results' = Verdict(test, harnessSaw) /\ mRemainingTests' = Executed(test)
  /\ UNCHANGED <<mTests, test, harnessSaw, thread, store, mCurrentTestRun>>

RunEnded ==
  /\ HarnessStep("next", "done") /\ mTests = {}
  /\ UNCHANGED <<mTests, test, harnessSaw, thread, store, results, mRemainingTests, mCurrentTestRun>>

\* The run of the next package starts, or of those that are reported
\* unexecuted.
NextRun ==
  /\ harness \in {"done", "aborted"} /\ mCurrentTestRun = "this" /\ mCurrentTestRun' = "other"
  /\ UNCHANGED <<harness, mTests, test, harnessSaw, thread, threadSaw, outcome, store, results,
                 mRemainingTests>>

Harness ==
  \/ Run \/ (\E t \in Test : RunTest(t) \/ SkipTest(t)) \/ InTime
  \/ TimedOut \/ LateEndTest \/ LateEndedTest \/ RunEnded

Next == Harness \/ NextRun \/ \E t \in Test : Thread(t)

Spec == Init /\ [][Next]_vars

-------------------------------------------------------------------------------
(* Properties *)

TypeOK ==
  /\ harness \in {"run", "next", "timed", "late", "ended", "done", "aborted"}
  /\ mTests \subseteq Test /\ test \in Test \cup {NoTest}
  /\ harnessSaw \in Status /\ threadSaw \in [Test -> Status]
  /\ thread \in [Test -> {"none", "fresh", "body", "end", "ended", "lost", "over"}]
  /\ outcome \in [Test -> {"none", "pass", "fail", "throw"}]
  /\ store \in [Test -> {"none", "result"}] /\ results \in [Test -> Status]
  /\ mRemainingTests \subseteq Test /\ mCurrentTestRun \in {"none", "this", "other"}

\* A test is reported as passed only when it passed, not because its time was
\* over, unless it had put a performance result in the store.
PassEarned == \A t \in Test \ PerfTests : results[t] = "pass" => outcome[t] = "pass"

\* A failure that was reported, the time-out with them, is not withdrawn by an
\* end that comes later, of the thread or of the harness, unless the end had
\* looked at the status before the failure came (or a performance result is
\* found).
LookedBefore(t) ==
  \/ thread[t] = "ended" /\ threadSaw[t] # "fail"
  \/ harness = "ended" /\ t = test /\ harnessSaw # "fail"
FailureStays ==
  [][\A t \in Test \ PerfTests :
       results[t] = "fail" /\ ~LookedBefore(t) => results'[t] = "fail"]_vars

\* When the run of the package ends, every test that could be loaded and did
\* not throw has a verdict, and what has none is left for the filter to report.
RunAccounts ==
  harness = "done" =>
    /\ \A t \in Loadable :
         outcome[t] = "throw" \/ (results[t] \in {"pass", "fail"} /\ t \notin mRemainingTests)
    /\ \A t \in Test \ Loadable : t \in mRemainingTests

\* What a left thread does after its run is over changes nothing in the
\* report, but for an end that was under way.
LateIsDropped ==
  [][mCurrentTestRun = "other" =>
       \A t \in Test : thread[t] # "ended" => results'[t] = results[t]]_vars
===============================================================================
