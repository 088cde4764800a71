------------------------------ MODULE TestReport ------------------------------
(***************************************************************************)
(* The result tree of one package, as CtsXmlResultReporter fills it in.    *)
(* TestPackageResult keeps TestSuite -> TestCase -> Test; the tree only    *)
(* spells out the class name, so a package's results are a function from   *)
(* tests to statuses here, "absent" standing for "no Test object in the    *)
(* tree".  The operators are the mutators of TestPackageResult; none of    *)
(* them has state of its own.                                              *)
(***************************************************************************)
EXTENDS Naturals

\* CtsTestStatus, and "absent" for a test that was never inserted.
Status == {"absent", "notExecuted", "pass", "fail"}

\* Mutant: the new Test has no status until its first event.
InsertTestNull(r, t) == [r EXCEPT ![t] = IF @ = "absent" THEN "null" ELSE @]

\* insertTest: find the Test, or create one (new Test(name)) that starts out
\* as NOT_EXECUTED.  A Test that is already there keeps its status.
InsertTest(r, t) ==
  [r EXCEPT ![t] = IF @ = "absent" THEN "notExecuted" ELSE @]

InsertTests(r, S) ==
  [t \in DOMAIN r |-> IF t \in S /\ r[t] = "absent" THEN "notExecuted" ELSE r[t]]

\* reportTestFailure: whatever the status was, it becomes FAIL.
ReportTestFailure(r, t) == [r EXCEPT ![t] = "fail"]

\* reportPerformanceResult: the reporter always calls it with PASS, and it
\* sets the status whatever it was.
ReportPerformanceResult(r, t) == [r EXCEPT ![t] = "pass"]

\* Mutant: a test that ends has passed.
ReportTestEndedPass(r, t) == [r EXCEPT ![t] = "pass"]

\* reportTestEnded: PASS unless a failure was reported before.
ReportTestEnded(r, t) == [r EXCEPT ![t] = IF @ = "fail" THEN @ ELSE "pass"]

\* What a testEnded callback may carry or find in CtsHostStore: nothing, a text
\* that does not have the form Summary++++Details, or a performance result.
PerfText == {"none", "malformed", "result"}

\* collectCtsResults: the metrics of the callback come first, CtsHostStore is
\* consulted (and emptied) only when they hold no result.
PerfOf(inMetrics, inStore) == IF inMetrics = "none" THEN inStore ELSE inMetrics

\* testEnded of the reporter: performance results first, then the status.
TestEnded(r, t, perf) ==
  ReportTestEnded(IF perf = "result" THEN ReportPerformanceResult(r, t) ELSE r, t)

\* getTestsWithStatus
GetTestsWithStatus(r, status) == {t \in DOMAIN r : r[t] = status}

===============================================================================
