--------------------------- MODULE JarHostTestProofs ---------------------------
(***************************************************************************)
(* Proofs about a package of host tests: type correctness, that passes are *)
(* earned, that the run accounts for every test, that failures stay and    *)
(* that what comes after the run is dropped, for any set of tests.         *)
(***************************************************************************)
EXTENDS JarHostTest, TLAPS

Running == harness \in {"timed", "late", "ended"}
Settled(t) == outcome[t] = "throw" \/ (results[t] \in {"pass", "fail"} /\ t \notin mRemainingTests)

\* Where harness, filter and threads are relative to each other.
Places ==
  /\ (mCurrentTestRun = "none") <=> (harness = "run")
  /\ mCurrentTestRun = "other" => harness \in {"done", "aborted"}
  /\ Running => test \in Loadable /\ test \notin mTests /\ thread[test] # "none"
  /\ harness = "run" => mTests = Test
  /\ harness = "done" => mTests = {}
  /\ \A t \in Test : t \in mTests \/ t \notin Loadable => thread[t] = "none"
  /\ \A t \in Test : thread[t] = "none" => t \in mRemainingTests

\* What every test without performance results has reported was earned, also
\* what a thread or the harness has seen and will act on.
Earned ==
  /\ \A t \in Test : store[t] = "result" => t \in PerfTests
  /\ \A t \in Test :
       /\ thread[t] = "end" => outcome[t] \in {"pass", "fail"}
       /\ outcome[t] = "pass" => thread[t] \in {"end", "ended", "over"}
  /\ \A t \in Test \ PerfTests :
       /\ results[t] = "pass" => outcome[t] = "pass"
       /\ thread[t] = "ended" /\ threadSaw[t] # "fail" => outcome[t] = "pass"
       /\ thread[t] = "end" /\ outcome[t] = "fail" /\ mCurrentTestRun = "this" => results[t] = "fail"
       /\ harness = "late" /\ t = test => results[t] = "fail" \/ outcome[t] = "pass"
       /\ harness = "ended" /\ t = test /\ harnessSaw # "fail" => outcome[t] = "pass"

\* What the run has left behind is settled.
Accounts ==
  /\ \A t \in Test : thread[t] = "ended" /\ threadSaw[t] = "fail" => results[t] \in {"pass", "fail"}
  /\ \A t \in Test : outcome[t] = "throw" => thread[t] = "over"
  /\ harness = "ended" /\ harnessSaw = "fail" => results[test] \in {"pass", "fail"}
  /\ \A t \in Test : mCurrentTestRun = "this" /\ thread[t] = "over" => Settled(t)
  /\ harness \in {"next", "timed", "late", "ended", "done"} =>
       \A t \in Loadable \ mTests : (Running /\ t = test) \/ Settled(t)

IInv == TypeOK /\ Places /\ Earned /\ Accounts

USE JarAssumption DEF Status

-------------------------------------------------------------------------------
LEMMA InitIInv == Init => IInv
  BY DEF Init, IInv, TypeOK, Places, Earned, Accounts, Running, Settled

-------------------------------------------------------------------------------
(* The steps of a thread *)

LEMMA ThreadPreserves ==
  ASSUME IInv, NEW t \in Test, Thread(t)
  PROVE  IInv'
<1> USE DEF IInv, ThreadStep, IsKnownTest, TestFailed, ReportTestFailure, InsertTest, Ends
<1>1. CASE StartTest(t)
  <2>1. TypeOK'   BY <1>1 DEF TypeOK, StartTest
  <2>2. Places'   BY <1>1 DEF TypeOK, Places, Running, StartTest
  <2>3. Earned'   BY <1>1 DEF TypeOK, Earned, StartTest
  <2>4. Accounts' BY <1>1 DEF TypeOK, Accounts, Running, Settled, StartTest
  <2> QED BY <2>1, <2>2, <2>3, <2>4
<1>2. CASE StoreResult(t)
  <2>1. TypeOK'   BY <1>2 DEF TypeOK, StoreResult
  <2>2. Places'   BY <1>2 DEF TypeOK, Places, Running, StoreResult
  <2>3. Earned'   BY <1>2 DEF TypeOK, Earned, StoreResult
  <2>4. Accounts' BY <1>2 DEF TypeOK, Accounts, Running, Settled, StoreResult
  <2> QED BY <2>1, <2>2, <2>3, <2>4
<1>3. CASE BodyPasses(t)
  <2>1. TypeOK'   BY <1>3 DEF TypeOK, BodyPasses
  <2>2. Places'   BY <1>3 DEF TypeOK, Places, Running, BodyPasses
  <2>3. Earned'   BY <1>3 DEF TypeOK, Earned, BodyPasses
  <2>4. Accounts' BY <1>3 DEF TypeOK, Accounts, Running, Settled, BodyPasses
  <2> QED BY <2>1, <2>2, <2>3, <2>4
<1>4. CASE BodyFails(t)
  <2>1. TypeOK'   BY <1>4 DEF TypeOK, BodyFails
  <2>2. Places'   BY <1>4 DEF TypeOK, Places, Running, BodyFails
  <2>3. Earned'   BY <1>4 DEF TypeOK, Earned, BodyFails
  <2>4. Accounts' BY <1>4 DEF TypeOK, Accounts, Running, Settled, BodyFails
  <2> QED BY <2>1, <2>2, <2>3, <2>4
<1>5. CASE DeviceLost(t)
  <2>1. TypeOK'   BY <1>5 DEF TypeOK, DeviceLost
  <2>2. Places'   BY <1>5 DEF TypeOK, Places, Running, DeviceLost
  <2>3. Earned'   BY <1>5 DEF TypeOK, Earned, DeviceLost
  <2>4. Accounts' BY <1>5 DEF TypeOK, Accounts, Running, Settled, DeviceLost
  <2> QED BY <2>1, <2>2, <2>3, <2>4
<1>6. CASE BodyThrows(t)
  <2>1. TypeOK'   BY <1>6 DEF TypeOK, BodyThrows
  <2>2. Places'   BY <1>6 DEF TypeOK, Places, Running, BodyThrows
  <2>3. Earned'   BY <1>6 DEF TypeOK, Earned, BodyThrows
  <2>4. Accounts' BY <1>6 DEF TypeOK, Accounts, Running, Settled, BodyThrows
  <2> QED BY <2>1, <2>2, <2>3, <2>4
<1>7. CASE EndTest(t)
  <2> USE DEF Collected, ReportPerformanceResult
  <2>1. TypeOK'   BY <1>7 DEF TypeOK, EndTest
  <2>2. Places'   BY <1>7 DEF TypeOK, Places, Running, EndTest
  <2>3. Earned'   BY <1>7 DEF TypeOK, Earned, EndTest
  <2>4. Accounts' BY <1>7 DEF TypeOK, Places, Accounts, Running, Settled, EndTest
  <2> QED BY <2>1, <2>2, <2>3, <2>4
<1>8. CASE EndedTest(t)
  <2> USE DEF Verdict, Executed
  <2>1. TypeOK'   BY <1>8 DEF TypeOK, EndedTest
  <2>2. Places'   BY <1>8 DEF TypeOK, Places, Running, EndedTest
  <2>3. Earned'   BY <1>8 DEF TypeOK, Earned, EndedTest
  <2>4. Accounts' BY <1>8 DEF TypeOK, Accounts, Running, Settled, EndedTest
  <2> QED BY <2>1, <2>2, <2>3, <2>4
<1> QED BY <1>1, <1>2, <1>3, <1>4, <1>5, <1>6, <1>7, <1>8 DEF Thread

-------------------------------------------------------------------------------
(* The steps of the harness *)

LEMMA HarnessPreserves ==
  ASSUME IInv, Harness
  PROVE  IInv'
<1> USE DEF IInv, HarnessStep, IsKnownTest, TestFailed, ReportTestFailure, NextOrThrow
<1>1. CASE Run
  <2>1. TypeOK'   BY <1>1 DEF TypeOK, Run
  <2>2. Places'   BY <1>1 DEF TypeOK, Places, Running, Run
  <2>3. Earned'   BY <1>1 DEF TypeOK, Places, Earned, Run
  <2>4. Accounts' BY <1>1 DEF TypeOK, Places, Accounts, Running, Settled, Run
  <2> QED BY <2>1, <2>2, <2>3, <2>4
<1>2. ASSUME NEW t \in Test, RunTest(t)
      PROVE  IInv'
  <2>1. TypeOK'   BY <1>2 DEF TypeOK, RunTest
  <2>2. Places'   BY <1>2 DEF TypeOK, Places, Running, RunTest
  <2>3. Earned'   BY <1>2 DEF TypeOK, Earned, Places, RunTest
  <2>4. Accounts' BY <1>2 DEF TypeOK, Places, Accounts, Running, Settled, RunTest
  <2> QED BY <2>1, <2>2, <2>3, <2>4
<1>3. ASSUME NEW t \in Test, SkipTest(t)
      PROVE  IInv'
  <2>1. TypeOK'   BY <1>3 DEF TypeOK, SkipTest
  <2>2. Places'   BY <1>3 DEF TypeOK, Places, Running, SkipTest
  <2>3. Earned'   BY <1>3 DEF TypeOK, Earned, SkipTest
  <2>4. Accounts' BY <1>3 DEF TypeOK, Places, Accounts, Running, Settled, SkipTest
  <2> QED BY <2>1, <2>2, <2>3, <2>4
<1>4. CASE InTime
  <2>1. TypeOK'   BY <1>4 DEF TypeOK, InTime
  <2>2. Places'   BY <1>4 DEF TypeOK, Places, Running, InTime
  <2>3. Earned'   BY <1>4 DEF TypeOK, Earned, InTime
  <2>4. Accounts' BY <1>4 DEF TypeOK, Places, Accounts, Running, Settled, InTime
  <2> QED BY <2>1, <2>2, <2>3, <2>4
<1>5. CASE TimedOut
  <2>1. TypeOK'   BY <1>5 DEF TypeOK, TimedOut
  <2>2. Places'   BY <1>5 DEF TypeOK, Places, Running, TimedOut
  <2>3. Earned'   BY <1>5 DEF TypeOK, Places, Earned, Running, TimedOut
  <2>4. Accounts' BY <1>5 DEF TypeOK, Places, Accounts, Running, Settled, TimedOut
  <2> QED BY <2>1, <2>2, <2>3, <2>4
<1>6. CASE LateEndTest
  <2> USE DEF Collected, ReportPerformanceResult
  <2>1. TypeOK'   BY <1>6 DEF TypeOK, Places, Running, LateEndTest
  <2>2. Places'   BY <1>6 DEF TypeOK, Places, Running, LateEndTest
  <2>3. Earned'   BY <1>6 DEF TypeOK, Places, Earned, Running, LateEndTest
  <2>4. Accounts' BY <1>6 DEF TypeOK, Places, Accounts, Running, Settled, LateEndTest
  <2> QED BY <2>1, <2>2, <2>3, <2>4
<1>7. CASE LateEndedTest
  <2> USE DEF Verdict, Executed
  <2>1. TypeOK'   BY <1>7 DEF TypeOK, Places, Running, LateEndedTest
  <2>2. Places'   BY <1>7 DEF TypeOK, Places, Running, LateEndedTest
  <2>3. Earned'   BY <1>7 DEF TypeOK, Places, Earned, Running, LateEndedTest
  <2>4. Accounts' BY <1>7 DEF TypeOK, Places, Accounts, Running, Settled, LateEndedTest
  <2> QED BY <2>1, <2>2, <2>3, <2>4
<1>8. CASE RunEnded
  <2>1. TypeOK'   BY <1>8 DEF TypeOK, RunEnded
  <2>2. Places'   BY <1>8 DEF TypeOK, Places, Running, RunEnded
  <2>3. Earned'   BY <1>8 DEF TypeOK, Earned, RunEnded
  <2>4. Accounts' BY <1>8 DEF TypeOK, Places, Accounts, Running, Settled, RunEnded
  <2> QED BY <2>1, <2>2, <2>3, <2>4
<1> QED BY <1>1, <1>2, <1>3, <1>4, <1>5, <1>6, <1>7, <1>8 DEF Harness

LEMMA NextPreserves == IInv /\ [Next]_vars => IInv'
<1> SUFFICES ASSUME IInv, [Next]_vars PROVE IInv'
  OBVIOUS
<1>1. CASE NextRun
  BY <1>1 DEF NextRun, IInv, TypeOK, Places, Earned, Accounts, Running, Settled
<1>2. CASE UNCHANGED vars
  BY <1>2 DEF vars, IInv, TypeOK, Places, Earned, Accounts, Running, Settled
<1> QED BY <1>1, <1>2, ThreadPreserves, HarnessPreserves DEF Next

-------------------------------------------------------------------------------
LEMMA Invariance == Spec => []IInv
  BY InitIInv, NextPreserves, PTL DEF Spec

\* Every variable keeps its type, for any set of tests.
THEOREM TypeCorrect == Spec => []TypeOK
<1>1. IInv => TypeOK BY DEF IInv
<1> QED BY <1>1, Invariance, PTL

\* No test is reported as passed because its time was over.
THEOREM PassesAreEarned == Spec => []PassEarned
<1>1. IInv => PassEarned BY DEF IInv, Earned, PassEarned
<1> QED BY <1>1, Invariance, PTL

\* A run that ends has accounted for all its tests.
THEOREM RunAccountsForTests == Spec => []RunAccounts
<1>1. IInv => RunAccounts
  BY DEF IInv, TypeOK, Places, Accounts, Running, Settled, RunAccounts
<1> QED BY <1>1, Invariance, PTL

\* A reported failure, a time-out with them, is not withdrawn by an end that
\* looks at the status after it.
THEOREM FailuresStay == Spec => FailureStays
<1>1. ASSUME IInv, [Next]_vars
      PROVE  [\A t \in Test \ PerfTests :
                results[t] = "fail" /\ ~LookedBefore(t) => results'[t] = "fail"]_vars
  <2> SUFFICES ASSUME NEW t \in Test \ PerfTests, results[t] = "fail", ~LookedBefore(t), Next
               PROVE  results'[t] = "fail"
    BY <1>1
  <2> USE <1>1 DEF IInv, TypeOK, ThreadStep, HarnessStep, IsKnownTest, TestFailed, ReportTestFailure
  <2>1. ASSUME NEW u \in Test, Thread(u)
        PROVE  results'[t] = "fail"
    <3>1. CASE EndTest(u)
      BY <2>1, <3>1 DEF EndTest, Earned, Collected, ReportPerformanceResult
    <3>2. CASE EndedTest(u)
      BY <2>1, <3>2 DEF EndedTest, Verdict, LookedBefore
    <3>3. CASE StartTest(u)
      BY <2>1, <3>3 DEF StartTest, InsertTest
    <3> QED
      BY <2>1, <3>1, <3>2, <3>3
         DEF Thread, StoreResult, BodyPasses, BodyFails, DeviceLost, BodyThrows
  <2>2. CASE Harness
    <3>1. CASE LateEndTest
      BY <2>2, <3>1 DEF LateEndTest, Earned, Collected, ReportPerformanceResult
    <3>2. CASE LateEndedTest
      BY <2>2, <3>2 DEF LateEndedTest, Verdict, LookedBefore
    <3> QED
      BY <2>2, <3>1, <3>2 DEF Harness, Run, RunTest, SkipTest, InTime, TimedOut, RunEnded
  <2>3. CASE NextRun
    BY <2>3 DEF NextRun
  <2> QED BY <2>1, <2>2, <2>3 DEF Next
<1> QED BY <1>1, Invariance, PTL DEF Spec, FailureStays

\* What a left thread does after the run changes nothing in the report, but
\* for an end that was under way.
THEOREM LateEventsAreDropped == Spec => LateIsDropped
<1>1. ASSUME IInv, [Next]_vars
      PROVE  [mCurrentTestRun = "other" =>
                \A t \in Test : thread[t] # "ended" => results'[t] = results[t]]_vars
  <2> SUFFICES ASSUME mCurrentTestRun = "other", NEW t \in Test, thread[t] # "ended", Next
               PROVE  results'[t] = results[t]
    BY <1>1
  <2> USE <1>1 DEF IInv, TypeOK, ThreadStep, HarnessStep, IsKnownTest, TestFailed
  <2>1. ASSUME NEW u \in Test, Thread(u)
        PROVE  results'[t] = results[t]
    <3>1. CASE EndedTest(u)
      BY <2>1, <3>1 DEF EndedTest, Verdict
    <3> QED
      BY <2>1, <3>1 DEF Thread, StartTest, StoreResult, BodyPasses, BodyFails, DeviceLost,
                        BodyThrows, EndTest
  <2>2. ~Harness
    BY DEF Places, Harness, Run, RunTest, SkipTest, InTime, TimedOut, LateEndTest, LateEndedTest,
           RunEnded
  <2>3. ~NextRun
    BY DEF NextRun
  <2> QED BY <2>1, <2>2, <2>3 DEF Next
<1> QED BY <1>1, Invariance, PTL DEF Spec, LateIsDropped

===============================================================================
