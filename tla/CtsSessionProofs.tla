--------------------------- MODULE CtsSessionProofs ---------------------------
(***************************************************************************)
(* Proofs about CtsSession, for any packages, tests and plans.             *)
(***************************************************************************)
EXTENDS CtsSession, TLAPS

(***************************************************************************)
(* The operators of the result tree keep its type.                         *)
(***************************************************************************)
LEMMA ReportTypes ==
  ASSUME NEW r \in [Test -> Status], NEW t \in Test, NEW S, NEW perf
  PROVE  /\ InsertTest(r, t) \in [Test -> Status]
         /\ InsertTests(r, S) \in [Test -> Status]
         /\ ReportTestFailure(r, t) \in [Test -> Status]
         /\ TestEnded(r, t, perf) \in [Test -> Status]
BY DEF Status, InsertTest, InsertTests, ReportTestFailure, ReportTestEnded,
       ReportPerformanceResult, TestEnded

(***************************************************************************)
(* What each operator does to the entry of the test and to the others.     *)
(***************************************************************************)
LEMMA InsertTestAt ==
  ASSUME NEW r \in [Test -> Status], NEW t \in Test, NEW u \in Test
  PROVE  InsertTest(r, t)[u] = IF u = t /\ r[u] = "absent" THEN "notExecuted" ELSE r[u]
BY DEF InsertTest

LEMMA InsertTestsAt ==
  ASSUME NEW r \in [Test -> Status], NEW S, NEW u \in Test
  PROVE  InsertTests(r, S)[u] = IF u \in S /\ r[u] = "absent" THEN "notExecuted" ELSE r[u]
BY DEF InsertTests

LEMMA ReportTestFailureAt ==
  ASSUME NEW r \in [Test -> Status], NEW t \in Test, NEW u \in Test
  PROVE  ReportTestFailure(r, t)[u] = IF u = t THEN "fail" ELSE r[u]
BY DEF ReportTestFailure

LEMMA TestEndedAt ==
  ASSUME NEW r \in [Test -> Status], NEW t \in Test, NEW perf, NEW u \in Test
  PROVE  TestEnded(r, t, perf)[u] =
           IF u # t THEN r[u]
           ELSE IF r[t] = "fail" /\ perf # "result" THEN "fail" ELSE "pass"
BY DEF TestEnded, ReportTestEnded, ReportPerformanceResult

(***************************************************************************)
(* What a plan makes run() expect: tests the packages define, and nothing  *)
(* of the packages it does not choose.                                     *)
(***************************************************************************)
LEMMA PlanTypes ==
  ASSUME NEW plan, DOMAIN plan \subseteq Package
  PROVE  /\ TestsToRun(plan) \in [Package -> SUBSET Test]
         /\ \A p \in Package : TestsToRun(plan)[p] \subseteq PackageTests[p]
         /\ \A p \in Package : p \notin DOMAIN plan => TestsToRun(plan)[p] = {}
BY SessionAssumption DEF TestsToRun, Repo

LEMMA DerivedPlanDomain ==
  ASSUME NEW results
  PROVE  DOMAIN DerivedPlan(results) \subseteq Package
BY DEF DerivedPlan

(***************************************************************************)
(* What an invocation starts from.                                         *)
(***************************************************************************)
LEMMA EmptyTypes ==
  /\ NoTests \in [Package -> SUBSET Test]
  /\ NoResults \in Results
  /\ NoHistory \in History
<1>1. NoTests \in [Package -> SUBSET Test]
  BY DEF NoTests
<1>2. \A p \in Package : [t \in Test |-> "absent"] \in [Test -> Status]
  BY DEF Status
<1>3. \A p \in Package : [t \in Test |-> "none"] \in [Test -> {"none", "ended", "failed"}]
  OBVIOUS
<1>4. QED
  BY <1>1, <1>2, <1>3 DEF NoResults, Results, NoHistory, History

(* A saved report has its type. *)
LEMMA ReportType ==
  ASSUME NEW file \in {"none", "written", "truncated"}, NEW results \in Results,
         NEW sent \in History
  PROVE  [file |-> file, results |-> results, history |-> sent] \in Report
BY DEF Report

(* Starting to run a plan keeps the type invariant. *)
LEMMA RunType ==
  ASSUME TypeOK, NEW plan, DOMAIN plan \subseteq Package, Run(plan)
  PROVE  TypeOK'
BY PlanTypes DEF TypeOK, Run, NewResultFilter, planVars, reporterVars, runnerVars, Phase, InTry

(***************************************************************************)
(* The initial state has its type.                                         *)
(***************************************************************************)
LEMMA TypeInit == ASSUME Init PROVE TypeOK
<1>1. saved \in Report
  BY EmptyTypes, ReportType DEF Init
<1>2. QED
  BY <1>1, EmptyTypes DEF Init, TypeOK, Phase

(***************************************************************************)
(* Every step keeps the type invariant.                                    *)
(***************************************************************************)
LEMMA TypeStep == ASSUME TypeOK, [Next]_vars PROVE TypeOK'
<1> USE DEF TypeOK, planVars, filterVars, reporterVars, runnerVars
<1>1. CASE InvocationStarted
  BY <1>1, EmptyTypes, ReportType DEF InvocationStarted, Phase
<1>2. CASE ContinueSession
  BY <1>2 DEF ContinueSession, Phase, Report
<1>3. CASE RunPlan
  BY <1>3, RunType, SessionAssumption DEF RunPlan
<1>4. CASE RunDerivedPlan
  BY <1>4, RunType, DerivedPlanDomain DEF RunDerivedPlan
<1>5. CASE Resumed
  BY <1>5 DEF Resumed, NewResultFilter, Phase, InTry
<1>6. CASE Prepare
  BY <1>6 DEF Prepare, Phase, InTry
<1>7. CASE \E p \in Package : StartPackage(p)
  BY <1>7 DEF StartPackage, Phase, InTry
<1>8. CASE PackageReturned
  BY <1>8 DEF PackageReturned, Phase, InTry
<1>9. CASE BetweenPackages
  BY <1>9 DEF BetweenPackages, Phase, InTry
<1>10. CASE Finish \/ DeviceLost \/ PackageThrew
  <2>1. PICK phase \in {"over", "lost"} : LeaveTry(phase)
    BY <1>10 DEF Finish, DeviceLost, PackageThrew
  <2>2. mResults' \in Results
    <3>1. mResults' = [p \in Package |-> InsertTests(mResults[p], mRemainingTestsMap[p])]
      BY <2>1 DEF LeaveTry, ReportUnexecutedTests
    <3>2. \A p \in Package : InsertTests(mResults[p], mRemainingTestsMap[p]) \in [Test -> Status]
      BY ReportTypes DEF Results, InsertTests, Status
    <3>3. QED
      BY <3>1, <3>2 DEF Results
  <2>3. mCurrentPkgResult' \in Package \cup {None}
    BY <2>1 DEF LeaveTry, ReportUnexecutedTests
  <2>4. QED
    BY <2>1, <2>2, <2>3 DEF LeaveTry, Phase
<1>11. CASE \E file \in {"written", "truncated"} : InvocationEnded(file)
  BY <1>11, EmptyTypes, ReportType DEF InvocationEnded, Discard, Phase
<1>12. CASE HostCrash
  BY <1>12, EmptyTypes DEF HostCrash, Discard, Phase
<1>13. CASE TestRunStarted
  BY <1>13 DEF TestRunStarted
<1>14. ASSUME NEW t \in Test, TestStarted(t)
       PROVE  TypeOK'
  <2>1. mResults' \in Results
    BY <1>14, ReportTypes DEF TestStarted, Results
  <2>2. QED
    BY <1>14, <2>1 DEF TestStarted
<1>15. ASSUME NEW t \in Test, TestFailed(t)
       PROVE  TypeOK'
  <2>1. mResults' \in Results
    BY <1>15, ReportTypes DEF TestFailed, Results
  <2>2. history' \in History
    BY <1>15 DEF TestFailed, Worse, History
  <2>3. QED
    BY <1>15, <2>1, <2>2 DEF TestFailed
<1>16. ASSUME NEW t \in Test, StoreCtsResult(t)
       PROVE  TypeOK'
  BY <1>16 DEF StoreCtsResult
<1>17. ASSUME NEW t \in Test, NEW m \in PerfText, TestHasEnded(t, m)
       PROVE  TypeOK'
  <2>1. mResults' \in Results
    <3>1. PICK perf :
            \/ UNCHANGED mResults
            \/ mResults' = [mResults EXCEPT ![mCurrentPkgResult] = TestEnded(@, t, perf)]
      BY <1>17 DEF TestHasEnded
    <3>2. \A p \in Package : TestEnded(mResults[p], t, perf) \in [Test -> Status]
      BY ReportTypes DEF Results
    <3>3. QED
      BY <3>1, <3>2 DEF Results
  <2>2. history' \in History
    BY <1>17 DEF TestHasEnded, Worse, History
  <2>3. mRemainingTestsMap' \in [Package -> SUBSET Test] /\ mMap' \subseteq Test
    BY <1>17 DEF TestHasEnded
  <2>4. QED
    BY <1>17, <2>1, <2>2, <2>3 DEF TestHasEnded
<1>18. CASE UNCHANGED vars
  BY <1>18 DEF vars
<1>19. QED
  BY <1>1, <1>2, <1>3, <1>4, <1>5, <1>6, <1>7, <1>8, <1>9, <1>10, <1>11, <1>12, <1>13,
     <1>14, <1>15, <1>16, <1>17, <1>18
  DEF Next, Start, Harness, PackageTest, Fault

(***************************************************************************)
(* Type correctness: whatever a package test sends and whenever the device *)
(* or the host fails, no variable of the session leaves its type.          *)
(***************************************************************************)
THEOREM TypeCorrect == Spec => []TypeOK
<1>1. Init => TypeOK
  BY TypeInit
<1>2. TypeOK /\ [Next]_vars => TypeOK'
  BY TypeStep
<1>3. QED
  BY <1>1, <1>2, PTL DEF Spec

(***************************************************************************)
(* While a test run of the package in progress is open, the filter knows   *)
(* exactly the tests expected of that package, and both it and the         *)
(* reporter stand at that package.                                         *)
(***************************************************************************)
LEMMA KnownIffExpected ==
  ASSUME IInv, pc = "running", runOpen
  PROVE  /\ knownTests \in Package
         /\ mCurrentTestRun = knownTests
         /\ mCurrentPkgResult = knownTests
         /\ \A t : IsKnownTest(t) <=> t \in expected[knownTests]
BY SessionAssumption
DEF IInv, TypeOK, InProgress, FilterCurrent, EventsCredited, IsKnownTest, InTry

(***************************************************************************)
(* The pointwise effect of the events on results and history.              *)
(***************************************************************************)
LEMMA StartedEffect ==
  ASSUME IInv, NEW t \in Test, TestStarted(t)
  PROVE  \A p \in Package, u \in Test :
           mResults'[p][u] =
             IF p = knownTests /\ u = t /\ t \in expected[p] /\ mResults[p][u] = "absent"
               THEN "notExecuted" ELSE mResults[p][u]
<1>1. mResults' = IF t \in expected[knownTests]
                    THEN [mResults EXCEPT ![knownTests] = InsertTest(mResults[knownTests], t)]
                    ELSE mResults
  BY KnownIffExpected DEF TestStarted
<1>2. knownTests \in Package /\ mResults \in [Package -> [Test -> Status]]
  BY KnownIffExpected DEF TestStarted, IInv, TypeOK, Results
<1>3. \A p \in Package, u \in Test :
        InsertTest(mResults[p], t)[u] =
          IF u = t /\ mResults[p][u] = "absent" THEN "notExecuted" ELSE mResults[p][u]
  BY <1>2, InsertTestAt
<1>4. QED
  BY <1>1, <1>2, <1>3

(* A failure: FAIL, and remembered as such. *)
LEMMA FailedEffect ==
  ASSUME IInv, NEW t \in Test, TestFailed(t)
  PROVE  \A p \in Package, u \in Test :
           /\ mResults'[p][u] = IF p = knownTests /\ u = t /\ t \in expected[p]
                                  THEN "fail" ELSE mResults[p][u]
           /\ history'[p][u] = IF p = knownTests /\ u = t /\ t \in expected[p]
                                 THEN "failed" ELSE history[p][u]
<1> USE DEF TestFailed
<1>0. runOpen
  BY SessionAssumption DEF IInv, InProgress
<1>1. mResults' = IF t \in expected[knownTests]
                    THEN [mResults EXCEPT ![knownTests] = ReportTestFailure(mResults[knownTests], t)]
                    ELSE mResults
  BY <1>0, KnownIffExpected
<1>2. /\ knownTests \in Package
      /\ mResults \in [Package -> [Test -> Status]]
      /\ history \in [Package -> [Test -> {"none", "ended", "failed"}]]
  BY <1>0, KnownIffExpected DEF IInv, TypeOK, Results, History
<1>3. \A p \in Package, u \in Test :
        ReportTestFailure(mResults[p], t)[u] = IF u = t THEN "fail" ELSE mResults[p][u]
  BY <1>2, ReportTestFailureAt
<1>4. \A p \in Package, u \in Test :
        mResults'[p][u] = IF p = knownTests /\ u = t /\ t \in expected[p]
                            THEN "fail" ELSE mResults[p][u]
  BY <1>1, <1>2, <1>3
<1>5. \A p \in Package, u \in Test :
        history'[p][u] = IF p = knownTests /\ u = t /\ t \in expected[p]
                           THEN "failed" ELSE history[p][u]
  BY <1>2 DEF Worse
<1>6. QED
  BY <1>4, <1>5

(* An end: PASS unless it failed before, and the filter forgets the test. *)
LEMMA EndedEffect ==
  ASSUME IInv, NEW t \in Test, NEW m, TestHasEnded(t, m)
  PROVE  /\ \A p \in Package, u \in Test :
              /\ (p # knownTests \/ u # t \/ t \notin expected[p]) =>
                    mResults'[p][u] = mResults[p][u] /\ history'[p][u] = history[p][u]
              /\ (p = knownTests /\ u = t /\ t \in expected[p]) =>
                    /\ history'[p][u] = IF history[p][u] = "failed" THEN "failed" ELSE "ended"
                    /\ \/ mResults'[p][u] = "pass" /\ (mResults[p][u] = "fail" => t \in PerfTests)
                       \/ mResults'[p][u] = "fail" /\ mResults[p][u] = "fail"
         /\ \A p \in Package :
              mRemainingTestsMap'[p] = IF p = knownTests /\ t \in expected[p]
                                         THEN mRemainingTestsMap[p] \ {t}
                                         ELSE mRemainingTestsMap[p]
<1>0. runOpen /\ pc = "running"
  BY SessionAssumption DEF IInv, InProgress, TestHasEnded
<1>1. /\ knownTests \in Package
      /\ mResults \in [Package -> [Test -> Status]]
      /\ mRemainingTestsMap \in [Package -> SUBSET Test]
      /\ history \in [Package -> [Test -> {"none", "ended", "failed"}]]
  BY <1>0, KnownIffExpected DEF IInv, TypeOK, Results, History
<1>2. \A p \in Package, u \in Test :
        history'[p][u] = IF p = knownTests /\ u = t /\ t \in expected[p] /\ history[p][u] # "failed"
                           THEN "ended" ELSE history[p][u]
  BY <1>1 DEF Worse, TestHasEnded
<1>3. CASE t \notin expected[knownTests]
  <2>1. UNCHANGED <<mResults, mRemainingTestsMap>>
    BY <1>0, <1>3, KnownIffExpected DEF TestHasEnded
  <2>2. QED
    BY <2>1, <1>2, <1>3
<1>4. CASE t \in expected[knownTests]
  <2>1. PICK perf :
          /\ mResults' = [mResults EXCEPT ![knownTests] = TestEnded(mResults[knownTests], t, perf)]
          /\ perf = "result" => t \in PerfTests
    BY <1>0, <1>4, KnownIffExpected DEF TestHasEnded, PerfOf, IInv, InProgress
  <2>2. mRemainingTestsMap' =
          [mRemainingTestsMap EXCEPT ![knownTests] = mRemainingTestsMap[knownTests] \ {t}]
    BY <1>0, <1>4, KnownIffExpected DEF TestHasEnded
  <2>3. \A p \in Package, u \in Test :
          TestEnded(mResults[p], t, perf)[u] =
            IF u # t THEN mResults[p][u]
            ELSE IF mResults[p][t] = "fail" /\ perf # "result" THEN "fail" ELSE "pass"
    BY <1>1, TestEndedAt
  <2>4. \A p \in Package, u \in Test :
          mResults'[p][u] = IF p = knownTests THEN TestEnded(mResults[p], t, perf)[u]
                            ELSE mResults[p][u]
    BY <2>1, <1>1
  <2>5. \A p \in Package : mRemainingTestsMap'[p] = IF p = knownTests
                                                   THEN mRemainingTestsMap[p] \ {t}
                                                   ELSE mRemainingTestsMap[p]
    BY <2>2, <1>1
  <2>6. \A u \in Test : u # t => mResults'[knownTests][u] = mResults[knownTests][u]
    BY <2>3, <2>4, <1>1
  <2>7. mResults'[knownTests][t] =
          IF mResults[knownTests][t] = "fail" /\ perf # "result" THEN "fail" ELSE "pass"
    BY <2>3, <2>4, <1>1
  <2>8. \A p \in Package, u \in Test : p # knownTests => mResults'[p][u] = mResults[p][u]
    BY <2>4
  <2>9. QED
    BY <2>1, <2>5, <2>6, <2>7, <2>8, <1>2, <1>4
<1>5. QED
  BY <1>3, <1>4

(***************************************************************************)
(* The finally block: what the filter still holds gets an entry, and no    *)
(* entry that is there changes.                                            *)
(***************************************************************************)
LEMMA LeaveTryEffect ==
  ASSUME IInv, NEW phase, LeaveTry(phase)
  PROVE  \A p \in Package, u \in Test :
           mResults'[p][u] =
             IF u \in mRemainingTestsMap[p] /\ mResults[p][u] = "absent"
               THEN "notExecuted" ELSE mResults[p][u]
<1>1. mResults' = [p \in Package |-> InsertTests(mResults[p], mRemainingTestsMap[p])]
  BY DEF LeaveTry, ReportUnexecutedTests
<1>2. \A p \in Package : mResults[p] \in [Test -> Status]
  BY DEF IInv, TypeOK, Results
<1>3. \A p \in Package, u \in Test :
        InsertTests(mResults[p], mRemainingTestsMap[p])[u] =
          IF u \in mRemainingTestsMap[p] /\ mResults[p][u] = "absent"
            THEN "notExecuted" ELSE mResults[p][u]
  BY <1>2, InsertTestsAt
<1>4. QED
  BY <1>1, <1>3

(***************************************************************************)
(* Which tests a derived plan runs, when known failures are left out: those *)
(* the report has as notExecuted.                                          *)
(***************************************************************************)
LEMMA DerivedPlanRuns ==
  ASSUME ~IncludeKnownFailures, NEW results, NEW p \in Package,
         NEW t \in TestsToRun(DerivedPlan(results))[p]
  PROVE  results[p][t] = "notExecuted"
BY SessionAssumption DEF TestsToRun, DerivedPlan, Repo, GetTestsWithStatus

(***************************************************************************)
(* The inductive invariant holds initially.                                *)
(***************************************************************************)
LEMMA IInvInit == ASSUME Init PROVE IInv
<1>1. TypeOK
  BY TypeInit
<1>2. VerdictsEarned /\ SavedDefined /\ OnlyDefinedTests
  BY DEF Init, VerdictsEarned, Verdict, SavedDefined, OnlyDefinedTests, NoResults, NoHistory
<1>3. InProgress
  BY DEF Init, InProgress, NoTests
<1>4. FilterCurrent /\ ContinueExpected /\ Accounted /\ EventsCredited
  BY DEF Init, FilterCurrent, ContinueExpected, Accounted, EventsCredited, Built, InTry
<1>5. QED
  BY <1>1, <1>2, <1>3, <1>4 DEF IInv

(***************************************************************************)
(* The parts that only relate results, history and the saved report hold   *)
(* after a step that leaves these alone.                                   *)
(***************************************************************************)
LEMMA ReportUnchanged ==
  ASSUME IInv, UNCHANGED <<mResults, history, saved>>
  PROVE  VerdictsEarned' /\ SavedDefined' /\ OnlyDefinedTests'
BY DEF IInv, VerdictsEarned, Verdict, SavedDefined, OnlyDefinedTests

(***************************************************************************)
(* Starting to run a plan: everything expected is in the new filter.       *)
(***************************************************************************)
LEMMA RunStep ==
  ASSUME IInv, TypeOK', NEW plan, DOMAIN plan \subseteq Package, Run(plan),
         continuing => plan = DerivedPlan(saved.results)
  PROVE  IInv'
<1> USE DEF Run, NewResultFilter, planVars, reporterVars, runnerVars
<1>1. VerdictsEarned' /\ SavedDefined' /\ OnlyDefinedTests'
  BY ReportUnchanged
<1>2. InProgress'
  BY PlanTypes DEF IInv, InProgress
<1>3. FilterCurrent'
  BY PlanTypes DEF FilterCurrent
<1>4. Accounted'
  BY PlanTypes DEF Accounted, InTry
<1>5. EventsCredited'
  BY DEF EventsCredited
<1>6. ContinueExpected'
  <2>1. expected = NoTests
    BY DEF IInv, InProgress
  <2>2. \A p \in Package, t \in Test : continuing => mResults[p][t] = saved.results[p][t]
    BY <2>1 DEF IInv, ContinueExpected, NoTests
  <2>3. \A p \in Package : \A t \in expected'[p] :
          continuing /\ ~IncludeKnownFailures => saved.results[p][t] = "notExecuted"
    BY DerivedPlanRuns
  <2>4. QED
    BY <2>2, <2>3 DEF ContinueExpected
<1>7. QED
  BY <1>1, <1>2, <1>3, <1>4, <1>5, <1>6 DEF IInv

(***************************************************************************)
(* Leaving the try block: nothing that was expected is missing any more.   *)
(***************************************************************************)
LEMMA LeaveTryStep ==
  ASSUME IInv, TypeOK', pc \in InTry, NEW phase \in {"over", "lost"}, LeaveTry(phase)
  PROVE  IInv'
<1> USE DEF LeaveTry, planVars, filterVars
<1>1. \A p \in Package : mRemainingTestsMap[p] \subseteq expected[p]
  BY DEF IInv, FilterCurrent
<1>2. \A p \in Package : expected[p] \subseteq PackageTests[p]
  BY DEF IInv, InProgress
<1>3. \A p \in Package : expected[p] \subseteq Test
  BY DEF IInv, TypeOK
<1>4. Accounted'
  <2>1. \A p \in Package : \A t \in expected[p] :
          mResults[p][t] = "absent" => t \in mRemainingTestsMap[p]
    BY DEF IInv, Accounted, Built
  <2>2. QED
    BY <2>1, <1>3, LeaveTryEffect DEF Accounted
<1>5. VerdictsEarned'
  BY LeaveTryEffect DEF IInv, VerdictsEarned, Verdict
<1>6. OnlyDefinedTests'
  BY <1>1, <1>2, LeaveTryEffect DEF IInv, OnlyDefinedTests
<1>7. ContinueExpected'
  <2>1. \A p \in Package, t \in Test :
          t \notin expected[p] => mResults'[p][t] = mResults[p][t]
    BY <1>1, LeaveTryEffect
  <2>2. UNCHANGED <<continuing, expected, saved>>
    OBVIOUS
  <2>3. QED
    BY <2>1, <2>2 DEF IInv, ContinueExpected
<1>8. InProgress'
  BY DEF IInv, InProgress, InTry
<1>9. FilterCurrent' /\ EventsCredited'
  BY DEF FilterCurrent, EventsCredited, InTry
<1>10. SavedDefined'
  BY DEF IInv, SavedDefined
<1>11. QED
  BY <1>4, <1>5, <1>6, <1>7, <1>8, <1>9, <1>10 DEF IInv

(***************************************************************************)
(* The start of a test.                                                    *)
(***************************************************************************)
LEMMA TestStartedStep ==
  ASSUME IInv, TypeOK', NEW t \in Test, TestStarted(t)
  PROVE  IInv'
<1>1. UNCHANGED <<pc, planVars, mRemainingTestPkgs, knownTests, filterVars, mCurrentPkgResult,
                  mMap, runOpen, saved, history>> /\ begun' = begun \cup {t} /\ pc = "running" /\ runOpen
  BY DEF TestStarted
<1>2. /\ knownTests \in Package
      /\ mCurrentTestRun = knownTests
      /\ mCurrentPkgResult = knownTests
  BY <1>1, KnownIffExpected
<1>3. \A p \in Package : expected[p] \subseteq PackageTests[p]
  BY DEF IInv, InProgress
<1> USE <1>1 DEF planVars, filterVars
<1>4. Accounted'
  BY StartedEffect DEF IInv, TypeOK, Accounted
<1>5. VerdictsEarned'
  BY StartedEffect DEF IInv, VerdictsEarned, Verdict
<1>6. OnlyDefinedTests'
  BY <1>3, StartedEffect DEF IInv, OnlyDefinedTests
<1>7. ContinueExpected'
  <2>1. \A p \in Package, u \in Test :
          u \notin expected[p] => mResults'[p][u] = mResults[p][u]
    BY StartedEffect
  <2>2. QED
    BY <2>1 DEF IInv, ContinueExpected
<1>8. InProgress'
  BY DEF IInv, InProgress
<1>9. FilterCurrent'
  BY DEF IInv, FilterCurrent
<1>10. EventsCredited'
  <2>1. t \in expected[knownTests] => mResults'[knownTests][t] # "absent"
    BY <1>2, StartedEffect
  <2>2. \A u \in begun \cap expected[knownTests] : u \in Test /\ mResults[knownTests][u] # "absent"
    BY DEF IInv, TypeOK, EventsCredited
  <2>3. \A u \in begun \cap expected[knownTests] : mResults'[knownTests][u] # "absent"
    BY <1>2, <2>2, StartedEffect
  <2>4. QED
    BY <1>2, <2>1, <2>3 DEF EventsCredited
<1>11. SavedDefined'
  BY DEF IInv, SavedDefined
<1>12. QED
  BY <1>4, <1>5, <1>6, <1>7, <1>8, <1>9, <1>10, <1>11 DEF IInv

(***************************************************************************)
(* A failure.                                                              *)
(***************************************************************************)
LEMMA TestFailedStep ==
  ASSUME IInv, TypeOK', NEW t \in Test, TestFailed(t)
  PROVE  IInv'
<1>1. UNCHANGED <<pc, planVars, mRemainingTestPkgs, knownTests, filterVars, mCurrentPkgResult,
                  mMap, runnerVars, saved>> /\ t \in begun /\ pc = "running"
  BY DEF TestFailed
<1>2. runOpen
  BY <1>1, SessionAssumption DEF IInv, InProgress
<1>3. /\ knownTests \in Package
      /\ mCurrentTestRun = knownTests
      /\ mCurrentPkgResult = knownTests
  BY <1>1, <1>2, KnownIffExpected
<1>4. \A p \in Package : expected[p] \subseteq PackageTests[p]
  BY DEF IInv, InProgress
<1> USE <1>1 DEF planVars, filterVars, runnerVars
<1>5. Accounted'
  BY FailedEffect DEF IInv, TypeOK, Accounted
<1>6. VerdictsEarned'
  <2>1. Verdict(mResults', history')
    BY FailedEffect DEF IInv, VerdictsEarned, Verdict
  <2>2. Verdict(saved'.results, saved'.history)
    BY DEF IInv, VerdictsEarned
  <2>3. QED
    BY <2>1, <2>2 DEF VerdictsEarned, Verdict
<1>7. OnlyDefinedTests'
  BY <1>4, FailedEffect DEF IInv, OnlyDefinedTests
<1>8. ContinueExpected'
  <2>1. \A p \in Package, u \in Test :
          u \notin expected[p] => mResults'[p][u] = mResults[p][u]
    BY FailedEffect
  <2>2. QED
    BY <2>1 DEF IInv, ContinueExpected
<1>9. InProgress'
  BY DEF IInv, InProgress
<1>10. FilterCurrent'
  BY DEF IInv, FilterCurrent
<1>11. EventsCredited'
  <2>1. \A u \in begun \cap expected[knownTests] : u \in Test /\ mResults[knownTests][u] # "absent"
    BY DEF IInv, TypeOK, EventsCredited
  <2>2. \A u \in begun \cap expected[knownTests] : mResults'[knownTests][u] # "absent"
    BY <1>3, <2>1, FailedEffect
  <2>3. QED
    BY <1>3, <2>2 DEF EventsCredited
<1>12. SavedDefined'
  BY DEF IInv, SavedDefined
<1>13. QED
  BY <1>5, <1>6, <1>7, <1>8, <1>9, <1>10, <1>11, <1>12 DEF IInv

(***************************************************************************)
(* The end of a test: the filter forgets it once the reporter has it.      *)
(***************************************************************************)
LEMMA TestHasEndedStep ==
  ASSUME IInv, TypeOK', NEW t \in Test, NEW m \in PerfText, TestHasEnded(t, m)
  PROVE  IInv'
<1>1. UNCHANGED <<pc, planVars, mRemainingTestPkgs, knownTests, mKnownTestsMap, mCurrentTestRun,
                  mCurrentPkgResult, runnerVars, saved>>
      /\ t \in begun /\ pc = "running"
  BY DEF TestHasEnded
<1>2. runOpen
  BY <1>1, SessionAssumption DEF IInv, InProgress
<1>3. /\ knownTests \in Package
      /\ mCurrentTestRun = knownTests
      /\ mCurrentPkgResult = knownTests
  BY <1>1, <1>2, KnownIffExpected
<1>4. \A p \in Package : expected[p] \subseteq PackageTests[p]
  BY DEF IInv, InProgress
<1> USE <1>1 DEF planVars, runnerVars
<1>5. \A p \in Package, u \in Test :
        u \notin expected[p] => mResults'[p][u] = mResults[p][u]
  BY EndedEffect
<1>forgets. \A p \in Package :
         mRemainingTestsMap'[p] = IF p = knownTests /\ t \in expected[p]
                                    THEN mRemainingTestsMap[p] \ {t}
                                    ELSE mRemainingTestsMap[p]
  BY EndedEffect
<1>6. Accounted'
  <2>1. \A p \in Package, u \in Test :
          mResults'[p][u] = "absent" =>
            mResults[p][u] = "absent" /\ ~(p = knownTests /\ u = t /\ t \in expected[p])
    BY EndedEffect
  <2>2. \A p \in Package, u \in Test :
          u \in mRemainingTestsMap[p] /\ ~(p = knownTests /\ u = t /\ t \in expected[p])
            => u \in mRemainingTestsMap'[p]
    BY <1>forgets
  <2>3. QED
    BY <2>1, <2>2 DEF IInv, TypeOK, Accounted
<1>7. VerdictsEarned'
  <2>1. Verdict(mResults', history')
    <3> SUFFICES ASSUME NEW p \in Package, NEW u \in Test
                 PROVE  /\ history'[p][u] = "none" => mResults'[p][u] \in {"absent", "notExecuted"}
                        /\ history'[p][u] = "ended" => mResults'[p][u] = "pass"
                        /\ history'[p][u] = "failed" =>
                             mResults'[p][u] = "fail" \/ (u \in PerfTests /\ mResults'[p][u] = "pass")
      BY DEF Verdict
    <3>1. /\ history[p][u] = "none" => mResults[p][u] \in {"absent", "notExecuted"}
          /\ history[p][u] = "ended" => mResults[p][u] = "pass"
          /\ history[p][u] = "failed" =>
               mResults[p][u] = "fail" \/ (u \in PerfTests /\ mResults[p][u] = "pass")
      BY DEF IInv, VerdictsEarned, Verdict
    <3>2. history[p][u] \in {"none", "ended", "failed"}
      BY DEF IInv, TypeOK, History
    <3>3. CASE p = knownTests /\ u = t /\ t \in expected[p]
      BY <3>1, <3>2, <3>3, EndedEffect
    <3>4. CASE ~(p = knownTests /\ u = t /\ t \in expected[p])
      BY <3>1, <3>4, EndedEffect
    <3>5. QED
      BY <3>3, <3>4
  <2>2. Verdict(saved'.results, saved'.history)
    BY DEF IInv, VerdictsEarned
  <2>3. QED
    BY <2>1, <2>2 DEF VerdictsEarned, Verdict
<1>8. OnlyDefinedTests'
  BY <1>4, <1>5 DEF IInv, OnlyDefinedTests
<1>9. ContinueExpected'
  BY <1>5 DEF IInv, ContinueExpected
<1>10. InProgress'
  BY DEF IInv, InProgress, TestHasEnded
<1>11. FilterCurrent'
  <2>1. \A p \in Package : mRemainingTestsMap'[p] \subseteq mRemainingTestsMap[p]
    BY <1>forgets
  <2>2. QED
    BY <2>1 DEF IInv, FilterCurrent
<1>12. EventsCredited'
  <2>1. \A u \in begun \cap expected[knownTests] : u \in Test /\ mResults[knownTests][u] # "absent"
    BY DEF IInv, TypeOK, EventsCredited
  <2>2. \A u \in begun \cap expected[knownTests] : mResults'[knownTests][u] # "absent"
    BY <1>3, <2>1, EndedEffect
  <2>3. QED
    BY <1>3, <2>2 DEF EventsCredited
<1>13. SavedDefined'
  BY DEF IInv, SavedDefined
<1>14. QED
  BY <1>6, <1>7, <1>8, <1>9, <1>10, <1>11, <1>12, <1>13 DEF IInv

(***************************************************************************)
(* The inductive step of the invariant.                                    *)
(***************************************************************************)
LEMMA IInvStep == ASSUME IInv, [Next]_vars PROVE IInv'
<1>0. TypeOK'
  BY TypeStep DEF IInv
<1> USE <1>0 DEF planVars, filterVars, reporterVars, runnerVars
<1>1. CASE InvocationStarted
  <2>1. VerdictsEarned' /\ SavedDefined' /\ OnlyDefinedTests'
    BY <1>1 DEF InvocationStarted, IInv, VerdictsEarned, Verdict, SavedDefined, OnlyDefinedTests,
                NoResults, NoHistory
  <2>2. InProgress' /\ FilterCurrent' /\ ContinueExpected' /\ Accounted' /\ EventsCredited'
    BY <1>1 DEF InvocationStarted, IInv, InProgress, FilterCurrent, ContinueExpected, Accounted,
                EventsCredited, Built, InTry
  <2>3. QED
    BY <2>1, <2>2 DEF IInv
<1>2. CASE ContinueSession
  <2>1. VerdictsEarned' /\ SavedDefined' /\ OnlyDefinedTests'
    BY <1>2 DEF ContinueSession, IInv, VerdictsEarned, Verdict, SavedDefined, OnlyDefinedTests
  <2>2. expected = NoTests
    BY <1>2 DEF ContinueSession, IInv, InProgress
  <2>3. ContinueExpected'
    BY <1>2, <2>2 DEF ContinueSession, ContinueExpected, NoTests
  <2>4. InProgress' /\ FilterCurrent' /\ Accounted' /\ EventsCredited'
    BY <1>2 DEF ContinueSession, IInv, InProgress, FilterCurrent, Accounted, EventsCredited,
                Built, InTry
  <2>5. QED
    BY <2>1, <2>3, <2>4 DEF IInv
<1>3. CASE RunPlan
  BY <1>3, RunStep, SessionAssumption DEF RunPlan
<1>4. CASE RunDerivedPlan
  BY <1>4, RunStep, DerivedPlanDomain DEF RunDerivedPlan
<1>5. CASE Resumed
  <2>1. VerdictsEarned' /\ SavedDefined' /\ OnlyDefinedTests'
    BY <1>5, ReportUnchanged DEF Resumed
  <2>2. ContinueExpected' /\ InProgress' /\ EventsCredited' /\ FilterCurrent'
    BY <1>5 DEF Resumed, NewResultFilter, IInv, ContinueExpected, InProgress, EventsCredited,
                FilterCurrent
  <2>3. Accounted'
    BY <1>5 DEF Resumed, IInv, Accounted, Built, InTry
  <2>4. QED
    BY <2>1, <2>2, <2>3 DEF IInv
<1>6. CASE Prepare \/ BetweenPackages
  <2>1. VerdictsEarned' /\ SavedDefined' /\ OnlyDefinedTests'
    BY <1>6, ReportUnchanged DEF Prepare, BetweenPackages
  <2>2. ContinueExpected' /\ InProgress' /\ EventsCredited' /\ FilterCurrent' /\ Accounted'
    BY <1>6 DEF Prepare, BetweenPackages, IInv, ContinueExpected, InProgress, EventsCredited,
                FilterCurrent, Accounted, Built, InTry
  <2>3. QED
    BY <2>1, <2>2 DEF IInv
<1>7. ASSUME NEW p \in Package, StartPackage(p)
      PROVE  IInv'
  <2>1. VerdictsEarned' /\ SavedDefined' /\ OnlyDefinedTests'
    BY <1>7, ReportUnchanged DEF StartPackage
  <2>2. InProgress' /\ EventsCredited'
    BY <1>7, SessionAssumption DEF StartPackage, First, IInv, TypeOK, InProgress, EventsCredited
  <2>3. ContinueExpected' /\ FilterCurrent' /\ Accounted'
    BY <1>7 DEF StartPackage, IInv, ContinueExpected, FilterCurrent, Accounted, Built, InTry
  <2>4. QED
    BY <2>1, <2>2, <2>3 DEF IInv
<1>8. CASE PackageReturned
  <2>1. VerdictsEarned' /\ SavedDefined' /\ OnlyDefinedTests'
    BY <1>8, ReportUnchanged DEF PackageReturned
  <2>2. InProgress' /\ EventsCredited'
    BY <1>8 DEF PackageReturned, IInv, InProgress, EventsCredited
  <2>3. ContinueExpected' /\ FilterCurrent' /\ Accounted'
    BY <1>8 DEF PackageReturned, IInv, ContinueExpected, FilterCurrent, Accounted, Built, InTry
  <2>4. QED
    BY <2>1, <2>2, <2>3 DEF IInv
<1>9. CASE Finish \/ DeviceLost \/ PackageThrew
  <2>1. pc \in InTry
    BY <1>9 DEF Finish, DeviceLost, PackageThrew, InTry
  <2>2. \E phase \in {"over", "lost"} : LeaveTry(phase)
    BY <1>9 DEF Finish, DeviceLost, PackageThrew
  <2>3. QED
    BY <2>1, <2>2, LeaveTryStep
<1>10. ASSUME NEW file, InvocationEnded(file)
       PROVE  IInv'
  <2>1. /\ saved'.results = mResults /\ saved'.history = history
        /\ mResults' = NoResults /\ history' = NoHistory
        /\ expected' = NoTests /\ mMap' = mMap
        /\ pc' = "idle" /\ ~continuing' /\ ~runOpen' /\ begun' = {}
    BY <1>10 DEF InvocationEnded, Discard
  <2>2. VerdictsEarned'
    <3>1. Verdict(NoResults, NoHistory)
      BY DEF Verdict, NoResults, NoHistory
    <3>2. Verdict(mResults, history)
      BY DEF IInv, VerdictsEarned
    <3>3. QED
      BY <2>1, <3>1, <3>2 DEF VerdictsEarned, Verdict
  <2>3. SavedDefined' /\ OnlyDefinedTests'
    BY <2>1 DEF IInv, SavedDefined, OnlyDefinedTests, NoResults
  <2>4. InProgress'
    BY <2>1 DEF IInv, InProgress, NoTests
  <2>5. ContinueExpected' /\ FilterCurrent' /\ Accounted' /\ EventsCredited'
    BY <2>1 DEF ContinueExpected, FilterCurrent, Accounted, EventsCredited, Built, InTry
  <2>6. QED
    BY <2>2, <2>3, <2>4, <2>5 DEF IInv
<1>11. CASE HostCrash
  <2>1. /\ saved' = saved /\ mResults' = NoResults /\ history' = NoHistory
        /\ expected' = NoTests /\ mMap' = {}
        /\ pc' = "idle" /\ ~continuing' /\ ~runOpen' /\ begun' = {}
    BY <1>11 DEF HostCrash, Discard
  <2>2. VerdictsEarned'
    <3>1. Verdict(NoResults, NoHistory)
      BY DEF Verdict, NoResults, NoHistory
    <3>2. Verdict(saved.results, saved.history)
      BY DEF IInv, VerdictsEarned
    <3>3. QED
      BY <2>1, <3>1, <3>2 DEF VerdictsEarned, Verdict
  <2>3. SavedDefined' /\ OnlyDefinedTests'
    BY <2>1 DEF IInv, SavedDefined, OnlyDefinedTests, NoResults
  <2>4. InProgress'
    BY <2>1 DEF InProgress, NoTests
  <2>5. ContinueExpected' /\ FilterCurrent' /\ Accounted' /\ EventsCredited'
    BY <2>1 DEF ContinueExpected, FilterCurrent, Accounted, EventsCredited, Built, InTry
  <2>6. QED
    BY <2>2, <2>3, <2>4, <2>5 DEF IInv
<1>12. CASE TestRunStarted
  <2>1. VerdictsEarned' /\ SavedDefined' /\ OnlyDefinedTests'
    BY <1>12, ReportUnchanged DEF TestRunStarted
  <2>2. InProgress' /\ EventsCredited'
    BY <1>12, SessionAssumption DEF TestRunStarted, IInv, TypeOK, InProgress, EventsCredited
  <2>3. ContinueExpected' /\ FilterCurrent' /\ Accounted'
    BY <1>12 DEF TestRunStarted, IInv, ContinueExpected, FilterCurrent, Accounted
  <2>4. QED
    BY <2>1, <2>2, <2>3 DEF IInv
<1>13. ASSUME NEW t \in Test, TestStarted(t) \/ TestFailed(t)
       PROVE  IInv'
  BY <1>13, TestStartedStep, TestFailedStep
<1>14. ASSUME NEW t \in Test, NEW m \in PerfText, TestHasEnded(t, m)
       PROVE  IInv'
  BY <1>14, TestHasEndedStep
<1>15. ASSUME NEW t \in Test, StoreCtsResult(t)
       PROVE  IInv'
  <2>1. VerdictsEarned' /\ SavedDefined' /\ OnlyDefinedTests'
    BY <1>15, ReportUnchanged DEF StoreCtsResult
  <2>2. InProgress' /\ EventsCredited'
    BY <1>15 DEF StoreCtsResult, IInv, InProgress, EventsCredited
  <2>3. ContinueExpected' /\ FilterCurrent' /\ Accounted'
    BY <1>15 DEF StoreCtsResult, IInv, ContinueExpected, FilterCurrent, Accounted
  <2>4. QED
    BY <2>1, <2>2, <2>3 DEF IInv
<1>16. CASE UNCHANGED vars
  <2>1. VerdictsEarned' /\ SavedDefined' /\ OnlyDefinedTests'
    BY <1>16, ReportUnchanged DEF vars
  <2>2. InProgress' /\ EventsCredited' /\ ContinueExpected' /\ FilterCurrent' /\ Accounted'
    BY <1>16 DEF vars, IInv, InProgress, EventsCredited, ContinueExpected, FilterCurrent, Accounted
  <2>3. QED
    BY <2>1, <2>2 DEF IInv
<1>17. QED
  BY <1>1, <1>2, <1>3, <1>4, <1>5, <1>6, <1>7, <1>8, <1>9, <1>10, <1>11, <1>12, <1>13,
     <1>14, <1>15, <1>16
  DEF Next, Start, Harness, PackageTest, Fault

(***************************************************************************)
(* The invariant, and what follows from it.                                *)
(***************************************************************************)
THEOREM Invariant == Spec => []IInv
<1>1. Init => IInv
  BY IInvInit
<1>2. IInv /\ [Next]_vars => IInv'
  BY IInvStep
<1>3. QED
  BY <1>1, <1>2, PTL DEF Spec

(***************************************************************************)
(* When run() has been left, by a normal return, a lost device or an       *)
(* exception of a package test, no expected test is missing in the report. *)
(***************************************************************************)
THEOREM NothingLost == Spec => []Accounted
<1>1. IInv => Accounted
  BY DEF IInv
<1>2. QED
  BY <1>1, Invariant, PTL

(***************************************************************************)
(* Every verdict, in memory and in testResult.xml, is the one the events   *)
(* of all attempts and invocations earned.                                 *)
(***************************************************************************)
THEOREM VerdictsCorrect == Spec => []VerdictsEarned
<1>1. IInv => VerdictsEarned
  BY DEF IInv
<1>2. QED
  BY <1>1, Invariant, PTL

(***************************************************************************)
(* The filter and the reporter credit events to the package in progress.   *)
(***************************************************************************)
THEOREM EventsCorrect == Spec => []EventsCredited
<1>1. IInv => EventsCredited
  BY DEF IInv
<1>2. QED
  BY <1>1, Invariant, PTL

(***************************************************************************)
(* The report lists only tests that a package defines.                     *)
(***************************************************************************)
THEOREM ReportDefined == Spec => []OnlyDefinedTests
<1>1. IInv => OnlyDefinedTests
  BY DEF IInv
<1>2. QED
  BY <1>1, Invariant, PTL

(***************************************************************************)
(* Unless --run-known-failures is set, continuing a session never changes  *)
(* a verdict of the saved report: a derived plan runs what the report has  *)
(* as notExecuted, and nothing else is touched.                            *)
(***************************************************************************)
THEOREM ContinueCorrect ==
  ASSUME IncludeKnownFailures = FALSE
  PROVE  Spec => []ContinueKeepsVerdicts
<1>1. IInv => ContinueKeepsVerdicts
  BY DEF IInv, ContinueExpected, ContinueKeepsVerdicts
<1>2. QED
  BY <1>1, Invariant, PTL
===============================================================================
