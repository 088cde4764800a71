---------------------------- MODULE CtsLedgerProofs ----------------------------
(***************************************************************************)
(* CtsSession implements VerdictLedger, for any packages, tests and plans. *)
(* Each step of the session is one of the ledger or leaves it alone; what  *)
(* a step needs to know of the state is the invariant of CtsSessionProofs. *)
(***************************************************************************)
EXTENDS CtsSessionProofs

(* The state of the ledger. *)
LedgerView == <<Stage, continuing, expected, mResults, saved.file, saved.results>>

LEMMA LedgerStutters ==
  ASSUME UNCHANGED LedgerView
  PROVE  UNCHANGED Ledger!vars
BY DEF LedgerView, Ledger!vars, Stage

(* What the two modules call empty is the same. *)
LEMMA SameEmpty == Ledger!Nothing = NoTests /\ Ledger!Empty = NoResults
BY DEF Ledger!Nothing, Ledger!Empty, NoTests, NoResults

(* A result tree whose entries are those of Entered(S) is Entered(S). *)
LEMMA EnteredEqual ==
  ASSUME NEW f \in Results, NEW S,
         \A p \in Package, t \in Test : f[p][t] = Ledger!Entered(S)[p][t]
  PROVE  f = Ledger!Entered(S)
<1>1. \A p \in Package : f[p] = Ledger!Entered(S)[p]
  <2> SUFFICES ASSUME NEW p \in Package
               PROVE  f[p] = Ledger!Entered(S)[p]
    OBVIOUS
  <2>1. f[p] \in [Test -> Status]
    BY DEF Results
  <2>2. Ledger!Entered(S)[p] = [t \in Test |-> Ledger!Entered(S)[p][t]]
    BY DEF Ledger!Entered
  <2>3. QED
    BY <2>1, <2>2
<1>2. QED
  BY <1>1 DEF Results, Ledger!Entered

LEMMA LedgerInit == ASSUME Init PROVE Ledger!Init
BY SameEmpty DEF Init, Ledger!Init, Stage

(***************************************************************************)
(* Choosing what to run.                                                   *)
(***************************************************************************)
LEMMA LedgerRun ==
  ASSUME IInv, RunPlan \/ RunDerivedPlan
  PROVE  Ledger!Choose
<1>1. PICK plan : /\ DOMAIN plan \subseteq Package
                  /\ Run(plan)
                  /\ continuing => plan = DerivedPlan(saved.results)
  BY SessionAssumption, DerivedPlanDomain DEF RunPlan, RunDerivedPlan
<1>2. /\ Stage = "open" /\ Stage' = "open" /\ expected = NoTests
      /\ expected' = TestsToRun(plan)
      /\ UNCHANGED <<continuing, mResults, saved>>
  BY <1>1 DEF Run, Stage, InTry, IInv, InProgress, reporterVars
<1>3. /\ expected' \in [Package -> SUBSET Test]
      /\ \A p \in Package : expected'[p] \subseteq PackageTests[p]
  BY <1>1, <1>2, PlanTypes
<1>4. continuing /\ ~IncludeKnownFailures =>
        \A p \in Package : \A t \in expected'[p] : mResults[p][t] = "notExecuted"
  <2> SUFFICES ASSUME continuing, ~IncludeKnownFailures,
                      NEW p \in Package, NEW t \in expected'[p]
               PROVE  mResults[p][t] = "notExecuted"
    OBVIOUS
  <2>1. saved.results[p][t] = "notExecuted"
    BY <1>1, <1>2, DerivedPlanRuns
  <2>2. mResults[p][t] = saved.results[p][t]
    BY <1>2, <1>3 DEF IInv, ContinueExpected, NoTests
  <2>3. QED
    BY <2>1, <2>2
<1>5. QED
  BY <1>2, <1>3, <1>4, SameEmpty DEF Ledger!Choose

(***************************************************************************)
(* The events of a package test.                                           *)
(***************************************************************************)
LEMMA LedgerStarted ==
  ASSUME IInv, TypeOK', NEW t \in Test, TestStarted(t)
  PROVE  Ledger!Enter(knownTests, t) \/ UNCHANGED Ledger!vars
<1>1. /\ Stage = "open" /\ Stage' = "open"
      /\ UNCHANGED <<continuing, expected, saved>>
  BY DEF TestStarted, Stage, planVars
<1>2. knownTests \in Package
  BY KnownIffExpected DEF TestStarted
<1>3. CASE t \in expected[knownTests]
  <2> DEFINE S == [Ledger!Nothing EXCEPT ![knownTests] = {t}]
  <2>1. \A p \in Package, u \in Test : u \in S[p] <=> p = knownTests /\ u = t
    BY <1>2 DEF Ledger!Nothing
  <2>2. \A p \in Package, u \in Test : mResults'[p][u] = Ledger!Entered(S)[p][u]
    BY <1>3, <2>1, StartedEffect DEF Ledger!Entered
  <2>3. mResults' = Ledger!Entered(S)
    <3> HIDE DEF S
    <3>1. mResults' \in Results
      BY DEF TypeOK
    <3>2. QED
      BY <2>2, <3>1, EnteredEqual
  <2>4. QED
    BY <1>1, <1>3, <2>3 DEF Ledger!Enter
<1>4. CASE t \notin expected[knownTests]
  <2>1. mResults' = mResults
    BY <1>4, KnownIffExpected DEF TestStarted
  <2>2. QED
    BY <1>1, <2>1, LedgerStutters DEF LedgerView
<1>5. QED
  BY <1>3, <1>4

LEMMA LedgerFailed ==
  ASSUME IInv, TypeOK', NEW t \in Test, TestFailed(t)
  PROVE  Ledger!Fail(knownTests, t) \/ UNCHANGED Ledger!vars
<1>1. /\ Stage = "open" /\ Stage' = "open"
      /\ UNCHANGED <<continuing, expected, saved>>
      /\ pc = "running" /\ t \in begun
  BY DEF TestFailed, Stage, planVars
<1>2. runOpen
  BY <1>1 DEF IInv, InProgress
<1>3. knownTests \in Package /\ mResults \in Results /\ mResults' \in Results
  BY <1>1, <1>2, KnownIffExpected DEF IInv, TypeOK
<1>4. CASE t \in expected[knownTests]
  <2>1. mResults[knownTests][t] # "absent"
    BY <1>1, <1>4 DEF IInv, EventsCredited
  <2>2. mResults' = [mResults EXCEPT ![knownTests][t] = "fail"]
    BY <1>3, <1>4, FailedEffect DEF Results
  <2>3. QED
    BY <1>1, <1>4, <2>1, <2>2 DEF Ledger!Fail
<1>5. CASE t \notin expected[knownTests]
  <2>1. mResults' = mResults
    BY <1>1, <1>2, <1>5, KnownIffExpected DEF TestFailed
  <2>2. QED
    BY <1>1, <2>1, LedgerStutters DEF LedgerView
<1>6. QED
  BY <1>4, <1>5

LEMMA LedgerEnded ==
  ASSUME IInv, TypeOK', NEW t \in Test, NEW m, TestHasEnded(t, m)
  PROVE  Ledger!Pass(knownTests, t) \/ UNCHANGED Ledger!vars
<1>1. /\ Stage = "open" /\ Stage' = "open"
      /\ UNCHANGED <<continuing, expected, saved>>
      /\ pc = "running" /\ t \in begun
  BY DEF TestHasEnded, Stage, planVars
<1>2. runOpen
  BY <1>1 DEF IInv, InProgress
<1>3. knownTests \in Package /\ mResults \in Results /\ mResults' \in Results
  BY <1>1, <1>2, KnownIffExpected DEF IInv, TypeOK
<1>4. CASE t \in expected[knownTests] /\ mResults'[knownTests][t] = "pass"
  <2>1. mResults[knownTests][t] # "absent"
    BY <1>1, <1>4 DEF IInv, EventsCredited
  <2>2. mResults[knownTests][t] = "fail" => t \in PerfTests
    BY <1>3, <1>4, EndedEffect
  <2>3. mResults' = [mResults EXCEPT ![knownTests][t] = "pass"]
    <3>1. \A p \in Package, u \in Test :
            mResults'[p][u] = IF p = knownTests /\ u = t THEN "pass" ELSE mResults[p][u]
      BY <1>4, EndedEffect
    <3>2. QED
      BY <1>3, <3>1 DEF Results
  <2>4. QED
    BY <1>1, <1>4, <2>1, <2>2, <2>3 DEF Ledger!Pass
<1>5. CASE ~(t \in expected[knownTests] /\ mResults'[knownTests][t] = "pass")
  <2>1. \A p \in Package, u \in Test : mResults'[p][u] = mResults[p][u]
    BY <1>5, EndedEffect
  <2>2. mResults' = mResults
    BY <1>3, <2>1 DEF Results
  <2>3. QED
    BY <1>1, <2>2, LedgerStutters DEF LedgerView
<1>6. QED
  BY <1>4, <1>5

(***************************************************************************)
(* Leaving run(): what the filter has not seen end is all that can be      *)
(* missing, so the finally block enters exactly the chosen tests without   *)
(* a line.                                                                 *)
(***************************************************************************)
LEMMA LedgerLeave ==
  ASSUME IInv, TypeOK', pc \in InTry, NEW phase \in {"over", "lost"}, LeaveTry(phase)
  PROVE  Ledger!Close
<1>1. /\ Stage = "open" /\ Stage' = "closed"
      /\ UNCHANGED <<continuing, expected, saved>>
  BY DEF LeaveTry, Stage, InTry, planVars
<1>2. \A p \in Package, t \in Test :
        mResults[p][t] = "absent" => (t \in mRemainingTestsMap[p] <=> t \in expected[p])
  <2>1. \A p \in Package : mRemainingTestsMap[p] \subseteq expected[p]
    BY DEF IInv, FilterCurrent
  <2>2. QED
    BY <2>1 DEF IInv, Accounted, Built
<1>3. \A p \in Package, t \in Test : mResults'[p][t] = Ledger!Entered(expected)[p][t]
  BY <1>2, LeaveTryEffect DEF Ledger!Entered
<1>4. mResults' = Ledger!Entered(expected)
  <2>1. mResults' \in Results
    BY DEF TypeOK
  <2>2. QED
    BY <1>3, <2>1, EnteredEqual
<1>5. QED
  BY <1>1, <1>4 DEF Ledger!Close

(***************************************************************************)
(* Every step of the session is a step of the ledger.                      *)
(***************************************************************************)
LEMMA LedgerStep == ASSUME IInv, [Next]_vars PROVE [Ledger!Next]_(Ledger!vars)
<1>0. TypeOK'
  BY TypeStep DEF IInv
<1> USE DEF planVars, reporterVars, Stage, InTry
<1>1. CASE InvocationStarted
  <2>1. Ledger!Open
    BY <1>1, SameEmpty DEF InvocationStarted, Ledger!Open
  <2>2. QED
    BY <2>1 DEF Ledger!Next
<1>2. CASE ContinueSession
  <2>1. Ledger!Reopen
    BY <1>2 DEF ContinueSession, Ledger!Reopen
  <2>2. QED
    BY <2>1 DEF Ledger!Next
<1>3. CASE RunPlan \/ RunDerivedPlan
  BY <1>3, LedgerRun DEF Ledger!Next
<1>4. CASE Resumed
  <2>1. Ledger!TakeUp
    BY <1>4 DEF Resumed, Ledger!TakeUp
  <2>2. QED
    BY <2>1 DEF Ledger!Next
<1>5. CASE Prepare \/ PackageReturned \/ BetweenPackages \/ \E p \in Package : StartPackage(p)
  <2>1. UNCHANGED LedgerView
    BY <1>5 DEF Prepare, PackageReturned, BetweenPackages, StartPackage, LedgerView
  <2>2. QED
    BY <2>1, LedgerStutters
<1>6. CASE TestRunStarted \/ (\E t \in Test : StoreCtsResult(t)) \/ UNCHANGED vars
  <2>1. UNCHANGED LedgerView
    BY <1>6 DEF TestRunStarted, StoreCtsResult, vars, LedgerView
  <2>2. QED
    BY <2>1, LedgerStutters
<1>7. ASSUME NEW t \in Test, TestStarted(t)
      PROVE  [Ledger!Next]_(Ledger!vars)
  BY <1>0, <1>7, LedgerStarted, KnownIffExpected DEF Ledger!Next, TestStarted
<1>8. ASSUME NEW t \in Test, TestFailed(t)
      PROVE  [Ledger!Next]_(Ledger!vars)
  <2>1. knownTests \in Package
    BY <1>8, KnownIffExpected DEF TestFailed, IInv, InProgress
  <2>2. QED
    BY <1>0, <1>8, <2>1, LedgerFailed DEF Ledger!Next
<1>9. ASSUME NEW t \in Test, NEW m \in PerfText, TestHasEnded(t, m)
      PROVE  [Ledger!Next]_(Ledger!vars)
  <2>1. knownTests \in Package
    BY <1>9, KnownIffExpected DEF TestHasEnded, IInv, InProgress
  <2>2. QED
    BY <1>0, <1>9, <2>1, LedgerEnded DEF Ledger!Next
<1>10. CASE Finish \/ DeviceLost \/ PackageThrew
  <2>1. pc \in InTry /\ \E phase \in {"over", "lost"} : LeaveTry(phase)
    BY <1>10 DEF Finish, DeviceLost, PackageThrew
  <2>2. QED
    BY <1>0, <2>1, LedgerLeave DEF Ledger!Next
<1>11. ASSUME NEW file \in {"written", "truncated"}, InvocationEnded(file)
       PROVE  [Ledger!Next]_(Ledger!vars)
  <2>1. Ledger!Keep
    BY <1>11, SameEmpty DEF InvocationEnded, Discard, Ledger!Keep, Ledger!Clear
  <2>2. QED
    BY <2>1 DEF Ledger!Next
<1>12. CASE HostCrash
  <2>1. Ledger!Lose
    BY <1>12, SameEmpty DEF HostCrash, Discard, Ledger!Lose, Ledger!Clear
  <2>2. QED
    BY <2>1 DEF Ledger!Next
<1>13. QED
  BY <1>1, <1>2, <1>3, <1>4, <1>5, <1>6, <1>7, <1>8, <1>9, <1>10, <1>11, <1>12
  DEF Next, Start, Harness, PackageTest, Fault

(***************************************************************************)
(* The session implements the ledger: for any packages, tests and plans,   *)
(* whatever is sent and whatever fails, the report never loses a test,     *)
(* never mends a failure, never touches what was not chosen.               *)
(***************************************************************************)
THEOREM SessionImplementsLedger == Spec => ImplementsLedger
<1>1. Init => Ledger!Init
  BY LedgerInit
<1>2. IInv /\ [Next]_vars => [Ledger!Next]_(Ledger!vars)
  BY LedgerStep
<1>3. QED
  BY <1>1, <1>2, Invariant, PTL DEF Spec, ImplementsLedger, Ledger!Spec
===============================================================================
