----------------------------- MODULE VerdictLedger -----------------------------
(***************************************************************************)
(* What a CTS session promises, without the filter, the list of packages   *)
(* and the reporter's bookkeeping: a ledger with a line for each test,     *)
(* opened empty or from the ledger that was kept, filled while it is open, *)
(* complete whenever it is closed, kept when it is closed.  CtsSession     *)
(* implements it.                                                          *)
(***************************************************************************)
CONSTANTS
  Package, Test,
  Listed,       \* the tests each package defines
  PerfTests,    \* tests whose performance result overrides a failure
  Again         \* may a reopened ledger be changed where it has a verdict?

VARIABLES
  stage,        \* none, open, closed
  reopened,     \* the ledger was opened from the one kept
  chosen,       \* tests this ledger has to account for
  ledger,       \* what is known of each test
  kept          \* the ledger on file

vars == <<stage, reopened, chosen, ledger, kept>>

Nothing == [p \in Package |-> {}]
Empty   == [p \in Package |-> [t \in Test |-> "absent"]]

Init ==
  /\ stage = "none" /\ reopened = FALSE
  /\ chosen = Nothing /\ ledger = Empty
  /\ kept = [file |-> "none", ledger |-> Empty]

\* Lines for the tests of S that have none yet.
Entered(S) ==
  [p \in Package |-> [t \in Test |->
     IF t \in S[p] /\ ledger[p][t] = "absent" THEN "notExecuted" ELSE ledger[p][t]]]

\* A new ledger; what was on file was no use.
Open ==
  /\ stage = "none" /\ kept.file # "written"
  /\ stage' = "open"
  /\ kept' = [file |-> "none", ledger |-> Empty]
  /\ UNCHANGED <<reopened, chosen, ledger>>

\* The kept ledger is continued: every line is as it was.
Reopen ==
  /\ stage = "none" /\ kept.file = "written"
  /\ stage' = "open" /\ reopened' = TRUE /\ ledger' = kept.ledger
  /\ UNCHANGED <<chosen, kept>>

\* The tests to account for, chosen once.  A reopened ledger chooses tests
\* without a verdict.
Choose ==
  /\ stage = "open" /\ chosen = Nothing
  /\ chosen' \in [Package -> SUBSET Test]
  /\ \A p \in Package : chosen'[p] \subseteq Listed[p]
  /\ reopened /\ ~Again =>
       \A p \in Package : \A t \in chosen'[p] : ledger[p][t] = "notExecuted"
  /\ UNCHANGED <<stage, reopened, ledger, kept>>

Enter(p, t) ==
  /\ stage = "open" /\ t \in chosen[p]
  /\ ledger' = Entered([Nothing EXCEPT ![p] = {t}])
  /\ UNCHANGED <<stage, reopened, chosen, kept>>

Fail(p, t) ==
  /\ stage = "open" /\ t \in chosen[p] /\ ledger[p][t] # "absent"
  /\ ledger' = [ledger EXCEPT ![p][t] = "fail"]
  /\ UNCHANGED <<stage, reopened, chosen, kept>>

\* A failure is final, but for performance results.
Pass(p, t) ==
  /\ stage = "open" /\ t \in chosen[p] /\ ledger[p][t] # "absent"
  /\ ledger[p][t] = "fail" => t \in PerfTests
  /\ ledger' = [ledger EXCEPT ![p][t] = "pass"]
  /\ UNCHANGED <<stage, reopened, chosen, kept>>

\* However the ledger is closed, every chosen test has its line.
Close ==
  /\ stage = "open"
  /\ stage' = "closed" /\ ledger' = Entered(chosen)
  /\ UNCHANGED <<reopened, chosen, kept>>

\* Work on a closed ledger goes on.
TakeUp ==
  /\ stage = "closed" /\ stage' = "open"
  /\ UNCHANGED <<reopened, chosen, ledger, kept>>

Clear ==
  /\ stage' = "none" /\ reopened' = FALSE /\ chosen' = Nothing /\ ledger' = Empty

Keep ==
  /\ stage = "closed" /\ Clear
  /\ \E file \in {"written", "truncated"} : kept' = [file |-> file, ledger |-> ledger]

Lose == stage # "none" /\ Clear /\ UNCHANGED kept

Next ==
  \/ Open \/ Reopen \/ Choose \/ Close \/ TakeUp \/ Keep \/ Lose
  \/ \E p \in Package, t \in Test : Enter(p, t) \/ Fail(p, t) \/ Pass(p, t)

Spec == Init /\ [][Next]_vars
===============================================================================
