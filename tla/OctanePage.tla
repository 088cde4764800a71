------------------------------ MODULE OctanePage ------------------------------
(***************************************************************************)
(* The Octane page: base.ts, which runs suites of benchmarks one after     *)
(* another, and the page's own script, which reports to the test.          *)
(*                                                                         *)
(* A suite hands RunStep a continuation, the function to call next; turn   *)
(* names it.  Between two continuations the page yields to a timer, and a  *)
(* report blocks the script: every action waits for Free.                  *)
(***************************************************************************)
EXTENDS CtsReport, Naturals, Sequences

CONSTANTS
  Suites,      \* BenchmarkSuite.suites, a sequence of names
  Benchmarks   \* how many benchmarks each of them has

ASSUME OctaneAssumption ==
  /\ Suites \in Seq(STRING) /\ Suites # <<>>
  /\ \A i, j \in DOMAIN Suites : Suites[i] = Suites[j] => i = j
  /\ Benchmarks \in [DOMAIN Suites -> Nat \ {0}]

VARIABLES
  turn,        \* "off", or what the page's script does next
  index,       \* suites begun
  benchmark,   \* index within the suite
  measured,    \* results of the suite
  scores,      \* suites with an entry in BenchmarkSuite.scores
  success,     \* no suite failed
  verdicts     \* history variable: what this page reported so far

octane == <<turn, index, benchmark, measured, scores, success, verdicts>>

OctaneOff ==
  /\ turn = "off" /\ index = 0 /\ benchmark = 0 /\ measured = 0
  /\ scores = {} /\ success = TRUE /\ verdicts = <<>>

\* A new page: all scripts are loaded, Load has set its timer.
OctaneFresh ==
  /\ turn' = "loading" /\ index' = 0 /\ benchmark' = 0 /\ measured' = 0
  /\ scores' = {} /\ success' = TRUE /\ verdicts' = <<>>

Suite == Suites[index]

\* The two messages of AddScore in the script of index.html, as onPost reads them:
\* a complete score ends in a space, and of "Octane Score(incomplete)" onPost takes
\* what is before the bracket for a message of its own.
CompleteScore == "Octane Score "
IncompleteScore == "Octane Score"

\* AddResult and AddScore.
Report(message, score, isFinal, round) ==
  /\ CtsReport(message, score, isFinal, round)
  /\ verdicts' = Append(verdicts, [message |-> message, score |-> score])

-------------------------------------------------------------------------------
\* CheckCompatibility with auto=1, Run and RunSuites.
RunSuites ==
  /\ turn = "loading" /\ turn' = "run"
  /\ scores' = {} /\ index' = 0
  /\ UNCHANGED <<benchmark, measured, success, verdicts, channel>>

\* Mutant: a failed suite does not make the score incomplete.
NotifyErrorComplete(suite, round) ==
  /\ Report(suite, "error", FALSE, round)
  /\ turn' = "run" /\ UNCHANGED success

\* An exception: AddError reports it, and there is no continuation.
NotifyError(suite, round) ==
  /\ Report(suite, "error", FALSE, round)
  /\ success' = FALSE /\ turn' = "run"

\* Setup of the next benchmark; it may throw.
Setup(suite, round) ==
  \/ turn' = "benchmark" /\ UNCHANGED <<success, verdicts, channel>>
  \/ NotifyError(suite, round)

\* RunStep without a continuation: the next suite and the setup of its first
\* benchmark, in the same turn.
NextSuite(round) ==
  /\ turn = "run" /\ index < Len(Suites)
  /\ index' = index + 1 /\ benchmark' = 0 /\ measured' = 0
  /\ Setup(Suites[index + 1], round)
  /\ UNCHANGED scores

\* The suite's score is its reference over the geometric mean of its results.
NotifyResult(round) ==
  /\ scores' = scores \cup {Suite}
  /\ Report(Suite, "number", FALSE, round)
  /\ turn' = "run" /\ UNCHANGED success

RunNextSetup(round) ==
  /\ turn = "setup"
  /\ \/ benchmark < Benchmarks[index] /\ Setup(Suite, round) /\ UNCHANGED scores
     \/ benchmark = Benchmarks[index] /\ NotifyResult(round)
  /\ UNCHANGED <<index, benchmark, measured>>

\* RunSingleBenchmark: it is measured until it has run minIterations times, in
\* one turn, and then has its result; or it throws.
RunNextBenchmark(round) ==
  /\ turn = "benchmark"
  /\ \/ /\ measured' = measured + 1 /\ turn' = "teardown"
        /\ UNCHANGED <<success, verdicts, channel>>
     \/ NotifyError(Suite, round) /\ UNCHANGED measured
  /\ UNCHANGED <<index, benchmark, scores>>

RunNextTearDown(round) ==
  /\ turn = "teardown" /\ benchmark' = benchmark + 1
  /\ \/ turn' = "setup" /\ UNCHANGED <<success, verdicts, channel>>
     \/ NotifyError(Suite, round)
  /\ UNCHANGED <<index, measured, scores>>

\* The geometric mean of no scores is not a number.
NotifyScore(round) ==
  /\ turn = "run" /\ index = Len(Suites)
  /\ Report(IF success THEN CompleteScore ELSE IncompleteScore,
            IF scores = {} THEN "NaN" ELSE "number", TRUE, round)
  /\ turn' = "scored"
  /\ UNCHANGED <<index, benchmark, measured, scores, success>>

OctaneStep(round) ==
  /\ Free
  /\ \/ RunSuites \/ NextSuite(round) \/ RunNextSetup(round) \/ RunNextBenchmark(round)
     \/ RunNextTearDown(round) \/ NotifyScore(round)

-------------------------------------------------------------------------------
\* However its benchmarks fail, a page gives one verdict per suite, in the order
\* of the suites, and then one final score.  A suite has a score only when every
\* benchmark of it was set up, measured and torn down, and the final score claims
\* to be complete only when all suites have one.
OneVerdictEach ==
  /\ \A k \in DOMAIN verdicts : k <= Len(Suites) => verdicts[k].message = Suites[k]
  /\ turn = "scored" <=> Len(verdicts) = Len(Suites) + 1
  /\ Len(verdicts) <= Len(Suites) + 1
  /\ turn = "run" /\ index > 0 /\ Suite \in scores =>
       measured = Benchmarks[index] /\ benchmark = measured
  /\ turn = "scored" /\ verdicts[Len(verdicts)].message = CompleteScore =>
       \A k \in DOMAIN verdicts : verdicts[k].score = "number"
===============================================================================
