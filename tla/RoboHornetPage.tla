---------------------------- MODULE RoboHornetPage ----------------------------
(***************************************************************************)
(* The RoboHornet page: a runner that loads one benchmark page after       *)
(* another into a frame, measures it with benchmark.js and reports.        *)
(*                                                                         *)
(* Nothing is in progress but what timers, the frame and the running       *)
(* suites will call back; each of them is a variable.  The page starts by  *)
(* itself; the user can start it before that, and again when it is done.   *)
(***************************************************************************)
EXTENDS CtsReport, Naturals, Sequences, FiniteSets

CONSTANTS
  RoboBenchmarks,  \* ROBOHORNET_DATA.benchmarks, a sequence of names
  MaxClicks        \* bound: how often the user clicks

Robo == { RoboBenchmarks[i] : i \in DOMAIN RoboBenchmarks }

\* enabledBenchmarks, without the two that are never set; a benchmark that was never
\* started has none.
BenchmarkStatus ==
  {"PENDING", "LOADING", "RUNNING", "SUCCESS", "SKIPPED", "POPUP_BLOCKED", "ABORTED"}

ASSUME RoboAssumption ==
  /\ RoboBenchmarks \in Seq(STRING)
  /\ \A i, j \in DOMAIN RoboBenchmarks : RoboBenchmarks[i] = RoboBenchmarks[j] => i = j
  /\ None \notin Robo /\ None \notin BenchmarkStatus
  /\ MaxClicks \in Nat

VARIABLES
  runner,           \* status_ of the runner
  currentIndex,     \* currentIndex_ + 1: how many benchmarks were taken
  status,           \* of each benchmark
  enabled,          \* benchmarks that are ticked
  activeBenchmark,
  benchmarkWindow,  \* a frame is in place
  frame,            \* the benchmark whose page the frame still loads
  autoTimer,        \* the timer that starts the runner
  nextTimers,       \* outstanding timers that call next_
  loadTimers,       \* outstanding timers of loadBenchmark_, by benchmark
  suites,           \* running suites of benchmark.js, by benchmark
  counted,          \* how often each benchmark is in score_ since the last start
  finite,           \* score_ is a number
  clicks, starts    \* how often the user clicked, the runner was started

robo == <<runner, currentIndex, status, enabled, activeBenchmark, benchmarkWindow, frame,
          autoTimer, nextTimers, loadTimers, suites, counted, finite, clicks, starts>>

None0 == [b \in Robo |-> 0]

RoboOff ==
  /\ runner = "LOADING" /\ currentIndex = 0 /\ status = [b \in Robo |-> None]
  /\ enabled = Robo /\ activeBenchmark = None /\ benchmarkWindow = FALSE /\ frame = None
  /\ autoTimer = FALSE /\ nextTimers = 0 /\ loadTimers = None0 /\ suites = None0
  /\ counted = None0 /\ finite = TRUE /\ clicks = 0 /\ starts = 0

\* A new page: the constructor, digestHash_ ticks the core benchmarks, and the
\* script of the page sets a timer.
RoboFresh ==
  /\ runner' = "READY" /\ currentIndex' = 0 /\ status' = [b \in Robo |-> None]
  /\ enabled' = Robo /\ activeBenchmark' = None /\ benchmarkWindow' = FALSE /\ frame' = None
  /\ autoTimer' = TRUE /\ nextTimers' = 0 /\ loadTimers' = None0 /\ suites' = None0
  /\ counted' = None0 /\ finite' = TRUE /\ clicks' = 0 /\ starts' = 0

More(timers, b) == [timers EXCEPT ![b] = @ + 1]
Fewer(timers, b) == timers[b] > 0 /\ timers' = [timers EXCEPT ![b] = @ - 1]

\* run: every benchmark is pending again, whatever is still in progress.
RunAll ==
  /\ runner' = "RUNNING" /\ status' = [b \in Robo |-> "PENDING"]
  /\ currentIndex' = 0 /\ counted' = None0 /\ finite' = TRUE
  /\ nextTimers' = nextTimers + 1 /\ starts' = starts + 1
  /\ UNCHANGED <<enabled, activeBenchmark, benchmarkWindow, frame, loadTimers, suites, channel>>

AutoStart == autoTimer /\ autoTimer' = FALSE /\ RunAll /\ UNCHANGED clicks

\* The button, which is disabled while it runs, or the link of the page, which is
\* there only until the runner starts for the first time.
ClickRun ==
  /\ runner = "READY"
  /\ clicks < MaxClicks /\ clicks' = clicks + 1 /\ RunAll /\ UNCHANGED autoTimer

\* Boxes and tags: the boxes are disabled while it runs, the tags are not.
ClickTag ==
  /\ clicks < MaxClicks /\ clicks' = clicks + 1
  /\ enabled' \in SUBSET Robo
  /\ UNCHANGED <<runner, currentIndex, status, activeBenchmark, benchmarkWindow, frame,
                 autoTimer, nextTimers, loadTimers, suites, counted, finite, starts, channel>>

RoboScore == "RoboHornet Score"

\* done_: a final score only when every benchmark succeeded.
Done(st, round) ==
  /\ runner' = "READY" /\ activeBenchmark' = None
  /\ UNCHANGED <<benchmarkWindow, loadTimers>>
  /\ IF \A b \in Robo : st[b] = "SUCCESS"
       THEN CtsReport(RoboScore, IF finite THEN "number" ELSE "Infinity", TRUE, round)
       ELSE UNCHANGED channel

Left == { i \in DOMAIN RoboBenchmarks : i > currentIndex }

SkippedUpTo(i) ==
  [b \in Robo |-> IF \E j \in Left : j < i /\ RoboBenchmarks[j] = b THEN "SKIPPED" ELSE status[b]]

\* next_: skip what is not ticked, and load the next one; its status changes
\* now, its page only when loadBenchmark_'s timer goes off.
NextBenchmark(round) ==
  /\ nextTimers > 0 /\ nextTimers' = nextTimers - 1
  /\ \/ \E i \in Left :
          /\ RoboBenchmarks[i] \in enabled
          /\ \A j \in Left : j < i => RoboBenchmarks[j] \notin enabled
          /\ currentIndex' = i
          /\ activeBenchmark' = RoboBenchmarks[i] /\ benchmarkWindow' = FALSE
          /\ status' = [SkippedUpTo(i) EXCEPT ![RoboBenchmarks[i]] = "LOADING"]
          /\ loadTimers' = More(loadTimers, RoboBenchmarks[i])
          /\ UNCHANGED <<runner, channel>>
     \/ LET past == Len(RoboBenchmarks) + 1 IN
        /\ \A i \in Left : RoboBenchmarks[i] \notin enabled
        /\ currentIndex' = past
        /\ status' = SkippedUpTo(past) /\ Done(SkippedUpTo(past), round)
  /\ UNCHANGED <<enabled, frame, autoTimer, suites, counted, finite, clicks, starts>>

\* onPopupBlock_: of the active benchmark; without one it throws half way.
OnPopupBlock ==
  /\ benchmarkWindow' = FALSE /\ frame' = None
  /\ IF activeBenchmark = None
       THEN UNCHANGED <<status, activeBenchmark, nextTimers>>
       ELSE /\ status' = [status EXCEPT ![activeBenchmark] = "POPUP_BLOCKED"]
            /\ activeBenchmark' = None
            /\ nextTimers' = nextTimers + 1

\* loadBenchmark_'s timer: the frames there are go, a new one loads the page of b.
LoadFrame ==
  /\ \E b \in Robo :
       /\ Fewer(loadTimers, b)
       /\ \/ /\ frame' = b /\ benchmarkWindow' = TRUE
             /\ UNCHANGED <<status, activeBenchmark, nextTimers>>
          \/ OnPopupBlock
  /\ UNCHANGED <<runner, currentIndex, enabled, autoTimer, suites, counted, finite, clicks,
                 starts, channel>>

\* Mutant: the runner goes on as soon as the benchmark runs.
BenchmarkLoadedGoesOn ==
  /\ frame # None /\ frame' = None
  /\ IF activeBenchmark = None
       THEN UNCHANGED <<status, suites, nextTimers>>
       ELSE /\ status' = [status EXCEPT ![activeBenchmark] = "RUNNING"]
            /\ suites' = More(suites, activeBenchmark)
            /\ nextTimers' = nextTimers + 1
  /\ UNCHANGED <<runner, currentIndex, enabled, activeBenchmark, benchmarkWindow, autoTimer,
                 loadTimers, counted, finite, clicks, starts, channel>>

\* benchmarkLoaded, called by the page in the frame: a suite of the benchmark
\* that is active now starts.
BenchmarkLoaded ==
  /\ frame # None /\ frame' = None
  /\ IF activeBenchmark = None
       THEN UNCHANGED <<status, suites>>
       ELSE /\ status' = [status EXCEPT ![activeBenchmark] = "RUNNING"]
            /\ suites' = More(suites, activeBenchmark)
  /\ UNCHANGED <<runner, currentIndex, enabled, activeBenchmark, benchmarkWindow, autoTimer,
                 nextTimers, loadTimers, counted, finite, clicks, starts, channel>>

\* onBenchmarkAbort_.
OnBenchmarkAbort(b) ==
  /\ IF status[b] = "ABORTED"
       THEN UNCHANGED <<status, benchmarkWindow, nextTimers>>
       ELSE /\ status' = [status EXCEPT ![b] = "ABORTED"]
            /\ benchmarkWindow' = FALSE /\ nextTimers' = nextTimers + 1
  /\ UNCHANGED <<frame, counted, finite, channel>>

\* A page without a test aborts its suite.
SuiteAborts ==
  /\ \E b \in Robo : Fewer(suites, b) /\ OnBenchmarkAbort(b)
  /\ UNCHANGED <<runner, currentIndex, enabled, activeBenchmark, autoTimer, loadTimers, clicks,
                 starts>>

\* onBenchmarkComplete_: without a frame the benchmark counts as aborted.  A
\* benchmark that failed to run was measured in no time.
SuiteCompletes(round) ==
  /\ \E b \in Robo :
       /\ Fewer(suites, b)
       /\ \/ ~benchmarkWindow /\ OnBenchmarkAbort(b)
          \/ /\ benchmarkWindow /\ benchmarkWindow' = FALSE /\ frame' = None
             /\ status' = [status EXCEPT ![b] = "SUCCESS"]
             /\ counted' = More(counted, b)
             /\ finite' \in {finite, FALSE}
             /\ CtsReport(b, "number", FALSE, round)
             /\ nextTimers' = nextTimers + 1
  /\ UNCHANGED <<runner, currentIndex, enabled, activeBenchmark, autoTimer, loadTimers, clicks,
                 starts>>

RoboStep(round) ==
  /\ Free
  /\ \/ AutoStart \/ ClickRun \/ ClickTag \/ NextBenchmark(round) \/ LoadFrame
     \/ BenchmarkLoaded \/ SuiteAborts \/ SuiteCompletes(round)

-------------------------------------------------------------------------------
\* A benchmark is measured on its own: of a page that was started once at most one
\* thing is in progress, and a suite that runs is the active benchmark's, in its
\* frame, so that its end will be taken for what it is.  The final score counts
\* every benchmark, and counts it once unless the page was started again.
MeasuredOnItsOwn ==
  /\ starts <= 1 =>
       \A b \in Robo :
         /\ \A c \in Robo \ {b} : loadTimers[b] + suites[b] = 0 \/ loadTimers[c] + suites[c] = 0
         /\ nextTimers + loadTimers[b] + suites[b] + Cardinality({frame} \ {None}) <= 1
         /\ suites[b] > 0 => activeBenchmark = b /\ benchmarkWindow
  /\ ~Free /\ post.message = RoboScore =>
       \A b \in Robo : counted[b] >= 1 /\ (starts = 1 => counted[b] = 1)
===============================================================================
