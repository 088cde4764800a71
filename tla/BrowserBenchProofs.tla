-------------------------- MODULE BrowserBenchProofs --------------------------
(***************************************************************************)
(* Proofs about BrowserBench and its pages, for any suites and benchmarks, *)
(* number of workers, rounds and time-outs.                                *)
(***************************************************************************)
EXTENDS BrowserBench, SequenceTheorems, FiniteSetTheorems, TLAPS

(***************************************************************************)
(* The inductive invariant.                                                *)
(***************************************************************************)

Score == {"number", "error", "NaN", "Infinity"}
Verdict == [message : Message, score : Score]

\* Where the Octane page is in its suites: one verdict for each that is over.
OctaneProgress ==
  /\ turn \in {"off", "loading", "run", "setup", "benchmark", "teardown", "scored"}
  /\ index \in 0..Len(Suites) /\ benchmark \in Nat /\ measured \in Nat
  /\ verdicts \in Seq(Verdict)
  /\ turn \in {"off", "loading"} => index = 0 /\ verdicts = <<>> /\ scores = {}
  /\ turn = "run" => index = Len(verdicts)
  /\ turn \in {"setup", "benchmark", "teardown"} => index > 0 /\ index = Len(verdicts) + 1
  /\ turn = "scored" => Len(verdicts) = Len(Suites) + 1
  /\ \A k \in 1..Len(verdicts) : k <= Len(Suites) => verdicts[k].message = Suites[k]

\* A suite that has a score has had all its benchmarks measured, and a page that knows
\* of no failure has a score for every suite.
OctaneScores ==
  /\ success /\ turn # "scored" =>
       /\ \A k \in 1..Len(verdicts) : verdicts[k].score = "number"
       /\ verdicts # <<>> => scores # {}
  /\ turn = "scored" /\ verdicts[Len(verdicts)].message = CompleteScore =>
       \A k \in 1..Len(verdicts) : verdicts[k].score = "number"
  /\ \A s \in scores : \E i \in 1..Len(Suites) : s = Suites[i] /\ i <= Len(verdicts)
  /\ turn = "setup" => measured = benchmark /\ benchmark <= Benchmarks[index]
  /\ turn = "benchmark" => measured = benchmark /\ benchmark < Benchmarks[index]
  /\ turn = "teardown" => measured = benchmark + 1 /\ benchmark < Benchmarks[index]
  /\ turn = "run" /\ index > 0 /\ Suite \in scores =>
       measured = Benchmarks[index] /\ benchmark = measured

OctaneInv == OctaneProgress /\ OctaneScores

\* Time stands still from the moment a score is stored until the watch-dog is reset,
\* and from the end of the last round on.
WatchInv ==
  /\ wpc # "gone" => quiet <= wdClock /\ wdClock <= PostTimeout
  /\ Late => quiet = 0
  /\ wpc # "gone" /\ ~mStopRequested /\ (mSemaphore > 0 \/ wpc = "loop") => quiet = 0
  /\ mStopRequested /\ wpc = "wait" => mSemaphore > 0
  /\ mStopRequested <=> tpc \in {"join", "shutdown", "ended"}
  /\ wpc = "wait" /\ mSemaphore = 0 => quiet = wdClock \/ Late
  /\ tpc = "await" /\ mLatch = 0 => quiet = 0
  /\ tpc \in {"report", "reported"} \/ verdict = "pass" => quiet = 0
  /\ verdict = "pass" => tpc \in {"stop", "join", "shutdown", "ended"}
  /\ ~alive => wpc = "gone"
  /\ WatchDogPatient

ThreadTypes ==
  /\ test \in {"testOctane", "testRoboHornet"}
  /\ tpc \in {"launch", "await", "report", "reported", "stop", "join", "shutdown", "ended"}
  /\ mRunIndex \in Nat /\ mLatch \in {0, 1} /\ seen \in Nat /\ load \in Nat
  /\ verdict \in {"none", "pass", "exception", "timed-out"}
  /\ wpc \in {"wait", "loop", "gone"}
  /\ \/ mSemaphore \in Nat
     \/ mSemaphore = None /\ tpc \in {"shutdown", "ended"} /\ wpc = "gone"
  /\ latchClock \in Nat /\ wdClock \in Nat /\ quiet \in Nat

Flags ==
  /\ prompt \in BOOLEAN /\ mStopRequested \in BOOLEAN /\ alive \in BOOLEAN
  /\ intent \in BOOLEAN /\ serving \in BOOLEAN

HandlerStep == {"idle", "store", "final", "reset", "release", "respond"}

WorkerTypes ==
  /\ hpc \in [Worker -> HandlerStep]
  /\ hreq \in [Worker -> Request \cup {None}]
  /\ \A w \in Worker : hpc[w] # "idle" => hreq[w] \in Request
  /\ post \in Request \cup {None} /\ wire \in Request \cup {None}

Entry == [message : Message, scores : [1..kRepeat -> Nat]]

Types == ThreadTypes /\ Flags /\ WorkerTypes /\ mResultsMap \in Seq(Entry)

\* The round that the test thread is in, and the page that is loaded.
InRound ==
  /\ mRunIndex <= kRepeat /\ load <= kRepeat
  /\ tpc = "launch" => load = mRunIndex /\ ~intent
  /\ tpc \in {"launch", "await"} => mRunIndex < kRepeat
  /\ tpc # "launch" /\ mRunIndex < kRepeat => load = IF intent THEN mRunIndex ELSE mRunIndex + 1
  /\ mRunIndex = kRepeat => load = kRepeat /\ ~intent
  /\ tpc \in {"report", "reported"} \/ verdict = "pass" => mRunIndex = kRepeat
  /\ verdict = "exception" => mRunIndex = kRepeat
  /\ test = "testRoboHornet" \/ load = 0 => turn = "off"

Active(w) == hpc[w] # "idle"

\* The page waits for one request at a time, which is on its way to the server or with
\* one worker; what workers still have of the pages before has been stored.
Requests ==
  /\ post # None => /\ post.round = load /\ load > 0
                    /\ post.final <=> post.message \in FinalScore
                    /\ test = "testOctane" =>
                         /\ post.final => turn = "scored"
                         /\ post.message # RoboScore
  /\ wire # None => wire = post /\ \A w \in Worker : Active(w) => hreq[w].round < load
  /\ \A w \in Worker : Active(w) =>
       /\ hreq[w].round <= load
       /\ hreq[w].round < load => hpc[w] \in {"reset", "release", "respond"}
       /\ hreq[w].round = load =>
            hreq[w] = post /\ \A v \in Worker \ {w} : Active(v) => hreq[v].round < load

FinalIn(map, c) ==
  \E k \in 1..Len(map) : map[k].message \in FinalScore /\ map[k].scores[c] # 0

\* Nothing of a round is left to be stored or counted down when it is over.
RoundOver ==
  /\ tpc = "await" /\ mLatch = 0 => ~intent /\ FinalIn(mResultsMap, load)
  /\ tpc = "launch" \/ intent =>
       /\ wire = None /\ \A w \in Worker : hpc[w] \notin {"store", "final"}
       /\ test = "testRoboHornet" => load = 0
  /\ \A w \in Worker : hpc[w] = "final" => hreq[w].final /\ FinalIn(mResultsMap, load)
  /\ test = "testOctane" /\ load > 0 /\ FinalIn(mResultsMap, load) =>
       turn = "scored" /\ wire = None /\ \A w \in Worker : hpc[w] # "store"
  /\ test = "testOctane" /\ tpc = "await" /\ mLatch = 0 =>
       \A w \in Worker : hpc[w] # "final"

RoundsWon == \A r \in 1..mRunIndex : FinalIn(mResultsMap, r)

\* A column holds the round it belongs to, and nothing before that round.
Columns ==
  \A k \in 1..Len(mResultsMap) : \A r \in 1..kRepeat :
    mResultsMap[k].scores[r] = 0 \/ (mResultsMap[k].scores[r] = r /\ r <= load)

EnteredIn(map, message) == \E k \in 1..Len(map) : map[k].message = message
Entered(message) == EnteredIn(mResultsMap, message)

\* RoboHornet posts its final score only when every benchmark of it has an entry.
RoboEntries ==
  /\ \A b \in Robo : status[b] = "SUCCESS" => Entered(b) \/ (post # None /\ post.message = b)
  /\ Entered(RoboScore) \/ (post # None /\ post.final) => \A b \in Robo : Entered(b)
  /\ post # None => post.message = RoboScore \/ (post.message \in Robo /\ post.score = "number")
  /\ \A k \in 1..Len(mResultsMap) : mResultsMap[k].message \in Robo \cup {RoboScore}

\* Every message has one array, also when a worker still handles a post of it.
OneArray ==
  /\ \A j, k \in 1..Len(mResultsMap) : mResultsMap[j].message = mResultsMap[k].message => j = k
  /\ \A w \in Worker :
       hpc[w] \in {"final", "reset", "release", "respond"} /\ hreq[w].score = "number" =>
         Entered(hreq[w].message)

\* The final score of the first round is behind everything that has a score in it.
FinalIsLast ==
  \A k \in 1..Len(mResultsMap) :
    /\ mRunIndex = 0 => mResultsMap[k].scores[1] # 0
    /\ mResultsMap[k].message \in FinalScore /\ mResultsMap[k].scores[1] # 0 =>
         /\ mRunIndex = 0 => k = Len(mResultsMap)
         /\ \A j \in k + 1 .. Len(mResultsMap) : mResultsMap[j].scores[1] = 0

\* Nothing is added while the test iterates.
Undisturbed ==
  /\ tpc = "reported" => seen = Len(mResultsMap)
  /\ verdict # "exception"

Summary ==
  /\ test = "testRoboHornet" => RoboEntries
  /\ OneArray /\ FinalIsLast /\ Undisturbed

\* What is in progress of a RoboHornet page that is started once: nothing but a timer of
\* next_, or one step of the benchmark it has in hand.
Idle == loadTimers = None0 /\ suites = None0 /\ frame = None

InHand ==
  /\ nextTimers = 0 /\ currentIndex \in 1..Len(RoboBenchmarks)
  /\ activeBenchmark = RoboBenchmarks[currentIndex] /\ counted[activeBenchmark] = 0

One(b) == [None0 EXCEPT ![b] = 1]

Loading == InHand /\ loadTimers = One(activeBenchmark) /\ suites = None0 /\ frame = None
InFrame == /\ InHand /\ loadTimers = None0 /\ suites = None0 /\ frame = activeBenchmark
           /\ benchmarkWindow
Running == /\ InHand /\ loadTimers = None0 /\ suites = One(activeBenchmark) /\ frame = None
           /\ benchmarkWindow

OneInProgress == (Idle /\ nextTimers <= 1) \/ Loading \/ InFrame \/ Running

RoboStatus == BenchmarkStatus \cup {None}

RoboTypes ==
  /\ nextTimers \in Nat /\ starts \in Nat /\ currentIndex \in Nat
  /\ loadTimers \in [Robo -> Nat] /\ suites \in [Robo -> Nat] /\ counted \in [Robo -> Nat]
  /\ status \in [Robo -> RoboStatus]
  /\ enabled \subseteq Robo /\ activeBenchmark \in Robo \cup {None} /\ frame \in Robo \cup {None}

\* The benchmarks that next_ has not reached are not counted yet.
CountedOnce ==
  /\ \A i \in 1..Len(RoboBenchmarks) : i > currentIndex => counted[RoboBenchmarks[i]] = 0
  /\ \A b \in Robo : counted[b] <= 1

SuccessCounted == \A b \in Robo : status[b] = "SUCCESS" => counted[b] >= 1

RoboInv ==
  /\ starts = 0 => Idle /\ nextTimers = 0
  /\ starts <= 1 => OneInProgress /\ CountedOnce
  /\ SuccessCounted

\* What the final score counts, from the moment it is posted.
FinalCounted ==
  post # None /\ post.message = RoboScore =>
    \A b \in Robo : counted[b] >= 1 /\ (starts = 1 => counted[b] = 1)

IInv ==
  /\ Types /\ OctaneInv /\ RoboTypes /\ RoboInv /\ FinalCounted
  /\ InRound /\ Requests /\ RoundOver /\ RoundsWon /\ Columns /\ Summary
  /\ WatchInv

-------------------------------------------------------------------------------
(* The Octane page *)

LEMMA AppendAt ==
  ASSUME NEW S, NEW s \in Seq(S), NEW e \in S
  PROVE  /\ Append(s, e) \in Seq(S) /\ Len(s) \in Nat /\ Len(Append(s, e)) = Len(s) + 1
         /\ Append(s, e) # <<>>
         /\ \A k \in 1..Len(s) : Append(s, e)[k] = s[k] /\ s[k] \in S
         /\ Append(s, e)[Len(s) + 1] = e
         /\ \A k \in 1..Len(Append(s, e)) : k \in 1..Len(s) \/ k = Len(s) + 1
BY AppendProperties

LEMMA SuiteTypes ==
  /\ Len(Suites) \in Nat \ {0} /\ DOMAIN Suites = 1..Len(Suites)
  /\ \A i \in 1..Len(Suites) : Suites[i] \in Message /\ Suites[i] \notin FinalScore
  /\ \A i \in 1..Len(Suites) : Benchmarks[i] \in Nat \ {0}
  /\ \A i, j \in 1..Len(Suites) : Suites[i] = Suites[j] => i = j
<1>1. Suites \in Seq(STRING) /\ Suites # <<>>
  BY OctaneAssumption
<1>2. Len(Suites) \in Nat \ {0} /\ DOMAIN Suites = 1..Len(Suites)
  BY <1>1, EmptySeq, LenProperties
<1> QED
  BY <1>2, OctaneAssumption, BrowserAssumption DEF Message

LEMMA FinalMessages ==
  /\ CompleteScore \in FinalScore /\ IncompleteScore \in FinalScore /\ RoboScore \in FinalScore
  /\ FinalScore \subseteq Message /\ Robo \subseteq Message
  /\ CompleteScore # IncompleteScore
  /\ RoboScore # CompleteScore /\ RoboScore # IncompleteScore
<1>1. CompleteScore # IncompleteScore
  BY Zenon DEF CompleteScore, IncompleteScore
<1>2. RoboScore # CompleteScore
  BY Zenon DEF CompleteScore, RoboScore
<1>3. RoboScore # IncompleteScore
  BY Zenon DEF IncompleteScore, RoboScore
<1> QED
  BY <1>1, <1>2, <1>3 DEF FinalScore, Message

\* The page gives the verdict that is due, on the suite in progress.
SuiteEnds ==
  /\ index' \in 1..Len(Suites) /\ index' = Len(verdicts) + 1 /\ turn' = "run"
  /\ benchmark' \in Nat /\ measured' \in Nat
  /\ \E sc \in Score : verdicts' = Append(verdicts, [message |-> Suites[index'], score |-> sc])

LEMMA SuiteEndsKeeps ==
  ASSUME OctaneProgress, SuiteEnds
  PROVE  OctaneProgress' /\ Len(verdicts') = index' /\ index' \in 1..Len(Suites)
<1>p. PICK sc \in Score : verdicts' = Append(verdicts, [message |-> Suites[index'], score |-> sc])
  BY DEF SuiteEnds
<1>n. Len(verdicts) \in Nat
  BY LenProperties DEF OctaneProgress
<1>0. index' = Len(verdicts) + 1 /\ index' \in Nat /\ index' <= Len(Suites) /\ Len(Suites) \in Nat
  <2>1. index' \in 1..Len(Suites) /\ index' = Len(verdicts) + 1
    BY DEF SuiteEnds
  <2> QED
    BY <1>n, <2>1, SuiteTypes
<1> DEFINE e == [message |-> Suites[index'], score |-> sc]
<1>1. e \in Verdict /\ verdicts \in Seq(Verdict) /\ e.message = Suites[index']
  <2>1. Suites[index'] \in Message
    BY <1>0, SuiteTypes
  <2> QED
    BY <2>1 DEF OctaneProgress, Verdict
<1>a. verdicts' = Append(verdicts, e)
  BY <1>p
<1> HIDE DEF e
<1>2. verdicts' \in Seq(Verdict) /\ Len(verdicts') = index' /\ index' \in Nat
  BY <1>0, <1>1, <1>a, AppendAt
<1>3. \A k \in 1..Len(verdicts') : verdicts'[k].message = Suites[k]
  <2> SUFFICES ASSUME NEW k \in 1..Len(verdicts') PROVE verdicts'[k].message = Suites[k]
    OBVIOUS
  <2>1. CASE k \in 1..Len(verdicts)
    <3>1. verdicts'[k] = verdicts[k]
      BY <1>1, <1>a, <2>1, AppendAt
    <3>2. k <= Len(Suites)
      BY <1>n, <1>0, <2>1
    <3> QED
      BY <3>1, <3>2, <2>1 DEF OctaneProgress
  <2>2. CASE k = Len(verdicts) + 1
    <3>1. verdicts'[k] = e
      BY <1>1, <1>a, <2>2, AppendAt
    <3>2. k = index'
      BY <1>n, <1>0, <2>2
    <3> QED
      BY <3>1, <3>2, <1>1
  <2> QED
    BY <1>1, <1>a, <2>1, <2>2, AppendAt
<1>4. turn' = "run" /\ index' \in 1..Len(Suites) /\ benchmark' \in Nat /\ measured' \in Nat
  BY DEF SuiteEnds
<1> QED
  BY <1>2, <1>3, <1>4, SuiteTypes DEF OctaneProgress

\* A suite that is in progress has no score yet.
LEMMA NotScoredYet ==
  ASSUME OctaneProgress, OctaneScores, NEW i \in 1..Len(Suites), Len(verdicts) < i
  PROVE  Suites[i] \notin scores
<1>1. Len(verdicts) \in Nat
  BY LenProperties DEF OctaneProgress
<1> QED
  BY <1>1, SuiteTypes DEF OctaneScores

\* An exception: the suite is over and the score will be incomplete.
LEMMA ErrorKeeps ==
  ASSUME OctaneProgress, OctaneScores, SuiteEnds, UNCHANGED scores, ~success'
  PROVE  OctaneProgress' /\ OctaneScores'
<1>1. OctaneProgress' /\ Len(verdicts') = index' /\ index' \in 1..Len(Suites)
  BY SuiteEndsKeeps
<1>2. Len(verdicts) < index' /\ Len(verdicts) \in Nat
  <2>1. Len(verdicts) \in Nat
    BY LenProperties DEF OctaneProgress
  <2>2. index' = Len(verdicts) + 1
    BY DEF SuiteEnds
  <2>3. index' \in Nat
    BY <1>1, SuiteTypes
  <2> QED
    BY <2>1, <2>2, <2>3
<1>3. Suite' \notin scores'
  BY <1>1, <1>2, NotScoredYet DEF Suite
<1>4. turn' = "run"
  BY DEF SuiteEnds
<1>5. \A s \in scores' : \E i \in 1..Len(Suites) : s = Suites[i] /\ i <= Len(verdicts')
  <2> SUFFICES ASSUME NEW s \in scores
               PROVE  \E i \in 1..Len(Suites) : s = Suites[i] /\ i <= Len(verdicts')
    OBVIOUS
  <2>1. PICK i \in 1..Len(Suites) : s = Suites[i] /\ i <= Len(verdicts)
    BY DEF OctaneScores
  <2> QED
    BY <1>1, <1>2, <2>1, SuiteTypes
<1> QED
  BY <1>1, <1>3, <1>4, <1>5 DEF OctaneScores

LEMMA ErrorEnds ==
  ASSUME NEW round, NEW suite, NotifyError(suite, round), suite = Suites[index'],
         index' \in 1..Len(Suites), index' = Len(verdicts) + 1,
         benchmark' \in Nat, measured' \in Nat
  PROVE  SuiteEnds /\ ~success'
<1>1. turn' = "run" /\ ~success'
      /\ verdicts' = Append(verdicts, [message |-> Suites[index'], score |-> "error"])
  BY DEF NotifyError, Report
<1>2. "error" \in Score
  BY DEF Score
<1> QED
  BY <1>1, <1>2 DEF SuiteEnds

LEMMA OctaneStepKeeps ==
  ASSUME OctaneProgress, OctaneScores, NEW round, OctaneStep(round)
  PROVE  OctaneProgress' /\ OctaneScores'
<1>0. Len(Suites) \in Nat \ {0} /\ index \in Nat /\ benchmark \in Nat /\ measured \in Nat
      /\ Len(verdicts) \in Nat
  BY SuiteTypes, LenProperties DEF OctaneProgress
<1>1. CASE RunSuites
  BY <1>1, <1>0 DEF RunSuites, OctaneProgress, OctaneScores, Suite
<1>2. CASE NextSuite(round)
  <2>1. index' \in 1..Len(Suites) /\ index' = Len(verdicts) + 1 /\ UNCHANGED scores
        /\ benchmark' = 0 /\ measured' = 0
    BY <1>0, <1>2 DEF NextSuite, OctaneProgress
  <2>2. CASE turn' = "benchmark" /\ UNCHANGED <<success, verdicts>>
    BY <1>0, <2>1, <2>2, SuiteTypes, <1>2 DEF NextSuite, OctaneProgress, OctaneScores
  <2>3. CASE NotifyError(Suites[index'], round)
    BY <2>1, <2>3, ErrorEnds, ErrorKeeps
  <2> QED
    BY <1>2, <2>2, <2>3 DEF NextSuite, Setup
<1>3. CASE RunNextSetup(round)
  <2>1. turn = "setup" /\ index' = index /\ index \in 1..Len(Suites) /\ index = Len(verdicts) + 1
        /\ UNCHANGED <<benchmark, measured>> /\ measured = benchmark
    BY <1>0, <1>3 DEF RunNextSetup, OctaneProgress, OctaneScores
  <2>2. CASE turn' = "benchmark" /\ benchmark < Benchmarks[index] /\ UNCHANGED <<success, verdicts, scores>>
    BY <1>0, <2>1, <2>2 DEF OctaneProgress, OctaneScores
  <2>3. CASE NotifyError(Suite, round) /\ UNCHANGED scores
    BY <1>0, <2>1, <2>3, ErrorEnds, ErrorKeeps DEF Suite
  <2>4. CASE benchmark = Benchmarks[index] /\ NotifyResult(round)
    <3>1. verdicts' = Append(verdicts, [message |-> Suites[index'], score |-> "number"])
          /\ turn' = "run" /\ scores' = scores \cup {Suites[index]} /\ UNCHANGED success
      BY <2>1, <2>4 DEF NotifyResult, Report, Suite
    <3>0. SuiteEnds
      BY <1>0, <2>1, <3>1 DEF SuiteEnds, Score
    <3>2. OctaneProgress' /\ Len(verdicts') = index
      BY <2>1, <3>0, SuiteEndsKeeps
    <3>3. verdicts \in Seq(Verdict)
          /\ [message |-> Suites[index'], score |-> "number"] \in Verdict
      BY <2>1, SuiteTypes DEF OctaneProgress, Verdict, Score
    <3>4. Len(verdicts') = index /\ verdicts' # <<>>
      BY <1>0, <2>1, <3>1, <3>3, AppendAt
    <3>5. success => \A k \in 1..Len(verdicts') : verdicts'[k].score = "number"
      <4> SUFFICES ASSUME success, NEW k \in 1..Len(verdicts') PROVE verdicts'[k].score = "number"
        OBVIOUS
      <4>1. CASE k \in 1..Len(verdicts)
        BY <2>1, <3>1, <3>3, <4>1, AppendAt DEF OctaneScores
      <4>2. CASE k = Len(verdicts) + 1
        BY <3>1, <3>3, <4>2, AppendAt
      <4> QED
        BY <3>1, <3>3, <4>1, <4>2, AppendAt
    <3>6. \A s \in scores' : \E i \in 1..Len(Suites) : s = Suites[i] /\ i <= Len(verdicts')
      BY <1>0, <2>1, <3>1, <3>4 DEF OctaneScores
    <3> QED
      BY <1>0, <2>1, <2>4, <3>1, <3>2, <3>4, <3>5, <3>6 DEF OctaneScores
  <2> QED
    BY <1>3, <2>2, <2>3, <2>4 DEF RunNextSetup, Setup
<1>4. CASE RunNextBenchmark(round)
  <2>1. turn = "benchmark" /\ index' = index /\ index \in 1..Len(Suites)
        /\ index = Len(verdicts) + 1 /\ UNCHANGED <<benchmark, scores>>
    BY <1>0, <1>4 DEF RunNextBenchmark, OctaneProgress
  <2>2. CASE measured' = measured + 1 /\ turn' = "teardown" /\ UNCHANGED <<success, verdicts>>
    BY <1>0, <2>1, <2>2 DEF OctaneProgress, OctaneScores
  <2>3. CASE NotifyError(Suite, round) /\ UNCHANGED measured
    BY <1>0, <2>1, <2>3, ErrorEnds, ErrorKeeps DEF Suite
  <2> QED
    BY <1>4, <2>2, <2>3 DEF RunNextBenchmark
<1>5. CASE RunNextTearDown(round)
  <2>1. turn = "teardown" /\ index' = index /\ index \in 1..Len(Suites)
        /\ index = Len(verdicts) + 1 /\ UNCHANGED <<measured, scores>>
        /\ benchmark' = benchmark + 1 /\ Benchmarks[index] \in Nat
    BY <1>0, <1>5, SuiteTypes DEF RunNextTearDown, OctaneProgress
  <2>2. CASE turn' = "setup" /\ UNCHANGED <<success, verdicts>>
    BY <1>0, <2>1, <2>2 DEF OctaneProgress, OctaneScores
  <2>3. CASE NotifyError(Suite, round)
    BY <1>0, <2>1, <2>3, ErrorEnds, ErrorKeeps DEF Suite
  <2> QED
    BY <1>5, <2>2, <2>3 DEF RunNextTearDown
<1>6. CASE NotifyScore(round)
  <2> DEFINE m == IF success THEN CompleteScore ELSE IncompleteScore
             sc == IF scores = {} THEN "NaN" ELSE "number"
  <2>1. turn = "run" /\ turn' = "scored" /\ index = Len(Suites)
        /\ UNCHANGED <<index, benchmark, measured, scores, success>>
        /\ verdicts' = Append(verdicts, [message |-> m, score |-> sc])
    BY <1>6 DEF NotifyScore, Report
  <2>2. [message |-> m, score |-> sc] \in Verdict /\ verdicts \in Seq(Verdict)
        /\ Len(verdicts) = Len(Suites)
    BY <2>1, FinalMessages DEF OctaneProgress, Verdict, Score
  <2>3. verdicts' \in Seq(Verdict) /\ Len(verdicts') = Len(Suites) + 1
        /\ verdicts'[Len(verdicts')] = [message |-> m, score |-> sc]
        /\ \A k \in 1..Len(Suites) : verdicts'[k] = verdicts[k]
    BY <2>1, <2>2, AppendAt
  <2>4. OctaneProgress'
    BY <1>0, <2>1, <2>2, <2>3 DEF OctaneProgress, Verdict
  <2>5. m = CompleteScore => \A k \in 1..Len(verdicts') : verdicts'[k].score = "number"
    <3> SUFFICES ASSUME m = CompleteScore, NEW k \in 1..Len(verdicts')
                 PROVE  verdicts'[k].score = "number"
      OBVIOUS
    <3>1. success
      BY FinalMessages
    <3>2. verdicts # <<>>
      BY <1>0, <2>2, EmptySeq
    <3>3. sc = "number" /\ \A j \in 1..Len(verdicts) : verdicts[j].score = "number"
      BY <2>1, <3>1, <3>2 DEF OctaneScores
    <3>4. CASE k \in 1..Len(Suites)
      BY <2>2, <2>3, <3>3, <3>4
    <3>5. CASE k = Len(verdicts')
      BY <2>3, <3>3, <3>5
    <3> QED
      BY <1>0, <2>3, <3>4, <3>5
  <2>6. \A s \in scores' : \E i \in 1..Len(Suites) : s = Suites[i] /\ i <= Len(verdicts')
    BY <1>0, <2>1, <2>2, <2>3 DEF OctaneScores
  <2> QED
    BY <2>1, <2>3, <2>4, <2>5, <2>6 DEF OctaneScores
<1> QED
  BY <1>1, <1>2, <1>3, <1>4, <1>5, <1>6 DEF OctaneStep

-------------------------------------------------------------------------------
(* The RoboHornet page *)

LEMMA RoboNames ==
  /\ Len(RoboBenchmarks) \in Nat /\ DOMAIN RoboBenchmarks = 1..Len(RoboBenchmarks)
  /\ \A i \in 1..Len(RoboBenchmarks) : RoboBenchmarks[i] \in Robo
  /\ \A i, j \in 1..Len(RoboBenchmarks) : RoboBenchmarks[i] = RoboBenchmarks[j] => i = j
  /\ \A b \in Robo : \E i \in 1..Len(RoboBenchmarks) : b = RoboBenchmarks[i]
  /\ None \notin Robo
  /\ None0 \in [Robo -> Nat] /\ \A b \in Robo : None0[b] = 0
<1>1. Len(RoboBenchmarks) \in Nat /\ DOMAIN RoboBenchmarks = 1..Len(RoboBenchmarks)
  BY RoboAssumption, LenProperties
<1>2. None0 \in [Robo -> Nat] /\ \A b \in Robo : None0[b] = 0
  BY DEF None0
<1> QED
  BY <1>1, <1>2, RoboAssumption DEF Robo

\* A timer that is set, and one that goes off.
LEMMA Timers ==
  ASSUME NEW t \in [Robo -> Nat], NEW b \in Robo
  PROVE  /\ More(t, b) \in [Robo -> Nat] /\ More(t, b)[b] = t[b] + 1
         /\ \A c \in Robo \ {b} : More(t, b)[c] = t[c]
         /\ t[b] > 0 => /\ [t EXCEPT ![b] = @ - 1] \in [Robo -> Nat]
                        /\ [t EXCEPT ![b] = @ - 1][b] = t[b] - 1
                        /\ \A c \in Robo \ {b} : [t EXCEPT ![b] = @ - 1][c] = t[c]
BY DEF More

\* The benchmark that next_ takes.
Takes(i) ==
  /\ i \in 1..Len(RoboBenchmarks) /\ i > currentIndex /\ currentIndex' = i
  /\ activeBenchmark' = RoboBenchmarks[i]
  /\ loadTimers' = More(loadTimers, RoboBenchmarks[i])

TakesNone ==
  /\ currentIndex' = Len(RoboBenchmarks) + 1 /\ activeBenchmark' = None
  /\ UNCHANGED loadTimers

NextTimer ==
  /\ nextTimers > 0 /\ nextTimers' = nextTimers - 1
  /\ UNCHANGED <<enabled, frame, autoTimer, suites, counted, finite, clicks, starts>>

LEMMA NextTakes ==
  ASSUME RoboTypes, NextBenchmark(load)
  PROVE  /\ (\E i \in 1..Len(RoboBenchmarks) : Takes(i)) \/ TakesNone
         /\ NextTimer
         /\ status' \in [Robo -> RoboStatus]
         /\ \A b \in Robo : status'[b] = "SUCCESS" => status[b] = "SUCCESS"
<1>1. NextTimer
  BY DEF NextBenchmark, NextTimer
<1>2. ASSUME NEW i
      PROVE  /\ SkippedUpTo(i) \in [Robo -> RoboStatus]
             /\ \A b \in Robo : SkippedUpTo(i)[b] = "SUCCESS" => status[b] = "SUCCESS"
  BY DEF SkippedUpTo, RoboTypes, RoboStatus, BenchmarkStatus
<1>3. ASSUME NEW i \in Left, NEW b, b = RoboBenchmarks[i], currentIndex' = i,
             activeBenchmark' = b, status' = [SkippedUpTo(i) EXCEPT ![b] = "LOADING"],
             loadTimers' = More(loadTimers, b)
      PROVE  /\ \E j \in 1..Len(RoboBenchmarks) : Takes(j)
             /\ status' \in [Robo -> RoboStatus]
             /\ \A c \in Robo : status'[c] = "SUCCESS" => status[c] = "SUCCESS"
  <2>1. i \in 1..Len(RoboBenchmarks) /\ i > currentIndex
    BY RoboNames DEF Left
  <2>2. Takes(i)
    BY <1>3, <2>1 DEF Takes
  <2>3. "LOADING" \in RoboStatus /\ "LOADING" # "SUCCESS"
    BY DEF RoboStatus, BenchmarkStatus
  <2> QED
    BY <1>2, <1>3, <2>1, <2>2, <2>3
<1>4. CASE currentIndex' = Len(RoboBenchmarks) + 1
           /\ status' = SkippedUpTo(Len(RoboBenchmarks) + 1)
           /\ Done(SkippedUpTo(Len(RoboBenchmarks) + 1), load)
  <2>1. TakesNone
    BY <1>4 DEF TakesNone, Done
  <2> QED
    BY <1>1, <1>2, <1>4, <2>1
<1>5. CASE \E i \in Left :
             /\ currentIndex' = i /\ activeBenchmark' = RoboBenchmarks[i]
             /\ status' = [SkippedUpTo(i) EXCEPT ![RoboBenchmarks[i]] = "LOADING"]
             /\ loadTimers' = More(loadTimers, RoboBenchmarks[i])
  BY <1>1, <1>3, <1>5
<1> QED
  BY <1>1, <1>4, <1>5 DEF NextBenchmark

LEMMA RoboTypesKept ==
  ASSUME RoboTypes, RoboStep(load)
  PROVE  RoboTypes'
<1>1. CASE AutoStart \/ ClickRun
  <2>1. /\ status' = [b \in Robo |-> "PENDING"] /\ currentIndex' = 0 /\ counted' = None0
        /\ nextTimers' = nextTimers + 1 /\ starts' = starts + 1
        /\ UNCHANGED <<enabled, activeBenchmark, frame, loadTimers, suites>>
    BY <1>1 DEF AutoStart, ClickRun, RunAll
  <2> QED
    BY <2>1, RoboNames DEF RoboTypes, RoboStatus, BenchmarkStatus
<1>2. CASE ClickTag
  BY <1>2 DEF ClickTag, RoboTypes
<1>3. CASE NextBenchmark(load)
  <2>1. NextTimer /\ status' \in [Robo -> RoboStatus]
    BY <1>3, NextTakes
  <2>2. CASE TakesNone
    BY <2>1, <2>2, RoboNames DEF RoboTypes, TakesNone, NextTimer
  <2>3. ASSUME NEW i \in 1..Len(RoboBenchmarks), Takes(i) PROVE RoboTypes'
    <3> DEFINE b == RoboBenchmarks[i]
    <3>1. b \in Robo /\ i \in Nat
      BY RoboNames
    <3>2. currentIndex' = i /\ activeBenchmark' = b /\ loadTimers' = More(loadTimers, b)
      BY <2>3 DEF Takes
    <3> HIDE DEF b
    <3>3. More(loadTimers, b) \in [Robo -> Nat]
      BY <3>1, Timers DEF RoboTypes
    <3> QED
      BY <2>1, <3>1, <3>2, <3>3 DEF RoboTypes, NextTimer
  <2> QED
    BY <1>3, <2>2, <2>3, NextTakes
<1>4. CASE LoadFrame
  <2>1. loadTimers' \in [Robo -> Nat]
    BY <1>4, Timers DEF LoadFrame, Fewer, RoboTypes
  <2> QED
    BY <1>4, <2>1 DEF LoadFrame, OnPopupBlock, RoboTypes, RoboStatus, BenchmarkStatus
<1>5. CASE BenchmarkLoaded
  <2>1. UNCHANGED <<nextTimers, starts, currentIndex, loadTimers, counted, enabled, activeBenchmark>>
        /\ frame' = None
    BY <1>5 DEF BenchmarkLoaded
  <2>2. suites' \in [Robo -> Nat] /\ status' \in [Robo -> RoboStatus]
    <3>1. CASE activeBenchmark = None
      BY <1>5, <3>1 DEF BenchmarkLoaded, RoboTypes
    <3>2. CASE activeBenchmark \in Robo
      <4>1. suites' = More(suites, activeBenchmark)
            /\ status' = [status EXCEPT ![activeBenchmark] = "RUNNING"]
        BY <1>5, <3>2, RoboNames DEF BenchmarkLoaded
      <4>2. More(suites, activeBenchmark) \in [Robo -> Nat]
        BY <3>2, Timers DEF RoboTypes
      <4> QED
        BY <4>1, <4>2 DEF RoboTypes, RoboStatus, BenchmarkStatus
    <3> QED
      BY <3>1, <3>2 DEF RoboTypes
  <2> QED
    BY <2>1, <2>2 DEF RoboTypes
<1>6. CASE SuiteAborts
  <2>1. suites' \in [Robo -> Nat]
    BY <1>6, Timers DEF SuiteAborts, Fewer, RoboTypes
  <2> QED
    BY <1>6, <2>1 DEF SuiteAborts, OnBenchmarkAbort, RoboTypes, RoboStatus, BenchmarkStatus
<1>7. CASE SuiteCompletes(load)
  <2>1. suites' \in [Robo -> Nat]
    BY <1>7, Timers DEF SuiteCompletes, Fewer, RoboTypes
  <2>2. UNCHANGED <<currentIndex, enabled, activeBenchmark, loadTimers, starts>>
    BY <1>7 DEF SuiteCompletes
  <2>3. PICK b \in Robo :
          \/ OnBenchmarkAbort(b)
          \/ /\ frame' = None /\ status' = [status EXCEPT ![b] = "SUCCESS"]
             /\ counted' = More(counted, b) /\ nextTimers' = nextTimers + 1
    BY <1>7 DEF SuiteCompletes
  <2>4. CASE OnBenchmarkAbort(b)
    BY <2>1, <2>2, <2>4 DEF OnBenchmarkAbort, RoboTypes, RoboStatus, BenchmarkStatus
  <2>5. CASE ~OnBenchmarkAbort(b)
    <3>1. counted' \in [Robo -> Nat]
      BY <2>3, <2>5, Timers DEF RoboTypes
    <3> QED
      BY <2>1, <2>2, <2>3, <2>5, <3>1 DEF RoboTypes, RoboStatus, BenchmarkStatus
  <2> QED
    BY <2>4, <2>5
<1> QED
  BY <1>1, <1>2, <1>3, <1>4, <1>5, <1>6, <1>7 DEF RoboStep

LEMMA OneTimer ==
  ASSUME NEW b \in Robo
  PROVE  /\ More(None0, b) = One(b) /\ One(b) # None0
         /\ [One(b) EXCEPT ![b] = One(b)[b] - 1] = None0
         /\ \A c \in Robo : One(b)[c] > 0 => c = b
<1>1. None0 = [c \in Robo |-> 0]
  BY DEF None0
<1>2. One(b) = [c \in Robo |-> IF c = b THEN 1 ELSE 0]
  BY <1>1 DEF One
<1>3. More(None0, b) = [c \in Robo |-> IF c = b THEN 1 ELSE 0]
  BY <1>1 DEF More
<1>4. One(b)[b] = 1 /\ None0[b] = 0 /\ \A c \in Robo : One(b)[c] > 0 => c = b
  BY <1>1, <1>2
<1>5. [One(b) EXCEPT ![b] = One(b)[b] - 1] = None0
  BY <1>1, <1>2, <1>4
<1> QED
  BY <1>2, <1>3, <1>4, <1>5

\* Nothing goes off of what is not set.
LEMMA NothingSet ==
  ASSUME NEW b \in Robo
  PROVE  ~(None0[b] > 0)
BY RoboNames

LEMMA NextKeepsOne ==
  ASSUME RoboTypes, OneInProgress, CountedOnce, NextBenchmark(load)
  PROVE  OneInProgress' /\ CountedOnce'
<1>1. NextTimer /\ nextTimers' = nextTimers - 1 /\ nextTimers \in Nat /\ nextTimers > 0
      /\ UNCHANGED <<suites, frame, counted>> /\ currentIndex \in Nat
  BY NextTakes DEF NextTimer, RoboTypes
<1>2. Idle /\ nextTimers = 1
  BY <1>1 DEF OneInProgress, Loading, InFrame, Running, InHand
<1>3. CASE TakesNone
  <2>1. Idle' /\ nextTimers' = 0 /\ currentIndex' = Len(RoboBenchmarks) + 1
    BY <1>1, <1>2, <1>3 DEF TakesNone, Idle
  <2>2. \A i \in 1..Len(RoboBenchmarks) : ~(i > currentIndex')
    BY <2>1, RoboNames
  <2> QED
    BY <1>1, <2>1, <2>2 DEF OneInProgress, CountedOnce
<1>4. ASSUME NEW i \in 1..Len(RoboBenchmarks), Takes(i) PROVE OneInProgress' /\ CountedOnce'
  <2> DEFINE b == RoboBenchmarks[i]
  <2>1. i \in Nat /\ i > currentIndex /\ currentIndex' = i /\ activeBenchmark' = b
        /\ loadTimers' = More(None0, b)
    BY <1>2, <1>4, RoboNames DEF Takes, Idle
  <2>2. b \in Robo /\ counted[b] = 0
    BY <2>1, RoboNames DEF CountedOnce
  <2>3. loadTimers' = One(b)
    BY <2>1, <2>2, OneTimer
  <2>4. InHand'
    BY <1>1, <1>2, <2>1, <2>2 DEF InHand
  <2>5. Loading'
    BY <1>1, <1>2, <2>1, <2>3, <2>4 DEF Loading, Idle, One
  <2>6. \A j \in 1..Len(RoboBenchmarks) : j > currentIndex' => j > currentIndex
    BY <1>1, <2>1, RoboNames
  <2> QED
    BY <1>1, <2>5, <2>6 DEF OneInProgress, CountedOnce
<1> QED
  BY <1>3, <1>4, NextTakes

LEMMA LoadKeepsOne ==
  ASSUME RoboTypes, OneInProgress, CountedOnce, LoadFrame
  PROVE  OneInProgress' /\ CountedOnce'
<1>1. PICK b \in Robo :
        /\ Fewer(loadTimers, b)
        /\ \/ frame' = b /\ benchmarkWindow' = TRUE /\ UNCHANGED <<activeBenchmark, nextTimers>>
           \/ OnPopupBlock
  BY DEF LoadFrame
<1>2. UNCHANGED <<currentIndex, suites, counted>>
  BY DEF LoadFrame
<1>3. loadTimers # None0
  BY <1>1, NothingSet DEF Fewer
<1>4. Loading
  BY <1>3 DEF OneInProgress, Idle, InFrame, Running
<1>5. activeBenchmark \in Robo /\ activeBenchmark # None
  BY <1>4, RoboNames DEF Loading, InHand
<1>6. b = activeBenchmark /\ loadTimers' = None0
  BY <1>1, <1>4, <1>5, OneTimer DEF Loading, Fewer
<1>7. CASE frame' = b /\ benchmarkWindow' = TRUE /\ UNCHANGED <<activeBenchmark, nextTimers>>
  <2>1. InHand'
    BY <1>2, <1>4, <1>7 DEF Loading, InHand
  <2> QED
    BY <1>2, <1>4, <1>6, <1>7, <2>1 DEF Loading, InFrame, OneInProgress, CountedOnce
<1>8. CASE OnPopupBlock
  <2>1. frame' = None /\ nextTimers' = nextTimers + 1
    BY <1>5, <1>8 DEF OnPopupBlock
  <2>2. nextTimers' = 1 /\ suites' = None0
    BY <1>2, <1>4, <2>1 DEF Loading, InHand
  <2>3. nextTimers' <= 1
    BY <2>2
  <2> QED
    BY <1>2, <1>6, <2>1, <2>2, <2>3 DEF Idle, OneInProgress, CountedOnce
<1> QED
  BY <1>1, <1>7, <1>8

LEMMA LoadedKeepsOne ==
  ASSUME RoboTypes, OneInProgress, CountedOnce, BenchmarkLoaded
  PROVE  OneInProgress' /\ CountedOnce'
<1>1. InFrame /\ activeBenchmark \in Robo /\ activeBenchmark # None
  BY RoboNames DEF BenchmarkLoaded, OneInProgress, Idle, Loading, InFrame, InHand, Running
<1>2. frame' = None /\ suites' = More(suites, activeBenchmark)
      /\ UNCHANGED <<currentIndex, activeBenchmark, benchmarkWindow, nextTimers, loadTimers, counted>>
  BY <1>1 DEF BenchmarkLoaded
<1>3. InHand'
  BY <1>1, <1>2 DEF InFrame, InHand
<1>4. suites' = One(activeBenchmark)
  BY <1>1, <1>2, OneTimer DEF InFrame
<1>5. Running'
  BY <1>1, <1>2, <1>3, <1>4 DEF InFrame, Running, One
<1> QED
  BY <1>2, <1>5 DEF OneInProgress, CountedOnce

\* The end of a suite, however it ends, is the end of the one thing in progress.
LEMMA SuiteEnding ==
  ASSUME RoboTypes, OneInProgress, NEW b \in Robo, Fewer(suites, b)
  PROVE  Running /\ b = activeBenchmark /\ suites' = None0
<1>1. suites # None0
  BY NothingSet DEF Fewer
<1>2. Running
  BY <1>1 DEF OneInProgress, Idle, Loading, InFrame
<1>3. activeBenchmark \in Robo
  BY <1>2, RoboNames DEF Running, InHand
<1> QED
  BY <1>2, <1>3, OneTimer DEF Running, Fewer

LEMMA AbortKeepsOne ==
  ASSUME RoboTypes, OneInProgress, CountedOnce, NEW b \in Robo, Fewer(suites, b),
         OnBenchmarkAbort(b), UNCHANGED <<currentIndex, loadTimers>>
  PROVE  OneInProgress' /\ CountedOnce'
<1>1. Running /\ suites' = None0
  BY SuiteEnding
<1>2. UNCHANGED <<frame, counted>> /\ nextTimers' \in {nextTimers, nextTimers + 1}
  BY DEF OnBenchmarkAbort
<1>3. Idle' /\ nextTimers' <= 1
  BY <1>1, <1>2 DEF Running, InHand, Idle
<1> QED
  BY <1>2, <1>3 DEF OneInProgress, CountedOnce

LEMMA SuccessKeepsOne ==
  ASSUME RoboTypes, OneInProgress, CountedOnce, NEW b \in Robo, Fewer(suites, b),
         frame' = None, counted' = More(counted, b), nextTimers' = nextTimers + 1,
         UNCHANGED <<currentIndex, loadTimers>>
  PROVE  OneInProgress' /\ CountedOnce'
<1>1. Running /\ suites' = None0 /\ b = activeBenchmark
  BY SuiteEnding
<1>2. Idle' /\ nextTimers' <= 1
  BY <1>1 DEF Running, InHand, Idle
<1>3. counted[b] = 0 /\ b = RoboBenchmarks[currentIndex] /\ currentIndex \in 1..Len(RoboBenchmarks)
  BY <1>1 DEF Running, InHand
<1>4. counted'[b] = 1 /\ \A c \in Robo \ {b} : counted'[c] = counted[c]
  BY <1>3, Timers DEF RoboTypes
<1>5. \A i \in 1..Len(RoboBenchmarks) : i > currentIndex' => RoboBenchmarks[i] \in Robo \ {b}
  BY <1>3, RoboNames
<1>6. \A c \in Robo : counted'[c] <= 1
  BY <1>4 DEF CountedOnce
<1> QED
  BY <1>2, <1>4, <1>5, <1>6 DEF OneInProgress, CountedOnce

LEMMA NoneIsNoStatus ==
  None # "SUCCESS"
BY RoboAssumption DEF BenchmarkStatus

LEMMA SuccessCountedKept ==
  ASSUME RoboTypes, SuccessCounted, RoboStep(load)
  PROVE  SuccessCounted'
<1>0. None # "SUCCESS" /\ status \in [Robo -> RoboStatus]
  BY NoneIsNoStatus DEF RoboTypes
<1>1. CASE AutoStart \/ ClickRun
  <2>1. status' = [b \in Robo |-> "PENDING"]
    BY <1>1 DEF AutoStart, ClickRun, RunAll
  <2> QED
    BY <2>1 DEF SuccessCounted
<1>2. CASE ClickTag
  BY <1>2 DEF ClickTag, SuccessCounted
<1>3. CASE NextBenchmark(load)
  BY <1>3, NextTakes DEF NextTimer, SuccessCounted
<1>4. CASE LoadFrame \/ BenchmarkLoaded
  <2>1. counted' = counted
    BY <1>4 DEF LoadFrame, BenchmarkLoaded
  <2>2. \A b \in Robo : status'[b] = "SUCCESS" => status[b] = "SUCCESS"
    BY <1>0, <1>4 DEF LoadFrame, OnPopupBlock, BenchmarkLoaded
  <2> QED
    BY <2>1, <2>2 DEF SuccessCounted
<1>5. CASE SuiteAborts
  BY <1>0, <1>5 DEF SuiteAborts, OnBenchmarkAbort, SuccessCounted
<1>6. CASE SuiteCompletes(load)
  <2>1. PICK b \in Robo :
          \/ OnBenchmarkAbort(b)
          \/ status' = [status EXCEPT ![b] = "SUCCESS"] /\ counted' = More(counted, b)
    BY <1>6 DEF SuiteCompletes
  <2>2. CASE OnBenchmarkAbort(b)
    BY <1>0, <2>2 DEF OnBenchmarkAbort, SuccessCounted
  <2>3. CASE status' = [status EXCEPT ![b] = "SUCCESS"] /\ counted' = More(counted, b)
    <3>1. counted[b] \in Nat /\ counted'[b] = counted[b] + 1
          /\ \A c \in Robo \ {b} : counted'[c] = counted[c]
      BY <2>3, Timers DEF RoboTypes
    <3>2. \A c \in Robo \ {b} : status'[c] = status[c]
      BY <1>0, <2>3
    <3>3. counted'[b] >= 1
      BY <3>1
    <3> QED
      BY <3>1, <3>2, <3>3 DEF SuccessCounted
  <2> QED
    BY <2>1, <2>2, <2>3
<1> QED
  BY <1>1, <1>2, <1>3, <1>4, <1>5, <1>6 DEF RoboStep

LEMMA RoboStepKeeps ==
  ASSUME RoboTypes, RoboInv, RoboStep(load)
  PROVE  RoboInv'
<1>1. CASE AutoStart \/ ClickRun
  <2>1. /\ currentIndex' = 0 /\ counted' = None0 /\ nextTimers' = nextTimers + 1
        /\ starts' = starts + 1 /\ UNCHANGED <<loadTimers, suites, frame>>
    BY <1>1 DEF AutoStart, ClickRun, RunAll
  <2>2. starts' # 0 /\ (starts' <= 1 => starts = 0)
    BY <2>1 DEF RoboTypes
  <2>3. starts' <= 1 => Idle' /\ nextTimers' <= 1
    BY <2>1, <2>2 DEF RoboInv, Idle
  <2>4. CountedOnce'
    BY <2>1, RoboNames DEF CountedOnce
  <2> QED
    BY <2>2, <2>3, <2>4, SuccessCountedKept DEF RoboInv, OneInProgress
<1>2. CASE ClickTag
  <2>1. UNCHANGED <<starts, nextTimers, loadTimers, suites, frame, currentIndex, activeBenchmark,
                    counted, benchmarkWindow>>
    BY <1>2 DEF ClickTag
  <2> QED
    BY <2>1, SuccessCountedKept
    DEF RoboInv, Idle, OneInProgress, Loading, InFrame, Running, InHand, CountedOnce, One
<1>3. ASSUME UNCHANGED starts, starts # 0, starts <= 1 => OneInProgress' /\ CountedOnce'
      PROVE  RoboInv'
  BY <1>3, SuccessCountedKept DEF RoboInv
<1>4. CASE NextBenchmark(load)
  <2>1. starts' = starts /\ nextTimers > 0 /\ nextTimers \in Nat
    BY <1>4, NextTakes DEF NextTimer, RoboTypes
  <2>2. starts # 0
    BY <2>1 DEF RoboInv
  <2> QED
    BY <1>3, <1>4, <2>1, <2>2, NextKeepsOne DEF RoboInv
<1>5. CASE LoadFrame
  <2>1. starts' = starts /\ loadTimers # None0
    BY <1>5, NothingSet DEF LoadFrame, Fewer
  <2> QED
    BY <1>3, <1>5, <2>1, LoadKeepsOne DEF RoboInv, Idle
<1>6. CASE BenchmarkLoaded
  BY <1>3, <1>6, LoadedKeepsOne DEF RoboInv, Idle, BenchmarkLoaded
<1>7. CASE SuiteAborts \/ SuiteCompletes(load)
  <2>1. PICK b \in Robo :
          /\ Fewer(suites, b)
          /\ \/ OnBenchmarkAbort(b)
             \/ frame' = None /\ counted' = More(counted, b) /\ nextTimers' = nextTimers + 1
    BY <1>7 DEF SuiteAborts, SuiteCompletes
  <2>2. UNCHANGED <<starts, currentIndex, loadTimers>>
    BY <1>7 DEF SuiteAborts, SuiteCompletes
  <2>3. suites # None0
    BY <2>1, NothingSet DEF Fewer
  <2>4. starts # 0
    BY <2>3 DEF RoboInv, Idle
  <2>5. starts <= 1 => OneInProgress' /\ CountedOnce'
    BY <2>1, <2>2, AbortKeepsOne, SuccessKeepsOne DEF RoboInv
  <2> QED
    BY <1>3, <2>2, <2>4, <2>5
<1> QED
  BY <1>1, <1>2, <1>4, <1>5, <1>6, <1>7 DEF RoboStep

\* What is in progress on the page, as the property says it.
LEMMA OnePerBenchmark ==
  ASSUME RoboTypes, OneInProgress, NEW b \in Robo
  PROVE  /\ \A c \in Robo \ {b} : loadTimers[b] + suites[b] = 0 \/ loadTimers[c] + suites[c] = 0
         /\ nextTimers + loadTimers[b] + suites[b] + Cardinality({frame} \ {None}) <= 1
         /\ suites[b] > 0 => activeBenchmark = b /\ benchmarkWindow
<1>0. /\ nextTimers \in Nat /\ \A c \in Robo : loadTimers[c] \in Nat /\ suites[c] \in Nat
      /\ \A c \in Robo : None0[c] = 0
  BY RoboNames DEF RoboTypes
<1>1. frame = None => Cardinality({frame} \ {None}) = 0
  <2>1. frame = None => {frame} \ {None} = {}
    OBVIOUS
  <2> QED
    BY <2>1, FS_EmptySet
<1>2. frame # None => Cardinality({frame} \ {None}) = 1
  <2>1. frame # None => {frame} \ {None} = {frame}
    OBVIOUS
  <2> QED
    BY <2>1, FS_Singleton
<1>3. InHand => activeBenchmark \in Robo /\ nextTimers = 0
  BY RoboNames DEF InHand
<1>4. ASSUME NEW a \in Robo
      PROVE  One(a)[a] = 1 /\ \A c \in Robo \ {a} : One(a)[c] = 0
  BY <1>4, RoboNames DEF One
<1>5. CASE Idle /\ nextTimers <= 1
  BY <1>0, <1>1, <1>5 DEF Idle
<1>6. CASE Loading
  <2>1. loadTimers[b] <= 1 /\ (loadTimers[b] # 0 => b = activeBenchmark)
        /\ \A c \in Robo : loadTimers[c] # 0 => c = activeBenchmark
    BY <1>0, <1>3, <1>4, <1>6 DEF Loading
  <2>2. \A c \in Robo : suites[c] = 0
    BY <1>0, <1>6 DEF Loading
  <2>3. nextTimers = 0 /\ Cardinality({frame} \ {None}) = 0
    BY <1>1, <1>3, <1>6 DEF Loading
  <2> QED
    BY <1>0, <2>1, <2>2, <2>3
<1>7. CASE InFrame
  <2>1. \A c \in Robo : loadTimers[c] = 0 /\ suites[c] = 0
    BY <1>0, <1>7 DEF InFrame
  <2>2. nextTimers = 0 /\ Cardinality({frame} \ {None}) \in {0, 1}
    BY <1>1, <1>2, <1>3, <1>7 DEF InFrame
  <2> QED
    BY <2>1, <2>2
<1>8. CASE Running
  <2>1. suites[b] <= 1 /\ (suites[b] # 0 => b = activeBenchmark)
        /\ \A c \in Robo : suites[c] # 0 => c = activeBenchmark
    BY <1>0, <1>3, <1>4, <1>8 DEF Running
  <2>2. \A c \in Robo : loadTimers[c] = 0
    BY <1>0, <1>8 DEF Running
  <2>3. nextTimers = 0 /\ Cardinality({frame} \ {None}) = 0
    BY <1>1, <1>3, <1>8 DEF Running
  <2>4. suites[b] > 0 => activeBenchmark = b /\ benchmarkWindow
    BY <1>0, <1>8, <2>1 DEF Running
  <2> QED
    BY <1>0, <2>1, <2>2, <2>3, <2>4
<1> QED
  BY <1>5, <1>6, <1>7, <1>8 DEF OneInProgress

-------------------------------------------------------------------------------
(* Types *)

LEMMA Rounds ==
  ASSUME ThreadTypes
  PROVE  kRepeat \in Nat \ {0} /\ (test = "testRoboHornet" => kRepeat = 1)
BY BrowserAssumption DEF ThreadTypes, kRepeat

LEMMA FlagsKept ==
  ASSUME Flags, [Next]_vars
  PROVE  Flags'
<1>1. CASE TestThread
  BY <1>1, Zenon DEF Flags, TestThread, Launch, Await, Iterate, Reported, Stop, Join, Shutdown,
                     watchDog, fixed
<1>2. CASE WatchDog
  BY <1>2, Zenon DEF Flags, WatchDog, Acquire, TimedOut, Loop, fixed, browser
<1>3. CASE \E w \in Worker : Handle(w)
  BY <1>3, Zenon DEF Flags, Handle, fixed, browser
<1>4. CASE LoadPage \/ Page \/ Tick
  BY <1>4, Zenon DEF Flags, LoadPage, Page, Tick, fixed, watchDog, browser
<1>5. CASE UNCHANGED vars
  BY <1>5, Zenon DEF Flags, vars, fixed, watchDog, browser
<1> QED
  BY <1>1, <1>2, <1>3, <1>4, <1>5 DEF Next

LEMMA ThreadTypesKept ==
  ASSUME ThreadTypes, mResultsMap \in Seq(Entry), [Next]_vars
  PROVE  ThreadTypes'
<1>0. None \notin Nat /\ Len(mResultsMap) \in Nat
  BY BrowserAssumption, LenProperties
<1>1. CASE TestThread
  <2>1. UNCHANGED <<test, load, wdClock, quiet>>
    BY <1>1 DEF TestThread, fixed, Launch, Await, Iterate, Reported, Stop, Join, Shutdown, clocks
  <2>2. CASE Launch
    BY <2>1, <2>2 DEF ThreadTypes, Launch, watchDog
  <2>3. CASE Await
    BY <2>1, <2>3 DEF ThreadTypes, Await, watchDog, clocks
  <2>4. CASE Iterate
    BY <1>0, <2>1, <2>4 DEF ThreadTypes, Iterate, watchDog, clocks
  <2>5. CASE Reported
    BY <2>1, <2>5 DEF ThreadTypes, Reported, watchDog, clocks
  <2>6. CASE Stop
    BY <1>0, <2>1, <2>6 DEF ThreadTypes, Stop, clocks
  <2>7. CASE Join
    BY <2>1, <2>7 DEF ThreadTypes, Join, clocks
  <2>8. CASE Shutdown
    BY <2>1, <2>8 DEF ThreadTypes, Shutdown, watchDog, clocks
  <2> QED
    BY <1>1, <2>2, <2>3, <2>4, <2>5, <2>6, <2>7, <2>8 DEF TestThread
<1>2. CASE WatchDog
  <2>1. UNCHANGED <<test, tpc, mRunIndex, mLatch, seen, verdict, load, latchClock, quiet>>
        /\ wpc # "gone"
    BY <1>2 DEF WatchDog, Acquire, TimedOut, Loop, fixed, browser, testThread
  <2>2. mSemaphore \in Nat
    BY <2>1 DEF ThreadTypes
  <2>3. mSemaphore' \in Nat /\ wdClock' \in {wdClock, 0} /\ wpc' \in {"wait", "loop", "gone"}
    <3>1. CASE Acquire
      BY <2>2, <3>1 DEF Acquire
    <3>2. CASE TimedOut \/ Loop
      BY <2>2, <3>2 DEF TimedOut, Loop
    <3> QED
      BY <1>2, <3>1, <3>2 DEF WatchDog
  <2> QED
    BY <2>1, <2>3 DEF ThreadTypes
<1>3. CASE \E w \in Worker : Handle(w)
  <2> SUFFICES ASSUME NEW w \in Worker, Handle(w) PROVE ThreadTypes'
    BY <1>3
  <2>1. UNCHANGED <<test, tpc, mRunIndex, seen, verdict, wpc, load, latchClock, wdClock>>
    BY DEF Handle, fixed, browser
  <2>2. mLatch' \in {mLatch, 0} /\ quiet' \in {quiet, 0}
    BY DEF Handle, Accept, Store, CountDown, Reset, Release, Respond
  <2>3. mSemaphore' = mSemaphore \/ (mSemaphore # None /\ mSemaphore' = mSemaphore + 1)
    BY DEF Handle, Accept, Store, CountDown, Reset, Release, Respond
  <2> QED
    BY <2>1, <2>2, <2>3 DEF ThreadTypes
<1>4. CASE LoadPage
  BY <1>4 DEF ThreadTypes, LoadPage, fixed, testThread, watchDog, clocks
<1>5. CASE Page
  BY <1>5 DEF ThreadTypes, Page, fixed, testThread, watchDog, clocks
<1>6. CASE Tick
  BY <1>6 DEF ThreadTypes, Tick, fixed, testThread, watchDog, browser
<1>7. CASE UNCHANGED vars
  BY <1>7 DEF ThreadTypes, vars, fixed, testThread, watchDog, browser, clocks
<1> QED
  BY <1>1, <1>2, <1>3, <1>4, <1>5, <1>6, <1>7 DEF Next

\* What WatchDog.reset and onPost do to the array of a message.
LEMMA EntryAdded ==
  ASSUME Types, NEW message \in Message
  PROVE  LET map == WithEntry(message)
             new == [message |-> message, scores |-> [r \in 1..kRepeat |-> 0]]
         IN  /\ map \in Seq(Entry)
             /\ Len(mResultsMap) \in Nat /\ Len(map) \in Nat
             /\ \A k \in 1..Len(mResultsMap) : k \in 1..Len(map) /\ map[k] = mResultsMap[k]
             /\ \/ Entered(message) /\ map = mResultsMap
                \/ ~Entered(message) /\ Len(map) = Len(mResultsMap) + 1 /\ map[Len(map)] = new
             /\ \E k \in 1..Len(map) : map[k].message = message
<1> DEFINE map == WithEntry(message)
           new == [message |-> message, scores |-> [r \in 1..kRepeat |-> 0]]
<1>1. mResultsMap \in Seq(Entry) /\ DOMAIN mResultsMap = 1..Len(mResultsMap)
      /\ Len(mResultsMap) \in Nat
  BY LenProperties DEF Types
<1>2. kRepeat \in Nat
  BY Rounds DEF Types
<1>3. new \in Entry /\ new.message = message
  BY <1>2 DEF Entry
<1>4. CASE Entered(message)
  <2>1. map = mResultsMap
    BY <1>1, <1>4 DEF WithEntry, EntryOf, Entered, EnteredIn
  <2> QED
    BY <1>1, <1>4, <2>1 DEF Entered, EnteredIn
<1>5. CASE ~Entered(message)
  <2>1. map = Append(mResultsMap, new)
    BY <1>1, <1>5 DEF WithEntry, EntryOf, Entered, EnteredIn
  <2> HIDE DEF map, new
  <2>2. /\ map \in Seq(Entry) /\ Len(map) = Len(mResultsMap) + 1
        /\ \A k \in 1..Len(mResultsMap) : map[k] = mResultsMap[k]
        /\ map[Len(mResultsMap) + 1] = new
    BY <1>1, <1>3, <2>1, AppendAt
  <2>3. Len(map) \in 1..Len(map) /\ Len(map) \in Nat /\ map[Len(map)] = new
        /\ \A k \in 1..Len(mResultsMap) : k \in 1..Len(map)
    BY <1>1, <2>2
  <2>4. \E k \in 1..Len(map) : map[k].message = message
    BY <1>3, <2>3
  <2> QED
    BY <1>1, <1>5, <2>2, <2>3, <2>4 DEF map, new
<1> QED
  BY <1>4, <1>5

LEMMA ScorePut ==
  ASSUME NEW map \in Seq(Entry), NEW message \in Message, kRepeat \in Nat,
         NEW r \in 1..kRepeat, NEW score \in Nat
  PROVE  LET put == PutScore(map, message, r, score)
         IN  /\ put \in Seq(Entry) /\ Len(put) = Len(map)
             /\ \A k \in 1..Len(map) :
                  /\ put[k].message = map[k].message
                  /\ \A c \in 1..kRepeat :
                       put[k].scores[c] = IF c = r /\ map[k].message = message
                                            THEN score ELSE map[k].scores[c]
<1> DEFINE put == PutScore(map, message, r, score)
           At(k) == IF map[k].message = message THEN [map[k] EXCEPT !.scores[r] = score]
                                                ELSE map[k]
<1>1. DOMAIN map = 1..Len(map) /\ Len(map) \in Nat
      /\ \A k \in 1..Len(map) : map[k] \in Entry
  BY LenProperties, ElementOfSeq
<1>2. \A k \in 1..Len(map) :
        /\ At(k) \in Entry /\ At(k).message = map[k].message
        /\ \A c \in 1..kRepeat :
             At(k).scores[c] = IF c = r /\ map[k].message = message
                                 THEN score ELSE map[k].scores[c]
  BY <1>1 DEF Entry
<1>3. put = [k \in 1..Len(map) |-> At(k)]
  BY <1>1 DEF PutScore
<1> HIDE DEF At, put
<1>4. put \in [1..Len(map) -> Entry] /\ \A k \in 1..Len(map) : put[k] = At(k)
  BY <1>2, <1>3
<1>5. put \in Seq(Entry) /\ Len(put) = Len(map)
  BY <1>1, <1>4, SeqDef, LenProperties
<1> QED
  BY <1>2, <1>4, <1>5 DEF put

\* A page that waits for the answer to its report of a round.
Posted(round) ==
  /\ post' \in Request /\ post'.round = round /\ (post'.final <=> post'.message \in FinalScore)
  /\ wire' \in {post', None}

LEMMA ReportPosts ==
  ASSUME NEW m \in Message, NEW sc \in Score, NEW f \in BOOLEAN, NEW round \in Nat,
         CtsReport(m, sc, f, round), f <=> m \in FinalScore
  PROVE  Posted(round) /\ post'.message = m /\ post'.score = sc /\ (post'.final <=> f)
<1> DEFINE r == [message |-> m, score |-> sc, final |-> f, round |-> round]
<1>1. r \in Request /\ r.message = m /\ r.score = sc /\ r.final = f /\ r.round = round
  BY DEF Request, Score
<1>2. post' = r /\ wire' \in {r, None}
  BY DEF CtsReport
<1> QED
  BY <1>1, <1>2 DEF Posted

LEMMA OctanePosts ==
  ASSUME OctaneProgress, NEW round \in Nat, OctaneStep(round)
  PROVE  \/ UNCHANGED channel
         \/ /\ Posted(round) /\ (post'.final => turn' = "scored")
            /\ post'.message # RoboScore
<1>0. Len(Suites) \in Nat /\ index \in Nat /\ index <= Len(Suites)
  BY SuiteTypes DEF OctaneProgress
<1>1. ASSUME NEW i \in 1..Len(Suites), NEW sc \in Score, CtsReport(Suites[i], sc, FALSE, round)
      PROVE  Posted(round) /\ ~post'.final /\ post'.message # RoboScore
  <2> DEFINE m == Suites[i]
  <2>1. m \in Message /\ m \notin FinalScore /\ m # RoboScore
    BY SuiteTypes, FinalMessages
  <2>2. CtsReport(m, sc, FALSE, round)
    BY <1>1
  <2> HIDE DEF m
  <2>3. Posted(round) /\ post'.message = m
    BY <2>1, <2>2, ReportPosts
  <2> QED
    BY <2>1, <2>3 DEF Posted
<1>2. ASSUME NEW i \in 1..Len(Suites), NotifyError(Suites[i], round)
      PROVE  Posted(round) /\ ~post'.final /\ post'.message # RoboScore
  BY <1>1, <1>2 DEF NotifyError, Report, Score
<1>3. CASE RunSuites
  BY <1>3 DEF RunSuites
<1>4. CASE NextSuite(round)
  <2>1. index + 1 \in 1..Len(Suites)
    BY <1>0, <1>4 DEF NextSuite
  <2> QED
    BY <1>2, <1>4, <2>1 DEF NextSuite, Setup
<1>5. CASE RunNextSetup(round)
  <2>1. index \in 1..Len(Suites)
    BY <1>0, <1>5 DEF RunNextSetup, OctaneProgress
  <2>2. CASE Setup(Suite, round)
    BY <1>2, <2>1, <2>2 DEF Setup, Suite
  <2>3. CASE NotifyResult(round)
    BY <1>1, <2>1, <2>3 DEF NotifyResult, Report, Suite, Score
  <2> QED
    BY <1>5, <2>2, <2>3 DEF RunNextSetup
<1>6. CASE RunNextBenchmark(round) \/ RunNextTearDown(round)
  <2>1. index \in 1..Len(Suites)
    BY <1>0, <1>6 DEF RunNextBenchmark, RunNextTearDown, OctaneProgress
  <2> QED
    BY <1>2, <1>6, <2>1 DEF RunNextBenchmark, RunNextTearDown, Suite
<1>7. CASE NotifyScore(round)
  <2> DEFINE m == IF success THEN CompleteScore ELSE IncompleteScore
             sc == IF scores = {} THEN "NaN" ELSE "number"
  <2>1. CtsReport(m, sc, TRUE, round) /\ turn' = "scored"
    BY <1>7 DEF NotifyScore, Report
  <2>2. m \in Message /\ m \in FinalScore /\ sc \in Score /\ m # RoboScore
    BY FinalMessages DEF Score
  <2> HIDE DEF m, sc
  <2>3. Posted(round) /\ post'.message = m
    BY <2>1, <2>2, ReportPosts
  <2> QED
    BY <2>1, <2>2, <2>3
<1> QED
  BY <1>3, <1>4, <1>5, <1>6, <1>7 DEF OctaneStep

BenchmarkPosted(round) ==
  /\ Posted(round) /\ post'.message \in Robo /\ post'.score = "number"
  /\ status' = [status EXCEPT ![post'.message] = "SUCCESS"]

FinalPosted(round) ==
  /\ Posted(round) /\ post'.message = RoboScore
  /\ \A b \in Robo : status'[b] = "SUCCESS" /\ status[b] = "SUCCESS"
  /\ UNCHANGED <<counted, starts>>

LEMMA RoboPosts ==
  ASSUME load \in Nat, RoboStep(load), RoboTypes
  PROVE  UNCHANGED channel \/ BenchmarkPosted(load) \/ FinalPosted(load)
<1>0. \A b \in Robo : b \in Message /\ b \notin FinalScore
  BY FinalMessages, BrowserAssumption DEF Robo
<1>1. CASE AutoStart \/ ClickRun \/ ClickTag \/ LoadFrame \/ BenchmarkLoaded \/ SuiteAborts
  BY <1>1 DEF AutoStart, ClickRun, RunAll, ClickTag, LoadFrame, BenchmarkLoaded, SuiteAborts,
              OnBenchmarkAbort
<1>2. CASE SuiteCompletes(load)
  <2>1. PICK b \in Robo :
          \/ OnBenchmarkAbort(b)
          \/ status' = [status EXCEPT ![b] = "SUCCESS"] /\ CtsReport(b, "number", FALSE, load)
    BY <1>2 DEF SuiteCompletes
  <2>2. CASE OnBenchmarkAbort(b)
    BY <2>2 DEF OnBenchmarkAbort
  <2>3. CASE status' = [status EXCEPT ![b] = "SUCCESS"] /\ CtsReport(b, "number", FALSE, load)
    <3>1. Posted(load) /\ post'.message = b /\ post'.score = "number"
      BY <1>0, <2>3, ReportPosts DEF Score
    <3> QED
      BY <2>3, <3>1 DEF BenchmarkPosted
  <2> QED
    BY <2>1, <2>2, <2>3
<1>3. CASE NextBenchmark(load)
  <2>1. \/ UNCHANGED channel
        \/ \E st : status' = st /\ Done(st, load)
    BY <1>3 DEF NextBenchmark
  <2> SUFFICES ASSUME ~UNCHANGED channel, Done(status', load)
               PROVE  FinalPosted(load)
    BY <2>1
  <2> DEFINE sc == IF finite THEN "number" ELSE "Infinity"
  <2>2. CtsReport(RoboScore, sc, TRUE, load) /\ \A b \in Robo : status'[b] = "SUCCESS"
    BY DEF Done
  <2>3. sc \in Score
    BY DEF Score
  <2> HIDE DEF sc
  <2>4. Posted(load) /\ post'.message = RoboScore
    BY <2>2, <2>3, FinalMessages, ReportPosts
  <2>5. \A b \in Robo : status'[b] = "SUCCESS" => status[b] = "SUCCESS"
    BY <1>3, NextTakes
  <2> QED
    BY <1>3, <2>2, <2>4, <2>5, NextTakes DEF FinalPosted, NextTimer
<1> QED
  BY <1>1, <1>2, <1>3 DEF RoboStep

\* A step of a worker is its own.
LEMMA OwnStep ==
  ASSUME WorkerTypes, NEW w \in Worker, Handle(w)
  PROVE  /\ hpc' \in [Worker -> HandlerStep] /\ hreq' \in [Worker -> Request \cup {None}]
         /\ \A v \in Worker \ {w} : hpc'[v] = hpc[v] /\ hreq'[v] = hreq[v]
         /\ \/ /\ Accept(w) /\ hpc[w] = "idle" /\ hpc'[w] = "store" /\ hreq'[w] = wire
               /\ wire \in Request /\ wire' = None /\ post' = post
            \/ /\ hpc[w] # "idle" /\ hpc'[w] # "store" /\ UNCHANGED wire
               /\ hpc'[w] = "final" => hpc[w] = "store"
               /\ hpc'[w] = "idle" \/ hreq'[w] = hreq[w]
               /\ post' = post \/ (Respond(w) /\ post = hreq[w] /\ post' = None)
<1>1. CASE Accept(w)
  BY <1>1 DEF Accept, WorkerTypes, HandlerStep
<1>2. ASSUME NEW step \in HandlerStep, HandlerGoes(w, step)
      PROVE  /\ hpc' \in [Worker -> HandlerStep] /\ hreq' = hreq /\ hpc'[w] = step
             /\ \A v \in Worker \ {w} : hpc'[v] = hpc[v]
  BY <1>2 DEF HandlerGoes, WorkerTypes
<1>3. ASSUME HandlerEnds(w)
      PROVE  /\ hpc' \in [Worker -> HandlerStep] /\ hreq' \in [Worker -> Request \cup {None}]
             /\ hpc'[w] = "idle"
             /\ \A v \in Worker \ {w} : hpc'[v] = hpc[v] /\ hreq'[v] = hreq[v]
  BY <1>3 DEF HandlerEnds, WorkerTypes, HandlerStep
<1>4. /\ "idle" \in HandlerStep /\ "store" \in HandlerStep /\ "final" \in HandlerStep
      /\ "reset" \in HandlerStep /\ "release" \in HandlerStep /\ "respond" \in HandlerStep
  BY DEF HandlerStep
<1>5. CASE Store(w)
  <2>1. /\ hpc[w] = "store" /\ UNCHANGED channel
        /\ \/ HandlerGoes(w, "respond") \/ HandlerGoes(w, "final") \/ HandlerGoes(w, "reset")
           \/ HandlerEnds(w)
    BY <1>5 DEF Store
  <2> QED
    BY <1>2, <1>3, <1>4, <2>1 DEF channel, WorkerTypes
<1>6. CASE CountDown(w)
  <2>1. hpc[w] = "final" /\ UNCHANGED channel /\ HandlerGoes(w, "reset")
    BY <1>6 DEF CountDown
  <2> QED
    BY <1>2, <1>4, <2>1 DEF channel, WorkerTypes
<1>7. CASE Reset(w)
  <2>1. hpc[w] = "reset" /\ UNCHANGED channel
        /\ (HandlerGoes(w, "respond") \/ HandlerGoes(w, "release"))
    BY <1>7 DEF Reset
  <2> QED
    BY <1>2, <1>4, <2>1 DEF channel, WorkerTypes
<1>8. CASE Release(w)
  <2>1. hpc[w] = "release" /\ UNCHANGED channel /\ (HandlerGoes(w, "respond") \/ HandlerEnds(w))
    BY <1>8 DEF Release
  <2> QED
    BY <1>2, <1>3, <1>4, <2>1 DEF channel, WorkerTypes
<1>9. CASE Respond(w)
  <2>1. hpc[w] = "respond" /\ UNCHANGED wire /\ HandlerEnds(w)
        /\ (post' = post \/ (post = hreq[w] /\ post' = None))
    BY <1>9 DEF Respond
  <2> QED
    BY <1>3, <1>9, <2>1
<1> QED
  BY <1>1, <1>5, <1>6, <1>7, <1>8, <1>9 DEF Handle

LEMMA WorkerTypesKept ==
  ASSUME Types, OctaneProgress, RoboTypes, [Next]_vars
  PROVE  WorkerTypes'
<1>1. CASE TestThread \/ WatchDog \/ Tick \/ UNCHANGED vars
  <2>1. UNCHANGED <<workers, channel>>
    BY <1>1 DEF TestThread, WatchDog, Tick, vars
  <2> QED
    BY <2>1 DEF Types, WorkerTypes, workers, channel
<1>2. CASE \E w \in Worker : Handle(w)
  <2> SUFFICES ASSUME NEW w \in Worker, Handle(w) PROVE WorkerTypes'
    BY <1>2
  <2>1. WorkerTypes
    BY DEF Types
  <2>2. \A v \in Worker : hpc'[v] # "idle" => hreq'[v] \in Request
    BY <2>1, OwnStep DEF WorkerTypes
  <2>3. post' \in Request \cup {None} /\ wire' \in Request \cup {None}
    BY <2>1, OwnStep DEF WorkerTypes
  <2> QED
    BY <2>1, <2>2, <2>3, OwnStep DEF WorkerTypes
<1>3. CASE LoadPage
  BY <1>3 DEF Types, WorkerTypes, LoadPage, workers
<1>4. CASE Page
  <2>1. UNCHANGED workers /\ load \in Nat
    BY <1>4 DEF Page, Types, ThreadTypes
  <2>2. UNCHANGED channel \/ Posted(load)
    <3>1. CASE OctaneStep(load)
      BY <2>1, <3>1, OctanePosts
    <3>2. CASE RoboStep(load)
      <4>1. UNCHANGED channel \/ BenchmarkPosted(load) \/ FinalPosted(load)
        BY <2>1, <3>2, RoboPosts
      <4> QED
        BY <4>1 DEF BenchmarkPosted, FinalPosted
    <3> QED
      BY <1>4, <3>1, <3>2 DEF Page
  <2> QED
    BY <2>1, <2>2 DEF Types, WorkerTypes, workers, channel, Posted
<1> QED
  BY <1>1, <1>2, <1>3, <1>4 DEF Next

\* What is stored: nothing but a score, and it goes into the array of its message, in
\* the column of the round the test thread is in.
LEMMA StoreDoes ==
  ASSUME Types, InRound, NEW w \in Worker, Store(w)
  PROVE  /\ hreq[w] \in Request /\ hpc[w] = "store"
         /\ \/ /\ hpc'[w] = "respond" /\ hreq[w].score # "number" /\ hreq' = hreq
               /\ mResultsMap' = mResultsMap /\ quiet' = quiet
            \/ /\ hpc'[w] \in {"final", "reset"} /\ hreq' = hreq
               /\ hpc'[w] = "final" <=> hreq[w].final
               /\ hreq[w].score = "number" /\ mRunIndex + 1 \in 1..kRepeat /\ quiet' = 0
               /\ mResultsMap' = PutScore(WithEntry(hreq[w].message), hreq[w].message,
                                          mRunIndex + 1, hreq[w].round)
            \/ /\ hpc'[w] = "idle" /\ hreq[w].score = "number" /\ mRunIndex = kRepeat
               /\ mResultsMap' = WithEntry(hreq[w].message) /\ quiet' = quiet
<1>1. hreq[w] \in Request /\ hpc[w] = "store" /\ w \in DOMAIN hpc /\ mRunIndex \in Nat
      /\ kRepeat \in Nat
  BY Rounds DEF Store, Types, WorkerTypes, ThreadTypes
<1>2. mRunIndex < kRepeat => mRunIndex + 1 \in 1..kRepeat
  BY <1>1
<1> QED
  BY <1>1, <1>2 DEF Store, HandlerGoes, HandlerEnds

LEMMA MapKept ==
  ASSUME Types, InRound, [Next]_vars
  PROVE  mResultsMap' \in Seq([message : Message, scores : [1..kRepeat -> Nat]])
<1>1. CASE TestThread \/ WatchDog \/ LoadPage \/ Page \/ Tick \/ UNCHANGED vars
  <2>1. mResultsMap' = mResultsMap
    BY <1>1 DEF TestThread, Launch, Await, Iterate, Reported, Stop, Join, Shutdown, WatchDog,
                LoadPage, Page, Tick, vars
  <2> QED
    BY <2>1 DEF Types, Entry
<1>2. ASSUME NEW w \in Worker, Handle(w)
      PROVE  mResultsMap' \in Seq([message : Message, scores : [1..kRepeat -> Nat]])
  <2>1. CASE Store(w)
    <3>1. /\ hreq[w].message \in Message /\ hreq[w].round \in Nat
          /\ WithEntry(hreq[w].message) \in Seq(Entry) /\ kRepeat \in Nat
      BY <2>1, StoreDoes, EntryAdded, Rounds DEF Request, Types
    <3>2. CASE mResultsMap' = mResultsMap \/ mResultsMap' = WithEntry(hreq[w].message)
      BY <3>1, <3>2 DEF Entry, Types
    <3>3. CASE /\ mRunIndex + 1 \in 1..kRepeat
               /\ mResultsMap' = PutScore(WithEntry(hreq[w].message), hreq[w].message,
                                          mRunIndex + 1, hreq[w].round)
      BY <3>1, <3>3, ScorePut DEF Entry
    <3> QED
      BY <2>1, <3>2, <3>3, StoreDoes
  <2>2. CASE ~Store(w)
    <3>1. mResultsMap' = mResultsMap
      BY <1>2, <2>2 DEF Handle, Accept, CountDown, Reset, Release, Respond
    <3> QED
      BY <3>1 DEF Types, Entry
  <2> QED
    BY <2>1, <2>2
<1> QED
  BY <1>1, <1>2 DEF Next

LEMMA TypesKept ==
  ASSUME Types, InRound, OctaneProgress, RoboTypes, [Next]_vars
  PROVE  Types' /\ kRepeat' = kRepeat /\ test' = test
<1>1. test' = test
  BY DEF Next, TestThread, WatchDog, Handle, LoadPage, Page, Tick, vars, fixed
<1>2. kRepeat' = kRepeat
  BY <1>1 DEF kRepeat
<1>3. mResultsMap' \in Seq(Entry')
  BY <1>2, MapKept DEF Entry
<1> QED
  BY <1>1, <1>2, <1>3, ThreadTypesKept, FlagsKept, WorkerTypesKept DEF Types

-------------------------------------------------------------------------------
(* The watch-dog *)

\* The workers of which the watch-dog is to be told.
LEMMA LateAt ==
  ASSUME WorkerTypes, NEW w \in Worker, hpc' \in [Worker -> HandlerStep],
         \A v \in Worker \ {w} : hpc'[v] = hpc[v]
  PROVE  /\ hpc'[w] \in {"final", "reset", "release"} => Late'
         /\ Late' => Late \/ hpc'[w] \in {"final", "reset", "release"}
         /\ Late => Late' \/ hpc[w] \in {"final", "reset", "release"}
BY DEF Late, WorkerTypes

LEMMA WatchKept ==
  ASSUME Types, InRound, WatchInv, [Next]_vars
  PROVE  WatchInv'
<1>0. ThreadTypes /\ WorkerTypes /\ Flags /\ PostTimeout \in Nat \ {0} /\ None \notin Nat
  BY BrowserAssumption DEF Types
<1>1. CASE TestThread
  <2>1. UNCHANGED <<hpc, wpc, alive, wdClock, quiet>> /\ alive
    BY <1>1 DEF TestThread, Launch, Await, Iterate, Reported, Stop, Join, Shutdown, watchDog,
                workers, clocks
  <2>2. Late' <=> Late
    BY <2>1 DEF Late
  <2>3. CASE Launch
    BY <1>0, <2>1, <2>2, <2>3 DEF Launch, watchDog, WatchInv, WatchDogPatient
  <2>4. CASE Await
    BY <1>0, <2>1, <2>2, <2>4 DEF Await, watchDog, WatchInv, WatchDogPatient
  <2>5. CASE Iterate \/ Reported
    BY <1>0, <2>1, <2>2, <2>5 DEF Iterate, Reported, watchDog, WatchInv, WatchDogPatient
  <2>6. CASE Stop
    BY <1>0, <2>1, <2>2, <2>6 DEF Stop, WatchInv, WatchDogPatient, ThreadTypes
  <2>7. CASE Join
    BY <1>0, <2>1, <2>2, <2>7 DEF Join, WatchInv, WatchDogPatient
  <2>8. CASE Shutdown
    BY <1>0, <2>1, <2>2, <2>8 DEF Shutdown, watchDog, WatchInv, WatchDogPatient
  <2> QED
    BY <1>1, <2>3, <2>4, <2>5, <2>6, <2>7, <2>8 DEF TestThread
<1>2. CASE WatchDog
  <2>1. UNCHANGED <<tpc, mLatch, verdict, hpc, quiet>> /\ alive /\ wpc # "gone"
        /\ mStopRequested' = mStopRequested
    BY <1>2 DEF WatchDog, Acquire, TimedOut, Loop, testThread, workers
  <2>2. Late' <=> Late
    BY <2>1 DEF Late
  <2>3. mSemaphore \in Nat /\ wdClock \in Nat /\ quiet \in Nat
    BY <1>0, <2>1 DEF ThreadTypes
  <2>4. CASE Acquire
    BY <1>0, <2>1, <2>2, <2>3, <2>4 DEF Acquire, WatchInv, WatchDogPatient
  <2>5. CASE TimedOut
    BY <1>0, <2>1, <2>2, <2>3, <2>5 DEF TimedOut, WatchInv, WatchDogPatient
  <2>6. CASE Loop
    BY <1>0, <2>1, <2>2, <2>3, <2>6 DEF Loop, WatchInv, WatchDogPatient
  <2> QED
    BY <1>2, <2>4, <2>5, <2>6 DEF WatchDog
<1>3. CASE Tick
  <2>1. UNCHANGED <<tpc, mLatch, verdict, hpc, wpc, mSemaphore, alive>>
        /\ alive /\ Waiting /\ wdClock' = wdClock + 1 /\ quiet' = quiet + 1
        /\ mStopRequested' = mStopRequested
    BY <1>3 DEF Tick, testThread, workers, watchDog
  <2>2. ~Late /\ ~Late'
    BY <2>1 DEF Late, Waiting
  <2>3. wdClock \in Nat /\ quiet \in Nat
    BY <1>0 DEF ThreadTypes
  <2> QED
    BY <1>0, <2>1, <2>2, <2>3 DEF WatchInv, WatchDogPatient, Waiting
<1>4. CASE LoadPage \/ Page \/ UNCHANGED vars
  <2>1. UNCHANGED <<testThread, watchDog, hpc, wdClock, quiet>>
    BY <1>4 DEF LoadPage, Page, vars, workers, clocks
  <2> QED
    BY <2>1 DEF WatchInv, WatchDogPatient, Late, testThread, watchDog
<1>5. ASSUME NEW w \in Worker, Handle(w) PROVE WatchInv'
  <2>1. UNCHANGED <<tpc, verdict, wpc, wdClock>> /\ mStopRequested' = mStopRequested
        /\ alive' = alive /\ alive
    BY <1>5 DEF Handle
  <2>2. /\ hpc'[w] \in {"final", "reset", "release"} => Late'
        /\ Late' => Late \/ hpc'[w] \in {"final", "reset", "release"}
        /\ Late => Late' \/ hpc[w] \in {"final", "reset", "release"}
    BY <1>0, <1>5, OwnStep, LateAt
  <2>3. hpc[w] \in {"final", "reset", "release"} => Late
    BY DEF Late
  <2>4. wdClock \in Nat /\ quiet \in Nat
    BY <1>0 DEF ThreadTypes
  <2>5. CASE Accept(w) \/ Respond(w)
    <3>1. UNCHANGED <<mLatch, mSemaphore, quiet>> /\ hpc[w] \in {"idle", "respond"}
          /\ hpc'[w] \in {"idle", "store"}
      BY <1>0, <2>5 DEF Accept, Respond, HandlerEnds, WorkerTypes
    <3>2. Late' <=> Late
      BY <2>2, <3>1
    <3> QED
      BY <2>1, <3>1, <3>2 DEF WatchInv, WatchDogPatient
  <2>6. CASE Store(w)
    <3>1. UNCHANGED <<mLatch, mSemaphore>> /\ hpc[w] = "store"
          /\ \/ hpc'[w] \in {"idle", "respond"} /\ quiet' = quiet
             \/ hpc'[w] \in {"final", "reset"} /\ quiet' = 0
      BY <2>6, StoreDoes DEF Store
    <3>2. CASE hpc'[w] \in {"idle", "respond"} /\ quiet' = quiet
      <4>1. Late' <=> Late
        BY <2>2, <3>1, <3>2
      <4> QED
        BY <2>1, <3>1, <3>2, <4>1 DEF WatchInv, WatchDogPatient
    <3>3. CASE hpc'[w] \in {"final", "reset"} /\ quiet' = 0
      <4>1. Late'
        BY <2>2, <3>3
      <4> QED
        BY <1>0, <2>1, <2>4, <3>1, <3>3, <4>1 DEF WatchInv, WatchDogPatient
    <3> QED
      BY <3>1, <3>2, <3>3
  <2>7. CASE CountDown(w)
    <3>1. hpc[w] = "final" /\ hpc'[w] = "reset" /\ UNCHANGED <<mSemaphore, quiet>>
      BY <1>0, <2>7 DEF CountDown, HandlerGoes, WorkerTypes
    <3>2. Late /\ Late'
      BY <2>2, <2>3, <3>1
    <3> QED
      BY <2>1, <3>1, <3>2 DEF WatchInv, WatchDogPatient
  <2>8. CASE Reset(w)
    <3>1. hpc[w] = "reset" /\ UNCHANGED <<mLatch, mSemaphore, quiet>>
          /\ hpc'[w] = IF mStopRequested THEN "respond" ELSE "release"
      BY <1>0, <2>8 DEF Reset, HandlerGoes, WorkerTypes
    <3>2. Late /\ (~mStopRequested => Late')
      BY <2>2, <2>3, <3>1
    <3> QED
      BY <1>0, <2>1, <2>4, <3>1, <3>2 DEF WatchInv, WatchDogPatient
  <2>9. CASE Release(w)
    <3>1. Late /\ UNCHANGED <<mLatch, quiet>>
          /\ mSemaphore' = IF mSemaphore = None THEN None ELSE mSemaphore + 1
      BY <2>3, <2>9 DEF Release
    <3>2. wpc # "gone" => mSemaphore \in Nat /\ mSemaphore' = mSemaphore + 1
      BY <1>0, <3>1 DEF ThreadTypes
    <3> QED
      BY <1>0, <2>1, <2>4, <3>1, <3>2 DEF WatchInv, WatchDogPatient
  <2> QED
    BY <1>5, <2>5, <2>6, <2>7, <2>8, <2>9 DEF Handle
<1> QED
  BY <1>1, <1>2, <1>3, <1>4, <1>5 DEF Next

-------------------------------------------------------------------------------
(* The results *)

\* The results after a request: at most one array more, which is the last and is of its
\* message, and one more score, which is of its round, in one column or, when column is 0,
\* in none.
Stored(map, message, column, round) ==
  /\ Len(map) \in {Len(mResultsMap), Len(mResultsMap) + 1}
  /\ Len(map) = Len(mResultsMap) + 1 => ~Entered(message) /\ map[Len(map)].message = message
  /\ \A k \in 1..Len(mResultsMap) : map[k].message = mResultsMap[k].message
  /\ \A k \in 1..Len(map) : \A c \in 1..kRepeat :
       map[k].scores[c] = IF c = column /\ map[k].message = message THEN round
                          ELSE IF k \in 1..Len(mResultsMap) THEN mResultsMap[k].scores[c]
                          ELSE 0

ColumnOf(request) ==
  IF request.score = "number" /\ mRunIndex < kRepeat THEN mRunIndex + 1 ELSE 0

LEMMA StoreGives ==
  ASSUME Types, InRound, NEW w \in Worker, Store(w)
  PROVE  /\ Stored(mResultsMap', hreq[w].message, ColumnOf(hreq[w]), hreq[w].round)
         /\ hreq[w].score = "number" =>
              \E k \in 1..Len(mResultsMap') : mResultsMap'[k].message = hreq[w].message
<1> DEFINE m == hreq[w].message
           map == WithEntry(m)
<1>1. m \in Message /\ hreq[w].round \in Nat /\ hreq[w].message = m
  BY StoreDoes DEF Request
<1>2. kRepeat \in Nat /\ Len(mResultsMap) \in Nat /\ mRunIndex \in Nat
  BY Rounds, LenProperties DEF Types, ThreadTypes
<1>3. /\ map \in Seq(Entry) /\ Len(map) \in Nat
      /\ Len(map) \in {Len(mResultsMap), Len(mResultsMap) + 1}
      /\ Len(map) = Len(mResultsMap) + 1 => ~Entered(m) /\ map[Len(map)].message = m
      /\ \A k \in 1..Len(mResultsMap) : map[k] = mResultsMap[k]
      /\ \E k \in 1..Len(map) : map[k].message = m
      /\ Len(map) = Len(mResultsMap) + 1 => \A c \in 1..kRepeat : map[Len(map)].scores[c] = 0
  <2> DEFINE new == [message |-> m, scores |-> [r \in 1..kRepeat |-> 0]]
  <2>1. /\ map \in Seq(Entry) /\ Len(map) \in Nat
        /\ \A k \in 1..Len(mResultsMap) : k \in 1..Len(map) /\ map[k] = mResultsMap[k]
        /\ \/ Entered(m) /\ map = mResultsMap
           \/ ~Entered(m) /\ Len(map) = Len(mResultsMap) + 1 /\ map[Len(map)] = new
        /\ \E k \in 1..Len(map) : map[k].message = m
    BY <1>1, EntryAdded
  <2>2. new.message = m /\ \A c \in 1..kRepeat : new.scores[c] = 0
    OBVIOUS
  <2> HIDE DEF map, m, new
  <2> QED
    BY <1>2, <2>1, <2>2
<1>4. \A k \in 1..Len(map) : k \notin 1..Len(mResultsMap) =>
        k = Len(map) /\ Len(map) = Len(mResultsMap) + 1
  BY <1>2, <1>3
<1> HIDE DEF map, m
<1>5. CASE mResultsMap' = mResultsMap /\ hreq[w].score # "number"
  BY <1>2, <1>5 DEF Stored, ColumnOf
<1>6. CASE mResultsMap' = map /\ hreq[w].score = "number" /\ mRunIndex = kRepeat
  <2>1. \A k \in 1..Len(map) : \A c \in 1..kRepeat :
          map[k].scores[c] = IF k \in 1..Len(mResultsMap) THEN mResultsMap[k].scores[c] ELSE 0
    BY <1>3, <1>4
  <2> QED
    BY <1>1, <1>2, <1>3, <1>6, <2>1 DEF Stored, ColumnOf
<1>7. CASE /\ hreq[w].score = "number" /\ mRunIndex + 1 \in 1..kRepeat
           /\ mResultsMap' = PutScore(map, m, mRunIndex + 1, hreq[w].round)
  <2> DEFINE put == mResultsMap'
  <2>1. /\ Len(put) = Len(map)
        /\ \A k \in 1..Len(map) :
             /\ put[k].message = map[k].message
             /\ \A c \in 1..kRepeat :
                  put[k].scores[c] = IF c = mRunIndex + 1 /\ map[k].message = m
                                       THEN hreq[w].round ELSE map[k].scores[c]
    BY <1>1, <1>2, <1>3, <1>7, ScorePut
  <2>2. mRunIndex < kRepeat
    BY <1>2, <1>7
  <2>3. \A k \in 1..Len(map) : \A c \in 1..kRepeat :
          put[k].scores[c] = IF c = mRunIndex + 1 /\ put[k].message = m THEN hreq[w].round
                             ELSE IF k \in 1..Len(mResultsMap) THEN mResultsMap[k].scores[c]
                             ELSE 0
    BY <1>3, <1>4, <2>1
  <2>4. /\ \A k \in 1..Len(mResultsMap) : put[k].message = mResultsMap[k].message
        /\ Len(map) = Len(mResultsMap) + 1 => put[Len(map)].message = m
    <3>1. \A k \in 1..Len(mResultsMap) : k \in 1..Len(map)
      BY <1>2, <1>3
    <3>2. Len(map) = Len(mResultsMap) + 1 => Len(map) \in 1..Len(map)
      BY <1>2, <1>3
    <3>3. \A k \in 1..Len(map) : put[k].message = map[k].message
      BY <2>1
    <3> HIDE DEF put
    <3> QED
      BY <1>3, <3>1, <3>2, <3>3
  <2>5. \E k \in 1..Len(put) : put[k].message = m
    BY <1>3, <2>1
  <2>6. Len(put) \in {Len(mResultsMap), Len(mResultsMap) + 1} /\ Len(put) = Len(map)
        /\ (Len(put) = Len(mResultsMap) + 1 => ~Entered(m) /\ put[Len(put)].message = m)
    BY <1>3, <2>1, <2>4
  <2> HIDE DEF put
  <2>7. Stored(put, m, mRunIndex + 1, hreq[w].round)
    BY <2>3, <2>4, <2>6 DEF Stored
  <2>8. ColumnOf(hreq[w]) = mRunIndex + 1
    BY <1>7, <2>2 DEF ColumnOf
  <2> QED
    BY <1>1, <2>5, <2>7, <2>8 DEF put
<1> QED
  BY <1>5, <1>6, <1>7, StoreDoes DEF m, map

\* A worker stores what the page waits for, in the round the page was loaded for.
LEMMA StoreOfRound ==
  ASSUME Types, InRound, Requests, RoundOver, NEW w \in Worker, hpc[w] = "store"
  PROVE  /\ hreq[w] \in Request /\ hreq[w] = post /\ post.round = load /\ load \in Nat \ {0}
         /\ post.final <=> post.message \in FinalScore
         /\ wire = None /\ tpc # "launch" /\ ~intent
         /\ ColumnOf(post) \in {0, load} /\ load \in 1..kRepeat
         /\ post.score = "number" /\ mRunIndex < kRepeat => ColumnOf(post) = load
<1>1. hreq[w] \in Request /\ load \in Nat /\ mRunIndex \in Nat /\ kRepeat \in Nat
      /\ None \notin Request
  BY Rounds, BrowserAssumption DEF Types, WorkerTypes, ThreadTypes
<1>2. hreq[w].round \in Nat /\ Active(w)
  BY <1>1 DEF Request, Active
<1>3. hreq[w].round = load
  BY <1>1, <1>2 DEF Requests
<1>4. hreq[w] = post
  BY <1>2, <1>3 DEF Requests
<1>5. post # None /\ wire = None /\ post.round = load /\ load > 0
      /\ (post.final <=> post.message \in FinalScore)
  BY <1>1, <1>2, <1>3, <1>4 DEF Requests
<1>6. tpc # "launch" /\ ~intent
  BY DEF RoundOver
<1>7. load \in 1..kRepeat /\ (mRunIndex < kRepeat => load = mRunIndex + 1)
  BY <1>1, <1>5, <1>6 DEF InRound
<1> QED
  BY <1>1, <1>4, <1>5, <1>6, <1>7 DEF ColumnOf

LEMMA StoreColumns ==
  ASSUME Types, InRound, Requests, RoundOver, Columns, NEW w \in Worker, Store(w)
  PROVE  /\ \A k \in 1..Len(mResultsMap') : \A c \in 1..kRepeat :
              mResultsMap'[k].scores[c] = 0 \/ (mResultsMap'[k].scores[c] = c /\ c <= load)
         /\ \A c \in 1..kRepeat : FinalIn(mResultsMap, c) => FinalIn(mResultsMap', c)
         /\ ~post.final => \A c \in 1..kRepeat : FinalIn(mResultsMap', c) => FinalIn(mResultsMap, c)
         /\ hpc'[w] = "final" => FinalIn(mResultsMap', load) /\ hreq[w].final
<1> DEFINE map == mResultsMap'
           col == ColumnOf(post)
           m == post.message
<1>1. hpc[w] = "store"
  BY DEF Store
<1>2. /\ post \in Request /\ hreq[w] = post /\ post.round = load /\ load \in 1..kRepeat
      /\ col \in {0, load} /\ load \in Nat \ {0}
      /\ post.final <=> m \in FinalScore
      /\ post.score = "number" /\ mRunIndex < kRepeat => col = load
  BY <1>1, StoreOfRound
<1>3. Stored(map, m, col, load)
  BY <1>2, StoreGives
<1>4. kRepeat \in Nat /\ Len(mResultsMap) \in Nat
  BY Rounds, LenProperties DEF Types
<1> HIDE DEF map, col
<1>5. Len(map) \in Nat /\ (\A k \in 1..Len(mResultsMap) : k \in 1..Len(map))
      /\ \A k \in 1..Len(map) : k \in 1..Len(mResultsMap) \/ (k = Len(map) /\ map[k].message = m)
  BY <1>3, <1>4 DEF Stored
<1>6. \A k \in 1..Len(map) : \A c \in 1..kRepeat :
        map[k].scores[c] = 0 \/ (map[k].scores[c] = c /\ c <= load)
  BY <1>2, <1>3, <1>4 DEF Stored, Columns
<1>7. ASSUME NEW c \in 1..kRepeat, FinalIn(mResultsMap, c) PROVE FinalIn(map, c)
  <2>1. PICK k \in 1..Len(mResultsMap) :
          mResultsMap[k].message \in FinalScore /\ mResultsMap[k].scores[c] # 0
    BY <1>7 DEF FinalIn
  <2>2. map[k].message \in FinalScore /\ map[k].scores[c] # 0
    BY <1>2, <1>3, <1>5, <2>1 DEF Stored
  <2> QED
    BY <1>5, <2>1, <2>2 DEF FinalIn
<1>8. ASSUME ~post.final, NEW c \in 1..kRepeat, FinalIn(map, c) PROVE FinalIn(mResultsMap, c)
  <2>1. PICK k \in 1..Len(map) : map[k].message \in FinalScore /\ map[k].scores[c] # 0
    BY <1>8 DEF FinalIn
  <2>2. map[k].message # m
    BY <1>2, <1>8, <2>1
  <2>3. k \in 1..Len(mResultsMap)
    BY <1>5, <2>2
  <2>4. mResultsMap[k].message \in FinalScore /\ mResultsMap[k].scores[c] # 0
    BY <1>3, <2>1, <2>2, <2>3 DEF Stored
  <2> QED
    BY <2>3, <2>4 DEF FinalIn
<1>9. ASSUME hpc'[w] = "final" PROVE FinalIn(map, load) /\ hreq[w].final
  <2>1. hreq[w].final /\ hreq[w].score = "number" /\ mRunIndex + 1 \in 1..kRepeat
    BY <1>9, StoreDoes
  <2>2. m \in FinalScore /\ col = load
    BY <1>2, <1>4, <2>1 DEF Types, ThreadTypes
  <2>3. PICK k \in 1..Len(map) : map[k].message = m
    BY <1>2, <2>1, StoreGives DEF map
  <2>4. map[k].scores[load] = load
    BY <1>2, <1>3, <2>2, <2>3 DEF Stored
  <2> QED
    BY <1>2, <2>1, <2>2, <2>3, <2>4 DEF FinalIn
<1> QED
  BY <1>6, <1>7, <1>8, <1>9 DEF map

LEMMA InRoundKept ==
  ASSUME Types, InRound, RoundOver, OctaneProgress, [Next]_vars
  PROVE  InRound'
<1>0. ThreadTypes /\ kRepeat \in Nat \ {0} /\ kRepeat' = kRepeat /\ test' = test
      /\ (test = "testRoboHornet" => kRepeat = 1)
  <2>1. test' = test
    BY DEF Next, TestThread, WatchDog, Handle, LoadPage, Page, Tick, vars, fixed
  <2> QED
    BY <2>1, Rounds DEF Types, kRepeat
<1>1. CASE TestThread
  <2>1. UNCHANGED <<load, turn>>
    BY <1>1 DEF TestThread, Launch, Await, Iterate, Reported, Stop, Join, Shutdown, octane
  <2>2. CASE Launch
    BY <1>0, <2>1, <2>2 DEF Launch, InRound, ThreadTypes
  <2>3. CASE Await
    BY <1>0, <2>1, <2>3 DEF Await, InRound, ThreadTypes, RoundOver
  <2>4. CASE Iterate \/ Reported \/ Stop \/ Join \/ Shutdown
    BY <1>0, <2>1, <2>4 DEF Iterate, Reported, Stop, Join, Shutdown, InRound, ThreadTypes
  <2> QED
    BY <1>1, <2>2, <2>3, <2>4 DEF TestThread
<1>2. CASE WatchDog \/ (\E w \in Worker : Handle(w)) \/ Tick \/ UNCHANGED vars
  <2>1. UNCHANGED <<tpc, mRunIndex, verdict, intent, load, turn>>
    BY <1>2 DEF WatchDog, Handle, Tick, vars, testThread, browser, octane
  <2> QED
    BY <1>0, <2>1 DEF InRound
<1>3. CASE LoadPage
  <2>1. UNCHANGED <<tpc, mRunIndex, verdict>> /\ intent /\ ~intent' /\ load' = load + 1
    BY <1>3 DEF LoadPage, testThread
  <2>2. test = "testRoboHornet" => turn' = turn
    BY <1>3 DEF LoadPage, octane
  <2> QED
    BY <1>0, <2>1, <2>2 DEF InRound, ThreadTypes
<1>4. CASE Page
  <2>1. UNCHANGED <<tpc, mRunIndex, verdict, intent, load>>
    BY <1>4 DEF Page, testThread
  <2>2. turn = "off" => turn' = "off"
    BY <1>4 DEF Page, octane, OctaneStep, RunSuites, NextSuite, RunNextSetup, RunNextBenchmark,
                RunNextTearDown, NotifyScore
  <2> QED
    BY <1>0, <2>1, <2>2 DEF InRound
<1> QED
  BY <1>1, <1>2, <1>3, <1>4 DEF Next

LEMMA RequestsKept ==
  ASSUME Types, InRound, Requests, RoundOver, OctaneProgress, RoboTypes, [Next]_vars
  PROVE  Requests'
<1>0. load \in Nat /\ WorkerTypes /\ None \notin Request /\ test' = test
      /\ (\A w \in Worker : Active(w) => hreq[w] \in Request /\ hreq[w].round \in Nat)
  <2>1. test' = test
    BY DEF Next, TestThread, WatchDog, Handle, LoadPage, Page, Tick, vars, fixed
  <2> QED
    BY <2>1, BrowserAssumption DEF Types, ThreadTypes, WorkerTypes, Active, Request
<1>1. CASE TestThread \/ WatchDog \/ Tick \/ UNCHANGED vars
  <2>1. UNCHANGED <<workers, channel, load, turn>>
    BY <1>1 DEF TestThread, Launch, Await, Iterate, Reported, Stop, Join, Shutdown, WatchDog, Tick,
                vars, browser, octane
  <2> QED
    BY <1>0, <2>1 DEF Requests, Active, workers, channel
<1>2. ASSUME NEW w \in Worker, Handle(w) PROVE Requests'
  <2>1. UNCHANGED <<load, turn>>
    BY <1>2 DEF Handle, browser, octane
  <2>2. \A v \in Worker \ {w} : hpc'[v] = hpc[v] /\ hreq'[v] = hreq[v]
    BY <1>0, <1>2, OwnStep
  <2>3. CASE /\ Accept(w) /\ hpc[w] = "idle" /\ hpc'[w] = "store" /\ hreq'[w] = wire
             /\ wire \in Request /\ wire' = None /\ post' = post
    <3>1. wire = post /\ post.round = load /\ post # None
          /\ (\A v \in Worker : Active(v) => hreq[v].round < load)
      BY <1>0, <2>3 DEF Requests
    <3>2. \A v \in Worker \ {w} : (Active(v)' <=> Active(v)) /\ hreq'[v] = hreq[v]
                                   /\ hpc'[v] = hpc[v]
      BY <2>2 DEF Active
    <3>3. hreq'[w] = post /\ hpc'[w] = "store" /\ Active(w)'
      BY <2>3, <3>1 DEF Active
    <3> QED
      BY <1>0, <2>1, <2>3, <3>1, <3>2, <3>3 DEF Requests
  <2>4. CASE /\ hpc[w] # "idle" /\ hpc'[w] # "store" /\ UNCHANGED wire
             /\ hpc'[w] = "final" => hpc[w] = "store"
             /\ hpc'[w] = "idle" \/ hreq'[w] = hreq[w]
             /\ post' = post \/ (Respond(w) /\ post = hreq[w] /\ post' = None)
    <3>1. \A v \in Worker : hpc'[v] # "idle" =>
            /\ hpc[v] # "idle" /\ hreq'[v] = hreq[v]
            /\ hpc'[v] \in {"store", "final"} => hpc[v] \in {"store", "final"}
      BY <2>2, <2>4
    <3>2. hpc' \in [Worker -> HandlerStep]
      BY <1>0, <1>2, OwnStep
    <3>3. CASE post' = post
      <4>1. \A v \in Worker : Active(v)' => Active(v) /\ hreq'[v] = hreq[v]
        BY <3>1 DEF Active
      <4>2. \A v \in Worker : Active(v)' /\ hreq[v].round < load =>
              hpc'[v] \in {"reset", "release", "respond"}
        BY <1>0, <3>1, <3>2, <4>1 DEF Requests, HandlerStep, Active
      <4> QED
        BY <1>0, <2>1, <2>4, <3>3, <4>1, <4>2 DEF Requests
    <3>4. CASE Respond(w) /\ post = hreq[w] /\ post' = None
      <4>1. \A v \in Worker : Active(v)' => Active(v) /\ hreq'[v] = hreq[v] /\ v # w
        BY <1>0, <3>1, <3>4 DEF Active, Respond, HandlerEnds, WorkerTypes
      <4>2. Active(w) /\ post # None /\ post.round = load
        BY <1>0, <2>4, <3>4 DEF Active, Requests
      <4>3. \A v \in Worker : Active(v)' => hreq[v].round < load
        BY <3>4, <4>1, <4>2 DEF Requests
      <4>4. wire' = None
        BY <1>0, <2>4, <4>2, <3>4 DEF Requests
      <4>5. \A v \in Worker : Active(v)' => hpc'[v] \in {"reset", "release", "respond"}
        BY <2>2, <4>1, <4>3 DEF Requests
      <4> QED
        BY <1>0, <2>1, <3>4, <4>1, <4>3, <4>4, <4>5 DEF Requests
    <3> QED
      BY <2>4, <3>3, <3>4
  <2> QED
    BY <1>0, <1>2, <2>3, <2>4, OwnStep
<1>3. CASE LoadPage
  <2>1. load' = load + 1 /\ post' = None /\ UNCHANGED <<workers, wire>> /\ intent
    BY <1>3 DEF LoadPage
  <2>2. wire = None /\ \A w \in Worker : hpc[w] \notin {"store", "final"}
    BY <2>1 DEF RoundOver
  <2>3. \A w \in Worker : Active(w)' =>
          hreq'[w].round \in Nat /\ hreq'[w].round < load'
          /\ hpc'[w] \in {"reset", "release", "respond"}
    BY <1>0, <2>1, <2>2 DEF Requests, Active, workers, WorkerTypes, HandlerStep
  <2>4. wire' = None /\ post' = None /\ load' \in Nat
    BY <1>0, <2>1, <2>2
  <2> QED
    BY <2>3, <2>4 DEF Requests
<1>4. CASE Page
  <2>1. UNCHANGED <<workers, load>> /\ post = None
    BY <1>4 DEF Page, OctaneStep, RoboStep, Free
  <2>2. wire = None /\ \A w \in Worker : Active(w) => hreq[w].round < load
    BY <1>0, <2>1 DEF Requests
  <2>3. \A w \in Worker : (Active(w)' <=> Active(w)) /\ hreq'[w] = hreq[w] /\ hpc'[w] = hpc[w]
    BY <2>1 DEF workers, Active
  <2>4. CASE UNCHANGED channel
    BY <1>0, <2>1, <2>2, <2>3, <2>4 DEF channel, Requests
  <2>5. CASE /\ Posted(load) /\ load > 0
             /\ test = "testOctane" => (post'.final => turn' = "scored") /\ post'.message # RoboScore
    <3>1. \A w \in Worker : Active(w)' =>
            hreq'[w].round \in Nat /\ hreq'[w].round < load'
            /\ hpc'[w] \in {"reset", "release", "respond"}
      BY <1>0, <2>1, <2>2, <2>3 DEF Requests
    <3>2. load' = load /\ load' \in Nat
      BY <1>0, <2>1
    <3>3. /\ post' # None => /\ post'.round = load' /\ load' > 0
                             /\ post'.final <=> post'.message \in FinalScore
                             /\ test' = "testOctane" =>
                                  (post'.final => turn' = "scored") /\ post'.message # RoboScore
          /\ wire' # None => wire' = post'
      BY <1>0, <2>5, <3>2 DEF Posted
    <3> QED
      BY <3>1, <3>2, <3>3 DEF Requests
  <2>6. CASE OctaneStep(load)
    <3>1. load > 0
      <4>1. turn # "off"
        BY <2>6 DEF OctaneStep, RunSuites, NextSuite, RunNextSetup, RunNextBenchmark,
                    RunNextTearDown, NotifyScore
      <4> QED
        BY <1>0, <4>1 DEF InRound
    <3> QED
      BY <1>0, <2>4, <2>5, <2>6, <3>1, OctanePosts
  <2>7. CASE test = "testRoboHornet" /\ load > 0 /\ RoboStep(load)
    <3>1. UNCHANGED channel \/ Posted(load)
      <4>1. UNCHANGED channel \/ BenchmarkPosted(load) \/ FinalPosted(load)
        BY <1>0, <2>7, RoboPosts
      <4> QED
        BY <4>1 DEF BenchmarkPosted, FinalPosted
    <3> QED
      BY <2>4, <2>5, <2>7, <3>1
  <2> QED
    BY <1>4, <2>6, <2>7 DEF Page
<1> QED
  BY <1>1, <1>2, <1>3, <1>4 DEF Next

\* Only a worker that stores a score changes the results.
LEMMA MapSteps ==
  ASSUME [Next]_vars
  PROVE  mResultsMap' = mResultsMap \/ \E w \in Worker : Store(w) /\ Handle(w)
BY DEF Next, TestThread, Launch, Await, Iterate, Reported, Stop, Join, Shutdown, WatchDog,
       Handle, Accept, CountDown, Reset, Release, Respond, LoadPage, Page, Tick, vars

LEMMA ColumnsKept ==
  ASSUME Types, InRound, Requests, RoundOver, Columns, RoundsWon, kRepeat' = kRepeat, [Next]_vars
  PROVE  Columns' /\ \A r \in 1..mRunIndex : FinalIn(mResultsMap', r)
<1>0. load \in Nat /\ kRepeat \in Nat \ {0} /\ mRunIndex \in Nat /\ mRunIndex <= kRepeat
  BY Rounds DEF Types, ThreadTypes, InRound
<1>1. load' = load \/ load' = load + 1
  BY DEF Next, TestThread, Launch, Await, Iterate, Reported, Stop, Join, Shutdown, WatchDog,
         Handle, LoadPage, Page, Tick, vars, browser
<1>2. CASE mResultsMap' = mResultsMap
  BY <1>0, <1>1, <1>2 DEF Columns, RoundsWon
<1>3. ASSUME NEW w \in Worker, Store(w), Handle(w)
      PROVE  Columns' /\ \A r \in 1..mRunIndex : FinalIn(mResultsMap', r)
  <2>1. load' = load
    BY <1>3 DEF Handle, browser
  <2>2. \A r \in 1..mRunIndex : r \in 1..kRepeat
    BY <1>0
  <2> QED
    BY <1>3, <2>1, <2>2, StoreColumns DEF Columns, RoundsWon
<1> QED
  BY <1>2, <1>3, MapSteps

LEMMA RoundsWonKept ==
  ASSUME Types, InRound, Requests, RoundOver, Columns, RoundsWon, kRepeat' = kRepeat, [Next]_vars
  PROVE  RoundsWon'
<1>0. mRunIndex \in Nat /\ \A r \in 1..mRunIndex : FinalIn(mResultsMap', r)
  BY ColumnsKept DEF Types, ThreadTypes
<1>1. CASE mRunIndex' = mRunIndex
  BY <1>0, <1>1 DEF RoundsWon
<1>2. CASE Await /\ mLatch = 0
  <2>1. mRunIndex' = mRunIndex + 1 /\ mResultsMap' = mResultsMap /\ tpc = "await"
    BY <1>2 DEF Await
  <2>2. load = mRunIndex + 1 /\ FinalIn(mResultsMap, load)
    BY <1>0, <1>2, <2>1, Rounds DEF Types, InRound, RoundOver
  <2>3. \A r \in 1..mRunIndex + 1 : r \in 1..mRunIndex \/ r = load
    BY <1>0, <2>2
  <2> QED
    BY <1>0, <2>1, <2>2, <2>3 DEF RoundsWon
<1> QED
  BY <1>1, <1>2
  DEF Next, TestThread, Launch, Await, Iterate, Reported, Stop, Join, Shutdown, WatchDog, Handle,
      LoadPage, Page, Tick, vars, testThread

\* Before a page of a round has scored, the column of the round is empty.
LEMMA NotYetFinal ==
  ASSUME Types, InRound, Columns, NEW c \in 1..kRepeat, load < c
  PROVE  ~FinalIn(mResultsMap, c)
BY Rounds DEF Types, ThreadTypes, Columns, FinalIn

LEMMA RoundOverKept ==
  ASSUME Types, InRound, Requests, RoundOver, Columns, RoundsWon, OctaneProgress, RoboTypes,
         [Next]_vars
  PROVE  RoundOver'
<1>0. /\ load \in Nat /\ mRunIndex \in Nat /\ kRepeat \in Nat \ {0} /\ load <= kRepeat
      /\ test' = test /\ WorkerTypes /\ None \notin Request /\ mLatch \in {0, 1}
      /\ test \in {"testOctane", "testRoboHornet"} /\ (test = "testRoboHornet" => kRepeat = 1)
  <2>1. test' = test
    BY DEF Next, TestThread, WatchDog, Handle, LoadPage, Page, Tick, vars, fixed
  <2> QED
    BY <2>1, Rounds, BrowserAssumption DEF Types, ThreadTypes, InRound
<1>1. CASE TestThread
  <2>1. UNCHANGED <<load, mResultsMap, hpc, hreq, wire, turn>>
    BY <1>1 DEF TestThread, Launch, Await, Iterate, Reported, Stop, Join, Shutdown, workers,
                channel, octane
  <2>2. CASE Launch
    BY <1>0, <2>1, <2>2 DEF Launch, RoundOver
  <2>3. CASE Await /\ mLatch = 0
    <3>1. tpc = "await" /\ UNCHANGED <<mLatch, intent>> /\ tpc' \in {"launch", "report"}
          /\ mRunIndex' = mRunIndex + 1 /\ (tpc' = "launch" => mRunIndex' < kRepeat)
      BY <2>3 DEF Await
    <3>2. ~intent /\ FinalIn(mResultsMap, load) /\ load = mRunIndex + 1 /\ load > 0
      BY <1>0, <2>3, <3>1 DEF RoundOver, InRound
    <3>4. tpc' = "launch" => test = "testOctane"
      BY <1>0, <3>1, <3>2
    <3>5. test = "testOctane" => wire = None /\ \A w \in Worker : hpc[w] \notin {"store", "final"}
      BY <1>0, <2>3, <3>1, <3>2 DEF RoundOver
    <3> QED
      BY <1>0, <2>1, <3>1, <3>2, <3>4, <3>5 DEF RoundOver
  <2>4. CASE (Await /\ mLatch # 0) \/ Iterate \/ Reported \/ Stop \/ Join \/ Shutdown
    <3>1. tpc' \notin {"launch", "await"} /\ UNCHANGED intent
      BY <1>0, <2>4 DEF Await, Iterate, Reported, Stop, Join, Shutdown
    <3> QED
      BY <1>0, <2>1, <3>1 DEF RoundOver
  <2> QED
    BY <1>1, <2>2, <2>3, <2>4 DEF TestThread
<1>2. CASE WatchDog \/ Tick \/ UNCHANGED vars
  <2>1. UNCHANGED <<load, mResultsMap, hpc, hreq, wire, turn, tpc, mLatch, intent>>
    BY <1>2 DEF WatchDog, Tick, vars, testThread, workers, channel, browser, octane
  <2> QED
    BY <1>0, <2>1 DEF RoundOver
<1>3. CASE LoadPage
  <2>1. /\ UNCHANGED <<mResultsMap, hpc, hreq, wire, tpc, mLatch>> /\ intent /\ ~intent'
        /\ load' = load + 1
    BY <1>3 DEF LoadPage, testThread, workers
  <2>2. wire = None /\ \A w \in Worker : hpc[w] \notin {"store", "final"}
    BY <2>1 DEF RoundOver
  <2>3. tpc # "launch" /\ ~(tpc = "await" /\ mLatch = 0)
    BY <2>1 DEF InRound, RoundOver
  <2>4. load' \in 1..kRepeat /\ load < load'
    BY <1>0, <2>1 DEF InRound
  <2>5. ~FinalIn(mResultsMap, load')
    BY <2>4, NotYetFinal
  <2> QED
    BY <1>0, <2>1, <2>2, <2>3, <2>5 DEF RoundOver
<1>4. CASE Page
  <2>1. UNCHANGED <<mResultsMap, hpc, hreq, tpc, mLatch, intent, load>>
    BY <1>4 DEF Page, testThread, workers
  <2>2. CASE test = "testOctane" /\ OctaneStep(load)
    <3>1. turn \notin {"off", "scored"}
      BY <2>2 DEF OctaneStep, RunSuites, NextSuite, RunNextSetup, RunNextBenchmark,
                  RunNextTearDown, NotifyScore
    <3>2. load \in Nat \ {0} /\ ~FinalIn(mResultsMap, load)
      BY <1>0, <2>2, <3>1 DEF InRound, RoundOver
    <3>3. ~(tpc = "launch" \/ intent)
      <4>1. load \notin 1..mRunIndex
        BY <3>2 DEF RoundsWon
      <4> QED
        BY <1>0, <3>2, <4>1 DEF InRound
    <3> QED
      BY <1>0, <2>1, <3>2, <3>3 DEF RoundOver
  <2>3. CASE test = "testRoboHornet" /\ load > 0
    <3>1. ~(tpc = "launch" \/ intent)
      BY <1>0, <2>3 DEF RoundOver
    <3> QED
      BY <1>0, <2>1, <2>3, <3>1 DEF RoundOver
  <2>4. CASE test = "testRoboHornet" /\ OctaneStep(load)
    BY <2>4 DEF InRound, OctaneStep, RunSuites, NextSuite, RunNextSetup, RunNextBenchmark,
                RunNextTearDown, NotifyScore
  <2> QED
    BY <1>0, <1>4, <2>2, <2>3, <2>4 DEF Page
<1>5. ASSUME NEW w \in Worker, Handle(w) PROVE RoundOver'
  <2>1. UNCHANGED <<tpc, intent, load, turn>>
    BY <1>5 DEF Handle, browser, octane
  <2>2. \A v \in Worker \ {w} : hpc'[v] = hpc[v] /\ hreq'[v] = hreq[v]
    BY <1>0, <1>5, OwnStep
  <2>3. CASE Accept(w)
    <3>1. UNCHANGED <<mResultsMap, mLatch>> /\ hpc'[w] = "store" /\ wire # None /\ wire' = None
      BY <1>0, <2>3 DEF Accept, WorkerTypes
    <3> QED
      BY <1>0, <2>1, <2>2, <3>1 DEF RoundOver
  <2>4. CASE Store(w)
    <3>1. /\ hpc[w] = "store" /\ UNCHANGED <<mLatch, wire>> /\ hpc'[w] # "store"
      BY <1>0, <1>5, <2>4, OwnStep DEF Store, channel
    <3>2. /\ hreq[w] \in Request /\ hreq[w] = post /\ post.round = load /\ load \in 1..kRepeat
          /\ load > 0 /\ wire = None /\ tpc # "launch" /\ ~intent
      BY <1>0, <3>1, StoreOfRound
    <3>3. /\ FinalIn(mResultsMap, load) => FinalIn(mResultsMap', load)
          /\ ~post.final => (FinalIn(mResultsMap', load) => FinalIn(mResultsMap, load))
          /\ hpc'[w] = "final" => FinalIn(mResultsMap', load) /\ hreq[w].final
      BY <2>4, <3>2, StoreColumns
    <3>4. hpc'[w] = "final" => hreq'[w] = hreq[w]
      BY <1>0, <1>5, <3>1, OwnStep
    <3>5. \A v \in Worker : hpc'[v] # "store"
      BY <1>0, <2>2, <3>1, <3>2 DEF Requests, Active
    <3>6. test = "testOctane" => ~FinalIn(mResultsMap, load)
      BY <3>1, <3>2 DEF RoundOver
    <3>7. test = "testOctane" /\ post.final => turn = "scored"
      BY <1>0, <3>2 DEF Requests
    <3> QED
      BY <1>0, <2>1, <2>2, <3>1, <3>2, <3>3, <3>4, <3>5, <3>6, <3>7 DEF RoundOver
  <2>5. CASE CountDown(w)
    <3>1. /\ hpc[w] = "final" /\ hpc'[w] = "reset" /\ mLatch' = 0
          /\ UNCHANGED <<mResultsMap, wire>>
      BY <1>0, <2>5 DEF CountDown, HandlerGoes, WorkerTypes, channel
    <3>2. FinalIn(mResultsMap, load) /\ tpc # "launch" /\ ~intent
      BY <3>1 DEF RoundOver
    <3>3. \A v \in Worker \ {w} : hpc[v] # "final"
      <4>1. \A v \in Worker : hpc[v] = "final" => Active(v) /\ hreq[v].round = load
        <5> SUFFICES ASSUME NEW v \in Worker, hpc[v] = "final"
                     PROVE  Active(v) /\ hreq[v].round = load
          OBVIOUS
        <5>1. Active(v) /\ hreq[v].round \in Nat
          BY <1>0 DEF Active, WorkerTypes, Request
        <5> QED
          BY <1>0, <5>1 DEF Requests
      <4> QED
        BY <1>0, <3>1, <4>1 DEF Requests
    <3> QED
      BY <1>0, <2>1, <2>2, <3>1, <3>2, <3>3 DEF RoundOver
  <2>6. CASE Reset(w) \/ Release(w) \/ Respond(w)
    <3>1. UNCHANGED <<mResultsMap, mLatch, wire>> /\ hpc'[w] \notin {"store", "final"}
      BY <1>0, <2>6 DEF Reset, Release, Respond, HandlerGoes, HandlerEnds, WorkerTypes, channel
    <3> QED
      BY <1>0, <2>1, <2>2, <3>1 DEF RoundOver
  <2> QED
    BY <1>5, <2>3, <2>4, <2>5, <2>6 DEF Handle
<1> QED
  BY <1>1, <1>2, <1>3, <1>4, <1>5 DEF Next

-------------------------------------------------------------------------------
(* The summary *)

\* An array is added only before the page has delivered a final score.
LEMMA NewArray ==
  ASSUME Types, InRound, Requests, RoundOver, Summary, NEW w \in Worker, Store(w),
         ~Entered(post.message)
  PROVE  ~FinalIn(mResultsMap, load)
<1>0. hpc[w] = "store" /\ test \in {"testOctane", "testRoboHornet"}
  BY DEF Store, Types, ThreadTypes
<1>1. hreq[w] = post /\ post # None /\ load > 0
  BY <1>0, StoreOfRound, BrowserAssumption
<1>2. CASE test = "testOctane"
  BY <1>0, <1>1, <1>2 DEF RoundOver
<1>3. CASE test = "testRoboHornet"
  <2>1. RoboEntries /\ \A b \in Robo : b \notin FinalScore
    BY <1>3, BrowserAssumption DEF Summary, Robo
  <2>2. FinalIn(mResultsMap, load) => Entered(RoboScore)
    BY <2>1 DEF FinalIn, RoboEntries, Entered, EnteredIn
  <2> QED
    BY <1>1, <2>1, <2>2 DEF RoboEntries
<1> QED
  BY <1>0, <1>2, <1>3

LEMMA StoreSummary ==
  ASSUME Types, InRound, Requests, RoundOver, RoundsWon, Summary, NEW w \in Worker, Store(w)
  PROVE  /\ \A m \in Message : Entered(m) => EnteredIn(mResultsMap', m)
         /\ \A k \in 1..Len(mResultsMap') :
              \/ k \in 1..Len(mResultsMap) /\ mResultsMap'[k].message = mResultsMap[k].message
              \/ mResultsMap'[k].message = post.message
         /\ \A j, k \in 1..Len(mResultsMap') :
              mResultsMap'[j].message = mResultsMap'[k].message => j = k
         /\ post.score = "number" => EnteredIn(mResultsMap', post.message)
         /\ tpc = "reported" => Len(mResultsMap') = Len(mResultsMap)
<1> DEFINE map == mResultsMap'
<1>0. /\ hpc[w] = "store" /\ hreq[w] = post /\ load \in 1..kRepeat /\ kRepeat \in Nat \ {0}
      /\ Len(mResultsMap) \in Nat
  BY StoreOfRound, Rounds, LenProperties DEF Store, Types
<1>1. Stored(map, post.message, ColumnOf(post), post.round)
  BY <1>0, StoreGives
<1>2. post.score = "number" => EnteredIn(map, post.message)
  BY <1>0, StoreGives DEF EnteredIn
<1> HIDE DEF map
<1>3. /\ \A k \in 1..Len(mResultsMap) : k \in 1..Len(map)
      /\ \A k \in 1..Len(map) : k \in 1..Len(mResultsMap)
            \/ (k = Len(map) /\ map[k].message = post.message /\ ~Entered(post.message))
  BY <1>0, <1>1 DEF Stored
<1>4. \A k \in 1..Len(mResultsMap) : map[k].message = mResultsMap[k].message
  BY <1>1 DEF Stored
<1>5. \A m \in Message : Entered(m) => EnteredIn(map, m)
  BY <1>3, <1>4 DEF Entered, EnteredIn
<1>6. ASSUME NEW j \in 1..Len(map), NEW k \in 1..Len(map), map[j].message = map[k].message
      PROVE  j = k
  <2>1. CASE j \in 1..Len(mResultsMap) /\ k \in 1..Len(mResultsMap)
    BY <1>4, <1>6, <2>1 DEF Summary, OneArray
  <2>2. CASE j \notin 1..Len(mResultsMap) /\ k \notin 1..Len(mResultsMap)
    BY <1>3, <2>2
  <2>3. CASE j \in 1..Len(mResultsMap) /\ k \notin 1..Len(mResultsMap)
    BY <1>3, <1>4, <1>6, <2>3 DEF Entered, EnteredIn
  <2>4. CASE j \notin 1..Len(mResultsMap) /\ k \in 1..Len(mResultsMap)
    BY <1>3, <1>4, <1>6, <2>4 DEF Entered, EnteredIn
  <2> QED
    BY <2>1, <2>2, <2>3, <2>4
<1>7. ASSUME tpc = "reported" PROVE Len(map) = Len(mResultsMap)
  <2>1. mRunIndex = kRepeat /\ load = kRepeat
    BY <1>7 DEF InRound
  <2>2. FinalIn(mResultsMap, load)
    BY <1>0, <2>1 DEF RoundsWon
  <2>3. Entered(post.message)
    BY <2>2, NewArray
  <2> QED
    BY <1>1, <2>3 DEF Stored
<1> QED
  BY <1>2, <1>3, <1>4, <1>5, <1>6, <1>7 DEF map

LEMMA StoreFinalIsLast ==
  ASSUME Types, InRound, Requests, RoundOver, RoundsWon, Columns, Summary,
         NEW w \in Worker, Store(w), mRunIndex' = mRunIndex
  PROVE  FinalIsLast'
<1> DEFINE map == mResultsMap'
           m == post.message
           col == ColumnOf(post)
<1>0. /\ hpc[w] = "store" /\ hreq[w] = post /\ post.round = load /\ load \in 1..kRepeat
      /\ kRepeat \in Nat \ {0} /\ Len(mResultsMap) \in Nat /\ mRunIndex \in Nat
      /\ col \in {0, load} /\ (post.score = "number" /\ mRunIndex < kRepeat => col = load)
      /\ tpc # "launch" /\ ~intent
  BY StoreOfRound, Rounds, LenProperties DEF Store, Types, ThreadTypes
<1>1. col \in {0, mRunIndex + 1} /\ (mRunIndex = 0 => load = 1)
  BY <1>0 DEF ColumnOf, InRound
<1>2. Stored(map, m, col, load)
  BY <1>0, StoreGives
<1>3. CASE map = mResultsMap
  BY <1>3 DEF Summary, FinalIsLast
<1>4. CASE post.score = "number"
  <2> HIDE DEF map, m, col
  <2>1. /\ \A k \in 1..Len(mResultsMap) : k \in 1..Len(map)
        /\ \A k \in 1..Len(map) : k \in 1..Len(mResultsMap)
             \/ (k = Len(map) /\ map[k].message = m /\ ~Entered(m))
        /\ \A k \in 1..Len(mResultsMap) : map[k].message = mResultsMap[k].message
        /\ Len(map) \in Nat
        /\ 1 \in 1..kRepeat
    BY <1>0, <1>2 DEF Stored
  <2>2. \A k \in 1..Len(map) :
          map[k].scores[1] = IF 1 = col /\ map[k].message = m THEN load
                             ELSE IF k \in 1..Len(mResultsMap) THEN mResultsMap[k].scores[1]
                             ELSE 0
    BY <1>2, <2>1 DEF Stored
  <2>3. CASE mRunIndex = 0
    <3>1. load = 1 /\ col = 1
      BY <1>0, <1>1, <1>4, <2>3
    <3>2. \A k \in 1..Len(map) : map[k].scores[1] # 0
      BY <2>1, <2>2, <2>3, <3>1 DEF Summary, FinalIsLast
    <3>3. ASSUME NEW k \in 1..Len(map), map[k].message \in FinalScore PROVE k = Len(map)
      <4>1. CASE k \in 1..Len(mResultsMap)
        <5>1. mResultsMap[k].message \in FinalScore /\ mResultsMap[k].scores[1] # 0
          BY <2>1, <2>3, <3>3, <4>1 DEF Summary, FinalIsLast
        <5>2. k = Len(mResultsMap) /\ FinalIn(mResultsMap, load)
          BY <2>3, <3>1, <4>1, <5>1 DEF Summary, FinalIsLast, FinalIn
        <5>3. Entered(m)
          BY <5>2, NewArray DEF m
        <5>4. Len(map) = Len(mResultsMap)
          BY <1>2, <5>3 DEF Stored
        <5> QED
          BY <5>2, <5>4
      <4> QED
        BY <2>1, <4>1
    <3>4. \A j \in Len(map) + 1 .. Len(map) : FALSE
      BY <2>1
    <3> QED
      BY <2>3, <3>2, <3>3, <3>4 DEF FinalIsLast, map
  <2>4. CASE mRunIndex # 0
    <3>1. col # 1
      BY <1>0, <1>1, <2>4
    <3>2. \A k \in 1..Len(map) :
            map[k].scores[1] = IF k \in 1..Len(mResultsMap) THEN mResultsMap[k].scores[1] ELSE 0
      BY <2>2, <3>1
    <3>3. ASSUME NEW k \in 1..Len(map), map[k].message \in FinalScore, map[k].scores[1] # 0,
                 NEW j \in k + 1 .. Len(map)
          PROVE  map[j].scores[1] = 0
      <4>1. k \in 1..Len(mResultsMap) /\ mResultsMap[k].scores[1] # 0
            /\ mResultsMap[k].message \in FinalScore
        BY <2>1, <3>2, <3>3
      <4>2. j \in 1..Len(map) /\ (j \in 1..Len(mResultsMap) => j \in k + 1 .. Len(mResultsMap))
        BY <1>0, <2>1, <4>1
      <4> QED
        BY <3>2, <4>1, <4>2 DEF Summary, FinalIsLast
    <3> QED
      BY <2>4, <3>3 DEF FinalIsLast, map
  <2> QED
    BY <2>3, <2>4
<1> QED
  BY <1>0, <1>3, <1>4, StoreDoes

LEMMA OneArrayKept ==
  ASSUME Types, InRound, Requests, RoundOver, RoundsWon, Summary, [Next]_vars
  PROVE  OneArray'
<1>0. WorkerTypes /\ \A w \in Worker : hpc[w] # "idle" => hreq[w].message \in Message
  BY DEF Types, WorkerTypes, Request
<1>1. CASE UNCHANGED <<workers, mResultsMap>>
  BY <1>1 DEF Summary, OneArray, workers, Entered, EnteredIn
<1>2. ASSUME NEW w \in Worker, Handle(w) PROVE OneArray'
  <2>1. \A v \in Worker \ {w} : hpc'[v] = hpc[v] /\ hreq'[v] = hreq[v]
    BY <1>0, <1>2, OwnStep
  <2>2. CASE Store(w)
    <3>1. hreq[w] = post /\ hpc[w] = "store"
      BY <2>2, StoreOfRound DEF Store
    <3>2. /\ \A m \in Message : Entered(m) => EnteredIn(mResultsMap', m)
          /\ \A j, k \in 1..Len(mResultsMap') :
               mResultsMap'[j].message = mResultsMap'[k].message => j = k
          /\ post.score = "number" => EnteredIn(mResultsMap', post.message)
      BY <2>2, StoreSummary
    <3>3. hpc'[w] # "idle" => hreq'[w] = post
      BY <1>0, <1>2, <3>1, OwnStep
    <3>4. ASSUME NEW v \in Worker, hpc'[v] \in {"final", "reset", "release", "respond"},
                 hreq'[v].score = "number"
          PROVE  EnteredIn(mResultsMap', hreq'[v].message)
      <4>1. CASE v = w
        BY <3>2, <3>3, <3>4, <4>1
      <4>2. CASE v # w
        <5>1. hreq[v].message \in Message /\ Entered(hreq[v].message) /\ hreq'[v] = hreq[v]
          BY <1>0, <2>1, <3>4, <4>2 DEF Summary, OneArray
        <5> QED
          BY <3>2, <5>1
      <4> QED
        BY <4>1, <4>2
    <3> QED
      BY <3>2, <3>4 DEF OneArray, Entered
  <2>3. CASE ~Store(w)
    <3>1. mResultsMap' = mResultsMap
      BY <1>2, <2>3 DEF Handle, Accept, CountDown, Reset, Release, Respond
    <3>2. hpc'[w] \in {"final", "reset", "release", "respond"} =>
            hreq'[w] = hreq[w] /\ hpc[w] \in {"final", "reset", "release", "respond"}
      BY <1>0, <1>2, <2>3
      DEF Handle, Accept, CountDown, Reset, Release, Respond, HandlerGoes, HandlerEnds, WorkerTypes
    <3> QED
      BY <2>1, <3>1, <3>2 DEF Summary, OneArray, Entered, EnteredIn
  <2> QED
    BY <2>2, <2>3
<1>3. UNCHANGED <<workers, mResultsMap>> \/ \E w \in Worker : Handle(w)
  BY DEF Next, TestThread, Launch, Await, Iterate, Reported, Stop, Join, Shutdown, WatchDog,
         LoadPage, Page, Tick, vars
<1> QED
  BY <1>1, <1>2, <1>3

LEMMA FinalIsLastKept ==
  ASSUME Types, InRound, Requests, RoundOver, RoundsWon, Columns, Summary, [Next]_vars
  PROVE  FinalIsLast'
<1>1. CASE mResultsMap' = mResultsMap
  <2>1. mRunIndex \in Nat /\ mRunIndex' \in {mRunIndex, mRunIndex + 1}
    BY DEF Types, ThreadTypes, Next, TestThread, Launch, Await, Iterate, Reported, Stop, Join,
           Shutdown, WatchDog, Handle, LoadPage, Page, Tick, vars, testThread
  <2>2. mRunIndex' = 0 => mRunIndex = 0
    BY <2>1
  <2> QED
    BY <1>1, <2>2 DEF Summary, FinalIsLast
<1>2. ASSUME NEW w \in Worker, Store(w), Handle(w) PROVE FinalIsLast'
  BY <1>2, StoreFinalIsLast DEF Handle
<1> QED
  BY <1>1, <1>2, MapSteps

LEMMA UndisturbedKept ==
  ASSUME Types, InRound, Requests, RoundOver, RoundsWon, Summary, [Next]_vars
  PROVE  Undisturbed'
<1>1. CASE TestThread
  BY <1>1 DEF TestThread, Launch, Await, Iterate, Reported, Stop, Join, Shutdown, Summary,
              Undisturbed
<1>2. ASSUME NEW w \in Worker, Store(w), Handle(w) PROVE Undisturbed'
  <2>1. tpc = "reported" => Len(mResultsMap') = Len(mResultsMap)
    BY <1>2, StoreSummary
  <2> QED
    BY <1>2, <2>1 DEF Handle, Summary, Undisturbed
<1>3. CASE ~TestThread /\ mResultsMap' = mResultsMap
  <2>1. UNCHANGED <<tpc, seen, verdict>>
    BY <1>3 DEF Next, WatchDog, Handle, LoadPage, Page, Tick, vars, testThread
  <2> QED
    BY <1>3, <2>1 DEF Summary, Undisturbed
<1> QED
  BY <1>1, <1>2, <1>3, MapSteps

\* Only a benchmark that posts its score becomes a success.
LEMMA StatusKept ==
  ASSUME RoboTypes, load \in Nat, RoboStep(load), UNCHANGED channel, NEW b \in Robo, status'[b] = "SUCCESS"
  PROVE  status[b] = "SUCCESS"
<1>1. None # "SUCCESS" /\ status \in [Robo -> RoboStatus]
  BY NoneIsNoStatus DEF RoboTypes
<1>2. CASE AutoStart \/ ClickRun \/ ClickTag
  BY <1>2 DEF AutoStart, ClickRun, RunAll, ClickTag
<1>3. CASE LoadFrame \/ BenchmarkLoaded
  BY <1>1, <1>3 DEF LoadFrame, OnPopupBlock, BenchmarkLoaded
<1>4. CASE NextBenchmark(load)
  BY <1>4, NextTakes
<1>5. CASE SuiteAborts
  BY <1>1, <1>5 DEF SuiteAborts, OnBenchmarkAbort
<1>6. CASE SuiteCompletes(load)
  <2>1. ASSUME NEW c \in Robo, CtsReport(c, "number", FALSE, load) PROVE FALSE
    <3>1. c \in Message /\ c \notin FinalScore
      BY FinalMessages, BrowserAssumption DEF Robo
    <3>2. post' \in Request
      BY <2>1, <3>1, ReportPosts DEF Score, Posted
    <3> QED
      BY <3>2, BrowserAssumption DEF RoboStep, Free, channel
  <2> QED
    BY <1>1, <1>6, <2>1 DEF SuiteCompletes, OnBenchmarkAbort
<1> QED
  BY <1>2, <1>3, <1>4, <1>5, <1>6 DEF RoboStep

LEMMA RoboEntriesKept ==
  ASSUME Types, InRound, Requests, RoundOver, RoundsWon, Summary, OctaneProgress, RoboTypes,
         [Next]_vars, test = "testRoboHornet"
  PROVE  RoboEntries'
<1>0. /\ WorkerTypes /\ load \in Nat /\ None \notin Request
      /\ \A b \in Robo : b \in Message /\ b \notin FinalScore
      /\ RoboScore \in Message /\ RoboScore \in FinalScore
      /\ RoboEntries
  BY FinalMessages, BrowserAssumption DEF Types, ThreadTypes, Robo, Summary
<1>1. CASE UNCHANGED <<mResultsMap, status, post>>
  BY <1>0, <1>1 DEF RoboEntries, Entered, EnteredIn
<1>2. CASE LoadPage
  <2>1. post' = None /\ mResultsMap' = mResultsMap /\ status' = [b \in Robo |-> None]
    BY <1>2 DEF LoadPage, RoboFresh
  <2>2. \A b \in Robo : status'[b] = None
    BY <2>1
  <2>3. None # "SUCCESS"
    BY NoneIsNoStatus
  <2> QED
    BY <1>0, <2>1, <2>2, <2>3 DEF RoboEntries, Entered, EnteredIn
<1>3. CASE Page
  <2>1. mResultsMap' = mResultsMap /\ post = None
    BY <1>3 DEF Page, OctaneStep, RoboStep, Free
  <2>2. \A b \in Robo : status[b] = "SUCCESS" => Entered(b)
    BY <1>0, <2>1 DEF RoboEntries
  <2>3. RoboStep(load)
    BY <1>3 DEF Page, InRound, OctaneStep, RunSuites, NextSuite, RunNextSetup, RunNextBenchmark,
                RunNextTearDown, NotifyScore
  <2>4. CASE UNCHANGED channel
    <3>1. \A b \in Robo : status'[b] = "SUCCESS" => Entered(b)
      BY <1>0, <2>2, <2>3, <2>4, StatusKept
    <3>2. post' = None
      BY <2>1, <2>4 DEF channel
    <3> QED
      BY <1>0, <2>1, <3>1, <3>2 DEF RoboEntries, Entered, EnteredIn
  <2>5. CASE BenchmarkPosted(load)
    <3>1. post' \in Request /\ post'.message \in Robo /\ ~post'.final /\ post'.score = "number"
      BY <1>0, <2>5 DEF BenchmarkPosted, Posted
    <3>2. \A b \in Robo : status'[b] = "SUCCESS" => Entered(b) \/ post'.message = b
      BY <2>2, <2>5 DEF BenchmarkPosted, RoboTypes
    <3> QED
      BY <1>0, <2>1, <3>1, <3>2 DEF RoboEntries, Entered, EnteredIn
  <2>6. CASE FinalPosted(load)
    <3>1. post'.message = RoboScore /\ \A b \in Robo : Entered(b)
      BY <2>2, <2>6 DEF FinalPosted
    <3> QED
      BY <1>0, <2>1, <3>1 DEF RoboEntries, Entered, EnteredIn
  <2> QED
    BY <1>0, <2>3, <2>4, <2>5, <2>6, RoboPosts
<1>4. ASSUME NEW w \in Worker, Handle(w) PROVE RoboEntries'
  <2>1. status' = status
    BY <1>4 DEF Handle, browser, robo
  <2>2. CASE Store(w)
    <3>1. /\ hpc[w] = "store" /\ post # None /\ post' = post
          /\ post.final <=> post.message \in FinalScore
      BY <1>0, <2>2, StoreOfRound DEF Store, channel
    <3>2. /\ \A m \in Message : Entered(m) => EnteredIn(mResultsMap', m)
          /\ \A k \in 1..Len(mResultsMap') :
               \/ k \in 1..Len(mResultsMap) /\ mResultsMap'[k].message = mResultsMap[k].message
               \/ mResultsMap'[k].message = post.message
      BY <2>2, StoreSummary
    <3>3. \A k \in 1..Len(mResultsMap') : mResultsMap'[k].message \in Robo \cup {RoboScore}
      BY <1>0, <3>1, <3>2 DEF RoboEntries
    <3>4. EnteredIn(mResultsMap', RoboScore) => Entered(RoboScore) \/ post.final
      BY <1>0, <3>1, <3>2 DEF Entered, EnteredIn
    <3> QED
      BY <1>0, <2>1, <3>1, <3>2, <3>3, <3>4 DEF RoboEntries, Entered
  <2>3. CASE Respond(w) /\ post = hreq[w] /\ post' = None
    <3>1. mResultsMap' = mResultsMap /\ hpc[w] = "respond"
      BY <2>3 DEF Respond
    <3>2. post # None
      BY <1>0, <2>3, <3>1 DEF WorkerTypes
    <3>3. \A b \in Robo : post.message = b => Entered(b)
      BY <1>0, <2>3, <3>1, <3>2 DEF RoboEntries, Summary, OneArray
    <3> QED
      BY <1>0, <2>1, <2>3, <3>1, <3>2, <3>3 DEF RoboEntries, Entered, EnteredIn
  <2>4. CASE ~Store(w) /\ post' = post
    <3>1. mResultsMap' = mResultsMap
      BY <1>4, <2>4 DEF Handle, Accept, CountDown, Reset, Release, Respond
    <3> QED
      BY <1>1, <2>1, <2>4, <3>1
  <2> QED
    BY <1>0, <1>4, <2>2, <2>3, <2>4, OwnStep
<1>5. CASE TestThread \/ WatchDog \/ Tick \/ UNCHANGED vars
  <2>1. UNCHANGED <<mResultsMap, status, post>>
    BY <1>5 DEF TestThread, Launch, Await, Iterate, Reported, Stop, Join, Shutdown, WatchDog, Tick,
                vars, browser, robo, channel
  <2> QED
    BY <1>1, <2>1
<1> QED
  BY <1>2, <1>3, <1>4, <1>5 DEF Next

-------------------------------------------------------------------------------
(* The pages within the whole *)

LEMMA OctaneKept ==
  ASSUME OctaneInv, [Next]_vars
  PROVE  OctaneInv'
<1>1. CASE UNCHANGED octane
  BY <1>1 DEF octane, OctaneInv, OctaneProgress, OctaneScores, Suite
<1>2. CASE OctaneFresh
  BY <1>2, SuiteTypes, EmptySeq DEF OctaneFresh, OctaneInv, OctaneProgress, OctaneScores
<1>3. CASE OctaneStep(load)
  BY <1>3, OctaneStepKeeps DEF OctaneInv
<1>4. UNCHANGED octane \/ OctaneFresh \/ OctaneStep(load)
  BY DEF Next, TestThread, WatchDog, Handle, LoadPage, Page, Tick, vars, browser
<1> QED
  BY <1>1, <1>2, <1>3, <1>4

\* A page that is loaded, and one that is not.
LEMMA RoboStarts ==
  ASSUME RoboFresh
  PROVE  RoboTypes' /\ RoboInv'
<1>1. /\ currentIndex' = 0 /\ status' = [b \in Robo |-> None] /\ enabled' = Robo
      /\ activeBenchmark' = None /\ frame' = None /\ nextTimers' = 0 /\ loadTimers' = None0
      /\ suites' = None0 /\ counted' = None0 /\ starts' = 0
  BY DEF RoboFresh
<1>2. RoboTypes'
  BY <1>1, RoboNames DEF RoboTypes, RoboStatus
<1>3. Idle' /\ CountedOnce'
  BY <1>1, RoboNames DEF Idle, CountedOnce
<1>4. SuccessCounted'
  BY <1>1, NoneIsNoStatus DEF SuccessCounted
<1> QED
  BY <1>1, <1>2, <1>3, <1>4 DEF RoboInv, OneInProgress

LEMMA RoboKept ==
  ASSUME RoboTypes, RoboInv, [Next]_vars
  PROVE  RoboTypes' /\ RoboInv'
<1>1. CASE UNCHANGED robo
  <2>1. RoboTypes'
    BY <1>1 DEF robo, RoboTypes
  <2>2. UNCHANGED <<starts, status, nextTimers, loadTimers, suites, frame, currentIndex,
                    activeBenchmark, counted, benchmarkWindow>>
    BY <1>1 DEF robo
  <2>3. RoboInv'
    BY <2>2 DEF RoboInv, Idle, OneInProgress, Loading, InFrame, Running, InHand, CountedOnce, One,
                SuccessCounted
  <2> QED
    BY <2>1, <2>3
<1>2. CASE RoboFresh
  BY <1>2, RoboStarts
<1>3. CASE RoboStep(load)
  BY <1>3, RoboTypesKept, RoboStepKeeps
<1>4. UNCHANGED robo \/ RoboFresh \/ RoboStep(load)
  BY DEF Next, TestThread, WatchDog, Handle, LoadPage, Page, Tick, vars, browser
<1> QED
  BY <1>1, <1>2, <1>3, <1>4

LEMMA FinalCountedKept ==
  ASSUME Types, InRound, OctaneProgress, RoboTypes, RoboInv, FinalCounted, [Next]_vars
  PROVE  FinalCounted'
<1>0. WorkerTypes /\ load \in Nat /\ RoboScore \in FinalScore
      /\ \A b \in Robo : b \notin FinalScore
  BY FinalMessages, BrowserAssumption DEF Types, ThreadTypes, Robo
<1>1. CASE UNCHANGED robo /\ post' \in {post, None}
  BY <1>1 DEF robo, FinalCounted
<1>2. CASE LoadPage
  BY <1>2 DEF LoadPage, FinalCounted
<1>3. CASE OctaneStep(load)
  <2>1. post = None
    BY <1>3 DEF OctaneStep, Free
  <2>2. UNCHANGED channel \/ post'.message # RoboScore
    BY <1>0, <1>3, OctanePosts
  <2> QED
    BY <2>1, <2>2 DEF channel, FinalCounted
<1>4. CASE RoboStep(load)
  <2>1. post = None
    BY <1>4 DEF RoboStep, Free
  <2>2. CASE UNCHANGED channel
    BY <2>1, <2>2 DEF channel, FinalCounted
  <2>3. CASE BenchmarkPosted(load)
    BY <1>0, <2>3 DEF BenchmarkPosted, FinalCounted
  <2>4. CASE FinalPosted(load)
    <3>1. \A b \in Robo : status[b] = "SUCCESS" /\ counted' = counted /\ starts' = starts
      BY <2>4 DEF FinalPosted
    <3>2. \A b \in Robo : counted[b] \in Nat /\ counted[b] >= 1 /\ (starts = 1 => counted[b] <= 1)
      BY <3>1 DEF RoboTypes, RoboInv, SuccessCounted, CountedOnce
    <3>3. \A b \in Robo : counted[b] >= 1 /\ (starts = 1 => counted[b] = 1)
      BY <3>2
    <3> QED
      BY <3>1, <3>3 DEF FinalCounted
  <2> QED
    BY <1>0, <1>4, <2>2, <2>3, <2>4, RoboPosts
<1>5. ASSUME NEW w \in Worker, Handle(w) PROVE UNCHANGED robo /\ post' \in {post, None}
  BY <1>0, <1>5, OwnStep DEF Handle, browser
<1>6. CASE TestThread \/ WatchDog \/ Tick \/ UNCHANGED vars
  <2>1. UNCHANGED robo /\ UNCHANGED channel
    BY <1>6 DEF TestThread, WatchDog, Tick, vars, browser
  <2> QED
    BY <1>1, <2>1 DEF channel
<1> QED
  BY <1>1, <1>2, <1>3, <1>4, <1>5, <1>6 DEF Next, Page

-------------------------------------------------------------------------------
(* The invariant *)

LEMMA InitHolds ==
  ASSUME Init
  PROVE  IInv
<1>1. ThreadTypes /\ Flags /\ WorkerTypes
  BY DEF Init, ThreadTypes, Flags, WorkerTypes, HandlerStep
<1>2. mResultsMap = <<>> /\ mResultsMap \in Seq(Entry) /\ Len(mResultsMap) = 0
  BY EmptySeq DEF Init
<1>3. OctaneInv
  BY SuiteTypes, EmptySeq DEF Init, OctaneOff, OctaneInv, OctaneProgress, OctaneScores
<1>4. RoboTypes /\ RoboInv
  <2>1. /\ currentIndex = 0 /\ status = [b \in Robo |-> None] /\ enabled = Robo
        /\ activeBenchmark = None /\ frame = None /\ nextTimers = 0 /\ loadTimers = None0
        /\ suites = None0 /\ counted = None0 /\ starts = 0
    BY DEF Init, RoboOff
  <2>2. RoboTypes
    BY <2>1, RoboNames DEF RoboTypes, RoboStatus
  <2>3. Idle /\ CountedOnce
    BY <2>1, RoboNames DEF Idle, CountedOnce
  <2>4. SuccessCounted
    BY <2>1, NoneIsNoStatus DEF SuccessCounted
  <2> QED
    BY <2>1, <2>2, <2>3, <2>4 DEF RoboInv, OneInProgress
<1>5. FinalCounted
  BY DEF Init, FinalCounted
<1>6. kRepeat \in Nat \ {0}
  BY <1>1, Rounds
<1>7. InRound
  BY <1>6 DEF Init, InRound, OctaneOff
<1>8. Requests
  BY DEF Init, Requests, Active
<1>9. RoundOver
  BY DEF Init, RoundOver
<1>10. RoundsWon
  BY DEF Init, RoundsWon
<1>11. Columns
  BY <1>2 DEF Columns
<1>12. Summary
  <2>1. \A k \in 1..Len(mResultsMap) : FALSE
    BY <1>2
  <2>2. RoboEntries
    <3>1. post = None /\ ~Entered(RoboScore)
      BY <2>1 DEF Init, Entered, EnteredIn
    <3>2. \A b \in Robo : status[b] # "SUCCESS"
      BY NoneIsNoStatus DEF Init, RoboOff
    <3> QED
      BY <2>1, <3>1, <3>2 DEF RoboEntries
  <2>3. OneArray /\ FinalIsLast
    BY <2>1 DEF Init, OneArray, FinalIsLast
  <2>4. Undisturbed
    BY DEF Init, Undisturbed
  <2> QED
    BY <2>2, <2>3, <2>4 DEF Summary
<1>13. WatchInv
  <2>1. ~Late
    BY DEF Init, Late
  <2> QED
    BY <2>1, BrowserAssumption DEF Init, WatchInv, WatchDogPatient
<1> QED
  BY <1>1, <1>2, <1>3, <1>4, <1>5, <1>7, <1>8, <1>9, <1>10, <1>11, <1>12, <1>13 DEF IInv, Types

LEMMA StepHolds ==
  ASSUME IInv, [Next]_vars
  PROVE  IInv'
<1>0. /\ Types /\ OctaneInv /\ RoboTypes /\ RoboInv /\ FinalCounted
      /\ InRound /\ Requests /\ RoundOver /\ RoundsWon /\ Columns /\ Summary
      /\ WatchInv /\ OctaneProgress
  BY DEF IInv, OctaneInv
<1>1. Types' /\ kRepeat' = kRepeat /\ test' = test
  BY <1>0, TypesKept
<1>2. OctaneInv'
  BY <1>0, OctaneKept
<1>3. RoboTypes' /\ RoboInv'
  BY <1>0, RoboKept
<1>4. FinalCounted'
  BY <1>0, FinalCountedKept
<1>5. InRound' /\ Requests' /\ RoundOver'
  BY <1>0, InRoundKept, RequestsKept, RoundOverKept
<1>6. RoundsWon' /\ Columns'
  BY <1>0, <1>1, RoundsWonKept, ColumnsKept
<1>7. Summary'
  <2>1. OneArray' /\ FinalIsLast' /\ Undisturbed'
    BY <1>0, OneArrayKept, FinalIsLastKept, UndisturbedKept
  <2>2. test' = "testRoboHornet" => RoboEntries'
    BY <1>0, <1>1, RoboEntriesKept
  <2> QED
    BY <2>1, <2>2 DEF Summary
<1>8. WatchInv'
  BY <1>0, WatchKept
<1> QED
  BY <1>1, <1>2, <1>3, <1>4, <1>5, <1>6, <1>7, <1>8 DEF IInv

THEOREM Inductive == Spec => []IInv
<1>1. Init => IInv
  BY InitHolds
<1>2. IInv /\ [Next]_vars => IInv'
  BY StepHolds
<1> QED
  BY <1>1, <1>2, PTL DEF Spec

-------------------------------------------------------------------------------
(* The properties *)

\* However its benchmarks fail, an Octane page reports one verdict per suite, in the
\* order of the suites, and then one final score, which claims to be complete only when
\* every suite has a score, and a suite has one only when every benchmark of it was
\* measured (base.ts: RunStep, RunNextSetup, NotifyResult, NotifyError).
THEOREM VerdictOfEachSuite == Spec => []OneVerdictEach
<1>1. IInv => OneVerdictEach
  <2> SUFFICES ASSUME IInv PROVE OneVerdictEach
    OBVIOUS
  <2>1. OctaneProgress /\ OctaneScores
    BY DEF IInv, OctaneInv
  <2>2. DOMAIN verdicts = 1..Len(verdicts) /\ Len(verdicts) \in Nat /\ Len(Suites) \in Nat
        /\ index \in Nat /\ index <= Len(Suites)
    BY <2>1, SuiteTypes, LenProperties DEF OctaneProgress
  <2>3. /\ turn = "scored" => Len(verdicts) = Len(Suites) + 1
        /\ turn # "scored" => Len(verdicts) = index \/ index = Len(verdicts) + 1
    <3>1. turn \in {"off", "loading"} => index = 0 /\ Len(verdicts) = 0
      BY <2>1, EmptySeq DEF OctaneProgress
    <3>2. turn \in {"run", "setup", "benchmark", "teardown"} =>
            index = Len(verdicts) \/ index = Len(verdicts) + 1
      BY <2>1 DEF OctaneProgress
    <3>3. turn = "scored" => Len(verdicts) = Len(Suites) + 1
      BY <2>1 DEF OctaneProgress
    <3> QED
      BY <2>1, <3>1, <3>2, <3>3 DEF OctaneProgress
  <2>4. /\ turn = "scored" <=> Len(verdicts) = Len(Suites) + 1
        /\ Len(verdicts) <= Len(Suites) + 1
    <3>0. ASSUME NEW n \in Nat, NEW m \in Nat, NEW i \in Nat, i <= m
          PROVE  /\ n = i \/ i = n + 1 => n <= m
                 /\ n = m + 1 => ~(n <= m)
                 /\ n <= m \/ n = m + 1 => n <= m + 1
      BY <3>0
    <3>1. index = Len(verdicts) \/ index = Len(verdicts) + 1 => Len(verdicts) <= Len(Suites)
      BY <2>2, <3>0, Zenon
    <3>2. Len(verdicts) = Len(Suites) + 1 => ~(Len(verdicts) <= Len(Suites))
      BY <2>2, <3>0, Zenon
    <3>3. Len(verdicts) <= Len(Suites) \/ Len(verdicts) = Len(Suites) + 1 =>
            Len(verdicts) <= Len(Suites) + 1
      BY <2>2, <3>0, Zenon
    <3> QED
      BY <2>3, <3>1, <3>2, <3>3
  <2>5. \A k \in DOMAIN verdicts : k <= Len(Suites) => verdicts[k].message = Suites[k]
    BY <2>1, <2>2 DEF OctaneProgress
  <2>6. turn = "scored" /\ verdicts[Len(verdicts)].message = CompleteScore =>
          \A k \in DOMAIN verdicts : verdicts[k].score = "number"
    BY <2>1, <2>2 DEF OctaneScores
  <2>7. turn = "run" /\ index > 0 /\ Suite \in scores =>
          measured = Benchmarks[index] /\ benchmark = measured
    BY <2>1 DEF OctaneScores
  <2> QED
    BY <2>4, <2>5, <2>6, <2>7 DEF OneVerdictEach
<1> QED
  BY <1>1, Inductive, PTL

\* The watch-dog ends the process only after as long a silence as it was told, or while
\* a worker is between storing a score and the reset, never lets a longer silence pass,
\* and does not end it any more when all rounds are over (WatchDog.java).
THEOREM WatchDogIsPatient == Spec => []WatchDogPatient
<1>1. IInv => WatchDogPatient
  BY DEF IInv, WatchInv
<1> QED
  BY <1>1, Inductive, PTL

\* A score is stored in the column of the round whose page measured it, and a round is
\* over only when its own page has delivered a final score (BrowserBenchTest.java: onPost
\* and doTest, which share mRunIndex and the latch).
THEOREM RoundsAreEarned == Spec => []RoundsEarned
<1>1. IInv => RoundsEarned
  <2> SUFFICES ASSUME IInv PROVE RoundsEarned
    OBVIOUS
  <2>1. Columns /\ RoundsWon /\ mResultsMap \in Seq(Entry)
    BY DEF IInv, Types
  <2>2. DOMAIN mResultsMap = 1..Len(mResultsMap)
    BY <2>1, LenProperties
  <2> QED
    BY <2>1, <2>2 DEF RoundsEarned, HasFinal, Columns, RoundsWon, FinalIn
<1> QED
  BY <1>1, Inductive, PTL

\* The loop over the results is never disturbed by a worker, and the entry that the test
\* reports as its summary is the final score unless an array has a gap
\* (BrowserBenchTest.java: doTest's loop over mResultsMap).
THEOREM SummaryIsClean == Spec => []CleanSummary
<1>1. IInv => CleanSummary
  <2> SUFFICES ASSUME IInv PROVE CleanSummary
    OBVIOUS
  <2>1. ThreadTypes /\ mResultsMap \in Seq(Entry) /\ InRound /\ RoundsWon /\ FinalIsLast
        /\ Undisturbed
    BY DEF IInv, Types, Summary
  <2>2. DOMAIN mResultsMap = 1..Len(mResultsMap) /\ Len(mResultsMap) \in Nat
    BY <2>1, LenProperties
  <2>3. ASSUME verdict = "pass", ~Gap PROVE Last.message \in FinalScore
    <3>1. mRunIndex = kRepeat /\ kRepeat \in Nat \ {0}
      BY <2>1, <2>3, Rounds DEF InRound
    <3>2. 1 \in 1..mRunIndex
      BY <3>1
    <3>3. PICK k \in 1..Len(mResultsMap) :
            mResultsMap[k].message \in FinalScore /\ mResultsMap[k].scores[1] # 0
      BY <2>1, <3>2 DEF RoundsWon, FinalIn
    <3>4. \A j \in 1..Len(mResultsMap) : mResultsMap[j].scores[1] # 0
      BY <2>2, <2>3, <3>2 DEF Gap
    <3>5. \A j \in k + 1 .. Len(mResultsMap) : mResultsMap[j].scores[1] = 0
      BY <2>1, <3>3 DEF FinalIsLast
    <3>6. k = Len(mResultsMap)
      <4> SUFFICES ASSUME k # Len(mResultsMap) PROVE FALSE
        OBVIOUS
      <4>1. Len(mResultsMap) \in k + 1 .. Len(mResultsMap)
            /\ Len(mResultsMap) \in 1..Len(mResultsMap)
        <5>1. ASSUME NEW n \in Nat, k \in 1..n, k # n PROVE n \in k + 1 .. n /\ n \in 1..n
          BY <5>1
        <5> QED
          BY <2>2, <5>1, Zenon
      <4> QED
        BY <3>4, <3>5, <4>1
    <3> QED
      BY <3>3, <3>6 DEF Last
  <2> QED
    BY <2>1, <2>3 DEF CleanSummary, Undisturbed
<1> QED
  BY <1>1, Inductive, PTL

\* A RoboHornet page that is started once has one thing in progress at a time, a suite that
\* runs is the active benchmark's, in its frame, and the final score counts every benchmark,
\* and counts it once unless the page was started again (robohornet.ts: next_,
\* loadBenchmark_, benchmarkLoaded, onBenchmarkComplete_, done_).
THEOREM BenchmarksAreMeasuredAlone == Spec => []MeasuredOnItsOwn
<1>1. IInv => MeasuredOnItsOwn
  <2> SUFFICES ASSUME IInv PROVE MeasuredOnItsOwn
    OBVIOUS
  <2>1. RoboTypes /\ FinalCounted /\ (starts <= 1 => OneInProgress)
    BY DEF IInv, RoboInv
  <2> QED
    BY <2>1, OnePerBenchmark DEF MeasuredOnItsOwn, FinalCounted, Free
<1> QED
  BY <1>1, Inductive, PTL

===============================================================================
