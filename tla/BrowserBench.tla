----------------------------- MODULE BrowserBench -----------------------------
(***************************************************************************)
(* The browser benchmarks of the device tests: a test case that starts the *)
(* browser with a benchmark page and waits for its final score, a web      *)
(* server in the same process whose threads store what the page posts, and *)
(* a watch-dog that ends the process when nothing is posted for too long.  *)
(*                                                                         *)
(* A score is represented by the number of the page load that measured it, *)
(* and 0 is what a new array holds.                                        *)
(***************************************************************************)
EXTENDS OctanePage, RoboHornetPage

CONSTANTS
  Worker,        \* threads of the web server
  OctaneRepeat,  \* kRepeat of testOctane; that of testRoboHornet is 1
  PostTimeout,   \* BROWSER_POST_TIMEOUT_IN_MS, in ticks
  RoundTimeout   \* BROWSER_COMPLETION_TIMEOUT_IN_MS, in ticks

FinalScore == {CompleteScore, IncompleteScore, RoboScore}

\* What a page can post.
Message == { Suites[i] : i \in DOMAIN Suites } \cup Robo \cup FinalScore
Request == [message : Message, score : {"number", "error", "NaN", "Infinity"},
            final : BOOLEAN, round : Nat]

ASSUME BrowserAssumption ==
  /\ None \notin Request /\ None \notin Nat
  /\ \A i \in DOMAIN Suites : Suites[i] \notin FinalScore
  /\ \A i \in DOMAIN RoboBenchmarks : RoboBenchmarks[i] \notin FinalScore
  /\ OctaneRepeat \in Nat \ {0}
  /\ PostTimeout \in Nat \ {0} /\ RoundTimeout \in Nat /\ PostTimeout < RoundTimeout

VARIABLES
  test,        \* "testOctane" or "testRoboHornet"
  prompt,      \* the page takes no time worth counting; fixed for a behaviour
  tpc,         \* the test thread's next step
  mRunIndex,
  mLatch,      \* count of the latch of this round
  mResultsMap, \* a sequence of entries, in the order of their first put
  seen,        \* entries when the test began to iterate over them
  verdict,     \* how the test ended
  hpc, hreq,   \* each worker's next step and the request it handles
  wpc,         \* the watch-dog thread's next step
  mSemaphore,  \* its permits, or None
  mStopRequested,
  alive,       \* the process was not ended by the watch-dog
  intent, load,           \* the browser was asked for the page; loads so far
  latchClock, wdClock,    \* how long await and tryAcquire have waited
  quiet                   \* history variable: time since a score was stored

testThread == <<tpc, mRunIndex, mLatch, seen, verdict>>
watchDog   == <<wpc, mSemaphore, mStopRequested, alive>>
workers    == <<hpc, hreq>>
browser    == <<intent, load, octane, robo>>
clocks     == <<latchClock, wdClock, quiet>>
fixed      == <<test, prompt>>
vars == <<fixed, testThread, mResultsMap, workers, watchDog, serving, channel, browser, clocks>>

kRepeat == IF test = "testOctane" THEN OctaneRepeat ELSE 1

-------------------------------------------------------------------------------
\* setUp.
Init ==
  /\ test \in {"testOctane", "testRoboHornet"} /\ prompt \in BOOLEAN
  /\ tpc = "launch" /\ mRunIndex = 0 /\ mLatch = 0 /\ seen = 0 /\ verdict = "none"
  /\ mResultsMap = <<>>
  /\ hpc = [w \in Worker |-> "idle"] /\ hreq = [w \in Worker |-> None]
  /\ wpc = "wait" /\ mSemaphore = 0 /\ mStopRequested = FALSE /\ alive = TRUE
  /\ serving = TRUE /\ post = None /\ wire = None
  /\ intent = FALSE /\ load = 0 /\ OctaneOff /\ RoboOff
  /\ latchClock = 0 /\ wdClock = 0 /\ quiet = 0

(* The test thread *)

\* doTest, a round: a new latch, and an intent for the browser.
Launch ==
  /\ tpc = "launch" /\ tpc' = "await"
  /\ mLatch' = 1 /\ latchClock' = 0 /\ intent' = TRUE
  /\ UNCHANGED <<mRunIndex, seen, verdict, mResultsMap, watchDog, serving, load, wdClock, quiet>>

\* await: the page is done, or the time is up and the assertion fails.
Await ==
  /\ tpc = "await"
  /\ \/ /\ mLatch = 0 /\ mRunIndex' = mRunIndex + 1
        /\ tpc' = IF mRunIndex' < kRepeat THEN "launch" ELSE "report"
        /\ UNCHANGED verdict
     \/ /\ mLatch = 1 /\ latchClock = RoundTimeout
        /\ verdict' = "timed-out" /\ tpc' = "stop" /\ UNCHANGED mRunIndex
  /\ UNCHANGED <<mLatch, seen, mResultsMap, watchDog, serving, intent, load, clocks>>

\* The loop over the entries ...
Iterate ==
  /\ tpc = "report" /\ tpc' = "reported" /\ seen' = Len(mResultsMap)
  /\ UNCHANGED <<mRunIndex, mLatch, verdict, mResultsMap, watchDog, serving, intent, load, clocks>>

\* ... which throws when an entry was added meanwhile.
Reported ==
  /\ tpc = "reported" /\ tpc' = "stop"
  /\ verdict' = IF Len(mResultsMap) = seen THEN "pass" ELSE "exception"
  /\ UNCHANGED <<mRunIndex, mLatch, seen, mResultsMap, watchDog, serving, intent, load, clocks>>

\* tearDown: WatchDog.stop asks the thread to stop, wakes it up ...
Stop ==
  /\ tpc = "stop" /\ tpc' = "join"
  /\ mStopRequested' = TRUE /\ mSemaphore' = mSemaphore + 1
  /\ UNCHANGED <<mRunIndex, mLatch, seen, verdict, mResultsMap, wpc, alive, serving, intent, load,
                 clocks>>

\* ... and joins it.
Join ==
  /\ tpc = "join" /\ wpc = "gone" /\ tpc' = "shutdown" /\ mSemaphore' = None
  /\ UNCHANGED <<mRunIndex, mLatch, seen, verdict, mResultsMap, wpc, mStopRequested, alive, serving,
                 intent, load, clocks>>

\* CtsTestServer.shutdown waits for the threads that handle a request; only then
\* is mResultsMap set to null.
Shutdown ==
  /\ tpc = "shutdown" /\ \A w \in Worker : hpc[w] = "idle"
  /\ tpc' = "ended" /\ serving' = FALSE
  /\ UNCHANGED <<mRunIndex, mLatch, seen, verdict, mResultsMap, watchDog, intent, load, clocks>>

TestThread ==
  /\ alive
  /\ Launch \/ Await \/ Iterate \/ Reported \/ Stop \/ Join \/ Shutdown
  /\ UNCHANGED <<fixed, workers, channel, octane, robo>>

-------------------------------------------------------------------------------
(* The watch-dog thread *)

Acquire ==
  /\ wpc = "wait" /\ mSemaphore > 0 /\ mSemaphore' = mSemaphore - 1
  /\ wpc' = "loop"
  /\ UNCHANGED <<mStopRequested, alive, serving, wdClock>>

\* Nothing in time: the assertion ends the thread, and with it the process.
TimedOut ==
  /\ wpc = "wait" /\ mSemaphore = 0 /\ wdClock = PostTimeout
  /\ alive' = FALSE /\ serving' = FALSE /\ wpc' = "gone"
  /\ UNCHANGED <<mSemaphore, mStopRequested, wdClock>>

Loop ==
  /\ wpc = "loop" /\ wpc' = IF mStopRequested THEN "gone" ELSE "wait"
  /\ wdClock' = 0
  /\ UNCHANGED <<mSemaphore, mStopRequested, alive, serving>>

WatchDog ==
  /\ alive
  /\ Acquire \/ TimedOut \/ Loop
  /\ UNCHANGED <<fixed, testThread, mResultsMap, workers, channel, browser, latchClock, quiet>>

-------------------------------------------------------------------------------
(* The threads of the web server *)

HandlerGoes(w, step) == hpc' = [hpc EXCEPT ![w] = step] /\ UNCHANGED hreq

\* It has answered, or an exception ended the task and nobody answers.
HandlerEnds(w) == hpc' = [hpc EXCEPT ![w] = "idle"] /\ hreq' = [hreq EXCEPT ![w] = None]

\* Mutant: the round is over before its final score is stored.
AcceptCountDown(w) ==
  /\ hpc[w] = "idle" /\ serving /\ wire # None
  /\ hpc' = [hpc EXCEPT ![w] = "store"] /\ hreq' = [hreq EXCEPT ![w] = wire]
  /\ wire' = None /\ mLatch' = IF wire.final THEN 0 ELSE mLatch
  /\ UNCHANGED <<mResultsMap, mSemaphore, post, quiet>>

Accept(w) ==
  /\ hpc[w] = "idle" /\ serving /\ wire # None
  /\ hpc' = [hpc EXCEPT ![w] = "store"] /\ hreq' = [hreq EXCEPT ![w] = wire]
  /\ wire' = None
  /\ UNCHANGED <<mResultsMap, mLatch, mSemaphore, post, quiet>>

\* An array per message, made by the first score; the map keeps their order.
EntryOf(message) == { k \in DOMAIN mResultsMap : mResultsMap[k].message = message }

\* Mutant: a map that does not keep the order of the puts.
WithEntryFirst(message) ==
  IF EntryOf(message) # {} THEN mResultsMap
  ELSE <<[message |-> message, scores |-> [r \in 1..kRepeat |-> 0]]>> \o mResultsMap

WithEntry(message) ==
  IF EntryOf(message) # {} THEN mResultsMap
  ELSE Append(mResultsMap, [message |-> message, scores |-> [r \in 1..kRepeat |-> 0]])

PutScore(map, message, r, score) ==
  [k \in DOMAIN map |->
     IF map[k].message = message THEN [map[k] EXCEPT !.scores[r] = score] ELSE map[k]]

\* onPost, up to where the score is stored at mRunIndex: a score that is no
\* number does not match and is ignored; an index past the end throws.
Store(w) ==
  LET r == hreq[w] IN
  /\ hpc[w] = "store"
  /\ \/ /\ r.score # "number"
        /\ HandlerGoes(w, "respond") /\ UNCHANGED <<mResultsMap, quiet>>
     \/ /\ r.score = "number" /\ mRunIndex < kRepeat
        /\ mResultsMap' = PutScore(WithEntry(r.message), r.message, mRunIndex + 1, r.round)
        /\ quiet' = 0
        /\ HandlerGoes(w, IF r.final THEN "final" ELSE "reset")
     \/ /\ r.score = "number" /\ mRunIndex = kRepeat
        /\ mResultsMap' = WithEntry(r.message)
        /\ HandlerEnds(w) /\ UNCHANGED quiet
  /\ UNCHANGED <<mLatch, mSemaphore, channel>>

\* Mutant: only a complete score ends the round.
CountDownComplete(w) ==
  /\ hpc[w] = "final" /\ HandlerGoes(w, "reset")
  /\ mLatch' = IF hreq[w].message = IncompleteScore THEN mLatch ELSE 0
  /\ UNCHANGED <<mResultsMap, mSemaphore, channel, quiet>>

\* Mutant: the watch-dog is not reset for a final score.
CountDownNoReset(w) ==
  /\ hpc[w] = "final" /\ HandlerGoes(w, "respond")
  /\ mLatch' = 0
  /\ UNCHANGED <<mResultsMap, mSemaphore, channel, quiet>>

CountDown(w) ==
  /\ hpc[w] = "final" /\ HandlerGoes(w, "reset")
  /\ mLatch' = 0
  /\ UNCHANGED <<mResultsMap, mSemaphore, channel, quiet>>

\* WatchDog.reset looks at the flag ...
Reset(w) ==
  /\ hpc[w] = "reset" /\ HandlerGoes(w, IF mStopRequested THEN "respond" ELSE "release")
  /\ UNCHANGED <<mResultsMap, mLatch, mSemaphore, channel, quiet>>

\* ... and releases a semaphore that may be gone by now.
Release(w) ==
  /\ hpc[w] = "release"
  /\ IF mSemaphore = None
       THEN HandlerEnds(w) /\ UNCHANGED mSemaphore
       ELSE HandlerGoes(w, "respond") /\ mSemaphore' = mSemaphore + 1
  /\ UNCHANGED <<mResultsMap, mLatch, channel, quiet>>

\* The answer goes to the page that asked, if it is still there.
Respond(w) ==
  /\ hpc[w] = "respond" /\ HandlerEnds(w)
  /\ post' = IF post = hreq[w] THEN None ELSE post
  /\ UNCHANGED <<mResultsMap, mLatch, mSemaphore, wire, quiet>>

Handle(w) ==
  /\ alive
  /\ Accept(w) \/ Store(w) \/ CountDown(w) \/ Reset(w) \/ Release(w) \/ Respond(w)
  /\ UNCHANGED <<fixed, tpc, mRunIndex, seen, verdict, wpc, mStopRequested, alive, serving, browser,
                 latchClock, wdClock>>

-------------------------------------------------------------------------------
(* The browser and time *)

\* The browser takes the intent and loads the page, in the place of the old one.
LoadPage ==
  /\ intent /\ intent' = FALSE /\ load' = load + 1
  /\ post' = None /\ UNCHANGED wire
  /\ \/ test = "testOctane" /\ OctaneFresh /\ UNCHANGED robo
     \/ test = "testRoboHornet" /\ RoboFresh /\ UNCHANGED octane
  /\ UNCHANGED <<fixed, testThread, mResultsMap, workers, watchDog, serving, clocks>>

Page ==
  /\ \/ OctaneStep(load) /\ UNCHANGED robo
     \/ test = "testRoboHornet" /\ load > 0 /\ RoboStep(load) /\ UNCHANGED octane
  /\ UNCHANGED <<fixed, testThread, mResultsMap, workers, watchDog, serving, intent, load, clocks>>

\* The threads of the process are fast: time passes when none can go on.
Waiting ==
  /\ \/ tpc = "await" /\ mLatch = 1 /\ latchClock < RoundTimeout
     \/ tpc = "join" /\ wpc # "gone"
  /\ wpc = "gone" \/ (wpc = "wait" /\ mSemaphore = 0 /\ wdClock < PostTimeout)
  /\ wire = None /\ \A w \in Worker : hpc[w] = "idle"

Tick ==
  /\ ~prompt /\ alive /\ Waiting
  /\ latchClock' = IF tpc = "await" THEN latchClock + 1 ELSE latchClock
  /\ wdClock' = wdClock + 1 /\ quiet' = quiet + 1
  /\ UNCHANGED <<fixed, testThread, mResultsMap, workers, watchDog, serving, channel, browser>>

Next ==
  TestThread \/ WatchDog \/ (\E w \in Worker : Handle(w)) \/ LoadPage \/ Page \/ Tick

Spec == Init /\ [][Next]_vars

\* The threads are scheduled and the timers of the page go off.  A page that
\* hangs is a behaviour in which the clock ticks until the watch-dog is there.
FairSpec ==
  /\ Spec
  /\ WF_vars(TestThread) /\ WF_vars(WatchDog) /\ \A w \in Worker : WF_vars(Handle(w))
  /\ WF_vars(LoadPage) /\ WF_vars(Page)

-------------------------------------------------------------------------------
(* Properties *)

HasFinal(r) ==
  \E k \in DOMAIN mResultsMap :
    mResultsMap[k].message \in FinalScore /\ mResultsMap[k].scores[r] # 0

\* A score is stored in the column of the round whose page measured it, although
\* the test thread moves mRunIndex on while workers still handle posts, and a
\* round is over only when its own page has delivered a final score.
RoundsEarned ==
  /\ \A k \in DOMAIN mResultsMap : \A r \in 1..kRepeat : mResultsMap[k].scores[r] \in {0, r}
  /\ \A r \in 1..mRunIndex : HasFinal(r)

\* A score that is stored, but for which the watch-dog is not reset yet.
Late == \E w \in Worker : hpc[w] \in {"final", "reset", "release"}

\* The watch-dog ends the process only after as long without a score as it was
\* told, never lets a longer silence pass, and does not end it any more when all
\* rounds are over.  The reset comes after the score, so a score that comes at the
\* last moment may be too late.
WatchDogPatient ==
  /\ wpc # "gone" => quiet <= PostTimeout
  /\ ~alive => quiet = PostTimeout \/ Late
  /\ tpc \in {"report", "reported"} \/ verdict = "pass" => alive \/ Late

Gap == \E k \in DOMAIN mResultsMap : \E r \in 1..mRunIndex : mResultsMap[k].scores[r] = 0

Last == mResultsMap[Len(mResultsMap)]

\* What the test reports as the summary, the last entry, is the final score, when
\* no array has a gap, which a suite leaves that fails in one round and not in
\* another; and no worker adds an entry while the test iterates over them, even
\* when the page was started again and goes on after its final score.
CleanSummary ==
  /\ verdict # "exception"
  /\ verdict = "pass" /\ ~Gap => Last.message \in FinalScore

\* A test whose pages are prompt passes, whichever benchmarks fail, unless all
\* suites of one page do: then the final score is no number and the test waits.
TestPasses ==
  (test = "testOctane" /\ prompt) ~> (verdict = "pass" \/ (turn = "scored" /\ scores = {}))
================================================================================
