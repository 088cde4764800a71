------------------------------ MODULE AudioLocal ------------------------------
(***************************************************************************)
(* Local playback and recording of the audio quality suite: a client       *)
(* thread and an audio thread that share one AudioLocal object.            *)
(*                                                                         *)
(* The client hands over one command at a time: it stores the command in   *)
(* mCurrentCommand, posts mAudioThreadWait and waits, up to a time-out,    *)
(* for mClientCommandWait.  The fields are volatile and no lock protects   *)
(* them, so the reads and writes between which the other thread can make a *)
(* difference are steps of their own here.                                 *)
(***************************************************************************)
EXTENDS Naturals, FiniteSets

CONSTANTS
  Uses,           \* what an object may be made for, and on which hardware
  CommandWait,    \* how much hardware plays or records in COMMAND_WAIT_TIME_MSEC, 4 s
  MaxToken        \* bound: with more tokens left over prepare is not called

Call == {"none", "prepare", "start", "wait", "stop", "destroy"}

ASSUME AudioAssumption ==
  /\ MaxToken \in Nat /\ CommandWait \in Nat
  /\ Uses \subseteq
       [BufferSize : Nat \ {0}, Go : Nat \ {0}, Repetition : SUBSET (Nat \ {0}),
        Playback : BOOLEAN, Usage : SUBSET (Call \X BOOLEAN \X Call),
        SlowHardware : BOOLEAN, FaultyHardware : BOOLEAN]

\* The order of calls that TaskInput, TaskOutput and the loops of AudioPlayTestCommon
\* keep to: what is prepared is new, stopped or just prepared, only what was prepared is
\* started, and only what was started is waited for.  A start of a new object fails.
ASSUME ClientAssumption ==
  \A u \in Uses : \A p \in u.Usage :
    /\ p[3] = "prepare" => p[1] \in {"none", "prepare", "stop"}
    /\ p[3] = "start" => p[1] = "none" \/ (p[1] = "prepare" /\ p[2])
    /\ p[3] = "wait" => p[1] = "start" /\ p[2]

VARIABLES
  use,            \* the member of Uses that the present object is made for
  mState, mCurrentCommand,
  mClientCommandWait, mClientCompletionWait, mAudioThreadWait,  \* semaphores
  mCommandResult, mCompletionResult,
  mNumberRepetition, mCurrentRepeat,
  mHandled,       \* Buffer.mHandled
  mSizes,         \* what the next pcm call handles at most
  mExitRequested,
  tpc,            \* audio thread: next step, "none" before run and after join
  pendingCommand, \* its local
  cpc,            \* client: next step, "ready" between calls
  call, result,   \* the call in progress or last made, and what it returned
  played          \* history variable: amount handled since the last start

semaphores == <<mClientCommandWait, mClientCompletionWait, mAudioThreadWait>>
results    == <<mCommandResult, mCompletionResult>>
progress   == <<mNumberRepetition, mCurrentRepeat, mHandled, mSizes, played>>
client     == <<cpc, call, result>>
thread     == <<tpc, pendingCommand>>
vars == <<use, mState, mCurrentCommand, semaphores, results, progress, mExitRequested, thread,
          client>>

BufferSize == use.BufferSize          \* length of the client's buffer
Go         == use.Go                  \* SAMPLES_PER_ONE_GO, the most one pcm call handles
Repetition == use.Repetition          \* values the client passes for numberRepetition
Playback   == use.Playback            \* AudioPlaybackLocal, or else AudioRecordingLocal
Usage      == use.Usage               \* the client: a call, its result, what it may call next
SlowHardware   == use.SlowHardware    \* a pcm call may take longer than the client waits
FaultyHardware == use.FaultyHardware  \* a pcm call, or making a thread, may fail

-------------------------------------------------------------------------------
(* The client *)

\* A constructed object; mCommandResult is not initialized.
Init ==
  /\ use \in Uses
  /\ mState = "None" /\ mCurrentCommand = "None"
  /\ mClientCommandWait = 0 /\ mClientCompletionWait = 0 /\ mAudioThreadWait = 0
  /\ mCommandResult \in BOOLEAN /\ mCompletionResult = FALSE
  /\ mNumberRepetition = 0 /\ mCurrentRepeat = 0 /\ mHandled = 0 /\ mSizes = 0 /\ played = 0
  /\ mExitRequested = FALSE
  /\ tpc = "none" /\ pendingCommand = "None"
  /\ cpc = "ready" /\ call = "none" /\ result = TRUE

Enter(c) == cpc = "ready" /\ <<call, result, c>> \in Usage /\ call' = c
Return(r) == cpc' = "ready" /\ result' = r
GoTo(step) == cpc' = step /\ UNCHANGED result

\* prepare, first part: no thread, a wrong state, or go on.
Prepare ==
  /\ Enter("prepare")
  /\ mAudioThreadWait <= MaxToken /\ mClientCommandWait <= MaxToken
  /\ \/ /\ mState = "None"             \* Thread::run
        /\ tpc' = "top" /\ mExitRequested' = FALSE
        /\ GoTo("created")
     \/ /\ mState = "None" /\ FaultyHardware
        /\ mExitRequested' = FALSE
        /\ Return(FALSE) /\ UNCHANGED tpc
     \/ /\ mState = "Running"
        /\ Return(FALSE) /\ UNCHANGED <<tpc, mExitRequested>>
     \/ /\ mState \in {"Created", "Initialized"}
        /\ GoTo("tidy") /\ UNCHANGED <<tpc, mExitRequested>>
  /\ UNCHANGED <<mState, mCurrentCommand, semaphores, results, progress, pendingCommand>>

Created ==
  /\ cpc = "created" /\ mState' = "Created" /\ cpc' = "tidy"
  /\ UNCHANGED <<mCurrentCommand, semaphores, results, progress, mExitRequested, thread, call,
                 result>>

\* tryWait takes one old completion back; then the command is stored.
Tidy ==
  /\ cpc = "tidy"
  /\ mClientCompletionWait' = IF mClientCompletionWait = 0 THEN 0 ELSE mClientCompletionWait - 1
  /\ mCurrentCommand' = "Initialize" /\ cpc' = "post"
  /\ UNCHANGED <<mState, mClientCommandWait, mAudioThreadWait, results, progress, mExitRequested,
                 thread, call, result>>

\* startPlaybackOrRecord; the clients rewind the buffer before they call it.
Start(n) ==
  /\ Enter("start")
  /\ \/ /\ mState # "Initialized"
        /\ Return(FALSE) /\ UNCHANGED <<progress, mCurrentCommand>>
     \/ /\ mState = "Initialized"
        /\ mNumberRepetition' = n /\ mCurrentRepeat' = 0 /\ mHandled' = 0 /\ played' = 0
        /\ mCurrentCommand' = "Run" /\ GoTo("post")
        /\ UNCHANGED mSizes
  /\ UNCHANGED <<mState, semaphores, results, mExitRequested, thread>>

\* issueCommandAndWaitForCompletion: wake the audio thread up ...
Post ==
  /\ cpc = "post" /\ cpc' = "await"
  /\ mAudioThreadWait' = mAudioThreadWait + 1
  /\ UNCHANGED <<mState, mCurrentCommand, mClientCommandWait, mClientCompletionWait, results,
                 progress, mExitRequested, thread, call, result>>

\* The time-out for an answer.  With hardware that is not slow it is long enough,
\* so it passes only when the audio thread is stuck or gone.
TimeOut == SlowHardware \/ tpc = "gone" \/ (tpc = "wait" /\ mAudioThreadWait = 0)

\* What stop does with an answer is to go on.
Answered(r) == IF call = "stop" THEN GoTo("exit") ELSE Return(r)

\* ... wait for an answer, whatever command it belongs to ...
Await ==
  /\ cpc = "await"
  /\ \/ /\ mClientCommandWait > 0 /\ mClientCommandWait' = mClientCommandWait - 1
        /\ GoTo("answered")
     \/ /\ mClientCommandWait = 0 /\ TimeOut
        /\ Answered(FALSE) /\ UNCHANGED mClientCommandWait
  /\ UNCHANGED <<mState, mCurrentCommand, mClientCompletionWait, mAudioThreadWait, results,
                 progress, mExitRequested, thread, call>>

\* ... and read the result.
CommandResult ==
  /\ cpc = "answered" /\ Answered(mCommandResult)
  /\ UNCHANGED <<mState, mCurrentCommand, semaphores, results, progress, mExitRequested, thread,
                 call>>

\* The time-out for a completion is the length of the buffer, however often it is
\* repeated, and COMMAND_WAIT_TIME_MSEC.  Hardware that is not slow keeps time: when
\* this has passed it has handled as much.
CompletionTimeOut == TimeOut \/ played >= BufferSize + CommandWait

WaitForCompletion ==
  /\ Enter("wait") /\ GoTo("complete")
  /\ UNCHANGED <<mState, mCurrentCommand, semaphores, results, progress, mExitRequested, thread>>

Complete ==
  /\ cpc = "complete"
  /\ \/ /\ mClientCompletionWait > 0 /\ mClientCompletionWait' = mClientCompletionWait - 1
        /\ GoTo("completion")
     \/ /\ mClientCompletionWait = 0 /\ CompletionTimeOut
        /\ Return(FALSE) /\ UNCHANGED mClientCompletionWait
  /\ UNCHANGED <<mState, mCurrentCommand, mClientCommandWait, mAudioThreadWait, results,
                 progress, mExitRequested, thread, call>>

CompletionResult ==
  /\ cpc = "completion" /\ Return(mCompletionResult)
  /\ UNCHANGED <<mState, mCurrentCommand, semaphores, results, progress, mExitRequested, thread,
                 call>>

\* stopPlaybackOrRecord: a command if it is running, then the thread.
Stop ==
  /\ Enter("stop") /\ GoTo(IF mState = "Running" THEN "stopping" ELSE "exit")
  /\ UNCHANGED <<mState, mCurrentCommand, semaphores, results, progress, mExitRequested, thread>>

Stopping ==
  /\ cpc = "stopping" /\ mCurrentCommand' = "Stop" /\ cpc' = "post"
  /\ UNCHANGED <<mState, semaphores, results, progress, mExitRequested, thread, call, result>>

\* Mutant: the thread is told by the command alone.
RequestExitByCommand ==
  /\ cpc = "exit"
  /\ \/ mState = "None" /\ Return(TRUE)
     \/ mState # "None" /\ GoTo("threadstop")
  /\ UNCHANGED <<mState, mCurrentCommand, semaphores, results, progress, mExitRequested, thread,
                 call>>

RequestExit ==
  /\ cpc = "exit"
  /\ \/ mState = "None" /\ Return(TRUE) /\ UNCHANGED mExitRequested
     \/ mState # "None" /\ mExitRequested' = TRUE /\ GoTo("threadstop")
  /\ UNCHANGED <<mState, mCurrentCommand, semaphores, results, progress, thread, call>>

ThreadStop ==
  /\ cpc = "threadstop" /\ cpc' = "poststop"
  /\ mCurrentCommand' = "ThreadStop"
  /\ UNCHANGED <<mState, semaphores, results, progress, mExitRequested, thread, call, result>>

PostStop ==
  /\ cpc = "poststop" /\ cpc' = "join"
  /\ mAudioThreadWait' = mAudioThreadWait + 1
  /\ UNCHANGED <<mState, mCurrentCommand, mClientCommandWait, mClientCompletionWait, results,
                 progress, mExitRequested, thread, call, result>>

\* Mutant: exit is requested, but not waited for.
JoinNot ==
  /\ cpc = "join" /\ mState' = "None" /\ Return(TRUE)
  /\ UNCHANGED <<mCurrentCommand, semaphores, results, progress, mExitRequested, thread, call>>

Join ==
  /\ cpc = "join" /\ tpc = "gone"
  /\ tpc' = "none" /\ mState' = "None" /\ Return(TRUE)
  /\ UNCHANGED <<mCurrentCommand, semaphores, results, progress, mExitRequested, pendingCommand,
                 call>>

\* The destructor: ~Thread asks the thread to exit and joins it.
Destroy ==
  /\ Enter("destroy") /\ mExitRequested' = TRUE /\ GoTo("destroying")
  /\ UNCHANGED <<mState, mCurrentCommand, semaphores, results, progress, thread>>

Destroyed ==
  /\ cpc = "destroying" /\ tpc \in {"none", "gone"} /\ GoTo("destroyed") /\ tpc' = "none"
  /\ UNCHANGED <<mState, mCurrentCommand, semaphores, results, progress, mExitRequested,
                 pendingCommand, call>>

\* createAudioHw: every task makes a new object.
CreateAudioHw ==
  /\ cpc = "destroyed" /\ cpc' = "ready" /\ call' = "none" /\ result' = TRUE
  /\ use' \in Uses
  /\ mState' = "None" /\ mCurrentCommand' = "None"
  /\ mClientCommandWait' = 0 /\ mClientCompletionWait' = 0 /\ mAudioThreadWait' = 0
  /\ mCommandResult' \in BOOLEAN /\ mCompletionResult' = FALSE
  /\ mNumberRepetition' = 0 /\ mCurrentRepeat' = 0 /\ mHandled' = 0 /\ mSizes' = 0 /\ played' = 0
  /\ mExitRequested' = FALSE
  /\ tpc' = "none" /\ pendingCommand' = "None"

-------------------------------------------------------------------------------
(* The audio thread *)

Step(from, to) == tpc = from /\ tpc' = to /\ UNCHANGED pendingCommand

\* threadEntry: while (!mExitRequested)
Top ==
  /\ Step("top", IF mExitRequested THEN "gone" ELSE "read")
  /\ UNCHANGED <<mState, mCurrentCommand, semaphores, results, progress, mExitRequested, client>>

\* Look at mCurrentCommand: a command is fetched, and ThreadStop ends the loop.
Fetch(otherwise) ==
  /\ pendingCommand' = mCurrentCommand
  /\ \/ mCurrentCommand = "None" /\ tpc' = otherwise
     \/ mCurrentCommand = "ThreadStop" /\ tpc' = "gone"
     \/ mCurrentCommand \notin {"None", "ThreadStop"} /\ tpc' = "execute"

Read ==
  /\ tpc = "read" /\ Fetch(IF mState = "Running" THEN "play" ELSE "wait")
  /\ UNCHANGED <<mState, mCurrentCommand, semaphores, results, progress, mExitRequested, client>>

Wait ==
  /\ Step("wait", "woken")
  /\ mAudioThreadWait > 0 /\ mAudioThreadWait' = mAudioThreadWait - 1
  /\ UNCHANGED <<mState, mCurrentCommand, mClientCommandWait, mClientCompletionWait, results,
                 progress, mExitRequested, client>>

Woken ==
  /\ tpc = "woken" /\ Fetch("top")
  /\ UNCHANGED <<mState, mCurrentCommand, semaphores, results, progress, mExitRequested, client>>

\* Mutant: the last call of a repetition runs past the end of the buffer.
AmountUncut == mSizes

\* doPlaybackOrRecord that succeeds.  Playback cuts mSizes down to what is left
\* of the buffer, and only doPrepare sets it again.
Amount == IF BufferSize - mHandled < mSizes THEN BufferSize - mHandled ELSE mSizes

DoPlaybackOrRecord ==
  /\ mSizes' = IF Playback THEN Amount ELSE mSizes
  /\ played' = played + Amount

\* doPlaybackOrRecord that fails: playback has cut mSizes down already, and
\* recording may have read a part in smaller pieces.
PcmFails ==
  /\ FaultyHardware
  /\ mSizes' = IF Playback THEN Amount ELSE mSizes
  /\ \E part \in IF Playback THEN {0} ELSE 0..(Amount - 1) :
       mHandled' = mHandled + part /\ played' = played + part

\* Mutant: the buffer is not rewound for the next repetition.
PlayNoRestart ==
  /\ DoPlaybackOrRecord
  /\ IF mHandled + Amount < BufferSize
       THEN /\ mHandled' = mHandled + Amount
            /\ Step("play", "top") /\ UNCHANGED <<mCurrentRepeat, mState>>
       ELSE /\ mHandled' = BufferSize /\ mCurrentRepeat' = mCurrentRepeat + 1
            /\ IF mCurrentRepeat' = mNumberRepetition
                 THEN mState' = "Initialized" /\ Step("play", "completed")
                 ELSE Step("play", "top") /\ UNCHANGED mState
  /\ UNCHANGED <<mNumberRepetition, mCurrentCommand, semaphores, results, mExitRequested, client>>

\* Running: one more pcm call.  At the end of the buffer the repetition is over.
Play ==
  /\ \/ /\ DoPlaybackOrRecord
        /\ \/ /\ mHandled + Amount < BufferSize
              /\ mHandled' = mHandled + Amount
              /\ Step("play", "top") /\ UNCHANGED <<mCurrentRepeat, mState>>
           \/ /\ mHandled + Amount >= BufferSize
              /\ mCurrentRepeat' = mCurrentRepeat + 1
              /\ IF mCurrentRepeat' = mNumberRepetition
                   THEN /\ mHandled' = mHandled + Amount
                        /\ mState' = "Initialized" /\ Step("play", "completed")
                   ELSE mHandled' = 0 /\ Step("play", "top") /\ UNCHANGED mState
     \/ /\ PcmFails
        /\ mState' = "Initialized" /\ Step("play", "failed")
        /\ UNCHANGED mCurrentRepeat
  /\ UNCHANGED <<mNumberRepetition, mCurrentCommand, semaphores, results, mExitRequested, client>>

\* Tell the client how it ended.
Notify ==
  /\ Step("completed", "top") \/ Step("failed", "top")
  /\ mCompletionResult' = (tpc = "completed")
  /\ mClientCompletionWait' = mClientCompletionWait + 1
  /\ UNCHANGED <<mState, mCurrentCommand, mClientCommandWait, mAudioThreadWait, mCommandResult,
                 progress, mExitRequested, client>>

\* Mutant: mSizes is only set up once, by the constructor.
InitializeNoSizes ==
  /\ pendingCommand = "Initialize"
  /\ \/ mCommandResult' = TRUE /\ mState' = "Initialized"
     \/ FaultyHardware /\ mCommandResult' = FALSE /\ UNCHANGED mState
  /\ UNCHANGED progress

\* The switch over the pending command.
Initialize ==
  /\ pendingCommand = "Initialize"
  /\ \/ mCommandResult' = TRUE /\ mState' = "Initialized" /\ mSizes' = Go
     \/ FaultyHardware /\ mCommandResult' = FALSE /\ UNCHANGED <<mState, mSizes>>
  /\ UNCHANGED <<mNumberRepetition, mCurrentRepeat, mHandled, played>>

\* Mutant: the result of the pcm call is not looked at.
RunUnchecked ==
  /\ pendingCommand = "Run"
  /\ mCommandResult' = TRUE /\ mState' = "Running"
  /\ \/ DoPlaybackOrRecord /\ mHandled' = mHandled + Amount
     \/ PcmFails
  /\ UNCHANGED <<mNumberRepetition, mCurrentRepeat>>

Run ==
  /\ pendingCommand = "Run"
  /\ \/ /\ DoPlaybackOrRecord /\ mHandled' = mHandled + Amount
        /\ mCommandResult' = TRUE /\ mState' = "Running"
     \/ /\ PcmFails
        /\ mCommandResult' = FALSE /\ UNCHANGED mState
  /\ UNCHANGED <<mNumberRepetition, mCurrentRepeat>>

DoStop ==
  /\ pendingCommand = "Stop"
  /\ mCommandResult' = TRUE /\ mState' = "Created"
  /\ UNCHANGED progress

Execute ==
  /\ Step("execute", "executed")
  /\ Initialize \/ Run \/ DoStop
  /\ UNCHANGED <<mCurrentCommand, semaphores, mCompletionResult, mExitRequested, client>>

\* The command slot is cleared, whatever is in it by now, and the client told.
Clear ==
  /\ Step("executed", "answer") /\ mCurrentCommand' = "None"
  /\ UNCHANGED <<mState, semaphores, results, progress, mExitRequested, client>>

Answer ==
  /\ Step("answer", "top") /\ mClientCommandWait' = mClientCommandWait + 1
  /\ UNCHANGED <<mState, mCurrentCommand, mClientCompletionWait, mAudioThreadWait, results,
                 progress, mExitRequested, client>>

-------------------------------------------------------------------------------
AudioThread ==
  /\ Top \/ Read \/ Wait \/ Woken \/ Play \/ Notify \/ Execute \/ Clear \/ Answer
  /\ UNCHANGED use

\* The steps a call goes through once it is made.
InCall ==
  /\ \/ Created \/ Tidy \/ Post \/ Await \/ CommandResult \/ Complete \/ CompletionResult
     \/ Stopping \/ RequestExit \/ ThreadStop \/ PostStop \/ Join \/ Destroyed
  /\ UNCHANGED use

NewCall ==
  /\ Prepare \/ (\E n \in Repetition : Start(n)) \/ WaitForCompletion \/ Stop \/ Destroy
  /\ UNCHANGED use

Client == NewCall \/ InCall \/ CreateAudioHw

Next == Client \/ AudioThread

Spec == Init /\ [][Next]_vars

\* Both threads are scheduled, and a pcm call returns some time.
FairSpec == Spec /\ WF_vars(InCall) /\ WF_vars(AudioThread)

-------------------------------------------------------------------------------
(* Properties *)

Command == {"None", "Initialize", "Run", "Stop", "ThreadStop"}

TypeOK ==
  /\ use \in Uses
  /\ mState \in {"None", "Created", "Initialized", "Running"}
  /\ mCurrentCommand \in Command /\ pendingCommand \in Command
  /\ mClientCommandWait \in Nat /\ mClientCompletionWait \in Nat /\ mAudioThreadWait \in Nat
  /\ mCommandResult \in BOOLEAN /\ mCompletionResult \in BOOLEAN
  /\ mNumberRepetition \in Nat /\ mCurrentRepeat \in Nat
  /\ mHandled \in 0..BufferSize /\ mSizes \in 0..Go /\ played \in Nat
  /\ mExitRequested \in BOOLEAN
  /\ tpc \in {"none", "top", "read", "wait", "woken", "play", "completed", "failed", "execute",
              "executed", "answer", "gone"}
  /\ cpc \in {"ready", "created", "tidy", "stopping", "post", "await", "answered", "complete",
              "completion", "exit", "threadstop", "poststop", "join", "destroying",
              "destroyed"}
  /\ call \in Call /\ result \in BOOLEAN

Returned(c, r) == cpc = "ready" /\ call = c /\ result = r

\* waitForCompletion returns true only when all repetitions of the buffer that
\* the last start was given went through the hardware, however late answers
\* and completions of earlier commands arrive.
CompletionEarned ==
  Returned("wait", TRUE) => played = mNumberRepetition * BufferSize

\* An object that is prepared once, as the tasks do it.
UsedOnce == \A u \in Usage : u[3] = "prepare" => u[1] = "none"

\* The answer the client takes is the one to its command, not a late one to an
\* earlier command: when start returned true something was played, when prepare
\* returned true the hardware is set up.  For objects that are prepared once.
AnswersMatch ==
  UsedOnce =>
    /\ Returned("prepare", TRUE) => mState = "Initialized"
    /\ Returned("start", TRUE) => played > 0

\* A stopped object is quiet: once stop has returned, no command that was left
\* half done makes the audio thread touch buffer or hardware again.
StoppedIsQuiet == mState = "None" => tpc \notin {"play", "execute"}

\* Every call returns, stop and the join in it above all; only the destructor may
\* join a thread that waits for a command that will not come (requestExitAndWait
\* of an object that was dropped without stop).
CallsReturn ==
  cpc \notin {"ready", "destroyed"} ~>
    cpc \in {"ready", "destroyed"} \/ (cpc = "destroying" /\ tpc = "wait" /\ mAudioThreadWait = 0)

\* prepare of a stopped object starts over: a client that prepares, plays and
\* stops twice, as the StartStopTest does, gets true both times.
PrepareAgain == cpc = "ready" /\ call = "prepare" => result

\* What is started is over before the time-out, which counts one repetition only.
InTime == mNumberRepetition * BufferSize < BufferSize + CommandWait

\* With working hardware waitForCompletion ends with true, for every buffer that
\* is a multiple of SAMPLES_PER_ONE_GO long, with two exceptions in which the code
\* lets a client down: a buffer of a single go that is repeated, as the call after
\* its first go leaves mSizes at 0 for good, and a buffer whose repetitions after
\* the first take COMMAND_WAIT_TIME_MSEC or more.
PlaybackCompletes ==
  (cpc = "complete" /\ ~SlowHardware /\ ~FaultyHardware /\ InTime
     /\ (BufferSize > Go \/ mNumberRepetition = 1))
    ~> Returned("wait", TRUE)

===============================================================================
