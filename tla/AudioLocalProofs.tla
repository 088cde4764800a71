--------------------------- MODULE AudioLocalProofs ---------------------------
(***************************************************************************)
(* Proofs about AudioLocal, for any buffers, hardware and clients that keep *)
(* to ClientAssumption.                                                     *)
(***************************************************************************)
EXTENDS AudioLocal, TLAPS

(***************************************************************************)
(* The inductive invariant.                                                *)
(***************************************************************************)

\* Without a thread, or before prepare has noted that there is one, there is no
\* command but the one that ended the last thread, and nobody waits for an answer.
Quiet ==
  mState = "None" =>
    /\ mCurrentCommand \in {"None", "ThreadStop"}
    /\ tpc \in {"none", "top", "read", "wait", "woken", "gone"}
    /\ cpc # "created" => tpc = "none"
    /\ cpc \in {"ready", "created", "exit", "complete", "completion", "destroying", "destroyed"}

\* Where the client is in which call.
InWhichCall ==
  /\ cpc = "created" => mState = "None"
  /\ cpc \in {"created", "tidy"} => call = "prepare"
  /\ cpc \in {"post", "await", "answered"} => call \in {"prepare", "start", "stop"}
  /\ cpc \in {"complete", "completion"} => call = "wait"
  /\ cpc \in {"stopping", "exit", "threadstop", "poststop", "join"} => call = "stop"
  /\ cpc \in {"destroying", "destroyed"} => call = "destroy"
  /\ cpc \in {"poststop", "join"} => mCurrentCommand \in {"None", "ThreadStop"}
  /\ call = "stop" /\ cpc = "ready" => mState = "None"
  /\ call = "none" => /\ cpc = "ready" /\ mState = "None" /\ mCurrentCommand = "None"
                      /\ mClientCommandWait = 0 /\ mClientCompletionWait = 0

\* The command to run is there and has not been carried out.
Unplayed ==
  \/ mCurrentCommand = "Run" /\ tpc # "executed"
  \/ tpc = "execute" /\ pendingCommand = "Run"

\* A completion is still to come.
Due == Unplayed \/ mState = "Running" \/ tpc \in {"completed", "failed"}

Earned == played = mNumberRepetition * BufferSize

\* Playback starts from zero, and what was played is what progress says.
PlayedIsCounted ==
  /\ Unplayed => /\ mState # "Running" /\ tpc \notin {"play", "completed", "failed"}
                 /\ mCurrentRepeat = 0 /\ mHandled = 0 /\ played = 0
  /\ mState = "Running" => /\ tpc \notin {"completed", "failed"}
                           /\ played = mCurrentRepeat * BufferSize + mHandled
  /\ tpc = "play" => mState = "Running"
  /\ tpc = "completed" => Earned

\* The client has had start accepted and still looks at how it ends.
Started == call = "wait" \/ (call = "start" /\ (cpc # "ready" \/ result))

\* A start is completed at most once, and prepare has taken older completions back.
CompletedOnce ==
  /\ mClientCompletionWait <= 1
  /\ Due => mClientCompletionWait = 0
  /\ call \in {"none", "prepare"} => ~Due
  /\ call = "prepare" /\ cpc \notin {"created", "tidy"} /\ mState # "None" =>
       mClientCompletionWait = 0
  /\ Started /\ mClientCompletionWait = 1 /\ mCompletionResult => Earned
  /\ cpc = "completion" => ~Due /\ (mCompletionResult => Earned)
  /\ Returned("wait", TRUE) => ~Due /\ Earned

\* The thread is between commands.
Between == tpc \in {"top", "read", "wait", "woken", "play", "completed", "failed", "gone"}

\* What a command that succeeds has done, and what it rests on.
Prepared == mState = "Initialized" /\ mSizes = Go
Effect(c) == IF c = "Run" THEN played > 0 ELSE Prepared
Possible(c) == c = "Run" => Prepared /\ mHandled = 0

\* The one command c is on its way through the thread, and its answer, if there is
\* one, tells what happened to it.
Answering(c) ==
  \/ /\ mClientCommandWait = 0 /\ mCurrentCommand = c /\ Possible(c)
     /\ Between \/ (tpc = "execute" /\ pendingCommand = c)
  \/ /\ mClientCommandWait = 0 /\ (mCommandResult => Effect(c))
     /\ tpc = "executed" \/ (tpc = "answer" /\ mCurrentCommand = "None")
  \/ /\ mClientCommandWait = 1 /\ (mCommandResult => Effect(c))
     /\ mCurrentCommand = "None" /\ Between

NoAnswer == mClientCommandWait = 0 /\ mCurrentCommand = "None" /\ Between

AnswersInTurn ==
  UsedOnce =>
    /\ cpc \in {"created", "tidy"} => NoAnswer
    /\ call = "prepare" /\ cpc \in {"post", "await"} => Answering("Initialize")
    /\ call = "start" /\ cpc \in {"post", "await"} => Answering("Run")
    /\ call = "prepare" /\ cpc = "answered" => NoAnswer /\ (mCommandResult => Prepared)
    /\ call = "start" /\ cpc = "answered" => NoAnswer /\ (mCommandResult => played > 0)
    /\ Returned("prepare", TRUE) => NoAnswer /\ Prepared
    /\ Returned("start", TRUE) => played > 0

IInv ==
  TypeOK /\ Quiet /\ InWhichCall /\ PlayedIsCounted /\ CompletedOnce /\ AnswersInTurn

-------------------------------------------------------------------------------
(* Types *)

\* Every step but the making of an object is for the same use.
Steps == (NewCall \/ InCall \/ AudioThread) /\ UNCHANGED use

LEMMA StepKinds ==
  [Next]_vars <=> CreateAudioHw \/ UNCHANGED vars \/ Steps
BY DEF Next, Client, Steps, NewCall, InCall, AudioThread

LEMMA UseTypes ==
  ASSUME use \in Uses
  PROVE  /\ BufferSize \in Nat \ {0} /\ Go \in Nat \ {0} /\ Playback \in BOOLEAN
         /\ Repetition \subseteq Nat \ {0}
BY AudioAssumption DEF BufferSize, Go, Playback, Repetition

\* doPlaybackOrRecord stays within the buffer, and within one go.
LEMMA AmountFits ==
  ASSUME BufferSize \in Nat, Go \in Nat, mHandled \in 0..BufferSize, mSizes \in 0..Go
  PROVE  /\ Amount \in Nat /\ Amount <= mSizes /\ mHandled + Amount <= BufferSize
         /\ Amount \in 0..Go
BY DEF Amount

LEMMA SameUse ==
  ASSUME UNCHANGED use
  PROVE  /\ BufferSize' = BufferSize /\ Go' = Go /\ Usage' = Usage
         /\ UsedOnce' = UsedOnce
BY DEF BufferSize, Go, Usage, UsedOnce

\* TypeOK in two parts.
Flags == /\ mCommandResult \in BOOLEAN /\ mCompletionResult \in BOOLEAN
         /\ mExitRequested \in BOOLEAN /\ result \in BOOLEAN

Ranges ==
  /\ use \in Uses
  /\ mState \in {"None", "Created", "Initialized", "Running"}
  /\ mCurrentCommand \in Command /\ pendingCommand \in Command
  /\ mClientCommandWait \in Nat /\ mClientCompletionWait \in Nat /\ mAudioThreadWait \in Nat
  /\ mNumberRepetition \in Nat /\ mCurrentRepeat \in Nat
  /\ mHandled \in 0..BufferSize /\ mSizes \in 0..Go /\ played \in Nat
  /\ tpc \in {"none", "top", "read", "wait", "woken", "play", "completed", "failed", "execute",
              "executed", "answer", "gone"}
  /\ cpc \in {"ready", "created", "tidy", "stopping", "post", "await", "answered", "complete",
              "completion", "exit", "threadstop", "poststop", "join", "destroying",
              "destroyed"}
  /\ call \in Call

LEMMA TypeParts == TypeOK <=> Flags /\ Ranges
BY DEF TypeOK, Flags, Ranges

LEMMA TypePartsNext == TypeOK' <=> Flags' /\ Ranges'
BY DEF TypeOK, Flags, Ranges

LEMMA FlagStep ==
  ASSUME Flags, [Next]_vars
  PROVE  Flags'
<1>1. CASE CreateAudioHw
  BY <1>1 DEF CreateAudioHw, Flags
<1>2. CASE UNCHANGED vars
  BY <1>2 DEF vars, semaphores, results, progress, client, thread, Flags
<1>3. CASE Steps
  <2>1. CASE Prepare
    BY <2>1 DEF Prepare, Enter, GoTo, Return, results, progress, semaphores, Flags
  <2>2. CASE \E n \in Repetition : Start(n)
    BY <2>2 DEF Start, Enter, GoTo, Return, results, progress, semaphores, thread, Flags
  <2>3. CASE WaitForCompletion
    BY <2>3 DEF WaitForCompletion, Enter, GoTo, results, progress, semaphores, thread, Flags
  <2>4. CASE Stop
    BY <2>4 DEF Stop, Enter, GoTo, results, progress, semaphores, thread, Flags
  <2>5. CASE Destroy
    BY <2>5 DEF Destroy, Enter, GoTo, results, progress, semaphores, thread, Flags
  <2>6. CASE Created
    BY <2>6 DEF Created, results, progress, semaphores, thread, Flags
  <2>7. CASE Tidy
    BY <2>7 DEF Tidy, results, progress, thread, Flags
  <2>8. CASE Post
    BY <2>8 DEF Post, results, progress, thread, Flags
  <2>9. CASE Await
    BY <2>9 DEF Await, Answered, GoTo, Return, results, progress, thread, Flags
  <2>10. CASE CommandResult
    BY <2>10 DEF CommandResult, Answered, GoTo, Return, results, progress, semaphores, thread,
        Flags
  <2>11. CASE Complete
    BY <2>11 DEF Complete, GoTo, Return, results, progress, thread, Flags
  <2>12. CASE CompletionResult
    BY <2>12 DEF CompletionResult, Return, results, progress, semaphores, thread, Flags
  <2>13. CASE Stopping
    BY <2>13 DEF Stopping, results, progress, semaphores, thread, Flags
  <2>14. CASE RequestExit
    BY <2>14 DEF RequestExit, GoTo, Return, results, progress, semaphores, thread, Flags
  <2>15. CASE ThreadStop
    BY <2>15 DEF ThreadStop, results, progress, semaphores, thread, Flags
  <2>16. CASE PostStop
    BY <2>16 DEF PostStop, results, progress, thread, Flags
  <2>17. CASE Join
    BY <2>17 DEF Join, Return, results, progress, semaphores, Flags
  <2>18. CASE Destroyed
    BY <2>18 DEF Destroyed, GoTo, results, progress, semaphores, Flags
  <2>19. CASE Top
    BY <2>19 DEF Top, Step, results, progress, semaphores, client, Flags
  <2>20. CASE Read
    BY <2>20 DEF Read, Fetch, results, progress, semaphores, client, Flags
  <2>21. CASE Wait
    BY <2>21 DEF Wait, Step, results, progress, client, Flags
  <2>22. CASE Woken
    BY <2>22 DEF Woken, Fetch, results, progress, semaphores, client, Flags
  <2>23. CASE Play
    BY <2>23 DEF Play, Step, DoPlaybackOrRecord, PcmFails, results, semaphores, client, Flags
  <2>24. CASE Notify
    BY <2>24 DEF Notify, Step, progress, client, Flags
  <2>25. CASE Execute
    BY <2>25 DEF Execute, Step, semaphores, client, Initialize, Run, DoStop, progress,
        DoPlaybackOrRecord, PcmFails, Flags
  <2>26. CASE Clear
    BY <2>26 DEF Clear, Step, results, progress, semaphores, client, Flags
  <2>27. CASE Answer
    BY <2>27 DEF Answer, Step, results, progress, client, Flags
  <2> QED
    BY <1>3, <2>1, <2>2, <2>3, <2>4, <2>5, <2>6, <2>7, <2>8, <2>9, <2>10, <2>11, <2>12, <2>13,
        <2>14, <2>15, <2>16, <2>17, <2>18, <2>19, <2>20, <2>21, <2>22, <2>23, <2>24, <2>25,
        <2>26, <2>27 DEF Steps, NewCall, InCall, AudioThread
<1> QED
  BY <1>1, <1>2, <1>3, StepKinds

LEMMA RangeStep ==
  ASSUME Ranges, [Next]_vars
  PROVE  Ranges'
<1>1. CASE CreateAudioHw
  <2>1. use' \in Uses /\ BufferSize' \in Nat /\ Go' \in Nat
    BY <1>1, AudioAssumption DEF CreateAudioHw, BufferSize, Go
  <2> QED
    BY <1>1, <2>1 DEF CreateAudioHw, Ranges, Command, Call
<1>2. CASE UNCHANGED vars
  BY <1>2, SameUse DEF vars, semaphores, results, progress, client, thread, Ranges
<1>3. CASE Steps
  <2>0. /\ BufferSize \in Nat /\ Go \in Nat /\ Repetition \subseteq Nat
        /\ mHandled \in 0..BufferSize /\ mSizes \in 0..Go
        /\ Amount \in Nat /\ mHandled + Amount <= BufferSize /\ Amount \in 0..Go
        /\ BufferSize' = BufferSize /\ Go' = Go /\ use' \in Uses
    BY <1>3, UseTypes, AmountFits, SameUse DEF Ranges, Steps
  <2>1. CASE Prepare
    BY <2>0, <2>1 DEF Prepare, Enter, GoTo, Return, results, progress, semaphores, Ranges,
        Command, Call
  <2>2. CASE \E n \in Repetition : Start(n)
    BY <2>0, <2>2 DEF Start, Enter, GoTo, Return, results, progress, semaphores, thread,
        Ranges, Command, Call
  <2>3. CASE WaitForCompletion
    BY <2>0, <2>3 DEF WaitForCompletion, Enter, GoTo, results, progress, semaphores, thread,
        Ranges, Command, Call
  <2>4. CASE Stop
    BY <2>0, <2>4 DEF Stop, Enter, GoTo, results, progress, semaphores, thread, Ranges,
        Command, Call
  <2>5. CASE Destroy
    BY <2>0, <2>5 DEF Destroy, Enter, GoTo, results, progress, semaphores, thread, Ranges,
        Command, Call
  <2>6. CASE Created
    BY <2>0, <2>6 DEF Created, results, progress, semaphores, thread, Ranges, Command, Call
  <2>7. CASE Tidy
    BY <2>0, <2>7 DEF Tidy, results, progress, thread, Ranges, Command, Call
  <2>8. CASE Post
    BY <2>0, <2>8 DEF Post, results, progress, thread, Ranges, Command, Call
  <2>9. CASE Await
    BY <2>0, <2>9 DEF Await, Answered, GoTo, Return, results, progress, thread, Ranges,
        Command, Call
  <2>10. CASE CommandResult
    BY <2>0, <2>10 DEF CommandResult, Answered, GoTo, Return, results, progress, semaphores,
        thread, Ranges, Command, Call
  <2>11. CASE Complete
    BY <2>0, <2>11 DEF Complete, GoTo, Return, results, progress, thread, Ranges, Command, Call
  <2>12. CASE CompletionResult
    BY <2>0, <2>12 DEF CompletionResult, Return, results, progress, semaphores, thread, Ranges,
        Command, Call
  <2>13. CASE Stopping
    BY <2>0, <2>13 DEF Stopping, results, progress, semaphores, thread, Ranges, Command, Call
  <2>14. CASE RequestExit
    BY <2>0, <2>14 DEF RequestExit, GoTo, Return, results, progress, semaphores, thread,
        Ranges, Command, Call
  <2>15. CASE ThreadStop
    BY <2>0, <2>15 DEF ThreadStop, results, progress, semaphores, thread, Ranges, Command, Call
  <2>16. CASE PostStop
    BY <2>0, <2>16 DEF PostStop, results, progress, thread, Ranges, Command, Call
  <2>17. CASE Join
    BY <2>0, <2>17 DEF Join, Return, results, progress, semaphores, Ranges, Command, Call
  <2>18. CASE Destroyed
    BY <2>0, <2>18 DEF Destroyed, GoTo, results, progress, semaphores, Ranges, Command, Call
  <2>19. CASE Top
    BY <2>0, <2>19 DEF Top, Step, results, progress, semaphores, client, Ranges, Command, Call
  <2>20. CASE Read
    BY <2>0, <2>20 DEF Read, Fetch, results, progress, semaphores, client, Ranges, Command,
        Call
  <2>21. CASE Wait
    BY <2>0, <2>21 DEF Wait, Step, results, progress, client, Ranges, Command, Call
  <2>22. CASE Woken
    BY <2>0, <2>22 DEF Woken, Fetch, results, progress, semaphores, client, Ranges, Command,
        Call
  <2>23. CASE Play
    BY <2>0, <2>23 DEF Play, Step, DoPlaybackOrRecord, PcmFails, results, semaphores, client,
        Ranges, Command, Call
  <2>24. CASE Notify
    BY <2>0, <2>24 DEF Notify, Step, progress, client, Ranges, Command, Call
  <2>25. CASE Execute
    BY <2>0, <2>25 DEF Execute, Step, semaphores, client, Initialize, Run, DoStop, progress,
        DoPlaybackOrRecord, PcmFails, Ranges, Command, Call
  <2>26. CASE Clear
    BY <2>0, <2>26 DEF Clear, Step, results, progress, semaphores, client, Ranges, Command,
        Call
  <2>27. CASE Answer
    BY <2>0, <2>27 DEF Answer, Step, results, progress, client, Ranges, Command, Call
  <2> QED
    BY <1>3, <2>1, <2>2, <2>3, <2>4, <2>5, <2>6, <2>7, <2>8, <2>9, <2>10, <2>11, <2>12, <2>13,
        <2>14, <2>15, <2>16, <2>17, <2>18, <2>19, <2>20, <2>21, <2>22, <2>23, <2>24, <2>25,
        <2>26, <2>27 DEF Steps, NewCall, InCall, AudioThread
<1> QED
  BY <1>1, <1>2, <1>3, StepKinds

-------------------------------------------------------------------------------
(* Thread and client *)

LEMMA QuietStep ==
  ASSUME Quiet, InWhichCall, [Next]_vars
  PROVE  Quiet'
<1>1. CASE CreateAudioHw
  BY <1>1 DEF CreateAudioHw, Quiet, InWhichCall
<1>2. CASE UNCHANGED vars
  BY <1>2 DEF vars, semaphores, results, progress, client, thread, Quiet, InWhichCall
<1>3. CASE Steps
  <2>1. CASE Prepare
    BY <2>1 DEF Prepare, Enter, GoTo, Return, results, progress, semaphores, Quiet, InWhichCall
  <2>2. CASE \E n \in Repetition : Start(n)
    BY <2>2 DEF Start, Enter, GoTo, Return, results, progress, semaphores, thread, Quiet,
        InWhichCall
  <2>3. CASE WaitForCompletion
    BY <2>3 DEF WaitForCompletion, Enter, GoTo, results, progress, semaphores, thread, Quiet,
        InWhichCall
  <2>4. CASE Stop
    BY <2>4 DEF Stop, Enter, GoTo, results, progress, semaphores, thread, Quiet, InWhichCall
  <2>5. CASE Destroy
    BY <2>5 DEF Destroy, Enter, GoTo, results, progress, semaphores, thread, Quiet, InWhichCall
  <2>6. CASE Created
    BY <2>6 DEF Created, results, progress, semaphores, thread, Quiet, InWhichCall
  <2>7. CASE Tidy
    BY <2>7 DEF Tidy, results, progress, thread, Quiet, InWhichCall
  <2>8. CASE Post
    BY <2>8 DEF Post, results, progress, thread, Quiet, InWhichCall
  <2>9. CASE Await
    BY <2>9 DEF Await, Answered, GoTo, Return, results, progress, thread, Quiet, InWhichCall
  <2>10. CASE CommandResult
    BY <2>10 DEF CommandResult, Answered, GoTo, Return, results, progress, semaphores, thread,
        Quiet, InWhichCall
  <2>11. CASE Complete
    BY <2>11 DEF Complete, GoTo, Return, results, progress, thread, Quiet, InWhichCall
  <2>12. CASE CompletionResult
    BY <2>12 DEF CompletionResult, Return, results, progress, semaphores, thread, Quiet,
        InWhichCall
  <2>13. CASE Stopping
    BY <2>13 DEF Stopping, results, progress, semaphores, thread, Quiet, InWhichCall
  <2>14. CASE RequestExit
    BY <2>14 DEF RequestExit, GoTo, Return, results, progress, semaphores, thread, Quiet,
        InWhichCall
  <2>15. CASE ThreadStop
    BY <2>15 DEF ThreadStop, results, progress, semaphores, thread, Quiet, InWhichCall
  <2>16. CASE PostStop
    BY <2>16 DEF PostStop, results, progress, thread, Quiet, InWhichCall
  <2>17. CASE Join
    BY <2>17 DEF Join, Return, results, progress, semaphores, Quiet, InWhichCall
  <2>18. CASE Destroyed
    BY <2>18 DEF Destroyed, GoTo, results, progress, semaphores, Quiet, InWhichCall
  <2>19. CASE Top
    BY <2>19 DEF Top, Step, results, progress, semaphores, client, Quiet, InWhichCall
  <2>20. CASE Read
    BY <2>20 DEF Read, Fetch, results, progress, semaphores, client, Quiet, InWhichCall
  <2>21. CASE Wait
    BY <2>21 DEF Wait, Step, results, progress, client, Quiet, InWhichCall
  <2>22. CASE Woken
    BY <2>22 DEF Woken, Fetch, results, progress, semaphores, client, Quiet, InWhichCall
  <2>23. CASE Play
    BY <2>23 DEF Play, Step, DoPlaybackOrRecord, PcmFails, results, semaphores, client, Quiet,
        InWhichCall
  <2>24. CASE Notify
    BY <2>24 DEF Notify, Step, progress, client, Quiet, InWhichCall
  <2>25. CASE Execute
    BY <2>25 DEF Execute, Step, semaphores, client, Initialize, Run, DoStop, progress,
        DoPlaybackOrRecord, PcmFails, Quiet, InWhichCall
  <2>26. CASE Clear
    BY <2>26 DEF Clear, Step, results, progress, semaphores, client, Quiet, InWhichCall
  <2>27. CASE Answer
    BY <2>27 DEF Answer, Step, results, progress, client, Quiet, InWhichCall
  <2> QED
    BY <1>3, <2>1, <2>2, <2>3, <2>4, <2>5, <2>6, <2>7, <2>8, <2>9, <2>10, <2>11, <2>12, <2>13,
        <2>14, <2>15, <2>16, <2>17, <2>18, <2>19, <2>20, <2>21, <2>22, <2>23, <2>24, <2>25,
        <2>26, <2>27 DEF Steps, NewCall, InCall, AudioThread
<1> QED
  BY <1>1, <1>2, <1>3, StepKinds

LEMMA InWhichCallStep ==
  ASSUME Quiet, InWhichCall, [Next]_vars
  PROVE  InWhichCall'
<1>1. CASE CreateAudioHw
  BY <1>1 DEF CreateAudioHw, Quiet, InWhichCall
<1>2. CASE UNCHANGED vars
  BY <1>2 DEF vars, semaphores, results, progress, client, thread, Quiet, InWhichCall
<1>3. CASE Steps
  <2>1. CASE Prepare
    BY <2>1 DEF Prepare, Enter, GoTo, Return, results, progress, semaphores, Quiet, InWhichCall
  <2>2. CASE \E n \in Repetition : Start(n)
    BY <2>2 DEF Start, Enter, GoTo, Return, results, progress, semaphores, thread, Quiet,
        InWhichCall
  <2>3. CASE WaitForCompletion
    BY <2>3 DEF WaitForCompletion, Enter, GoTo, results, progress, semaphores, thread, Quiet,
        InWhichCall
  <2>4. CASE Stop
    BY <2>4 DEF Stop, Enter, GoTo, results, progress, semaphores, thread, Quiet, InWhichCall
  <2>5. CASE Destroy
    BY <2>5 DEF Destroy, Enter, GoTo, results, progress, semaphores, thread, Quiet, InWhichCall
  <2>6. CASE Created
    BY <2>6 DEF Created, results, progress, semaphores, thread, Quiet, InWhichCall
  <2>7. CASE Tidy
    BY <2>7 DEF Tidy, results, progress, thread, Quiet, InWhichCall
  <2>8. CASE Post
    BY <2>8 DEF Post, results, progress, thread, Quiet, InWhichCall
  <2>9. CASE Await
    BY <2>9 DEF Await, Answered, GoTo, Return, results, progress, thread, Quiet, InWhichCall
  <2>10. CASE CommandResult
    BY <2>10 DEF CommandResult, Answered, GoTo, Return, results, progress, semaphores, thread,
        Quiet, InWhichCall
  <2>11. CASE Complete
    BY <2>11 DEF Complete, GoTo, Return, results, progress, thread, Quiet, InWhichCall
  <2>12. CASE CompletionResult
    BY <2>12 DEF CompletionResult, Return, results, progress, semaphores, thread, Quiet,
        InWhichCall
  <2>13. CASE Stopping
    BY <2>13 DEF Stopping, results, progress, semaphores, thread, Quiet, InWhichCall
  <2>14. CASE RequestExit
    BY <2>14 DEF RequestExit, GoTo, Return, results, progress, semaphores, thread, Quiet,
        InWhichCall
  <2>15. CASE ThreadStop
    BY <2>15 DEF ThreadStop, results, progress, semaphores, thread, Quiet, InWhichCall
  <2>16. CASE PostStop
    BY <2>16 DEF PostStop, results, progress, thread, Quiet, InWhichCall
  <2>17. CASE Join
    BY <2>17 DEF Join, Return, results, progress, semaphores, Quiet, InWhichCall
  <2>18. CASE Destroyed
    BY <2>18 DEF Destroyed, GoTo, results, progress, semaphores, Quiet, InWhichCall
  <2>19. CASE Top
    BY <2>19 DEF Top, Step, results, progress, semaphores, client, Quiet, InWhichCall
  <2>20. CASE Read
    BY <2>20 DEF Read, Fetch, results, progress, semaphores, client, Quiet, InWhichCall
  <2>21. CASE Wait
    BY <2>21 DEF Wait, Step, results, progress, client, Quiet, InWhichCall
  <2>22. CASE Woken
    BY <2>22 DEF Woken, Fetch, results, progress, semaphores, client, Quiet, InWhichCall
  <2>23. CASE Play
    BY <2>23 DEF Play, Step, DoPlaybackOrRecord, PcmFails, results, semaphores, client, Quiet,
        InWhichCall
  <2>24. CASE Notify
    BY <2>24 DEF Notify, Step, progress, client, Quiet, InWhichCall
  <2>25. CASE Execute
    BY <2>25 DEF Execute, Step, semaphores, client, Initialize, Run, DoStop, progress,
        DoPlaybackOrRecord, PcmFails, Quiet, InWhichCall
  <2>26. CASE Clear
    BY <2>26 DEF Clear, Step, results, progress, semaphores, client, Quiet, InWhichCall
  <2>27. CASE Answer
    BY <2>27 DEF Answer, Step, results, progress, client, Quiet, InWhichCall
  <2> QED
    BY <1>3, <2>1, <2>2, <2>3, <2>4, <2>5, <2>6, <2>7, <2>8, <2>9, <2>10, <2>11, <2>12, <2>13,
        <2>14, <2>15, <2>16, <2>17, <2>18, <2>19, <2>20, <2>21, <2>22, <2>23, <2>24, <2>25,
        <2>26, <2>27 DEF Steps, NewCall, InCall, AudioThread
<1> QED
  BY <1>1, <1>2, <1>3, StepKinds

-------------------------------------------------------------------------------
(* What is played *)

\* What the client may call next.
LEMMA NextCall ==
  ASSUME use \in Uses, NEW c \in Call, Enter(c)
  PROVE  /\ c = "prepare" => call \in {"none", "prepare", "stop"}
         /\ c = "start" => call = "none" \/ (call = "prepare" /\ result)
         /\ c = "wait" => call = "start" /\ result
<1>1. <<call, result, c>> \in Usage
  BY DEF Enter
<1>2. <<call, result, c>>[1] = call /\ <<call, result, c>>[2] = result /\ <<call, result, c>>[3] = c
  OBVIOUS
<1> QED
  BY <1>1, <1>2, ClientAssumption DEF Usage

LEMMA StartsPrepared ==
  ASSUME Ranges, InWhichCall, CompletedOnce, NEW n \in Repetition, Start(n), mState = "Initialized"
  PROVE  call = "prepare" /\ cpc = "ready" /\ result /\ ~Due /\ mClientCompletionWait = 0
<1>1. Enter("start") /\ use \in Uses /\ "start" \in Call
  BY DEF Start, Ranges, Call
<1>2. call = "none" \/ (call = "prepare" /\ result)
  BY <1>1, NextCall
<1>3. call = "prepare" /\ result
  BY <1>2 DEF InWhichCall
<1>4. cpc = "ready"
  BY <1>1 DEF Enter
<1> QED
  BY <1>3, <1>4 DEF CompletedOnce

LEMMA OneMoreTime ==
  \A r, b \in Nat : (r + 1) * b = r * b + b
OBVIOUS

LEMMA PlayedStep ==
  ASSUME Ranges, Quiet, InWhichCall, CompletedOnce, PlayedIsCounted, [Next]_vars
  PROVE  PlayedIsCounted'
<1>1. CASE CreateAudioHw
  BY <1>1 DEF CreateAudioHw, PlayedIsCounted, Unplayed
<1>2. CASE UNCHANGED vars
  BY <1>2, SameUse DEF vars, semaphores, results, progress, client, thread, PlayedIsCounted,
      Unplayed, Earned
<1>3. CASE Steps
  <2>0. BufferSize' = BufferSize
    BY <1>3, SameUse DEF Steps
  <2>1. CASE Prepare
    BY <2>0, <2>1 DEF Prepare, Enter, GoTo, Return, results, progress, semaphores,
        PlayedIsCounted, Unplayed, Earned, Quiet
  <2>2. CASE \E n \in Repetition : Start(n)
    <3>1. CASE mState # "Initialized"
      BY <2>0, <3>1, <2>2 DEF Start, Enter, GoTo, Return, results, progress, semaphores,
          thread, PlayedIsCounted, Unplayed, Earned
    <3>2. CASE mState = "Initialized"
      BY <2>0, <3>2, <2>2, StartsPrepared DEF Start, Enter, GoTo, Return, results, semaphores,
          thread, PlayedIsCounted, Unplayed, Due
    <3> QED
      BY <3>1, <3>2
  <2>3. CASE WaitForCompletion
    BY <2>0, <2>3 DEF WaitForCompletion, Enter, GoTo, results, progress, semaphores, thread,
        PlayedIsCounted, Unplayed, Earned
  <2>4. CASE Stop
    BY <2>0, <2>4 DEF Stop, Enter, GoTo, results, progress, semaphores, thread,
        PlayedIsCounted, Unplayed, Earned
  <2>5. CASE Destroy
    BY <2>0, <2>5 DEF Destroy, Enter, GoTo, results, progress, semaphores, thread,
        PlayedIsCounted, Unplayed, Earned
  <2>6. CASE Created
    BY <2>0, <2>6 DEF Created, results, progress, semaphores, thread, PlayedIsCounted,
        Unplayed, Earned, InWhichCall, Quiet
  <2>7. CASE Tidy
    BY <2>0, <2>7 DEF Tidy, results, progress, thread, PlayedIsCounted, Unplayed, Earned
  <2>8. CASE Post
    BY <2>0, <2>8 DEF Post, results, progress, thread, PlayedIsCounted, Unplayed, Earned
  <2>9. CASE Await
    BY <2>0, <2>9 DEF Await, Answered, GoTo, Return, results, progress, thread,
        PlayedIsCounted, Unplayed, Earned
  <2>10. CASE CommandResult
    BY <2>0, <2>10 DEF CommandResult, Answered, GoTo, Return, results, progress, semaphores,
        thread, PlayedIsCounted, Unplayed, Earned
  <2>11. CASE Complete
    BY <2>0, <2>11 DEF Complete, GoTo, Return, results, progress, thread, PlayedIsCounted,
        Unplayed, Earned
  <2>12. CASE CompletionResult
    BY <2>0, <2>12 DEF CompletionResult, Return, results, progress, semaphores, thread,
        PlayedIsCounted, Unplayed, Earned
  <2>13. CASE Stopping
    BY <2>0, <2>13 DEF Stopping, results, progress, semaphores, thread, PlayedIsCounted,
        Unplayed, Earned
  <2>14. CASE RequestExit
    BY <2>0, <2>14 DEF RequestExit, GoTo, Return, results, progress, semaphores, thread,
        PlayedIsCounted, Unplayed, Earned
  <2>15. CASE ThreadStop
    BY <2>0, <2>15 DEF ThreadStop, results, progress, semaphores, thread, PlayedIsCounted,
        Unplayed, Earned
  <2>16. CASE PostStop
    BY <2>0, <2>16 DEF PostStop, results, progress, thread, PlayedIsCounted, Unplayed, Earned
  <2>17. CASE Join
    BY <2>0, <2>17 DEF Join, Return, results, progress, semaphores, PlayedIsCounted, Unplayed,
        Earned
  <2>18. CASE Destroyed
    BY <2>0, <2>18 DEF Destroyed, GoTo, results, progress, semaphores, PlayedIsCounted,
        Unplayed, Earned
  <2>19. CASE Top
    BY <2>0, <2>19 DEF Top, Step, results, progress, semaphores, client, PlayedIsCounted,
        Unplayed, Earned
  <2>20. CASE Read
    BY <2>0, <2>20 DEF Read, Fetch, results, progress, semaphores, client, PlayedIsCounted,
        Unplayed, Earned
  <2>21. CASE Wait
    BY <2>0, <2>21 DEF Wait, Step, results, progress, client, PlayedIsCounted, Unplayed, Earned
  <2>22. CASE Woken
    BY <2>0, <2>22 DEF Woken, Fetch, results, progress, semaphores, client, PlayedIsCounted,
        Unplayed, Earned
  <2>23. CASE Play
    <3>1. Amount \in Nat /\ mHandled + Amount <= BufferSize /\ BufferSize \in Nat /\ Go \in Nat
          /\ mHandled \in Nat /\ mCurrentRepeat \in Nat /\ played \in Nat
          /\ BufferSize' = BufferSize /\ mNumberRepetition \in Nat
      BY <1>3, UseTypes, AmountFits, SameUse DEF Ranges, Steps
    <3>2. tpc = "play" /\ mState = "Running" /\ ~Unplayed
          /\ played = mCurrentRepeat * BufferSize + mHandled
      BY <2>23 DEF Play, Step, PlayedIsCounted
    <3>3. mCurrentCommand # "Run"
      BY <3>2 DEF Unplayed
    <3>4. mNumberRepetition' = mNumberRepetition /\ mCurrentCommand' = mCurrentCommand
      BY <2>23 DEF Play
    <3>5. ~Unplayed' /\ tpc' # "play"
      BY <3>3, <3>4, <2>23 DEF Unplayed, Play, Step
    <3>6. mState' = "Running" =>
            tpc' = "top" /\ played' = mCurrentRepeat' * BufferSize + mHandled'
      <4>1. CASE played' = played + Amount /\ mHandled' = mHandled + Amount
                 /\ mCurrentRepeat' = mCurrentRepeat /\ tpc' = "top"
        BY <3>1, <3>2, <4>1
      <4>2. CASE played' = played + Amount /\ mHandled + Amount >= BufferSize /\ mHandled' = 0
                 /\ mCurrentRepeat' = mCurrentRepeat + 1 /\ tpc' = "top"
        <5>1. mHandled + Amount = BufferSize
          BY <3>1, <4>2
        <5>2. played + Amount = mCurrentRepeat * BufferSize + BufferSize
          BY <3>1, <3>2, <5>1
        <5>3. (mCurrentRepeat + 1) * BufferSize = mCurrentRepeat * BufferSize + BufferSize
          BY <3>1, OneMoreTime
        <5> QED
          BY <3>1, <4>2, <5>2, <5>3
      <4> QED
        BY <4>1, <4>2, <2>23 DEF Play, DoPlaybackOrRecord, Step
    <3>7. tpc' = "completed" => Earned'
      <4>1. SUFFICES ASSUME tpc' = "completed" PROVE Earned'
        OBVIOUS
      <4>2. played' = played + Amount /\ mHandled + Amount >= BufferSize
            /\ mCurrentRepeat + 1 = mNumberRepetition
        BY <4>1, <2>23 DEF Play, DoPlaybackOrRecord, Step
      <4>3. mHandled + Amount = BufferSize
        BY <3>1, <4>2
      <4>4. played + Amount = mCurrentRepeat * BufferSize + BufferSize
        BY <3>1, <3>2, <4>3
      <4>5. (mCurrentRepeat + 1) * BufferSize = mCurrentRepeat * BufferSize + BufferSize
        BY <3>1, OneMoreTime
      <4> QED
        BY <3>1, <3>4, <4>2, <4>4, <4>5 DEF Earned
    <3> QED
      BY <3>5, <3>6, <3>7, <3>1, <2>23 DEF PlayedIsCounted, Play, Step
  <2>24. CASE Notify
    BY <2>0, <2>24 DEF Notify, Step, progress, client, PlayedIsCounted, Unplayed, Earned
  <2>25. CASE Execute
    <3>1. Amount \in Nat /\ BufferSize' = BufferSize /\ BufferSize \in Nat /\ mHandled \in Nat
      BY <1>3, UseTypes, AmountFits, SameUse DEF Ranges, Steps
    <3>2. ~Unplayed' /\ tpc = "execute" /\ tpc' = "executed"
      BY <2>25 DEF Execute, Step, Unplayed
    <3>3. CASE Initialize \/ DoStop
      BY <2>0, <3>2, <3>3 DEF Initialize, DoStop, progress, PlayedIsCounted
    <3>4. CASE Run
      <4>1. mState # "Running" /\ mCurrentRepeat = 0 /\ mHandled = 0 /\ played = 0
        BY <3>2, <3>4 DEF Run, PlayedIsCounted, Unplayed
      <4>2. mState' = "Running" =>
              played' = Amount /\ mHandled' = Amount /\ mCurrentRepeat' = 0
        BY <3>1, <3>4, <4>1 DEF Run, DoPlaybackOrRecord
      <4>3. 0 * BufferSize = 0
        BY <3>1
      <4> QED
        BY <3>1, <3>2, <4>2, <4>3 DEF PlayedIsCounted
    <3> QED
      BY <3>3, <3>4, <2>25 DEF Execute
  <2>26. CASE Clear
    BY <2>0, <2>26 DEF Clear, Step, results, progress, semaphores, client, PlayedIsCounted,
        Unplayed, Earned
  <2>27. CASE Answer
    BY <2>0, <2>27 DEF Answer, Step, results, progress, client, PlayedIsCounted, Unplayed,
        Earned
  <2> QED
    BY <1>3, <2>1, <2>2, <2>3, <2>4, <2>5, <2>6, <2>7, <2>8, <2>9, <2>10, <2>11, <2>12, <2>13,
        <2>14, <2>15, <2>16, <2>17, <2>18, <2>19, <2>20, <2>21, <2>22, <2>23, <2>24, <2>25,
        <2>26, <2>27 DEF Steps, NewCall, InCall, AudioThread
<1> QED
  BY <1>1, <1>2, <1>3, StepKinds

-------------------------------------------------------------------------------
(* What completes *)

LEMMA CompletedStep ==
  ASSUME Ranges, Flags, Quiet, InWhichCall, PlayedIsCounted, CompletedOnce, [Next]_vars
  PROVE  CompletedOnce'
<1>1. CASE CreateAudioHw
  BY <1>1 DEF CreateAudioHw, CompletedOnce, Due, Unplayed, Earned, Started, Returned
<1>2. CASE UNCHANGED vars
  BY <1>2, SameUse DEF vars, semaphores, results, progress, client, thread, CompletedOnce, Due,
      Unplayed, Earned, Started, Returned
<1>3. CASE Steps
  <2>0. BufferSize' = BufferSize /\ mClientCompletionWait \in Nat
    BY <1>3, SameUse DEF Ranges, Steps
  <2>1. CASE Prepare
    <3>1. call \in {"none", "prepare", "stop"} /\ cpc = "ready"
      BY <2>1, NextCall DEF Prepare, Enter, Ranges, Call
    <3>2. ~Due
      BY <3>1 DEF CompletedOnce, InWhichCall, Quiet, Due, Unplayed
    <3>3. mState # "Running" /\ mState \in {"None", "Created", "Initialized"}
      BY <3>2 DEF Due, Ranges
    <3>4. ~Due' /\ call' = "prepare" /\ UNCHANGED <<mState, mClientCompletionWait>>
          /\ (cpc' \in {"created", "tidy"} \/ mState = "None") /\ cpc' # "completion"
      BY <3>2, <3>3, <2>1 DEF Prepare, Enter, GoTo, Return, semaphores, Due, Unplayed, Quiet
    <3> QED
      BY <3>4 DEF CompletedOnce, Started, Returned
  <2>2. CASE \E n \in Repetition : Start(n)
    <3>1. CASE mState # "Initialized"
      <4>1. /\ UNCHANGED <<mState, tpc, pendingCommand, mCurrentCommand, mClientCompletionWait>>
            /\ call' = "start" /\ cpc' = "ready" /\ result' = FALSE
        BY <3>1, <2>2 DEF Start, Enter, Return, semaphores, thread
      <4> QED
        BY <4>1 DEF CompletedOnce, Due, Unplayed, Started, Returned
    <3>2. CASE mState = "Initialized"
      <4>1. mClientCompletionWait = 0 /\ UNCHANGED mClientCompletionWait
            /\ call' = "start" /\ cpc' = "post"
        BY <3>2, <2>2, StartsPrepared DEF Start, Enter, GoTo, semaphores
      <4> QED
        BY <4>1 DEF CompletedOnce, Returned
    <3> QED
      BY <3>1, <3>2
  <2>3. CASE WaitForCompletion
    <3>1. Started /\ cpc = "ready"
      BY <2>3, NextCall DEF WaitForCompletion, Enter, Ranges, Call, Started
    <3>2. /\ UNCHANGED <<mState, tpc, pendingCommand, mCurrentCommand, mClientCompletionWait,
                         mCompletionResult, played, mNumberRepetition>>
          /\ call' = "wait" /\ cpc' = "complete"
      BY <2>3 DEF WaitForCompletion, Enter, GoTo, semaphores, thread, results, progress
    <3> QED
      BY <2>0, <3>1, <3>2 DEF CompletedOnce, Due, Unplayed, Returned, Earned
  <2>4. CASE Stop
    BY <2>0, <2>4 DEF Stop, Enter, GoTo, results, progress, semaphores, thread, CompletedOnce,
        Due, Unplayed, Earned, Started, Returned
  <2>5. CASE Destroy
    BY <2>0, <2>5 DEF Destroy, Enter, GoTo, results, progress, semaphores, thread,
        CompletedOnce, Due, Unplayed, Earned, Started, Returned
  <2>6. CASE Created
    BY <2>0, <2>6 DEF Created, results, progress, semaphores, thread, CompletedOnce, Due,
        Unplayed, Earned, Started, Returned
  <2>7. CASE Tidy
    BY <2>0, <2>7 DEF Tidy, results, progress, thread, CompletedOnce, Due, Unplayed, Earned,
        Started, Returned
  <2>8. CASE Post
    BY <2>0, <2>8 DEF Post, results, progress, thread, CompletedOnce, Due, Unplayed, Earned,
        Started, Returned
  <2>9. CASE Await
    BY <2>0, <2>9 DEF Await, Answered, GoTo, Return, results, progress, thread, CompletedOnce,
        Due, Unplayed, Earned, Started, Returned
  <2>10. CASE CommandResult
    <3>1. /\ UNCHANGED <<mState, tpc, pendingCommand, mCurrentCommand, mClientCompletionWait,
                         mCompletionResult, played, mNumberRepetition, call>>
          /\ cpc = "answered" /\ cpc' \in {"ready", "exit"}
      BY <2>10 DEF CommandResult, Answered, GoTo, Return, semaphores, thread, results, progress
    <3>2. call # "wait"
      BY <3>1 DEF InWhichCall
    <3>3. Started' => Started
      BY <3>1 DEF Started
    <3> QED
      BY <2>0, <3>1, <3>2, <3>3 DEF CompletedOnce, Due, Unplayed, Returned, Earned
  <2>11. CASE Complete
    <3>1. /\ UNCHANGED <<mState, tpc, pendingCommand, mCurrentCommand, mCompletionResult,
                         played, mNumberRepetition, call>>
          /\ cpc = "complete"
      BY <2>11 DEF Complete, GoTo, Return, thread, results, progress
    <3>2. call = "wait" /\ Started
      BY <3>1 DEF InWhichCall, Started
    <3>3. CASE mClientCompletionWait > 0 /\ mClientCompletionWait' = mClientCompletionWait - 1
               /\ cpc' = "completion"
      <4>1. mClientCompletionWait = 1 /\ mClientCompletionWait' = 0
        BY <2>0, <3>3 DEF CompletedOnce
      <4>2. ~Due
        BY <4>1 DEF CompletedOnce
      <4> QED
        BY <2>0, <3>1, <3>2, <3>3, <4>1, <4>2 DEF CompletedOnce, Due, Unplayed, Earned, Returned
    <3>4. CASE mClientCompletionWait = 0 /\ UNCHANGED mClientCompletionWait
               /\ cpc' = "ready" /\ result' = FALSE
      BY <3>1, <3>2, <3>4 DEF CompletedOnce, Returned
    <3> QED
      BY <3>3, <3>4, <2>11 DEF Complete, GoTo, Return
  <2>12. CASE CompletionResult
    BY <2>0, <2>12 DEF CompletionResult, Return, results, progress, semaphores, thread,
        CompletedOnce, Due, Unplayed, Earned, Started, Returned
  <2>13. CASE Stopping
    BY <2>0, <2>13 DEF Stopping, results, progress, semaphores, thread, CompletedOnce, Due,
        Unplayed, Earned, Started, Returned
  <2>14. CASE RequestExit
    <3>1. call = "stop" /\ call' = "stop" /\ cpc' \in {"ready", "threadstop"}
      BY <2>14 DEF InWhichCall, RequestExit, GoTo, Return
    <3>2. (Due' => Due) /\ UNCHANGED mClientCompletionWait
      BY <2>14 DEF InWhichCall, Due, Unplayed, RequestExit, GoTo, Return, results, progress, semaphores, thread
    <3> QED
      BY <3>1, <3>2 DEF CompletedOnce, Started, Returned
  <2>15. CASE ThreadStop
    BY <2>0, <2>15 DEF ThreadStop, results, progress, semaphores, thread, CompletedOnce, Due,
        Unplayed, Earned, Started, Returned
  <2>16. CASE PostStop
    BY <2>0, <2>16 DEF PostStop, results, progress, thread, CompletedOnce, Due, Unplayed,
        Earned, Started, Returned
  <2>17. CASE Join
    <3>1. call = "stop" /\ call' = "stop" /\ cpc' \in {"ready", "threadstop"}
      BY <2>17 DEF InWhichCall, Join, Return
    <3>2. (Due' => Due) /\ UNCHANGED mClientCompletionWait
      BY <2>17 DEF InWhichCall, Due, Unplayed, Join, Return, results, progress, semaphores
    <3> QED
      BY <3>1, <3>2 DEF CompletedOnce, Started, Returned
  <2>18. CASE Destroyed
    BY <2>0, <2>18 DEF Destroyed, GoTo, results, progress, semaphores, CompletedOnce, Due,
        Unplayed, Earned, Started, Returned
  <2>19. CASE Top
    BY <2>0, <2>19 DEF Top, Step, results, progress, semaphores, client, CompletedOnce, Due,
        Unplayed, Earned, Started, Returned
  <2>20. CASE Read
    BY <2>0, <2>20 DEF Read, Fetch, results, progress, semaphores, client, CompletedOnce, Due,
        Unplayed, Earned, Started, Returned
  <2>21. CASE Wait
    BY <2>0, <2>21 DEF Wait, Step, results, progress, client, CompletedOnce, Due, Unplayed,
        Earned, Started, Returned
  <2>22. CASE Woken
    BY <2>0, <2>22 DEF Woken, Fetch, results, progress, semaphores, client, CompletedOnce, Due,
        Unplayed, Earned, Started, Returned
  <2>23. CASE Play
    <3>1. Due /\ UNCHANGED <<mClientCompletionWait, call, cpc, result>>
      BY <2>23 DEF Play, Step, PlayedIsCounted, Due, semaphores, client
    <3> QED
      BY <3>1 DEF CompletedOnce, Returned
  <2>24. CASE Notify
    <3>1. Due /\ UNCHANGED <<call, cpc, result>>
      BY <2>24 DEF Notify, Step, Due, client
    <3>2. mClientCompletionWait' = 1
      BY <3>1, <2>24 DEF Notify, CompletedOnce
    <3>3. ~Due'
      BY <2>24 DEF Notify, Step, PlayedIsCounted, Due, Unplayed
    <3>4. mCompletionResult' => Earned'
      BY <2>0, <2>24 DEF Notify, progress, PlayedIsCounted, Earned
    <3> QED
      BY <3>1, <3>2, <3>3, <3>4 DEF CompletedOnce, Returned
  <2>25. CASE Execute
    <3>1. UNCHANGED <<call, cpc, result, mClientCompletionWait, mCompletionResult>>
      BY <2>25 DEF Execute, semaphores, client
    <3>2. CASE Due
      BY <3>1, <3>2 DEF CompletedOnce, Returned
    <3>3. CASE ~Due
      <4>1. ~Due' /\ UNCHANGED <<played, mNumberRepetition>> /\ mState # "None"
        BY <3>3, <2>25 DEF Execute, Step, Initialize, Run, DoStop, progress, Due, Unplayed,
            Quiet
      <4> QED
        BY <2>0, <3>1, <4>1 DEF CompletedOnce, Earned, Returned, Started
    <3> QED
      BY <3>2, <3>3
  <2>26. CASE Clear
    BY <2>0, <2>26 DEF Clear, Step, results, progress, semaphores, client, CompletedOnce, Due,
        Unplayed, Earned, Started, Returned
  <2>27. CASE Answer
    BY <2>0, <2>27 DEF Answer, Step, results, progress, client, CompletedOnce, Due, Unplayed,
        Earned, Started, Returned
  <2> QED
    BY <1>3, <2>1, <2>2, <2>3, <2>4, <2>5, <2>6, <2>7, <2>8, <2>9, <2>10, <2>11, <2>12, <2>13,
        <2>14, <2>15, <2>16, <2>17, <2>18, <2>19, <2>20, <2>21, <2>22, <2>23, <2>24, <2>25,
        <2>26, <2>27 DEF Steps, NewCall, InCall, AudioThread
<1> QED
  BY <1>1, <1>2, <1>3, StepKinds

-------------------------------------------------------------------------------
(* What is answered *)

LEMMA AnswersStep ==
  ASSUME Ranges, Flags, Quiet, InWhichCall, PlayedIsCounted, CompletedOnce, AnswersInTurn,
      [Next]_vars
  PROVE  AnswersInTurn'
<1>1. CASE CreateAudioHw
  BY <1>1 DEF CreateAudioHw, AnswersInTurn, Answering, NoAnswer, Between, Possible, Effect,
      Prepared, Returned
<1>2. CASE UNCHANGED vars
  BY <1>2, SameUse DEF vars, semaphores, results, progress, client, thread, AnswersInTurn,
      Answering, NoAnswer, Between, Possible, Effect, Prepared, Returned
<1>3. CASE Steps
  <2>0. Go' = Go /\ UsedOnce' = UsedOnce
    BY <1>3, SameUse DEF Steps
  <2>1. CASE Prepare
    <3>1. SUFFICES ASSUME UsedOnce PROVE AnswersInTurn'
      BY <2>0 DEF AnswersInTurn
    <3>2. <<call, result, "prepare">> \in Usage
      BY <2>1 DEF Prepare, Enter
    <3>3. <<call, result, "prepare">>[3] = "prepare" /\ <<call, result, "prepare">>[1] = call
      OBVIOUS
    <3>4. call = "none"
      BY <3>1, <3>2, <3>3 DEF UsedOnce
    <3>5. mState = "None" /\ mCurrentCommand = "None" /\ mClientCommandWait = 0
      BY <3>4 DEF InWhichCall
    <3> QED
      BY <3>5, <2>1 DEF Prepare, Enter, GoTo, Return, semaphores, AnswersInTurn, NoAnswer, Between,
          Returned
  <2>2. CASE \E n \in Repetition : Start(n)
    <3>1. CASE mState # "Initialized"
      <4>1. call' = "start" /\ cpc' = "ready" /\ result' = FALSE
        BY <3>1, <2>2 DEF Start, Enter, Return
      <4> QED
        BY <4>1 DEF AnswersInTurn, Returned
    <3>2. CASE mState = "Initialized"
      <4>1. UsedOnce => NoAnswer /\ Prepared
        BY <3>2, <2>2, StartsPrepared DEF AnswersInTurn, Returned
      <4>2. call' = "start" /\ cpc' = "post" /\ mCurrentCommand' = "Run" /\ mHandled' = 0
            /\ UNCHANGED <<mClientCommandWait, mState, mSizes, tpc>>
        BY <3>2, <2>2 DEF Start, Enter, GoTo, semaphores, thread
      <4> QED
        BY <2>0, <4>1, <4>2 DEF AnswersInTurn, NoAnswer, Between, Prepared, Answering, Possible,
            Returned
    <3> QED
      BY <3>1, <3>2
  <2>3. CASE WaitForCompletion
    BY <2>0, <2>3 DEF WaitForCompletion, Enter, GoTo, results, progress, semaphores, thread,
        AnswersInTurn, Answering, NoAnswer, Between, Possible, Effect, Prepared, Returned
  <2>4. CASE Stop
    BY <2>0, <2>4 DEF Stop, Enter, GoTo, results, progress, semaphores, thread, AnswersInTurn,
        Answering, NoAnswer, Between, Possible, Effect, Prepared, Returned
  <2>5. CASE Destroy
    BY <2>0, <2>5 DEF Destroy, Enter, GoTo, results, progress, semaphores, thread,
        AnswersInTurn, Answering, NoAnswer, Between, Possible, Effect, Prepared, Returned
  <2>6. CASE Created
    BY <2>0, <2>6 DEF Created, results, progress, semaphores, thread, AnswersInTurn, Answering,
        NoAnswer, Between, Possible, Effect, Prepared, Returned
  <2>7. CASE Tidy
    <3>1. call = "prepare"
      BY <2>7 DEF Tidy, InWhichCall
    <3> QED
      BY <2>0, <3>1, <2>7 DEF Tidy, thread, AnswersInTurn, Answering, NoAnswer, Between,
          Possible, Returned
  <2>8. CASE Post
    BY <2>0, <2>8 DEF Post, results, progress, thread, AnswersInTurn, Answering, NoAnswer,
        Between, Possible, Effect, Prepared, Returned
  <2>9. CASE Await
    BY <2>0, <2>9 DEF Await, Answered, GoTo, Return, results, progress, thread, AnswersInTurn,
        Answering, NoAnswer, Between, Possible, Effect, Prepared, Returned
  <2>10. CASE CommandResult
    BY <2>0, <2>10 DEF CommandResult, Answered, GoTo, Return, results, progress, semaphores,
        thread, AnswersInTurn, Answering, NoAnswer, Between, Possible, Effect, Prepared,
        Returned
  <2>11. CASE Complete
    BY <2>0, <2>11 DEF Complete, GoTo, Return, results, progress, thread, AnswersInTurn,
        Answering, NoAnswer, Between, Possible, Effect, Prepared, Returned
  <2>12. CASE CompletionResult
    <3>1. call = "wait" /\ call' = "wait" /\ cpc' \notin {"created", "tidy"}
      BY <2>12 DEF CompletionResult, Return, InWhichCall
    <3> QED
      BY <3>1 DEF AnswersInTurn, Returned
  <2>13. CASE Stopping
    <3>1. call = "stop" /\ call' = "stop" /\ cpc' \notin {"created", "tidy"}
      BY <2>13 DEF Stopping, InWhichCall
    <3> QED
      BY <3>1 DEF AnswersInTurn, Returned
  <2>14. CASE RequestExit
    <3>1. call = "stop" /\ call' = "stop" /\ cpc' \notin {"created", "tidy"}
      BY <2>14 DEF RequestExit, GoTo, Return, InWhichCall
    <3> QED
      BY <3>1 DEF AnswersInTurn, Returned
  <2>15. CASE ThreadStop
    BY <2>0, <2>15 DEF ThreadStop, results, progress, semaphores, thread, AnswersInTurn,
        Answering, NoAnswer, Between, Possible, Effect, Prepared, Returned
  <2>16. CASE PostStop
    BY <2>0, <2>16 DEF PostStop, results, progress, thread, AnswersInTurn, Answering, NoAnswer,
        Between, Possible, Effect, Prepared, Returned
  <2>17. CASE Join
    <3>1. call = "stop" /\ call' = "stop" /\ cpc' \notin {"created", "tidy"}
      BY <2>17 DEF Join, Return, InWhichCall
    <3> QED
      BY <3>1 DEF AnswersInTurn, Returned
  <2>18. CASE Destroyed
    BY <2>0, <2>18 DEF Destroyed, GoTo, results, progress, semaphores, AnswersInTurn,
        Answering, NoAnswer, Between, Possible, Effect, Prepared, Returned
  <2>19. CASE Top
    BY <2>0, <2>19 DEF Top, Step, results, progress, semaphores, client, AnswersInTurn,
        Answering, NoAnswer, Between, Possible, Effect, Prepared, Returned
  <2>20. CASE Read
    BY <2>0, <2>20 DEF Read, Fetch, results, progress, semaphores, client, AnswersInTurn,
        Answering, NoAnswer, Between, Possible, Effect, Prepared, Returned
  <2>21. CASE Wait
    BY <2>0, <2>21 DEF Wait, Step, results, progress, client, AnswersInTurn, Answering,
        NoAnswer, Between, Possible, Effect, Prepared, Returned
  <2>22. CASE Woken
    BY <2>0, <2>22 DEF Woken, Fetch, results, progress, semaphores, client, AnswersInTurn,
        Answering, NoAnswer, Between, Possible, Effect, Prepared, Returned
  <2>23. CASE Play
    <3>1. /\ Due /\ mState = "Running" /\ ~Unplayed
          /\ UNCHANGED <<mClientCommandWait, mCommandResult, mCurrentCommand, call, cpc, result>>
      BY <2>23 DEF Play, Step, PlayedIsCounted, Due, semaphores, results, client
    <3>2. call \notin {"none", "prepare"} /\ cpc \notin {"created", "tidy"}
      BY <3>1 DEF CompletedOnce, InWhichCall
    <3>3. played > 0 => played' > 0
      <4>1. Amount \in Nat /\ mHandled \in Nat /\ played \in Nat
        BY UseTypes, AmountFits DEF Ranges
      <4> QED
        BY <4>1, <2>23 DEF Play, DoPlaybackOrRecord, PcmFails
    <3>4. Between /\ Between'
      BY <2>23 DEF Play, Step, Between
    <3>5. Answering("Run") => Answering("Run")'
      BY <3>1, <3>3, <3>4 DEF Answering, Effect, Possible, Prepared, Between, Unplayed
    <3> QED
      BY <2>0, <3>1, <3>2, <3>3, <3>4, <3>5 DEF AnswersInTurn, NoAnswer, Returned
  <2>24. CASE Notify
    BY <2>0, <2>24 DEF Notify, Step, progress, client, AnswersInTurn, Answering, NoAnswer,
        Between, Possible, Effect, Prepared, Returned
  <2>25. CASE Execute
    <3>1. /\ tpc = "execute" /\ tpc' = "executed" /\ ~Between
          /\ UNCHANGED <<mClientCommandWait, mCurrentCommand, pendingCommand, call, cpc, result>>
      BY <2>25 DEF Execute, Step, Between, semaphores, client
    <3>2. Amount \in Nat /\ mHandled \in Nat /\ played \in Nat /\ BufferSize \in Nat \ {0}
          /\ Go \in Nat \ {0} /\ BufferSize' = BufferSize
      BY <1>3, UseTypes, AmountFits, SameUse DEF Ranges, Steps
    <3>3. played > 0 => played' > 0
      BY <3>2, <2>25 DEF Execute, Initialize, Run, DoStop, progress, DoPlaybackOrRecord, PcmFails
    <3>4. Answering("Initialize") => Answering("Initialize")'
      <4>1. SUFFICES ASSUME Answering("Initialize")
                     PROVE  mClientCommandWait = 0 /\ (mCommandResult' => Effect("Initialize")')
        BY <3>1 DEF Answering
      <4>2. mClientCommandWait = 0 /\ pendingCommand = "Initialize"
        BY <3>1, <4>1 DEF Answering, Between
      <4>3. mCommandResult' => mState' = "Initialized" /\ mSizes' = Go
        BY <4>2, <2>25 DEF Execute, Initialize, Run, DoStop
      <4> QED
        BY <2>0, <4>2, <4>3 DEF Effect, Prepared
    <3>5. Answering("Run") => Answering("Run")'
      <4>1. SUFFICES ASSUME Answering("Run")
                     PROVE  mClientCommandWait = 0 /\ (mCommandResult' => Effect("Run")')
        BY <3>1 DEF Answering
      <4>2. mClientCommandWait = 0 /\ pendingCommand = "Run" /\ Prepared /\ mHandled = 0
        BY <3>1, <4>1 DEF Answering, Between, Possible
      <4>3. Amount > 0
        BY <3>2, <4>2 DEF Amount, Prepared
      <4>4. mCommandResult' => played' = played + Amount
        BY <4>2, <2>25 DEF Execute, Initialize, Run, DoStop, DoPlaybackOrRecord
      <4>5. mCommandResult' => played' > 0
        BY <3>2, <4>3, <4>4
      <4> QED
        BY <4>2, <4>5 DEF Effect
    <3> QED
      BY <2>0, <3>1, <3>3, <3>4, <3>5 DEF AnswersInTurn, NoAnswer, Returned
  <2>26. CASE Clear
    BY <2>0, <2>26 DEF Clear, Step, results, progress, semaphores, client, AnswersInTurn,
        Answering, NoAnswer, Between, Possible, Effect, Prepared, Returned
  <2>27. CASE Answer
    BY <2>0, <2>27 DEF Answer, Step, results, progress, client, AnswersInTurn, Answering,
        NoAnswer, Between, Possible, Effect, Prepared, Returned
  <2> QED
    BY <1>3, <2>1, <2>2, <2>3, <2>4, <2>5, <2>6, <2>7, <2>8, <2>9, <2>10, <2>11, <2>12, <2>13,
        <2>14, <2>15, <2>16, <2>17, <2>18, <2>19, <2>20, <2>21, <2>22, <2>23, <2>24, <2>25,
        <2>26, <2>27 DEF Steps, NewCall, InCall, AudioThread
<1> QED
  BY <1>1, <1>2, <1>3, StepKinds

-------------------------------------------------------------------------------
(* The theorems *)

LEMMA IInvInit == Init => IInv
<1>1. SUFFICES ASSUME Init PROVE IInv
  OBVIOUS
<1>2. BufferSize \in Nat /\ Go \in Nat
  BY <1>1, UseTypes DEF Init
<1>3. TypeOK
  <2>1. Flags
    BY <1>1 DEF Init, Flags
  <2>2. Ranges
    BY <1>1, <1>2 DEF Init, Ranges, Command, Call
  <2> QED
    BY <2>1, <2>2, TypeParts
<1>4. Quiet /\ InWhichCall
  BY <1>1 DEF Init, Quiet, InWhichCall
<1>5. PlayedIsCounted /\ CompletedOnce
  BY <1>1 DEF Init, PlayedIsCounted, CompletedOnce, Unplayed, Due, Started, Returned
<1>6. AnswersInTurn
  BY <1>1 DEF Init, AnswersInTurn, Returned
<1> QED
  BY <1>3, <1>4, <1>5, <1>6 DEF IInv

LEMMA IInvStep == IInv /\ [Next]_vars => IInv'
BY TypeParts, TypePartsNext, FlagStep, RangeStep, QuietStep, InWhichCallStep, PlayedStep,
   CompletedStep, AnswersStep DEF IInv

LEMMA Invariance == Spec => []IInv
BY IInvInit, IInvStep, PTL DEF Spec

\* Positions and amounts stay within the buffer and one go, whatever the sizes: what
\* doPlaybackOrRecord hands to the pcm call never runs past the end of the buffer.
THEOREM TypeCorrect == Spec => []TypeOK
<1>1. IInv => TypeOK
  BY DEF IInv
<1> QED
  BY <1>1, Invariance, PTL

\* When stop has returned there is no audio thread that still plays or executes a
\* command, however many commands timed out before.
THEOREM StoppedStaysQuiet == Spec => []StoppedIsQuiet
<1>1. IInv => StoppedIsQuiet
  BY DEF IInv, Quiet, StoppedIsQuiet
<1> QED
  BY <1>1, Invariance, PTL

\* waitForCompletion returns true only for the buffer and the repetitions of the last
\* start: completions of earlier ones have been taken back, late ones cannot come.
THEOREM CompletionIsEarned == Spec => []CompletionEarned
<1>1. IInv => CompletionEarned
  BY DEF IInv, CompletedOnce, CompletionEarned, Earned
<1> QED
  BY <1>1, Invariance, PTL

\* prepare and start of an object that is prepared once return what became of their own
\* command.
THEOREM AnswersAreOwn == Spec => []AnswersMatch
<1>1. IInv => AnswersMatch
  BY DEF IInv, AnswersInTurn, AnswersMatch, Prepared
<1> QED
  BY <1>1, Invariance, PTL
===============================================================================
