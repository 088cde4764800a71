------------------------------ MODULE RemoteAudio ------------------------------
(***************************************************************************)
(* Remote playback and recording of the audio quality suite.  A client     *)
(* thread calls RemoteAudio, which hands each command as a message to a    *)
(* looper thread and waits for a semaphore, up to a time-out.  The looper  *)
(* thread sends commands to the device and reads its replies.              *)
(*                                                                         *)
(* The looper is the one in compat/.  It empties its wake pipe with reads  *)
(* until one fails, and the pipe blocks (pipeBlocks), so the thread stays  *)
(* in that loop for ever after the first message.  What RemoteAudio does   *)
(* over a pipe that does not block, as it does over the looper of Android  *)
(* that the shim stands in for, is the other value of pipeBlocks.          *)
(***************************************************************************)
EXTENDS AudioClient

CONSTANTS
  Uses           \* ways to use RemoteAudio; bounds the calls

ASSUME RemoteAssumption ==
  /\ Id \subseteq Nat
  /\ \A u \in Uses : u.pipeBlocks \in BOOLEAN /\ u.slow \in BOOLEAN /\ u.maxCalls \in Nat

Handler == {"download", "playback", "recording", "info"}
Media   == {"playback", "recording"}

VARIABLES
  use,               \* the use it is put to
  \* Looper
  mMsgQueue,         \* messages: what is sent, and the handler it is for
  woken,             \* the wake pipe is not empty
  lpc,               \* looper thread: next step
  sockEvent,         \* its local: the socket had an event
  q,                 \* its local: messages to handle
  packet,            \* its local: the reply being handled
  mExitRequested,
  \* init
  mInitWait, mInitResult,
  \* CommandHandler, by handler; "temp" is the one that doStop makes
  mClientWait,       \* semaphore
  mResult, mNotifyOnReply, mActive,
  mStateLock,        \* held by a call that has returned
  mParamId,          \* mParam.mId
  \* RemoteAudio
  mDownloadId,
  mBufferList,       \* ids of downloaded buffers
  cpc,               \* client: next step, "ready" between calls
  call, handler, result,  \* call made last, the handler it uses, its result
  calls              \* how many calls were made

\* use: reading an empty wake pipe blocks; answers may take longer than the
\* client waits; the calls that are made after init, each with its handler, and
\* how many.
pipeBlocks == use.pipeBlocks
slow       == use.slow
Does       == use.does
MaxCalls   == use.maxCalls

looper  == <<lpc, sockEvent, q, packet, mExitRequested>>
queue   == <<mMsgQueue, woken>>
init    == <<mInitWait, mInitResult>>
state   == <<mNotifyOnReply, mActive, mStateLock, mParamId>>
answers == <<mClientWait, mResult>>
client  == <<mDownloadId, mBufferList, cpc, call, handler, result, calls>>
socket  == <<toDevice, toHost>>
vars == <<use, looper, queue, init, state, answers, client, socket, device>>

\* A new RemoteAudio; mResult and mInitResult are not initialized.
Init ==
  /\ DeviceInit
  /\ use \in Uses
  /\ mMsgQueue = <<>> /\ woken = FALSE
  /\ lpc = "none" /\ sockEvent = FALSE /\ q = <<>> /\ packet = [cmd |-> "none", ok |-> FALSE]
  /\ mExitRequested = FALSE
  /\ mInitWait = 0 /\ mInitResult = FALSE
  /\ mClientWait = [h \in Handler \cup {"temp"} |-> 0]
  /\ mResult = [h \in Handler \cup {"temp"} |-> FALSE]
  /\ mNotifyOnReply = [h \in Handler |-> FALSE] /\ mActive = [h \in Handler |-> FALSE]
  /\ mStateLock = [h \in Handler |-> FALSE] /\ mParamId = [h \in Handler |-> 0]
  /\ mDownloadId = 0 /\ mBufferList = {}
  /\ cpc = "ready" /\ call = "none" /\ handler = "temp" /\ result = TRUE /\ calls = 0

\* Looper::mLock is held for long only while callbacks run.
mLock == lpc \in {"callback", "notify"}

-------------------------------------------------------------------------------
(* The client *)

Return(r) == cpc' = "ready" /\ result' = r
GoTo(step) == cpc' = step /\ UNCHANGED result

\* init: run the thread; it is called once.
InitCall ==
  /\ cpc = "ready" /\ call = "none"
  /\ call' = "init" /\ GoTo("init") /\ lpc' = "connect"
  /\ UNCHANGED <<use, sockEvent, q, packet, mExitRequested, queue, init, state, answers, mDownloadId,
                 mBufferList, handler, calls, socket, device>>

InitAwait ==
  /\ cpc = "init"
  /\ \/ mInitWait > 0 /\ mInitWait' = mInitWait - 1 /\ Return(mInitResult)
     \/ mInitWait = 0 /\ slow /\ Return(FALSE) /\ UNCHANGED mInitWait
  /\ UNCHANGED <<use, looper, queue, mInitResult, state, answers, mDownloadId, mBufferList, call,
                 handler, calls, socket, device>>

\* A call after a successful init; "assumption: only one command at a time".
Enter(c, h) ==
  /\ cpc = "ready" /\ call \notin {"none", "release"} /\ (call = "init" => result)
  /\ <<c, h>> \in Does /\ calls < MaxCalls /\ calls' = calls + 1
  /\ call' = c /\ handler' = h /\ GoTo("lock")
  /\ UNCHANGED <<use, looper, queue, init, state, answers, mDownloadId, mBufferList, socket, device>>

\* What each call does with its handler's mStateLock held.  No other step of
\* the client touches the handler's state.
Locked(c) ==
  /\ cpc = "lock" /\ call = c /\ ~mStateLock[handler]
  /\ UNCHANGED <<use, looper, queue, init, mResult, mBufferList, call, calls, socket, device>>

LockDownload ==
  /\ Locked("download")
  /\ mDownloadId' = mDownloadId + 1
  /\ mParamId' = [mParamId EXCEPT ![handler] = mDownloadId]
  /\ mNotifyOnReply' = [mNotifyOnReply EXCEPT ![handler] = TRUE]
  /\ GoTo("send")
  /\ UNCHANGED <<mActive, mStateLock, mClientWait, handler>>

LockGetDeviceInfo ==
  /\ Locked("info")
  /\ mNotifyOnReply' = [mNotifyOnReply EXCEPT ![handler] = TRUE]
  /\ GoTo("send")
  /\ UNCHANGED <<mActive, mStateLock, mParamId, mClientWait, mDownloadId, handler>>

\* Mutant: a start does not look whether another one is active.
LockStartUnchecked(id) ==
  /\ Locked("start")
  /\ handler = "playback" => id \in mBufferList
  /\ mActive' = [mActive EXCEPT ![handler] = TRUE]
  /\ mParamId' = [mParamId EXCEPT ![handler] = id]
  /\ GoTo("send")
  /\ UNCHANGED <<mStateLock, mNotifyOnReply, mClientWait, mDownloadId, handler>>

\* Mutant: a start does not say that it is active.
LockStartInactive(id) ==
  /\ Locked("start")
  /\ ~mActive[handler] /\ (handler = "playback" => id \in mBufferList)
  /\ mParamId' = [mParamId EXCEPT ![handler] = id]
  /\ GoTo("send")
  /\ UNCHANGED <<mActive, mStateLock, mNotifyOnReply, mClientWait, mDownloadId, handler>>

\* startPlayback and startRecording.  A playback of data that was not
\* downloaded returns without unlock.
LockStart(id) ==
  /\ Locked("start")
  /\ \/ /\ mActive[handler]
        /\ Return(FALSE) /\ UNCHANGED <<mActive, mStateLock, mParamId>>
     \/ /\ ~mActive[handler] /\ handler = "playback" /\ id \notin mBufferList
        /\ mStateLock' = [mStateLock EXCEPT ![handler] = TRUE]
        /\ Return(FALSE) /\ UNCHANGED <<mActive, mParamId>>
     \/ /\ ~mActive[handler] /\ (handler = "playback" => id \in mBufferList)
        /\ mActive' = [mActive EXCEPT ![handler] = TRUE]
        /\ mParamId' = [mParamId EXCEPT ![handler] = id]
        /\ GoTo("send") /\ UNCHANGED mStateLock
  /\ UNCHANGED <<mNotifyOnReply, mClientWait, mDownloadId, handler>>

\* waitForPlaybackOrRecordingCompletion
LockWait ==
  /\ Locked("wait")
  /\ \/ ~mActive[handler] /\ Return(TRUE) /\ UNCHANGED mNotifyOnReply
     \/ /\ mActive[handler]
        /\ mNotifyOnReply' = [mNotifyOnReply EXCEPT ![handler] = TRUE]
        /\ GoTo("await")
  /\ UNCHANGED <<mActive, mStateLock, mParamId, mClientWait, mDownloadId, handler>>

\* doStop: the command has a handler of its own.
LockStop ==
  /\ Locked("stop")
  /\ \/ /\ ~mActive[handler]
        /\ Return(TRUE) /\ UNCHANGED <<mActive, mNotifyOnReply, mClientWait, handler>>
     \/ /\ mActive[handler]
        /\ mActive' = [mActive EXCEPT ![handler] = FALSE]
        /\ mNotifyOnReply' = [mNotifyOnReply EXCEPT ![handler] = FALSE]
        /\ mClientWait' = [mClientWait EXCEPT !["temp"] = 0]
        /\ GoTo("send") /\ UNCHANGED handler
  /\ UNCHANGED <<mStateLock, mParamId, mDownloadId>>

\* release: no handler's state is involved.
Release ==
  /\ cpc = "ready" /\ call \notin {"none", "release"}
  /\ call' = "release" /\ GoTo("send")
  /\ UNCHANGED <<use, looper, queue, init, state, answers, mDownloadId, mBufferList, handler, calls,
                 socket, device>>

\* The message that a call sends, and whose semaphore it waits for.
What ==
  IF call = "stop" THEN IF handler = "playback" THEN "stopPlayback" ELSE "stopRecording"
  ELSE IF call = "release" THEN "exit" ELSE handler
Waiter == IF call \in {"stop", "release"} THEN "temp" ELSE handler

\* Looper::sendMessage, first the queue ...
SendMessage ==
  /\ cpc = "send" /\ ~mLock
  /\ mMsgQueue' = Append(mMsgQueue, [what |-> What, to |-> Waiter])
  /\ GoTo("wake")
  /\ UNCHANGED <<use, looper, woken, init, state, answers, mDownloadId, mBufferList, call,
                 handler, calls, socket, device>>

\* ... then the pipe.
Wake ==
  /\ cpc = "wake" /\ woken' = TRUE
  /\ GoTo(IF call = "release" THEN "join" ELSE "await")
  /\ UNCHANGED <<use, looper, mMsgQueue, init, state, answers, mDownloadId, mBufferList, call,
                 handler, calls, socket, device>>

\* No reply is under way and nothing goes on at the device that ends with one.
DeviceQuiet ==
  ~alive \/ /\ toDevice = <<>> /\ server = "read"
            /\ player \in {"none", "loop"} /\ (player = "loop" => track # "playing")
            /\ unreplied = 0 /\ recorder \in {"none", "loop"}

\* The looper thread has nothing to handle, ...
LooperIdle ==
  /\ ~woken /\ mMsgQueue = <<>> /\ q = <<>> /\ toHost = <<>>
  /\ lpc = "poll" \/ (lpc = "callback" /\ ~alive)
\* ... or will never handle anything.
LooperStuck ==
  \/ lpc = "exited"
  \/ lpc = "drain" /\ pipeBlocks /\ ~woken
  \/ lpc = "notify" /\ mStateLock[packet.cmd]

\* A time-out.  Unless answers are slow it is long enough for every answer, so
\* it passes only when none will come.
TimeOut == slow \/ LooperStuck \/ (LooperIdle /\ DeviceQuiet)

\* A handler that nobody has any more.
Abandon(messages) ==
  [i \in DOMAIN messages |->
     IF messages[i].to = "temp" THEN [messages[i] EXCEPT !.to = "gone"] ELSE messages[i]]

\* Mutant: a wait without time-out.
AwaitUntimed ==
  /\ cpc = "await"
  /\ mClientWait[Waiter] > 0
  /\ mClientWait' = [mClientWait EXCEPT ![Waiter] = @ - 1]
  /\ GoTo("answered")
  /\ UNCHANGED <<mMsgQueue, q, use, lpc, sockEvent, packet, mExitRequested, woken, init, state,
                 mResult, mDownloadId, mBufferList, call, handler, calls, socket, device>>

\* waitForCompletion
Await ==
  /\ cpc = "await"
  /\ \/ /\ mClientWait[Waiter] > 0
        /\ mClientWait' = [mClientWait EXCEPT ![Waiter] = @ - 1]
        /\ GoTo("answered") /\ UNCHANGED <<mMsgQueue, q>>
     \/ /\ mClientWait[Waiter] = 0 /\ TimeOut
        /\ Return(call = "stop")
        /\ IF call = "stop"
             THEN mMsgQueue' = Abandon(mMsgQueue) /\ q' = Abandon(q)
             ELSE UNCHANGED <<mMsgQueue, q>>
        /\ UNCHANGED mClientWait
  /\ UNCHANGED <<use, lpc, sockEvent, packet, mExitRequested, woken, init, state, mResult,
                 mDownloadId, mBufferList, call, handler, calls, socket, device>>

\* downloadData registers the data whatever the result is.
Answered ==
  /\ cpc = "answered"
  /\ Return(call \in {"wait", "stop"} \/ mResult[handler])
  /\ mBufferList' = IF call = "download" THEN mBufferList \cup {mDownloadId - 1} ELSE mBufferList
  /\ UNCHANGED <<use, looper, queue, init, state, answers, mDownloadId, call, handler, calls, socket,
                 device>>

Join ==
  /\ cpc = "join" /\ lpc = "exited" /\ Return(TRUE)
  /\ UNCHANGED <<use, looper, queue, init, state, answers, mDownloadId, mBufferList, call, handler,
                 calls, socket, device>>

-------------------------------------------------------------------------------
(* The looper thread *)

LooperStep(from, to) == lpc = from /\ lpc' = to /\ UNCHANGED <<use, state, client, device>>

\* threadLoop up to wakeClient: the connection is made or not.
Connect ==
  /\ mInitWait' = mInitWait + 1
  /\ \/ alive /\ LooperStep("connect", "poll") /\ mInitResult' = TRUE
     \/ LooperStep("connect", "exited") /\ mInitResult' = FALSE
  /\ UNCHANGED <<sockEvent, q, packet, mExitRequested, queue, answers, socket>>

\* while (!mExitRequested): the next round of threadLoop.  What comes after the
\* messages: the callback of the socket if it had an event, or the next round.
NextRound(exit) == IF exit THEN "exited" ELSE "poll"
After(exit) == IF sockEvent THEN "callback" ELSE NextRound(exit)

\* poll(2): there are messages, replies or the end of the stream.
Poll ==
  /\ woken \/ toHost # <<>> \/ ~alive
  /\ sockEvent' = (toHost # <<>> \/ ~alive)
  /\ LooperStep("poll", IF woken THEN "drain" ELSE "callback")
  /\ UNCHANGED <<q, packet, mExitRequested, queue, init, answers, socket>>

\* while (read(...) > 0): a blocking read of an empty pipe waits for the next
\* message.  Then the messages are taken.
Drain ==
  /\ \/ woken /\ LooperStep("drain", "drain") /\ woken' = FALSE /\ UNCHANGED <<q, mMsgQueue>>
     \/ /\ ~woken /\ ~pipeBlocks /\ UNCHANGED woken
        /\ q' = mMsgQueue /\ mMsgQueue' = <<>>
        /\ LooperStep("drain", IF mMsgQueue = <<>> THEN After(mExitRequested) ELSE "handle")
  /\ UNCHANGED <<sockEvent, packet, mExitRequested, init, answers, socket>>

\* The semaphore of a handler, unless the handler is gone; the result.
Posted(to)    == IF to = "gone" THEN mClientWait ELSE [mClientWait EXCEPT ![to] = @ + 1]
Outcome(to, r) == IF to = "gone" THEN mResult ELSE [mResult EXCEPT ![to] = r]

\* Mutant: the client is woken for every command that is sent.
HandleMessagePosts ==
  /\ q # <<>> /\ Head(q).what # "exit" /\ q' = Tail(q)
  /\ LooperStep("handle", IF q' = <<>> THEN After(mExitRequested) ELSE "handle")
  /\ toDevice' = Append(toDevice, [cmd |-> Head(q).what,
                        id |-> IF Head(q).to \in Handler THEN mParamId[Head(q).to] ELSE 0])
  /\ mResult' = Outcome(Head(q).to, TRUE) /\ mClientWait' = Posted(Head(q).to)
  /\ UNCHANGED <<sockEvent, packet, mExitRequested, queue, init, toHost>>

\* CommandHandler::handleMessage for a command.  Sending to a device that is
\* gone may succeed.
HandleMessage ==
  /\ q # <<>> /\ Head(q).what # "exit" /\ q' = Tail(q)
  /\ LooperStep("handle", IF q' = <<>> THEN After(mExitRequested) ELSE "handle")
  /\ LET message == Head(q)
         id == IF message.to \in Handler THEN mParamId[message.to] ELSE 0 IN
     /\ \/ /\ alive
           /\ toDevice' = Append(toDevice, [cmd |-> message.what, id |-> id])
           /\ mResult' = Outcome(message.to, TRUE)
        \/ /\ ~alive /\ UNCHANGED toDevice
           /\ \E r \in BOOLEAN : mResult' = Outcome(message.to, r)
     /\ mClientWait' = IF message.what \in {"download", "info"} THEN mClientWait
                                                              ELSE Posted(message.to)
  /\ UNCHANGED <<sockEvent, packet, mExitRequested, queue, init, toHost>>

HandleExit ==
  /\ q # <<>> /\ Head(q).what = "exit" /\ q' = Tail(q) /\ mExitRequested' = TRUE
  /\ LooperStep("handle", IF q' = <<>> THEN After(TRUE) ELSE "handle")
  /\ mResult' = Outcome("temp", TRUE) /\ mClientWait' = Posted("temp")
  /\ UNCHANGED <<sockEvent, packet, queue, init, socket>>

\* handlePacket: read a reply; the reply to a stop has no handler.
HandlePacket ==
  /\ \/ /\ toHost = <<>> /\ UNCHANGED <<toHost, packet>>
        /\ LooperStep("callback", NextRound(mExitRequested))
     \/ /\ toHost # <<>> /\ toHost' = Tail(toHost)
        /\ packet' = Head(toHost)
        /\ LooperStep("callback",
             IF packet'.cmd \in Handler THEN "notify" ELSE NextRound(mExitRequested))
  /\ UNCHANGED <<sockEvent, q, mExitRequested, queue, init, answers, toDevice>>

\* handlePacket: notify the client, if it waits.
Notify ==
  LET h == packet.cmd IN
  /\ lpc = "notify" /\ lpc' = NextRound(mExitRequested) /\ ~mStateLock[h]
  /\ mNotifyOnReply' = [mNotifyOnReply EXCEPT ![h] = FALSE]
  /\ IF mNotifyOnReply[h]
       THEN mResult' = Outcome(h, packet.ok) /\ mClientWait' = Posted(h)
       ELSE UNCHANGED answers
  /\ mActive' = [mActive EXCEPT ![h] = FALSE]
  /\ UNCHANGED <<use, sockEvent, q, packet, mExitRequested, queue, init, mStateLock, mParamId, client,
                 socket, device>>

-------------------------------------------------------------------------------
ThreadLoop ==
  Connect \/ Poll \/ Drain \/ HandleMessage \/ HandleExit \/ HandlePacket \/ Notify

InCall ==
  \/ InitAwait \/ LockDownload \/ LockGetDeviceInfo \/ (\E id \in Id : LockStart(id))
  \/ LockWait \/ LockStop \/ SendMessage \/ Wake \/ Await \/ Answered \/ Join

Call ==
  \/ InitCall \/ Enter("download", "download") \/ Enter("info", "info")
  \/ (\E c \in {"start", "wait", "stop"}, h \in Media : Enter(c, h))
  \/ Release

Host == UNCHANGED <<use, lpc, sockEvent, q, packet, mExitRequested, queue, init, state,
                    answers, client>>

Next == Call \/ InCall \/ ThreadLoop \/ (Host /\ (Device \/ Disconnect))

Spec == Init /\ [][Next]_vars

\* The threads of both sides are scheduled, a lock that becomes free again and
\* again is got, the end of a playback or recording comes.
FairSpec ==
  /\ Spec /\ WF_vars(InCall) /\ SF_vars(SendMessage) /\ WF_vars(ThreadLoop)
  /\ WF_vars(Host /\ Server) /\ WF_vars(Host /\ Player) /\ WF_vars(Host /\ Recorder)

-------------------------------------------------------------------------------
(* Properties *)

NeverStopped(h) == <<"stop", h>> \notin Does

\* Nothing of a playback or recording is left on the device but a last reply
\* or the end of its thread.
Over(h) == IF h = "playback" THEN player \in {"none", "reply"}
                             ELSE recorder \in {"none", "finally", "loop"}

\* A startPlayback with an unknown id has kept mStateLock.
Leaked == \E h \in Handler : mStateLock[h]

\* Over a device that is there and answers in time, a wait for the end of a
\* playback or recording does not run into its time-out: the reply cannot slip
\* between the look at mActive and the wait
\* (waitForPlaybackOrRecordingCompletion against handlePacket).  The exception
\* is a lock that was kept: if a stopped playback's late reply comes, the looper
\* thread waits for the lock, and replies behind that one are never read.  When
\* the wait says that the playback or recording is over it is, at least in a
\* session that never stops one of the kind.
WaitSeesEnd ==
  ~slow /\ alive /\ cpc = "ready" /\ call = "wait" =>
    /\ ~pipeBlocks => result \/ \E h \in Media : mStateLock[h] /\ ~NeverStopped(h)
    /\ NeverStopped(handler) /\ result => Over(handler)

\* The device is told to start only when the one before is over: mActive keeps
\* the host from starting two, at least in a session that never stops one of the
\* kind.
OneAtATime ==
  \A h \in Media :
    NeverStopped(h) /\ alive /\ server = "read" /\ toDevice # <<>> /\ Head(toDevice).cmd = h
      => Over(h)

\* A download to a device that is there succeeds, as the DownloadTest of
\* RemoteAudioFakeTcpTest asserts.  It does not over a wake pipe that blocks.
DownloadSucceeds == ~slow /\ alive /\ cpc = "ready" /\ call = "download" => result

\* Data that downloadData registered for playback is on the device, while it is
\* there: a post left behind by one call does not end the wait of a later one.
RegisteredIsThere == ~slow /\ alive => mBufferList \subseteq mDataMap

\* Every call returns, whatever the device does, unless a startPlayback with an
\* unknown id has kept mStateLock, or it is release over a blocked looper.
CallsReturn ==
  (cpc # "ready") ~> (cpc = "ready" \/ Leaked \/ (call = "release" /\ pipeBlocks))

===============================================================================
