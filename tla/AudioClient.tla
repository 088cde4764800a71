------------------------------ MODULE AudioClient ------------------------------
(***************************************************************************)
(* The client of the audio quality suite on the device: a thread that      *)
(* serves the commands of the host (ProtocolServer) and, for each playback *)
(* or recording, a LoopThread that does it and replies when it is over.    *)
(* Apart from mClientLock, under which replies are written, the threads    *)
(* share their fields without locks.                                       *)
(*                                                                         *)
(* An exception that a thread does not catch kills the process: Crash.     *)
(* AudioTrack, AudioRecord and android.os.Looper are external; that stop() *)
(* on a released track throws is theirs.                                   *)
(***************************************************************************)
EXTENDS Naturals, Sequences

CONSTANT Id      \* data ids the host may use

VARIABLES
  toDevice, toHost,   \* the socket, in both directions
  alive,              \* the process is there and has the connection
  server,             \* ProtocolServer: next step
  mDataMap,           \* downloaded data
  mPlayback,          \* mPlayback # null
  track,              \* the AudioTrack made last: "none", "playing", "released"
  mPlaybackThread,    \* mPlaybackThread # null
  player,             \* that thread: next step
  unreplied,          \* older playback threads that have only their reply to send
  mRecord,            \* mRecord # null
  mRecordThread,      \* mRecordThread # null
  recorder,           \* that thread: next step
  unfinished          \* older recording threads that have only to stop mRecord

playback  == <<mPlayback, track, mPlaybackThread, player, unreplied>>
recording == <<mRecord, mRecordThread, recorder, unfinished>>
device    == <<alive, server, mDataMap, playback, recording>>

DeviceInit ==
  /\ toDevice = <<>> /\ toHost = <<>> /\ alive = TRUE
  /\ server = "read" /\ mDataMap = {}
  /\ mPlayback = FALSE /\ track = "none" /\ mPlaybackThread = FALSE /\ player = "none"
  /\ unreplied = 0
  /\ mRecord = FALSE /\ mRecordThread = FALSE /\ recorder = "none" /\ unfinished = 0

Reply(cmd, ok) == toHost' = Append(toHost, [cmd |-> cmd, ok |-> ok])

\* The process dies, or onPause stops the protocol: the connection is closed and
\* the data lost.  What was sent can still be read.  reset() clears the other
\* fields too; nothing reads them after it, and they stay as they were.
Crash ==
  /\ alive' = FALSE /\ mDataMap' = {}
  /\ UNCHANGED <<toHost, server, playback, recording>>

-------------------------------------------------------------------------------
(* ProtocolServer *)

Receive(cmd) ==
  /\ alive /\ server = "read"
  /\ toDevice # <<>> /\ Head(toDevice).cmd = cmd
  /\ toDevice' = Tail(toDevice)

HandleDownload ==
  /\ Receive("download")
  /\ mDataMap' = mDataMap \cup {Head(toDevice).id}
  /\ Reply("download", TRUE)
  /\ UNCHANGED <<alive, server, playback, recording>>

HandleGetDeviceInfo ==
  /\ Receive("info") /\ Reply("info", TRUE)
  /\ UNCHANGED device

Late(step, last) == IF step = last THEN 1 ELSE 0

\* A reply only if the id is unknown: the host always asks for 44100 Hz
\* (TaskOutput::start), so that no rate is wrong.  The thread of an older
\* playback may still be there, its reply not sent.
HandleStartPlayback ==
  /\ Receive("playback")
  /\ IF Head(toDevice).id \in mDataMap
       THEN /\ mPlaybackThread' = TRUE /\ player' = "fresh" /\ UNCHANGED toHost
            /\ unreplied' = unreplied + Late(player, "reply")
       ELSE Reply("playback", FALSE) /\ UNCHANGED <<mPlaybackThread, player, unreplied>>
  /\ UNCHANGED <<alive, server, mDataMap, mPlayback, track, recording>>

\* Never a reply for wrong parameters: the host always asks for 44100 Hz, and
\* for mono of the device (TaskInput::start).  The thread of an older recording
\* may still be in its finally block, or in its loop, which nobody ends.
HandleStartRecording ==
  /\ Receive("recording")
  /\ mRecordThread' = TRUE /\ recorder' = "fresh"
  /\ unfinished' = unfinished + Late(recorder, "finally")
  /\ UNCHANGED <<toHost, alive, server, mDataMap, playback, mRecord>>

\* handleStopPlayback: the track, if there is one, is stopped and released ...
HandleStopPlayback ==
  /\ Receive("stopPlayback")
  /\ \/ /\ ~mPlayback
        /\ server' = "quitPlayer" /\ UNCHANGED <<toHost, alive, mDataMap, playback, recording>>
     \/ /\ mPlayback /\ track # "released"
        /\ mPlayback' = FALSE /\ track' = "released" /\ server' = "quitPlayer"
        /\ UNCHANGED <<toHost, alive, mDataMap, mPlaybackThread, player, unreplied, recording>>
     \/ mPlayback /\ track = "released" /\ Crash

\* ... and its thread, if there is one, told to quit, which fails while it has
\* no looper yet, ...
QuitPlayer ==
  /\ alive /\ server = "quitPlayer" /\ UNCHANGED toDevice
  /\ \/ /\ ~mPlaybackThread
        /\ Reply("stopPlayback", TRUE) /\ server' = "read"
        /\ UNCHANGED <<alive, mDataMap, playback, recording>>
     \/ /\ mPlaybackThread /\ player # "fresh"
        /\ server' = "joinPlayer" /\ UNCHANGED <<toHost, alive, mDataMap, playback, recording>>
     \/ mPlaybackThread /\ player = "fresh" /\ Crash

\* ... and joined.
JoinPlayer ==
  /\ alive /\ server = "joinPlayer" /\ player = "none"
  /\ mPlaybackThread' = FALSE
  /\ Reply("stopPlayback", TRUE) /\ server' = "read"
  /\ UNCHANGED <<toDevice, alive, mDataMap, mPlayback, track, player, unreplied, recording>>

HandleStopRecording ==
  /\ Receive("stopRecording")
  /\ mRecord' = FALSE /\ server' = "quitRecorder"
  /\ UNCHANGED <<toHost, alive, mDataMap, playback, mRecordThread, recorder, unfinished>>

QuitRecorder ==
  /\ alive /\ server = "quitRecorder" /\ UNCHANGED toDevice
  /\ \/ /\ ~mRecordThread
        /\ Reply("stopRecording", TRUE) /\ server' = "read"
        /\ UNCHANGED <<alive, mDataMap, playback, recording>>
     \/ /\ mRecordThread /\ recorder # "fresh"
        /\ server' = "joinRecorder" /\ UNCHANGED <<toHost, alive, mDataMap, playback, recording>>
     \/ mRecordThread /\ recorder = "fresh" /\ Crash

JoinRecorder ==
  /\ alive /\ server = "joinRecorder" /\ recorder = "none"
  /\ mRecordThread' = FALSE
  /\ Reply("stopRecording", TRUE) /\ server' = "read"
  /\ UNCHANGED <<toDevice, alive, mDataMap, playback, mRecord, recorder, unfinished>>

Server ==
  \/ HandleDownload \/ HandleGetDeviceInfo \/ HandleStartPlayback \/ HandleStartRecording
  \/ HandleStopPlayback \/ QuitPlayer \/ JoinPlayer
  \/ HandleStopRecording \/ QuitRecorder \/ JoinRecorder

-------------------------------------------------------------------------------
(* The thread of a playback *)

PlayerStep(from, to) ==
  /\ alive /\ player = from /\ player' = to
  /\ UNCHANGED <<toDevice, alive, server, mDataMap, unreplied, recording>>

\* Looper.prepare
PlayerPrepares ==
  /\ PlayerStep("fresh", "run") /\ UNCHANGED <<toHost, mPlayback, track, mPlaybackThread>>

\* run: an older track is released, a new one made and played.
PlayerRuns ==
  /\ PlayerStep("run", "write")
  /\ mPlayback' = TRUE /\ track' = "playing"
  /\ UNCHANGED <<toHost, mPlaybackThread>>

\* The loop that writes the data ends early after a stop, or finds mPlayback
\* null after its check.
PlayerWrites ==
  \/ PlayerStep("write", "loop") /\ UNCHANGED <<toHost, mPlayback, track, mPlaybackThread>>
  \/ /\ alive /\ player = "write" /\ ~mPlayback
     /\ Crash /\ UNCHANGED toDevice

\* The end of Looper.loop() after quitLoop().
PlayerQuits ==
  /\ server = "joinPlayer"
  /\ PlayerStep("loop", "none") /\ UNCHANGED <<toHost, mPlayback, track, mPlaybackThread>>

\* onMarkerReached is dispatched ...
OnMarkerReached ==
  /\ track = "playing"
  /\ PlayerStep("loop", "marker") /\ UNCHANGED <<toHost, mPlayback, track, mPlaybackThread>>

\* ... stops and releases the track it was called for, mPlayback still
\* referring to it, ...
MarkerReleases ==
  \/ /\ track = "playing" /\ track' = "released"
     /\ PlayerStep("marker", "quit") /\ UNCHANGED <<toHost, mPlayback, mPlaybackThread>>
  \/ /\ alive /\ player = "marker" /\ track = "released"
     /\ Crash /\ UNCHANGED toDevice

\* ... quits the loop and forgets the thread, ...
MarkerQuits ==
  \/ /\ mPlaybackThread /\ mPlaybackThread' = FALSE
     /\ PlayerStep("quit", "reply") /\ UNCHANGED <<toHost, mPlayback, track>>
  \/ /\ alive /\ player = "quit" /\ ~mPlaybackThread
     /\ Crash /\ UNCHANGED toDevice

\* ... and replies.
MarkerReplies ==
  /\ PlayerStep("reply", "none") /\ Reply("playback", TRUE)
  /\ UNCHANGED <<mPlayback, track, mPlaybackThread>>

\* The thread of an older playback replies.
OldPlayerReplies ==
  /\ alive /\ unreplied > 0 /\ unreplied' = unreplied - 1
  /\ Reply("playback", TRUE)
  /\ UNCHANGED <<toDevice, alive, server, mDataMap, mPlayback, track, mPlaybackThread, player,
                 recording>>

Player ==
  \/ PlayerPrepares \/ PlayerRuns \/ PlayerWrites \/ PlayerQuits
  \/ OnMarkerReached \/ MarkerReleases \/ MarkerQuits \/ MarkerReplies \/ OldPlayerReplies

-------------------------------------------------------------------------------
(* The thread of a recording *)

RecorderStep(from, to) ==
  /\ alive /\ recorder = from /\ recorder' = to
  /\ UNCHANGED <<toDevice, alive, server, mDataMap, playback, unfinished>>

RecorderPrepares ==
  /\ RecorderStep("fresh", "run") /\ UNCHANGED <<toHost, mRecord, mRecordThread>>

RecorderRuns ==
  /\ RecorderStep("run", "reading") /\ mRecord' = TRUE
  /\ UNCHANGED <<toHost, mRecordThread>>

\* All data is read, or a read failed, perhaps because of a stop: reply.
RecorderReplies(ok) ==
  /\ RecorderStep("reading", "finally") /\ Reply("recording", ok)
  /\ UNCHANGED <<mRecord, mRecordThread>>

\* The finally block stops mRecord, as the next read uses it, unchecked.
RecorderEnds ==
  \/ /\ mRecord /\ mRecord' = FALSE
     /\ RecorderStep("finally", "loop") /\ UNCHANGED <<toHost, mRecordThread>>
  \/ /\ alive /\ recorder \in {"reading", "finally"} /\ ~mRecord
     /\ Crash /\ UNCHANGED toDevice

RecorderQuits ==
  /\ server = "joinRecorder"
  /\ RecorderStep("loop", "none") /\ UNCHANGED <<toHost, mRecord, mRecordThread>>

\* The finally block of an older recording takes the new mRecord for its own.
OldRecorderEnds ==
  /\ alive /\ unfinished > 0 /\ UNCHANGED toDevice
  /\ \/ /\ mRecord /\ mRecord' = FALSE /\ unfinished' = unfinished - 1
        /\ UNCHANGED <<toHost, alive, server, mDataMap, playback, mRecordThread, recorder>>
     \/ ~mRecord /\ Crash

Recorder ==
  \/ OldRecorderEnds
  \/ RecorderPrepares \/ RecorderRuns \/ (\E ok \in BOOLEAN : RecorderReplies(ok))
  \/ RecorderEnds \/ RecorderQuits

\* onPause, or the connection breaks.
Disconnect == alive /\ Crash /\ UNCHANGED toDevice

Device == Server \/ Player \/ Recorder

===============================================================================
