----------------------------- MODULE MCAudioLocal -----------------------------
(* Clients of AudioLocal: what each calls after a call and its result.      *)
EXTENDS AudioLocal

\* TaskOutput and TaskInput as long as prepare and start succeed, or a client
\* that stops the object when they do not.
OneCycle ==
  { <<"none", TRUE, "prepare">>, <<"none", TRUE, "start">>,
    <<"prepare", TRUE, "start">>, <<"prepare", TRUE, "stop">>, <<"prepare", FALSE, "stop">>,
    <<"start", TRUE, "wait">>, <<"start", TRUE, "stop">>, <<"start", FALSE, "stop">>,
    <<"wait", TRUE, "stop">>, <<"wait", FALSE, "stop">>,
    <<"stop", TRUE, "destroy">> }

\* The tests of AudioPlayTestCommon prepare twice, and use an object again.
Again == OneCycle \cup { <<"prepare", TRUE, "prepare">>, <<"stop", TRUE, "prepare">> }

\* TaskOutput.start: an object whose prepare or start failed is dropped.
Dropped == { u \in OneCycle : u[1] \notin {"prepare", "start"} \/ u[2] }
             \cup { <<"prepare", FALSE, "destroy">>, <<"start", FALSE, "destroy">> }

On(buffer, repetition, playback, usage, slow, faulty) ==
  [BufferSize |-> buffer, Go |-> 2, Repetition |-> repetition, Playback |-> playback,
   Usage |-> usage, SlowHardware |-> slow, FaultyHardware |-> faulty]

\* Slow and failing hardware with an object used again or recording once, hardware
\* that works, and objects that are dropped when a call fails; buffers of two and
\* a half goes and of two.  With a CommandWait of 5 a buffer of two goes that is played
\* twice is over in time, and one that is played three times is not.
AllUses ==
  { On(5, {1, 2}, TRUE, Again, TRUE, TRUE),
    On(5, {1, 2}, FALSE, OneCycle, TRUE, TRUE),
    On(4, {1, 2, 3}, TRUE, OneCycle, FALSE, FALSE),
    On(4, {1}, TRUE, Dropped, FALSE, TRUE) }

WorkingAgain == { On(4, {2}, TRUE, Again, FALSE, FALSE) }
===============================================================================
