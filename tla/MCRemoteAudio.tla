----------------------------- MODULE MCRemoteAudio -----------------------------
EXTENDS RemoteAudio

Use(blocks, late, does, n) ==
  [pipeBlocks |-> blocks, slow |-> late, does |-> does, maxCalls |-> n]

Download == <<"download", "download">>
Playing == {<<"start", "playback">>, <<"wait", "playback">>}
Recording == {<<"start", "recording">>, <<"wait", "recording">>}
Stops == {<<"stop", "playback">>, <<"stop", "recording">>}
All == {Download, <<"info", "info">>} \cup Playing \cup Recording \cup Stops

AllUses ==
  {Use(FALSE, FALSE, {Download, <<"stop", "playback">>} \cup Playing, 4),
   Use(FALSE, FALSE, {Download} \cup Playing \cup Recording, 3),
   Use(FALSE, FALSE, {Download} \cup Playing, 5),
   Use(FALSE, FALSE, Recording, 4),
   Use(FALSE, FALSE, {<<"stop", "recording">>} \cup Recording, 3),
   Use(FALSE, FALSE, All, 2),
   Use(FALSE, TRUE, All, 2),
   Use(TRUE, FALSE, All, 2)}

OverLooperShim == {Use(TRUE, FALSE, {Download}, 1)}
===============================================================================
