\* Slow, failing and working hardware; objects used once and again, and dropped.
CONSTANTS
  Uses <- AllUses
  CommandWait = 5
  MaxToken = 1
SPECIFICATION FairSpec
INVARIANTS TypeOK CompletionEarned AnswersMatch StoppedIsQuiet
CHECK_DEADLOCK FALSE
PROPERTIES CallsReturn PlaybackCompletes
