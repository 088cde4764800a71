\* Hardware that works: prepare, play, stop, again.
CONSTANTS
  Uses <- WorkingAgain
  CommandWait = 5
  MaxToken = 1
SPECIFICATION Spec
INVARIANT PrepareAgain
