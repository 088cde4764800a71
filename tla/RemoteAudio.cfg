CONSTANTS
  Id = {0, 1}
  Uses <- AllUses
SPECIFICATION FairSpec
CHECK_DEADLOCK FALSE
INVARIANTS WaitSeesEnd RegisteredIsThere OneAtATime
PROPERTY CallsReturn
