\* A batch of two cases.
CONSTANTS
  Tree <- MCTree
  Root = "batch"
  Name = {"i", "j"}
  NoName = NoName
  None = None
SPECIFICATION FairSpec
CHECK_DEADLOCK FALSE
INVARIANTS TypeOK PassedCasePassed IndexOfLoop HardwareReleased
PROPERTIES FailureStopsEverything BatchReportsAll
