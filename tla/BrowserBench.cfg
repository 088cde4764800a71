\* Two rounds of Octane, one of RoboHornet with a click of the user.
CONSTANTS
  None = None
  Suites <- MCSuites
  Benchmarks <- MCBenchmarks
  RoboBenchmarks <- MCRoboBenchmarks
  MaxClicks = 1
  Worker = {w1, w2}
  OctaneRepeat = 2
  PostTimeout = 2
  RoundTimeout = 3
SPECIFICATION FairSpec
CHECK_DEADLOCK FALSE
INVARIANTS RoundsEarned WatchDogPatient CleanSummary OneVerdictEach MeasuredOnItsOwn
PROPERTY TestPasses
