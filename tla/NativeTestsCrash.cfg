\* A binary that dies in a test.
CONSTANTS
  None = None
  Unknown = Unknown
  Test = {"a", "b", "c"}
  Known = {"a", "b"}
SPECIFICATION Spec
CHECK_DEADLOCK FALSE
INVARIANT CrashIsFailure
