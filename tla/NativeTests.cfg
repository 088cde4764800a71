\* A native binary run from a shell or in an instrumentation.
CONSTANTS
  None = None
  Unknown = Unknown
  Test = {"a", "b", "c"}
  Known = {"a", "b"}
SPECIFICATION Spec
CHECK_DEADLOCK FALSE
INVARIANTS TypeOK PassEarned AllOrFailed Faithful
PROPERTY KeepsContract
