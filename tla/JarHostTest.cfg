CONSTANTS
  t1 = t1
  t2 = t2
  t3 = t3
  t4 = t4
  Test <- Tests
  NoTest = NoTest
  Loadable = {t1, t2, t4}
  Plain = {t2}
  PerfTests = {t4}
SPECIFICATION Spec
CHECK_DEADLOCK FALSE
INVARIANTS TypeOK PassEarned RunAccounts
PROPERTIES FailureStays LateIsDropped
