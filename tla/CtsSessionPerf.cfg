\* A test that delivers a performance result and fails.
CONSTANTS
  p1 = p1
  p2 = p2
  a = a
  b = b
  None = None
  Package <- MCPackage
  Test <- MCTest
  PackageTests <- MCPackageTests
  KnownFailures <- NoKnownFailures
  Plans <- MCPlans
  PlanOrder <- MCPlanOrder
  NameOrder <- MCNameOrder
  IncludeKnownFailures = FALSE
  Resume = TRUE
  PerfTests = {b}
SPECIFICATION Spec
INVARIANT FailureStands
