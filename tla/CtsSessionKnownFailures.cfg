\* --run-known-failures with a package that lists a known failure.
CONSTANTS
  p1 = p1
  p2 = p2
  a = a
  b = b
  None = None
  Package <- MCPackage
  Test <- MCTest
  PackageTests <- MCPackageTests
  KnownFailures <- MCKnownFailures
  Plans <- MCPlans
  PlanOrder <- MCPlanOrder
  NameOrder <- MCNameOrder
  IncludeKnownFailures = TRUE
  Resume = TRUE
  PerfTests = {}
SPECIFICATION Spec
INVARIANT ContinueKeepsVerdicts
