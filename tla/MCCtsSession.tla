----------------------------- MODULE MCCtsSession -----------------------------
(* Two packages that list a test of the same name, one known failure.       *)
EXTENDS CtsSession, TLC

CONSTANTS p1, p2, a, b

MCPackage == {p1, p2}
MCTest == {a, b}
MCPackageTests == (p1 :> {a, b}) @@ (p2 :> {a})
NoKnownFailures == [p \in MCPackage |-> {}]
MCKnownFailures == (p1 :> {b}) @@ (p2 :> {})
\* The whole plan, a plan that excludes a test, a single package.
MCPlans == { (p1 :> {}) @@ (p2 :> {}), (p1 :> {b}) @@ (p2 :> {}), (p1 :> {}) }
MCPlanOrder == (p1 :> 2) @@ (p2 :> 1)
MCNameOrder == (p1 :> 1) @@ (p2 :> 2)
===============================================================================
