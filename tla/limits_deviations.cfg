SPECIFICATION Spec
CONSTANTS
  Paths = {"login", "tenant"}
  Requests = {r1, r2, r3}
  Limits <- MCLimits
  Window = 2
  LockTime = 3
  MaxTime = 7
SYMMETRY Symmetry

\* Statements that the code does not keep: check one at a time.
PROPERTY TenantLimitHolds
\* PROPERTY LockoutIsNotExtended
\* INVARIANT RefusedIsNotServed
