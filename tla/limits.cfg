SPECIFICATION Spec
CONSTANTS
  Paths = {"login", "guarded", "tenant"}
  Requests = {r1, r2}
  Limits <- MCLimits
  Window = 1
  LockTime = 2
  MaxTime = 3
SYMMETRY Symmetry
INVARIANTS AdmittedAreSpread RetryAfterIsEnough
PROPERTY LockoutHolds
