CONSTANTS
  Users = {u1}
  Invitations = {i1,i2}
  Resets = {x1}
  Requests = {r1,r2}
  NoUser = NoUser
  LockThreshold = 2
  MaxFailures = 3
SYMMETRY Symmetry
SPECIFICATION Spec
INVARIANTS NoMissIsLost SpendingIsBounded
PROPERTY UnlockedByInvitation
CHECK_DEADLOCK FALSE
