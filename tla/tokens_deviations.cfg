CONSTANTS
  Tokens = {t1, t2, t3}
  Users = {u1}
  Requests = {r1,r2}
  NoToken = NoToken
  NoUser = NoUser
SPECIFICATION Spec
CHECK_DEADLOCK FALSE

\* Statements that the code does not keep: check one at a time.
PROPERTY ReuseEndsFamily
\* PROPERTY RevokeUserEndsAll
\* INVARIANT RotationIsLinked
\* INVARIANT LockedHasNoLiveToken
