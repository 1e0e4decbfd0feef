CONSTANTS
  Users = {u1}
  Invitations = {i1,i2}
  Resets = {x1}
  Requests = {r1,r2}
  NoUser = NoUser
  LockThreshold = 2
  MaxFailures = 3
SPECIFICATION Spec
CHECK_DEADLOCK FALSE

\* Statements that the code does not keep: check one at a time.
INVARIANT OneOpenInvitation
\* INVARIANT TokenSpentOnce
\* INVARIANT ResetIsAudited
\* PROPERTY ResetMailedToActive
\* PROPERTY NoLoginWhenLocked
\* INVARIANT PendingIsInvited
\* INVARIANT InvitationIsMailed
