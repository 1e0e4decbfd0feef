CONSTANTS
  Tokens = {t1, t2, t3}
  Users = {u1}
  Requests = {r1, r2}
  NoToken = NoToken
  NoUser = NoUser
SPECIFICATION FairSpec
INVARIANTS LinksAreSound RevocationStaysInSession
PROPERTY ReuseIsAnswered
CHECK_DEADLOCK FALSE
