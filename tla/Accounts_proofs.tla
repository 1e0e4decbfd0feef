--------------------------- MODULE Accounts_proofs ---------------------------
(***************************************************************************)
(* Proofs about module Accounts, for any users, tokens and requests.  They *)
(* rest on the version of the user row: what a request has read of a row   *)
(* is the row as it is, as long as nobody wrote it since.                  *)
(***************************************************************************)
EXTENDS Accounts, FiniteSetTheorems, TLAPS

(* What a request at work is doing, told by its phase.                     *)
LEMMA WorkShape ==
  ASSUME TypeOK, NEW r \in Requests
  PROVE  /\ request[r].phase = "login" =>
              request[r] \in [phase: {"login"}, user: Users, seen: Seen]
         /\ request[r].phase = "token" => request[r].token \in Tokens
         /\ request[r].phase = "spend" =>
              request[r] \in [phase: {"spend"}, token: Tokens, user: Users, seen: Seen]
         /\ request[r].phase \in {"forgot", "resend", "reissue"} => request[r].user \in Users
         /\ request[r].phase = "reissue" => request[r].open \in SUBSET Invitations
         /\ request[r].phase \in {"mail", "audit"} => request[r].token \in Tokens
<1>1. request[r] \in {Idle} \cup Working
  BY DEF TypeOK
<1> QED
  BY <1>1 DEF Working, Idle

LEMMA BecomeType ==
  ASSUME TypeOK, NEW r \in Requests, NEW work \in {Idle} \cup Working, Become(r, work)
  PROVE  request' \in [Requests -> {Idle} \cup Working]
  BY DEF TypeOK, Become

(* A write of a user row leaves the other requests what they were doing,   *)
(* and takes from those that had read the row its being current.           *)
LEMMA WritingType ==
  ASSUME TypeOK, NEW r \in Requests, NEW u \in Users,
         NEW work \in {Idle} \cup Working, BecomeWriting(r, u, work)
  PROVE  request' \in [Requests -> {Idle} \cup Working]
<1>1. ASSUME NEW q \in Requests, HasRead(q, u)
      PROVE  [request[q] EXCEPT !.seen.current = FALSE] \in {Idle} \cup Working
  <2>1. CASE request[q].phase = "login"
    <3>1. request[q] \in [phase: {"login"}, user: Users, seen: Seen]
      BY <2>1, WorkShape
    <3>2. [request[q] EXCEPT !.seen.current = FALSE]
            \in [phase: {"login"}, user: Users, seen: Seen]
      BY <3>1 DEF Seen
    <3> QED
      BY <3>2 DEF Working
  <2>2. CASE request[q].phase = "spend"
    <3>1. request[q] \in [phase: {"spend"}, token: Tokens, user: Users, seen: Seen]
      BY <2>2, WorkShape
    <3>2. [request[q] EXCEPT !.seen.current = FALSE]
            \in [phase: {"spend"}, token: Tokens, user: Users, seen: Seen]
      BY <3>1 DEF Seen
    <3> QED
      BY <3>2 DEF Working
  <2> QED
    BY <1>1, <2>1, <2>2 DEF HasRead
<1> QED
  BY <1>1 DEF BecomeWriting, TypeOK

LEMMA WritingOthers ==
  ASSUME TypeOK, NEW r \in Requests, NEW u \in Users, NEW work, BecomeWriting(r, u, work),
         NEW q \in Requests, q # r
  PROVE  /\ request'[q].phase = request[q].phase
         /\ request[q].phase \in {"token", "audit"} => request'[q] = request[q]
         /\ request[q].phase = "spend" => request'[q].token = request[q].token
         /\ request[q].phase \in {"login", "spend"} =>
              /\ request'[q].user = request[q].user
              /\ request'[q].seen.current =>
                   request[q].user # u /\ request'[q] = request[q]
<1>1. CASE HasRead(q, u)
  <2>1. request'[q] = [request[q] EXCEPT !.seen.current = FALSE]
    BY <1>1 DEF BecomeWriting
  <2>2. CASE request[q].phase = "login"
    <3>1. request[q] \in [phase: {"login"}, user: Users, seen: Seen]
      BY <2>2, WorkShape
    <3> QED
      BY <2>1, <2>2, <3>1 DEF Seen
  <2>3. CASE request[q].phase = "spend"
    <3>1. request[q] \in [phase: {"spend"}, token: Tokens, user: Users, seen: Seen]
      BY <2>3, WorkShape
    <3> QED
      BY <2>1, <2>3, <3>1 DEF Seen
  <2> QED
    BY <1>1, <2>2, <2>3 DEF HasRead
<1>2. CASE ~ HasRead(q, u)
  <2>1. request'[q] = request[q]
    BY <1>2 DEF BecomeWriting
  <2> QED
    BY <1>2, <2>1 DEF HasRead
<1> QED
  BY <1>1, <1>2

LEMMA WritingOwn ==
  ASSUME NEW r \in Requests, NEW u, NEW work, BecomeWriting(r, u, work)
  PROVE  request'[r] = work
  BY DEF BecomeWriting

-----------------------------------------------------------------------------
(* The token a request has found usable was inserted, and the user it is   *)
(* about to give a password is the token's.                                *)
HeldInv ==
  \A r \in Requests :
    /\ request[r].phase = "token" => owner[request[r].token] \in Users
    /\ request[r].phase = "spend" => owner[request[r].token] = request[r].user

IInv == TypeOK /\ HeldInv

LEMMA TypeInit == Init => IInv
  BY AccountsAssumption DEF Init, IInv, TypeOK, HeldInv, UserStatus, Idle
(* A row that was just read is a row.                                      *)
LEMMA RowType == ASSUME TypeOK, NEW u \in Users PROVE Row(u) \in Seen
  BY DEF TypeOK, Row, Seen

(* The user tables keep their types, and no token changes its owner.       *)
LEMMA TypeStep == IInv /\ [Next]_vars => IInv'
<1> SUFFICES ASSUME IInv, [Next]_vars PROVE IInv'
  OBVIOUS
<1> USE DEF IInv
<1>1. ASSUME NEW u \in Users, Create(u) PROVE IInv'
  BY <1>1 DEF Create, TypeOK, HeldInv, UserStatus, history
<1>2. ASSUME NEW t \in Tokens, Expire(t) PROVE IInv'
  BY <1>2 DEF Expire, TypeOK, HeldInv, rows, history
<1>3. ASSUME NEW r \in Requests, NEW u \in Users, Update(r, u) PROVE IInv'
  <2>1. BecomeWriting(r, u, Idle)
    BY <1>3 DEF Update
  <2>2. TypeOK'
    BY <1>3, <2>1, WritingType DEF Update, TypeOK, rows, history
  <2>3. HeldInv'
    BY <1>3, <2>1, WritingOthers, WritingOwn DEF Update, HeldInv, rows, Idle
  <2> QED
    BY <2>2, <2>3
<1>4. ASSUME NEW r \in Requests, NEW u \in Users, Login(r, u) PROVE IInv'
  <2>1. [phase |-> "login", user |-> u, seen |-> Row(u)] \in Working
    BY RowType DEF Working
  <2>2. request' \in [Requests -> {Idle} \cup Working]
    BY <1>4, <2>1, BecomeType DEF Login
  <2> QED
    BY <1>4, <2>2 DEF Login, Become, TypeOK, HeldInv, rows, history
<1>5. ASSUME NEW r \in Requests, Succeed(r) PROVE IInv'
  <2> DEFINE u == request[r].user
  <2>1. u \in Users
    BY <1>5, WorkShape DEF Succeed
  <2>2. CASE request[r].seen.failures = 0
    <3>1. request' \in [Requests -> {Idle} \cup Working]
      BY <1>5, <2>2, BecomeType DEF Succeed
    <3> QED
      BY <1>5, <2>2, <3>1 DEF Succeed, Become, TypeOK, HeldInv, Idle
  <2>3. CASE request[r].seen.failures # 0
    <3>1. BecomeWriting(r, u, Idle)
      BY <1>5, <2>3 DEF Succeed
    <3>2. TypeOK'
      BY <1>5, <2>1, <2>3, <3>1, WritingType DEF Succeed, TypeOK
    <3>3. HeldInv'
      BY <1>5, <2>1, <3>1, WritingOthers, WritingOwn DEF Succeed, HeldInv, Idle
    <3> QED
      BY <3>2, <3>3
  <2> QED
    BY <2>2, <2>3
<1>6. ASSUME NEW r \in Requests, Miss(r) PROVE IInv'
  <2> DEFINE u == request[r].user
  <2>1. u \in Users /\ request[r].seen.failures \in Nat
    BY <1>6, WorkShape DEF Miss, Seen
  <2>2. BecomeWriting(r, u, Idle)
    BY <1>6 DEF Miss
  <2>3. TypeOK'
    BY <1>6, <2>1, <2>2, WritingType DEF Miss, TypeOK, UserStatus
  <2>4. HeldInv'
    BY <1>6, <2>1, <2>2, WritingOthers, WritingOwn DEF Miss, HeldInv, Idle
  <2> QED
    BY <2>3, <2>4
<1>7. ASSUME NEW r \in Requests, NEW t \in Tokens, ReadToken(r, t) PROVE IInv'
  <2>1. [phase |-> "token", token |-> t] \in Working
    BY DEF Working
  <2>2. request' \in [Requests -> {Idle} \cup Working]
    BY <1>7, <2>1, BecomeType DEF ReadToken
  <2>3. owner[t] \in Users
    BY <1>7 DEF ReadToken, Usable, TypeOK
  <2> QED
    BY <1>7, <2>2, <2>3 DEF ReadToken, Become, TypeOK, HeldInv, rows, history
<1>8. ASSUME NEW r \in Requests, ReadUser(r) PROVE IInv'
  <2> DEFINE t == request[r].token
  <2>1. t \in Tokens /\ owner[t] \in Users
    BY <1>8, WorkShape DEF ReadUser, HeldInv
  <2>2. [phase |-> "spend", token |-> t, user |-> owner[t], seen |-> Row(owner[t])]
          \in Working
    BY <2>1, RowType DEF Working
  <2>3. request' \in [Requests -> {Idle} \cup Working]
    BY <1>8, <2>2, BecomeType DEF ReadUser
  <2> QED
    BY <1>8, <2>3 DEF ReadUser, Become, TypeOK, HeldInv, rows, history
<1>9. ASSUME NEW r \in Requests, Spend(r) PROVE IInv'
  <2> DEFINE t == request[r].token
             u == request[r].user
             work == IF t \in Invitations THEN Idle ELSE [phase |-> "audit", token |-> t]
  <2>1. t \in Tokens /\ u \in Users
    BY <1>9, WorkShape DEF Spend
  <2>2. work \in {Idle} \cup Working
    BY <2>1 DEF Working
  <2>3. BecomeWriting(r, u, work)
    BY <1>9 DEF Spend
  <2>4. TypeOK'
    <3>1. request' \in [Requests -> {Idle} \cup Working]
      BY <2>1, <2>2, <2>3, WritingType
    <3>2. /\ status' \in [Users -> UserStatus]
          /\ audited' \in [Tokens -> Nat]
      BY <1>9, <2>1 DEF Spend, TypeOK, UserStatus
    <3> QED
      BY <1>9, <2>1, <3>1, <3>2 DEF Spend, TypeOK
  <2>5. HeldInv'
    <3>1. request'[r].phase \in {"idle", "audit"}
      BY <2>3, WritingOwn DEF Idle
    <3> QED
      BY <1>9, <2>1, <2>3, <3>1, WritingOthers DEF Spend, HeldInv
  <2> QED
    BY <2>4, <2>5
<1>10. ASSUME NEW r \in Requests, Audit(r) PROVE IInv'
  <2>1. request' \in [Requests -> {Idle} \cup Working]
    BY <1>10, BecomeType DEF Audit
  <2>2. request[r].token \in Tokens
    BY <1>10, WorkShape DEF Audit
  <2> QED
    BY <1>10, <2>1, <2>2 DEF Audit, Become, TypeOK, HeldInv, rows, Idle
<1>11. ASSUME NEW r \in Requests, NEW u \in Users, Forgot(r, u) \/ Resend(r, u)
       PROVE  IInv'
  <2>1. /\ [phase |-> "forgot", user |-> u] \in Working
        /\ [phase |-> "resend", user |-> u] \in Working
    BY DEF Working
  <2>2. request' \in [Requests -> {Idle} \cup Working]
    BY <1>11, <2>1, BecomeType DEF Forgot, Resend
  <2> QED
    BY <1>11, <2>2 DEF Forgot, Resend, Become, TypeOK, HeldInv, rows, history
<1>12. ASSUME NEW r \in Requests, NEW t \in Resets, SendReset(r, t) PROVE IInv'
  <2>1. request[r].user \in Users /\ t \in Tokens
    BY <1>12, WorkShape DEF SendReset, Tokens
  <2>2. request' \in [Requests -> {Idle} \cup Working]
    BY <1>12, BecomeType DEF SendReset
  <2>3. HeldInv'
    BY <1>12, <2>1, AccountsAssumption, WorkShape
    DEF SendReset, Become, TypeOK, HeldInv, Idle
  <2> QED
    BY <1>12, <2>1, <2>2, <2>3 DEF SendReset, TypeOK
<1>13. ASSUME NEW r \in Requests, SelectOpen(r) PROVE IInv'
  <2> DEFINE u == request[r].user
  <2>1. [phase |-> "reissue", user |-> u, open |-> Open(u)] \in Working
    BY <1>13, WorkShape DEF SelectOpen, Working, Open
  <2>2. request' \in [Requests -> {Idle} \cup Working]
    BY <1>13, <2>1, BecomeType DEF SelectOpen
  <2> QED
    BY <1>13, <2>2 DEF SelectOpen, Become, TypeOK, HeldInv, rows, history
<1>14. ASSUME NEW r \in Requests, NEW t \in Invitations, Reissue(r, t) PROVE IInv'
  <2>1. request[r].user \in Users /\ request[r].open \in SUBSET Tokens /\ t \in Tokens
    BY <1>14, WorkShape DEF Reissue, Tokens
  <2>2. [phase |-> "mail", token |-> t] \in Working
    BY <2>1 DEF Working
  <2>3. request' \in [Requests -> {Idle} \cup Working]
    BY <1>14, <2>2, BecomeType DEF Reissue
  <2>4. HeldInv'
    BY <1>14, <2>1, AccountsAssumption, WorkShape
    DEF Reissue, Become, TypeOK, HeldInv
  <2> QED
    BY <1>14, <2>1, <2>3, <2>4 DEF Reissue, TypeOK, history
<1>15. ASSUME NEW r \in Requests, Mail(r) \/ Fail(r) PROVE IInv'
  <2>1. request' \in [Requests -> {Idle} \cup Working]
    BY <1>15, BecomeType DEF Mail, Fail
  <2>2. Mail(r) => request[r].token \in Tokens
    BY WorkShape DEF Mail
  <2> QED
    BY <1>15, <2>1, <2>2 DEF Mail, Fail, Become, TypeOK, HeldInv, rows, history, Idle
<1>16. CASE UNCHANGED vars
  BY <1>16 DEF TypeOK, HeldInv, vars, rows, history
<1> QED
  BY <1>1, <1>2, <1>3, <1>4, <1>5, <1>6, <1>7, <1>8, <1>9, <1>10, <1>11, <1>12,
     <1>13, <1>14, <1>15, <1>16 DEF Next, Serve, Tokens

LEMMA TypeInvariant == Spec => []IInv
  BY TypeInit, TypeStep, PTL DEF Spec

(* The variables of the account component keep their types.                *)
THEOREM TypeCorrect == Spec => []TypeOK
<1>1. IInv => TypeOK
  BY DEF IInv
<1> QED
  BY TypeInvariant, <1>1, PTL
-----------------------------------------------------------------------------
(* Only users that were created are worked for and own tokens.             *)
Bound == {"login", "spend", "forgot", "resend", "reissue"}

ExistInv ==
  /\ \A r \in Requests : request[r].phase \in Bound => status[request[r].user] # "NONE"
  /\ \A t \in Tokens : owner[t] \in Users => status[owner[t]] # "NONE"

LEMMA ExistInit == Init => ExistInv
  BY AccountsAssumption DEF Init, ExistInv, Bound, Idle

(* A request turns to other work, for no user or for one that exists.      *)
LEMMA ExistBecome ==
  ASSUME TypeOK, ExistInv, NEW r \in Requests, NEW work, Become(r, work),
         work.phase \in Bound => status[work.user] # "NONE", UNCHANGED <<status, owner>>
  PROVE  ExistInv'
  BY DEF ExistInv, Become, TypeOK

(* A row is written, and no row goes away.                                 *)
LEMMA ExistWriting ==
  ASSUME TypeOK, ExistInv, NEW r \in Requests, NEW u \in Users, NEW work,
         BecomeWriting(r, u, work), work.phase \notin Bound, owner' = owner,
         \A v \in Users : status[v] # "NONE" => status'[v] # "NONE"
  PROVE  ExistInv'
<1>1. ASSUME NEW q \in Requests, request'[q].phase \in Bound
      PROVE  status'[request'[q].user] # "NONE"
  <2>1. q # r
    BY <1>1, WritingOwn
  <2>2. request[q].phase \in Bound /\ request'[q].user = request[q].user
    <3>1. CASE request[q].phase \in {"login", "spend"}
      BY <2>1, <3>1, WritingOthers DEF Bound
    <3>2. CASE request[q].phase \notin {"login", "spend"}
      BY <1>1, <2>1, <3>2 DEF BecomeWriting, HasRead
    <3> QED
      BY <3>1, <3>2
  <2>3. request[q].user \in Users
    BY <2>2, WorkShape DEF Bound
  <2> QED
    BY <2>2, <2>3 DEF ExistInv
<1>2. \A t \in Tokens : owner[t] \in Users => status'[owner[t]] # "NONE"
  BY DEF ExistInv
<1> QED
  BY <1>1, <1>2 DEF ExistInv

LEMMA ExistStep == IInv /\ ExistInv /\ [Next]_vars => ExistInv'
<1> SUFFICES ASSUME TypeOK, HeldInv, ExistInv, [Next]_vars PROVE ExistInv'
  BY DEF IInv
<1>1. ASSUME NEW u \in Users, Create(u) PROVE ExistInv'
  BY <1>1 DEF Create, ExistInv, TypeOK
<1>2. ASSUME NEW t \in Tokens, Expire(t) PROVE ExistInv'
  BY <1>2 DEF Expire, ExistInv, rows
<1>3. ASSUME NEW r \in Requests, NEW u \in Users, Update(r, u) PROVE ExistInv'
  BY <1>3, ExistWriting DEF Update, rows, Idle, Bound
<1>4. ASSUME NEW r \in Requests, NEW u \in Users,
             Login(r, u) \/ Forgot(r, u) \/ Resend(r, u)
      PROVE  ExistInv'
  BY <1>4, ExistBecome DEF Login, Forgot, Resend, rows
<1>5. ASSUME NEW r \in Requests, Succeed(r) PROVE ExistInv'
  <2>1. request[r].user \in Users /\ Idle.phase \notin Bound
    BY <1>5, WorkShape DEF Succeed, Idle, Bound
  <2> QED
    BY <1>5, <2>1, ExistBecome, ExistWriting DEF Succeed
<1>6. ASSUME NEW r \in Requests, Miss(r) PROVE ExistInv'
  <2>1. request[r].user \in Users /\ Idle.phase \notin Bound
    BY <1>6, WorkShape DEF Miss, Idle, Bound
  <2>2. \A v \in Users : status[v] # "NONE" => status'[v] # "NONE"
    BY <1>6 DEF Miss, TypeOK
  <2> QED
    BY <1>6, <2>1, <2>2, ExistWriting DEF Miss
<1>7. ASSUME NEW r \in Requests, NEW t \in Tokens, ReadToken(r, t) PROVE ExistInv'
  BY <1>7, ExistBecome DEF ReadToken, rows, Bound
<1>8. ASSUME NEW r \in Requests, ReadUser(r) PROVE ExistInv'
  <2>1. request[r].token \in Tokens /\ status[owner[request[r].token]] # "NONE"
    BY <1>8, WorkShape DEF ReadUser, HeldInv, ExistInv
  <2> QED
    BY <1>8, <2>1, ExistBecome DEF ReadUser, rows
<1>9. ASSUME NEW r \in Requests, Spend(r) PROVE ExistInv'
  <2> DEFINE t == request[r].token
             work == IF t \in Invitations THEN Idle ELSE [phase |-> "audit", token |-> t]
  <2>1. request[r].user \in Users /\ work.phase \notin Bound
    BY <1>9, WorkShape DEF Spend, Idle, Bound
  <2>2. \A v \in Users : status[v] # "NONE" => status'[v] # "NONE"
    BY <1>9 DEF Spend, TypeOK
  <2>3. BecomeWriting(r, request[r].user, work) /\ owner' = owner
    BY <1>9 DEF Spend
  <2> QED
    BY <2>1, <2>2, <2>3, ExistWriting
<1>10. ASSUME NEW r \in Requests, Audit(r) \/ Mail(r) \/ Fail(r) PROVE ExistInv'
  BY <1>10, ExistBecome DEF Audit, Mail, Fail, rows, Idle, Bound
<1>11. ASSUME NEW r \in Requests, SelectOpen(r) PROVE ExistInv'
  BY <1>11, ExistBecome DEF SelectOpen, rows, ExistInv, Bound
<1>12. ASSUME NEW r \in Requests, NEW t \in Resets, SendReset(r, t) PROVE ExistInv'
  BY <1>12 DEF SendReset, Become, ExistInv, TypeOK, Bound, Idle
<1>13. ASSUME NEW r \in Requests, NEW t \in Invitations, Reissue(r, t) PROVE ExistInv'
  BY <1>13 DEF Reissue, Become, ExistInv, TypeOK, Bound
<1>14. CASE UNCHANGED vars
  BY <1>14 DEF vars, rows, ExistInv
<1> QED
  BY <1>1, <1>2, <1>3, <1>4, <1>5, <1>6, <1>7, <1>8, <1>9, <1>10, <1>11, <1>12,
     <1>13, <1>14 DEF Next, Serve

-----------------------------------------------------------------------------
(* What a request has read of a row whose version has not moved is what    *)
(* the row holds, so that its write is of the row as it is.                *)
SeenInv ==
  \A r \in Requests :
    request[r].phase \in {"login", "spend"} /\ request[r].seen.current =>
      /\ request[r].seen.status = status[request[r].user]
      /\ request[r].seen.failures = failures[request[r].user]
      /\ request[r].seen.password = password[request[r].user]

RowInv == SeenInv /\ NoMissIsLost /\ OpenedHasPassword

LEMMA RowInit == Init => RowInv
<1>1. Init => SeenInv /\ NoMissIsLost
  <2> SUFFICES ASSUME Init PROVE SeenInv /\ NoMissIsLost
    OBVIOUS
  <2>1. \A r \in Requests : request[r].phase = "idle"
    BY DEF Init, Idle
  <2>2. NoMissIsLost
    BY DEF Init, NoMissIsLost
  <2> QED
    BY <2>1, <2>2 DEF SeenInv
<1>2. Init => OpenedHasPassword
  BY DEF Init, OpenedHasPassword
<1> QED
  BY <1>1, <1>2 DEF RowInv

(* A step that writes no user row and reads none keeps the invariant.      *)
LEMMA QuietStep ==
  ASSUME TypeOK, RowInv, NEW r \in Requests, NEW work, Become(r, work),
         work.phase \notin {"login", "spend"},
         UNCHANGED <<status, failures, password, missed>>
  PROVE  RowInv'
<1>1. SeenInv'
  BY DEF RowInv, SeenInv, Become, TypeOK
<1> QED
  BY <1>1 DEF RowInv, NoMissIsLost, OpenedHasPassword

(* A read of a user row reads it as it is.                                 *)
LEMMA ReadStep ==
  ASSUME TypeOK, RowInv, NEW r \in Requests, NEW u \in Users, NEW work, Become(r, work),
         work.user = u, work.seen = Row(u),
         UNCHANGED <<status, failures, password, missed>>
  PROVE  RowInv'
<1>1. SeenInv'
  BY DEF RowInv, SeenInv, Become, TypeOK, Row
<1> QED
  BY <1>1 DEF RowInv, NoMissIsLost, OpenedHasPassword

(* A write of the row of u leaves what is current elsewhere current.       *)
LEMMA WriteSeen ==
  ASSUME TypeOK, SeenInv, NEW r \in Requests, NEW u \in Users, NEW work,
         BecomeWriting(r, u, work), work.phase \notin {"login", "spend"},
         \A v \in Users \ {u} : /\ status'[v] = status[v]
                               /\ failures'[v] = failures[v]
                               /\ password'[v] = password[v]
  PROVE  SeenInv'
<1> SUFFICES ASSUME NEW q \in Requests, request'[q].phase \in {"login", "spend"},
                    request'[q].seen.current
             PROVE  /\ request'[q].seen.status = status'[request'[q].user]
                    /\ request'[q].seen.failures = failures'[request'[q].user]
                    /\ request'[q].seen.password = password'[request'[q].user]
  BY DEF SeenInv
<1>1. q # r
  BY WritingOwn
<1>2. request[q].phase \in {"login", "spend"}
  BY <1>1, WritingOthers
<1>3. request[q].user # u /\ request'[q] = request[q]
  BY <1>1, <1>2, WritingOthers
<1>4. request[q].user \in Users
  BY <1>2, WorkShape
<1> QED
  BY <1>2, <1>3, <1>4 DEF SeenInv

(* Misses are counted, and doors opened, on the row that was read.         *)
LEMMA RowStep == IInv /\ ExistInv /\ RowInv /\ [Next]_vars => RowInv'
<1> SUFFICES ASSUME TypeOK, HeldInv, ExistInv, RowInv, [Next]_vars PROVE RowInv'
  BY DEF IInv
<1>1. ASSUME NEW u \in Users, Create(u) PROVE RowInv'
  <2>1. SeenInv'
    BY <1>1 DEF Create, RowInv, SeenInv, ExistInv, Bound, TypeOK
  <2>2. NoMissIsLost'
    BY <1>1 DEF Create, RowInv, NoMissIsLost, history
  <2>3. OpenedHasPassword'
    BY <1>1 DEF Create, RowInv, OpenedHasPassword, TypeOK
  <2> QED
    BY <2>1, <2>2, <2>3 DEF RowInv
<1>2. ASSUME NEW t \in Tokens, Expire(t) PROVE RowInv'
  BY <1>2 DEF Expire, rows, history, RowInv, SeenInv, NoMissIsLost, OpenedHasPassword
<1>3. ASSUME NEW r \in Requests, NEW u \in Users, Update(r, u) PROVE RowInv'
  <2>1. SeenInv'
    BY <1>3, WriteSeen DEF Update, RowInv, rows, Idle
  <2> QED
    BY <1>3, <2>1 DEF Update, RowInv, NoMissIsLost, OpenedHasPassword, rows, history
<1>4. ASSUME NEW r \in Requests, NEW u \in Users, Login(r, u) PROVE RowInv'
  BY <1>4, ReadStep DEF Login, rows, history
<1>5. ASSUME NEW r \in Requests, Succeed(r) PROVE RowInv'
  <2> DEFINE u == request[r].user
  <2>1. u \in Users
    BY <1>5, WorkShape DEF Succeed
  <2>2. CASE request[r].seen.failures = 0
    BY <1>5, <2>2, QuietStep DEF Succeed, Idle
  <2>3. CASE request[r].seen.failures # 0
    <3>1. /\ BecomeWriting(r, u, Idle)
          /\ failures' = [failures EXCEPT ![u] = 0]
          /\ missed' = [missed EXCEPT ![u] = 0]
          /\ UNCHANGED <<status, password>>
      BY <1>5, <2>3 DEF Succeed
    <3>2. SeenInv'
      <4>1. \A v \in Users \ {u} : failures'[v] = failures[v]
        BY <3>1 DEF TypeOK
      <4> QED
        BY <2>1, <3>1, <4>1, WriteSeen DEF RowInv, Idle
    <3> QED
      BY <3>1, <3>2 DEF RowInv, NoMissIsLost, OpenedHasPassword, TypeOK
  <2> QED
    BY <2>2, <2>3
<1>6. ASSUME NEW r \in Requests, Miss(r) PROVE RowInv'
  <2> DEFINE u == request[r].user
             count == request[r].seen.failures + 1
  <2>1. u \in Users
    BY <1>6, WorkShape DEF Miss
  <2>2. /\ request[r].seen.failures = failures[u]
        /\ request[r].seen.status = status[u]
        /\ request[r].seen.password = password[u]
    BY <1>6 DEF Miss, RowInv, SeenInv
  <2>3. /\ BecomeWriting(r, u, Idle)
        /\ failures' = [failures EXCEPT ![u] = count]
        /\ missed' = [missed EXCEPT ![u] = @ + 1]
        /\ status' = [status EXCEPT ![u] = IF count >= LockThreshold THEN "LOCKED" ELSE @]
        /\ password' = password
    BY <1>6 DEF Miss
  <2>4. SeenInv'
    <3>1. \A v \in Users \ {u} : failures'[v] = failures[v] /\ status'[v] = status[v]
      BY <2>3 DEF TypeOK
    <3> QED
      BY <2>1, <2>3, <3>1, WriteSeen DEF RowInv, Idle
  <2>5. NoMissIsLost'
    BY <2>1, <2>2, <2>3 DEF RowInv, NoMissIsLost, TypeOK
  <2>6. password[u]
    BY <1>6, <2>1, <2>2 DEF Miss, RowInv, OpenedHasPassword
  <2>7. OpenedHasPassword'
    BY <2>1, <2>3, <2>6 DEF RowInv, OpenedHasPassword, TypeOK
  <2> QED
    BY <2>4, <2>5, <2>7 DEF RowInv
<1>7. ASSUME NEW r \in Requests, NEW t \in Tokens, ReadToken(r, t) PROVE RowInv'
  BY <1>7, QuietStep DEF ReadToken, rows, history
<1>8. ASSUME NEW r \in Requests, ReadUser(r) PROVE RowInv'
  BY <1>8, ReadStep DEF ReadUser, HeldInv, rows, history
<1>9. ASSUME NEW r \in Requests, Spend(r) PROVE RowInv'
  <2> DEFINE t == request[r].token
             u == request[r].user
             work == IF t \in Invitations THEN Idle ELSE [phase |-> "audit", token |-> t]
  <2>1. u \in Users
    BY <1>9, WorkShape DEF Spend
  <2>2. /\ BecomeWriting(r, u, work)
        /\ password' = [password EXCEPT ![u] = TRUE]
        /\ status' = [status EXCEPT ![u] = IF t \in Invitations THEN "ACTIVE" ELSE @]
        /\ UNCHANGED <<failures, missed>>
    BY <1>9 DEF Spend
  <2>3. SeenInv'
    <3>1. \A v \in Users \ {u} : status'[v] = status[v] /\ password'[v] = password[v]
      BY <2>2 DEF TypeOK
    <3>2. work.phase \notin {"login", "spend"}
      BY DEF Idle
    <3> QED
      BY <2>1, <2>2, <3>1, <3>2, WriteSeen DEF RowInv
  <2>4. OpenedHasPassword'
    BY <2>1, <2>2 DEF RowInv, OpenedHasPassword, TypeOK
  <2> QED
    BY <2>2, <2>3, <2>4 DEF RowInv, NoMissIsLost
<1>10. ASSUME NEW r \in Requests, Audit(r) \/ SelectOpen(r) \/ Mail(r) \/ Fail(r)
       PROVE  RowInv'
  BY <1>10, QuietStep DEF Audit, SelectOpen, Mail, Fail, rows, history, Idle
<1>11. ASSUME NEW r \in Requests, NEW u \in Users, Forgot(r, u) \/ Resend(r, u)
       PROVE  RowInv'
  BY <1>11, QuietStep DEF Forgot, Resend, rows, history
<1>12. ASSUME NEW r \in Requests, NEW t \in Resets, SendReset(r, t) PROVE RowInv'
  BY <1>12, QuietStep DEF SendReset, Idle
<1>13. ASSUME NEW r \in Requests, NEW t \in Invitations, Reissue(r, t) PROVE RowInv'
  BY <1>13, QuietStep DEF Reissue, history
<1>14. CASE UNCHANGED vars
  BY <1>14 DEF vars, rows, history, RowInv, SeenInv, NoMissIsLost, OpenedHasPassword
<1> QED
  BY <1>1, <1>2, <1>3, <1>4, <1>5, <1>6, <1>7, <1>8, <1>9, <1>10, <1>11, <1>12,
     <1>13, <1>14 DEF Next, Serve
LEMMA RowInvariant == Spec => []RowInv
<1>1. Init => IInv /\ ExistInv /\ RowInv
  BY TypeInit, ExistInit, RowInit
<1>2. IInv /\ ExistInv /\ RowInv /\ [Next]_vars => IInv' /\ ExistInv' /\ RowInv'
  BY TypeStep, ExistStep, RowStep
<1> QED
  BY <1>1, <1>2, PTL DEF Spec

(* No failed attempt is lost, however the writes of the row interleave.    *)
THEOREM MissesCorrect == Spec => []NoMissIsLost
<1>1. RowInv => NoMissIsLost
  BY DEF RowInv
<1> QED
  BY RowInvariant, <1>1, PTL

(* No account is open without a password.                                  *)
THEOREM OpenedCorrect == Spec => []OpenedHasPassword
<1>1. RowInv => OpenedHasPassword
  BY DEF RowInv
<1> QED
  BY RowInvariant, <1>1, PTL

(* Only the acceptance of one of its invitations unlocks an account.       *)
THEOREM UnlockCorrect == Spec => UnlockedByInvitation
<1> DEFINE Unlock ==
             \A u \in Users :
               status[u] = "LOCKED" /\ status'[u] # "LOCKED" =>
                 \E t \in Invitations : owner[t] = u /\ spent'[t] > spent[t]
<1>1. IInv /\ [Next]_vars => [Unlock]_status
  <2> SUFFICES ASSUME TypeOK, HeldInv, [Next]_vars, status' # status,
                      NEW u \in Users, status[u] = "LOCKED", status'[u] # "LOCKED"
               PROVE  \E t \in Invitations : owner[t] = u /\ spent'[t] > spent[t]
    BY DEF IInv
  <2>1. PICK r \in Requests : Spend(r)
    <3>1. ASSUME NEW v \in Users, Create(v) PROVE FALSE
      BY <3>1 DEF Create, TypeOK
    <3>2. ASSUME NEW r \in Requests, Miss(r) PROVE FALSE
      BY <3>2 DEF Miss, TypeOK
    <3> QED
      BY <3>1, <3>2 DEF Next, Serve, Expire, Update, Login, Forgot, Resend, Succeed,
         ReadToken, ReadUser, Audit, SendReset, SelectOpen, Reissue, Mail, Fail, rows, vars
  <2>2. request[r].token \in Tokens
    BY <2>1, WorkShape DEF Spend
  <2>3. request[r].token \in Invitations /\ request[r].user = u
    BY <2>1 DEF Spend, TypeOK
  <2>4. owner[request[r].token] = u
    BY <2>1, <2>3 DEF Spend, HeldInv
  <2>5. spent'[request[r].token] = spent[request[r].token] + 1
    BY <2>1, <2>2 DEF Spend, TypeOK
  <2> QED
    BY <2>2, <2>3, <2>4, <2>5 DEF TypeOK
<1> QED
  BY TypeInvariant, <1>1, PTL DEF Spec, UnlockedByInvitation

-----------------------------------------------------------------------------
(* The audit entries still to be written are counted with those that are:  *)
(* two requests may have spent one token, and then write two.              *)
Auditing(t) == {r \in Requests : request[r].phase = "audit" /\ request[r].token = t}

AuditInv ==
  /\ \A r \in Requests : request[r].phase = "audit" => request[r].token \notin Invitations
  /\ \A t \in Invitations : audited[t] = spent[t]
  /\ \A t \in Tokens :
       /\ spent[t] > 0 => t \in used
       /\ IsFiniteSet(Auditing(t))
       /\ audited[t] + Cardinality(Auditing(t)) <= spent[t]

LEMMA AuditInit == Init => AuditInv
<1> SUFFICES ASSUME Init PROVE AuditInv
  OBVIOUS
<1>1. \A r \in Requests : request[r].phase = "idle"
  BY DEF Init, Idle
<1>2. \A t \in Tokens : Auditing(t) = {}
  BY <1>1 DEF Auditing
<1>3. Invitations \subseteq Tokens /\ IsFiniteSet({}) /\ Cardinality({}) = 0
  BY FS_EmptySet DEF Tokens
<1> QED
  BY <1>1, <1>2, <1>3 DEF Init, AuditInv

(* A step that neither begins nor ends the audit of a token.               *)
LEMMA SameAuditing ==
  ASSUME AuditInv, \A t \in Tokens : Auditing(t)' = Auditing(t), used \subseteq used',
         UNCHANGED <<spent, audited>>,
         \A r \in Requests : request'[r].phase = "audit" =>
           request[r].phase = "audit" /\ request'[r].token = request[r].token
  PROVE  AuditInv'
  BY DEF AuditInv

LEMMA AuditBecome ==
  ASSUME TypeOK, AuditInv, NEW r \in Requests, NEW work, Become(r, work),
         request[r].phase # "audit", work.phase # "audit",
         used \subseteq used', UNCHANGED <<spent, audited>>
  PROVE  AuditInv'
<1>1. \A q \in Requests : request'[q] = IF q = r THEN work ELSE request[q]
  BY DEF Become, TypeOK
<1>2. \A t \in Tokens : Auditing(t)' = Auditing(t)
  BY <1>1 DEF Auditing
<1> QED
  BY <1>1, <1>2, SameAuditing

LEMMA AuditWriting ==
  ASSUME TypeOK, AuditInv, NEW r \in Requests, NEW u \in Users, BecomeWriting(r, u, Idle),
         request[r].phase # "audit", used' = used, UNCHANGED <<spent, audited>>
  PROVE  AuditInv'
<1>1. request'[r].phase # "audit"
  BY WritingOwn DEF Idle
<1>2. \A q \in Requests \ {r} :
        /\ request'[q].phase = request[q].phase
        /\ request[q].phase = "audit" => request'[q] = request[q]
  BY WritingOthers
<1>3. \A t \in Tokens : Auditing(t)' = Auditing(t)
  BY <1>1, <1>2 DEF Auditing
<1> QED
  BY <1>1, <1>2, <1>3, SameAuditing
LEMMA AuditStep == IInv /\ AuditInv /\ [Next]_vars => AuditInv'
<1> SUFFICES ASSUME TypeOK, AuditInv, [Next]_vars PROVE AuditInv'
  BY DEF IInv
<1>1. ASSUME NEW u \in Users, Create(u) PROVE AuditInv'
  BY <1>1, SameAuditing DEF Create, history, Auditing
<1>2. ASSUME NEW t \in Tokens, Expire(t) PROVE AuditInv'
  BY <1>2, SameAuditing DEF Expire, rows, history, Auditing
<1>3. ASSUME NEW r \in Requests, NEW u \in Users,
             \/ Update(r, u) \/ Login(r, u) \/ Forgot(r, u) \/ Resend(r, u)
      PROVE  AuditInv'
  BY <1>3, AuditBecome, AuditWriting DEF Update, Login, Forgot, Resend, rows, history
<1>4. ASSUME NEW r \in Requests, Succeed(r) \/ Miss(r) PROVE AuditInv'
  <2>1. request[r].user \in Users /\ request[r].phase = "login"
    BY <1>4, WorkShape DEF Succeed, Miss
  <2> QED
    BY <1>4, <2>1, AuditBecome, AuditWriting DEF Succeed, Miss, Idle
<1>5. ASSUME NEW r \in Requests, NEW t \in Tokens, ReadToken(r, t) PROVE AuditInv'
  BY <1>5, AuditBecome DEF ReadToken, rows, history
<1>6. ASSUME NEW r \in Requests, ReadUser(r) \/ SelectOpen(r) \/ Mail(r) PROVE AuditInv'
  BY <1>6, AuditBecome DEF ReadUser, SelectOpen, Mail, rows, history, Idle
<1>7. ASSUME NEW r \in Requests, NEW t \in Resets, SendReset(r, t) PROVE AuditInv'
  BY <1>7, AuditBecome DEF SendReset, Idle
<1>8. ASSUME NEW r \in Requests, NEW t \in Invitations, Reissue(r, t) PROVE AuditInv'
  BY <1>8, AuditBecome DEF Reissue, history
<1>9. ASSUME NEW r \in Requests, Spend(r) PROVE AuditInv'
  <2> DEFINE t == request[r].token
             u == request[r].user
             work == IF t \in Invitations THEN Idle ELSE [phase |-> "audit", token |-> t]
  <2>1. t \in Tokens /\ u \in Users
    BY <1>9, WorkShape DEF Spend
  <2>2. request'[r] = work /\ request[r].phase = "spend"
    BY <1>9, WritingOwn DEF Spend
  <2>3. \A q \in Requests \ {r} :
          /\ request'[q].phase = request[q].phase
          /\ request[q].phase = "audit" => request'[q] = request[q]
    BY <1>9, <2>1, WritingOthers DEF Spend
  <2>4. /\ used' = used \cup {t}
        /\ spent' = [spent EXCEPT ![t] = @ + 1]
        /\ audited' = [audited EXCEPT ![t] = IF t \in Invitations THEN @ + 1 ELSE @]
    BY <1>9 DEF Spend
  <2>5. \A q \in Requests : request'[q].phase = "audit" => request'[q].token \notin Invitations
    BY <2>2, <2>3 DEF AuditInv, Idle
  <2>6. \A s \in Invitations : audited'[s] = spent'[s]
    BY <2>1, <2>4 DEF AuditInv, TypeOK, Tokens
  <2>7. ASSUME NEW s \in Tokens
        PROVE  /\ spent'[s] > 0 => s \in used'
               /\ IsFiniteSet(Auditing(s)')
               /\ audited'[s] + Cardinality(Auditing(s)') <= spent'[s]
    <3>1. /\ spent[s] > 0 => s \in used
          /\ IsFiniteSet(Auditing(s)) /\ Cardinality(Auditing(s)) \in Nat
          /\ audited[s] + Cardinality(Auditing(s)) <= spent[s]
          /\ audited[s] \in Nat /\ spent[s] \in Nat
      BY FS_CardinalityType DEF AuditInv, TypeOK
    <3>2. CASE s = t /\ t \notin Invitations
      <4>1. Auditing(s)' = Auditing(s) \cup {r} /\ r \notin Auditing(s)
        BY <2>2, <2>3, <3>2 DEF Auditing
      <4>2. /\ IsFiniteSet(Auditing(s)')
            /\ Cardinality(Auditing(s)') = Cardinality(Auditing(s)) + 1
        BY <3>1, <4>1, FS_AddElement
      <4>3. audited'[s] = audited[s] /\ spent'[s] = spent[s] + 1 /\ s \in used'
        BY <2>1, <2>4, <3>2 DEF TypeOK
      <4> QED
        BY <3>1, <4>2, <4>3
    <3>3. CASE s = t /\ t \in Invitations
      <4>1. Auditing(s)' = Auditing(s)
        BY <2>2, <2>3, <3>3 DEF Auditing, Idle
      <4>2. audited'[s] = audited[s] + 1 /\ spent'[s] = spent[s] + 1 /\ s \in used'
        BY <2>1, <2>4, <3>3 DEF TypeOK
      <4> QED
        BY <3>1, <4>1, <4>2
    <3>4. CASE s # t
      <4>1. Auditing(s)' = Auditing(s)
        BY <2>2, <2>3, <3>4 DEF Auditing, Idle
      <4>2. audited'[s] = audited[s] /\ spent'[s] = spent[s]
        BY <2>4, <3>4 DEF TypeOK
      <4> QED
        BY <2>4, <3>1, <4>1, <4>2
    <3> QED
      BY <3>2, <3>3, <3>4
  <2> QED
    BY <2>5, <2>6, <2>7 DEF AuditInv
<1>10. ASSUME NEW r \in Requests, Audit(r) PROVE AuditInv'
  <2> DEFINE t == request[r].token
  <2>1. t \in Tokens /\ t \notin Invitations /\ request[r].phase = "audit"
    BY <1>10, WorkShape DEF Audit, AuditInv
  <2>2. \A q \in Requests : request'[q] = IF q = r THEN Idle ELSE request[q]
    BY <1>10 DEF Audit, Become, TypeOK
  <2>3. audited' = [audited EXCEPT ![t] = @ + 1] /\ UNCHANGED <<used, spent>>
    BY <1>10 DEF Audit, rows
  <2>4. ASSUME NEW s \in Tokens
        PROVE  /\ IsFiniteSet(Auditing(s)')
               /\ audited'[s] + Cardinality(Auditing(s)') <= spent'[s]
    <3>1. /\ IsFiniteSet(Auditing(s)) /\ Cardinality(Auditing(s)) \in Nat
          /\ audited[s] + Cardinality(Auditing(s)) <= spent[s]
          /\ audited[s] \in Nat /\ spent[s] \in Nat
      BY FS_CardinalityType DEF AuditInv, TypeOK
    <3>2. CASE s = t
      <4>1. Auditing(s)' = Auditing(s) \ {r} /\ r \in Auditing(s)
        BY <2>1, <2>2, <3>2 DEF Auditing, Idle
      <4>2. /\ IsFiniteSet(Auditing(s)')
            /\ Cardinality(Auditing(s)') = Cardinality(Auditing(s)) - 1
        BY <3>1, <4>1, FS_RemoveElement
      <4>3. audited'[s] = audited[s] + 1
        BY <2>1, <2>3, <3>2 DEF TypeOK
      <4> QED
        BY <2>3, <3>1, <4>2, <4>3
    <3>3. CASE s # t
      <4>1. Auditing(s)' = Auditing(s)
        BY <2>2, <3>3 DEF Auditing, Idle
      <4>2. audited'[s] = audited[s]
        BY <2>3, <3>3 DEF TypeOK
      <4> QED
        BY <2>3, <3>1, <4>1, <4>2
    <3> QED
      BY <3>2, <3>3
  <2>5. \A q \in Requests : request'[q].phase = "audit" => request'[q].token \notin Invitations
    BY <2>2 DEF AuditInv, Idle
  <2>6. \A s \in Invitations : audited'[s] = spent'[s]
    BY <2>1, <2>3 DEF AuditInv, TypeOK
  <2> QED
    BY <2>3, <2>4, <2>5, <2>6 DEF AuditInv
<1>11. ASSUME NEW r \in Requests, Fail(r) PROVE AuditInv'
  <2>1. \A q \in Requests : request'[q] = IF q = r THEN Idle ELSE request[q]
    BY <1>11 DEF Fail, Become, TypeOK
  <2>2. UNCHANGED <<used, spent, audited>>
    BY <1>11 DEF Fail, rows, history
  <2>3. ASSUME NEW s \in Tokens
        PROVE  /\ IsFiniteSet(Auditing(s)')
               /\ audited[s] + Cardinality(Auditing(s)') <= spent[s]
    <3>1. /\ IsFiniteSet(Auditing(s)) /\ Cardinality(Auditing(s)) \in Nat
          /\ audited[s] + Cardinality(Auditing(s)) <= spent[s]
          /\ audited[s] \in Nat /\ spent[s] \in Nat
      BY FS_CardinalityType DEF AuditInv, TypeOK
    <3>2. Auditing(s)' = Auditing(s) \ {r}
      BY <2>1 DEF Auditing, Idle
    <3>3. /\ IsFiniteSet(Auditing(s)')
          /\ Cardinality(Auditing(s)') \in Nat
          /\ Cardinality(Auditing(s)') <= Cardinality(Auditing(s))
      BY <3>1, <3>2, FS_RemoveElement, FS_CardinalityType, FS_Subset
    <3> QED
      BY <3>1, <3>3
  <2>4. \A q \in Requests : request'[q].phase = "audit" => request'[q].token \notin Invitations
    BY <2>1 DEF AuditInv, Idle
  <2> QED
    BY <2>2, <2>3, <2>4 DEF AuditInv
<1>12. CASE UNCHANGED vars
  BY <1>12, SameAuditing DEF vars, rows, history, Auditing
<1> QED
  BY <1>1, <1>2, <1>3, <1>4, <1>5, <1>6, <1>7, <1>8, <1>9, <1>10, <1>11, <1>12
  DEF Next, Serve

LEMMA AuditImplies == TypeOK /\ AuditInv => SpentIsRecorded
<1> SUFFICES ASSUME TypeOK, AuditInv, NEW t \in Tokens
             PROVE  /\ spent[t] > 0 => t \in used
                    /\ audited[t] <= spent[t]
                    /\ t \in Invitations => audited[t] = spent[t]
  BY DEF SpentIsRecorded
<1>1. IsFiniteSet(Auditing(t)) /\ Cardinality(Auditing(t)) \in Nat
  BY FS_CardinalityType DEF AuditInv
<1>2. audited[t] \in Nat /\ spent[t] \in Nat
  BY DEF TypeOK
<1> QED
  BY <1>1, <1>2 DEF AuditInv

(* What a token gave is recorded with it: the token is used up, and the    *)
(* audit log never tells of more than was done.                            *)
THEOREM SpentCorrect == Spec => []SpentIsRecorded
<1>1. Init => IInv /\ AuditInv
  BY TypeInit, AuditInit
<1>2. IInv /\ AuditInv /\ [Next]_vars => IInv' /\ AuditInv'
  BY TypeStep, AuditStep
<1>3. IInv /\ AuditInv => SpentIsRecorded
  BY AuditImplies DEF IInv
<1> QED
  BY <1>1, <1>2, <1>3, PTL DEF Spec
-----------------------------------------------------------------------------
(* The requests that have found a token usable and may still use it.  They *)
(* are counted with the uses there were: once the token is used nobody     *)
(* joins them, and before that there was no use.                           *)
Spending(t) ==
  {r \in Requests : request[r].phase \in {"token", "spend"} /\ request[r].token = t}

SpendInv ==
  \A t \in Tokens : spent[t] + Cardinality(Spending(t)) <= Cardinality(Requests)

(* The requests are finitely many, and so is every part of them.           *)
LEMMA PartsOfRequests ==
  ASSUME NEW S \in SUBSET Requests
  PROVE  /\ IsFiniteSet(S) /\ Cardinality(S) \in Nat
         /\ Cardinality(Requests) \in Nat /\ Cardinality(S) <= Cardinality(Requests)
  BY AccountsAssumption, FS_Subset, FS_CardinalityType

LEMMA SpendInit == Init => SpendInv
<1> SUFFICES ASSUME Init, NEW t \in Tokens
             PROVE  spent[t] + Cardinality(Spending(t)) <= Cardinality(Requests)
  BY DEF SpendInv
<1>1. Spending(t) \in SUBSET Requests /\ spent[t] = 0
  BY DEF Init, Spending
<1> QED
  BY <1>1, PartsOfRequests

(* Nobody begins to use a token.                                           *)
LEMMA SpendQuiet ==
  ASSUME TypeOK, SpendInv, spent' = spent,
         \A q \in Requests : request'[q].phase \in {"token", "spend"} =>
           /\ request[q].phase \in {"token", "spend"}
           /\ request'[q].token = request[q].token
  PROVE  SpendInv'
<1> SUFFICES ASSUME NEW t \in Tokens
             PROVE  spent[t] + Cardinality(Spending(t)') <= Cardinality(Requests)
  BY DEF SpendInv
<1>1. Spending(t)' \subseteq Spending(t) /\ Spending(t) \subseteq Requests
  BY DEF Spending
<1>2. Cardinality(Spending(t)') <= Cardinality(Spending(t))
  BY <1>1, PartsOfRequests, FS_Subset
<1>3. /\ Cardinality(Spending(t)') \in Nat /\ Cardinality(Spending(t)) \in Nat
      /\ Cardinality(Requests) \in Nat
  BY <1>1, PartsOfRequests
<1>4. spent[t] \in Nat /\ spent[t] + Cardinality(Spending(t)) <= Cardinality(Requests)
  BY DEF TypeOK, SpendInv
<1> QED
  BY <1>2, <1>3, <1>4

LEMMA SpendBecome ==
  ASSUME TypeOK, SpendInv, NEW r \in Requests, NEW work, Become(r, work), spent' = spent,
         work.phase \in {"token", "spend"} =>
           request[r].phase \in {"token", "spend"} /\ work.token = request[r].token
  PROVE  SpendInv'
<1>1. \A q \in Requests : request'[q] = IF q = r THEN work ELSE request[q]
  BY DEF Become, TypeOK
<1> QED
  BY <1>1, SpendQuiet

LEMMA SpendWriting ==
  ASSUME TypeOK, SpendInv, NEW r \in Requests, NEW u \in Users, BecomeWriting(r, u, Idle),
         spent' = spent
  PROVE  SpendInv'
<1>1. request'[r].phase \notin {"token", "spend"}
  BY WritingOwn DEF Idle
<1>2. \A q \in Requests \ {r} :
        /\ request'[q].phase = request[q].phase
        /\ request[q].phase \in {"token", "spend"} => request'[q].token = request[q].token
  BY WritingOthers
<1> QED
  BY <1>1, <1>2, SpendQuiet

LEMMA SpendStep == IInv /\ AuditInv /\ SpendInv /\ [Next]_vars => SpendInv'
<1> SUFFICES ASSUME TypeOK, AuditInv, SpendInv, [Next]_vars PROVE SpendInv'
  BY DEF IInv
<1>1. ASSUME NEW u \in Users, Create(u) PROVE SpendInv'
  BY <1>1, SpendQuiet DEF Create, history
<1>2. ASSUME NEW t \in Tokens, Expire(t) PROVE SpendInv'
  BY <1>2, SpendQuiet DEF Expire, history
<1>3. ASSUME NEW r \in Requests, NEW u \in Users,
             Update(r, u) \/ Login(r, u) \/ Forgot(r, u) \/ Resend(r, u)
      PROVE  SpendInv'
  BY <1>3, SpendBecome, SpendWriting DEF Update, Login, Forgot, Resend, history
<1>4. ASSUME NEW r \in Requests, Succeed(r) \/ Miss(r) PROVE SpendInv'
  <2>1. request[r].user \in Users
    BY <1>4, WorkShape DEF Succeed, Miss
  <2> QED
    BY <1>4, <2>1, SpendBecome, SpendWriting DEF Succeed, Miss, Idle
<1>5. ASSUME NEW r \in Requests, NEW t \in Tokens, ReadToken(r, t) PROVE SpendInv'
  <2>1. spent' = spent /\ spent[t] = 0
    BY <1>5 DEF ReadToken, Usable, history, AuditInv, TypeOK
  <2>2. \A q \in Requests :
          request'[q] = IF q = r THEN [phase |-> "token", token |-> t] ELSE request[q]
    BY <1>5 DEF ReadToken, Become, TypeOK
  <2>3. ASSUME NEW s \in Tokens
        PROVE  spent'[s] + Cardinality(Spending(s)') <= Cardinality(Requests)
    <3>1. CASE s = t
      <4>1. Spending(s)' \in SUBSET Requests
        BY DEF Spending
      <4> QED
        BY <2>1, <3>1, <4>1, PartsOfRequests
    <3>2. CASE s # t
      <4>1. Spending(s)' \subseteq Spending(s) /\ Spending(s) \subseteq Requests
        BY <2>2, <3>2 DEF Spending
      <4>2. Cardinality(Spending(s)') <= Cardinality(Spending(s))
        BY <4>1, PartsOfRequests, FS_Subset
      <4>3. /\ Cardinality(Spending(s)') \in Nat /\ Cardinality(Spending(s)) \in Nat
            /\ Cardinality(Requests) \in Nat /\ spent[s] \in Nat
        BY <4>1, PartsOfRequests DEF TypeOK
      <4>4. spent[s] + Cardinality(Spending(s)) <= Cardinality(Requests)
        BY DEF SpendInv
      <4> QED
        BY <2>1, <4>2, <4>3, <4>4
    <3> QED
      BY <3>1, <3>2
  <2> QED
    BY <2>3 DEF SpendInv
<1>6. ASSUME NEW r \in Requests, ReadUser(r) \/ SelectOpen(r) \/ Mail(r) \/ Audit(r) \/ Fail(r)
      PROVE  SpendInv'
  BY <1>6, SpendBecome DEF ReadUser, SelectOpen, Mail, Audit, Fail, history, Idle
<1>7. ASSUME NEW r \in Requests, NEW t \in Resets, SendReset(r, t) PROVE SpendInv'
  BY <1>7, SpendBecome DEF SendReset, Idle
<1>8. ASSUME NEW r \in Requests, NEW t \in Invitations, Reissue(r, t) PROVE SpendInv'
  BY <1>8, SpendBecome DEF Reissue, history
<1>9. ASSUME NEW r \in Requests, Spend(r) PROVE SpendInv'
  <2> DEFINE t == request[r].token
             work == IF t \in Invitations THEN Idle ELSE [phase |-> "audit", token |-> t]
  <2>1. t \in Tokens /\ request[r].user \in Users
    BY <1>9, WorkShape DEF Spend
  <2>2. request'[r] = work /\ request[r].phase = "spend"
    BY <1>9, WritingOwn DEF Spend
  <2>3. \A q \in Requests \ {r} :
          /\ request'[q].phase = request[q].phase
          /\ request[q].phase \in {"token", "spend"} => request'[q].token = request[q].token
    BY <1>9, <2>1, WritingOthers DEF Spend
  <2>4. spent' = [spent EXCEPT ![t] = @ + 1]
    BY <1>9 DEF Spend
  <2>5. ASSUME NEW s \in Tokens
        PROVE  spent'[s] + Cardinality(Spending(s)') <= Cardinality(Requests)
    <3>1. Spending(s)' = Spending(s) \ {r}
      BY <2>2, <2>3 DEF Spending, Idle
    <3>2. /\ IsFiniteSet(Spending(s)) /\ Cardinality(Spending(s)) \in Nat
          /\ Cardinality(Requests) \in Nat /\ spent[s] \in Nat
          /\ spent[s] + Cardinality(Spending(s)) <= Cardinality(Requests)
      BY PartsOfRequests DEF Spending, SpendInv, TypeOK
    <3>3. CASE s = t
      <4>1. r \in Spending(s)
        BY <2>2, <3>3 DEF Spending
      <4>2. Cardinality(Spending(s)') = Cardinality(Spending(s)) - 1
        BY <3>1, <3>2, <4>1, FS_RemoveElement
      <4>3. spent'[s] = spent[s] + 1
        BY <2>1, <2>4, <3>3 DEF TypeOK
      <4> QED
        BY <3>2, <4>2, <4>3
    <3>4. CASE s # t
      <4>1. r \notin Spending(s) /\ spent'[s] = spent[s]
        BY <2>4, <3>4 DEF Spending, TypeOK
      <4>2. Spending(s)' = Spending(s)
        BY <3>1, <4>1
      <4> QED
        BY <3>2, <4>1, <4>2
    <3> QED
      BY <3>3, <3>4
  <2> QED
    BY <2>5 DEF SpendInv
<1>10. CASE UNCHANGED vars
  BY <1>10, SpendQuiet DEF vars, history
<1> QED
  BY <1>1, <1>2, <1>3, <1>4, <1>5, <1>6, <1>7, <1>8, <1>9, <1>10 DEF Next, Serve

(* A token gives a password once for each request there is at most.        *)
THEOREM SpendingCorrect == Spec => []SpendingIsBounded
<1>1. Init => IInv /\ AuditInv /\ SpendInv
  BY TypeInit, AuditInit, SpendInit
<1>2. IInv /\ AuditInv /\ SpendInv /\ [Next]_vars => IInv' /\ AuditInv' /\ SpendInv'
  BY TypeStep, AuditStep, SpendStep
<1>3. IInv /\ SpendInv => SpendingIsBounded
  <2> SUFFICES ASSUME TypeOK, SpendInv, NEW t \in Tokens
               PROVE  spent[t] <= Cardinality(Requests)
    BY DEF IInv, SpendingIsBounded
  <2>1. /\ spent[t] \in Nat /\ Cardinality(Spending(t)) \in Nat
        /\ Cardinality(Requests) \in Nat
    BY PartsOfRequests DEF TypeOK, Spending
  <2> QED
    BY <2>1 DEF SpendInv
<1> QED
  BY <1>1, <1>2, <1>3, PTL DEF Spec

-----------------------------------------------------------------------------
(* A resend that has selected the open invitations closes them; those it   *)
(* has not seen were issued meanwhile, by others.  So whatever part S of   *)
(* the resends that are about to commit is taken, the open invitations     *)
(* that none of S has seen are at most as many as the other requests.      *)
Reissuing(u) == {r \in Requests : request[r].phase = "reissue" /\ request[r].user = u}

Unseen(u, S) == {t \in Open(u) : \A r \in S : t \notin request[r].open}

OpenInv ==
  \A u \in Users : \A S \in SUBSET Reissuing(u) :
    /\ IsFiniteSet(Unseen(u, S))
    /\ Cardinality(Unseen(u, S)) + Cardinality(S) <= Cardinality(Requests)

LEMMA OpenInit == Init => OpenInv
<1> SUFFICES ASSUME Init, NEW u \in Users, NEW S \in SUBSET Reissuing(u)
             PROVE  /\ IsFiniteSet(Unseen(u, S))
                    /\ Cardinality(Unseen(u, S)) + Cardinality(S) <= Cardinality(Requests)
  BY DEF OpenInv
<1>1. Unseen(u, S) = {} /\ S \in SUBSET Requests
  BY AccountsAssumption DEF Init, Unseen, Open, Tokens, Reissuing
<1> QED
  BY <1>1, PartsOfRequests, FS_EmptySet

(* A part of what S has not seen.                                          *)
LEMMA FewerUnseen ==
  ASSUME OpenInv, NEW u \in Users, NEW S \in SUBSET Reissuing(u),
         NEW X \in SUBSET Unseen(u, S)
  PROVE  IsFiniteSet(X) /\ Cardinality(X) + Cardinality(S) <= Cardinality(Requests)
<1>1. /\ IsFiniteSet(Unseen(u, S))
      /\ Cardinality(Unseen(u, S)) + Cardinality(S) <= Cardinality(Requests)
  BY DEF OpenInv
<1>2. IsFiniteSet(X) /\ Cardinality(X) <= Cardinality(Unseen(u, S))
  BY <1>1, FS_Subset
<1>3. /\ Cardinality(X) \in Nat /\ Cardinality(Unseen(u, S)) \in Nat
      /\ Cardinality(S) \in Nat /\ Cardinality(Requests) \in Nat
  BY <1>1, <1>2, FS_CardinalityType, PartsOfRequests DEF Reissuing
<1> QED
  BY <1>1, <1>2, <1>3

(* No invitation is opened and no selection is made.                       *)
LEMMA OpenQuiet ==
  ASSUME OpenInv, \A u \in Users : Open(u)' \subseteq Open(u),
         \A q \in Requests : request'[q].phase = "reissue" => request'[q] = request[q]
  PROVE  OpenInv'
<1> SUFFICES ASSUME NEW u \in Users, NEW S \in SUBSET Reissuing(u)'
             PROVE  /\ IsFiniteSet(Unseen(u, S)')
                    /\ Cardinality(Unseen(u, S)') + Cardinality(S) <= Cardinality(Requests)
  BY DEF OpenInv
<1>1. S \in SUBSET Reissuing(u) /\ Unseen(u, S)' \in SUBSET Unseen(u, S)
  BY DEF Reissuing, Unseen
<1> QED
  BY <1>1, FewerUnseen

LEMMA OpenBecome ==
  ASSUME TypeOK, OpenInv, NEW r \in Requests, NEW work, Become(r, work),
         work.phase # "reissue", \A u \in Users : Open(u)' \subseteq Open(u)
  PROVE  OpenInv'
<1>1. \A q \in Requests : request'[q] = IF q = r THEN work ELSE request[q]
  BY DEF Become, TypeOK
<1> QED
  BY <1>1, OpenQuiet

LEMMA OpenWriting ==
  ASSUME TypeOK, OpenInv, NEW r \in Requests, NEW u \in Users, NEW work,
         BecomeWriting(r, u, work), work.phase # "reissue",
         \A v \in Users : Open(v)' \subseteq Open(v)
  PROVE  OpenInv'
<1>1. request'[r] = work
  BY WritingOwn
<1>2. ASSUME NEW q \in Requests \ {r}, request'[q].phase = "reissue"
      PROVE  request'[q] = request[q]
  <2>1. request[q].phase = "reissue"
    BY <1>2, WritingOthers
  <2> QED
    BY <2>1 DEF BecomeWriting, HasRead
<1> QED
  BY <1>1, <1>2, OpenQuiet

LEMMA OpenStep == IInv /\ OpenInv /\ [Next]_vars => OpenInv'
<1> SUFFICES ASSUME TypeOK, OpenInv, [Next]_vars PROVE OpenInv'
  BY DEF IInv
<1>1. ASSUME NEW u \in Users, Create(u) PROVE OpenInv'
  BY <1>1, OpenQuiet DEF Create, Open
<1>2. ASSUME NEW t \in Tokens, Expire(t) PROVE OpenInv'
  BY <1>2, OpenQuiet DEF Expire, Open, rows
<1>3. ASSUME NEW r \in Requests, NEW u \in Users,
             Update(r, u) \/ Login(r, u) \/ Forgot(r, u) \/ Resend(r, u)
      PROVE  OpenInv'
  <2>1. \A v \in Users : Open(v)' \subseteq Open(v)
    BY <1>3 DEF Update, Login, Forgot, Resend, Open, rows
  <2> QED
    BY <1>3, <2>1, OpenBecome, OpenWriting DEF Update, Login, Forgot, Resend, Idle
<1>4. ASSUME NEW r \in Requests, Succeed(r) \/ Miss(r) PROVE OpenInv'
  <2>1. request[r].user \in Users /\ \A v \in Users : Open(v)' \subseteq Open(v)
    BY <1>4, WorkShape DEF Succeed, Miss, Open
  <2> QED
    BY <1>4, <2>1, OpenBecome, OpenWriting DEF Succeed, Miss, Idle
<1>5. ASSUME NEW r \in Requests, NEW t \in Tokens, ReadToken(r, t) PROVE OpenInv'
  BY <1>5, OpenBecome DEF ReadToken, Open, rows
<1>6. ASSUME NEW r \in Requests, ReadUser(r) \/ Mail(r) \/ Audit(r) \/ Fail(r)
      PROVE  OpenInv'
  BY <1>6, OpenBecome DEF ReadUser, Mail, Audit, Fail, Open, rows, Idle
<1>7. ASSUME NEW r \in Requests, NEW t \in Resets, SendReset(r, t) PROVE OpenInv'
  <2>1. t \notin Invitations
    BY AccountsAssumption
  <2>2. \A v \in Users : Open(v)' \subseteq Open(v)
    BY <1>7, <2>1 DEF SendReset, Open, TypeOK, Tokens
  <2> QED
    BY <1>7, <2>2, OpenBecome DEF SendReset, Idle
<1>8. ASSUME NEW r \in Requests, Spend(r) PROVE OpenInv'
  <2> DEFINE t == request[r].token
             work == IF t \in Invitations THEN Idle ELSE [phase |-> "audit", token |-> t]
  <2>1. /\ request[r].user \in Users
        /\ BecomeWriting(r, request[r].user, work)
        /\ \A v \in Users : Open(v)' \subseteq Open(v)
    BY <1>8, WorkShape DEF Spend, Open
  <2>2. work.phase # "reissue"
    BY DEF Idle
  <2> QED
    BY <2>1, <2>2, OpenWriting
<1>9. ASSUME NEW r \in Requests, SelectOpen(r) PROVE OpenInv'
  <2> DEFINE w == request[r].user
             work == [phase |-> "reissue", user |-> w, open |-> Open(w)]
  <2>1. \A q \in Requests : request'[q] = IF q = r THEN work ELSE request[q]
    BY <1>9 DEF SelectOpen, Become, TypeOK
  <2>2. \A v \in Users : Open(v)' = Open(v)
    BY <1>9 DEF SelectOpen, Open, rows
  <2>3. ASSUME NEW u \in Users, NEW S \in SUBSET Reissuing(u)'
        PROVE  /\ IsFiniteSet(Unseen(u, S)')
               /\ Cardinality(Unseen(u, S)') + Cardinality(S) <= Cardinality(Requests)
    <3>1. CASE r \in S
      <4>1. u = w
        BY <2>1, <3>1 DEF Reissuing
      <4>2. Unseen(u, S)' = {}
        BY <2>1, <2>2, <3>1, <4>1 DEF Unseen
      <4>3. S \in SUBSET Requests
        BY DEF Reissuing
      <4> QED
        BY <4>2, <4>3, FS_EmptySet, PartsOfRequests
    <3>2. CASE r \notin S
      <4>1. S \in SUBSET Reissuing(u) /\ \A q \in S : request'[q] = request[q]
        BY <2>1, <3>2 DEF Reissuing
      <4>2. Unseen(u, S)' \in SUBSET Unseen(u, S)
        BY <2>2, <4>1 DEF Unseen
      <4> QED
        BY <4>1, <4>2, FewerUnseen
    <3> QED
      BY <3>1, <3>2
  <2> QED
    BY <2>3 DEF OpenInv
<1>10. ASSUME NEW r \in Requests, NEW t \in Invitations, Reissue(r, t) PROVE OpenInv'
  <2> DEFINE w == request[r].user
  <2>1. /\ \A q \in Requests :
             request'[q] = IF q = r THEN [phase |-> "mail", token |-> t] ELSE request[q]
        /\ request[r].phase = "reissue" /\ w \in Users /\ t \in Tokens
    BY <1>10, WorkShape DEF Reissue, Become, TypeOK, Tokens
  <2>2. /\ owner' = [owner EXCEPT ![t] = w] /\ used' = used \cup request[r].open
        /\ expired' = expired
    BY <1>10 DEF Reissue
  <2>3. ASSUME NEW u \in Users, NEW S \in SUBSET Reissuing(u)'
        PROVE  /\ IsFiniteSet(Unseen(u, S)')
               /\ Cardinality(Unseen(u, S)') + Cardinality(S) <= Cardinality(Requests)
    <3>1. /\ S \in SUBSET Reissuing(u) /\ r \notin S /\ S \in SUBSET Requests
          /\ \A q \in S : request'[q] = request[q]
      BY <2>1 DEF Reissuing
    <3>2. CASE u = w
      <4> DEFINE T == S \cup {r}
      <4>1. T \in SUBSET Reissuing(u)
        BY <2>1, <3>1, <3>2 DEF Reissuing
      <4>2. Unseen(u, S)' \ {t} \in SUBSET Unseen(u, T)
        BY <2>1, <2>2, <3>1 DEF Unseen, Open, TypeOK
      <4>3. /\ IsFiniteSet(Unseen(u, S)' \ {t})
            /\ Cardinality(Unseen(u, S)' \ {t}) + Cardinality(T) <= Cardinality(Requests)
        BY <4>1, <4>2, FewerUnseen
      <4>4. /\ Cardinality(T) = Cardinality(S) + 1
            /\ Cardinality(S) \in Nat /\ Cardinality(Requests) \in Nat
        BY <3>1, PartsOfRequests, FS_AddElement
      <4>5. /\ IsFiniteSet(Unseen(u, S)')
            /\ Cardinality(Unseen(u, S)') <= Cardinality(Unseen(u, S)' \ {t}) + 1
            /\ Cardinality(Unseen(u, S)') \in Nat
            /\ Cardinality(Unseen(u, S)' \ {t}) \in Nat
        <5>1. /\ IsFiniteSet((Unseen(u, S)' \ {t}) \cup {t})
              /\ Cardinality((Unseen(u, S)' \ {t}) \cup {t})
                   = Cardinality(Unseen(u, S)' \ {t}) + 1
          BY <4>3, FS_AddElement
        <5>2. Unseen(u, S)' \subseteq (Unseen(u, S)' \ {t}) \cup {t}
          OBVIOUS
        <5> QED
          BY <4>3, <5>1, <5>2, FS_Subset, FS_CardinalityType
      <4> QED
        BY <4>3, <4>4, <4>5
    <3>3. CASE u # w
      <4>1. Unseen(u, S)' \in SUBSET Unseen(u, S)
        BY <2>1, <2>2, <3>1, <3>3 DEF Unseen, Open, TypeOK
      <4> QED
        BY <3>1, <4>1, FewerUnseen
    <3> QED
      BY <3>2, <3>3
  <2> QED
    BY <2>3 DEF OpenInv
<1>11. CASE UNCHANGED vars
  BY <1>11, OpenQuiet DEF vars, rows, Open
<1> QED
  BY <1>1, <1>2, <1>3, <1>4, <1>5, <1>6, <1>7, <1>8, <1>9, <1>10, <1>11 DEF Next, Serve

(* A user has one open invitation for each request there is at most.       *)
THEOREM InvitationsCorrect == Spec => []InvitationsAreBounded
<1>1. Init => IInv /\ OpenInv
  BY TypeInit, OpenInit
<1>2. IInv /\ OpenInv /\ [Next]_vars => IInv' /\ OpenInv'
  BY TypeStep, OpenStep
<1>3. IInv /\ OpenInv => InvitationsAreBounded
  <2> SUFFICES ASSUME OpenInv, NEW u \in Users
               PROVE  Cardinality(Open(u)) <= Cardinality(Requests)
    BY DEF InvitationsAreBounded
  <2>1. Open(u) \in SUBSET Unseen(u, {}) /\ {} \in SUBSET Reissuing(u)
    BY DEF Unseen
  <2>2. IsFiniteSet(Open(u)) /\ Cardinality(Open(u)) + Cardinality({}) <= Cardinality(Requests)
    BY <2>1, FewerUnseen
  <2>3. Cardinality({}) = 0 /\ Cardinality(Open(u)) \in Nat
    BY <2>2, FS_EmptySet, FS_CardinalityType
  <2> QED
    BY <2>2, <2>3
<1> QED
  BY <1>1, <1>2, <1>3, PTL DEF Spec
=============================================================================
