------------------------------ MODULE Accounts ------------------------------
(***************************************************************************)
(* User accounts (app/modules/users, invitations, password_reset and the   *)
(* login of auth): an account is created pending, an invitation or a reset *)
(* token gives it a password, failed logins lock it.                       *)
(*                                                                         *)
(* User rows carry a version: the write of a request that read an older    *)
(* row is refused (StaleDataError, answered 409).  Token rows carry none.  *)
(* The token and the user are read in different statements.                *)
(***************************************************************************)
EXTENDS Naturals, FiniteSets

CONSTANTS
  Users,          (* accounts that may be created                          *)
  Invitations,    (* invitation token rows that may be inserted            *)
  Resets,         (* password reset token rows that may be inserted        *)
  Requests,       (* requests being served concurrently                    *)
  NoUser,         (* the owner of a token that has not been inserted       *)
  LockThreshold,  (* failed attempts that lock an account: 5 in the code   *)
  MaxFailures     (* bound on the counter of failed attempts               *)

ASSUME AccountsAssumption ==
  /\ NoUser \notin Users
  /\ Invitations \cap Resets = {}
  /\ IsFiniteSet(Requests)
  /\ LockThreshold \in Nat \ {0}
  /\ MaxFailures \in Nat

VARIABLES
  status,     (* status of each user row, "NONE" before its insertion      *)
  failures,   (* failed_login_attempts                                     *)
  password,   (* hashed_password is set                                    *)
  owner,      (* user_id of each token row                                 *)
  used,       (* token rows with is_used                                   *)
  expired,    (* token rows past their expires_at                          *)
  request,    (* what each request is doing                                *)
  missed,     (* history: failed attempts answered 401 since the count was *)
              (* last set back by a login                                  *)
  spent,      (* history: times each token gave its user a password        *)
  mailed,     (* history: tokens that were sent to their user              *)
  audited     (* history: times the use of each token was audited          *)

rows == <<status, failures, password, owner, used>>

history == <<missed, spent, mailed, audited>>

vars == <<rows, expired, request, history>>

UserStatus == {"NONE", "PENDING_INVITATION", "ACTIVE", "LOCKED"}

Tokens == Invitations \cup Resets

Idle == [phase |-> "idle"]

(* A user row as a request read it, and whether it still has the version   *)
(* that was read.                                                          *)
Seen == [status: UserStatus, failures: Nat, password: BOOLEAN, current: BOOLEAN]

Working ==
  [phase: {"login"}, user: Users, seen: Seen]
  \cup [phase: {"token"}, token: Tokens]
  \cup [phase: {"spend"}, token: Tokens, user: Users, seen: Seen]
  \cup [phase: {"forgot", "resend"}, user: Users]
  \cup [phase: {"reissue"}, user: Users, open: SUBSET Invitations]
  \cup [phase: {"mail", "audit"}, token: Tokens]

TypeOK ==
  /\ status \in [Users -> UserStatus]
  /\ failures \in [Users -> Nat]
  /\ password \in [Users -> BOOLEAN]
  /\ owner \in [Tokens -> Users \cup {NoUser}]
  /\ used \in SUBSET Tokens
  /\ expired \in SUBSET Tokens
  /\ request \in [Requests -> {Idle} \cup Working]
  /\ missed \in [Users -> Nat]
  /\ spent \in [Tokens -> Nat]
  /\ mailed \in SUBSET Tokens
  /\ audited \in [Tokens -> Nat]

Init ==
  /\ status = [u \in Users |-> "NONE"]
  /\ failures = [u \in Users |-> 0]
  /\ password = [u \in Users |-> FALSE]
  /\ owner = [t \in Tokens |-> NoUser]
  /\ used = {}
  /\ expired = {}
  /\ request = [r \in Requests |-> Idle]
  /\ missed = [u \in Users |-> 0]
  /\ spent = [t \in Tokens |-> 0]
  /\ mailed = {}
  /\ audited = [t \in Tokens |-> 0]

-----------------------------------------------------------------------------
Become(r, work) == request' = [request EXCEPT ![r] = work]

Row(u) == [status |-> status[u], failures |-> failures[u],
           password |-> password[u], current |-> TRUE]

HasRead(q, u) == request[q].phase \in {"login", "spend"} /\ request[q].user = u

(* The row of u is written by r: its version moves on, and what the other  *)
(* requests have read of it is out of date.                                *)
BecomeUnseen(r, u, work) ==  (* mutation: the row has no version           *)
  Become(r, work)

BecomeWriting(r, u, work) ==
  request' = [q \in Requests |->
    IF q = r THEN work
    ELSE IF HasRead(q, u) THEN [request[q] EXCEPT !.seen.current = FALSE]
    ELSE request[q]]

(* create_user.  No invitation token is generated.                         *)
Create(u) ==
  /\ status[u] = "NONE"
  /\ status' = [status EXCEPT ![u] = "PENDING_INVITATION"]
  /\ UNCHANGED <<failures, password, owner, used, expired, request, history>>

(* update_user writes names and manager, and so moves the version.         *)
Update(r, u) ==
  /\ request[r].phase = "idle"
  /\ status[u] # "NONE"
  /\ BecomeWriting(r, u, Idle)
  /\ UNCHANGED <<rows, expired, history>>

Expire(t) ==
  /\ owner[t] # NoUser
  /\ expired' = expired \cup {t}
  /\ UNCHANGED <<rows, request, history>>

-----------------------------------------------------------------------------
(* authenticate.                                                           *)

Login(r, u) ==
  /\ request[r].phase = "idle"
  /\ status[u] # "NONE"
  /\ Become(r, [phase |-> "login", user |-> u, seen |-> Row(u)])
  /\ UNCHANGED <<rows, expired, history>>

(* The right password.  The count is set back, which is a write of the row *)
(* only if it was not 0.                                                   *)
SucceedUnlocks(r) ==  (* mutation: the right password unlocks               *)
  LET u == request[r].user
  IN  /\ request[r].phase = "login"
      /\ request[r].seen.password
      /\ request[r].seen.current
      /\ status' = [status EXCEPT ![u] = "ACTIVE"]
      /\ failures' = [failures EXCEPT ![u] = 0]
      /\ missed' = [missed EXCEPT ![u] = 0]
      /\ BecomeWriting(r, u, Idle)
      /\ UNCHANGED <<password, owner, used, expired, spent, mailed, audited>>

Succeed(r) ==
  LET u == request[r].user
      seen == request[r].seen
  IN  /\ request[r].phase = "login"
      /\ seen.status # "LOCKED"
      /\ seen.password
      /\ IF seen.failures = 0
         THEN /\ Become(r, Idle)
              /\ UNCHANGED <<failures, missed>>
         ELSE /\ seen.current
              /\ failures' = [failures EXCEPT ![u] = 0]
              /\ missed' = [missed EXCEPT ![u] = 0]
              /\ BecomeWriting(r, u, Idle)
      /\ UNCHANGED <<status, password, owner, used, expired, spent, mailed, audited>>

(* A locked account or the wrong password: _handle_failed_attempt, then    *)
(* 401.  An account without a password fails before it is counted.         *)
Miss(r) ==
  LET u == request[r].user
      seen == request[r].seen
      count == seen.failures + 1
  IN  /\ request[r].phase = "login"
      /\ seen.status = "LOCKED" \/ seen.password
      /\ seen.current
      /\ count <= MaxFailures
      /\ failures' = [failures EXCEPT ![u] = count]
      /\ status' = [status EXCEPT ![u] = IF count >= LockThreshold THEN "LOCKED" ELSE @]
      /\ missed' = [missed EXCEPT ![u] = @ + 1]
      /\ BecomeWriting(r, u, Idle)
      /\ UNCHANGED <<password, owner, used, expired, spent, mailed, audited>>

-----------------------------------------------------------------------------
(* accept_invitation and confirm_reset: the token is read and judged, then *)
(* the user is read, then both are written.                                *)

UsableAgain(t) ==  (* mutation: a used token is not refused                *)
  owner[t] # NoUser /\ t \notin expired

Usable(t) == owner[t] # NoUser /\ t \notin used /\ t \notin expired

ReadToken(r, t) ==
  /\ request[r].phase = "idle"
  /\ Usable(t)
  /\ Become(r, [phase |-> "token", token |-> t])
  /\ UNCHANGED <<rows, expired, history>>

ReadUser(r) ==
  LET t == request[r].token
  IN  /\ request[r].phase = "token"
      /\ Become(r, [phase |-> "spend", token |-> t, user |-> owner[t],
                    seen |-> Row(owner[t])])
      /\ UNCHANGED <<rows, expired, history>>

(* The password, the status and the token, in one commit.  An acceptance   *)
(* activates the account whatever its status, and is audited in the same   *)
(* transaction; a reset leaves the status alone, and revoking the user's   *)
(* sessions commits it before the audit entry is written.                  *)
Spend(r) ==
  LET t == request[r].token
      u == request[r].user
      accepting == t \in Invitations
  IN  /\ request[r].phase = "spend"
      /\ request[r].seen.current
      /\ password' = [password EXCEPT ![u] = TRUE]
      /\ used' = used \cup {t}
      /\ spent' = [spent EXCEPT ![t] = @ + 1]
      /\ status' = [status EXCEPT ![u] = IF accepting THEN "ACTIVE" ELSE @]
      /\ audited' = [audited EXCEPT ![t] = IF accepting THEN @ + 1 ELSE @]
      /\ BecomeWriting(r, u, IF accepting THEN Idle ELSE [phase |-> "audit", token |-> t])
      /\ UNCHANGED <<failures, owner, expired, missed, mailed>>

(* The audit entry of a reset, in a transaction of its own.                *)
Audit(r) ==
  /\ request[r].phase = "audit"
  /\ audited' = [audited EXCEPT ![request[r].token] = @ + 1]
  /\ Become(r, Idle)
  /\ UNCHANGED <<rows, expired, missed, spent, mailed>>

-----------------------------------------------------------------------------
(* Tokens are issued.                                                      *)

(* request_reset: a user who is not locked is sent a token ...             *)
Forgot(r, u) ==
  /\ request[r].phase = "idle"
  /\ status[u] \notin {"NONE", "LOCKED"}
  /\ Become(r, [phase |-> "forgot", user |-> u])
  /\ UNCHANGED <<rows, expired, history>>

(* ... by a mail that goes out before the commit.                          *)
SendReset(r, t) ==
  /\ request[r].phase = "forgot"
  /\ owner[t] = NoUser
  /\ owner' = [owner EXCEPT ![t] = request[r].user]
  /\ mailed' = mailed \cup {t}
  /\ Become(r, Idle)
  /\ UNCHANGED <<status, failures, password, used, expired, missed, spent, audited>>

(* resend_invitation: the user is judged, the open tokens are selected ... *)
Resend(r, u) ==
  /\ request[r].phase = "idle"
  /\ status[u] = "PENDING_INVITATION"
  /\ Become(r, [phase |-> "resend", user |-> u])
  /\ UNCHANGED <<rows, expired, history>>

Open(u) == {t \in Invitations : owner[t] = u /\ t \notin used /\ t \notin expired}

SelectOpen(r) ==
  LET u == request[r].user
  IN  /\ request[r].phase = "resend"
      /\ Become(r, [phase |-> "reissue", user |-> u, open |-> Open(u)])
      /\ UNCHANGED <<rows, expired, history>>

(* ... and used up, generate_invitation inserts a new one and commits, and *)
(* only then is it mailed and audited.                                     *)
Reissue(r, t) ==
  /\ request[r].phase = "reissue"
  /\ owner[t] = NoUser
  /\ owner' = [owner EXCEPT ![t] = request[r].user]
  /\ used' = used \cup request[r].open
  /\ Become(r, [phase |-> "mail", token |-> t])
  /\ UNCHANGED <<status, failures, password, expired, history>>

Mail(r) ==
  /\ request[r].phase = "mail"
  /\ mailed' = mailed \cup {request[r].token}
  /\ Become(r, Idle)
  /\ UNCHANGED <<rows, expired, missed, spent, audited>>

(* A refusal, a stale row, an error, or the end of the process: what was   *)
(* not committed is rolled back.  What follows an inner commit fails as    *)
(* soon as it reads a row which that commit expired.                       *)
Fail(r) ==
  /\ request[r].phase # "idle"
  /\ Become(r, Idle)
  /\ UNCHANGED <<rows, expired, history>>

Serve(r) ==
  \/ \E u \in Users : Update(r, u) \/ Login(r, u) \/ Forgot(r, u) \/ Resend(r, u)
  \/ Succeed(r)
  \/ Miss(r)
  \/ \E t \in Tokens : ReadToken(r, t)
  \/ ReadUser(r)
  \/ Spend(r)
  \/ Audit(r)
  \/ \E t \in Resets : SendReset(r, t)
  \/ SelectOpen(r)
  \/ \E t \in Invitations : Reissue(r, t)
  \/ Mail(r)
  \/ Fail(r)

Next ==
  \/ \E u \in Users : Create(u)
  \/ \E t \in Tokens : Expire(t)
  \/ \E r \in Requests : Serve(r)

Spec == Init /\ [][Next]_vars

-----------------------------------------------------------------------------
(* Properties.                                                             *)

(* No failed attempt is lost: however logins, acceptances and updates      *)
(* interleave, the counter is the number of attempts answered 401 since it *)
(* was last set back.                                                      *)
NoMissIsLost == \A u \in Users : failures[u] = missed[u]

(* An account that is active or locked has a password, so that no login    *)
(* judges one that is not there.                                           *)
OpenedHasPassword ==
  \A u \in Users : status[u] \in {"ACTIVE", "LOCKED"} => password[u]

(* A token that gave a password is used up for good, and each acceptance   *)
(* of an invitation has its audit entry.                                   *)
SpentIsRecorded ==
  \A t \in Tokens :
    /\ spent[t] > 0 => t \in used
    /\ audited[t] <= spent[t]
    /\ t \in Invitations => audited[t] = spent[t]

(* Requests that read a token before one of them used it may each use it   *)
(* (TokenSpentOnce), and that is all: whoever comes later is refused, so a *)
(* token gives a password once for each request there is at most.          *)
SpendingIsBounded == \A t \in Tokens : spent[t] <= Cardinality(Requests)

(* Resends that race leave several invitations open (OneOpenInvitation),   *)
(* but a resend closes what earlier ones left: however often it is called, *)
(* a user has at most one open invitation for each request there is.       *)
InvitationsAreBounded ==
  \A u \in Users : Cardinality(Open(u)) <= Cardinality(Requests)

(* A locked account is not active again before one of its invitations is   *)
(* accepted: no stale login or reset unlocks it.                           *)
UnlockedByInvitation ==
  [][\A u \in Users :
       status[u] = "LOCKED" /\ status'[u] # "LOCKED" =>
         \E t \in Invitations : owner[t] = u /\ spent'[t] > spent[t]]_status

-----------------------------------------------------------------------------
(* Statements of the documentation that the code does not keep, or keeps   *)
(* only as long as one request is served at a time.                        *)

(* Identity design, properties 17 and 20: a token that was used is refused.*)
(* Kept by one request at a time; a second request that read the token     *)
(* before it was used, and the user after, is let through.                 *)
TokenSpentOnce == \A t \in Tokens : spent[t] <= 1

(* Requirement 9.6: resending "invalidates any existing unused invitation  *)
(* tokens for that user", so that one is open.  Kept by one request at a   *)
(* time; two that select before either commits leave two.                  *)
OneOpenInvitation ==
  \A s, t \in Invitations :
    Usable(s) /\ Usable(t) /\ owner[s] = owner[t] => s = t

(* Identity design, property 2: no login succeeds for a locked account.    *)
(* Kept by one request at a time; a login that found nothing to set back   *)
(* writes no user row, and so never learns that the row has moved on.      *)
NoLoginWhenLocked ==
  [][\A r \in Requests : Succeed(r) => status[request[r].user] # "LOCKED"]_vars

(* Identity design, property 16: the user created has PendingInvitation    *)
(* and "an InvitationToken record must exist".                             *)
PendingIsInvited ==
  \A u \in Users :
    status[u] = "PENDING_INVITATION" => \E t \in Invitations : owner[t] = u

(* Requirement 10.10: a successful reset is recorded in the audit log.     *)
ResetIsAudited ==
  \A t \in Resets :
    (\A r \in Requests : request[r] = Idle) => audited[t] = spent[t]

(* Identity design, property 22: the reset mail goes out "only when the    *)
(* user exists and has Status=Active".                                     *)
ResetMailedToActive ==
  [][\A r \in Requests, t \in Resets :
       SendReset(r, t) => status[request[r].user] = "ACTIVE"]_vars

(* Requirement 9.6 again: the new invitation token is sent by email.       *)
InvitationIsMailed ==
  \A t \in Invitations :
    (\A r \in Requests : request[r] = Idle) /\ owner[t] # NoUser => t \in mailed
=============================================================================
