--------------------------- MODULE RefreshTokens ---------------------------
(***************************************************************************)
(* Refresh tokens (app/modules/auth/service.py): a login starts a session, *)
(* a refresh replaces the session's token by a new one and links the two,  *)
(* and presenting a token that was replaced before revokes every token the *)
(* links lead to.  An administrator, or a password reset, revokes all the  *)
(* tokens of a user.                                                       *)
(*                                                                         *)
(* Token rows carry no version.  A request reads in statements of its own  *)
(* and writes when it commits, so that other requests come in between.     *)
(***************************************************************************)
EXTENDS FiniteSets

CONSTANTS
  Tokens,     (* token rows that may be inserted                           *)
  Users,
  Requests,   (* requests being served concurrently                        *)
  NoToken,    (* the null of replaced_by_token_id                          *)
  NoUser      (* the owner of a token that has not been inserted           *)

ASSUME RefreshTokensAssumption == NoToken \notin Tokens /\ NoUser \notin Users

VARIABLES
  owner,      (* user_id of each token row, NoUser before its insertion    *)
  session,    (* history: the token of the login each token descends from  *)
  next,       (* replaced_by_token_id                                      *)
  revoked,    (* is_revoked                                                *)
  expired,    (* tokens past their expires_at                              *)
  locked,     (* users whose status is LOCKED                              *)
  request     (* what each request is doing                                *)

rows == <<owner, session, next, revoked>>

vars == <<rows, expired, locked, request>>

Idle == [phase |-> "idle"]

Working ==
  [phase: {"login"}, user: Users]
  \cup [phase: {"rotate"}, token: Tokens]
  \cup [phase: {"ahead"}, token: Tokens, family: SUBSET Tokens, ahead: Tokens \cup {NoToken}]
  \cup [phase: {"back"}, token: Tokens, family: SUBSET Tokens, current: Tokens]
  \cup [phase: {"revokeFamily"}, token: Tokens, family: SUBSET Tokens]
  \cup [phase: {"revokeUser"}, user: Users, active: SUBSET Tokens]

TypeOK ==
  /\ owner \in [Tokens -> Users \cup {NoUser}]
  /\ session \in [Tokens -> Tokens]
  /\ next \in [Tokens -> Tokens \cup {NoToken}]
  /\ revoked \in [Tokens -> BOOLEAN]
  /\ expired \in SUBSET Tokens
  /\ locked \in SUBSET Users
  /\ request \in [Requests -> {Idle} \cup Working]

Init ==
  /\ owner = [t \in Tokens |-> NoUser]
  /\ session = [t \in Tokens |-> t]
  /\ next = [t \in Tokens |-> NoToken]
  /\ revoked = [t \in Tokens |-> FALSE]
  /\ expired = {}
  /\ locked = {}
  /\ request = [r \in Requests |-> Idle]

Fresh(t) == owner[t] = NoUser

Become(r, work) == request' = [request EXCEPT ![r] = work]

-----------------------------------------------------------------------------
(* authenticate with the right password: the status is judged when the     *)
(* user is read ...                                                        *)
Login(r, u) ==
  /\ request[r].phase = "idle"
  /\ u \notin locked
  /\ Become(r, [phase |-> "login", user |-> u])
  /\ UNCHANGED <<rows, expired, locked>>

(* ... and _issue_refresh_token inserts the token.                         *)
Issue(r, t) ==
  /\ request[r].phase = "login"
  /\ Fresh(t)
  /\ owner' = [owner EXCEPT ![t] = request[r].user]
  /\ session' = [session EXCEPT ![t] = t]
  /\ Become(r, Idle)
  /\ UNCHANGED <<next, revoked, expired, locked>>

(* The fifth failed attempt locks the user; refresh tokens are left alone. *)
Lock(u) ==
  /\ locked' = locked \cup {u}
  /\ UNCHANGED <<rows, expired, request>>

Expire(t) ==
  /\ ~ Fresh(t)
  /\ expired' = expired \cup {t}
  /\ UNCHANGED <<rows, locked, request>>

-----------------------------------------------------------------------------
(* refresh.                                                                *)

(* The token is looked up and judged: unknown and expired ones are refused *)
(* before anything else, a revoked one starts _revoke_token_family.  The   *)
(* status of the user is not judged.                                       *)
Present(r, t) ==
  /\ request[r].phase = "idle"
  /\ ~ Fresh(t)
  /\ t \notin expired
  /\ Become(r, IF revoked[t]
               THEN [phase |-> "ahead", token |-> t, family |-> {t}, ahead |-> next[t]]
               ELSE [phase |-> "rotate", token |-> t])
  /\ UNCHANGED <<rows, expired, locked>>

(* The new token is inserted, the old one revoked and linked to it.        *)
RotateKeepsOld(r, n) ==  (* mutation: is_revoked is not set                *)
  LET t == request[r].token
  IN  /\ request[r].phase = "rotate"
      /\ Fresh(n)
      /\ owner' = [owner EXCEPT ![n] = owner[t]]
      /\ session' = [session EXCEPT ![n] = session[t]]
      /\ next' = [next EXCEPT ![t] = n]
      /\ Become(r, Idle)
      /\ UNCHANGED <<revoked, expired, locked>>

RotateLinksBoth(r, n) ==  (* mutation: each token replaced by the other    *)
  LET t == request[r].token
  IN  /\ request[r].phase = "rotate"
      /\ Fresh(n)
      /\ owner' = [owner EXCEPT ![n] = owner[t]]
      /\ session' = [session EXCEPT ![n] = session[t]]
      /\ next' = [next EXCEPT ![t] = n, ![n] = t]
      /\ revoked' = [revoked EXCEPT ![t] = TRUE]
      /\ Become(r, Idle)
      /\ UNCHANGED <<expired, locked>>

Rotate(r, n) ==
  LET t == request[r].token
  IN  /\ request[r].phase = "rotate"
      /\ Fresh(n)
      /\ owner' = [owner EXCEPT ![n] = owner[t]]
      /\ session' = [session EXCEPT ![n] = session[t]]
      /\ next' = [next EXCEPT ![t] = n]
      /\ revoked' = [revoked EXCEPT ![t] = TRUE]
      /\ Become(r, Idle)
      /\ UNCHANGED <<expired, locked>>

-----------------------------------------------------------------------------
(* _revoke_token_family: one statement for each token the links lead to,   *)
(* forward and then backward, and one commit.                              *)

WalkAhead(r) ==
  LET t == request[r].token
      n == request[r].ahead
  IN  /\ request[r].phase = "ahead"
      /\ Become(r, IF n = NoToken
                   THEN [phase |-> "back", token |-> t,
                         family |-> request[r].family, current |-> t]
                   ELSE [phase |-> "ahead", token |-> t,
                         family |-> request[r].family \cup {n}, ahead |-> next[n]])
      /\ UNCHANGED <<rows, expired, locked>>

PredecessorsByValue(c) ==  (* mutation: compares the wrong column          *)
  {p \in Tokens : owner[p] # NoUser /\ next[p] = next[c]}

Predecessors(c) == {p \in Tokens : next[p] = c}

WalkBack(r) ==
  LET t == request[r].token
      before == Predecessors(request[r].current)
  IN  /\ request[r].phase = "back"
      /\ \/ /\ before = {}
            /\ Become(r, [phase |-> "revokeFamily", token |-> t,
                          family |-> request[r].family])
         \/ \E p \in before :
              Become(r, [phase |-> "back", token |-> t,
                         family |-> request[r].family \cup {p}, current |-> p])
      /\ UNCHANGED <<rows, expired, locked>>

RevokeFamily(r) ==
  /\ request[r].phase = "revokeFamily"
  /\ revoked' = [t \in Tokens |-> revoked[t] \/ t \in request[r].family]
  /\ Become(r, Idle)
  /\ UNCHANGED <<owner, session, next, expired, locked>>

-----------------------------------------------------------------------------
(* revoke_all_user_tokens, from DELETE /admin/users/{user_id}/sessions and *)
(* from confirm_reset: select the live tokens, write them, commit.         *)

ActiveOf(u) == {t \in Tokens : owner[t] = u /\ ~ revoked[t] /\ t \notin expired}

SelectActive(r, u) ==
  /\ request[r].phase = "idle"
  /\ Become(r, [phase |-> "revokeUser", user |-> u, active |-> ActiveOf(u)])
  /\ UNCHANGED <<rows, expired, locked>>

RevokeUser(r) ==
  /\ request[r].phase = "revokeUser"
  /\ revoked' = [t \in Tokens |-> revoked[t] \/ t \in request[r].active]
  /\ Become(r, Idle)
  /\ UNCHANGED <<owner, session, next, expired, locked>>

(* An error, or the end of the process: the transaction is rolled back.    *)
Fail(r) ==
  /\ request[r].phase # "idle"
  /\ Become(r, Idle)
  /\ UNCHANGED <<rows, expired, locked>>

Walk(r) == WalkAhead(r) \/ WalkBack(r) \/ RevokeFamily(r)

Next ==
  \/ \E r \in Requests, u \in Users : Login(r, u) \/ SelectActive(r, u)
  \/ \E r \in Requests, t \in Tokens : Issue(r, t) \/ Present(r, t) \/ Rotate(r, t)
  \/ \E r \in Requests : Walk(r) \/ RevokeUser(r) \/ Fail(r)
  \/ \E u \in Users : Lock(u)
  \/ \E t \in Tokens : Expire(t)

Spec == Init /\ [][Next]_vars

(* A request that walks a family goes on to the next statement.            *)
FairSpec == Spec /\ \A r \in Requests : WF_vars(Walk(r))

-----------------------------------------------------------------------------
(* Properties.                                                             *)

(* A token that was replaced is revoked, and its replacement is of the     *)
(* same user and session and replaces no other token: the backward walk    *)
(* of _revoke_token_family, which reads one row, never finds two.          *)
LinksAreSound ==
  \A t \in Tokens : next[t] # NoToken =>
    /\ ~ Fresh(t) /\ ~ Fresh(next[t])
    /\ revoked[t]
    /\ owner[next[t]] = owner[t]
    /\ session[next[t]] = session[t]
    /\ \A s \in Tokens : next[s] = next[t] => s = t

(* Following the links comes to an end, whatever set of tokens one starts  *)
(* with: no rotation, however interleaved, ties a chain into a loop.       *)
ChainsEnd ==
  \A S \in SUBSET Tokens : S # {} => \E t \in S : next[t] \notin S

(* No request makes a revoked token good again: writes of is_revoked race, *)
(* but they all write TRUE.                                                *)
RevokedForGood ==
  [][\A t \in Tokens : revoked[t] => revoked'[t]]_revoked

(* The revocation of a family reaches tokens of its session only: a reuse  *)
(* in one session never ends another.                                      *)
RevocationStaysInSession ==
  \A r \in Requests : request[r].phase \in {"ahead", "back", "revokeFamily"} =>
    \A t \in request[r].family :
      ~ Fresh(t) /\ session[t] = session[request[r].token]

(* A request that presented a revoked token is answered: the walks end.    *)
ReuseIsAnswered ==
  \A r \in Requests : (request[r].phase = "ahead") ~> (request[r].phase = "idle")

-----------------------------------------------------------------------------
(* Statements of the documentation that the code does not keep, or keeps   *)
(* only as long as one request is served at a time.                        *)

(* Identity design, property 6: a refresh links "the old token to the new  *)
(* one", so that every token but the first of a session has a predecessor. *)
(* Kept by one request at a time; of two refreshes of one token the second *)
(* overwrites the link of the first.                                       *)
RotationIsLinked ==
  \A t \in Tokens : session[t] # t => Predecessors(t) # {}

(* The tokens that the links lead to from t, t among them.                 *)
Chain(t) ==
  {u \in Tokens : \A S \in SUBSET Tokens :
     t \in S /\ (\A s \in S : next[s] \in S \cup {NoToken}) => u \in S}

(* Identity design, property 7: presenting a revoked token revokes "the    *)
(* entire chain linked via ReplacedByTokenID".  Kept by one request at a   *)
(* time; a refresh that commits behind the walk adds a token it misses.    *)
ReuseEndsFamily ==
  [][\A r \in Requests :
       RevokeFamily(r) => \A t \in Chain(request[r].token) : revoked'[t]]_vars

(* Requirement 4.6: revoking the sessions of a user revokes "all refresh   *)
(* tokens for that user".  Kept by one request at a time.                  *)
RevokeUserEndsAll ==
  [][\A r \in Requests :
       RevokeUser(r) => \A t \in Tokens :
         owner[t] = request[r].user => revoked'[t] \/ t \in expired]_vars

(* Requirement 4.5: when a user becomes Locked, "immediately revoke all    *)
(* active refresh tokens for that user".                                   *)
LockedHasNoLiveToken == \A u \in locked : ActiveOf(u) = {}
=============================================================================
