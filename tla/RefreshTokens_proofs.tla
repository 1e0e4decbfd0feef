------------------------ MODULE RefreshTokens_proofs ------------------------
(***************************************************************************)
(* Proofs about module RefreshTokens, for any tokens, users and requests.  *)
(* The rows carry no version, so requests act on what they read long ago.  *)
(* The proofs rest on what cannot go stale: the owner and the session of a *)
(* row never change once it is inserted, is_revoked is only ever set, and  *)
(* a link always leads to the row inserted with it, which is fresh.        *)
(***************************************************************************)
EXTENDS RefreshTokens, TLAPS

(* What a request at work is doing, told by its phase.                     *)
LEMMA WorkShape ==
  ASSUME TypeOK, NEW r \in Requests
  PROVE  /\ request[r].phase = "login" => request[r].user \in Users
         /\ request[r].phase = "rotate" => request[r].token \in Tokens
         /\ request[r].phase = "ahead" =>
              /\ request[r].token \in Tokens
              /\ request[r].family \in SUBSET Tokens
              /\ request[r].ahead \in Tokens \cup {NoToken}
         /\ request[r].phase = "back" =>
              /\ request[r].token \in Tokens
              /\ request[r].family \in SUBSET Tokens
              /\ request[r].current \in Tokens
         /\ request[r].phase = "revokeFamily" =>
              /\ request[r].token \in Tokens
              /\ request[r].family \in SUBSET Tokens
         /\ request[r].phase = "revokeUser" => request[r].active \in SUBSET Tokens
<1>1. request[r] \in {Idle} \cup Working
  BY DEF TypeOK
<1> QED
  BY <1>1 DEF Working, Idle

LEMMA BecomeType ==
  ASSUME TypeOK, NEW r \in Requests, NEW work \in {Idle} \cup Working, Become(r, work)
  PROVE  request' \in [Requests -> {Idle} \cup Working]
  BY DEF TypeOK, Become

LEMMA TypeInit == Init => TypeOK
  BY DEF Init, TypeOK

LEMMA TypeStep == TypeOK /\ [Next]_vars => TypeOK'
<1> SUFFICES ASSUME TypeOK, [Next]_vars PROVE TypeOK'
  OBVIOUS
<1>1. ASSUME NEW r \in Requests, NEW u \in Users, Login(r, u) PROVE TypeOK'
  <2>1. [phase |-> "login", user |-> u] \in Working
    BY DEF Working
  <2>2. request' \in [Requests -> {Idle} \cup Working]
    BY <1>1, <2>1, BecomeType DEF Login
  <2> QED
    BY <1>1, <2>2 DEF Login, TypeOK, rows
<1>2. ASSUME NEW r \in Requests, NEW u \in Users, SelectActive(r, u) PROVE TypeOK'
  <2>1. [phase |-> "revokeUser", user |-> u, active |-> ActiveOf(u)] \in Working
    BY DEF Working, ActiveOf
  <2>2. request' \in [Requests -> {Idle} \cup Working]
    BY <1>2, <2>1, BecomeType DEF SelectActive
  <2> QED
    BY <1>2, <2>2 DEF SelectActive, TypeOK, rows
<1>3. ASSUME NEW r \in Requests, NEW t \in Tokens, Issue(r, t) PROVE TypeOK'
  <2>1. request' \in [Requests -> {Idle} \cup Working]
    BY <1>3, BecomeType DEF Issue
  <2>2. request[r].user \in Users
    BY <1>3, WorkShape DEF Issue
  <2> QED
    BY <1>3, <2>1, <2>2 DEF Issue, TypeOK
<1>4. ASSUME NEW r \in Requests, NEW t \in Tokens, Present(r, t) PROVE TypeOK'
  <2>1. [phase |-> "rotate", token |-> t] \in Working
    BY DEF Working
  <2>2. [phase |-> "ahead", token |-> t, family |-> {t}, ahead |-> next[t]] \in Working
    BY DEF Working, TypeOK
  <2>3. request' \in [Requests -> {Idle} \cup Working]
    BY <1>4, <2>1, <2>2, BecomeType DEF Present
  <2> QED
    BY <1>4, <2>3 DEF Present, TypeOK, rows
<1>5. ASSUME NEW r \in Requests, NEW n \in Tokens, Rotate(r, n) PROVE TypeOK'
  <2>1. request' \in [Requests -> {Idle} \cup Working]
    BY <1>5, BecomeType DEF Rotate
  <2>2. request[r].token \in Tokens
    BY <1>5, WorkShape DEF Rotate
  <2> QED
    BY <1>5, <2>1, <2>2 DEF Rotate, TypeOK
<1>6. ASSUME NEW r \in Requests, WalkAhead(r) PROVE TypeOK'
  <2> DEFINE t == request[r].token
             n == request[r].ahead
             F == request[r].family
  <2>1. t \in Tokens /\ F \in SUBSET Tokens /\ n \in Tokens \cup {NoToken}
    BY <1>6, WorkShape DEF WalkAhead
  <2>2. [phase |-> "back", token |-> t, family |-> F, current |-> t] \in Working
    BY <2>1 DEF Working
  <2>3. n # NoToken =>
          [phase |-> "ahead", token |-> t, family |-> F \cup {n}, ahead |-> next[n]]
            \in Working
    BY <2>1 DEF Working, TypeOK
  <2>4. request' \in [Requests -> {Idle} \cup Working]
    BY <1>6, <2>2, <2>3, BecomeType DEF WalkAhead
  <2> QED
    BY <1>6, <2>4 DEF WalkAhead, TypeOK, rows
<1>7. ASSUME NEW r \in Requests, WalkBack(r) PROVE TypeOK'
  <2> DEFINE t == request[r].token
             F == request[r].family
  <2>1. t \in Tokens /\ F \in SUBSET Tokens
    BY <1>7, WorkShape DEF WalkBack
  <2>2. [phase |-> "revokeFamily", token |-> t, family |-> F] \in Working
    BY <2>1 DEF Working
  <2>3. \A p \in Tokens :
          [phase |-> "back", token |-> t, family |-> F \cup {p}, current |-> p] \in Working
    BY <2>1 DEF Working
  <2>4. request' \in [Requests -> {Idle} \cup Working]
    BY <1>7, <2>2, <2>3, BecomeType DEF WalkBack, Predecessors
  <2> QED
    BY <1>7, <2>4 DEF WalkBack, TypeOK, rows
<1>8. ASSUME NEW r \in Requests, RevokeFamily(r) \/ RevokeUser(r) PROVE TypeOK'
  <2>1. request' \in [Requests -> {Idle} \cup Working]
    BY <1>8, BecomeType DEF RevokeFamily, RevokeUser
  <2>2. revoked' \in [Tokens -> BOOLEAN]
    BY <1>8 DEF RevokeFamily, RevokeUser, TypeOK
  <2> QED
    BY <1>8, <2>1, <2>2 DEF RevokeFamily, RevokeUser, TypeOK
<1>9. ASSUME NEW r \in Requests, Fail(r) PROVE TypeOK'
  <2>1. request' \in [Requests -> {Idle} \cup Working]
    BY <1>9, BecomeType DEF Fail
  <2> QED
    BY <1>9, <2>1 DEF Fail, TypeOK, rows
<1>10. ASSUME NEW u \in Users, Lock(u) PROVE TypeOK'
  BY <1>10 DEF Lock, TypeOK, rows
<1>11. ASSUME NEW t \in Tokens, Expire(t) PROVE TypeOK'
  BY <1>11 DEF Expire, TypeOK, rows
<1>12. CASE UNCHANGED vars
  BY <1>12 DEF TypeOK, vars, rows
<1> QED
  BY <1>1, <1>2, <1>3, <1>4, <1>5, <1>6, <1>7, <1>8, <1>9, <1>10, <1>11, <1>12
  DEF Next, Walk

(* The variables of the token component keep their types.                  *)
THEOREM TypeCorrect == Spec => []TypeOK
  BY TypeInit, TypeStep, PTL DEF Spec

-----------------------------------------------------------------------------
(* The token a request holds has been inserted, and whatever its walk has  *)
(* met, or is about to read, is of the same session.                       *)
OfSession(t, s) == ~ Fresh(t) /\ session[t] = s

HeldInv ==
  \A r \in Requests :
    /\ request[r].phase = "rotate" => ~ Fresh(request[r].token)
    /\ request[r].phase \in {"ahead", "back", "revokeFamily"} =>
         \A t \in request[r].family : OfSession(t, session[request[r].token])
    /\ request[r].phase = "ahead" =>
         /\ ~ Fresh(request[r].token)
         /\ request[r].ahead # NoToken =>
              OfSession(request[r].ahead, session[request[r].token])
    /\ request[r].phase = "back" =>
         /\ ~ Fresh(request[r].token)
         /\ OfSession(request[r].current, session[request[r].token])
    /\ request[r].phase = "revokeFamily" => ~ Fresh(request[r].token)

IInv == LinksAreSound /\ HeldInv

LEMMA ChainInit == Init => IInv /\ ChainsEnd
  BY RefreshTokensAssumption
  DEF Init, IInv, LinksAreSound, HeldInv, ChainsEnd, Idle

(* A step after which every row is where it was, or newly inserted, leaves *)
(* alone what the other requests hold.                                     *)
Grows ==
  \A t \in Tokens : ~ Fresh(t) => owner'[t] = owner[t] /\ session'[t] = session[t]

LEMMA HeldByOthers ==
  ASSUME TypeOK, HeldInv, Grows,
         NEW r \in Requests, request' = [request EXCEPT ![r] = Idle]
  PROVE  HeldInv'
<1> SUFFICES ASSUME NEW q \in Requests, q # r
             PROVE  /\ request[q].phase = "rotate" => ~ Fresh(request[q].token)'
                    /\ request[q].phase \in {"ahead", "back", "revokeFamily"} =>
                         \A t \in request[q].family :
                           OfSession(t, session[request[q].token])'
                    /\ request[q].phase = "ahead" =>
                         /\ ~ Fresh(request[q].token)'
                         /\ request[q].ahead # NoToken =>
                              OfSession(request[q].ahead, session[request[q].token])'
                    /\ request[q].phase = "back" =>
                         /\ ~ Fresh(request[q].token)'
                         /\ OfSession(request[q].current, session[request[q].token])'
                    /\ request[q].phase = "revokeFamily" => ~ Fresh(request[q].token)'
  BY DEF HeldInv, TypeOK, Idle
<1> QED
  BY WorkShape DEF HeldInv, Grows, OfSession, Fresh

(* A step that writes no row, and after which one request holds only what  *)
(* it may.                                                                 *)
HeldBy(r) ==
  /\ request[r].phase = "rotate" => ~ Fresh(request[r].token)
  /\ request[r].phase \in {"ahead", "back", "revokeFamily"} =>
       /\ ~ Fresh(request[r].token)
       /\ \A t \in request[r].family : OfSession(t, session[request[r].token])
  /\ request[r].phase = "ahead" /\ request[r].ahead # NoToken =>
       OfSession(request[r].ahead, session[request[r].token])
  /\ request[r].phase = "back" => OfSession(request[r].current, session[request[r].token])

LEMMA QuietStep ==
  ASSUME TypeOK, IInv, ChainsEnd, UNCHANGED rows,
         NEW r \in Requests, NEW work, Become(r, work), HeldBy(r)'
  PROVE  IInv' /\ ChainsEnd'
<1>1. LinksAreSound' /\ ChainsEnd'
  BY DEF IInv, LinksAreSound, ChainsEnd, rows, Fresh
<1>2. HeldInv'
  BY DEF IInv, HeldInv, HeldBy, OfSession, Fresh, Become, TypeOK, rows
<1> QED
  BY <1>1, <1>2 DEF IInv

LEMMA ChainStep == TypeOK /\ IInv /\ ChainsEnd /\ [Next]_vars => IInv' /\ ChainsEnd'
<1> SUFFICES ASSUME TypeOK, IInv, ChainsEnd, [Next]_vars PROVE IInv' /\ ChainsEnd'
  OBVIOUS
<1>1. ASSUME NEW r \in Requests, NEW u \in Users, Login(r, u) \/ SelectActive(r, u)
      PROVE  IInv' /\ ChainsEnd'
  <2>1. PICK work \in Working :
          /\ Become(r, work)
          /\ work.phase \in {"login", "revokeUser"}
          /\ UNCHANGED rows
    <3>1. [phase |-> "login", user |-> u] \in Working
      BY DEF Working
    <3>2. [phase |-> "revokeUser", user |-> u, active |-> ActiveOf(u)] \in Working
      BY DEF Working, ActiveOf
    <3> QED
      BY <1>1, <3>1, <3>2 DEF Login, SelectActive
  <2>2. HeldBy(r)'
    BY <2>1 DEF HeldBy, Become, TypeOK
  <2> QED
    BY <2>1, <2>2, QuietStep
<1>2. ASSUME NEW r \in Requests, NEW t \in Tokens, Issue(r, t)
      PROVE  IInv' /\ ChainsEnd'
  <2>1. Fresh(t) /\ next' = next /\ revoked' = revoked
    BY <1>2 DEF Issue
  <2>2. /\ \A s \in Tokens : s # t => owner'[s] = owner[s] /\ session'[s] = session[s]
        /\ owner'[t] # NoUser
    BY <1>2, WorkShape, RefreshTokensAssumption DEF Issue, TypeOK
  <2>3. LinksAreSound'
    BY <2>1, <2>2 DEF IInv, LinksAreSound, Fresh, TypeOK
  <2>4. HeldInv'
    <3>1. Grows
      BY <2>1, <2>2 DEF Grows, Fresh
    <3> QED
      BY <1>2, <3>1, HeldByOthers DEF Issue, Become, IInv
  <2>5. ChainsEnd'
    BY <2>1 DEF ChainsEnd
  <2> QED
    BY <2>3, <2>4, <2>5 DEF IInv
<1>3. ASSUME NEW r \in Requests, NEW t \in Tokens, Present(r, t)
      PROVE  IInv' /\ ChainsEnd'
  <2>1. HeldBy(r)'
    <3>1. CASE revoked[t]
      <4>1. request'[r] =
              [phase |-> "ahead", token |-> t, family |-> {t}, ahead |-> next[t]]
        BY <1>3, <3>1 DEF Present, Become, TypeOK
      <4>2. next[t] # NoToken => OfSession(next[t], session[t])
        BY <1>3 DEF IInv, LinksAreSound, OfSession
      <4> QED
        BY <1>3, <4>1, <4>2 DEF HeldBy, Present, rows, OfSession, Fresh
    <3>2. CASE ~ revoked[t]
      <4>1. request'[r] = [phase |-> "rotate", token |-> t]
        BY <1>3, <3>2 DEF Present, Become, TypeOK
      <4> QED
        BY <1>3, <4>1 DEF HeldBy, Present, rows, Fresh
    <3> QED
      BY <3>1, <3>2
  <2> QED
    BY <1>3, <2>1, QuietStep DEF Present
<1>4. ASSUME NEW r \in Requests, NEW n \in Tokens, Rotate(r, n)
      PROVE  IInv' /\ ChainsEnd'
  <2> DEFINE t == request[r].token
  <2>1. t \in Tokens /\ ~ Fresh(t) /\ Fresh(n) /\ t # n
    BY <1>4, WorkShape DEF Rotate, IInv, HeldInv
  <2>2. /\ next[n] = NoToken
        /\ \A s \in Tokens : next[s] # n
    BY <2>1, RefreshTokensAssumption DEF IInv, LinksAreSound, TypeOK
  <2>3. /\ next' = [next EXCEPT ![t] = n]
        /\ revoked' = [revoked EXCEPT ![t] = TRUE]
        /\ owner' = [owner EXCEPT ![n] = owner[t]]
        /\ session' = [session EXCEPT ![n] = session[t]]
    BY <1>4 DEF Rotate
  <2>4. LinksAreSound'
    <3> SUFFICES ASSUME NEW s \in Tokens, (next[s] # NoToken)'
                 PROVE  /\ ~ Fresh(s)' /\ ~ Fresh(next[s])'
                        /\ revoked'[s]
                        /\ owner'[next'[s]] = owner'[s]
                        /\ session'[next'[s]] = session'[s]
                        /\ \A u \in Tokens : next'[u] = next'[s] => u = s
      BY DEF LinksAreSound
    <3>1. CASE s = t
      BY <2>1, <2>2, <2>3, <3>1 DEF TypeOK, Fresh
    <3>2. CASE s # t
      <4>1. next'[s] = next[s] /\ next[s] # NoToken /\ next[s] # n
        BY <2>2, <2>3, <3>2 DEF TypeOK
      <4>2. s # n /\ next[s] \in Tokens
        BY <2>2, <4>1 DEF TypeOK
      <4> QED
        BY <2>1, <2>3, <3>2, <4>1, <4>2 DEF TypeOK, IInv, LinksAreSound, Fresh
    <3> QED
      BY <3>1, <3>2
  <2>5. HeldInv'
    <3>1. Grows
      BY <2>1, <2>3 DEF Grows, Fresh, TypeOK
    <3> QED
      BY <1>4, <3>1, HeldByOthers DEF Rotate, Become, IInv
  <2>6. ChainsEnd'
    <3> SUFFICES ASSUME NEW S \in SUBSET Tokens, S # {}
                 PROVE  \E s \in S : next'[s] \notin S
      BY DEF ChainsEnd
    <3>1. CASE n \in S
      BY <2>1, <2>2, <2>3, <3>1, RefreshTokensAssumption DEF TypeOK
    <3>2. CASE n \notin S /\ t \in S
      BY <2>3, <3>2 DEF TypeOK
    <3>3. CASE n \notin S /\ t \notin S
      BY <2>3, <3>3 DEF ChainsEnd, TypeOK
    <3> QED
      BY <3>1, <3>2, <3>3
  <2> QED
    BY <2>4, <2>5, <2>6 DEF IInv
<1>5. ASSUME NEW r \in Requests, WalkAhead(r)
      PROVE  IInv' /\ ChainsEnd'
  <2> DEFINE t == request[r].token
             n == request[r].ahead
             F == request[r].family
  <2>1. /\ t \in Tokens /\ F \in SUBSET Tokens /\ n \in Tokens \cup {NoToken}
        /\ ~ Fresh(t)
        /\ \A s \in F : OfSession(s, session[t])
        /\ n # NoToken => OfSession(n, session[t])
    BY <1>5, WorkShape DEF WalkAhead, IInv, HeldInv
  <2>2. HeldBy(r)'
    <3>1. CASE n = NoToken
      <4>1. request'[r] = [phase |-> "back", token |-> t, family |-> F, current |-> t]
        BY <1>5, <3>1 DEF WalkAhead, Become, TypeOK
      <4> QED
        BY <1>5, <2>1, <4>1 DEF HeldBy, WalkAhead, rows, OfSession, Fresh
    <3>2. CASE n # NoToken
      <4>1. request'[r] =
              [phase |-> "ahead", token |-> t, family |-> F \cup {n}, ahead |-> next[n]]
        BY <1>5, <3>2 DEF WalkAhead, Become, TypeOK
      <4>2. next[n] # NoToken => OfSession(next[n], session[t])
        BY <2>1, <3>2 DEF IInv, LinksAreSound, OfSession
      <4> QED
        BY <1>5, <2>1, <3>2, <4>1, <4>2 DEF HeldBy, WalkAhead, rows, OfSession, Fresh
    <3> QED
      BY <3>1, <3>2
  <2> QED
    BY <1>5, <2>2, QuietStep DEF WalkAhead
<1>6. ASSUME NEW r \in Requests, WalkBack(r)
      PROVE  IInv' /\ ChainsEnd'
  <2> DEFINE t == request[r].token
             c == request[r].current
             F == request[r].family
  <2>1. /\ t \in Tokens /\ F \in SUBSET Tokens /\ c \in Tokens
        /\ ~ Fresh(t)
        /\ \A s \in F : OfSession(s, session[t])
        /\ OfSession(c, session[t])
    BY <1>6, WorkShape DEF WalkBack, IInv, HeldInv
  <2>2. HeldBy(r)'
    <3>1. CASE Become(r, [phase |-> "revokeFamily", token |-> t, family |-> F])
      <4>1. request'[r] = [phase |-> "revokeFamily", token |-> t, family |-> F]
        BY <3>1 DEF Become, TypeOK
      <4> QED
        BY <1>6, <2>1, <4>1 DEF HeldBy, WalkBack, rows, OfSession, Fresh
    <3>2. ASSUME NEW p \in Predecessors(c),
                 Become(r, [phase |-> "back", token |-> t,
                            family |-> F \cup {p}, current |-> p])
          PROVE  HeldBy(r)'
      <4>1. request'[r] =
              [phase |-> "back", token |-> t, family |-> F \cup {p}, current |-> p]
        BY <3>2 DEF Become, TypeOK
      <4>2. OfSession(p, session[t])
        BY <2>1, <3>2, RefreshTokensAssumption
        DEF Predecessors, IInv, LinksAreSound, OfSession
      <4> QED
        BY <1>6, <2>1, <4>1, <4>2 DEF HeldBy, WalkBack, rows, OfSession, Fresh
    <3> QED
      BY <1>6, <3>1, <3>2 DEF WalkBack
  <2> QED
    BY <1>6, <2>2, QuietStep DEF WalkBack
<1>7. ASSUME NEW r \in Requests, RevokeFamily(r) \/ RevokeUser(r)
      PROVE  IInv' /\ ChainsEnd'
  <2>1. /\ UNCHANGED <<owner, session, next>>
        /\ \A t \in Tokens : revoked[t] => revoked'[t]
    BY <1>7 DEF RevokeFamily, RevokeUser
  <2>2. LinksAreSound' /\ ChainsEnd'
    BY <2>1 DEF IInv, LinksAreSound, ChainsEnd, Fresh
  <2>3. HeldInv'
    <3>1. Grows
      BY <2>1 DEF Grows
    <3> QED
      BY <1>7, <3>1, HeldByOthers DEF RevokeFamily, RevokeUser, Become, IInv
  <2> QED
    BY <2>2, <2>3 DEF IInv
<1>8. ASSUME NEW r \in Requests, Fail(r) PROVE IInv' /\ ChainsEnd'
  <2>1. HeldBy(r)'
    BY <1>8 DEF HeldBy, Fail, Become, Idle, TypeOK
  <2> QED
    BY <1>8, <2>1, QuietStep DEF Fail
<1>9. CASE UNCHANGED <<rows, request>>
  BY <1>9 DEF IInv, LinksAreSound, HeldInv, ChainsEnd, OfSession, Fresh, rows
<1>10. ASSUME (\E u \in Users : Lock(u)) \/ (\E t \in Tokens : Expire(t)) \/ UNCHANGED vars
       PROVE  UNCHANGED <<rows, request>>
  BY <1>10 DEF Lock, Expire, vars
<1> QED
  BY <1>1, <1>2, <1>3, <1>4, <1>5, <1>6, <1>7, <1>8, <1>9, <1>10 DEF Next, Walk

LEMMA ChainInvariant == Spec => [](TypeOK /\ IInv /\ ChainsEnd)
  BY TypeInit, TypeStep, ChainInit, ChainStep, PTL DEF Spec

(* The links of the token table are sound: replaced means revoked, and a   *)
(* replacement replaces one token, of its own user and session.            *)
THEOREM LinksCorrect == Spec => []LinksAreSound
<1>1. IInv => LinksAreSound
  BY DEF IInv
<1> QED
  BY <1>1, ChainInvariant, PTL

(* No interleaving of rotations ties the links into a loop.                *)
THEOREM ChainsCorrect == Spec => []ChainsEnd
  BY ChainInvariant, PTL

(* A reuse in one session never ends another.                              *)
THEOREM SessionCorrect == Spec => []RevocationStaysInSession
<1>1. TypeOK /\ IInv => RevocationStaysInSession
  BY WorkShape DEF IInv, HeldInv, RevocationStaysInSession, OfSession
<1> QED
  BY <1>1, ChainInvariant, PTL

(* No request un-revokes a token.                                          *)
THEOREM RevokedCorrect == Spec => RevokedForGood
<1>1. TypeOK /\ [Next]_vars => [\A t \in Tokens : revoked[t] => revoked'[t]]_revoked
  <2> SUFFICES ASSUME TypeOK, [Next]_vars
               PROVE  \A t \in Tokens : revoked[t] => revoked'[t]
    OBVIOUS
  <2>1. ASSUME NEW r \in Requests, NEW n \in Tokens, Rotate(r, n)
        PROVE  \A t \in Tokens : revoked[t] => revoked'[t]
    BY <2>1 DEF Rotate, TypeOK
  <2>2. ASSUME NEW r \in Requests, RevokeFamily(r) \/ RevokeUser(r)
        PROVE  \A t \in Tokens : revoked[t] => revoked'[t]
    BY <2>2 DEF RevokeFamily, RevokeUser
  <2>3. CASE UNCHANGED revoked
    BY <2>3
  <2> QED
    BY <2>1, <2>2, <2>3
    DEF Next, Walk, Login, SelectActive, Issue, Present, WalkAhead, WalkBack, Fail,
        Lock, Expire, rows, vars
<1> QED
  BY <1>1, ChainInvariant, PTL DEF Spec, RevokedForGood
=============================================================================
