-------------------------- MODULE RateLimits_proofs --------------------------
(***************************************************************************)
(* Proofs about module RateLimits, for any requests, limits, window and    *)
(* clock.  They rest on what a window holds: the latest admissions, and    *)
(* all of those that are not older than the window.                        *)
(***************************************************************************)
EXTENDS RateLimits, TLAPS

(* How many of its admissions a window has forgotten.                      *)
Popped(k) == Len(admitted[k]) - Len(stamps[k])

Holds(k) ==
  /\ Popped(k) >= 0
  /\ \A i \in 1 .. Len(stamps[k]) : stamps[k][i] = admitted[k][i + Popped(k)]
  /\ \A i \in 1 .. Popped(k) : admitted[k][i] + Window < now
  /\ \A i \in 1 .. Len(admitted[k]) : admitted[k][i] <= now
  /\ Len(stamps[k]) <= cap[k]
  /\ cap[k] = 0 => Len(admitted[k]) = 0

Spread(k) ==
  \A i \in 1 .. Len(admitted[k]) :
    i + cap[k] <= Len(admitted[k]) => admitted[k][i + cap[k]] > admitted[k][i] + Window

(* The last refusal told the time at which the oldest of the admissions    *)
(* that fill the window leaves it.                                         *)
Promised(k) ==
  /\ promise[k].at <= Len(admitted[k])
  /\ promise[k].back # 0 /\ promise[k].at = Len(admitted[k]) =>
       /\ cap[k] \in 1 .. Len(admitted[k])
       /\ promise[k].back = admitted[k][Len(admitted[k]) - cap[k] + 1] + Window + 1

WindowInv == \A k \in Kinds : Holds(k) /\ Spread(k) /\ Promised(k)

(* What was locked out stays so until its time has passed.                 *)
LockInv ==
  \A t \in locked : t <= now /\ (now < t + LockTime => lockout >= t + LockTime)

IInv == TypeOK /\ WindowInv /\ LockInv

-----------------------------------------------------------------------------
(* Type correctness.                                                       *)

LEMMA BecomeType ==
  ASSUME TypeOK, NEW r \in Requests,
         NEW work \in {Idle} \cup Serving \cup Answered, Become(r, work)
  PROVE  request' \in [Requests -> {Idle} \cup Serving \cup Answered]
  BY DEF TypeOK, Become

LEMMA ServeType ==
  ASSUME TypeOK, NEW r \in Requests, NEW k \in Kinds, NEW limit \in Limits[k],
         Serve(r, k, limit)
  PROVE  request' \in [Requests -> {Idle} \cup Serving \cup Answered]
<1>1. [phase |-> "serving", kind |-> k, limit |-> limit] \in Serving
  BY DEF Serving
<1> QED
  BY <1>1, BecomeType DEF Serve

LEMMA AnswerType ==
  ASSUME TypeOK, NEW r \in Requests, NEW served \in BOOLEAN, NEW refused \in BOOLEAN,
         Answer(r, served, refused)
  PROVE  request' \in [Requests -> {Idle} \cup Serving \cup Answered]
<1>1. [phase |-> "answered", served |-> served, refused |-> refused] \in Answered
  BY DEF Answered
<1> QED
  BY <1>1, BecomeType DEF Answer

(* A request that is served carries a limit of its kind.                   *)
LEMMA ServingShape ==
  ASSUME TypeOK, NEW r \in Requests, request[r].phase = "serving"
  PROVE  request[r].kind \in Kinds /\ request[r].limit \in Limits[request[r].kind]
<1>1. request[r] \in {Idle} \cup Serving \cup Answered
  BY DEF TypeOK
<1>2. request[r] \in Serving
  BY <1>1 DEF Idle, Answered
<1> QED
  BY <1>2 DEF Serving

LEMMA LimitType ==
  ASSUME NEW k \in Kinds, NEW limit \in Limits[k]
  PROVE  limit \in Nat \ {0}
  BY RateLimitsAssumption

(* The variables of the windows have their types after a check.            *)
WindowTypes ==
  /\ stamps \in [Kinds -> Seq(Nat)]
  /\ cap \in [Kinds -> Nat]
  /\ admitted \in [Kinds -> Seq(Nat)]
  /\ promise \in [Kinds -> Promises]

LEMMA KeptShape ==
  ASSUME TypeOK, NEW k \in Kinds, NEW n \in 0 .. Len(stamps[k])
  PROVE  /\ Kept(k, n) \in Seq(Nat)
         /\ Len(Kept(k, n)) = Len(stamps[k]) - n
         /\ \A i \in 1 .. Len(stamps[k]) - n : Kept(k, n)[i] = stamps[k][i + n]
<1>1. stamps[k] \in Seq(Nat)
  BY DEF TypeOK
<1> QED
  BY <1>1 DEF Kept

LEMMA AllowType ==
  ASSUME TypeOK, NEW k \in Kinds, NEW limit \in Limits[k], Allow(k, limit)
  PROVE  WindowTypes'
<1>1. limit \in Nat
  BY LimitType
<1>2. cap' \in [Kinds -> Nat]
  BY <1>1 DEF TypeOK, Allow, MakeWindow, Capacity
<1>3. PICK n \in 0 .. Len(stamps[k]) :
        stamps' = [stamps EXCEPT ![k] = Append(Kept(k, n), now)]
  BY DEF Allow
<1>4. Append(Kept(k, n), now) \in Seq(Nat)
  BY KeptShape DEF TypeOK
<1>5. stamps' \in [Kinds -> Seq(Nat)]
  BY <1>3, <1>4 DEF TypeOK
<1>6. admitted' \in [Kinds -> Seq(Nat)]
  BY DEF TypeOK, Allow
<1> QED
  BY <1>2, <1>5, <1>6 DEF TypeOK, Allow, WindowTypes

LEMMA RefuseType ==
  ASSUME TypeOK, NEW k \in Kinds, NEW limit \in Limits[k], Refuse(k, limit)
  PROVE  WindowTypes'
<1>1. limit \in Nat \ {0}
  BY LimitType
<1>2. cap' \in [Kinds -> Nat] /\ Capacity(k, limit) \in Nat \ {0}
  BY <1>1 DEF TypeOK, Refuse, MakeWindow, Capacity
<1>3. PICK n \in 0 .. Len(stamps[k]) :
        /\ Len(Kept(k, n)) >= Capacity(k, limit)
        /\ stamps' = [stamps EXCEPT ![k] = Kept(k, n)]
        /\ promise' = [promise EXCEPT ![k] =
             [at |-> Len(admitted[k]), back |-> Head(Kept(k, n)) + Window + 1]]
  BY DEF Refuse
<1>4. Kept(k, n) \in Seq(Nat) /\ Kept(k, n) # <<>>
  BY <1>2, <1>3, KeptShape
<1>5. Head(Kept(k, n)) + Window + 1 \in Nat /\ Len(admitted[k]) \in Nat
  BY <1>4, RateLimitsAssumption DEF TypeOK
<1>6. promise' \in [Kinds -> Promises]
  BY <1>3, <1>5 DEF TypeOK, Promises
<1>7. stamps' \in [Kinds -> Seq(Nat)]
  BY <1>3, <1>4 DEF TypeOK
<1> QED
  BY <1>2, <1>6, <1>7 DEF TypeOK, Refuse, WindowTypes

LEMMA TypeInit == Init => TypeOK
<1>1. 0 \in Nat /\ <<>> \in Seq(Nat) /\ [at |-> 0, back |-> 0] \in Promises
  BY DEF Promises
<1> QED
  BY <1>1 DEF Init, TypeOK

LEMMA TypeStep == TypeOK /\ [Next]_vars => TypeOK'
<1> SUFFICES ASSUME TypeOK, [Next]_vars
             PROVE  TypeOK'
  OBVIOUS
<1>1. CASE Tick
  BY <1>1 DEF Tick, history, TypeOK
<1>2. ASSUME NEW r \in Requests, RequestNext(r)
      PROVE  TypeOK'
  <2>1. CASE ArriveLogin(r)
    <3>1. lockout' = 0 \/ UNCHANGED lockout
      BY <2>1, Zenon DEF ArriveLogin
    <3>2. request' \in [Requests -> {Idle} \cup Serving \cup Answered]
      BY <2>1, ServeType, AnswerType DEF ArriveLogin, Kinds
    <3> QED
      BY <2>1, <3>1, <3>2 DEF ArriveLogin, history, TypeOK
  <2>2. CASE ArriveGuarded(r)
    <3>1. PICK limit \in Limits["guarded"] :
            \/ Allow("guarded", limit) /\ Serve(r, "guarded", limit)
            \/ Refuse("guarded", limit) /\ Answer(r, FALSE, TRUE)
      BY <2>2 DEF ArriveGuarded
    <3>2. WindowTypes'
      BY <3>1, AllowType, RefuseType DEF Kinds
    <3>3. request' \in [Requests -> {Idle} \cup Serving \cup Answered]
      BY <3>1, ServeType, AnswerType DEF Kinds
    <3> QED
      BY <2>2, <3>2, <3>3 DEF ArriveGuarded, WindowTypes, TypeOK
  <2>3. CASE ArriveTenant(r)
    <3>1. request' \in [Requests -> {Idle} \cup Serving \cup Answered]
      BY <2>3, ServeType DEF ArriveTenant, Kinds
    <3> QED
      BY <2>3, <3>1 DEF ArriveTenant, history, TypeOK
  <2>4. CASE FailLogin(r)
    <3>1. request[r].limit \in Limits["login"]
      BY <2>4, ServingShape DEF FailLogin
    <3>2. WindowTypes'
      BY <2>4, <3>1, AllowType, RefuseType DEF FailLogin, Kinds
    <3>3. request' \in [Requests -> {Idle} \cup Serving \cup Answered]
      BY <2>4, AnswerType DEF FailLogin
    <3>4. LockOut \/ (lockout' = lockout /\ locked' = locked)
      BY <2>4, Zenon DEF FailLogin
    <3>5. lockout' \in Nat
      BY <3>4, RateLimitsAssumption DEF LockOut, TypeOK
    <3>6. locked' \in SUBSET Nat
      <4>1. now \in Nat /\ locked \in SUBSET Nat
        BY DEF TypeOK
      <4> QED
        BY <3>4, <4>1 DEF LockOut
    <3> QED
      BY <2>4, <3>2, <3>3, <3>5, <3>6 DEF FailLogin, WindowTypes, TypeOK
  <2>5. CASE CountTenant(r)
    <3>1. request[r].limit \in Limits["tenant"]
      BY <2>5, ServingShape DEF CountTenant
    <3>2. WindowTypes'
      BY <2>5, <3>1, AllowType, RefuseType DEF CountTenant, Kinds
    <3>3. request' \in [Requests -> {Idle} \cup Serving \cup Answered]
      BY <2>5, AnswerType DEF CountTenant
    <3> QED
      BY <2>5, <3>2, <3>3 DEF CountTenant, WindowTypes, TypeOK
  <2>6. CASE Pass(r)
    <3>1. request' \in [Requests -> {Idle} \cup Serving \cup Answered]
      BY <2>6, AnswerType DEF Pass
    <3> QED
      BY <2>6, <3>1 DEF Pass, history, TypeOK
  <2>7. CASE Leave(r)
    <3>1. request' \in [Requests -> {Idle} \cup Serving \cup Answered]
      BY <2>7, BecomeType DEF Leave
    <3> QED
      BY <2>7, <3>1 DEF Leave, history, TypeOK
  <2> QED
    BY <1>2, <2>1, <2>2, <2>3, <2>4, <2>5, <2>6, <2>7 DEF RequestNext
<1>3. CASE UNCHANGED vars
  BY <1>3 DEF vars, history, TypeOK
<1> QED
  BY <1>1, <1>2, <1>3 DEF Next

(* The clock, the windows and the lockout, and what the requests are doing,*)
(* stay what their declarations say.                                       *)
THEOREM TypeCorrect == Spec => []TypeOK
  BY TypeInit, TypeStep, PTL DEF Spec

-----------------------------------------------------------------------------
(* What a window holds.                                                    *)

LEMMA PoppedShape ==
  ASSUME TypeOK, NEW k \in Kinds, Holds(k)
  PROVE  /\ Len(admitted[k]) \in Nat /\ Len(stamps[k]) \in Nat /\ Popped(k) \in Nat
         /\ Popped(k) <= Len(admitted[k])
         /\ Len(stamps[k]) = Len(admitted[k]) - Popped(k)
<1> DEFINE a == Len(admitted[k])
           s == Len(stamps[k])
           p == Popped(k)
<1>1. a \in Nat /\ s \in Nat
  BY DEF TypeOK
<1>2. p >= 0 /\ p = a - s
  BY DEF Holds, Popped
<1> HIDE DEF a, s, p
<1>3. p \in Nat /\ p <= a /\ s = a - p
  BY <1>1, <1>2
<1> QED
  BY <1>1, <1>3 DEF a, s, p

(* A check leaves the other windows alone, and time the rest.              *)
LEMMA OtherWindow ==
  ASSUME TypeOK, WindowInv, NEW k \in Kinds, now' \in Nat, now' >= now,
         stamps'[k] = stamps[k], cap'[k] = cap[k],
         admitted'[k] = admitted[k], promise'[k] = promise[k]
  PROVE  (Holds(k) /\ Spread(k) /\ Promised(k))'
<1>1. Holds(k) /\ Spread(k) /\ Promised(k)
  BY DEF WindowInv
<1>2. stamps[k] \in Seq(Nat) /\ admitted[k] \in Seq(Nat) /\ now \in Nat /\ Window \in Nat
  BY RateLimitsAssumption DEF TypeOK
<1>3. Holds(k)'
  <2>1. Popped(k)' = Popped(k)
    BY DEF Popped
  <2>2. Popped(k) \in Nat /\ Popped(k) <= Len(admitted[k])
    BY <1>1, PoppedShape
  <2>3. \A i \in 1 .. Popped(k) : admitted[k][i] + Window < now'
    BY <1>1, <1>2, <2>2 DEF Holds
  <2>4. \A i \in 1 .. Len(admitted[k]) : admitted[k][i] <= now'
    BY <1>1, <1>2 DEF Holds
  <2> QED
    BY <1>1, <2>1, <2>3, <2>4 DEF Holds
<1>4. Spread(k)'
  BY <1>1 DEF Spread
<1>5. Promised(k)'
  BY <1>1 DEF Promised
<1> QED
  BY <1>3, <1>4, <1>5

(* Popping the stale ones keeps the rest of the admissions in place.       *)
LEMMA KeptHolds ==
  ASSUME TypeOK, NEW k \in Kinds, Holds(k), NEW n \in 0 .. Len(stamps[k]), Stale(k, n)
  PROVE  /\ Popped(k) + n \in 0 .. Len(admitted[k])
         /\ Len(Kept(k, n)) = Len(admitted[k]) - (Popped(k) + n)
         /\ \A i \in 1 .. Len(Kept(k, n)) : Kept(k, n)[i] = admitted[k][i + (Popped(k) + n)]
         /\ \A i \in 1 .. Popped(k) + n : admitted[k][i] + Window < now
<1> DEFINE a == Len(admitted[k])
           s == Len(stamps[k])
           p == Popped(k)
           kept == Len(Kept(k, n))
<1>1. /\ a \in Nat /\ s \in Nat /\ p \in Nat /\ p <= a /\ s = a - p
      /\ n \in 0 .. s
      /\ kept = s - n
  BY PoppedShape, KeptShape
<1>2. \A i \in 1 .. s - n : Kept(k, n)[i] = stamps[k][i + n]
  BY KeptShape
<1>3. \A i \in 1 .. s : stamps[k][i] = admitted[k][i + p]
  BY DEF Holds
<1>4. \A i \in 1 .. p : admitted[k][i] + Window < now
  BY DEF Holds
<1>5. \A i \in 1 .. n : stamps[k][i] + Window < now
  BY DEF Stale
<1> HIDE DEF a, s, p, kept
<1>6. p + n \in 0 .. a /\ kept = a - (p + n)
  BY <1>1
<1>7. \A i \in 1 .. kept : Kept(k, n)[i] = admitted[k][i + (p + n)]
  <2> TAKE i \in 1 .. kept
  <2>1. i \in 1 .. s - n /\ i + n \in 1 .. s /\ (i + n) + p = i + (p + n)
    BY <1>1
  <2> QED
    BY <1>2, <1>3, <2>1
<1>8. \A i \in 1 .. p + n : admitted[k][i] + Window < now
  <2> TAKE i \in 1 .. p + n
  <2>1. CASE i \in 1 .. p
    BY <1>4, <2>1
  <2>2. CASE i - p \in 1 .. n
    <3>1. i - p \in 1 .. s /\ (i - p) + p = i
      BY <1>1, <2>2
    <3> QED
      BY <1>3, <1>5, <2>2, <3>1
  <2>3. i \in 1 .. p \/ i - p \in 1 .. n
    BY <1>1
  <2> QED
    BY <2>1, <2>2, <2>3
<1> QED
  BY <1>6, <1>7, <1>8 DEF a, p, kept

(* The capacity of a window is set once, while it is still empty.          *)
LEMMA CapacityIsKept ==
  ASSUME TypeOK, NEW k \in Kinds, Holds(k), NEW limit \in Limits[k], MakeWindow(k, limit)
  PROVE  /\ cap'[k] = Capacity(k, limit)
         /\ cap'[k] \in Nat \ {0}
         /\ cap[k] = 0 => Len(admitted[k]) = 0
         /\ cap[k] # 0 => cap'[k] = cap[k]
         /\ Len(stamps[k]) <= cap'[k]
         /\ \A j \in Kinds \ {k} : cap'[j] = cap[j]
<1>1. limit \in Nat \ {0} /\ cap \in [Kinds -> Nat]
  BY LimitType DEF TypeOK
<1>2. Len(stamps[k]) \in Nat /\ Len(stamps[k]) <= cap[k]
  BY DEF TypeOK, Holds
<1> QED
  BY <1>1, <1>2 DEF MakeWindow, Capacity, Holds

LEMMA AllowWindow ==
  ASSUME TypeOK, WindowInv, NEW k \in Kinds, NEW limit \in Limits[k],
         Allow(k, limit), UNCHANGED now
  PROVE  WindowInv'
<1>1. PICK n \in 0 .. Len(stamps[k]) :
        /\ Stale(k, n)
        /\ Len(Kept(k, n)) < Capacity(k, limit)
        /\ stamps' = [stamps EXCEPT ![k] = Append(Kept(k, n), now)]
  BY DEF Allow
<1>2. Holds(k) /\ Spread(k) /\ Promised(k)
  BY DEF WindowInv
<1>3. MakeWindow(k, limit) /\ UNCHANGED promise
  BY DEF Allow
<1> DEFINE p == Popped(k) + n
           a == Len(admitted[k])
           c == Capacity(k, limit)
<1>4. /\ p \in 0 .. a
      /\ Len(Kept(k, n)) = a - p
      /\ \A i \in 1 .. a - p : Kept(k, n)[i] = admitted[k][i + p]
      /\ \A i \in 1 .. p : admitted[k][i] + Window < now
  BY <1>1, <1>2, KeptHolds
<1>5. /\ admitted[k] \in Seq(Nat) /\ a \in Nat /\ now \in Nat
      /\ Kept(k, n) \in Seq(Nat) /\ Window \in Nat
      /\ \A i \in 1 .. a : admitted[k][i] \in Nat
  BY KeptShape, RateLimitsAssumption DEF TypeOK
<1>6. /\ cap'[k] = c
      /\ c \in Nat \ {0}
      /\ cap[k] = 0 => a = 0
      /\ cap[k] # 0 => c = cap[k]
  BY <1>2, <1>3, CapacityIsKept
<1>7. /\ stamps'[k] = Append(Kept(k, n), now)
      /\ admitted'[k] = Append(admitted[k], now)
  BY <1>1 DEF Allow, TypeOK
<1>8. /\ Len(admitted'[k]) = a + 1
      /\ \A i \in 1 .. a : admitted'[k][i] = admitted[k][i]
      /\ admitted'[k][a + 1] = now
      /\ Len(stamps'[k]) = a - p + 1
      /\ \A i \in 1 .. a - p : stamps'[k][i] = Kept(k, n)[i]
      /\ stamps'[k][a - p + 1] = now
  BY <1>4, <1>5, <1>7
<1> HIDE DEF p, a, c
<1>9. Holds(k)'
  <2>1. Popped(k)' = p
    BY <1>4, <1>5, <1>8 DEF Popped
  <2>2. \A i \in 1 .. Len(stamps'[k]) : stamps'[k][i] = admitted'[k][i + p]
    <3> TAKE i \in 1 .. Len(stamps'[k])
    <3>1. CASE i \in 1 .. a - p
      <4>1. i + p \in 1 .. a
        BY <1>4, <1>5, <3>1
      <4> QED
        BY <1>4, <1>8, <3>1, <4>1
    <3>2. CASE i = a - p + 1
      <4>1. i + p = a + 1
        BY <1>4, <1>5, <3>2
      <4> QED
        BY <1>8, <3>2, <4>1
    <3> QED
      BY <1>4, <1>5, <1>8, <3>1, <3>2
  <2>3. \A i \in 1 .. p : admitted'[k][i] + Window < now
    <3>1. \A i \in 1 .. p : i \in 1 .. a
      BY <1>4, <1>5
    <3> QED
      BY <1>4, <1>8, <3>1
  <2>4. \A i \in 1 .. a + 1 : admitted'[k][i] <= now
    <3>1. \A i \in 1 .. a : admitted[k][i] <= now
      BY <1>2 DEF Holds, a
    <3>2. \A i \in 1 .. a + 1 : i \in 1 .. a \/ i = a + 1
      BY <1>5
    <3>3. now <= now
      BY <1>5
    <3> QED
      BY <1>8, <3>1, <3>2, <3>3
  <2>5. Len(stamps'[k]) <= cap'[k]
    BY <1>1, <1>4, <1>5, <1>6, <1>8 DEF c
  <2> QED
    BY <1>4, <1>6, <1>8, <2>1, <2>2, <2>3, <2>4, <2>5 DEF Holds
<1>10. Spread(k)'
  <2> SUFFICES ASSUME NEW i \in 1 .. a + 1, i + c <= a + 1
               PROVE  admitted'[k][i + c] > admitted'[k][i] + Window
    BY <1>6, <1>8 DEF Spread
  <2>1. i \in 1 .. a
    BY <1>5, <1>6
  <2>2. CASE i + c = a + 1
    <3>1. i \in 1 .. p
      BY <1>1, <1>4, <1>5, <1>6, <2>1, <2>2 DEF c
    <3> QED
      BY <1>4, <1>5, <1>8, <2>1, <2>2, <3>1
  <2>3. CASE i + c <= a
    <3>1. cap[k] = c
      BY <1>6, <2>1
    <3>2. admitted[k][i + c] > admitted[k][i] + Window
      BY <1>2, <2>1, <2>3, <3>1 DEF Spread, a
    <3>3. i + c \in 1 .. a
      BY <1>5, <1>6, <2>1, <2>3
    <3> QED
      BY <1>8, <2>1, <3>2, <3>3
  <2>4. a \in Nat /\ c \in Nat
    BY <1>5, <1>6
  <2>5. i + c = a + 1 \/ i + c <= a
    BY <2>4
  <2> QED
    BY <2>2, <2>3, <2>5
<1>11. Promised(k)'
  <2>1. promise'[k].at <= a /\ promise'[k].at \in Nat
    BY <1>2, <1>3 DEF Promised, a, TypeOK, Promises
  <2> QED
    BY <1>5, <1>8, <2>1 DEF Promised
<1>12. ASSUME NEW j \in Kinds \ {k}
       PROVE  (Holds(j) /\ Spread(j) /\ Promised(j))'
  <2>1. stamps'[j] = stamps[j] /\ admitted'[j] = admitted[j] /\ promise'[j] = promise[j]
    BY <1>1, <1>3 DEF Allow, TypeOK
  <2>2. cap'[j] = cap[j]
    BY <1>2, <1>3, CapacityIsKept
  <2>3. now' \in Nat /\ now' >= now
    BY <1>5
  <2> QED
    BY <2>1, <2>2, <2>3, OtherWindow
<1> QED
  BY <1>9, <1>10, <1>11, <1>12 DEF WindowInv

LEMMA RefuseWindow ==
  ASSUME TypeOK, WindowInv, NEW k \in Kinds, NEW limit \in Limits[k],
         Refuse(k, limit), UNCHANGED now
  PROVE  WindowInv'
<1>1. PICK n \in 0 .. Len(stamps[k]) :
        /\ Stale(k, n)
        /\ Len(Kept(k, n)) >= Capacity(k, limit)
        /\ stamps' = [stamps EXCEPT ![k] = Kept(k, n)]
        /\ promise' = [promise EXCEPT ![k] =
             [at |-> Len(admitted[k]), back |-> Head(Kept(k, n)) + Window + 1]]
  BY DEF Refuse
<1>2. Holds(k) /\ Spread(k) /\ Promised(k)
  BY DEF WindowInv
<1>3. MakeWindow(k, limit) /\ UNCHANGED admitted
  BY DEF Refuse
<1> DEFINE p == Popped(k) + n
           a == Len(admitted[k])
           c == Capacity(k, limit)
<1>4. /\ p \in 0 .. a
      /\ Len(Kept(k, n)) = a - p
      /\ \A i \in 1 .. a - p : Kept(k, n)[i] = admitted[k][i + p]
      /\ \A i \in 1 .. p : admitted[k][i] + Window < now
  BY <1>1, <1>2, KeptHolds
<1>5. /\ admitted[k] \in Seq(Nat) /\ a \in Nat /\ now \in Nat
      /\ Kept(k, n) \in Seq(Nat) /\ Window \in Nat
      /\ Len(stamps[k]) \in Nat
      /\ Len(Kept(k, n)) = Len(stamps[k]) - n
  BY KeptShape, RateLimitsAssumption DEF TypeOK
<1>6. /\ cap'[k] = c
      /\ c \in Nat \ {0}
      /\ cap[k] = 0 => a = 0
      /\ cap[k] # 0 => c = cap[k]
      /\ Len(stamps[k]) <= c
  BY <1>2, <1>3, CapacityIsKept
<1>7. /\ stamps'[k] = Kept(k, n)
      /\ promise'[k] = [at |-> a, back |-> Head(Kept(k, n)) + Window + 1]
  BY <1>1 DEF TypeOK
(* The window is full, so it had a capacity before and nothing is popped.  *)
<1>8. /\ a - p = c
      /\ cap[k] = c
      /\ Head(Kept(k, n)) = admitted[k][a - c + 1]
  <2>1. a - p >= c /\ a - p <= c
    BY <1>1, <1>4, <1>5, <1>6
  <2>2. a - p = c
    BY <1>4, <1>5, <1>6, <2>1
  <2>3. Head(Kept(k, n)) = Kept(k, n)[1]
    BY <1>4, <1>5, <1>6, <2>2
  <2>4. 1 \in 1 .. a - p /\ 1 + p = a - c + 1
    BY <1>4, <1>5, <1>6, <2>2
  <2>5. Kept(k, n)[1] = admitted[k][1 + p]
    BY <1>4, <2>4
  <2>6. Head(Kept(k, n)) = admitted[k][a - c + 1]
    BY <2>3, <2>4, <2>5
  <2>7. a # 0
    BY <1>4, <1>5, <1>6, <2>2
  <2> QED
    BY <1>6, <2>2, <2>6, <2>7
<1> HIDE DEF p, a, c
<1>9. Holds(k)'
  <2>1. Popped(k)' = p
    BY <1>3, <1>4, <1>5, <1>7 DEF Popped, a
  <2>2. \A i \in 1 .. a : admitted[k][i] <= now
    BY <1>2 DEF Holds, a
  <2>3. p >= 0 /\ Len(stamps'[k]) = a - p /\ cap'[k] # 0
    BY <1>4, <1>5, <1>6, <1>7
  <2>4. a - p <= cap'[k]
    BY <1>5, <1>6, <1>8
  <2>5. \A i \in 1 .. a - p : stamps'[k][i] = admitted'[k][i + p]
    BY <1>3, <1>4, <1>7
  <2>6. \A i \in 1 .. p : admitted'[k][i] + Window < now'
    BY <1>3, <1>4
  <2>7. \A i \in 1 .. Len(admitted'[k]) : admitted'[k][i] <= now'
    BY <1>3, <2>2 DEF a
  <2> QED
    BY <2>1, <2>3, <2>4, <2>5, <2>6, <2>7 DEF Holds
<1>10. Spread(k)'
  BY <1>2, <1>3, <1>6, <1>8 DEF Spread
<1>11. Promised(k)'
  <2>1. c \in 1 .. a
    BY <1>4, <1>5, <1>6, <1>8
  <2> QED
    BY <1>3, <1>5, <1>6, <1>7, <1>8, <2>1 DEF Promised, a
<1>12. ASSUME NEW j \in Kinds \ {k}
       PROVE  (Holds(j) /\ Spread(j) /\ Promised(j))'
  <2>1. stamps'[j] = stamps[j] /\ admitted'[j] = admitted[j] /\ promise'[j] = promise[j]
    BY <1>1, <1>3 DEF TypeOK
  <2>2. cap'[j] = cap[j]
    BY <1>2, <1>3, CapacityIsKept
  <2>3. now' \in Nat /\ now' >= now
    BY <1>5
  <2> QED
    BY <2>1, <2>2, <2>3, OtherWindow
<1> QED
  BY <1>9, <1>10, <1>11, <1>12 DEF WindowInv

-----------------------------------------------------------------------------
(* The invariant.                                                          *)

LEMMA InvInit == Init => WindowInv /\ LockInv
<1> SUFFICES ASSUME Init
             PROVE  WindowInv /\ LockInv
  OBVIOUS
<1>1. LockInv
  BY DEF Init, LockInv
<1>2. ASSUME NEW k \in Kinds
      PROVE  Holds(k) /\ Spread(k) /\ Promised(k)
  <2>1. /\ stamps[k] = <<>> /\ admitted[k] = <<>> /\ cap[k] = 0
        /\ promise[k] = [at |-> 0, back |-> 0]
    BY DEF Init
  <2>2. Len(stamps[k]) = 0 /\ Len(admitted[k]) = 0
    BY <2>1
  <2>3. Popped(k) = 0
    BY <2>2 DEF Popped
  <2> QED
    BY <2>1, <2>2, <2>3 DEF Holds, Spread, Promised
<1> QED
  BY <1>1, <1>2 DEF WindowInv

LEMMA WindowKept ==
  ASSUME TypeOK, WindowInv, now' \in Nat, now' >= now,
         UNCHANGED <<stamps, cap, admitted, promise>>
  PROVE  WindowInv'
  BY OtherWindow DEF WindowInv

LEMMA WindowStep == TypeOK /\ WindowInv /\ [Next]_vars => WindowInv'
<1> SUFFICES ASSUME TypeOK, WindowInv, [Next]_vars
             PROVE  WindowInv'
  OBVIOUS
<1>1. now \in Nat /\ now + 1 \in Nat /\ now <= now /\ now <= now + 1
  BY DEF TypeOK
<1>2. CASE Tick
  BY <1>1, <1>2, WindowKept DEF Tick, history
<1>3. ASSUME NEW r \in Requests, RequestNext(r)
      PROVE  WindowInv'
  <2>1. CASE ArriveGuarded(r)
    BY <2>1, AllowWindow, RefuseWindow DEF ArriveGuarded, Kinds
  <2>2. CASE FailLogin(r)
    <3>1. request[r].limit \in Limits["login"]
      BY <2>2, ServingShape DEF FailLogin
    <3> QED
      BY <2>2, <3>1, AllowWindow, RefuseWindow DEF FailLogin, Kinds
  <2>3. CASE CountTenant(r)
    <3>1. request[r].limit \in Limits["tenant"]
      BY <2>3, ServingShape DEF CountTenant
    <3> QED
      BY <2>3, <3>1, AllowWindow, RefuseWindow DEF CountTenant, Kinds
  <2>4. CASE ArriveLogin(r) \/ ArriveTenant(r) \/ Pass(r) \/ Leave(r)
    <3>1. UNCHANGED <<now, stamps, cap, history>>
      BY <2>4 DEF ArriveLogin, ArriveTenant, Pass, Leave
    <3> QED
      BY <1>1, <3>1, WindowKept DEF history
  <2> QED
    BY <1>3, <2>1, <2>2, <2>3, <2>4 DEF RequestNext
<1>4. CASE UNCHANGED vars
  BY <1>1, <1>4, WindowKept DEF vars, history
<1> QED
  BY <1>2, <1>3, <1>4 DEF Next

(* A lockout that is over is forgotten, and one that is set ends no sooner *)
(* than the ones before it.                                                *)
LEMMA LockStep == TypeOK /\ LockInv /\ [Next]_vars => LockInv'
<1> SUFFICES ASSUME TypeOK, LockInv, [Next]_vars
             PROVE  LockInv'
  OBVIOUS
<1>1. /\ now \in Nat /\ lockout \in Nat /\ LockTime \in Nat
      /\ \A t \in locked : t \in Nat
  BY RateLimitsAssumption DEF TypeOK
<1>2. CASE Tick
  <2>1. now' = now + 1 /\ lockout' = lockout /\ locked' = locked
    BY <1>2 DEF Tick, history
  <2> QED
    BY <1>1, <2>1 DEF LockInv
<1>3. ASSUME UNCHANGED <<now, lockout, locked>>
      PROVE  LockInv'
  BY <1>3 DEF LockInv
<1>4. ASSUME NEW r \in Requests, RequestNext(r)
      PROVE  LockInv'
  <2>1. CASE ArriveLogin(r)
    <3>1. now' = now /\ locked' = locked
      BY <2>1 DEF ArriveLogin, history
    <3>2. UNCHANGED lockout \/ now >= lockout
      BY <2>1, Zenon DEF ArriveLogin
    <3>3. CASE now >= lockout
      BY <1>1, <3>1, <3>3 DEF LockInv
    <3> QED
      BY <1>3, <3>1, <3>2, <3>3
  <2>2. CASE FailLogin(r)
    <3>1. now' = now
      BY <2>2 DEF FailLogin
    <3>2. LockOut \/ (lockout' = lockout /\ locked' = locked)
      BY <2>2, Zenon DEF FailLogin
    <3>3. CASE LockOut
      <4>1. ASSUME NEW t \in locked, now < t + LockTime
            PROVE  now + LockTime >= t + LockTime
        BY <1>1 DEF LockInv
      <4> QED
        BY <1>1, <3>1, <3>3, <4>1 DEF LockInv, LockOut
    <3> QED
      BY <1>3, <3>1, <3>2, <3>3
  <2>3. CASE ArriveGuarded(r) \/ CountTenant(r)
    BY <1>3, <2>3, Zenon DEF ArriveGuarded, CountTenant
  <2>4. CASE ArriveTenant(r) \/ Pass(r) \/ Leave(r)
    BY <1>3, <2>4 DEF ArriveTenant, Pass, Leave, history
  <2> QED
    BY <1>4, <2>1, <2>2, <2>3, <2>4 DEF RequestNext
<1>5. CASE UNCHANGED vars
  BY <1>3, <1>5 DEF vars, history
<1> QED
  BY <1>2, <1>4, <1>5 DEF Next

(* A login that is let in finds no lockout.                                *)
LEMMA LetInStep ==
  ASSUME TypeOK, LockInv, [Next]_vars, NEW r \in Requests, LetInBy(r), NEW t \in locked
  PROVE  now >= t + LockTime
<1>1. now \in Nat /\ lockout \in Nat /\ LockTime \in Nat /\ t \in Nat
  BY RateLimitsAssumption DEF TypeOK
<1>2. request[r].phase = "idle" /\ request'[r].phase = "serving" /\ request'[r].kind = "login"
  BY DEF LetInBy
<1>3. request'[r] # request[r]
  BY <1>2
<1>4. Next
  BY <1>3 DEF vars
<1>5. PICK q \in Requests : RequestNext(q)
  BY <1>3, <1>4 DEF Next, Tick
<1>6. q = r
  BY <1>3, <1>5 DEF RequestNext, ArriveLogin, ArriveGuarded, ArriveTenant, FailLogin,
    CountTenant, Pass, Leave, Serve, Answer, Become, TypeOK
<1>7. ArriveLogin(r) /\ now >= lockout
  <2>1. ~ (FailLogin(r) \/ CountTenant(r) \/ Pass(r) \/ Leave(r))
    BY <1>2 DEF FailLogin, CountTenant, Pass, Leave
  <2>2. ~ ArriveTenant(r)
    BY <1>2 DEF ArriveTenant, Serve, Become, TypeOK
  <2>3. ~ ArriveGuarded(r)
    BY <1>2 DEF ArriveGuarded, Serve, Answer, Become, TypeOK
  <2>4. ArriveLogin(r)
    BY <1>5, <1>6, <2>1, <2>2, <2>3 DEF RequestNext
  <2>5. ~ Answer(r, FALSE, TRUE)
    BY <1>2 DEF Answer, Become, TypeOK
  <2> QED
    BY <2>4, <2>5, Zenon DEF ArriveLogin
<1> QED
  BY <1>1, <1>7 DEF LockInv

-----------------------------------------------------------------------------
(* Theorems.                                                               *)

LEMMA InvCorrect == Spec => []IInv
<1>1. Init => IInv
  BY TypeInit, InvInit DEF IInv
<1>2. IInv /\ [Next]_vars => IInv'
  BY TypeStep, WindowStep, LockStep DEF IInv
<1> QED
  BY <1>1, <1>2, PTL DEF Spec

(* A window never admits more than its capacity within its length.         *)
THEOREM SpreadCorrect == Spec => []AdmittedAreSpread
<1>1. IInv => AdmittedAreSpread
  BY DEF IInv, WindowInv, Spread, AdmittedAreSpread
<1> QED
  BY <1>1, InvCorrect, PTL

(* A client that comes back when it was told to finds room in the window.  *)
THEOREM RetryCorrect == Spec => []RetryAfterIsEnough
<1>1. IInv => RetryAfterIsEnough
  <2> SUFFICES ASSUME IInv, NEW k \in Kinds,
                      promise[k].back # 0, promise[k].at = Len(admitted[k]),
                      now >= promise[k].back
               PROVE  admitted[k][Len(admitted[k]) - cap[k] + 1] + Window < now
    BY DEF RetryAfterIsEnough
  <2> DEFINE i == Len(admitted[k]) - cap[k] + 1
  <2>1. cap[k] \in 1 .. Len(admitted[k]) /\ promise[k].back = admitted[k][i] + Window + 1
    BY DEF IInv, WindowInv, Promised
  <2>2. admitted[k] \in Seq(Nat) /\ now \in Nat /\ Window \in Nat
    BY RateLimitsAssumption DEF IInv, TypeOK
  <2>3. i \in 1 .. Len(admitted[k])
    BY <2>1, <2>2
  <2>4. admitted[k][i] \in Nat
    BY <2>2, <2>3
  <2> HIDE DEF i
  <2>5. admitted[k][i] + Window < now
    BY <2>1, <2>2, <2>4
  <2> QED
    BY <2>5 DEF i
<1> QED
  BY <1>1, InvCorrect, PTL

(* No login is let in while a lockout that was set lasts.                  *)
THEOREM LockoutCorrect == Spec => LockoutHolds
<1>1. IInv /\ [Next]_vars =>
        [\A r \in Requests : LetInBy(r) => \A t \in locked : now >= t + LockTime]_vars
  BY LetInStep DEF IInv
<1> QED
  BY <1>1, InvCorrect, PTL DEF Spec, LockoutHolds
=============================================================================
