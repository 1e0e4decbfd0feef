----------------------------- MODULE RateLimits -----------------------------
(***************************************************************************)
(* The rate limiting middleware (app/middleware/rate_limit.py): sliding    *)
(* windows of timestamps, and the lockout of a client after failed logins. *)
(*                                                                         *)
(* One client, on three kinds of path.  A guarded path (invitation, reset, *)
(* agents) is counted before the request is served; a login is counted     *)
(* after it was served and failed; the requests of a tenant are counted    *)
(* after they were served and succeeded.  Requests are served concurrently.*)
(* Time is counted in ticks; nothing survives a restart, which is the      *)
(* initial state again.                                                    *)
(***************************************************************************)
EXTENDS Naturals, Sequences

CONSTANTS
  Paths,        (* the kinds of path the client uses, a subset of Kinds     *)
  Requests,     (* requests that may be in flight at once                   *)
  Limits,       (* the limits a request may carry to the window of its kind *)
  Window,       (* window_seconds: 300, 600 or 60 in the code               *)
  LockTime,     (* ticks a client is locked out: 900 seconds in the code    *)
  MaxTime       (* bound on the clock                                       *)

Kinds == {"login", "guarded", "tenant"}

(* The limit is a literal of dispatch, but for a tenant: it is the limit   *)
(* stored with the organization, or 1000 when it could not be read.        *)
ASSUME RateLimitsAssumption ==
  /\ Paths \subseteq Kinds
  /\ Limits \in [Kinds -> SUBSET (Nat \ {0})]
  /\ Window \in Nat
  /\ LockTime \in Nat \ {0}
  /\ MaxTime \in Nat

VARIABLES
  now,        (* the clock                                                  *)
  stamps,     (* the _timestamps of each sliding window, oldest first       *)
  cap,        (* the max_requests of each window, 0 before there is one     *)
  lockout,    (* end of the lockout of the client, 0 when there is none     *)
  request,    (* what each request is doing                                 *)
  admitted,   (* history: when each window admitted a request               *)
  locked,     (* history: when a lockout was set                            *)
  promise     (* history: of the last refusal of each window, when the      *)
              (* client may come back and what was admitted until then      *)

history == <<admitted, locked, promise>>

vars == <<now, stamps, cap, lockout, request, history>>

Idle == [phase |-> "idle"]

Serving ==
  UNION {[phase: {"serving"}, kind: {k}, limit: Limits[k]] : k \in Kinds}

Answered == [phase: {"answered"}, served: BOOLEAN, refused: BOOLEAN]

Promises == [at: Nat, back: Nat]

TypeOK ==
  /\ now \in Nat
  /\ stamps \in [Kinds -> Seq(Nat)]
  /\ cap \in [Kinds -> Nat]
  /\ lockout \in Nat
  /\ request \in [Requests -> {Idle} \cup Serving \cup Answered]
  /\ admitted \in [Kinds -> Seq(Nat)]
  /\ locked \in SUBSET Nat
  /\ promise \in [Kinds -> Promises]

Init ==
  /\ now = 0
  /\ stamps = [k \in Kinds |-> <<>>]
  /\ cap = [k \in Kinds |-> 0]
  /\ lockout = 0
  /\ request = [r \in Requests |-> Idle]
  /\ admitted = [k \in Kinds |-> <<>>]
  /\ locked = {}
  /\ promise = [k \in Kinds |-> [at |-> 0, back |-> 0]]

-----------------------------------------------------------------------------
(* RateLimiter.check: the window of the key is made by the first request   *)
(* that asks for it, with the limit which that request carries.            *)
Capacity(k, limit) == IF cap[k] = 0 THEN limit ELSE cap[k]

MakeWindow(k, limit) == cap' = [cap EXCEPT ![k] = Capacity(k, limit)]

(* SlidingWindowCounter.is_allowed: the first n timestamps are popped.     *)
StaleAtCutoff(k, n) ==  (* mutation: the cutoff itself is popped           *)
  /\ \A i \in 1 .. n : stamps[k][i] + Window <= now
  /\ n < Len(stamps[k]) => stamps[k][n + 1] + Window > now

Stale(k, n) ==
  /\ \A i \in 1 .. n : stamps[k][i] + Window < now
  /\ n < Len(stamps[k]) => stamps[k][n + 1] + Window >= now

Kept(k, n) == SubSeq(stamps[k], n + 1, Len(stamps[k]))

Allow(k, limit) ==
  /\ MakeWindow(k, limit)
  /\ \E n \in 0 .. Len(stamps[k]) :
       /\ Stale(k, n)
       /\ Len(Kept(k, n)) < Capacity(k, limit)
       /\ stamps' = [stamps EXCEPT ![k] = Append(Kept(k, n), now)]
  /\ admitted' = [admitted EXCEPT ![k] = Append(@, now)]
  /\ UNCHANGED promise

(* The client is told to come back when the oldest timestamp is popped.    *)
RefuseEarly(k, limit) ==  (* mutation: a second is missing                 *)
  /\ MakeWindow(k, limit)
  /\ \E n \in 0 .. Len(stamps[k]) :
       /\ Stale(k, n)
       /\ Len(Kept(k, n)) >= Capacity(k, limit)
       /\ stamps' = [stamps EXCEPT ![k] = Kept(k, n)]
       /\ promise' = [promise EXCEPT ![k] =
                        [at |-> Len(admitted[k]), back |-> Head(Kept(k, n)) + Window]]
  /\ UNCHANGED admitted

Refuse(k, limit) ==
  /\ MakeWindow(k, limit)
  /\ \E n \in 0 .. Len(stamps[k]) :
       /\ Stale(k, n)
       /\ Len(Kept(k, n)) >= Capacity(k, limit)
       /\ stamps' = [stamps EXCEPT ![k] = Kept(k, n)]
       /\ promise' = [promise EXCEPT ![k] =
                        [at |-> Len(admitted[k]), back |-> Head(Kept(k, n)) + Window + 1]]
  /\ UNCHANGED admitted

-----------------------------------------------------------------------------
(* RateLimitMiddleware.dispatch.                                           *)

Become(r, work) == request' = [request EXCEPT ![r] = work]

Serve(r, k, limit) ==
  Become(r, [phase |-> "serving", kind |-> k, limit |-> limit])

Answer(r, served, refused) ==
  Become(r, [phase |-> "answered", served |-> served, refused |-> refused])

(* _check_lockout: a lockout that is over is forgotten.                    *)
ArriveLogin(r) ==
  /\ request[r] = Idle
  /\ "login" \in Paths
  /\ \/ /\ now < lockout
        /\ Answer(r, FALSE, TRUE)
        /\ UNCHANGED lockout
     \/ /\ now >= lockout
        /\ lockout' = 0
        /\ \E limit \in Limits["login"] : Serve(r, "login", limit)
  /\ UNCHANGED <<now, stamps, cap, history>>

ArriveGuarded(r) ==
  /\ request[r] = Idle
  /\ "guarded" \in Paths
  /\ \E limit \in Limits["guarded"] :
       \/ Allow("guarded", limit) /\ Serve(r, "guarded", limit)
       \/ Refuse("guarded", limit) /\ Answer(r, FALSE, TRUE)
  /\ UNCHANGED <<now, lockout, locked>>

(* The limit of the organization is read before the request is served.     *)
ArriveTenant(r) ==
  /\ request[r] = Idle
  /\ "tenant" \in Paths
  /\ \E limit \in Limits["tenant"] : Serve(r, "tenant", limit)
  /\ UNCHANGED <<now, stamps, cap, lockout, history>>

(* _set_lockout: a later failure over the limit sets a later end.          *)
LockOutOnce ==  (* mutation: a lockout that was set is kept                *)
  /\ lockout' = IF lockout = 0 THEN now + LockTime ELSE lockout
  /\ locked' = locked \cup {now}

LockOut ==
  /\ lockout' = now + LockTime
  /\ locked' = locked \cup {now}

(* The login was answered 401.                                             *)
FailLogin(r) ==
  /\ request[r].phase = "serving"
  /\ request[r].kind = "login"
  /\ \/ /\ Allow("login", request[r].limit)
        /\ Answer(r, TRUE, FALSE)
        /\ UNCHANGED <<lockout, locked>>
     \/ /\ Refuse("login", request[r].limit)
        /\ LockOut
        /\ Answer(r, TRUE, TRUE)
  /\ UNCHANGED now

(* A tenant's request was served; it is counted, and then refused or not.  *)
CountTenant(r) ==
  /\ request[r].phase = "serving"
  /\ request[r].kind = "tenant"
  /\ \/ Allow("tenant", request[r].limit) /\ Answer(r, TRUE, FALSE)
     \/ Refuse("tenant", request[r].limit) /\ Answer(r, TRUE, TRUE)
  /\ UNCHANGED <<now, lockout, locked>>

(* What is not counted: a login that was not answered 401, a tenant's      *)
(* request that failed, a guarded request whatever its answer.             *)
Pass(r) ==
  /\ request[r].phase = "serving"
  /\ Answer(r, TRUE, FALSE)
  /\ UNCHANGED <<now, stamps, cap, lockout, history>>

Leave(r) ==
  /\ request[r].phase = "answered"
  /\ Become(r, Idle)
  /\ UNCHANGED <<now, stamps, cap, lockout, history>>

Tick ==
  /\ now < MaxTime
  /\ now' = now + 1
  /\ UNCHANGED <<stamps, cap, lockout, request, history>>

RequestNext(r) ==
  \/ ArriveLogin(r) \/ ArriveGuarded(r) \/ ArriveTenant(r)
  \/ FailLogin(r) \/ CountTenant(r) \/ Pass(r) \/ Leave(r)

Next == Tick \/ \E r \in Requests : RequestNext(r)

Spec == Init /\ [][Next]_vars

-----------------------------------------------------------------------------
(* Properties.                                                             *)

(* A window of capacity c admits at most c requests within its length:     *)
(* the c-th admission after another comes more than a window later,        *)
(* whatever was popped and refused in between.                             *)
AdmittedAreSpread ==
  \A k \in Kinds : \A i \in 1 .. Len(admitted[k]) :
    i + cap[k] <= Len(admitted[k]) =>
      admitted[k][i + cap[k]] > admitted[k][i] + Window

(* The Retry-After of a refusal is enough: if nobody was let in meanwhile, *)
(* a client that comes back then finds that the admission it would exceed  *)
(* the limit with has left the window.                                     *)
RetryAfterIsEnough ==
  \A k \in Kinds :
    /\ promise[k].back # 0
    /\ promise[k].at = Len(admitted[k])
    /\ now >= promise[k].back
    => admitted[k][Len(admitted[k]) - cap[k] + 1] + Window < now

(* Once a lockout was set no login is let in for LockTime, however many    *)
(* logins that were in flight then succeed or fail in the meantime.        *)
LetInBy(r) ==
  /\ request[r].phase = "idle"
  /\ request'[r].phase = "serving"
  /\ request'[r].kind = "login"

LockoutHolds ==
  [][\A r \in Requests : LetInBy(r) => \A t \in locked : now >= t + LockTime]_vars

-----------------------------------------------------------------------------
(* What the documents say.                                                 *)

(* The lockout lasts 15 minutes "from the first blocked request".          *)
LockoutIsNotExtended == [][0 < lockout /\ now < lockout => lockout' <= lockout]_vars

(* Excess requests are rejected: they are not served.                      *)
RefusedIsNotServed ==
  \A r \in Requests : request[r].phase = "answered" /\ request[r].refused => ~request[r].served

(* A tenant is held to the limit stored for it: a request that carries a   *)
(* limit is admitted only below that limit.                                *)
TenantLimitHolds ==
  [][\A r \in Requests :
       /\ request[r].phase = "serving"
       /\ request[r].kind = "tenant"
       /\ admitted' # admitted
       /\ request'[r] # request[r]
       => Len(stamps'["tenant"]) <= request[r].limit]_vars
=============================================================================
