------------------------ MODULE InterviewSlots_proofs -----------------------
(***************************************************************************)
(* Proofs about module InterviewSlots, for any bookings, limits, requests  *)
(* and clock.  A count is a bound of what the interviewer has only at the  *)
(* moment it is taken.  The invariant therefore counts, with the slots     *)
(* that are kept, the requests that have passed the count and have not yet *)
(* inserted theirs: an insertion moves one from the second to the first,   *)
(* and a count is passed with at least one interview to spare, whatever    *)
(* requests are then waiting.                                              *)
(***************************************************************************)
EXTENDS InterviewSlots, FiniteSetTheorems, TLAPS

LEMMA BecomeType ==
  ASSUME TypeOK, NEW r \in Requests, NEW work \in {Idle} \cup Working, Become(r, work)
  PROVE  request' \in [Requests -> {Idle} \cup Working]
  BY DEF TypeOK, Become

(* What a request at work holds, told by its phase.                        *)
LEMMA WorkShape ==
  ASSUME TypeOK, NEW r \in Requests
  PROVE  /\ request[r].phase \in {"day", "week"} =>
              request[r] \in [phase: {"day", "week"}, slot: Slots, limits: Limits]
         /\ request[r].phase = "insert" =>
              request[r] \in [phase: {"insert"}, slot: Slots]
         /\ request[r].phase = "edit" =>
              request[r] \in [phase: {"edit"}, slot: Slots, current: BOOLEAN]
         /\ request[r].phase = "prefer" =>
              request[r] \in [phase: {"prefer"}, interviewer: Interviewers,
                              found: BOOLEAN, current: BOOLEAN]
<1>1. request[r] \in {Idle} \cup Working
  BY DEF TypeOK
<1> QED
  BY <1>1 DEF Working, Idle

(* A step of an update leaves every other request what it was, but perhaps *)
(* with a row that has moved.                                              *)
Outdated(q) == [request[q] EXCEPT !.current = FALSE]

LEMMA OutdatedType ==
  ASSUME TypeOK, NEW q \in Requests, request[q].phase \in {"edit", "prefer"}
  PROVE  /\ Outdated(q) \in Working
         /\ Outdated(q).phase = request[q].phase
         /\ request[q].phase = "edit" => Outdated(q).slot = request[q].slot
<1>1. CASE request[q].phase = "edit"
  <2>1. request[q] \in [phase: {"edit"}, slot: Slots, current: BOOLEAN]
    BY <1>1, WorkShape
  <2>2. Outdated(q) \in [phase: {"edit"}, slot: Slots, current: BOOLEAN]
    BY <2>1 DEF Outdated
  <2>3. Outdated(q).slot = request[q].slot
    BY <2>1 DEF Outdated
  <2> QED
    BY <1>1, <2>2, <2>3 DEF Working
<1>2. CASE request[q].phase = "prefer"
  <2>1. request[q] \in [phase: {"prefer"}, interviewer: Interviewers,
                        found: BOOLEAN, current: BOOLEAN]
    BY <1>2, WorkShape
  <2>2. Outdated(q) \in [phase: {"prefer"}, interviewer: Interviewers,
                         found: BOOLEAN, current: BOOLEAN]
    BY <2>1 DEF Outdated
  <2> QED
    BY <1>2, <2>2 DEF Working
<1> QED
  BY <1>1, <1>2

(* What no step takes from a request that it is not a step of.             *)
Others(r) ==
  \A q \in Requests \ {r} :
    /\ request'[q] \in {Idle} \cup Working
    /\ request'[q].phase = request[q].phase
    /\ request[q].phase \in {"day", "week", "insert"} => request'[q] = request[q]
    /\ request[q].phase = "edit" => request'[q].slot = request[q].slot

LEMMA BecomeOthers ==
  ASSUME TypeOK, NEW r \in Requests, NEW work, Become(r, work)
  PROVE  Others(r) /\ request'[r] = work
  BY DEF TypeOK, Become, Others

LEMMA LeaveOthers ==
  ASSUME TypeOK, NEW r \in Requests, NEW s \in Slots, Leave(r, s)
  PROVE  /\ Others(r) /\ request'[r] = Idle
         /\ request' \in [Requests -> {Idle} \cup Working]
<1>1. ASSUME NEW q \in Requests \ {r}
      PROVE  \/ request'[q] = request[q]
             \/ request[q].phase = "edit" /\ request'[q] = Outdated(q)
  BY DEF Leave, Outdated
<1>2. Others(r)
  BY <1>1, OutdatedType DEF Others, TypeOK
<1>3. request'[r] = Idle
  BY DEF Leave
<1>4. request' = [q \in Requests |-> request'[q]]
  BY DEF Leave
<1> QED
  BY <1>2, <1>3, <1>4 DEF Others

LEMMA PreferOthers ==
  ASSUME TypeOK, NEW r \in Requests, NEW p \in Preferences, Prefer(r, p)
  PROVE  /\ Others(r) /\ request'[r] = Idle
         /\ request' \in [Requests -> {Idle} \cup Working]
<1>1. ASSUME NEW q \in Requests \ {r}
      PROVE  \/ request'[q] = request[q]
             \/ request[q].phase = "prefer" /\ request'[q] = Outdated(q)
  BY DEF Prefer, Outdated
<1>2. Others(r)
  BY <1>1, OutdatedType DEF Others, TypeOK
<1>3. request'[r] = Idle
  BY DEF Prefer
<1>4. request' = [q \in Requests |-> request'[q]]
  BY DEF Prefer
<1> QED
  BY <1>2, <1>3, <1>4 DEF Others

-----------------------------------------------------------------------------
(* A request edits a slot that was created, and counts against limits that *)
(* the interviewer of its slot has had.                                    *)
HeldInv ==
  \A r \in Requests :
    /\ request[r].phase = "edit" => status[request[r].slot] # "NONE"
    /\ request[r].phase \in {"day", "week"} =>
         /\ Booking[request[r].slot].interviewer \in Interviewers
         /\ request[r].limits \in offered[Booking[request[r].slot].interviewer]

IInv == TypeOK /\ HeldInv

LEMMA TypeInit == Init => IInv
<1> SUFFICES ASSUME Init PROVE IInv
  OBVIOUS
<1>1. TypeOK
  BY InterviewSlotsAssumption DEF Init, TypeOK, AttendanceStatus
<1>2. HeldInv
  BY DEF Init, HeldInv, Idle
<1> QED
  BY <1>1, <1>2 DEF IInv

(* No step makes a slot uncreated or an offer forgotten.                   *)
LEMMA HeldKept ==
  ASSUME IInv, NEW r \in Requests, Others(r),
         \A s \in Slots : status[s] # "NONE" => status'[s] # "NONE",
         \A i \in Interviewers : offered[i] \subseteq offered'[i],
         request'[r].phase = "edit" => status'[request'[r].slot] # "NONE",
         request'[r].phase \in {"day", "week"} =>
           /\ Booking[request'[r].slot].interviewer \in Interviewers
           /\ request'[r].limits \in offered'[Booking[request'[r].slot].interviewer]
  PROVE  HeldInv'
<1> SUFFICES ASSUME NEW q \in Requests, q # r
             PROVE  /\ request'[q].phase = "edit" => status'[request'[q].slot] # "NONE"
                    /\ request'[q].phase \in {"day", "week"} =>
                         /\ Booking[request'[q].slot].interviewer \in Interviewers
                         /\ request'[q].limits
                              \in offered'[Booking[request'[q].slot].interviewer]
  BY DEF HeldInv
<1>1. TypeOK /\ HeldInv
  BY DEF IInv
<1>2. CASE request[q].phase = "edit"
  BY <1>1, <1>2, WorkShape DEF HeldInv, Others
<1>3. CASE request[q].phase \in {"day", "week"}
  BY <1>1, <1>3, WorkShape DEF HeldInv, Others
<1> QED
  BY <1>2, <1>3 DEF Others

LEMMA TypeStep == IInv /\ [Next]_vars => IInv'
<1> SUFFICES ASSUME IInv, [Next]_vars PROVE TypeOK' /\ HeldInv'
  BY DEF IInv
<1>a. TypeOK /\ HeldInv
  BY DEF IInv
<1> USE InterviewSlotsAssumption
<1>1. ASSUME NEW r \in Requests, NEW s \in Slots, ReadPreference(r, s)
      PROVE  TypeOK' /\ HeldInv'
  <2> DEFINE i == Booking[s].interviewer
             work == IF i = NoOne THEN [phase |-> "insert", slot |-> s]
                     ELSE [phase |-> "day", slot |-> s, limits |-> preference[i]]
  <2>1. Become(r, work) /\ UNCHANGED <<now, rows, preferences, revived>>
    BY <1>1 DEF ReadPreference
  <2>2. i \in Interviewers \cup {NoOne}
    OBVIOUS
  <2>3. work \in Working
    <3>1. CASE i = NoOne
      BY <3>1 DEF Working
    <3>2. CASE i # NoOne
      <4>1. preference[i] \in Limits
        BY <1>a, <2>2, <3>2 DEF TypeOK
      <4> QED
        BY <3>2, <4>1 DEF Working
    <3> QED
      BY <3>1, <3>2
  <2>4. TypeOK'
    BY <1>a, <2>1, <2>3, BecomeType DEF TypeOK, rows, preferences
  <2>5. Others(r) /\ request'[r] = work
    BY <1>a, <2>1, BecomeOthers
  <2>6. work.phase = "day" =>
          /\ Booking[work.slot].interviewer \in Interviewers
          /\ work.limits \in offered[Booking[work.slot].interviewer]
    <3>1. CASE i = NoOne
      BY <3>1
    <3>2. CASE i # NoOne
      BY <1>a, <2>2, <3>2 DEF TypeOK
    <3> QED
      BY <3>1, <3>2
  <2>7. work.phase \in {"day", "insert"}
    OBVIOUS
  <2> HIDE DEF work
  <2> QED
    BY <1>a, <2>1, <2>4, <2>5, <2>6, <2>7, HeldKept DEF IInv, rows, preferences
<1>2. ASSUME NEW r \in Requests, NEW s \in Slots, ReadSlot(r, s)
      PROVE  TypeOK' /\ HeldInv'
  <2> DEFINE work == [phase |-> "edit", slot |-> s, current |-> TRUE]
  <2>1. /\ Become(r, work) /\ status[s] # "NONE"
        /\ UNCHANGED <<now, rows, preferences, revived>>
    BY <1>2 DEF ReadSlot
  <2>2. work \in Working
    BY DEF Working
  <2>3. TypeOK'
    BY <1>a, <2>1, <2>2, BecomeType DEF TypeOK, rows, preferences
  <2>4. Others(r) /\ request'[r] = work
    BY <1>a, <2>1, BecomeOthers
  <2> QED
    BY <1>a, <2>1, <2>3, <2>4, HeldKept DEF IInv, rows, preferences
<1>3. ASSUME NEW r \in Requests, NEW s \in Slots, NEW new \in SlotStatus,
             NEW answer \in InvitationStatus \cup {"NONE"}, Patch(r, s, new, answer)
      PROVE  TypeOK' /\ HeldInv'
  <2>1. /\ status' = [status EXCEPT ![s] = new]
        /\ invitation' = [invitation EXCEPT ![s] = answer]
        /\ revived' \in SUBSET Slots
        /\ UNCHANGED <<now, attendance, preferences>>
        /\ Leave(r, s)
    BY <1>a, <1>3 DEF Patch, TypeOK
  <2>2. Others(r) /\ request'[r] = Idle /\ request' \in [Requests -> {Idle} \cup Working]
    BY <1>a, <2>1, LeaveOthers
  <2>3. TypeOK'
    BY <1>a, <2>1, <2>2 DEF TypeOK, preferences
  <2>4. \A t \in Slots : status[t] # "NONE" => status'[t] # "NONE"
    BY <1>a, <2>1 DEF TypeOK, SlotStatus
  <2> QED
    BY <1>a, <2>1, <2>2, <2>3, <2>4, HeldKept DEF IInv, preferences, Idle
<1>4. ASSUME NEW r \in Requests, NEW s \in Slots, NEW answer \in Answers,
             AnswerInvitation(r, s, answer)
      PROVE  TypeOK' /\ HeldInv'
  <2>1. /\ invitation' = [invitation EXCEPT ![s] = answer]
        /\ UNCHANGED <<now, status, attendance, preferences, revived>>
        /\ Leave(r, s)
    BY <1>4 DEF AnswerInvitation
  <2>2. Others(r) /\ request'[r] = Idle /\ request' \in [Requests -> {Idle} \cup Working]
    BY <1>a, <2>1, LeaveOthers
  <2>3. TypeOK'
    BY <1>a, <2>1, <2>2 DEF TypeOK, preferences
  <2> QED
    BY <1>a, <2>1, <2>2, <2>3, HeldKept DEF IInv, preferences, Idle
<1>5. ASSUME NEW r \in Requests, NEW s \in Slots, NEW attended \in Reports,
             Attend(r, s, attended)
      PROVE  TypeOK' /\ HeldInv'
  <2>1. /\ attendance' = [attendance EXCEPT ![s] = attended]
        /\ UNCHANGED <<now, status, invitation, preferences, revived>>
        /\ Leave(r, s)
    BY <1>5 DEF Attend
  <2>2. Others(r) /\ request'[r] = Idle /\ request' \in [Requests -> {Idle} \cup Working]
    BY <1>a, <2>1, LeaveOthers
  <2>3. TypeOK'
    BY <1>a, <2>1, <2>2 DEF TypeOK, preferences
  <2> QED
    BY <1>a, <2>1, <2>2, <2>3, HeldKept DEF IInv, preferences, Idle
<1>6. ASSUME NEW r \in Requests, CountDay(r)
      PROVE  TypeOK' /\ HeldInv'
  <2> DEFINE work == [request[r] EXCEPT !.phase = "week"]
  <2>1. /\ request[r] \in [phase: {"day", "week"}, slot: Slots, limits: Limits]
        /\ request[r].phase = "day"
    BY <1>a, <1>6, WorkShape DEF CountDay
  <2>2. Become(r, work) /\ UNCHANGED <<now, rows, preferences, revived>>
    BY <1>6 DEF CountDay
  <2>3. /\ work \in [phase: {"day", "week"}, slot: Slots, limits: Limits]
        /\ work.phase = "week" /\ work.slot = request[r].slot
        /\ work.limits = request[r].limits
    BY <2>1
  <2> HIDE DEF work
  <2>4. work \in Working
    BY <2>3 DEF Working
  <2>5. TypeOK'
    BY <1>a, <2>2, <2>4, BecomeType DEF TypeOK, rows, preferences
  <2>6. Others(r) /\ request'[r] = work
    BY <1>a, <2>2, BecomeOthers
  <2> QED
    BY <1>a, <2>1, <2>2, <2>3, <2>5, <2>6, HeldKept DEF IInv, HeldInv, rows, preferences
<1>7. ASSUME NEW r \in Requests, CountWeek(r)
      PROVE  TypeOK' /\ HeldInv'
  <2> DEFINE work == [phase |-> "insert", slot |-> request[r].slot]
  <2>1. request[r] \in [phase: {"day", "week"}, slot: Slots, limits: Limits]
    BY <1>a, <1>7, WorkShape DEF CountWeek
  <2>2. Become(r, work) /\ UNCHANGED <<now, rows, preferences, revived>>
    BY <1>7 DEF CountWeek
  <2>3. work \in Working
    BY <2>1 DEF Working
  <2>4. TypeOK'
    BY <1>a, <2>2, <2>3, BecomeType DEF TypeOK, rows, preferences
  <2>5. Others(r) /\ request'[r] = work
    BY <1>a, <2>2, BecomeOthers
  <2> QED
    BY <1>a, <2>2, <2>4, <2>5, HeldKept DEF IInv, rows, preferences
<1>8. ASSUME NEW r \in Requests, Insert(r)
      PROVE  TypeOK' /\ HeldInv'
  <2> DEFINE s == request[r].slot
  <2>1. /\ status' = [status EXCEPT ![s] = "SCHEDULED"]
        /\ invitation' = [invitation EXCEPT
             ![s] = IF Booking[s].interviewer = NoOne THEN "NONE" ELSE "PENDING"]
        /\ Become(r, Idle)
        /\ UNCHANGED <<now, attendance, preferences, revived>>
    BY <1>8 DEF Insert
  <2>2. s \in Slots
    BY <1>a, <1>8, WorkShape DEF Insert
  <2>3. TypeOK'
    BY <1>a, <2>1, <2>2, BecomeType DEF TypeOK, preferences, SlotStatus, InvitationStatus
  <2>4. Others(r) /\ request'[r] = Idle
    BY <1>a, <2>1, BecomeOthers
  <2>5. \A t \in Slots : status[t] # "NONE" => status'[t] # "NONE"
    BY <1>a, <2>1 DEF TypeOK
  <2> QED
    BY <1>a, <2>1, <2>3, <2>4, <2>5, HeldKept DEF IInv, preferences, Idle
<1>9. ASSUME NEW r \in Requests, NEW i \in Interviewers, ReadOwn(r, i)
      PROVE  TypeOK' /\ HeldInv'
  <2> DEFINE work == [phase |-> "prefer", interviewer |-> i, found |-> i \in stored,
                      current |-> TRUE]
  <2>1. Become(r, work) /\ UNCHANGED <<now, rows, preferences, revived>>
    BY <1>9 DEF ReadOwn
  <2>2. work \in Working
    BY DEF Working
  <2>3. TypeOK'
    BY <1>a, <2>1, <2>2, BecomeType DEF TypeOK, rows, preferences
  <2>4. Others(r) /\ request'[r] = work
    BY <1>a, <2>1, BecomeOthers
  <2>5. work.phase = "prefer"
    OBVIOUS
  <2> HIDE DEF work
  <2> QED
    BY <1>a, <2>1, <2>3, <2>4, <2>5, HeldKept DEF IInv, rows, preferences
<1>10. ASSUME NEW r \in Requests, NEW p \in Preferences, Prefer(r, p)
       PROVE  TypeOK' /\ HeldInv'
  <2> DEFINE i == request[r].interviewer
  <2>1. /\ preference' = [preference EXCEPT ![i] = p]
        /\ stored' = stored \cup {i}
        /\ offered' = [offered EXCEPT ![i] = @ \cup {p}]
        /\ UNCHANGED <<now, rows, revived>>
    BY <1>10 DEF Prefer
  <2>2. i \in Interviewers /\ p \in Limits
    BY <1>a, <1>10, WorkShape DEF Prefer
  <2>3. Others(r) /\ request'[r] = Idle /\ request' \in [Requests -> {Idle} \cup Working]
    BY <1>a, <1>10, PreferOthers
  <2>4. TypeOK'
    BY <1>a, <2>1, <2>2, <2>3 DEF TypeOK, rows
  <2>5. \A j \in Interviewers : offered[j] \subseteq offered'[j]
    BY <1>a, <2>1, <2>2 DEF TypeOK
  <2> QED
    BY <1>a, <2>1, <2>3, <2>4, <2>5, HeldKept DEF IInv, rows, Idle
<1>11. ASSUME NEW r \in Requests, Fail(r)
       PROVE  TypeOK' /\ HeldInv'
  <2>1. Become(r, Idle) /\ UNCHANGED <<now, rows, preferences, revived>>
    BY <1>11 DEF Fail
  <2>2. TypeOK'
    BY <1>a, <2>1, BecomeType DEF TypeOK, rows, preferences
  <2>3. Others(r) /\ request'[r] = Idle
    BY <1>a, <2>1, BecomeOthers
  <2> QED
    BY <1>a, <2>1, <2>2, <2>3, HeldKept DEF IInv, rows, preferences, Idle
<1>12. CASE Tick
  BY <1>a, <1>12 DEF Tick, TypeOK, HeldInv, rows, preferences
<1>13. CASE UNCHANGED vars
  BY <1>a, <1>13 DEF vars, TypeOK, HeldInv, rows, preferences
<1> QED
  BY <1>1, <1>2, <1>3, <1>4, <1>5, <1>6, <1>7, <1>8, <1>9, <1>10, <1>11, <1>12, <1>13
  DEF Next

LEMMA TypeInvariant == Spec => []IInv
  BY TypeInit, TypeStep, PTL DEF Spec

(* InterviewSlots.TypeOK: the rows and the requests have their types.      *)
THEOREM TypeCorrect == Spec => []TypeOK
<1>1. IInv => TypeOK
  BY DEF IInv
<1> QED
  BY <1>1, TypeInvariant, PTL

-----------------------------------------------------------------------------
(* The slots an interviewer has in the day, and in the week, of slot s.    *)
DayOf(s) == {t \in Slots : /\ Booking[t].interviewer = Booking[s].interviewer
                           /\ Booking[t].midnight = Booking[s].midnight}

WeekOf(s) == {t \in Slots : /\ Booking[t].interviewer = Booking[s].interviewer
                            /\ Booking[t].monday = Booking[s].monday}

Kept(P) == {t \in P : Active(t) /\ t \notin revived}

(* The requests that have passed a count, and have a slot of P to insert.  *)
Waiting(P, F) == {r \in Requests : request[r].phase \in F /\ request[r].slot \in P}

Bounded(P, F, n) ==
  Cardinality(Kept(P)) + Cardinality(Waiting(P, F)) <= n + Cardinality(Requests) - 1

AfterDay == {"week", "insert"}
AfterWeek == {"insert"}

DayInv ==
  \A s \in Slots : Booking[s].interviewer # NoOne =>
    \E p \in offered[Booking[s].interviewer] : Bounded(DayOf(s), AfterDay, p.perDay)

WeekInv ==
  \A s \in Slots : Booking[s].interviewer # NoOne =>
    \E p \in offered[Booking[s].interviewer] : Bounded(WeekOf(s), AfterWeek, p.perWeek)

(* What is counted is finite.                                              *)
LEMMA Finite ==
  ASSUME NEW P \in SUBSET Slots, NEW F
  PROVE  /\ IsFiniteSet(Kept(P)) /\ Cardinality(Kept(P)) \in Nat
         /\ IsFiniteSet(Waiting(P, F)) /\ Cardinality(Waiting(P, F)) \in Nat
         /\ Cardinality(Waiting(P, F)) <= Cardinality(Requests)
         /\ Cardinality(Requests) \in Nat
<1>1. Kept(P) \subseteq Slots /\ Waiting(P, F) \subseteq Requests
  BY DEF Kept, Waiting
<1>2. IsFiniteSet(Slots) /\ IsFiniteSet(Requests)
  BY InterviewSlotsAssumption
<1> QED
  BY <1>1, <1>2, FS_Subset, FS_CardinalityType

(* A step that neither adds a slot nor lets a request through a count.     *)
LEMMA QuietBound ==
  ASSUME NEW P \in SUBSET Slots, NEW F, NEW n \in Nat, Bounded(P, F, n),
         Kept(P)' \subseteq Kept(P), Waiting(P, F)' \subseteq Waiting(P, F)
  PROVE  Bounded(P, F, n)'
<1>1. /\ Cardinality(Kept(P)') <= Cardinality(Kept(P)) /\ Cardinality(Kept(P)') \in Nat
      /\ Cardinality(Waiting(P, F)') <= Cardinality(Waiting(P, F))
      /\ Cardinality(Waiting(P, F)') \in Nat
  BY Finite, FS_Subset, FS_CardinalityType
<1>2. Bounded(P, F, n)' <=>
        Cardinality(Kept(P)') + Cardinality(Waiting(P, F)') <= n + Cardinality(Requests) - 1
  BY DEF Bounded
<1> QED
  BY <1>1, <1>2, Finite DEF Bounded

(* A count passed below n: whatever else waits, one of the requests is the *)
(* one that has just counted.                                              *)
LEMMA CountBound ==
  ASSUME NEW P \in SUBSET Slots, NEW F, NEW n \in Nat, NEW Counted \in SUBSET Slots,
         Cardinality(Counted) < n, Kept(P) \subseteq Counted, Kept(P)' = Kept(P)
  PROVE  Bounded(P, F, n)'
<1>1. IsFiniteSet(Counted) /\ Cardinality(Counted) \in Nat
  BY InterviewSlotsAssumption, FS_Subset, FS_CardinalityType
<1>2. Cardinality(Kept(P)) <= Cardinality(Counted)
  BY <1>1, FS_Subset
<1>3. Waiting(P, F)' \subseteq Requests
  BY DEF Waiting
<1>4. /\ Cardinality(Waiting(P, F)') <= Cardinality(Requests)
      /\ Cardinality(Waiting(P, F)') \in Nat
  BY <1>3, InterviewSlotsAssumption, FS_Subset, FS_CardinalityType
<1>5. Bounded(P, F, n)' <=>
        Cardinality(Kept(P)') + Cardinality(Waiting(P, F)') <= n + Cardinality(Requests) - 1
  BY DEF Bounded
<1> QED
  BY <1>1, <1>2, <1>4, <1>5, Finite

(* An insertion turns a request that waits into a slot that is kept.       *)
LEMMA InsertBound ==
  ASSUME TypeOK, NEW r \in Requests, Insert(r), NEW P \in SUBSET Slots,
         NEW F \in {AfterDay, AfterWeek}, NEW n \in Nat, Bounded(P, F, n)
  PROVE  Bounded(P, F, n)'
<1> DEFINE s == request[r].slot
<1>1. /\ status' = [status EXCEPT ![s] = "SCHEDULED"]
      /\ Become(r, Idle) /\ UNCHANGED revived /\ request[r].phase = "insert"
  BY DEF Insert
<1>2. Others(r) /\ request'[r] = Idle
  BY <1>1, BecomeOthers
<1>3. Waiting(P, F)' \subseteq Waiting(P, F) \ {r}
  BY <1>1 DEF Waiting, Become, TypeOK, Idle, AfterDay, AfterWeek
<1>4. CASE s \notin P
  <2>1. Kept(P)' \subseteq Kept(P)
    BY <1>1, <1>4 DEF Kept, Active, TypeOK
  <2> QED
    BY <2>1, <1>3, QuietBound
<1>5. CASE s \in P
  <2>1. Kept(P)' \subseteq Kept(P) \cup {s}
    BY <1>1 DEF Kept, Active, TypeOK
  <2>2. r \in Waiting(P, F)
    BY <1>1, <1>5 DEF Waiting, AfterDay, AfterWeek
  <2>3. /\ Cardinality(Waiting(P, F) \ {r}) = Cardinality(Waiting(P, F)) - 1
        /\ IsFiniteSet(Waiting(P, F) \ {r})
    BY <2>2, Finite, FS_RemoveElement
  <2>4. /\ Cardinality(Waiting(P, F)') <= Cardinality(Waiting(P, F)) - 1
        /\ Cardinality(Waiting(P, F)') \in Nat
    BY <1>3, <2>3, FS_Subset, FS_CardinalityType
  <2>5. /\ IsFiniteSet(Kept(P) \cup {s})
        /\ Cardinality(Kept(P) \cup {s}) <= Cardinality(Kept(P)) + 1
        /\ Cardinality(Kept(P) \cup {s}) \in Nat
    <3>1. IsFiniteSet(Kept(P)) /\ Cardinality(Kept(P)) \in Nat
      BY Finite
    <3>2. /\ IsFiniteSet(Kept(P) \cup {s})
          /\ \/ Cardinality(Kept(P) \cup {s}) = Cardinality(Kept(P))
             \/ Cardinality(Kept(P) \cup {s}) = Cardinality(Kept(P)) + 1
      BY <3>1, FS_AddElement
    <3> QED
      BY <3>1, <3>2
  <2>6. Cardinality(Kept(P)') <= Cardinality(Kept(P)) + 1 /\ Cardinality(Kept(P)') \in Nat
    BY <2>1, <2>5, FS_Subset, FS_CardinalityType
  <2>7. Bounded(P, F, n)' <=>
          Cardinality(Kept(P)') + Cardinality(Waiting(P, F)')
            <= n + Cardinality(Requests) - 1
    BY DEF Bounded
  <2> QED
    BY <2>4, <2>6, <2>7, Finite DEF Bounded
<1> QED
  BY <1>4, <1>5

(* The requests of a step that leaves the rows alone: it is quiet if the   *)
(* request of the step does not come to wait.                              *)
LEMMA RowsKept ==
  ASSUME IInv, NEW r \in Requests, Others(r), UNCHANGED <<status, revived>>,
         NEW P \in SUBSET Slots, NEW F \in {AfterDay, AfterWeek},
         r \in Waiting(P, F)' => r \in Waiting(P, F)
  PROVE  Kept(P)' \subseteq Kept(P) /\ Waiting(P, F)' \subseteq Waiting(P, F)
<1>1. Kept(P)' \subseteq Kept(P)
  BY DEF Kept, Active
<1>2. ASSUME NEW q \in Waiting(P, F)', q # r
      PROVE  q \in Waiting(P, F)
  BY <1>2 DEF Others, Waiting, AfterDay, AfterWeek
<1> QED
  BY <1>1, <1>2

(* A step lets a request through the count, inserts, or is quiet.          *)
LEMMA StepKinds ==
  ASSUME IInv, [Next]_vars, NEW P \in SUBSET Slots, NEW F \in {AfterDay, AfterWeek},
         \A t \in P : Booking[t].interviewer # NoOne
  PROVE  \/ Kept(P)' \subseteq Kept(P) /\ Waiting(P, F)' \subseteq Waiting(P, F)
         \/ \E r \in Requests : Insert(r)
         \/ \E r \in Requests : CountDay(r) /\ F = AfterDay /\ request[r].slot \in P
         \/ \E r \in Requests : CountWeek(r) /\ F = AfterWeek /\ request[r].slot \in P
<1> DEFINE Quiet == Kept(P)' \subseteq Kept(P) /\ Waiting(P, F)' \subseteq Waiting(P, F)
<1>a. TypeOK /\ HeldInv
  BY DEF IInv
<1>1. ASSUME NEW r \in Requests, NEW s \in Slots, ReadPreference(r, s)
      PROVE  Quiet
  <2>1. /\ UNCHANGED <<status, revived>>
        /\ \/ Booking[s].interviewer = NoOne /\ Become(r, [phase |-> "insert", slot |-> s])
           \/ Become(r, [phase |-> "day", slot |-> s,
                         limits |-> preference[Booking[s].interviewer]])
    BY <1>1 DEF ReadPreference, rows
  <2>2. Others(r)
    BY <1>a, <2>1, BecomeOthers
  <2>3. \/ request'[r] = [phase |-> "insert", slot |-> s] /\ Booking[s].interviewer = NoOne
        \/ request'[r].phase = "day"
    BY <1>a, <2>1, BecomeOthers
  <2>4. r \notin Waiting(P, F)'
    BY <2>3 DEF Waiting, AfterDay, AfterWeek
  <2> QED
    BY <2>1, <2>2, <2>4, RowsKept
<1>2. ASSUME NEW r \in Requests, NEW s \in Slots, ReadSlot(r, s)
      PROVE  Quiet
  <2>1. Others(r) /\ request'[r].phase = "edit" /\ UNCHANGED <<status, revived>>
    BY <1>a, <1>2, BecomeOthers DEF ReadSlot, rows
  <2> QED
    BY <2>1, RowsKept DEF Waiting, AfterDay, AfterWeek
<1>3. ASSUME NEW r \in Requests, NEW s \in Slots, NEW new \in SlotStatus,
             NEW answer \in InvitationStatus \cup {"NONE"}, Patch(r, s, new, answer)
      PROVE  Quiet
  <2>1. /\ Editing(r, s)
        /\ status' = [status EXCEPT ![s] = new]
        /\ revived' = IF status[s] = "CANCELLED" /\ new # "CANCELLED"
                        THEN revived \cup {s} ELSE revived
        /\ Leave(r, s)
    BY <1>3 DEF Patch
  <2>2. status[s] # "NONE"
    BY <1>a, <2>1 DEF Editing, HeldInv
  <2>3. Kept(P)' \subseteq Kept(P)
    BY <1>a, <2>1, <2>2 DEF Kept, Active, TypeOK
  <2>4. Others(r) /\ request'[r] = Idle
    BY <1>a, <2>1, LeaveOthers
  <2>5. Waiting(P, F)' \subseteq Waiting(P, F)
    BY <2>4 DEF Others, Waiting, AfterDay, AfterWeek, Idle
  <2> QED
    BY <2>3, <2>5
<1>4. ASSUME NEW r \in Requests, NEW s \in Slots, NEW answer \in Answers,
             AnswerInvitation(r, s, answer)
      PROVE  Quiet
  <2>1. Others(r) /\ request'[r] = Idle /\ UNCHANGED <<status, revived>>
    BY <1>a, <1>4, LeaveOthers DEF AnswerInvitation
  <2> QED
    BY <2>1, RowsKept DEF Waiting, AfterDay, AfterWeek, Idle
<1>5. ASSUME NEW r \in Requests, NEW s \in Slots, NEW attended \in Reports,
             Attend(r, s, attended)
      PROVE  Quiet
  <2>1. Others(r) /\ request'[r] = Idle /\ UNCHANGED <<status, revived>>
    BY <1>a, <1>5, LeaveOthers DEF Attend
  <2> QED
    BY <2>1, RowsKept DEF Waiting, AfterDay, AfterWeek, Idle
<1>6. ASSUME NEW r \in Requests, CountDay(r), F = AfterWeek \/ request[r].slot \notin P
      PROVE  Quiet
  <2>1. /\ request[r] \in [phase: {"day", "week"}, slot: Slots, limits: Limits]
        /\ UNCHANGED <<status, revived>>
    BY <1>a, <1>6, WorkShape DEF CountDay, rows
  <2>2. Others(r) /\ request'[r] = [request[r] EXCEPT !.phase = "week"]
    BY <1>a, <1>6, BecomeOthers DEF CountDay
  <2>3. request'[r].phase = "week" /\ request'[r].slot = request[r].slot
    BY <2>1, <2>2
  <2> QED
    BY <1>6, <2>1, <2>2, <2>3, RowsKept DEF Waiting, AfterWeek
<1>7. ASSUME NEW r \in Requests, CountWeek(r), F = AfterDay \/ request[r].slot \notin P
      PROVE  Quiet
  <2>1. request[r].phase = "week" /\ UNCHANGED <<status, revived>>
    BY <1>7 DEF CountWeek, rows
  <2>2. Others(r) /\ request'[r] = [phase |-> "insert", slot |-> request[r].slot]
    BY <1>a, <1>7, BecomeOthers DEF CountWeek
  <2> QED
    BY <1>7, <2>1, <2>2, RowsKept DEF Waiting, AfterDay
<1>8. ASSUME NEW r \in Requests, NEW i \in Interviewers, ReadOwn(r, i)
      PROVE  Quiet
  <2>1. Others(r) /\ request'[r].phase = "prefer" /\ UNCHANGED <<status, revived>>
    BY <1>a, <1>8, BecomeOthers DEF ReadOwn, rows
  <2> QED
    BY <2>1, RowsKept DEF Waiting, AfterDay, AfterWeek
<1>9. ASSUME NEW r \in Requests, NEW p \in Preferences, Prefer(r, p)
      PROVE  Quiet
  <2>1. Others(r) /\ request'[r] = Idle /\ UNCHANGED <<status, revived>>
    BY <1>a, <1>9, PreferOthers DEF Prefer, rows
  <2> QED
    BY <2>1, RowsKept DEF Waiting, AfterDay, AfterWeek, Idle
<1>10. ASSUME NEW r \in Requests, Fail(r)
       PROVE  Quiet
  <2>1. Others(r) /\ request'[r] = Idle /\ UNCHANGED <<status, revived>>
    BY <1>a, <1>10, BecomeOthers DEF Fail, rows
  <2> QED
    BY <2>1, RowsKept DEF Waiting, AfterDay, AfterWeek, Idle
<1>11. CASE Tick \/ UNCHANGED vars
  BY <1>11 DEF Tick, vars, rows, preferences, Kept, Active, Waiting
<1>12. AfterDay # AfterWeek
  BY DEF AfterDay, AfterWeek
<1> QED
  BY <1>1, <1>2, <1>3, <1>4, <1>5, <1>6, <1>7, <1>8, <1>9, <1>10, <1>11, <1>12 DEF Next

LEMMA OffersKept ==
  ASSUME IInv, [Next]_vars, NEW i \in Interviewers
  PROVE  offered[i] \subseteq offered'[i]
<1>1. ASSUME NEW r \in Requests, NEW p \in Preferences, Prefer(r, p)
      PROVE  offered[i] \subseteq offered'[i]
  BY <1>1 DEF Prefer, IInv, TypeOK
<1>2. CASE \A r \in Requests, p \in Preferences : ~ Prefer(r, p)
  BY <1>2 DEF Next, ReadPreference, ReadSlot, Patch, AnswerInvitation, Attend, CountDay,
              CountWeek, Insert, ReadOwn, Fail, Tick, preferences, vars
<1> QED
  BY <1>1, <1>2

(* What a request holds when it passes a count bounds the slots of the day *)
(* and of the week of its slot.                                            *)
LEMMA CountPasses ==
  ASSUME IInv, NEW r \in Requests, CountDay(r) \/ CountWeek(r)
  PROVE  /\ UNCHANGED <<status, revived, offered>>
         /\ request[r].slot \in Slots
         /\ request[r].limits \in offered[Booking[request[r].slot].interviewer]
         /\ CountDay(r) =>
              Cardinality(OnDay(request[r].slot)) < request[r].limits.perDay
         /\ CountWeek(r) =>
              Cardinality(InWeek(request[r].slot)) < request[r].limits.perWeek
  BY WorkShape DEF IInv, HeldInv, CountDay, CountWeek, rows, preferences

LEMMA OnDayHolds ==
  ASSUME NEW s \in Slots
  PROVE  /\ Kept(DayOf(s)) \subseteq OnDay(s)
         /\ Kept(WeekOf(s)) \subseteq InWeek(s)
<1>1. ASSUME NEW t \in Slots
      PROVE  /\ Booking[t].start \in Int /\ Booking[t].midnight \in Int
             /\ Booking[t].monday \in Int
             /\ Booking[t].start >= Booking[t].midnight
             /\ Booking[t].start < Booking[t].midnight + Day
             /\ Booking[t].start >= Booking[t].monday
             /\ Booking[t].start < Booking[t].monday + Week
  BY InterviewSlotsAssumption
<1> QED
  BY <1>1 DEF Kept, DayOf, WeekOf, OnDay, InWeek

LEMMA BoundInit == Init => DayInv /\ WeekInv
<1> SUFFICES ASSUME Init, NEW s \in Slots, Booking[s].interviewer # NoOne
             PROVE  \E p \in offered[Booking[s].interviewer] :
                      /\ Bounded(DayOf(s), AfterDay, p.perDay)
                      /\ Bounded(WeekOf(s), AfterWeek, p.perWeek)
  BY DEF DayInv, WeekInv
<1>1. ASSUME NEW P \in SUBSET Slots, NEW F \in {AfterDay, AfterWeek}, NEW n \in Nat \ {0}
      PROVE  Bounded(P, F, n)
  <2>1. Kept(P) = {} /\ Waiting(P, F) = {}
    BY DEF Init, Kept, Active, Waiting, Idle, AfterDay, AfterWeek
  <2>2. Cardinality(Kept(P)) = 0 /\ Cardinality(Waiting(P, F)) = 0
    BY <2>1, FS_EmptySet
  <2> QED
    BY <2>2, Finite DEF Bounded
<1>2. Default \in offered[Booking[s].interviewer]
  BY InterviewSlotsAssumption DEF Init
<1>3. Default.perDay \in Nat \ {0} /\ Default.perWeek \in Nat \ {0}
  BY InterviewSlotsAssumption DEF Limits
<1>4. DayOf(s) \in SUBSET Slots /\ WeekOf(s) \in SUBSET Slots
  BY DEF DayOf, WeekOf
<1> QED
  BY <1>1, <1>2, <1>3, <1>4

LEMMA DayStep == IInv /\ DayInv /\ [Next]_vars => DayInv'
<1> SUFFICES ASSUME IInv, DayInv, [Next]_vars,
                    NEW s \in Slots, Booking[s].interviewer # NoOne
             PROVE  \E p \in offered'[Booking[s].interviewer] :
                      Bounded(DayOf(s), AfterDay, p.perDay)'
  BY DEF DayInv
<1> DEFINE i == Booking[s].interviewer
           P == DayOf(s)
<1>1. TypeOK /\ i \in Interviewers /\ P \in SUBSET Slots
  BY InterviewSlotsAssumption DEF IInv, DayOf
<1>2. PICK p \in offered[i] : Bounded(P, AfterDay, p.perDay)
  BY DEF DayInv
<1>3. p.perDay \in Nat /\ p \in offered'[i]
  BY <1>1, OffersKept DEF TypeOK, Limits
<1>4. CASE Kept(P)' \subseteq Kept(P) /\ Waiting(P, AfterDay)' \subseteq Waiting(P, AfterDay)
  BY <1>1, <1>2, <1>3, <1>4, QuietBound
<1>5. ASSUME NEW r \in Requests, Insert(r)
      PROVE  Bounded(P, AfterDay, p.perDay)'
  BY <1>1, <1>2, <1>3, <1>5, InsertBound
<1>6. ASSUME NEW r \in Requests, CountDay(r), request[r].slot \in P
      PROVE  \E l \in offered'[i] : Bounded(P, AfterDay, l.perDay)'
  <2>a. /\ UNCHANGED <<status, revived, offered>>
        /\ request[r].slot \in Slots
        /\ request[r].limits \in offered[Booking[request[r].slot].interviewer]
        /\ Cardinality(OnDay(request[r].slot)) < request[r].limits.perDay
    BY <1>6, CountPasses
  <2>b. PICK t \in Slots, l \in offered[Booking[request[r].slot].interviewer] :
          t = request[r].slot /\ l = request[r].limits
    BY <2>a
  <2>1. /\ UNCHANGED <<status, revived, offered>> /\ t \in P
        /\ l \in offered[Booking[t].interviewer]
        /\ Cardinality(OnDay(t)) < l.perDay
    BY <1>6, <2>a, <2>b
  <2>2. Booking[t].interviewer = i /\ DayOf(t) = P
    BY <2>1 DEF DayOf
  <2>3. l \in offered'[i] /\ l.perDay \in Nat
    BY <1>1, <2>1, <2>2 DEF TypeOK, Limits
  <2>4. Kept(P) \subseteq OnDay(t) /\ OnDay(t) \in SUBSET Slots
    BY <2>2, OnDayHolds DEF OnDay
  <2>5. Kept(P)' = Kept(P)
    BY <2>1 DEF Kept, Active
  <2>6. Bounded(P, AfterDay, l.perDay)'
    BY <1>1, <2>1, <2>3, <2>4, <2>5, CountBound
  <2> QED
    BY <2>3, <2>6
<1>7. AfterDay # AfterWeek /\ \A t \in P : Booking[t].interviewer # NoOne
  BY DEF AfterDay, AfterWeek, DayOf
<1> QED
  BY <1>1, <1>3, <1>4, <1>5, <1>6, <1>7, StepKinds

LEMMA WeekStep == IInv /\ WeekInv /\ [Next]_vars => WeekInv'
<1> SUFFICES ASSUME IInv, WeekInv, [Next]_vars,
                    NEW s \in Slots, Booking[s].interviewer # NoOne
             PROVE  \E p \in offered'[Booking[s].interviewer] :
                      Bounded(WeekOf(s), AfterWeek, p.perWeek)'
  BY DEF WeekInv
<1> DEFINE i == Booking[s].interviewer
           P == WeekOf(s)
<1>1. TypeOK /\ i \in Interviewers /\ P \in SUBSET Slots
  BY InterviewSlotsAssumption DEF IInv, WeekOf
<1>2. PICK p \in offered[i] : Bounded(P, AfterWeek, p.perWeek)
  BY DEF WeekInv
<1>3. p.perWeek \in Nat /\ p \in offered'[i]
  BY <1>1, OffersKept DEF TypeOK, Limits
<1>4. CASE Kept(P)' \subseteq Kept(P) /\ Waiting(P, AfterWeek)' \subseteq Waiting(P, AfterWeek)
  BY <1>1, <1>2, <1>3, <1>4, QuietBound
<1>5. ASSUME NEW r \in Requests, Insert(r)
      PROVE  Bounded(P, AfterWeek, p.perWeek)'
  BY <1>1, <1>2, <1>3, <1>5, InsertBound
<1>6. ASSUME NEW r \in Requests, CountWeek(r), request[r].slot \in P
      PROVE  \E l \in offered'[i] : Bounded(P, AfterWeek, l.perWeek)'
  <2>a. /\ UNCHANGED <<status, revived, offered>>
        /\ request[r].slot \in Slots
        /\ request[r].limits \in offered[Booking[request[r].slot].interviewer]
        /\ Cardinality(InWeek(request[r].slot)) < request[r].limits.perWeek
    BY <1>6, CountPasses
  <2>b. PICK t \in Slots, l \in offered[Booking[request[r].slot].interviewer] :
          t = request[r].slot /\ l = request[r].limits
    BY <2>a
  <2>1. /\ UNCHANGED <<status, revived, offered>> /\ t \in P
        /\ l \in offered[Booking[t].interviewer]
        /\ Cardinality(InWeek(t)) < l.perWeek
    BY <1>6, <2>a, <2>b
  <2>2. Booking[t].interviewer = i /\ WeekOf(t) = P
    BY <2>1 DEF WeekOf
  <2>3. l \in offered'[i] /\ l.perWeek \in Nat
    BY <1>1, <2>1, <2>2 DEF TypeOK, Limits
  <2>4. Kept(P) \subseteq InWeek(t) /\ InWeek(t) \in SUBSET Slots
    BY <2>2, OnDayHolds DEF InWeek
  <2>5. Kept(P)' = Kept(P)
    BY <2>1 DEF Kept, Active
  <2>6. Bounded(P, AfterWeek, l.perWeek)'
    BY <1>1, <2>1, <2>3, <2>4, <2>5, CountBound
  <2> QED
    BY <2>3, <2>6
<1>7. AfterDay # AfterWeek /\ \A t \in P : Booking[t].interviewer # NoOne
  BY DEF AfterDay, AfterWeek, WeekOf
<1> QED
  BY <1>1, <1>3, <1>4, <1>5, <1>6, <1>7, StepKinds

LEMMA BoundInvariant == Spec => [](IInv /\ DayInv /\ WeekInv)
  BY TypeInit, TypeStep, BoundInit, DayStep, WeekStep, PTL DEF Spec

(* InterviewSlots.DayOverrunIsBounded: concurrent requests take a day over *)
(* the highest limit by at most as many as there are other requests.       *)
THEOREM DayCorrect == Spec => []DayOverrunIsBounded
<1>1. IInv /\ DayInv => DayOverrunIsBounded
  <2> SUFFICES ASSUME IInv, DayInv, NEW s \in Slots, Booking[s].interviewer # NoOne
               PROVE  \E p \in offered[Booking[s].interviewer] :
                        Cardinality({t \in Slots :
                          /\ Active(t) /\ t \notin revived
                          /\ Booking[t].interviewer = Booking[s].interviewer
                          /\ Booking[t].midnight = Booking[s].midnight})
                        <= p.perDay + Cardinality(Requests) - 1
    BY DEF DayOverrunIsBounded
  <2>1. Kept(DayOf(s)) = {t \in Slots :
                            /\ Active(t) /\ t \notin revived
                            /\ Booking[t].interviewer = Booking[s].interviewer
                            /\ Booking[t].midnight = Booking[s].midnight}
    BY DEF Kept, DayOf
  <2>2. PICK p \in offered[Booking[s].interviewer] : Bounded(DayOf(s), AfterDay, p.perDay)
    BY DEF DayInv
  <2>3. p.perDay \in Nat /\ DayOf(s) \in SUBSET Slots
    BY InterviewSlotsAssumption DEF IInv, TypeOK, Limits, DayOf
  <2>4. Cardinality(Kept(DayOf(s))) <= p.perDay + Cardinality(Requests) - 1
    BY <2>2, <2>3, Finite DEF Bounded
  <2> QED
    BY <2>1, <2>4
<1> QED
  BY <1>1, BoundInvariant, PTL

(* InterviewSlots.WeekOverrunIsBounded: the same of a week.                *)
THEOREM WeekCorrect == Spec => []WeekOverrunIsBounded
<1>1. IInv /\ WeekInv => WeekOverrunIsBounded
  <2> SUFFICES ASSUME IInv, WeekInv, NEW s \in Slots, Booking[s].interviewer # NoOne
               PROVE  \E p \in offered[Booking[s].interviewer] :
                        Cardinality({t \in Slots :
                          /\ Active(t) /\ t \notin revived
                          /\ Booking[t].interviewer = Booking[s].interviewer
                          /\ Booking[t].monday = Booking[s].monday})
                        <= p.perWeek + Cardinality(Requests) - 1
    BY DEF WeekOverrunIsBounded
  <2>1. Kept(WeekOf(s)) = {t \in Slots :
                             /\ Active(t) /\ t \notin revived
                             /\ Booking[t].interviewer = Booking[s].interviewer
                             /\ Booking[t].monday = Booking[s].monday}
    BY DEF Kept, WeekOf
  <2>2. PICK p \in offered[Booking[s].interviewer] : Bounded(WeekOf(s), AfterWeek, p.perWeek)
    BY DEF WeekInv
  <2>3. p.perWeek \in Nat /\ WeekOf(s) \in SUBSET Slots
    BY InterviewSlotsAssumption DEF IInv, TypeOK, Limits, WeekOf
  <2>4. Cardinality(Kept(WeekOf(s))) <= p.perWeek + Cardinality(Requests) - 1
    BY <2>2, <2>3, Finite DEF Bounded
  <2> QED
    BY <2>1, <2>4
<1> QED
  BY <1>1, BoundInvariant, PTL

(* InterviewSlots.OverrunIsBounded: however many requests book at once, an *)
(* interviewer is taken over the limits by at most the other requests.     *)
THEOREM OverrunCorrect == Spec => []OverrunIsBounded
<1>1. DayOverrunIsBounded /\ WeekOverrunIsBounded => OverrunIsBounded
  BY DEF OverrunIsBounded
<1> QED
  BY <1>1, DayCorrect, WeekCorrect, PTL
=============================================================================
