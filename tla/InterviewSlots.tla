--------------------------- MODULE InterviewSlots ---------------------------
(***************************************************************************)
(* Interview slots and interviewer preferences (app/modules/slots).        *)
(*                                                                         *)
(* A request runs statement by statement, and what it reads is committed:  *)
(* a slot for an interviewer is created after three queries, one for the   *)
(* preference, one for the interviews of the day, one for those of the     *)
(* week, and other requests commit in between.  The rows of both tables    *)
(* have a version, so an UPDATE of a row that has moved since it was read  *)
(* fails; an INSERT is not compared with anything.                         *)
(***************************************************************************)
EXTENDS Integers, FiniteSets

CONSTANTS
  Slots,         (* the slots that may be created                           *)
  Interviewers,
  NoOne,         (* the interviewer of a slot that has none                 *)
  Requests,      (* requests that may be served at once                     *)
  Booking,       (* what a request asks for, for each slot                  *)
  Types,         (* the interview types                                     *)
  Default,       (* the limits of an interviewer without a preference       *)
  Preferences,   (* the preferences a request may ask for                   *)
  Patches,       (* the statuses an update may ask for                      *)
  Answers,       (* the invitation statuses an update may ask for           *)
  Reports,       (* the attendance statuses an update may ask for           *)
  Lengths,       (* the permitted lengths of a slot: 15 to 480 minutes      *)
  Day, Week,     (* the lengths of a day and of a week                      *)
  MaxTime        (* bound on the clock                                      *)

SlotStatus == {"SCHEDULED", "IN_PROGRESS", "COMPLETE", "CANCELLED"}
InvitationStatus == {"PENDING", "ACCEPTED", "DECLINED"}
AttendanceStatus == {"UNKNOWN", "ATTENDED", "NO_SHOW"}

Limits == [types: SUBSET Types, perDay: Nat \ {0}, perWeek: Nat \ {0}]

(* A day and a week begin where scheduled_start.replace and weekday say,   *)
(* in the time zone in which the request has written its start.            *)
ASSUME InterviewSlotsAssumption ==
  /\ NoOne \notin Interviewers
  /\ IsFiniteSet(Slots) /\ IsFiniteSet(Requests)
  /\ Booking \in [Slots -> [interviewer: Interviewers \cup {NoOne}, type: Types,
                            start: Int, end: Int, midnight: Int, monday: Int]]
  /\ Day \in Nat /\ Week \in Nat
  /\ \A s \in Slots :
       /\ Booking[s].start \in Booking[s].midnight .. Booking[s].midnight + Day - 1
       /\ Booking[s].start \in Booking[s].monday .. Booking[s].monday + Week - 1
  /\ Default \in Limits
  /\ Preferences \subseteq Limits
  /\ Patches \subseteq SlotStatus
  /\ Answers \subseteq InvitationStatus
  /\ Reports \subseteq AttendanceStatus
  /\ Lengths \subseteq Nat \ {0}
  /\ MaxTime \in Nat

VARIABLES
  now,           (* the clock                                               *)
  status,        (* status of each slot, NONE before it is created          *)
  invitation,    (* invitation_status, NONE for null                        *)
  attendance,    (* attendance_status                                       *)
  preference,    (* limits of each interviewer, the default without a row   *)
  stored,        (* interviewers that have a preference row                 *)
  request,       (* what each request is doing                              *)
  offered,       (* history: the limits an interviewer has ever had         *)
  revived        (* history: slots taken back from CANCELLED                *)

rows == <<status, invitation, attendance>>

preferences == <<preference, stored, offered>>

vars == <<now, rows, preferences, request, revived>>

Idle == [phase |-> "idle"]

(* current: the row that was read has not moved since.                     *)
Working ==
  [phase: {"day", "week"}, slot: Slots, limits: Limits]
    \cup [phase: {"insert"}, slot: Slots]
    \cup [phase: {"edit"}, slot: Slots, current: BOOLEAN]
    \cup [phase: {"prefer"}, interviewer: Interviewers, found: BOOLEAN, current: BOOLEAN]

TypeOK ==
  /\ now \in 0 .. MaxTime
  /\ status \in [Slots -> SlotStatus \cup {"NONE"}]
  /\ invitation \in [Slots -> InvitationStatus \cup {"NONE"}]
  /\ attendance \in [Slots -> AttendanceStatus]
  /\ preference \in [Interviewers -> Limits]
  /\ stored \in SUBSET Interviewers
  /\ request \in [Requests -> {Idle} \cup Working]
  /\ offered \in [Interviewers -> SUBSET Limits]
  /\ revived \in SUBSET Slots
  /\ \A i \in Interviewers : preference[i] \in offered[i]

Init ==
  /\ now = 0
  /\ status = [s \in Slots |-> "NONE"]
  /\ invitation = [s \in Slots |-> "NONE"]
  /\ attendance = [s \in Slots |-> "UNKNOWN"]
  /\ preference = [i \in Interviewers |-> Default]
  /\ stored = {}
  /\ request = [r \in Requests |-> Idle]
  /\ offered = [i \in Interviewers |-> {Default}]
  /\ revived = {}

Become(r, work) == request' = [request EXCEPT ![r] = work]

-----------------------------------------------------------------------------
(* create_slot and _validate_interviewer_assignment.                       *)

(* A slot has an identity of its own: no two requests create the same one. *)
Fresh(s) ==
  /\ status[s] = "NONE"
  /\ \A r \in Requests :
       request[r].phase \in {"day", "week", "insert"} => request[r].slot # s

Active(s) == status[s] \notin {"NONE", "CANCELLED"}

(* The counts of the queries: what the interviewer has in the day, and in  *)
(* the week, of slot s.                                                    *)
OnDay(s) ==
  {t \in Slots : /\ Active(t)
                 /\ Booking[t].interviewer = Booking[s].interviewer
                 /\ Booking[t].start >= Booking[s].midnight
                 /\ Booking[t].start < Booking[s].midnight + Day}

InWeek(s) ==
  {t \in Slots : /\ Active(t)
                 /\ Booking[t].interviewer = Booking[s].interviewer
                 /\ Booking[t].start >= Booking[s].monday
                 /\ Booking[t].start < Booking[s].monday + Week}

(* The preference, or the defaults, and the type of the interview.         *)
ReadPreference(r, s) ==
  LET b == Booking[s]
  IN  /\ request[r] = Idle
      /\ Fresh(s)
      /\ b.end - b.start \in Lengths
      /\ IF b.interviewer = NoOne
           THEN Become(r, [phase |-> "insert", slot |-> s])
           ELSE /\ b.type \in preference[b.interviewer].types
                /\ Become(r, [phase |-> "day", slot |-> s,
                              limits |-> preference[b.interviewer]])
      /\ UNCHANGED <<now, rows, preferences, revived>>

CountDayLate(r) ==  (* mutation: the limit itself is let through           *)
  /\ request[r].phase = "day"
  /\ Cardinality(OnDay(request[r].slot)) <= request[r].limits.perDay
  /\ Become(r, [request[r] EXCEPT !.phase = "week"])
  /\ UNCHANGED <<now, rows, preferences, revived>>

CountDay(r) ==
  /\ request[r].phase = "day"
  /\ Cardinality(OnDay(request[r].slot)) < request[r].limits.perDay
  /\ Become(r, [request[r] EXCEPT !.phase = "week"])
  /\ UNCHANGED <<now, rows, preferences, revived>>

CountWeek(r) ==
  /\ request[r].phase = "week"
  /\ Cardinality(InWeek(request[r].slot)) < request[r].limits.perWeek
  /\ Become(r, [phase |-> "insert", slot |-> request[r].slot])
  /\ UNCHANGED <<now, rows, preferences, revived>>

(* The insert, with the event of the invitation, committed with the        *)
(* session.                                                                *)
Insert(r) ==
  LET s == request[r].slot
  IN  /\ request[r].phase = "insert"
      /\ status' = [status EXCEPT ![s] = "SCHEDULED"]
      /\ invitation' = [invitation EXCEPT
           ![s] = IF Booking[s].interviewer = NoOne THEN "NONE" ELSE "PENDING"]
      /\ Become(r, Idle)
      /\ UNCHANGED <<now, attendance, preferences, revived>>

-----------------------------------------------------------------------------
(* The three updates of a slot: each reads the row and then writes it.     *)

ReadSlot(r, s) ==
  /\ request[r] = Idle
  /\ status[s] # "NONE"
  /\ Become(r, [phase |-> "edit", slot |-> s, current |-> TRUE])
  /\ UNCHANGED <<now, rows, preferences, revived>>

Editing(r, s) ==
  /\ request[r].phase = "edit"
  /\ request[r].slot = s
  /\ request[r].current

(* The row has moved for every other request that has read it, unless the  *)
(* values are those it has: then no UPDATE is sent.                        *)
Leave(r, s) ==
  request' = [q \in Requests |->
    IF q = r THEN Idle
    ELSE IF rows' # rows /\ request[q].phase = "edit" /\ request[q].slot = s
      THEN [request[q] EXCEPT !.current = FALSE]
      ELSE request[q]]

(* update_interview_slot: any status, any invitation status, or both.      *)
Patch(r, s, new, answer) ==
  /\ Editing(r, s)
  /\ new \in Patches \cup {status[s]}
  /\ answer \in Answers \cup {invitation[s]}
  /\ status' = [status EXCEPT ![s] = new]
  /\ invitation' = [invitation EXCEPT ![s] = answer]
  /\ revived' = IF status[s] = "CANCELLED" /\ new # "CANCELLED"
                  THEN revived \cup {s} ELSE revived
  /\ UNCHANGED <<now, attendance, preferences>>
  /\ Leave(r, s)

(* update_slot_invitation, called by the assigned interviewer.             *)
AnswerInvitation(r, s, answer) ==
  /\ Editing(r, s)
  /\ Booking[s].interviewer # NoOne
  /\ invitation' = [invitation EXCEPT ![s] = answer]
  /\ UNCHANGED <<now, status, attendance, preferences, revived>>
  /\ Leave(r, s)

(* update_slot_attendance: not before the end of the slot.                 *)
Attend(r, s, attended) ==
  /\ Editing(r, s)
  /\ Booking[s].end <= now
  /\ attendance' = [attendance EXCEPT ![s] = attended]
  /\ UNCHANGED <<now, status, invitation, preferences, revived>>
  /\ Leave(r, s)

-----------------------------------------------------------------------------
(* create_or_update_preference: the ownership of the preference is judged  *)
(* on the request alone, and left out.                                     *)

ReadOwn(r, i) ==
  /\ request[r] = Idle
  /\ Become(r, [phase |-> "prefer", interviewer |-> i, found |-> i \in stored,
                current |-> TRUE])
  /\ UNCHANGED <<now, rows, preferences, revived>>

(* An UPDATE of the row as it was read, or an INSERT that the constraint   *)
(* uk_interviewer_org lets through: a row that has been stored since is as *)
(* fatal to the one as a row that has moved is to the other.               *)
Prefer(r, p) ==
  LET i == request[r].interviewer
  IN  /\ request[r].phase = "prefer"
      /\ request[r].current
      /\ preference' = [preference EXCEPT ![i] = p]
      /\ stored' = stored \cup {i}
      /\ offered' = [offered EXCEPT ![i] = @ \cup {p}]
      /\ request' = [q \in Requests |->
           IF q = r THEN Idle
           ELSE IF /\ request[q].phase = "prefer" /\ request[q].interviewer = i
                   /\ (preference[i] # p \/ i \notin stored)
             THEN [request[q] EXCEPT !.current = FALSE]
             ELSE request[q]]
      /\ UNCHANGED <<now, rows, revived>>

-----------------------------------------------------------------------------
(* A request that is refused, that finds its row moved, whose commit fails *)
(* or that ends with the process: its transaction is rolled back.          *)
Fail(r) ==
  /\ request[r] # Idle
  /\ Become(r, Idle)
  /\ UNCHANGED <<now, rows, preferences, revived>>

Tick ==
  /\ now < MaxTime
  /\ now' = now + 1
  /\ UNCHANGED <<rows, preferences, request, revived>>

Next ==
  \/ \E r \in Requests, s \in Slots :
       \/ ReadPreference(r, s)
       \/ ReadSlot(r, s)
       \/ \E new \in SlotStatus, answer \in InvitationStatus \cup {"NONE"} :
            Patch(r, s, new, answer)
       \/ \E answer \in Answers : AnswerInvitation(r, s, answer)
       \/ \E attended \in Reports : Attend(r, s, attended)
  \/ \E r \in Requests :
       \/ CountDay(r)
       \/ CountWeek(r)
       \/ Insert(r)
       \/ \E i \in Interviewers : ReadOwn(r, i)
       \/ \E p \in Preferences : Prefer(r, p)
       \/ Fail(r)
  \/ Tick

Spec == Init /\ [][Next]_vars

-----------------------------------------------------------------------------
(* Properties.                                                             *)

(* The limits are judged on counts that concurrent requests outdate, and   *)
(* an update takes a slot back from CANCELLED without any.  Of the slots   *)
(* that were not taken back, an interviewer has in a day at most as many   *)
(* above the highest limit ever set as there are other requests.           *)
DayOverrunIsBounded ==
  \A s \in Slots : LET i == Booking[s].interviewer IN i # NoOne =>
    \E p \in offered[i] :
      Cardinality({t \in Slots : /\ Active(t) /\ t \notin revived
                                /\ Booking[t].interviewer = i
                                /\ Booking[t].midnight = Booking[s].midnight})
        <= p.perDay + Cardinality(Requests) - 1

(* The same of a week.                                                     *)
WeekOverrunIsBounded ==
  \A s \in Slots : LET i == Booking[s].interviewer IN i # NoOne =>
    \E p \in offered[i] :
      Cardinality({t \in Slots : /\ Active(t) /\ t \notin revived
                                /\ Booking[t].interviewer = i
                                /\ Booking[t].monday = Booking[s].monday})
        <= p.perWeek + Cardinality(Requests) - 1

(* Both: neither way of racing, nor their mixture, does better.            *)
OverrunIsBounded == DayOverrunIsBounded /\ WeekOverrunIsBounded

-----------------------------------------------------------------------------
(* Statements of the documentation that the code does not keep.            *)

(* Interview workflow design, property 6: a slot assignment that would     *)
(* exceed MaxInterviewsPerDay "must be rejected with a 409 Conflict".      *)
AssignmentsRespectDay ==
  [][\A r \in Requests :
       Insert(r) /\ Booking[request[r].slot].interviewer # NoOne =>
         Cardinality(OnDay(request[r].slot))
           < preference[Booking[request[r].slot].interviewer].perDay]_vars
=============================================================================
