------------------------------- MODULE Surveys -------------------------------
(***************************************************************************)
(* Candidate feedback surveys (app/modules/surveys): the service behind    *)
(* the public survey link, with several requests in flight, and the sweep  *)
(* of the survey scheduler, which reminds and expires in one transaction.  *)
(*                                                                         *)
(* Survey rows carry no version.  A request judges the token, then the     *)
(* survey, in two statements, and writes in a third; the UPDATEs of one    *)
(* transaction lock their rows until it ends, and the last writer wins.    *)
(* A journey has one survey, named here by its journey.                    *)
(***************************************************************************)
EXTENDS Naturals

CONSTANTS
  Journeys,   (* journeys that may be asked for a survey                   *)
  Clients,    (* requests on survey links being served concurrently        *)
  MaxFaults   (* crashes and failed sweeps in one behaviour                *)

VARIABLES
  survey,     (* committed status of the survey of each journey            *)
  link,       (* is_active of its token                                    *)
  age,        (* 0: fresh, 1: 7 days old or more, 2: past its expiry       *)
  reminded,   (* first_reminder_sent_at is set                             *)
  reminders,  (* history: survey_reminder events committed                 *)
  responses,  (* response rows committed                                   *)
  client,     (* what each request is doing, or how it was answered        *)
  sweep,      (* what the scheduler is doing                               *)
  faults      (* history: crashes and failed sweeps so far                 *)

records == <<survey, link, reminded, reminders, responses>>

vars == <<records, age, client, sweep, faults>>

SurveyStatus == {"NONE", "SENT", "COMPLETED", "EXPIRED"}

Answers == {"none", "form", "ok", "unauthorized", "gone", "invalid", "conflict",
            "serverError"}

Idle(answer) == [phase |-> "idle", answer |-> answer]

Serving == [phase: {"token", "survey"}, journey: Journeys]

Sweeps == [phase: {"asleep", "reminding", "reminded", "expiring"},
           remind: SUBSET Journeys, expire: SUBSET Journeys]

Asleep == [phase |-> "asleep", remind |-> {}, expire |-> {}]

TypeOK ==
  /\ survey \in [Journeys -> SurveyStatus]
  /\ link \in [Journeys -> BOOLEAN]
  /\ age \in [Journeys -> 0 .. 2]
  /\ reminded \in [Journeys -> BOOLEAN]
  /\ reminders \in [Journeys -> Nat]
  /\ responses \in [Journeys -> Nat]
  /\ client \in [Clients -> {Idle(a) : a \in Answers} \cup Serving]
  /\ sweep \in Sweeps
  /\ faults \in 0 .. MaxFaults

Init ==
  /\ survey = [j \in Journeys |-> "NONE"]
  /\ link = [j \in Journeys |-> FALSE]
  /\ age = [j \in Journeys |-> 0]
  /\ reminded = [j \in Journeys |-> FALSE]
  /\ reminders = [j \in Journeys |-> 0]
  /\ responses = [j \in Journeys |-> 0]
  /\ client = [c \in Clients |-> Idle("none")]
  /\ sweep = Asleep
  /\ faults = 0

-----------------------------------------------------------------------------
(* create_survey_for_journey: the survey, SENT, and its token; a journey   *)
(* that has a survey keeps it.                                             *)
CreateAgain(j) ==  (* mutation: no look at the existing survey             *)
  /\ survey' = [survey EXCEPT ![j] = "SENT"]
  /\ link' = [link EXCEPT ![j] = TRUE]
  /\ UNCHANGED <<age, reminded, reminders, responses, client, sweep, faults>>

Create(j) ==
  /\ IF survey[j] = "NONE"
     THEN /\ survey' = [survey EXCEPT ![j] = "SENT"]
          /\ link' = [link EXCEPT ![j] = TRUE]
     ELSE UNCHANGED <<survey, link>>
  /\ UNCHANGED <<age, reminded, reminders, responses, client, sweep, faults>>

(* Time goes by for an open survey.                                        *)
Tick(j) ==
  /\ survey[j] = "SENT"
  /\ age[j] < 2
  /\ age' = [age EXCEPT ![j] = @ + 1]
  /\ UNCHANGED <<records, client, sweep, faults>>

-----------------------------------------------------------------------------
(* Requests on the link: get_survey_by_token, alone or as the first part   *)
(* of submit_survey.                                                       *)

Answer(c, code) == client' = [client EXCEPT ![c] = Idle(code)]

Valid(j) == link[j] /\ age[j] < 2

ReadToken(c, j) ==
  /\ client[c].phase = "idle"
  /\ IF Valid(j)
     THEN client' = [client EXCEPT ![c] = [phase |-> "token", journey |-> j]]
     ELSE Answer(c, "unauthorized")
  /\ UNCHANGED <<records, age, sweep, faults>>

ReadSurvey(c) ==
  /\ client[c].phase = "token"
  /\ IF survey[client[c].journey] \in {"EXPIRED", "COMPLETED"}
     THEN Answer(c, "gone")
     ELSE client' = [client EXCEPT ![c].phase = "survey"]
  /\ UNCHANGED <<records, age, sweep, faults>>

(* The form is sent, or a submission is refused for a rating or a comment, *)
(* or an error rolls it back.                                              *)
NoSubmission(c) ==
  /\ client[c].phase = "survey"
  /\ \E code \in {"form", "invalid", "serverError"} : Answer(c, code)
  /\ UNCHANGED <<records, age, sweep, faults>>

(* Rows the sweep has written and not committed.                           *)
Locked == IF sweep.phase \in {"reminded", "expiring"} THEN sweep.remind ELSE {}

(* The rest of submit_survey and its commit.  The status that was read is  *)
(* not tested again; the UPDATE waits for a sweep that holds the row.      *)
SubmitKeepsLink(c) ==  (* mutation: the token is not deactivated           *)
  /\ client[c].phase = "survey"
  /\ survey' = [survey EXCEPT ![client[c].journey] = "COMPLETED"]
  /\ responses' = [responses EXCEPT ![client[c].journey] = @ + 1]
  /\ Answer(c, "ok")
  /\ UNCHANGED <<link, age, reminded, reminders, sweep, faults>>

Submit(c) ==
  LET j == client[c].journey
  IN  /\ client[c].phase = "survey"
      /\ j \notin Locked
      /\ survey' = [survey EXCEPT ![j] = "COMPLETED"]
      /\ link' = [link EXCEPT ![j] = FALSE]
      /\ responses' = [responses EXCEPT ![j] = @ + 1]
      /\ Answer(c, "ok")
      /\ UNCHANGED <<age, reminded, reminders, sweep, faults>>

-----------------------------------------------------------------------------
(* _run_scheduler_iteration.                                               *)

(* Mutations: reminded again, reminded too late, expired only if reminded. *)
DueAgain == {j \in Journeys : survey[j] = "SENT" /\ age[j] >= 1}
DueLate == {j \in Journeys : survey[j] = "SENT" /\ age[j] > 1 /\ ~ reminded[j]}
ExpiredUnreminded == {j \in Journeys : survey[j] = "SENT" /\ age[j] = 2 /\ ~ reminded[j]}

DueForReminder == {j \in Journeys : survey[j] = "SENT" /\ age[j] >= 1 /\ ~ reminded[j]}

DueForExpiry == {j \in Journeys : survey[j] = "SENT" /\ age[j] = 2}

SelectReminders ==
  /\ sweep.phase = "asleep"
  /\ sweep' = [sweep EXCEPT !.phase = "reminding", !.remind = DueForReminder]
  /\ UNCHANGED <<records, age, client, faults>>

(* first_reminder_sent_at and the event are flushed, not yet committed.    *)
FlushReminders ==
  /\ sweep.phase = "reminding"
  /\ sweep' = [sweep EXCEPT !.phase = "reminded"]
  /\ UNCHANGED <<records, age, client, faults>>

SelectExpired ==
  /\ sweep.phase = "reminded"
  /\ sweep' = [sweep EXCEPT !.phase = "expiring", !.expire = DueForExpiry]
  /\ UNCHANGED <<records, age, client, faults>>

(* EXPIRED is written over whatever the row has become, its tokens are     *)
(* deactivated, and the whole sweep is committed.                          *)
CommitSweep ==
  /\ sweep.phase = "expiring"
  /\ reminded' = [j \in Journeys |-> reminded[j] \/ j \in sweep.remind]
  /\ reminders' = [j \in Journeys |->
                     IF j \in sweep.remind THEN reminders[j] + 1 ELSE reminders[j]]
  /\ survey' = [j \in Journeys |-> IF j \in sweep.expire THEN "EXPIRED" ELSE survey[j]]
  /\ link' = [j \in Journeys |-> link[j] /\ j \notin sweep.expire]
  /\ sweep' = Asleep
  /\ UNCHANGED <<age, responses, client, faults>>

(* One failing survey takes the whole sweep with it: after a failed flush  *)
(* the session can only roll back.                                         *)
SweepFails ==
  /\ faults < MaxFaults
  /\ sweep.phase # "asleep"
  /\ faults' = faults + 1
  /\ sweep' = Asleep
  /\ UNCHANGED <<records, age, client>>

Crash ==
  /\ faults < MaxFaults
  /\ faults' = faults + 1
  /\ sweep' = Asleep
  /\ client' = [c \in Clients |-> Idle("none")]
  /\ UNCHANGED <<records, age>>

ClientNext(c) ==
  \/ \E j \in Journeys : ReadToken(c, j)
  \/ ReadSurvey(c)
  \/ NoSubmission(c)
  \/ Submit(c)

SweepNext == SelectReminders \/ FlushReminders \/ SelectExpired \/ CommitSweep

Proceed ==
  \/ \E j \in Journeys : Tick(j)
  \/ \E c \in Clients : ClientNext(c)
  \/ SweepNext
  \/ SweepFails

Next ==
  \/ \E j \in Journeys : Create(j)
  \/ Proceed
  \/ Crash

Spec == Init /\ [][Next]_vars

-----------------------------------------------------------------------------
(* Properties.                                                             *)

(* A link works exactly while its survey is open: whichever of a           *)
(* submission and a sweep wrote last, the token died with the survey.      *)
LinkLivesWithSurvey == \A j \in Journeys : link[j] <=> survey[j] = "SENT"

(* A survey that was answered is closed, one never sent has no answer, and *)
(* COMPLETED means that there is an answer.                                *)
AnsweredIsClosed ==
  \A j \in Journeys :
    /\ responses[j] > 0 => survey[j] \in {"COMPLETED", "EXPIRED"}
    /\ survey[j] = "COMPLETED" => responses[j] > 0

(* At most one reminder per survey, and first_reminder_sent_at tells if it *)
(* went out, through failed sweeps, crashes and concurrent answers.        *)
RemindedOnce ==
  \A j \in Journeys : reminders[j] = IF reminded[j] THEN 1 ELSE 0

(* A survey past its expiry is closed eventually, by an answer or a sweep. *)
OverdueIsClosed ==
  \A j \in Journeys : (survey[j] = "SENT" /\ age[j] = 2) ~> (survey[j] # "SENT")

(* A survey open for seven days is reminded of, unless it closes first.    *)
DueIsReminded ==
  \A j \in Journeys :
    (survey[j] = "SENT" /\ age[j] >= 1) ~> (reminded[j] \/ survey[j] # "SENT")

-----------------------------------------------------------------------------
(* Statements of the documentation that the code does not keep.            *)

(* Interview workflow design, property 25: "a single ... Response record". *)
AtMostOneResponse == \A j \in Journeys : responses[j] <= 1

(* Interview workflow design, property 26: what expires is a survey "not   *)
(* completed by T+30 days".                                                *)
ExpiredWasNotAnswered ==
  \A j \in Journeys : survey[j] = "EXPIRED" => responses[j] = 0

(* The same property: "No reminders must be sent for expired surveys".     *)
NoReminderForExpired ==
  [][\A j \in Journeys : reminders'[j] > reminders[j] => survey'[j] # "EXPIRED"]_reminders

(* router.py: "Returns 409 if survey already completed, 410 if expired."   *)
ClosedSurveyIsGone ==
  [][\A c \in Clients, j \in Journeys :
       ReadToken(c, j) /\ survey[j] \in {"COMPLETED", "EXPIRED"}
         => client'[c].answer \in {"gone", "conflict"}]_vars
=============================================================================
