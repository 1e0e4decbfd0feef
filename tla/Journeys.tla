------------------------------ MODULE Journeys ------------------------------
(***************************************************************************)
(* The journey service and its router (app/modules/journeys) with several  *)
(* requests in flight.  A transition request loads the journey in one      *)
(* statement and writes it back in a later one, guarded only by the ORM's  *)
(* version counter; the stage row, the history row, the sealed join record *)
(* and the domain event are one transaction.  What the response schedules  *)
(* runs after it, and only if the response could be built.                 *)
(***************************************************************************)
EXTENDS JourneyStages, Naturals, Sequences

CONSTANTS
  Journeys,    (* journeys that may be created                             *)
  Requests     (* requests being served concurrently                       *)

VARIABLES
  stage,       (* current_stage of each journey, "NONE" before its row     *)
  overall,     (* overall_status of each journey                           *)
  version,     (* the optimistic lock counter of its row                   *)
  sealed,      (* is_encrypted of its candidate join record                *)
  history,     (* its stage history rows, oldest first                     *)
  outbox,      (* the domain events committed about it, oldest first       *)
  request,     (* what each request is doing, or how it was answered       *)
  surveyTasks, (* journeys with a survey task queued in this process       *)
  asked        (* history: survey tasks added by committed transitions     *)

rows == <<stage, overall, version, sealed, history, outbox>>

vars == <<rows, request, surveyTasks, asked>>

Steps == [from: Stages, to: Stages]

EventsOf == [type: {"journey_created", "journey_stage_changed"},
             from: Stages \cup {"NONE"}, to: Stages]

Created == [type |-> "journey_created", from |-> "NONE", to |-> "SOURCED"]

Changed(step) ==
  [type |-> "journey_stage_changed", from |-> step.from, to |-> step.to]

Answers == {"none", "ok", "badTransition", "badComment", "serverError", "conflict"}

Idle(answer) == [phase |-> "idle", answer |-> answer]

(* A request that has read a journey, and one that has committed and is    *)
(* about to be answered; asks tells whether it queued a survey task.       *)
Loaded == [phase: {"loaded"}, journey: Journeys, to: Stages, tooLong: BOOLEAN,
           stage: Stages, version: Nat]

Committed == [phase: {"committed"}, journey: Journeys, asks: BOOLEAN]

TypeOK ==
  /\ stage \in [Journeys -> Stages \cup {"NONE"}]
  /\ overall \in [Journeys -> {"ACTIVE", "COMPLETED"}]
  /\ version \in [Journeys -> Nat]
  /\ sealed \in [Journeys -> BOOLEAN]
  /\ history \in [Journeys -> Seq(Steps)]
  /\ outbox \in [Journeys -> Seq(EventsOf)]
  /\ request \in [Requests -> {Idle(a) : a \in Answers} \cup Loaded \cup Committed]
  /\ surveyTasks \in SUBSET Journeys
  /\ asked \in [Journeys -> Nat]

Init ==
  /\ stage = [j \in Journeys |-> "NONE"]
  /\ overall = [j \in Journeys |-> "ACTIVE"]
  /\ version = [j \in Journeys |-> 0]
  /\ sealed = [j \in Journeys |-> FALSE]
  /\ history = [j \in Journeys |-> <<>>]
  /\ outbox = [j \in Journeys |-> <<>>]
  /\ request = [r \in Requests |-> Idle("none")]
  /\ surveyTasks = {}
  /\ asked = [j \in Journeys |-> 0]

-----------------------------------------------------------------------------
(* create_journey: the journey, its join record and the event, committed.  *)
Create(r, j) ==
  /\ request[r].phase = "idle"
  /\ stage[j] = "NONE"
  /\ stage' = [stage EXCEPT ![j] = "SOURCED"]
  /\ version' = [version EXCEPT ![j] = 1]
  /\ outbox' = [outbox EXCEPT ![j] = Append(@, Created)]
  /\ request' = [request EXCEPT ![r] =
                   [phase |-> "committed", journey |-> j, asks |-> FALSE]]
  /\ UNCHANGED <<overall, sealed, history, surveyTasks, asked>>

(* transition_journey_stage up to the call of the service: get_journey,    *)
(* whose 404 leaves nothing to do.                                         *)
Load(r, j, to, tooLong) ==
  /\ request[r].phase = "idle"
  /\ stage[j] # "NONE"
  /\ request' = [request EXCEPT ![r] =
                   [phase |-> "loaded", journey |-> j, to |-> to, tooLong |-> tooLong,
                    stage |-> stage[j], version |-> version[j]]]
  /\ UNCHANGED <<rows, surveyTasks, asked>>

Answer(r, code) == request' = [request EXCEPT ![r] = Idle(code)]

(* transition_stage judges the stage that was loaded, then the comment.    *)
Reject(r) ==
  /\ request[r].phase = "loaded"
  /\ \/ /\ ~ Permitted(request[r].stage, request[r].to)
        /\ Answer(r, "badTransition")
     \/ /\ Permitted(request[r].stage, request[r].to)
        /\ request[r].tooLong
        /\ Answer(r, "badComment")
  /\ UNCHANGED <<rows, surveyTasks, asked>>

Accepted(r) ==
  /\ request[r].phase = "loaded"
  /\ Permitted(request[r].stage, request[r].to)
  /\ ~ request[r].tooLong

(* UPDATE ... WHERE version = the version that was loaded.                 *)
Unversioned(r) == request[r].phase = "loaded"  (* mutation: no version_id_col *)

Unchanged(r) == version[request[r].journey] = request[r].version

(* The stage that completes the journey and seals its record.              *)
Completes(to) == to = "OFFER_ACCEPTED"

(* The rest of transition_stage and its commit.                            *)
Transition(r) ==
  LET j == request[r].journey
      to == request[r].to
      step == [from |-> request[r].stage, to |-> to]
      asks == AsksForSurvey(step.from, to)
  IN  /\ Accepted(r)
      /\ Unchanged(r)
      /\ stage' = [stage EXCEPT ![j] = to]
      /\ version' = [version EXCEPT ![j] = @ + 1]
      /\ overall' = [overall EXCEPT ![j] = IF Completes(to) THEN "COMPLETED" ELSE @]
      /\ sealed' = [sealed EXCEPT ![j] = @ \/ Completes(to)]
      /\ history' = [history EXCEPT ![j] = Append(@, step)]
      /\ outbox' = [outbox EXCEPT ![j] = Append(@, Changed(step))]
      /\ request' = [request EXCEPT ![r] =
                       [phase |-> "committed", journey |-> j, asks |-> asks]]
      /\ asked' = [asked EXCEPT ![j] = IF asks THEN @ + 1 ELSE @]
      /\ UNCHANGED surveyTasks

(* The version moved on: StaleDataError, rolled back by the transaction    *)
(* and turned into a 500 by the router's catch-all.                        *)
Stale(r) ==
  /\ Accepted(r)
  /\ ~ Unchanged(r)
  /\ Answer(r, "serverError")
  /\ UNCHANGED <<rows, surveyTasks, asked>>

(* An error before the flush or the commit: rolled back, answered 500.     *)
FailAfterPublish(r) ==  (* mutation: the event commits on its own          *)
  /\ Accepted(r)
  /\ Answer(r, "serverError")
  /\ outbox' = [outbox EXCEPT ![request[r].journey] =
                  Append(@, Changed([from |-> request[r].stage, to |-> request[r].to]))]
  /\ UNCHANGED <<stage, overall, version, sealed, history, surveyTasks, asked>>

Fail(r) ==
  /\ Accepted(r)
  /\ Answer(r, "serverError")
  /\ UNCHANGED <<rows, surveyTasks, asked>>

(* The response is sent and its background tasks are queued ...            *)
Respond(r) ==
  /\ request[r].phase = "committed"
  /\ Answer(r, "ok")
  /\ surveyTasks' = IF request[r].asks
                    THEN surveyTasks \cup {request[r].journey}
                    ELSE surveyTasks
  /\ UNCHANGED <<rows, asked>>

(* ... or reading the row that the commit expired fails: the client gets   *)
(* an error for a transition that happened, and the tasks are dropped.     *)
ResponseFails(r) ==
  /\ request[r].phase = "committed"
  /\ Answer(r, "serverError")
  /\ UNCHANGED <<rows, surveyTasks, asked>>

(* _create_survey_on_loop_exit leaves the queue; what it does then is the  *)
(* business of module Surveys.                                             *)
TakeSurveyTask(j) ==
  /\ j \in surveyTasks
  /\ surveyTasks' = surveyTasks \ {j}
  /\ UNCHANGED <<rows, request, asked>>

(* The process dies: requests and queued tasks are gone, rows stay.        *)
Crash ==
  /\ request' = [r \in Requests |-> Idle("none")]
  /\ surveyTasks' = {}
  /\ UNCHANGED <<rows, asked>>

Serve(r) ==
  \/ \E j \in Journeys :
       \/ Create(r, j)
       \/ \E to \in Stages, tooLong \in BOOLEAN : Load(r, j, to, tooLong)
  \/ Reject(r)
  \/ Transition(r)
  \/ Stale(r)
  \/ Fail(r)
  \/ Respond(r)
  \/ ResponseFails(r)

Next ==
  \/ \E r \in Requests : Serve(r)
  \/ \E j \in Journeys : TakeSurveyTask(j)
  \/ Crash

Spec == Init /\ [][Next]_vars

-----------------------------------------------------------------------------
(* Properties.                                                             *)

(* The stage a history of transitions leads to.                            *)
Reached(j) ==
  IF history[j] = <<>> THEN "SOURCED" ELSE history[j][Len(history[j])].to

(* The history of a journey is a walk through VALID_TRANSITIONS that       *)
(* starts in SOURCED, joins end to end and ends in the current stage: two  *)
(* concurrent transitions never both leave the same stage.                 *)
HistoryIsPath ==
  \A j \in Journeys :
    /\ stage[j] = "NONE" => history[j] = <<>>
    /\ stage[j] # "NONE" => stage[j] = Reached(j)
    /\ \A i \in 1 .. Len(history[j]) :
         /\ Permitted(history[j][i].from, history[j][i].to)
         /\ history[j][i].from = IF i = 1 THEN "SOURCED" ELSE history[j][i - 1].to

(* Accepting the offer, completing the journey and sealing the join record *)
(* are one event: no reader of the three tables sees one without the other *)
(* two.                                                                    *)
AcceptedCompletedSealed ==
  \A j \in Journeys :
    /\ overall[j] = "COMPLETED" <=> stage[j] = "OFFER_ACCEPTED"
    /\ sealed[j] <=> stage[j] = "OFFER_ACCEPTED"

(* The committed events of a journey tell its history: one creation, then  *)
(* one change per history row, in the same order, and nothing else.        *)
OutboxTellsHistory ==
  \A j \in Journeys :
    outbox[j] = IF stage[j] = "NONE" THEN <<>>
                ELSE <<Created>> \o [i \in 1 .. Len(history[j]) |-> Changed(history[j][i])]

HasLeftLoop(j) == \E i \in 1 .. Len(history[j]) : history[j][i].from = "LOOP_INTERVIEW"

(* A journey leaves the interview loop once: no behaviour asks for its     *)
(* feedback survey twice, and a queued task belongs to a journey whose     *)
(* exit from the loop is committed.                                        *)
SurveyAskedOnce ==
  \A j \in Journeys :
    /\ asked[j] <= 1
    /\ j \in surveyTasks => asked[j] = 1
    /\ asked[j] = 1 <=> HasLeftLoop(j)

(* Nothing is ever written about a journey in a terminal stage, whatever   *)
(* request was in flight when it got there.                                *)
TerminalIsFinal ==
  [][\A j \in Journeys :
       stage[j] \in TERMINAL_STAGES =>
         /\ stage'[j] = stage[j]
         /\ history'[j] = history[j]
         /\ version'[j] = version[j]]_rows

Lifecycle == INSTANCE JourneyLifecycle WITH
  completed <- {j \in Journeys : overall[j] = "COMPLETED"},
  sealed <- {j \in Journeys : sealed[j]}

(* Seen from outside, the concurrent service keeps the sequential promise  *)
(* of JourneyLifecycle: each commit is one of its steps.                   *)
ImplementsLifecycle == Lifecycle!Spec

-----------------------------------------------------------------------------
(* Statements of the documentation that the code does not keep.            *)

(* router.py documents "409: Conflict: Optimistic lock failure (version    *)
(* mismatch)" for a transition whose journey has changed under it.         *)
StaleIsConflict ==
  [][\A r \in Requests : Stale(r) => request'[r] = Idle("conflict")]_vars

(* Interview workflow design, property 1: "For any valid transition, the   *)
(* request must succeed": what was committed is not answered as an error.  *)
CommittedIsAnsweredOk ==
  [][\A r \in Requests :
       request[r].phase = "committed" /\ request'[r].phase = "idle"
         => request'[r].answer \in {"ok", "none"}]_request
=============================================================================
