-------------------------- MODULE InterviewWorkflow --------------------------
(***************************************************************************)
(* Journeys and their feedback surveys together: leaving the interview     *)
(* loop queues a background task of the request's process, and the task    *)
(* creates the survey in a session of its own.  Nothing else connects the  *)
(* two; the task is not persisted and its errors are logged.               *)
(***************************************************************************)
EXTENDS Journeys, FiniteSets

CONSTANTS
  Clients,    (* requests on survey links being served concurrently        *)
  MaxFaults   (* crashes, failed tasks and failed sweeps in one behaviour  *)

ASSUME WorkflowAssumption ==
  /\ MaxFaults \in Nat
  /\ IsFiniteSet(Clients)

VARIABLES survey, link, age, reminded, reminders, responses, client, sweep, faults

S == INSTANCE Surveys

surveyVars ==
  <<survey, link, age, reminded, reminders, responses, client, sweep, faults>>

workflowVars == <<vars, surveyVars>>

WorkflowTypeOK == TypeOK /\ S!TypeOK

WorkflowInit == Init /\ S!Init

ServeJourney(r) == Serve(r) /\ UNCHANGED surveyVars

ServeSurvey == S!Proceed /\ UNCHANGED vars

(* _create_survey_on_loop_exit.                                            *)
TaskWithoutCommit(j) ==  (* mutation: the session of the task never commits *)
  TakeSurveyTask(j) /\ UNCHANGED surveyVars

RunSurveyTask(j) == TakeSurveyTask(j) /\ S!Create(j)

(* Its exception is logged, and that is all.                               *)
SurveyTaskFails(j) ==
  /\ faults < MaxFaults
  /\ TakeSurveyTask(j)
  /\ faults' = faults + 1
  /\ UNCHANGED <<survey, link, age, reminded, reminders, responses, client, sweep>>

(* One process serves both: they die together.                             *)
Restart == Crash /\ S!Crash

WorkflowNext ==
  \/ \E r \in Requests : ServeJourney(r)
  \/ \E j \in Journeys : RunSurveyTask(j) \/ SurveyTaskFails(j)
  \/ ServeSurvey
  \/ Restart

WorkflowSpec == WorkflowInit /\ [][WorkflowNext]_workflowVars

(* The surveys with the journeys at rest: tasks come from anywhere.  The   *)
(* scheduler's loop comes round again and a sweep, once begun, goes on.    *)
SurveysNext == S!Next /\ UNCHANGED vars

SurveysSpec ==
  /\ WorkflowInit
  /\ [][SurveysNext]_workflowVars
  /\ WF_surveyVars(S!SweepNext)

(* The event loop ends what it has begun: responses, background tasks and  *)
(* the scheduler's sweep.                                                  *)
Fairness ==
  /\ \A r \in Requests : WF_workflowVars((Respond(r) \/ ResponseFails(r)) /\ UNCHANGED surveyVars)
  /\ \A j \in Journeys : WF_workflowVars(RunSurveyTask(j) \/ SurveyTaskFails(j))
  /\ WF_workflowVars(S!SweepNext /\ UNCHANGED vars)

FairSpec == WorkflowSpec /\ Fairness

-----------------------------------------------------------------------------
(* Properties.                                                             *)

(* Surveys: a link works exactly while its survey is open, whoever wrote   *)
(* last (submit_survey, _expire_old_surveys).                              *)
LinkLivesWithSurvey == S!LinkLivesWithSurvey

(* Surveys: a survey that was answered is closed, and none is COMPLETED    *)
(* without an answer (submit_survey).                                      *)
AnsweredIsClosed == S!AnsweredIsClosed

(* Surveys: one reminder at most, and the row tells if it went out         *)
(* (_send_reminders).                                                      *)
RemindedOnce == S!RemindedOnce

(* Surveys: nothing keeps two requests from answering one survey, but only *)
(* requests that found its link open do: a survey has no more answers than *)
(* there are requests at a time, however often the process is restarted    *)
(* (submit_survey, get_survey_by_token).                                   *)
AnswersAreBounded == \A j \in Journeys : responses[j] <= Cardinality(Clients)

(* Surveys: the three statements of an answer and the four of a sweep, with*)
(* those of other requests between them, make the steps of SurveyLifecycle:*)
(* a link that was closed stays closed, and a sweep happens at its commit. *)
Promise == INSTANCE SurveyLifecycle WITH
  sent <- {j \in Journeys : survey[j] # "NONE"},
  open <- {j \in Journeys : link[j]},
  answered <- {j \in Journeys : responses[j] > 0},
  reminded <- {j \in Journeys : reminders[j] > 0}

ImplementsSurveyLifecycle == Promise!Spec

(* Surveys: the expiry sweep closes in the end what is overdue.            *)
OverdueIsClosed == S!OverdueIsClosed

(* Surveys: the reminder sweep reminds in the end of what is due.          *)
DueIsReminded == S!DueIsReminded

(* Only a candidate who has been through the loop has a survey, and the    *)
(* task that creates one never finds that it exists already.               *)
SurveyFollowsLoop ==
  \A j \in Journeys :
    /\ survey[j] # "NONE" => HasLeftLoop(j)
    /\ j \in surveyTasks => survey[j] = "NONE"

(* A task whose response was sent creates its survey, unless a fault ends  *)
(* it.                                                                     *)
QueuedTaskMakesSurvey ==
  \A j \in Journeys : (j \in surveyTasks) ~> (survey[j] # "NONE" \/ faults > 0)

(* Interview workflow design, property 23: for any journey that leaves     *)
(* LoopInterview a survey "must be created".                               *)
LeavingLoopMakesSurvey ==
  \A j \in Journeys : HasLeftLoop(j) ~> (survey[j] # "NONE")
=============================================================================
