---------------------------- MODULE EventHandlers ----------------------------
(***************************************************************************)
(* The handlers of domain_events/handlers.py that notify someone, in the   *)
(* log of DomainEvents.                                                    *)
(*                                                                         *)
(* Such a handler looks its rows up in a session of its own, after the     *)
(* transaction that published the event, and returns when one of them is   *)
(* gone.  Then it reads email_encrypted, or first_name, of the person it   *)
(* would write to.  No model has these columns: the AttributeError is      *)
(* caught, logged and dropped by the handler itself.                       *)
(***************************************************************************)
EXTENDS DomainEvents, Sequences

CONSTANT Notifying   (* events that one of the six handlers takes          *)

ASSUME HandlersAssumption == Notifying \subseteq Contained

VARIABLES
  type,        (* event_type of each of them                               *)
  gone,        (* rows that are soft-deleted by now                        *)
  found        (* how many of its rows each running handler has found      *)

handlerVars == <<vars, type, gone, found>>

(* What each handler looks up, in its order.                               *)
JourneyStageChanged == <<"journey", "candidate", "requisition">>

QuestionnaireResponseCreated == <<"candidate">>

InterviewSlotCreated == <<"slot", "interviewer">>

(* The candidate may be gone; an interview there must be.                  *)
OfferAccepted == <<"journey", "slot">>

SurveyCreated == <<"survey", "candidate">>

SurveyReminder == <<"survey", "candidate">>

(* The registry, once the stubs are overridden.                            *)
HandlerRegistry ==
  [journey_stage_changed |-> JourneyStageChanged,
   candidate_questionnaire_response_created |-> QuestionnaireResponseCreated,
   interview_slot_created |-> InterviewSlotCreated,
   offer_accepted |-> OfferAccepted,
   survey_created |-> SurveyCreated,
   survey_reminder |-> SurveyReminder]

Types == DOMAIN HandlerRegistry

Kinds == {"journey", "candidate", "requisition", "slot", "interviewer", "survey"}

HandlersTypeOK ==
  /\ type \in [Notifying -> Types]
  /\ gone \in [Notifying -> SUBSET Kinds]
  /\ found \in [Dispatchers -> 0..3]

HandlersInit ==
  /\ Init
  /\ type \in [Notifying -> Types]
  /\ gone = [e \in Notifying |-> {}]
  /\ found = [d \in Dispatchers |-> 0]

-----------------------------------------------------------------------------
Rows(e) == HandlerRegistry[type[e]]

(* The deletion of a row the event tells of, at any time.                  *)
Lose(e, kind) ==
  /\ status[e] # "ABSENT"
  /\ \E i \in DOMAIN Rows(e) : Rows(e)[i] = kind
  /\ gone' = [gone EXCEPT ![e] = @ \cup {kind}]
  /\ UNCHANGED <<vars, type, found>>

Handles(d) == job[d].phase = "running" /\ job[d].event \in Notifying

AllFound(d) == found[d] = Len(Rows(job[d].event))

NextIsGone(d) == Rows(job[d].event)[found[d] + 1] \in gone[job[d].event]

FindRow(d) ==
  /\ Handles(d)
  /\ ~AllFound(d)
  /\ ~NextIsGone(d)
  /\ found' = [found EXCEPT ![d] = @ + 1]
  /\ UNCHANGED <<vars, type, gone>>

(* A row is not found: a warning and a return.                             *)
MissRow(d) ==
  /\ Handles(d)
  /\ ~AllFound(d)
  /\ NextIsGone(d)
  /\ HandlerFails(d)
  /\ found' = [found EXCEPT ![d] = 0]
  /\ UNCHANGED <<type, gone>>

MisreadUncaught(d) ==  (* mutation: the exception leaves the handler       *)
  /\ Handles(d)
  /\ AllFound(d)
  /\ job' = [job EXCEPT ![d].phase = "raised"]
  /\ found' = [found EXCEPT ![d] = 0]
  /\ UNCHANGED <<status, request, scheduled, tasks, batch, report, delivered, faults>>
  /\ UNCHANGED <<type, gone>>

(* The attribute that is not there.                                        *)
Misread(d) ==
  /\ Handles(d)
  /\ AllFound(d)
  /\ HandlerFails(d)
  /\ found' = [found EXCEPT ![d] = 0]
  /\ UNCHANGED <<type, gone>>

(* What DomainEvents leaves open: the stubs, which log, and what else is   *)
(* registered.                                                             *)
OtherHandler(d) ==
  /\ ~Handles(d)
  /\ \/ \E e \in Events : HandlerCompletes(d, e)
     \/ HandlerFails(d)
  /\ UNCHANGED <<type, gone, found>>

HandlerNext(d) ==
  \/ FindRow(d)
  \/ MissRow(d)
  \/ Misread(d)
  \/ OtherHandler(d)

RecordNext(d) ==
  /\ RecordOutcome(d) \/ CommitFails(d)
  /\ UNCHANGED <<type, gone, found>>

HandlersNext ==
  \/ /\ \/ \E e \in Events : RequestNext(e) \/ StartTask(e)
        \/ \E r \in Retriers : StartRetry(r)
        \/ \E r \in Retriers, e \in Events : RetryNext(r, e)
     /\ UNCHANGED <<type, gone, found>>
  \/ \E d \in Dispatchers : HandlerNext(d) \/ RecordNext(d)
  \/ \E e \in Notifying, kind \in Kinds : Lose(e, kind)
  \/ /\ Crash
     /\ found' = [d \in Dispatchers |-> 0]
     /\ UNCHANGED <<type, gone>>

(* The event loop runs what is ready: responses, tasks and jobs proceed.   *)
(* An operator keeps calling the retry endpoint, and the failures of a     *)
(* handler that may fail are not permanent.                                *)
HandlersSpec ==
  /\ HandlersInit /\ [][HandlersNext]_handlerVars
  /\ \A e \in Events : WF_vars(Commit(e) \/ Rollback(e) \/ Respond(e) \/ ResponseFails(e))
  /\ \A e \in Events : WF_vars(StartTask(e))
  /\ \A d \in Dispatchers : WF_handlerVars(HandlerNext(d) \/ RecordNext(d))
  /\ \A r \in Retriers : WF_vars(StartRetry(r))
  /\ \A r \in Retriers, e \in Events : WF_vars(RetryNext(r, e))
  /\ \A d \in Dispatchers, e \in Events \ Notifying :
       SF_handlerVars(OtherHandler(d) /\ HandlerCompletes(d, e))

-----------------------------------------------------------------------------
(* Properties.                                                             *)

(* A notification that failed is never taken up again, by anything: its    *)
(* event is recorded as PROCESSED and no retry call selects it.            *)
NotifyingIsNeverRetried ==
  \A e \in Notifying :
    /\ status[e] # "FAILED"
    /\ \A r \in Retriers : e \notin batch[r] /\ job[r].event # e

-----------------------------------------------------------------------------
(* Statements of the documentation that the code does not keep.            *)

(* Requirements 8.2 to 8.6: the agent "SHALL send an email notification to *)
(* the candidate", and so on; whoever is still there should have one.      *)
NotifiedWhenPresent ==
  \A e \in Notifying : status[e] = "PROCESSED" /\ gone[e] = {} => delivered[e] > 0
=============================================================================
