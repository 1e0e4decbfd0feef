------------------------------- MODULE Records -------------------------------
(***************************************************************************)
(* Five components whose rows have nothing to do with each other:          *)
(* Questionnaires, Feedback, Availability, CandidateData and               *)
(* Notifications.  A behaviour is one of a single component, the others    *)
(* rest: `part` names it, and the states are the sum of the five, not      *)
(* their product.  The reminders and the cascade of Availability are both  *)
(* about Interviews, each about what it reads of them.                     *)
(***************************************************************************)
EXTENDS Questionnaires

CONSTANTS
  Slots, Feedbacks, Texts, NoContent, NoFeedback, Editors,
  Windows, Interviews, MaxActive, Callers,
  Ids, People, Resumes, Dsars, Workers, NoOne,
  Interval, Window, MaxAttempts, MaxFaults,
  Parts          (* the components of an instance                           *)

ASSUME RecordsAssumption ==
  /\ Parts \subseteq {"questionnaires", "feedback", "availability", "data", "reminders"}
  /\ MaxActive \in Nat \ {0}
  /\ IsFiniteSet(Callers)
  /\ NoOne \notin Ids
  /\ IsFiniteSet(Interviews)
  /\ Interval \in Nat \ {0}
  /\ Window \in Nat
  /\ MaxAttempts \in Nat \ {0}
  /\ MaxFaults \in Nat

VARIABLES
  part,
  feedback, pointer, edit, agent,
  window, interview, booking,
  candidate, resume, referred, skilled, dsar, ingestion, handling, purge,
  left, open, sweep, faults, waited, reminded

feedbackVars == <<feedback, pointer, edit, agent>>

availabilityVars == <<window, interview, booking>>

dataVars == <<candidate, resume, referred, skilled, dsar, ingestion, handling, purge>>

reminderVars == <<left, open, sweep, faults, waited, reminded>>

F == INSTANCE Feedback WITH Contents <- Texts

A == INSTANCE Availability

D == INSTANCE CandidateData WITH Candidates <- Ids, sweep <- purge

N == INSTANCE Notifications WITH Slots <- Interviews

recordsVars == <<part, vars, feedbackVars, availabilityVars, dataVars, reminderVars>>

RecordsInit ==
  /\ part \in Parts
  /\ Init
  /\ F!Init
  /\ A!Init
  /\ D!Init
  /\ N!Init

RecordsNext ==
  /\ UNCHANGED part
  /\ \/ /\ part = "questionnaires"
        /\ Next
        /\ UNCHANGED <<feedbackVars, availabilityVars, dataVars, reminderVars>>
     \/ /\ part = "feedback"
        /\ F!Next
        /\ UNCHANGED <<vars, availabilityVars, dataVars, reminderVars>>
     \/ /\ part = "availability"
        /\ A!Next
        /\ UNCHANGED <<vars, feedbackVars, dataVars, reminderVars>>
     \/ /\ part = "data"
        /\ D!Next
        /\ UNCHANGED <<vars, feedbackVars, availabilityVars, reminderVars>>
     \/ /\ part = "reminders"
        /\ N!Next
        /\ UNCHANGED <<vars, feedbackVars, availabilityVars, dataVars>>

RecordsSpec == RecordsInit /\ [][RecordsNext]_recordsVars

(* The reminders by themselves, while their process runs and the clock     *)
(* with it.  That an attempt comes back is not assumed.                    *)
RemindersInit == RecordsInit /\ part = "reminders"

RemindersSpec ==
  /\ RemindersInit
  /\ [][RecordsNext]_recordsVars
  /\ WF_reminderVars(N!Tick)
  /\ WF_reminderVars(N!Proceed)

(* All the types.                                                          *)
RecordsTypeOK ==
  /\ TypeOK
  /\ F!FeedbackTypeOK
  /\ A!AvailabilityTypeOK
  /\ D!CandidateDataTypeOK
  /\ N!TypeOK

(* Feedback: a slot never gets a feedback over one that was attached after *)
(* the slot was read (create_feedback, submit_transcript).                 *)
ReplacedWasSeen == F!ReplacedWasSeen

(* Feedback: what is submitted is as it was read, and what an edit or a    *)
(* task began before the submission does not change it.                    *)
SubmittedIsAsRead == F!SubmittedIsAsRead

(* Availability: concurrent requests exceed the limit of active windows by *)
(* less than one each (_check_active_slot_limit counts before the insert). *)
ActiveOverrunIsBounded == A!ActiveOverrunIsBounded

(* Availability: the cascade of cancel_availability cancels no interview   *)
(* that moved since it was found.                                          *)
CascadeHitsScheduled == A!CascadeHitsScheduled

(* CandidateData: a completed erasure left no row that refers to its       *)
(* candidate, whatever ingestion was under way (process_erasure_dsar).     *)
CompletedErasureIsDone == D!CompletedErasureIsDone

(* CandidateData: a resume is COMPLETED after all that its answer brought  *)
(* is committed (_run_ingestion).                                          *)
CompletedIsApplied == D!CompletedIsApplied

(* Notifications: a reminder is never early, and only its own back-offs    *)
(* make it late (send_24h_reminder, deliver).                              *)
RemindersAreTimely == N!RemindersAreTimely

(* Notifications: an interview that stays due is taken up within a bound,  *)
(* with every attempt failing and every fault allowed for                  *)
(* (run_reminder_check).                                                   *)
DueIsTakenUp == N!DueIsTakenUp

(* Notifications: a sweep ends, unless an attempt that began never comes   *)
(* back (deliver, _send_via_smtp).                                         *)
SweepEndsOrHangs == N!SweepEndsOrHangs
=============================================================================
