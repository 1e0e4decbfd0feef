--------------------------- MODULE DomainEvents ---------------------------
(***************************************************************************)
(* The domain event log of app/domain_events: an event row is inserted in  *)
(* the transaction of the request that publishes it, dispatched afterwards *)
(* by an in-memory background task of that request, and, when its handler  *)
(* raised, dispatched again by the operator's retry endpoint.              *)
(*                                                                         *)
(* One request publishes each event.  A dispatch, whether it is the        *)
(* background task of an event or one turn of a retry call, is a job with  *)
(* a session of its own: it loads the row, runs the handler, and writes    *)
(* the status.  Jobs interleave, and the process may crash at any point.   *)
(***************************************************************************)
EXTENDS Naturals, FiniteSets

CONSTANTS
  Events,      (* event rows that requests may publish                     *)
  Contained,   (* events whose handler catches every exception it meets    *)
  Retriers,    (* concurrent calls of the retry endpoint                   *)
  NoEvent,     (* the event of an idle job                                 *)
  MaxFaults,   (* crashes and failed commits in one behaviour              *)
  MaxCount     (* the count at which the history variable saturates        *)

ASSUME EventsAssumption ==
  /\ Contained \subseteq Events
  /\ Events \cap Retriers = {}
  /\ NoEvent \notin Events
  /\ MaxFaults \in Nat
  /\ MaxCount \in Nat

VARIABLES
  status,      (* committed column status of each row, "ABSENT" before it  *)
  request,     (* progress of the request that publishes the event         *)
  scheduled,   (* events with a task in the request's BackgroundTasks      *)
  tasks,       (* background tasks whose response was sent, not yet run    *)
  job,         (* what each dispatcher is doing                            *)
  batch,       (* rows a retry call selected and has not dispatched yet    *)
  report,      (* counts a retry call returns; raised is a history field   *)
  delivered,   (* history: times the handler of the event took full effect *)
  faults       (* history: crashes and failed commits so far               *)

vars == <<status, request, scheduled, tasks, job, batch, report, delivered, faults>>

EventStatus == {"PENDING", "PROCESSED", "FAILED"}

(* The background task of an event is the dispatcher named by the event.   *)
Dispatchers == Events \cup Retriers

Idle == [phase |-> "idle", event |-> NoEvent, loaded |-> "ABSENT"]

Jobs == [phase: {"idle", "running", "returned", "raised"},
         event: Events \cup {NoEvent},
         loaded: EventStatus \cup {"ABSENT"}]

Reports == [retried: Nat, errors: Nat, raised: Nat]

NoReport == [retried |-> 0, errors |-> 0, raised |-> 0]

TypeOK ==
  /\ status \in [Events -> EventStatus \cup {"ABSENT"}]
  /\ request \in [Events -> {"idle", "open", "committed", "closed"}]
  /\ scheduled \in SUBSET Events
  /\ tasks \in SUBSET Events
  /\ job \in [Dispatchers -> Jobs]
  /\ batch \in [Retriers -> SUBSET Events]
  /\ report \in [Retriers -> Reports]
  /\ delivered \in [Events -> 0 .. MaxCount]
  /\ faults \in 0 .. MaxFaults

Init ==
  /\ status = [e \in Events |-> "ABSENT"]
  /\ request = [e \in Events |-> "idle"]
  /\ scheduled = {}
  /\ tasks = {}
  /\ job = [d \in Dispatchers |-> Idle]
  /\ batch = [r \in Retriers |-> {}]
  /\ report = [r \in Retriers |-> NoReport]
  /\ delivered = [e \in Events |-> 0]
  /\ faults = 0

-----------------------------------------------------------------------------
(* The publishing request.                                                 *)

(* publish_event: the row is flushed, not committed; a task is added only  *)
(* when the caller was given a BackgroundTasks.                            *)
Publish(e, background) ==
  /\ request[e] = "idle"
  /\ request' = [request EXCEPT ![e] = "open"]
  /\ scheduled' = IF background THEN scheduled \cup {e} ELSE scheduled
  /\ UNCHANGED <<status, tasks, job, batch, report, delivered, faults>>

Commit(e) ==
  /\ request[e] = "open"
  /\ request' = [request EXCEPT ![e] = "committed"]
  /\ status' = [status EXCEPT ![e] = "PENDING"]
  /\ UNCHANGED <<scheduled, tasks, job, batch, report, delivered, faults>>

(* An exception before the commit: the row is rolled back and the error    *)
(* response carries no background tasks.                                   *)
Rollback(e) ==
  /\ request[e] = "open"
  /\ request' = [request EXCEPT ![e] = "closed"]
  /\ scheduled' = scheduled \ {e}
  /\ UNCHANGED <<status, tasks, job, batch, report, delivered, faults>>

(* The response is sent after the session dependency has committed, and    *)
(* only then are the tasks of the request run.                             *)
RespondEarly(e) ==  (* mutation: tasks are run before the commit           *)
  /\ request[e] \in {"open", "committed"}
  /\ tasks' = tasks \cup (scheduled \cap {e})
  /\ scheduled' = scheduled \ {e}
  /\ UNCHANGED <<status, request, job, batch, report, delivered, faults>>

Respond(e) ==
  /\ request[e] = "committed"
  /\ request' = [request EXCEPT ![e] = "closed"]
  /\ tasks' = tasks \cup (scheduled \cap {e})
  /\ scheduled' = scheduled \ {e}
  /\ UNCHANGED <<status, job, batch, report, delivered, faults>>

(* The handler raises after a service-level commit (serialising an expired *)
(* object, say): the client gets an error and the tasks are dropped.       *)
ResponseFails(e) ==
  /\ request[e] = "committed"
  /\ request' = [request EXCEPT ![e] = "closed"]
  /\ scheduled' = scheduled \ {e}
  /\ UNCHANGED <<status, tasks, job, batch, report, delivered, faults>>

-----------------------------------------------------------------------------
(* Dispatch.                                                               *)

Load(d, e) ==
  job' = [job EXCEPT ![d] =
            [phase |-> "running", event |-> e, loaded |-> status[e]]]

(* _dispatch_with_status_update run as a background task: a row that is    *)
(* not there is logged and skipped.                                        *)
StartTask(e) ==
  /\ e \in tasks
  /\ tasks' = tasks \ {e}
  /\ IF status[e] = "ABSENT" THEN UNCHANGED job ELSE Load(e, e)
  /\ UNCHANGED <<status, request, scheduled, batch, report, delivered, faults>>

(* retry_failed_events: select the FAILED rows ...                         *)
(* Mutations: selecting what is unfinished, selecting what is pending.     *)
UnfinishedRows == {e \in Events : status[e] \in {"PENDING", "FAILED"}}
PendingRows == {e \in Events : status[e] = "PENDING"}

FailedRows == {e \in Events : status[e] = "FAILED"}

StartRetry(r) ==
  /\ job[r] = Idle
  /\ batch[r] = {}
  /\ batch' = [batch EXCEPT ![r] = FailedRows]
  /\ report' = [report EXCEPT ![r] = NoReport]
  /\ UNCHANGED <<status, request, scheduled, tasks, job, delivered, faults>>

(* ... and dispatch them one after the other, each in a session of its own *)
(* that loads the row again.                                               *)
RetryNext(r, e) ==
  /\ job[r] = Idle
  /\ e \in batch[r]
  /\ batch' = [batch EXCEPT ![r] = @ \ {e}]
  /\ Load(r, e)
  /\ UNCHANGED <<status, request, scheduled, tasks, report, delivered, faults>>

HandlerCompletes(d, e) ==
  /\ job[d].phase = "running"
  /\ job[d].event = e
  /\ job' = [job EXCEPT ![d].phase = "returned"]
  /\ delivered' = [delivered EXCEPT ![e] = IF @ < MaxCount THEN @ + 1 ELSE @]
  /\ UNCHANGED <<status, request, scheduled, tasks, batch, report, faults>>

(* The handler meets an error.  One that contains it logs and returns.     *)
HandlerFails(d) ==
  /\ job[d].phase = "running"
  /\ job' = [job EXCEPT ![d].phase =
               IF job[d].event \in Contained THEN "returned" ELSE "raised"]
  /\ UNCHANGED <<status, request, scheduled, tasks, batch, report, delivered, faults>>

Outcome(d) == IF job[d].phase = "returned" THEN "PROCESSED" ELSE "FAILED"

Raised(d) == IF job[d].phase = "raised" THEN 1 ELSE 0

(* A retry call counts what became of each dispatch.                       *)
Count(d, more) ==
  report' = IF d \in Retriers
            THEN [report EXCEPT ![d] = [f \in DOMAIN @ |-> @[f] + more[f]]]
            ELSE report

RecordSuccess(d) ==  (* mutation: written only when nothing was raised     *)
  /\ job[d].phase \in {"returned", "raised"}
  /\ job' = [job EXCEPT ![d] = Idle]
  /\ status' = IF job[d].phase = "raised"
               THEN status
               ELSE [status EXCEPT ![job[d].event] = "PROCESSED"]
  /\ Count(d, [retried |-> 1, errors |-> 0, raised |-> Raised(d)])
  /\ UNCHANGED <<request, scheduled, tasks, batch, delivered, faults>>

(* The assignment of event.status and its commit.  The ORM emits no UPDATE *)
(* of a column whose value equals the one that was loaded.                 *)
RecordOutcome(d) ==
  /\ job[d].phase \in {"returned", "raised"}
  /\ job' = [job EXCEPT ![d] = Idle]
  /\ status' = IF Outcome(d) = job[d].loaded
               THEN status
               ELSE [status EXCEPT ![job[d].event] = Outcome(d)]
  /\ Count(d, [retried |-> 1, errors |-> 0, raised |-> Raised(d)])
  /\ UNCHANGED <<request, scheduled, tasks, batch, delivered, faults>>

-----------------------------------------------------------------------------
(* Faults.                                                                 *)

(* The commit of a dispatch fails: the exception ends a background task,   *)
(* and is counted and passed over by a retry call.                         *)
CommitFails(d) ==
  /\ faults < MaxFaults
  /\ job[d].phase \in {"returned", "raised"}
  /\ job' = [job EXCEPT ![d] = Idle]
  /\ faults' = faults + 1
  /\ Count(d, [retried |-> 0, errors |-> 1, raised |-> Raised(d)])
  /\ UNCHANGED <<status, request, scheduled, tasks, batch, delivered>>

(* The process dies: open transactions roll back, everything in memory is  *)
(* gone, committed rows stay.                                              *)
Crash ==
  /\ faults < MaxFaults
  /\ faults' = faults + 1
  /\ request' = [e \in Events |-> IF request[e] = "idle" THEN "idle" ELSE "closed"]
  /\ scheduled' = {}
  /\ tasks' = {}
  /\ job' = [d \in Dispatchers |-> Idle]
  /\ batch' = [r \in Retriers |-> {}]
  /\ report' = [r \in Retriers |-> NoReport]
  /\ UNCHANGED <<status, delivered>>

RequestNext(e) ==
  \/ \E background \in BOOLEAN : Publish(e, background)
  \/ Commit(e)
  \/ Rollback(e)
  \/ Respond(e)
  \/ ResponseFails(e)

JobNext(d) ==
  \/ \E e \in Events : HandlerCompletes(d, e)
  \/ HandlerFails(d)
  \/ RecordOutcome(d)
  \/ CommitFails(d)

Next ==
  \/ \E e \in Events : RequestNext(e) \/ StartTask(e)
  \/ \E r \in Retriers : StartRetry(r)
  \/ \E r \in Retriers, e \in Events : RetryNext(r, e)
  \/ \E d \in Dispatchers : JobNext(d)
  \/ Crash

Spec == Init /\ [][Next]_vars

-----------------------------------------------------------------------------
(* Properties.                                                             *)

(* A handler never sees an event of a transaction that did not commit:     *)
(* whatever is queued for dispatch, or being dispatched, has a row.  This  *)
(* is what publishing inside the transaction and running tasks after the   *)
(* response are for.                                                       *)
OnlyCommittedDispatched ==
  /\ \A e \in tasks : status[e] # "ABSENT"
  /\ \A r \in Retriers : \A e \in batch[r] : status[e] # "ABSENT"
  /\ \A d \in Dispatchers : job[d] # Idle => status[job[d].event] # "ABSENT"

(* With one retry call at a time a handler takes effect at most once per   *)
(* event, plus once for every crash or lost commit that hid its success.   *)
EffectsBoundedByFaults == \A e \in Events : delivered[e] <= 1 + faults

(* A background task has its event to itself: while it waits or runs, the  *)
(* row is PENDING, and no retry call has selected or taken it, however     *)
(* many are under way (_dispatch_with_status_update against                *)
(* retry_failed_events).                                                   *)
TaskRunsAlone ==
  \A e \in Events :
    e \in tasks \/ job[e] # Idle =>
      /\ status[e] = "PENDING"
      /\ \A r \in Retriers : e \notin batch[r] /\ job[r].event # e

(* A task whose response was sent settles its event, unless a fault ends   *)
(* it: no scheduled event is left PENDING by the dispatcher itself.        *)
ScheduledIsSettled ==
  \A e \in Events :
    (e \in tasks) ~> (status[e] \in {"PROCESSED", "FAILED"} \/ faults > 0)

(* An event that failed is eventually processed when the operator keeps    *)
(* retrying and its handler does not fail for ever, whatever crashes.      *)
FailedIsEventuallyProcessed ==
  \A e \in Events : (status[e] = "FAILED") ~> (status[e] = "PROCESSED")

(* retry.py: a retry call "re-dispatches each one" of the FAILED events:   *)
(* an event is FAILED when its handler is run again.  Kept by one call at  *)
(* a time; two overlapping calls select the same rows.                     *)
RetriesOnlyFailed ==
  [][\A r \in Retriers :
       job[r] = Idle /\ job'[r] # Idle => status[job'[r].event] = "FAILED"]_job

-----------------------------------------------------------------------------
(* Statements of the documentation that the code does not keep.            *)

(* publisher.py, docstring of publish_event: without background tasks the  *)
(* event "remains Pending for the scheduled retry job".                    *)
PendingIsEventuallyDispatched ==
  \A e \in Events : (status[e] = "PENDING") ~> (status[e] # "PENDING")

(* Requirement 3.5 of the platform foundation: when a handler fails the    *)
(* event becomes FAILED; so PROCESSED means that the handler succeeded.    *)
ProcessedWasDelivered ==
  \A e \in Events : status[e] = "PROCESSED" => delivered[e] > 0

(* retry.py: "errors: number of events that raised an exception during     *)
(* re-dispatch".                                                           *)
ErrorsCountRaised == \A r \in Retriers : report[r].errors >= report[r].raised
=============================================================================
