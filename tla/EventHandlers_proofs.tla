------------------------- MODULE EventHandlers_proofs -------------------------
(***************************************************************************)
(* Proofs about the event log of DomainEvents and the handlers of          *)
(* EventHandlers, for any events, retry calls and faults.                  *)
(*                                                                         *)
(* What bounds the effects of a handler is that an event is in one place:  *)
(* its background task meets the row PENDING, a retry call meets it        *)
(* FAILED, and with one call at a time nobody changes it in between.  So   *)
(* an effect that is not on record is one that a job still has to record,  *)
(* or one that a fault has hidden.                                         *)
(***************************************************************************)
EXTENDS EventHandlers, TLAPS

LEMMA TypeInit == Init => TypeOK
  BY EventsAssumption DEF Init, TypeOK, Idle, Jobs, NoReport, Reports

LEMMA JobShape ==
  ASSUME TypeOK, NEW d \in Dispatchers
  PROVE  /\ job[d].phase \in {"idle", "running", "returned", "raised"}
         /\ job[d].event \in Events \cup {NoEvent}
         /\ job[d] \in Jobs
  BY DEF TypeOK, Jobs

LEMMA CountType ==
  ASSUME TypeOK, NEW d \in Dispatchers, NEW x \in Nat, NEW y \in Nat,
         Count(d, [retried |-> x, errors |-> y, raised |-> Raised(d)])
  PROVE  report' \in [Retriers -> Reports]
<1>1. CASE d \notin Retriers
  BY <1>1 DEF Count, TypeOK
<1>2. CASE d \in Retriers
  <2>1. report[d] \in Reports
    BY <1>2 DEF TypeOK
  <2>2. Raised(d) \in Nat
    BY DEF Raised
  <2> DEFINE more == [retried |-> x, errors |-> y, raised |-> Raised(d)]
             sum == [f \in DOMAIN report[d] |-> report[d][f] + more[f]]
  <2>3. sum \in Reports
    <3>1. /\ DOMAIN report[d] = {"retried", "errors", "raised"}
          /\ report[d].retried \in Nat /\ report[d].errors \in Nat /\ report[d].raised \in Nat
      BY <2>1 DEF Reports
    <3>2. sum = [retried |-> report[d].retried + x, errors |-> report[d].errors + y,
                 raised |-> report[d].raised + Raised(d)]
      BY <3>1
    <3> QED
      BY <2>2, <3>1, <3>2 DEF Reports
  <2>4. report' = [report EXCEPT ![d] = sum]
    BY <1>2 DEF Count
  <2> QED
    BY <1>2, <2>3, <2>4 DEF TypeOK
<1> QED
  BY <1>1, <1>2

LEMMA LoadType ==
  ASSUME TypeOK, NEW d \in Dispatchers, NEW e \in Events, Load(d, e)
  PROVE  job' \in [Dispatchers -> Jobs]
  BY DEF Load, TypeOK, Jobs

LEMMA TypeStep == TypeOK /\ [Next]_vars => TypeOK'
<1> SUFFICES ASSUME TypeOK, [Next]_vars PROVE TypeOK'
  OBVIOUS
<1> USE EventsAssumption
<1>1. ASSUME NEW e \in Events, RequestNext(e) PROVE TypeOK'
  BY <1>1 DEF RequestNext, Publish, Commit, Rollback, Respond, ResponseFails, TypeOK, EventStatus
<1>2. ASSUME NEW e \in Events, StartTask(e) PROVE TypeOK'
  BY <1>2, LoadType DEF StartTask, TypeOK, Dispatchers
<1>3. ASSUME NEW r \in Retriers, StartRetry(r) PROVE TypeOK'
  BY <1>3 DEF StartRetry, FailedRows, NoReport, Reports, TypeOK
<1>4. ASSUME NEW r \in Retriers, NEW e \in Events, RetryNext(r, e) PROVE TypeOK'
  BY <1>4, LoadType DEF RetryNext, TypeOK, Dispatchers
<1>5. ASSUME NEW d \in Dispatchers, NEW e \in Events, HandlerCompletes(d, e) PROVE TypeOK'
  <2>1. job' \in [Dispatchers -> Jobs]
    BY <1>5 DEF HandlerCompletes, TypeOK, Jobs
  <2>2. delivered' \in [Events -> 0 .. MaxCount]
    BY <1>5 DEF HandlerCompletes, TypeOK
  <2> QED
    BY <1>5, <2>1, <2>2 DEF HandlerCompletes, TypeOK
<1>6. ASSUME NEW d \in Dispatchers, HandlerFails(d) PROVE TypeOK'
  BY <1>6 DEF HandlerFails, TypeOK, Jobs
<1>7. ASSUME NEW d \in Dispatchers, RecordOutcome(d) PROVE TypeOK'
  <2>1. Idle \in Jobs
    BY DEF Idle, Jobs
  <2>2. status' \in [Events -> EventStatus \cup {"ABSENT"}]
    BY <1>7 DEF RecordOutcome, Outcome, TypeOK, EventStatus
  <2>3. report' \in [Retriers -> Reports]
    BY <1>7, CountType DEF RecordOutcome
  <2> QED
    BY <1>7, <2>1, <2>2, <2>3 DEF RecordOutcome, TypeOK
<1>8. ASSUME NEW d \in Dispatchers, CommitFails(d) PROVE TypeOK'
  <2>1. Idle \in Jobs
    BY DEF Idle, Jobs
  <2>3. report' \in [Retriers -> Reports]
    BY <1>8, CountType DEF CommitFails
  <2> QED
    BY <1>8, <2>1, <2>3 DEF CommitFails, TypeOK
<1>9. CASE Crash
  BY <1>9 DEF Crash, Idle, Jobs, NoReport, Reports, TypeOK
<1>10. CASE UNCHANGED vars
  BY <1>10 DEF vars, TypeOK
<1> QED
  BY <1>1, <1>2, <1>3, <1>4, <1>5, <1>6, <1>7, <1>8, <1>9, <1>10 DEF Next, JobNext

(* Every state of the event log is well typed.                             *)
THEOREM TypeCorrect == Spec => []TypeOK
  BY TypeInit, TypeStep, PTL DEF Spec

-----------------------------------------------------------------------------
(* What the steps of a job change.                                         *)
LEMMA JobSteps ==
  ASSUME TypeOK, NEW d \in Dispatchers, JobNext(d)
  PROVE  /\ UNCHANGED <<request, scheduled, tasks, batch>>
         /\ \A c \in Dispatchers : c # d => job'[c] = job[c]
         /\ job[d] # Idle
         /\ \/ job'[d] = Idle
            \/ (job'[d].event = job[d].event /\ job'[d].loaded = job[d].loaded)
         /\ \/ status' = status
            \/ status' = [status EXCEPT ![job[d].event] = Outcome(d)]
<1>1. ASSUME NEW e \in Events, HandlerCompletes(d, e)
      PROVE  /\ UNCHANGED <<request, scheduled, tasks, batch, status>>
             /\ \A c \in Dispatchers : c # d => job'[c] = job[c]
             /\ job[d] # Idle
             /\ job'[d].event = job[d].event /\ job'[d].loaded = job[d].loaded
  BY <1>1 DEF HandlerCompletes, Idle, TypeOK, Jobs
<1>2. ASSUME HandlerFails(d)
      PROVE  /\ UNCHANGED <<request, scheduled, tasks, batch, status>>
             /\ \A c \in Dispatchers : c # d => job'[c] = job[c]
             /\ job[d] # Idle
             /\ job'[d].event = job[d].event /\ job'[d].loaded = job[d].loaded
  BY <1>2 DEF HandlerFails, Idle, TypeOK, Jobs
<1>3. ASSUME RecordOutcome(d) \/ CommitFails(d)
      PROVE  /\ UNCHANGED <<request, scheduled, tasks, batch>>
             /\ \A c \in Dispatchers : c # d => job'[c] = job[c]
             /\ job[d] # Idle
             /\ job'[d] = Idle
             /\ \/ status' = status
                \/ status' = [status EXCEPT ![job[d].event] = Outcome(d)]
  BY <1>3 DEF RecordOutcome, CommitFails, Idle, TypeOK
<1> QED
  BY <1>1, <1>2, <1>3 DEF JobNext

-----------------------------------------------------------------------------
(* Only what is committed is dispatched.                                   *)

CommittedInv ==
  /\ OnlyCommittedDispatched
  /\ \A d \in Dispatchers : job[d] # Idle => job[d].event \in Events
  /\ \A e \in Events : request[e] = "committed" => status[e] # "ABSENT"

LEMMA CommittedStep == TypeOK /\ CommittedInv /\ [Next]_vars => CommittedInv'
<1> SUFFICES ASSUME TypeOK, CommittedInv, [Next]_vars PROVE CommittedInv'
  OBVIOUS
<1> USE EventsAssumption DEF CommittedInv, OnlyCommittedDispatched
(* Rows stay, and jobs are on rows that are there.                         *)
<1>1. ASSUME \A e \in Events : status[e] # "ABSENT" => status'[e] # "ABSENT",
             \A e \in tasks' : e \in Events /\ (e \in tasks \/ request[e] = "committed"),
             \A r \in Retriers : \A e \in batch'[r] : e \in Events /\ status[e] # "ABSENT",
             \A d \in Dispatchers :
               \/ job'[d] = Idle
               \/ (job'[d].event \in Events /\ status[job'[d].event] # "ABSENT"),
             \A e \in Events :
               request'[e] = "committed" => request[e] = "committed" \/ status'[e] # "ABSENT"
      PROVE  CommittedInv'
  BY <1>1
<1>2. \A r \in Retriers : batch[r] \subseteq Events
  BY DEF TypeOK
<1>3. ASSUME NEW e \in Events, RequestNext(e) PROVE CommittedInv'
  <2>1. UNCHANGED <<job, batch>>
    BY <1>3 DEF RequestNext, Publish, Commit, Rollback, Respond, ResponseFails
  <2>2. \A c \in Events : status[c] # "ABSENT" => status'[c] # "ABSENT"
    BY <1>3 DEF RequestNext, Publish, Commit, Rollback, Respond, ResponseFails, TypeOK
  <2>3. \A c \in Events :
          request'[c] = "committed" => request[c] = "committed" \/ status'[c] # "ABSENT"
    BY <1>3 DEF RequestNext, Publish, Commit, Rollback, Respond, ResponseFails, TypeOK
  <2>4. \A c \in tasks' : c \in Events /\ (c \in tasks \/ request[c] = "committed")
    BY <1>3 DEF RequestNext, Publish, Commit, Rollback, Respond, ResponseFails, TypeOK
  <2> QED
    BY <1>1, <1>2, <2>1, <2>2, <2>3, <2>4
<1>5. ASSUME NEW e \in Events, StartTask(e) PROVE CommittedInv'
  <2>1. status[e] # "ABSENT" /\ Load(e, e)
    BY <1>5 DEF StartTask
  <2>2. UNCHANGED <<status, request, batch>> /\ tasks' \subseteq tasks /\ tasks \subseteq Events
    BY <1>5 DEF StartTask, TypeOK
  <2>3. e \in Dispatchers
    BY DEF Dispatchers
  <2>4. job'[e].event = e /\ \A c \in Dispatchers : c # e => job'[c] = job[c]
    BY <2>1, <2>3 DEF Load, TypeOK
  <2>5. \A c \in Dispatchers :
          job'[c] = Idle \/ (job'[c].event \in Events /\ status[job'[c].event] # "ABSENT")
    BY <2>1, <2>4
  <2> QED
    BY <1>1, <1>2, <2>2, <2>5
<1>6. ASSUME NEW r \in Retriers, StartRetry(r) PROVE CommittedInv'
  BY <1>1, <1>2, <1>6 DEF StartRetry, FailedRows, TypeOK
<1>7. ASSUME NEW r \in Retriers, NEW e \in Events, RetryNext(r, e) PROVE CommittedInv'
  <2>1. status[e] # "ABSENT" /\ Load(r, e)
    BY <1>7 DEF RetryNext
  <2>2. /\ UNCHANGED <<status, request, tasks>> /\ tasks \subseteq Events
        /\ \A s \in Retriers : batch'[s] \subseteq batch[s]
    BY <1>7 DEF RetryNext, TypeOK
  <2>3. r \in Dispatchers
    BY DEF Dispatchers
  <2>4. job'[r].event = e /\ \A c \in Dispatchers : c # r => job'[c] = job[c]
    BY <2>1, <2>3 DEF Load, TypeOK
  <2>5. \A c \in Dispatchers :
          job'[c] = Idle \/ (job'[c].event \in Events /\ status[job'[c].event] # "ABSENT")
    BY <2>1, <2>4
  <2> QED
    BY <1>1, <1>2, <2>2, <2>5
<1>8. ASSUME NEW d \in Dispatchers, JobNext(d) PROVE CommittedInv'
  <2>1. \A e \in Events : status[e] # "ABSENT" => status'[e] # "ABSENT"
    BY <1>8, JobSteps DEF Outcome, TypeOK
  <2>2. tasks' \subseteq Events
    BY <1>8, JobSteps DEF TypeOK
  <2> QED
    BY <1>1, <1>2, <1>8, <2>1, <2>2, JobSteps
<1>9. CASE Crash
  BY <1>1, <1>9 DEF Crash, TypeOK
<1>10. CASE UNCHANGED vars
  BY <1>10 DEF vars
<1> QED
  BY <1>3, <1>5, <1>6, <1>7, <1>8, <1>9, <1>10 DEF Next

LEMMA CommittedInvariant == Spec => [](TypeOK /\ CommittedInv)
<1>1. Init => CommittedInv
  BY DEF Init, CommittedInv, OnlyCommittedDispatched
<1> QED
  BY <1>1, TypeInit, TypeStep, CommittedStep, PTL DEF Spec

(* No handler sees an event of a transaction that did not commit.          *)
THEOREM CommittedCorrect == Spec => []OnlyCommittedDispatched
  BY CommittedInvariant, PTL DEF CommittedInv

-----------------------------------------------------------------------------
(* A handler that contains its errors leaves nothing to retry.             *)

ContainedInv ==
  \A e \in Contained :
    /\ status[e] # "FAILED"
    /\ \A r \in Retriers : e \notin batch[r] /\ job[r].event # e
    /\ \A d \in Dispatchers : job[d].event = e => job[d].phase # "raised"

LEMMA ContainedStep ==
  TypeOK /\ CommittedInv /\ ContainedInv /\ [Next]_vars => ContainedInv'
<1> SUFFICES ASSUME TypeOK, CommittedInv, ContainedInv, [Next]_vars,
                    NEW e \in Contained
             PROVE  /\ status'[e] # "FAILED"
                    /\ \A r \in Retriers : e \notin batch'[r] /\ job'[r].event # e
                    /\ \A d \in Dispatchers : job'[d].event = e => job'[d].phase # "raised"
  BY DEF ContainedInv
<1> USE EventsAssumption DEF ContainedInv
<1>1. e \in Events /\ e # NoEvent /\ Idle.event # e
  BY DEF Idle
<1>2. ASSUME NEW c \in Events, RequestNext(c)
      PROVE  status'[e] # "FAILED" /\ UNCHANGED <<job, batch>>
  BY <1>1, <1>2 DEF RequestNext, Publish, Commit, Rollback, Respond, ResponseFails, TypeOK
<1>3. ASSUME NEW c \in Events, StartTask(c)
      PROVE  /\ UNCHANGED <<status, batch>>
             /\ \A d \in Dispatchers :
                  job'[d] = job[d] \/ (d = c /\ job'[d].event = c /\ job'[d].phase = "running")
  BY <1>3 DEF StartTask, Load, TypeOK
<1>4. ASSUME NEW s \in Retriers, StartRetry(s)
      PROVE  /\ UNCHANGED <<status, job>>
             /\ \A r \in Retriers : e \notin batch'[r]
  BY <1>4 DEF StartRetry, FailedRows, TypeOK
<1>5. ASSUME NEW s \in Retriers, NEW c \in Events, RetryNext(s, c)
      PROVE  /\ UNCHANGED status
             /\ c # e
             /\ \A r \in Retriers : e \notin batch'[r]
             /\ \A d \in Dispatchers :
                  job'[d] = job[d] \/ (job'[d].event = c /\ job'[d].phase = "running")
  BY <1>5 DEF RetryNext, Load, TypeOK
<1>6. ASSUME NEW d \in Dispatchers, JobNext(d)
      PROVE  /\ status'[e] # "FAILED"
             /\ job'[d] = Idle \/ (job'[d].event = job[d].event)
             /\ job'[d].event = e => job'[d].phase # "raised"
  <2>1. ASSUME NEW c \in Events, HandlerCompletes(d, c)
        PROVE  UNCHANGED status /\ job'[d].phase = "returned"
    BY <2>1 DEF HandlerCompletes, TypeOK, Jobs
  <2>2. ASSUME HandlerFails(d)
        PROVE  UNCHANGED status /\ (job[d].event = e => job'[d].phase = "returned")
    BY <2>2 DEF HandlerFails, TypeOK, Jobs
  <2>3. ASSUME RecordOutcome(d)
        PROVE  job'[d] = Idle /\ status'[e] # "FAILED"
    <3>1. job'[d] = Idle
      BY <2>3 DEF RecordOutcome, TypeOK
    <3>2. status' = status \/ status' = [status EXCEPT ![job[d].event] = Outcome(d)]
      BY <2>3 DEF RecordOutcome
    <3>3. job[d].event = e => Outcome(d) = "PROCESSED"
      BY <2>3 DEF RecordOutcome, Outcome
    <3> QED
      BY <1>1, <3>1, <3>2, <3>3 DEF TypeOK
  <2>4. ASSUME CommitFails(d)
        PROVE  job'[d] = Idle /\ UNCHANGED status
    BY <2>4 DEF CommitFails, TypeOK
  <2>5. job'[d] = Idle \/ (job'[d].event = job[d].event)
    BY <1>6, JobSteps
  <2>6. Idle.phase # "raised"
    BY DEF Idle
  <2> QED
    BY <1>6, <2>1, <2>2, <2>3, <2>4, <2>5, <2>6 DEF JobNext
<1>7. CASE Crash
  BY <1>1, <1>7 DEF Crash, Idle, Dispatchers
<1>8. CASE UNCHANGED vars
  BY <1>8 DEF vars
<1>9. \A d \in Dispatchers : (d \in Events => d \notin Retriers)
  OBVIOUS
<1>10. ASSUME NEW d \in Dispatchers, JobNext(d)
       PROVE  /\ \A r \in Retriers : e \notin batch'[r] /\ job'[r].event # e
              /\ \A c \in Dispatchers : job'[c].event = e => job'[c].phase # "raised"
  <2>1. batch' = batch /\ \A c \in Dispatchers : c # d => job'[c] = job[c]
    BY <1>10, JobSteps
  <2> QED
    BY <1>1, <1>6, <1>10, <2>1 DEF Dispatchers
<1>11. ASSUME NEW c \in Events, StartTask(c)
       PROVE  \A r \in Retriers : job'[r].event # e
  BY <1>3, <1>9, <1>11 DEF Dispatchers
<1>12. ASSUME NEW s \in Retriers, NEW c \in Events, RetryNext(s, c)
       PROVE  \A r \in Retriers : job'[r].event # e
  BY <1>5, <1>12 DEF Dispatchers
<1> DEFINE G == /\ status'[e] # "FAILED"
                /\ \A r \in Retriers : e \notin batch'[r] /\ job'[r].event # e
                /\ \A d \in Dispatchers : job'[d].event = e => job'[d].phase # "raised"
<1>13. ASSUME NEW c \in Events, StartTask(c) PROVE G
  BY <1>3, <1>11, <1>13
<1>14. ASSUME NEW s \in Retriers, NEW c \in Events, RetryNext(s, c) PROVE G
  BY <1>5, <1>12, <1>14
<1>15. ASSUME NEW d \in Dispatchers, JobNext(d) PROVE G
  BY <1>6, <1>10, <1>15
<1>16. ASSUME NEW s \in Retriers, StartRetry(s) PROVE G
  BY <1>4, <1>16
<1>17. ASSUME NEW c \in Events, RequestNext(c) PROVE G
  BY <1>2, <1>17
<1>18. Crash => G
  BY <1>7
<1>19. UNCHANGED vars => G
  BY <1>8
<1> HIDE DEF G
<1>20. G
  BY <1>13, <1>14, <1>15, <1>16, <1>17, <1>18, <1>19 DEF Next
<1> QED
  BY <1>20 DEF G

LEMMA ContainedInvariant == Spec => []ContainedInv
<1>1. Init => ContainedInv
  BY EventsAssumption DEF Init, ContainedInv, Idle, Dispatchers
<1> QED
  BY <1>1, ContainedStep, CommittedInvariant, PTL DEF Spec

-----------------------------------------------------------------------------
(* A background task has its event to itself, however many retry calls     *)
(* there are: what a call has selected has been tried, and what has been   *)
(* tried is never PENDING again.                                           *)

TaskPlaces(e) ==
  /\ request[e] \in {"idle", "open"} => status[e] = "ABSENT"
  /\ request[e] = "committed" => status[e] = "PENDING"
  /\ request[e] # "closed" => e \notin tasks /\ job[e] = Idle
  /\ e \in tasks => status[e] = "PENDING" /\ job[e] = Idle
  /\ job[e] # Idle => status[e] = "PENDING" /\ job[e].event = e /\ job[e].loaded = "PENDING"

Tried == {"FAILED", "PROCESSED"}

TriedPlaces(r) ==
  /\ \A e \in batch[r] : e \in Events /\ status[e] \in Tried
  /\ job[r] # Idle =>
       job[r].event \in Events /\ status[job[r].event] \in Tried /\ job[r].loaded \in Tried

AloneInv ==
  /\ \A e \in Events : TaskPlaces(e)
  /\ \A r \in Retriers : TriedPlaces(r)

(* Publication: the event is nobody's but its request's.                   *)
LEMMA RequestAlone ==
  ASSUME TypeOK, NEW c \in Events, TaskPlaces(c), RequestNext(c)
  PROVE  /\ UNCHANGED <<job, batch>>
         /\ \A e \in Events : e # c => request'[e] = request[e] /\ status'[e] = status[e]
         /\ \A e \in Events : e # c => (e \in tasks' <=> e \in tasks)
         /\ status[c] \in {"ABSENT", "PENDING"}
         /\ status[c] = "PENDING" => status'[c] = "PENDING"
         /\ TaskPlaces(c)'
<1> USE DEF TaskPlaces
<1>1. /\ UNCHANGED <<job, batch>>
      /\ \A e \in Events : e # c => request'[e] = request[e] /\ status'[e] = status[e]
      /\ \A e \in Events : e # c => (e \in tasks' <=> e \in tasks)
  BY DEF RequestNext, Publish, Commit, Rollback, Respond, ResponseFails, TypeOK
<1>2. /\ request'[c] \in {"idle", "open"} => status'[c] = "ABSENT"
      /\ request[c] # "closed"
      /\ request'[c] # "closed" => c \notin tasks'
      /\ request'[c] = "committed" => status'[c] = "PENDING"
      /\ status[c] \in {"ABSENT", "PENDING"}
      /\ status[c] = "PENDING" => status'[c] = "PENDING"
  BY DEF RequestNext, Publish, Commit, Rollback, Respond, ResponseFails, TypeOK
<1>3. c \in tasks' => status'[c] = "PENDING"
  <2>1. CASE Respond(c)
    BY <2>1 DEF Respond, TypeOK
  <2> QED
    BY <1>2, <2>1 DEF RequestNext, Publish, Commit, Rollback, ResponseFails
<1> QED
  BY <1>1, <1>2, <1>3

LEMMA AloneStep == TypeOK /\ AloneInv /\ [Next]_vars => AloneInv'
<1> SUFFICES ASSUME TypeOK, AloneInv, [Next]_vars PROVE AloneInv'
  OBVIOUS
<1> USE EventsAssumption DEF TriedPlaces, Tried
<1>1. ASSUME NEW c \in Events, RequestNext(c) PROVE AloneInv'
  <2>1. ASSUME NEW e \in Events PROVE TaskPlaces(e)'
    BY <1>1, RequestAlone DEF AloneInv, TaskPlaces
  <2>2. ASSUME NEW r \in Retriers PROVE TriedPlaces(r)'
    BY <1>1, RequestAlone DEF AloneInv
  <2> QED
    BY <2>1, <2>2 DEF AloneInv
<1> USE DEF TaskPlaces
<1>2. ASSUME NEW c \in Events, StartTask(c) PROVE AloneInv'
  <2>1. /\ UNCHANGED <<status, request, batch>> /\ tasks' = tasks \ {c}
        /\ status[c] = "PENDING" /\ request[c] = "closed"
    BY <1>2 DEF StartTask, AloneInv
  <2>2. /\ job'[c].event = c /\ job'[c].loaded = "PENDING"
        /\ \A d \in Dispatchers : d # c => job'[d] = job[d]
    BY <1>2, <2>1 DEF StartTask, Load, TypeOK, Dispatchers
  <2> QED
    BY <2>1, <2>2 DEF AloneInv, Dispatchers
<1>3. ASSUME NEW r \in Retriers, StartRetry(r) PROVE AloneInv'
  BY <1>3 DEF StartRetry, FailedRows, TypeOK, AloneInv
<1>4. ASSUME NEW r \in Retriers, NEW c \in Events, RetryNext(r, c) PROVE AloneInv'
  <2>1. /\ UNCHANGED <<status, request, tasks>>
        /\ status[c] \in {"FAILED", "PROCESSED"}
        /\ \A s \in Retriers : batch'[s] \subseteq batch[s]
    BY <1>4 DEF RetryNext, AloneInv, TypeOK
  <2>2. /\ job'[r].event = c /\ job'[r].loaded \in {"FAILED", "PROCESSED"}
        /\ \A d \in Dispatchers : d # r => job'[d] = job[d]
    BY <1>4, <2>1 DEF RetryNext, Load, TypeOK, Dispatchers
  <2> QED
    BY <2>1, <2>2 DEF AloneInv, Dispatchers
<1>5. ASSUME NEW d \in Dispatchers, JobNext(d) PROVE AloneInv'
  <2>1. /\ UNCHANGED <<request, scheduled, tasks, batch>>
        /\ \A c \in Dispatchers : c # d => job'[c] = job[c]
        /\ job[d] # Idle
        /\ job'[d] = Idle \/ (job'[d].event = job[d].event /\ job'[d].loaded = job[d].loaded)
    BY <1>5, JobSteps
  <2>2. job[d].event \in Events
    BY <2>1 DEF AloneInv, Dispatchers
  <2>3. /\ \A e \in Events : e # job[d].event => status'[e] = status[e]
        /\ status' = status \/ status'[job[d].event] \in {"FAILED", "PROCESSED"}
    BY <1>5, <2>2, JobSteps DEF TypeOK, Outcome
  <2>4. status' = status \/ job'[d] = Idle
    BY <1>5 DEF JobNext, HandlerCompletes, HandlerFails, RecordOutcome, CommitFails, TypeOK
  <2>5. CASE d \in Events
    <3>1. job[d].event = d /\ status[d] = "PENDING" /\ d \notin tasks /\ request[d] = "closed"
      BY <2>1, <2>5 DEF AloneInv, TypeOK
    <3>2. \A r \in Retriers : d \notin batch[r] /\ (job[r] # Idle => job[r].event # d)
      BY <2>5, <3>1 DEF AloneInv
    <3> QED
      BY <2>1, <2>3, <2>4, <2>5, <3>1, <3>2 DEF AloneInv, Dispatchers
  <2>6. CASE d \in Retriers
    <3>1. status[job[d].event] \in {"FAILED", "PROCESSED"}
      BY <2>1, <2>6 DEF AloneInv
    <3>2. /\ job[job[d].event] = Idle /\ job[d].event \notin tasks
          /\ request[job[d].event] = "closed"
      BY <2>2, <3>1 DEF AloneInv, TypeOK
    <3>3. ASSUME NEW e \in Events PROVE TaskPlaces(e)'
      <4>1. e # d /\ job'[e] = job[e]
        BY <2>1, <2>6 DEF Dispatchers
      <4> QED
        BY <2>1, <2>3, <3>2, <4>1 DEF AloneInv
    <3>4. ASSUME NEW r \in Retriers PROVE TriedPlaces(r)'
      BY <2>1, <2>3, <2>4, <3>1 DEF AloneInv, Dispatchers
    <3> QED
      BY <3>3, <3>4 DEF AloneInv
  <2> QED
    BY <2>5, <2>6 DEF Dispatchers
<1>6. CASE Crash
  BY <1>6 DEF Crash, AloneInv, TypeOK, Dispatchers
<1>7. CASE UNCHANGED vars
  BY <1>7 DEF vars, AloneInv
<1> QED
  BY <1>1, <1>2, <1>3, <1>4, <1>5, <1>6, <1>7 DEF Next

LEMMA AloneInvariant == Spec => []AloneInv
<1>1. Init => AloneInv
  BY EventsAssumption DEF Init, AloneInv, TaskPlaces, TriedPlaces, Dispatchers
<1> QED
  BY <1>1, AloneStep, TypeCorrect, PTL DEF Spec

LEMMA AloneImplies == AloneInv => TaskRunsAlone
<1> SUFFICES ASSUME AloneInv, NEW e \in Events, e \in tasks \/ job[e] # Idle
             PROVE  /\ status[e] = "PENDING"
                    /\ \A r \in Retriers : e \notin batch[r] /\ job[r].event # e
  BY DEF TaskRunsAlone
<1>1. status[e] = "PENDING"
  BY DEF AloneInv, TaskPlaces
<1>2. Idle.event # e
  BY EventsAssumption DEF Idle
<1> QED
  BY <1>1, <1>2 DEF AloneInv, TriedPlaces, Tried

(* No retry call, however many there are, takes an event whose background  *)
(* task waits or runs.                                                     *)
THEOREM AloneCorrect == Spec => []TaskRunsAlone
  BY AloneInvariant, AloneImplies, PTL

-----------------------------------------------------------------------------
(* With one retry call at a time, an event is in one place: with its       *)
(* request, queued, with its task, FAILED and free, or with the retry call.*)

RetryPlaces(r) ==
  /\ \A e \in batch[r] : e \in Events /\ status[e] = "FAILED"
  /\ job[r] # Idle =>
       /\ job[r].event \in Events \ batch[r]
       /\ status[job[r].event] = "FAILED" /\ job[r].loaded = "FAILED"

PlacesInv ==
  /\ \A e \in Events : TaskPlaces(e)
  /\ \A r \in Retriers : RetryPlaces(r)

(* What a handler did that no row tells of.                                *)
Unrecorded(e) == \E d \in Dispatchers : job[d].event = e /\ job[d].phase = "returned"

EffectsInv ==
  \A e \in Events :
    /\ delivered[e] <= 1 + faults
    /\ status[e] # "PROCESSED" /\ ~ Unrecorded(e) => delivered[e] <= faults

(* Jobs of different dispatchers are about different events.               *)
LEMMA OneJob ==
  ASSUME PlacesInv, \A r, s \in Retriers : r = s,
         NEW c \in Dispatchers, NEW d \in Dispatchers, c # d, job[c] # Idle, job[d] # Idle
  PROVE  job[c].event # job[d].event
  BY DEF PlacesInv, TaskPlaces, RetryPlaces, Dispatchers

LEMMA PlacesStep ==
  ASSUME \A r, s \in Retriers : r = s, TypeOK, PlacesInv, [Next]_vars
  PROVE  PlacesInv'
<1> USE EventsAssumption DEF RetryPlaces
<1>1. ASSUME NEW c \in Events, RequestNext(c) PROVE PlacesInv'
  <2>1. ASSUME NEW e \in Events PROVE TaskPlaces(e)'
    BY <1>1, RequestAlone DEF PlacesInv, TaskPlaces
  <2>2. ASSUME NEW r \in Retriers PROVE RetryPlaces(r)'
    BY <1>1, RequestAlone DEF PlacesInv
  <2> QED
    BY <2>1, <2>2 DEF PlacesInv
<1> USE DEF TaskPlaces
<1>2. ASSUME NEW c \in Events, StartTask(c) PROVE PlacesInv'
  <2>1. /\ UNCHANGED <<status, request, batch>> /\ tasks' = tasks \ {c}
        /\ status[c] = "PENDING" /\ request[c] = "closed"
    BY <1>2 DEF StartTask, PlacesInv
  <2>2. /\ job'[c].event = c /\ job'[c].loaded = "PENDING"
        /\ \A d \in Dispatchers : d # c => job'[d] = job[d]
    BY <1>2, <2>1 DEF StartTask, Load, TypeOK, Dispatchers
  <2> QED
    BY <2>1, <2>2 DEF PlacesInv, Dispatchers
<1>3. ASSUME NEW r \in Retriers, StartRetry(r) PROVE PlacesInv'
  BY <1>3 DEF StartRetry, FailedRows, TypeOK, PlacesInv
<1>4. ASSUME NEW r \in Retriers, NEW c \in Events, RetryNext(r, c) PROVE PlacesInv'
  <2>1. /\ UNCHANGED <<status, request, tasks>>
        /\ status[c] = "FAILED"
        /\ batch'[r] = batch[r] \ {c}
    BY <1>4 DEF RetryNext, PlacesInv, TypeOK
  <2>2. /\ job'[r].event = c /\ job'[r].loaded = "FAILED"
        /\ \A d \in Dispatchers : d # r => job'[d] = job[d]
    BY <1>4, <2>1 DEF RetryNext, Load, TypeOK, Dispatchers
  <2> QED
    BY <2>1, <2>2 DEF PlacesInv, Dispatchers
<1>5. ASSUME NEW d \in Dispatchers, JobNext(d) PROVE PlacesInv'
  <2>1. /\ UNCHANGED <<request, scheduled, tasks, batch>>
        /\ \A c \in Dispatchers : c # d => job'[c] = job[c]
        /\ job[d] # Idle
        /\ job'[d] = Idle \/ (job'[d].event = job[d].event /\ job'[d].loaded = job[d].loaded)
    BY <1>5, JobSteps
  <2>2. job[d].event \in Events
    BY <2>1 DEF PlacesInv, Dispatchers
  <2>3. \A e \in Events : e # job[d].event => status'[e] = status[e]
    BY <1>5, <2>2, JobSteps DEF TypeOK
  <2>4. status' = status \/ job'[d] = Idle
    BY <1>5 DEF JobNext, HandlerCompletes, HandlerFails, RecordOutcome, CommitFails, TypeOK
  <2>5. \A c \in Dispatchers : c # d /\ job[c] # Idle => job[c].event # job[d].event
    BY <2>1, OneJob
  <2>6. /\ request[job[d].event] = "closed"
        /\ job[d].event \notin tasks
        /\ \A r \in Retriers : job[d].event \notin batch[r]
    <3>1. CASE d \in Events
      BY <2>1, <2>2, <3>1 DEF PlacesInv
    <3>2. CASE d \in Retriers
      <4>1. /\ status[job[d].event] = "FAILED"
            /\ request[job[d].event] \in {"idle", "open", "committed", "closed"}
            /\ job[d].event \notin batch[d]
        BY <2>1, <2>2, <3>2 DEF PlacesInv, TypeOK
      <4> QED
        BY <2>2, <3>2, <4>1 DEF PlacesInv
    <3> QED
      BY <3>1, <3>2 DEF Dispatchers
  <2>7. ASSUME NEW e \in Events PROVE TaskPlaces(e)'
    <3>1. CASE e = job[d].event
      BY <2>1, <2>4, <2>5, <2>6, <3>1 DEF PlacesInv, Dispatchers
    <3>2. CASE e # job[d].event
      <4>1. e # d
        BY <2>1, <3>2 DEF PlacesInv
      <4> QED
        BY <2>1, <2>3, <3>2, <4>1 DEF PlacesInv, Dispatchers
    <3> QED
      BY <3>1, <3>2
  <2>8. ASSUME NEW r \in Retriers PROVE RetryPlaces(r)'
    <3>1. CASE r = d
      BY <2>1, <2>3, <2>4, <2>6, <3>1 DEF PlacesInv
    <3>2. CASE r # d
      BY <2>1, <2>3, <2>5, <2>6, <3>2 DEF PlacesInv, Dispatchers
    <3> QED
      BY <3>1, <3>2
  <2> QED
    BY <2>7, <2>8 DEF PlacesInv
<1>6. CASE Crash
  BY <1>6 DEF Crash, PlacesInv, TypeOK, Dispatchers
<1>7. CASE UNCHANGED vars
  BY <1>7 DEF vars, PlacesInv
<1> QED
  BY <1>1, <1>2, <1>3, <1>4, <1>5, <1>6, <1>7 DEF Next

LEMMA EffectsStep ==
  ASSUME \A r, s \in Retriers : r = s, TypeOK, PlacesInv, EffectsInv, [Next]_vars
  PROVE  EffectsInv'
<1> USE EventsAssumption
<1>0. \A d \in Dispatchers : job[d] = Idle => job[d].phase = "idle"
  BY DEF Idle
(* A step that records nothing and takes no unrecorded effect away.        *)
<1>1. ASSUME UNCHANGED <<delivered, faults>>,
             \A e \in Events : status'[e] # "PROCESSED" => status[e] # "PROCESSED",
             \A e \in Events : Unrecorded(e) => Unrecorded(e)' \/ status'[e] = "PROCESSED"
      PROVE  EffectsInv'
  BY <1>1 DEF EffectsInv
<1>2. ASSUME NEW c \in Events, RequestNext(c) PROVE EffectsInv'
  <2>1. UNCHANGED <<job, delivered, faults>>
    BY <1>2 DEF RequestNext, Publish, Commit, Rollback, Respond, ResponseFails
  <2>2. \A e \in Events : status'[e] # "PROCESSED" => status[e] # "PROCESSED"
    <3>1. CASE Commit(c)
      BY <3>1 DEF Commit, PlacesInv, TaskPlaces, TypeOK
    <3> QED
      BY <1>2, <3>1 DEF RequestNext, Publish, Rollback, Respond, ResponseFails
  <2> QED
    BY <1>1, <2>1, <2>2 DEF Unrecorded
<1>3. ASSUME NEW c \in Events, StartTask(c) PROVE EffectsInv'
  <2>1. /\ UNCHANGED <<status, delivered, faults>>
        /\ \A d \in Dispatchers : d # c => job'[d] = job[d]
    BY <1>3 DEF StartTask, Load, TypeOK
  <2>2. job[c] = Idle
    BY <1>3 DEF StartTask, PlacesInv, TaskPlaces
  <2>3. \A d \in Dispatchers : job[d].phase = "returned" => d # c
    BY <1>0, <2>2
  <2> QED
    BY <1>1, <2>1, <2>3 DEF Unrecorded
<1>4. ASSUME NEW r \in Retriers, StartRetry(r) PROVE EffectsInv'
  BY <1>1, <1>4 DEF StartRetry, Unrecorded
<1>5. ASSUME NEW r \in Retriers, NEW c \in Events, RetryNext(r, c) PROVE EffectsInv'
  <2>1. /\ UNCHANGED <<status, delivered, faults>>
        /\ \A d \in Dispatchers : d # r => job'[d] = job[d]
    BY <1>5 DEF RetryNext, Load, TypeOK
  <2>2. r \in Dispatchers /\ job[r] = Idle
    BY <1>5 DEF RetryNext, Dispatchers
  <2>3. \A d \in Dispatchers : job[d].phase = "returned" => d # r
    BY <1>0, <2>2
  <2> QED
    BY <1>1, <2>1, <2>3 DEF Unrecorded
<1>6. ASSUME NEW d \in Dispatchers, NEW e \in Events, HandlerCompletes(d, e)
      PROVE  EffectsInv'
  <2>1. /\ UNCHANGED <<status, faults>>
        /\ \A c \in Dispatchers : c # d => job'[c] = job[c]
        /\ job[d].phase = "running" /\ job[d].event = e
        /\ job'[d].phase = "returned" /\ job'[d].event = e
    BY <1>6 DEF HandlerCompletes, TypeOK, Jobs
  <2>2. /\ \A c \in Events : c # e => delivered'[c] = delivered[c]
        /\ delivered[e] \in Nat /\ delivered'[e] <= delivered[e] + 1
        /\ faults \in Nat
    BY <1>6 DEF HandlerCompletes, TypeOK
  <2>3. job[d] # Idle
    BY <2>1 DEF Idle
  <2>4. status[e] # "PROCESSED"
    BY <2>1, <2>3 DEF PlacesInv, TaskPlaces, RetryPlaces, Dispatchers
  <2>5. ~ Unrecorded(e)
    <3> SUFFICES ASSUME NEW c \in Dispatchers, job[c].event = e, job[c].phase = "returned"
                 PROVE  FALSE
      BY DEF Unrecorded
    <3>1. c # d /\ job[c] # Idle
      BY <2>1, <1>0
    <3> QED
      BY <2>1, <2>3, <3>1, OneJob
  <2>6. delivered'[e] <= 1 + faults
    <3>1. delivered[e] <= faults
      BY <2>4, <2>5 DEF EffectsInv
    <3>2. delivered'[e] \in Nat
      BY <1>6 DEF HandlerCompletes, TypeOK
    <3> QED
      BY <2>2, <3>1, <3>2
  <2>7. Unrecorded(e)'
    BY <2>1 DEF Unrecorded
  <2>8. \A c \in Events : c # e => (Unrecorded(c) => Unrecorded(c)')
    BY <2>1 DEF Unrecorded
  <2> QED
    BY <2>1, <2>2, <2>6, <2>7, <2>8 DEF EffectsInv
<1>7. ASSUME NEW d \in Dispatchers, HandlerFails(d) PROVE EffectsInv'
  <2>1. /\ UNCHANGED <<status, delivered, faults>>
        /\ job[d].phase = "running"
        /\ \A c \in Dispatchers : c # d => job'[c] = job[c]
    BY <1>7 DEF HandlerFails, TypeOK
  <2> QED
    BY <1>1, <2>1 DEF Unrecorded
<1>8. ASSUME NEW d \in Dispatchers, RecordOutcome(d) PROVE EffectsInv'
  <2>1. /\ UNCHANGED <<delivered, faults>>
        /\ job[d].phase \in {"returned", "raised"}
        /\ \A c \in Dispatchers : c # d => job'[c] = job[c]
    BY <1>8 DEF RecordOutcome, TypeOK
  <2>2. job[d] # Idle
    BY <2>1 DEF Idle
  <2>3. /\ job[d].event \in Events
        /\ job[d].loaded # "PROCESSED" /\ status[job[d].event] # "PROCESSED"
    BY <2>2 DEF PlacesInv, TaskPlaces, RetryPlaces, Dispatchers
  <2>4. \A e \in Events : e # job[d].event => status'[e] = status[e]
    BY <1>8, <2>3 DEF RecordOutcome, TypeOK
  <2>5. job[d].phase = "returned" => status'[job[d].event] = "PROCESSED"
    BY <1>8, <2>3 DEF RecordOutcome, Outcome, TypeOK
  <2>6. \A e \in Events : Unrecorded(e) => Unrecorded(e)' \/ status'[e] = "PROCESSED"
    BY <2>1, <2>5 DEF Unrecorded
  <2> QED
    BY <1>1, <2>1, <2>3, <2>4, <2>6
<1>9. ASSUME faults' = faults + 1, UNCHANGED <<status, delivered>>
      PROVE  EffectsInv'
  BY <1>9 DEF EffectsInv, TypeOK
<1>10. CASE Crash \/ \E d \in Dispatchers : CommitFails(d)
  BY <1>9, <1>10 DEF Crash, CommitFails
<1>11. CASE UNCHANGED vars
  BY <1>1, <1>11 DEF vars, Unrecorded
<1> QED
  BY <1>2, <1>3, <1>4, <1>5, <1>6, <1>7, <1>8, <1>10, <1>11 DEF Next, JobNext

LEMMA EffectsInvariant ==
  ASSUME \A r, s \in Retriers : r = s
  PROVE  Spec => [](PlacesInv /\ EffectsInv)
<1>1. Init => PlacesInv /\ EffectsInv
  BY EventsAssumption
  DEF Init, PlacesInv, TaskPlaces, RetryPlaces, EffectsInv, Unrecorded, Dispatchers
<1>2. TypeOK /\ PlacesInv /\ EffectsInv /\ [Next]_vars => (PlacesInv /\ EffectsInv)'
  BY PlacesStep, EffectsStep
<1> QED
  BY <1>1, <1>2, TypeCorrect, PTL DEF Spec

(* With one retry call at a time a handler takes effect at most once per   *)
(* event, plus once for every fault that hid its success.                  *)
THEOREM EffectsCorrect ==
  ASSUME \A r, s \in Retriers : r = s
  PROVE  Spec => []EffectsBoundedByFaults
<1>1. EffectsInv => EffectsBoundedByFaults
  BY DEF EffectsInv, EffectsBoundedByFaults
<1> QED
  BY <1>1, EffectsInvariant, PTL

-----------------------------------------------------------------------------
(* The handlers of EventHandlers take the steps that the log leaves open.  *)
LEMMA HandlersRefine == HandlersNext => [Next]_vars
<1> SUFFICES ASSUME HandlersNext PROVE [Next]_vars
  OBVIOUS
<1>1. ASSUME NEW d \in Dispatchers, HandlerNext(d) PROVE [Next]_vars
  BY <1>1 DEF HandlerNext, FindRow, MissRow, Misread, OtherHandler, Next, JobNext
<1>2. ASSUME NEW d \in Dispatchers, RecordNext(d) PROVE [Next]_vars
  BY <1>2 DEF RecordNext, Next, JobNext
<1> QED
  BY <1>1, <1>2 DEF HandlersNext, Next, Lose

LEMMA HandlersAreLog == HandlersSpec => Spec
<1>1. HandlersInit => Init
  BY DEF HandlersInit
<1>2. [HandlersNext]_handlerVars => [Next]_vars
  BY HandlersRefine DEF handlerVars
<1> QED
  BY <1>1, <1>2, PTL DEF HandlersSpec, Spec

(* The same holds of the log with its handlers spelt out.                  *)
THEOREM HandlersCommittedCorrect == HandlersSpec => []OnlyCommittedDispatched
  BY HandlersAreLog, CommittedCorrect, PTL

(* ... and with one retry at a time an effect is repeated only after a     *)
(* fault.                                                                  *)
THEOREM HandlersEffectsCorrect ==
  ASSUME \A r, s \in Retriers : r = s
  PROVE  HandlersSpec => []EffectsBoundedByFaults
<1>1. Spec => []EffectsBoundedByFaults
  BY EffectsCorrect
<1> QED
  BY <1>1, HandlersAreLog, PTL

(* A notification that failed is recorded as PROCESSED and never retried.  *)
THEOREM NotifyingCorrect == HandlersSpec => []NotifyingIsNeverRetried
<1>1. ContainedInv => NotifyingIsNeverRetried
  BY HandlersAssumption DEF ContainedInv, NotifyingIsNeverRetried
<1> QED
  BY <1>1, HandlersAreLog, ContainedInvariant, PTL

(* A task has its event to itself also while its handler looks for rows.   *)
THEOREM HandlersAloneCorrect == HandlersSpec => []TaskRunsAlone
  BY HandlersAreLog, AloneCorrect, PTL

-----------------------------------------------------------------------------
(* How far the handlers are: a dispatcher has found rows only while it     *)
(* runs a handler that looks for them, and no more than that one needs.    *)

LEMMA RowsAreFew ==
  ASSUME NEW t \in Types
  PROVE  Len(HandlerRegistry[t]) \in 0 .. 3
<1>1. t \in {"journey_stage_changed", "candidate_questionnaire_response_created",
             "interview_slot_created", "offer_accepted", "survey_created", "survey_reminder"}
  BY DEF Types, HandlerRegistry
<1>2. /\ Len(JourneyStageChanged) = 3
      /\ Len(QuestionnaireResponseCreated) = 1
      /\ Len(InterviewSlotCreated) = 2
      /\ Len(OfferAccepted) = 2
      /\ Len(SurveyCreated) = 2
      /\ Len(SurveyReminder) = 2
  BY DEF JourneyStageChanged, QuestionnaireResponseCreated, InterviewSlotCreated, OfferAccepted,
         SurveyCreated, SurveyReminder
<1> QED
  BY <1>1, <1>2 DEF HandlerRegistry

FoundInv ==
  /\ type \in [Notifying -> Types]
  /\ gone \in [Notifying -> SUBSET Kinds]
  /\ found \in [Dispatchers -> Nat]
  /\ \A d \in Dispatchers :
       found[d] # 0 => Handles(d) /\ found[d] <= Len(Rows(job[d].event))

LEMMA FoundImplies == FoundInv => HandlersTypeOK
<1> SUFFICES ASSUME FoundInv, NEW d \in Dispatchers PROVE found[d] \in 0 .. 3
  BY DEF FoundInv, HandlersTypeOK
<1>1. CASE found[d] = 0
  BY <1>1
<1>2. CASE found[d] # 0
  <2>1. type[job[d].event] \in Types /\ found[d] <= Len(Rows(job[d].event)) /\ found[d] \in Nat
    BY <1>2 DEF FoundInv, Handles
  <2>2. PICK n \in 0 .. 3 : Len(Rows(job[d].event)) = n
    BY <2>1, RowsAreFew DEF Rows
  <2>3. found[d] \in Nat /\ found[d] <= n /\ n <= 3
    BY <2>1, <2>2
  <2> QED
    BY <2>3
<1> QED
  BY <1>1, <1>2

LEMMA FoundStep ==
  TypeOK /\ AloneInv /\ FoundInv /\ [HandlersNext]_handlerVars => FoundInv'
<1> SUFFICES ASSUME TypeOK, AloneInv, FoundInv, [HandlersNext]_handlerVars PROVE FoundInv'
  OBVIOUS
<1> USE DEF FoundInv
(* A step that moves jobs of dispatchers which have found nothing.         *)
<1>1. ASSUME UNCHANGED <<type, gone, found>>,
             \A d \in Dispatchers : job'[d] = job[d] \/ ~ Handles(d)
      PROVE  FoundInv'
  BY <1>1 DEF Handles, Rows
(* A step of one dispatcher that looks for rows.                           *)
<1>2. ASSUME NEW d \in Dispatchers, UNCHANGED <<type, gone>>,
             \A c \in Dispatchers : c # d => job'[c] = job[c],
             NEW n \in Nat, found' = [found EXCEPT ![d] = n],
             n # 0 => /\ job'[d] = job[d] /\ Handles(d)
                      /\ n <= Len(Rows(job[d].event))
      PROVE  FoundInv'
  BY <1>2 DEF Handles, Rows
<1>3. ASSUME NEW e \in Events, RequestNext(e) \/ StartTask(e), UNCHANGED <<type, gone, found>>
      PROVE  FoundInv'
  <2>1. CASE RequestNext(e)
    BY <1>1, <1>3, <2>1 DEF RequestNext, Publish, Commit, Rollback, Respond, ResponseFails
  <2>2. CASE StartTask(e)
    <3>1. job[e] = Idle
      BY <2>2 DEF StartTask, AloneInv, TaskPlaces
    <3>2. \A d \in Dispatchers : d # e => job'[d] = job[d]
      BY <2>2 DEF StartTask, Load, TypeOK
    <3> QED
      BY <1>1, <1>3, <3>1, <3>2 DEF Handles, Idle
  <2> QED
    BY <1>3, <2>1, <2>2
<1>4. ASSUME NEW r \in Retriers, StartRetry(r), UNCHANGED <<type, gone, found>>
      PROVE  FoundInv'
  BY <1>1, <1>4 DEF StartRetry
<1>5. ASSUME NEW r \in Retriers, NEW e \in Events, RetryNext(r, e), UNCHANGED <<type, gone, found>>
      PROVE  FoundInv'
  <2>1. job[r] = Idle /\ \A d \in Dispatchers : d # r => job'[d] = job[d]
    BY <1>5 DEF RetryNext, Load, TypeOK
  <2> QED
    BY <1>1, <1>5, <2>1 DEF Handles, Idle
<1>6. ASSUME NEW d \in Dispatchers, FindRow(d) PROVE FoundInv'
  <2>1. type[job[d].event] \in Types /\ found[d] \in Nat /\ found[d] # Len(Rows(job[d].event))
    BY <1>6 DEF FindRow, Handles, AllFound
  <2>2. Len(Rows(job[d].event)) \in 0 .. 3
    BY <2>1, RowsAreFew DEF Rows
  <2>3. found[d] <= Len(Rows(job[d].event))
    BY <2>2
  <2>4. found[d] + 1 \in Nat /\ found[d] + 1 <= Len(Rows(job[d].event))
    BY <2>1, <2>2, <2>3
  <2>5. Handles(d) /\ UNCHANGED <<job, type, gone>> /\ found' = [found EXCEPT ![d] = found[d] + 1]
    BY <1>6 DEF FindRow, vars
  <2> QED
    BY <1>2, <2>4, <2>5
<1>7. ASSUME NEW d \in Dispatchers, MissRow(d) \/ Misread(d) PROVE FoundInv'
  <2>1. \A c \in Dispatchers : c # d => job'[c] = job[c]
    BY <1>7 DEF MissRow, Misread, HandlerFails, TypeOK
  <2> QED
    BY <1>2, <1>7, <2>1 DEF MissRow, Misread
<1>8. ASSUME NEW d \in Dispatchers, OtherHandler(d) \/ RecordNext(d) PROVE FoundInv'
  <2>1. \A c \in Dispatchers : c # d => job'[c] = job[c]
    BY <1>8
    DEF OtherHandler, RecordNext, HandlerCompletes, HandlerFails, RecordOutcome, CommitFails, TypeOK
  <2>2. ~ Handles(d)
    BY <1>8 DEF OtherHandler, RecordNext, RecordOutcome, CommitFails, Handles
  <2> QED
    BY <1>1, <1>8, <2>1, <2>2 DEF OtherHandler, RecordNext
<1>9. ASSUME NEW e \in Notifying, NEW kind \in Kinds, Lose(e, kind) PROVE FoundInv'
  BY <1>9 DEF Lose, vars, Handles, Rows
<1>10. CASE Crash /\ found' = [d \in Dispatchers |-> 0] /\ UNCHANGED <<type, gone>>
  BY <1>10
<1>11. CASE UNCHANGED handlerVars
  BY <1>1, <1>11 DEF handlerVars, vars
<1> QED
  BY <1>3, <1>4, <1>5, <1>6, <1>7, <1>8, <1>9, <1>10, <1>11 DEF HandlersNext, HandlerNext

(* The handlers are well typed: none looks for more rows than it names.    *)
THEOREM HandlersTypeCorrect == HandlersSpec => [](TypeOK /\ HandlersTypeOK)
<1>1. HandlersInit => FoundInv
  BY DEF HandlersInit, FoundInv
<1>2. HandlersSpec => [](TypeOK /\ AloneInv)
  BY HandlersAreLog, TypeCorrect, AloneInvariant, PTL
<1> QED
  BY <1>1, <1>2, FoundStep, FoundImplies, PTL DEF HandlersSpec

-----------------------------------------------------------------------------
(* retry.py says that a retry call dispatches FAILED events.  Two calls    *)
(* that overlap do not keep that; one at a time does.                      *)
THEOREM RetryCorrect ==
  ASSUME \A r, s \in Retriers : r = s
  PROVE  Spec => RetriesOnlyFailed
<1> DEFINE Fresh == \A r \in Retriers :
                      job[r] = Idle /\ job'[r] # Idle => status[job'[r].event] = "FAILED"
<1>1. TypeOK /\ PlacesInv /\ [Next]_vars => Fresh
  <2> SUFFICES ASSUME TypeOK, PlacesInv, [Next]_vars, NEW r \in Retriers,
                      job[r] = Idle, job'[r] # Idle
               PROVE  status[job'[r].event] = "FAILED"
    OBVIOUS
  <2>1. r \in Dispatchers /\ r \notin Events
    BY EventsAssumption DEF Dispatchers
  <2>2. ASSUME NEW s \in Retriers, NEW e \in Events, RetryNext(s, e)
        PROVE  status[job'[r].event] = "FAILED"
    <3>1. status[e] = "FAILED"
      BY <2>2 DEF RetryNext, PlacesInv, RetryPlaces
    <3>2. job'[r] = job[r] \/ job'[r].event = e
      BY <2>1, <2>2 DEF RetryNext, Load, TypeOK
    <3> QED
      BY <3>1, <3>2
  <2>3. ASSUME NEW e \in Events, RequestNext(e) PROVE FALSE
    BY <2>3 DEF RequestNext, Publish, Commit, Rollback, Respond, ResponseFails
  <2>4. ASSUME NEW e \in Events, StartTask(e) PROVE FALSE
    BY <2>1, <2>4 DEF StartTask, Load, TypeOK
  <2>5. ASSUME NEW d \in Dispatchers, JobNext(d) PROVE FALSE
    BY <2>1, <2>5, JobSteps
  <2> QED
    BY <2>1, <2>2, <2>3, <2>4, <2>5 DEF Next, StartRetry, Crash, vars
<1>2. TypeOK /\ PlacesInv /\ [Next]_vars => [Fresh]_job
  BY <1>1
<1>3. Spec => [](TypeOK /\ PlacesInv)
  BY EffectsInvariant, TypeCorrect, PTL
<1> QED
  BY <1>2, <1>3, PTL DEF Spec, RetriesOnlyFailed

=============================================================================
