----------------------------- MODULE Recruiting -----------------------------
(***************************************************************************)
(* Candidates and requisitions (app/modules/candidates, requisitions), the *)
(* daily job that expires candidates, and what they need of journeys.      *)
(*                                                                         *)
(* A request reads a row, judges what it read and writes; the version of   *)
(* the row makes the write fail if the row has moved since.  The job       *)
(* selects all idle candidates and writes them in one transaction.         *)
(***************************************************************************)
EXTENDS FiniteSets

CONSTANTS
  Candidates,    (* email addresses: a candidate's row keeps its own        *)
  Requisitions,
  Journeys,      (* journeys that a candidate may have                       *)
  Requests       (* requests that may be served at once                     *)

CandidateStatus == {"ACTIVE", "INTERVIEWING", "EXPIRED", "INELIGIBLE", "DELETED"}

VALID_TRANSITIONS ==
  [ACTIVE       |-> {"INTERVIEWING", "INELIGIBLE", "DELETED", "EXPIRED"},
   INTERVIEWING |-> {"ACTIVE", "INELIGIBLE", "DELETED", "EXPIRED"},
   EXPIRED      |-> {"ACTIVE", "DELETED"},
   INELIGIBLE   |-> {},
   DELETED      |-> {}]

RequisitionStatus == {"OPEN", "ON_HOLD", "CLOSED", "CANCELLED"}

VALID_REQUISITION_TRANSITIONS ==
  [OPEN      |-> {"ON_HOLD", "CLOSED", "CANCELLED"},
   ON_HOLD   |-> {"OPEN", "CANCELLED"},
   CLOSED    |-> {},
   CANCELLED |-> {}]

VARIABLES
  candidate,     (* global_status of each candidate, NONE without a row     *)
  old,           (* updated_at is more than 90 days ago                     *)
  journey,       (* status of each journey of each candidate                *)
  requisition,   (* status of each requisition, NONE without a row          *)
  associated,    (* candidate_requisitions                                  *)
  request,       (* what each request is doing                              *)
  sweep          (* the candidates the expiry job has selected              *)

rows == <<candidate, old, journey, requisition, associated>>

vars == <<rows, request, sweep>>

Idle == [phase |-> "idle"]

(* current: the row that was read has not moved since; fresh: nor since    *)
(* the client has seen it and its version.                                 *)
Working ==
  [phase: {"email"}, candidate: Candidates]
    \cup [phase: {"candidate"}, candidate: Candidates, seen: CandidateStatus,
          current: BOOLEAN]
    \cup [phase: {"client"}, requisition: Requisitions, fresh: BOOLEAN]
    \cup [phase: {"requisition"}, requisition: Requisitions, seen: RequisitionStatus,
          fresh: BOOLEAN, current: BOOLEAN]
    \cup [phase: {"open"}, requisition: Requisitions]
    \cup [phase: {"eligible"}, requisition: Requisitions, candidate: Candidates]

(* ended: in a terminal stage, but not accepted: overall_status is ACTIVE. *)
JourneyStatus == {"NONE", "RUNNING", "ENDED", "COMPLETED"}

(* No selection is the empty one; moved: rows that have moved since.       *)
Sweeps == [chosen: SUBSET Candidates, moved: SUBSET Candidates]

AtRest == [chosen |-> {}, moved |-> {}]

TypeOK ==
  /\ candidate \in [Candidates -> CandidateStatus \cup {"NONE"}]
  /\ old \in [Candidates -> BOOLEAN]
  /\ journey \in [Candidates -> [Journeys -> JourneyStatus]]
  /\ requisition \in [Requisitions -> RequisitionStatus \cup {"NONE"}]
  /\ associated \in SUBSET (Candidates \X Requisitions)
  /\ request \in [Requests -> {Idle} \cup Working]
  /\ sweep \in Sweeps

Init ==
  /\ candidate = [c \in Candidates |-> "NONE"]
  /\ old = [c \in Candidates |-> FALSE]
  /\ journey = [c \in Candidates |-> [j \in Journeys |-> "NONE"]]
  /\ requisition = [q \in Requisitions |-> "NONE"]
  /\ associated = {}
  /\ request = [r \in Requests |-> Idle]
  /\ sweep = AtRest

Become(r, work) == request' = [request EXCEPT ![r] = work]

-----------------------------------------------------------------------------
(* Candidates.                                                             *)

HasRead(r, C) == request[r].phase = "candidate" /\ request[r].candidate \in C

(* The rows of C have moved, for whoever has read them.                    *)
Outdate(Served, C) ==
  request' = [r \in Requests |->
    IF r \in Served THEN Idle
    ELSE IF HasRead(r, C) THEN [request[r] EXCEPT !.current = FALSE]
    ELSE request[r]]

(* create_candidate finds no row of the address that is not deleted ...    *)
FindAddressFree(r, c) ==
  /\ request[r] = Idle
  /\ candidate[c] \in {"NONE", "DELETED"}
  /\ Become(r, [phase |-> "email", candidate |-> c])
  /\ UNCHANGED <<rows, sweep>>

(* ... and inserts one, if uq_candidates_org_email, which looks at deleted *)
(* rows too, lets it.                                                      *)
InsertCandidate(r) ==
  LET c == request[r].candidate
  IN  /\ request[r].phase = "email"
      /\ candidate[c] = "NONE"
      /\ candidate' = [candidate EXCEPT ![c] = "ACTIVE"]
      /\ Become(r, Idle)
      /\ UNCHANGED <<old, journey, requisition, associated, sweep>>

(* get_candidate, in update_candidate.                                     *)
ReadCandidate(r, c) ==
  /\ request[r] = Idle
  /\ candidate[c] \notin {"NONE", "DELETED"}
  /\ Become(r, [phase |-> "candidate", candidate |-> c, seen |-> candidate[c],
                current |-> TRUE])
  /\ UNCHANGED <<rows, sweep>>

(* UPDATE ... WHERE version = the version that was read.                   *)
Unversioned(r) == request[r].phase = "candidate"  (* mutation: any version *)

Unmoved(r) == request[r].current

(* transition_status: what was read is judged, and what is there written.  *)
(* That INELIGIBLE needs a reason is left out, and so is the reason.       *)
MoveCandidate(r, new) ==
  LET c == request[r].candidate
  IN  /\ request[r].phase = "candidate"
      /\ new \in VALID_TRANSITIONS[request[r].seen]
      /\ Unmoved(r)
      /\ candidate' = [candidate EXCEPT ![c] = new]
      /\ old' = [old EXCEPT ![c] = FALSE]
      /\ sweep' = [sweep EXCEPT !.moved = @ \cup ({c} \cap sweep.chosen)]
      /\ Outdate({r}, {c})
      /\ UNCHANGED <<journey, requisition, associated>>

(* Ninety days without an update of the row.                               *)
Age(c) ==
  /\ candidate[c] # "NONE"
  /\ ~ old[c]
  /\ old' = [old EXCEPT ![c] = TRUE]
  /\ UNCHANGED <<candidate, journey, requisition, associated, request, sweep>>

-----------------------------------------------------------------------------
(* run_expiry_check.                                                       *)

InJourney(c) == \E j \in Journeys : journey[c][j] \in {"RUNNING", "ENDED"}

Stale(c) == candidate[c] = "ACTIVE" /\ old[c] /\ ~ InJourney(c)

SelectNew ==  (* mutation: no journey, whatever its overall status          *)
  LET chosen == {c \in Candidates : Stale(c) /\ \A j \in Journeys : journey[c][j] = "NONE"}
  IN  /\ sweep = AtRest
      /\ chosen # {}
      /\ sweep' = [chosen |-> chosen, moved |-> {}]
      /\ UNCHANGED <<rows, request>>

(* Without a candidate to expire the job writes nothing.                   *)
SelectStale ==
  /\ sweep = AtRest
  /\ \E c \in Candidates : Stale(c)
  /\ sweep' = [chosen |-> {c \in Candidates : Stale(c)}, moved |-> {}]
  /\ UNCHANGED <<rows, request>>

CommitUnversioned ==  (* mutation: without the version                      *)
  /\ sweep # AtRest
  /\ candidate' = [c \in Candidates |->
                     IF c \in sweep.chosen THEN "EXPIRED" ELSE candidate[c]]
  /\ old' = [c \in Candidates |-> c \notin sweep.chosen /\ old[c]]
  /\ sweep' = AtRest
  /\ Outdate({}, sweep.chosen)
  /\ UNCHANGED <<journey, requisition, associated>>

(* All are expired, or none is if the row of one of them has moved.        *)
CommitSweep ==
  /\ sweep # AtRest
  /\ sweep.moved = {}
  /\ candidate' = [c \in Candidates |->
                     IF c \in sweep.chosen THEN "EXPIRED" ELSE candidate[c]]
  /\ old' = [c \in Candidates |-> c \notin sweep.chosen /\ old[c]]
  /\ sweep' = AtRest
  /\ Outdate({}, sweep.chosen)
  /\ UNCHANGED <<journey, requisition, associated>>

FailSweep ==
  /\ sweep # AtRest
  /\ sweep' = AtRest
  /\ UNCHANGED <<rows, request>>

-----------------------------------------------------------------------------
(* Requisitions.                                                           *)

CreateRequisition(r, q) ==
  /\ request[r] = Idle
  /\ requisition[q] = "NONE"
  /\ requisition' = [requisition EXCEPT ![q] = "OPEN"]
  /\ UNCHANGED <<candidate, old, journey, associated, request, sweep>>

(* A client gets the requisition with the version that its update will     *)
(* name.                                                                   *)
GetRequisition(r, q) ==
  /\ request[r] = Idle
  /\ requisition[q] # "NONE"
  /\ Become(r, [phase |-> "client", requisition |-> q, fresh |-> TRUE])
  /\ UNCHANGED <<rows, sweep>>

(* transition_status reads the row, whatever version the client names ...  *)
ReadRequisition(r) ==
  LET q == request[r].requisition
  IN  /\ request[r].phase = "client"
      /\ Become(r, [phase |-> "requisition", requisition |-> q,
                    seen |-> requisition[q], fresh |-> request[r].fresh,
                    current |-> TRUE])
      /\ UNCHANGED <<rows, sweep>>

(* ... and writes the version it has read itself.                          *)
MoveRequisition(r, new) ==
  LET q == request[r].requisition
  IN  /\ request[r].phase = "requisition"
      /\ new \in VALID_REQUISITION_TRANSITIONS[request[r].seen]
      /\ Unmoved(r)
      /\ requisition' = [requisition EXCEPT ![q] = new]
      /\ request' = [o \in Requests |->
           IF o = r THEN Idle
           ELSE IF request[o].phase = "client" /\ request[o].requisition = q
             THEN [request[o] EXCEPT !.fresh = FALSE]
           ELSE IF request[o].phase = "requisition" /\ request[o].requisition = q
             THEN [request[o] EXCEPT !.fresh = FALSE, !.current = FALSE]
           ELSE request[o]]
      /\ UNCHANGED <<candidate, old, journey, associated, sweep>>

-----------------------------------------------------------------------------
(* associate_candidate, statement by statement: the requisition, then the  *)
(* candidate, then the pair, which uq_candidate_requisition decides on     *)
(* again when it is inserted.  Neither row is written.                     *)

FindOpen(r, q) ==
  /\ request[r] = Idle
  /\ requisition[q] = "OPEN"
  /\ Become(r, [phase |-> "open", requisition |-> q])
  /\ UNCHANGED <<rows, sweep>>

FindEligible(r, c) ==
  /\ request[r].phase = "open"
  /\ candidate[c] \in {"ACTIVE", "INTERVIEWING"}
  /\ Become(r, [phase |-> "eligible", requisition |-> request[r].requisition,
                candidate |-> c])
  /\ UNCHANGED <<rows, sweep>>

Associate(r) ==
  LET pair == <<request[r].candidate, request[r].requisition>>
  IN  /\ request[r].phase = "eligible"
      /\ pair \notin associated
      /\ associated' = associated \cup {pair}
      /\ Become(r, Idle)
      /\ UNCHANGED <<candidate, old, journey, requisition, sweep>>

-----------------------------------------------------------------------------
(* What the expiry job reads of journeys.  create_journey looks at nothing *)
(* else: not at the status of the candidate, not at a requisition.         *)

BeginJourney(c, j) ==
  /\ candidate[c] # "NONE"
  /\ journey[c][j] = "NONE"
  /\ journey' = [journey EXCEPT ![c][j] = "RUNNING"]
  /\ UNCHANGED <<candidate, old, requisition, associated, request, sweep>>

(* A terminal stage; only an accepted offer completes the journey.         *)
EndJourney(c, j, end) ==
  /\ journey[c][j] = "RUNNING"
  /\ journey' = [journey EXCEPT ![c][j] = end]
  /\ UNCHANGED <<candidate, old, requisition, associated, request, sweep>>

-----------------------------------------------------------------------------
(* A request that is refused, that finds its row moved or its insert in    *)
(* conflict, or that ends with the process.                                *)
Fail(r) ==
  /\ request[r] # Idle
  /\ Become(r, Idle)
  /\ UNCHANGED <<rows, sweep>>

Serve(r) ==
  \/ \E c \in Candidates : FindAddressFree(r, c) \/ ReadCandidate(r, c) \/ FindEligible(r, c)
  \/ \E q \in Requisitions : CreateRequisition(r, q) \/ GetRequisition(r, q) \/ FindOpen(r, q)
  \/ \E new \in CandidateStatus : MoveCandidate(r, new)
  \/ \E new \in RequisitionStatus : MoveRequisition(r, new)
  \/ InsertCandidate(r)
  \/ ReadRequisition(r)
  \/ Associate(r)
  \/ Fail(r)

Next ==
  \/ \E r \in Requests : Serve(r)
  \/ \E c \in Candidates : Age(c)
  \/ SelectStale
  \/ CommitSweep
  \/ FailSweep
  \/ \E c \in Candidates, j \in Journeys :
       BeginJourney(c, j) \/ \E end \in {"ENDED", "COMPLETED"} : EndJourney(c, j, end)

(* The job comes round every day and takes a moment: it is neither hit by  *)
(* an update nor does it fail each time.                                   *)
Fairness ==
  /\ WF_vars(SelectStale)
  /\ WF_vars(CommitSweep \/ FailSweep)
  /\ SF_vars(CommitSweep)

Spec == Init /\ [][Next]_vars /\ Fairness

-----------------------------------------------------------------------------
(* Properties.                                                             *)

(* However requests and the job race, a status moves as the two machines   *)
(* permit; INELIGIBLE, DELETED, CLOSED and CANCELLED are for good.         *)
StatusesFollowMachines ==
  [][/\ \A c \in Candidates : candidate'[c] # candidate[c] =>
          IF candidate[c] = "NONE" THEN candidate'[c] = "ACTIVE"
          ELSE candidate'[c] \in VALID_TRANSITIONS[candidate[c]]
     /\ \A q \in Requisitions : requisition'[q] # requisition[q] =>
          IF requisition[q] = "NONE" THEN requisition'[q] = "OPEN"
          ELSE requisition'[q] \in VALID_REQUISITION_TRANSITIONS[requisition[q]]]_vars

(* The job never expires a candidate that has been updated in the last 90  *)
(* days or is not ACTIVE any more, though it selected it before.           *)
SweptAreIdle ==
  [][CommitSweep => \A c \in sweep.chosen : candidate[c] = "ACTIVE" /\ old[c]]_vars

(* A candidate that stays ACTIVE, idle and without an active journey is    *)
(* expired in the end.                                                     *)
StaleIsExpired == \A c \in Candidates : Stale(c) ~> ~ Stale(c)

-----------------------------------------------------------------------------
(* Statements of the documentation that the code does not keep.            *)

(* Candidate lifecycle design, property 17: for a candidate "who has at    *)
(* least one active InterviewJourney, the scheduler must not change their  *)
(* status".                                                                *)
SweptHaveNoJourney ==
  [][CommitSweep => \A c \in sweep.chosen : ~ InJourney(c)]_vars

(* requisitions/schemas.py: "Version number for optimistic locking", and   *)
(* requisitions/router.py: "409: Conflict: Resource has been modified by   *)
(* another request".                                                       *)
UpdatesAreFresh ==
  [][\A r \in Requests, new \in RequisitionStatus :
       MoveRequisition(r, new) => request[r].fresh]_vars

(* Candidate lifecycle requirement 5.3: the requisition is Open and the    *)
(* candidate Active or Interviewing "before creating the association".     *)
AssociatesEligible ==
  [][\A r \in Requests : Associate(r) =>
       /\ requisition[request[r].requisition] = "OPEN"
       /\ candidate[request[r].candidate] \in {"ACTIVE", "INTERVIEWING"}]_vars

(* Candidate lifecycle requirement 1.7: no user moves a candidate to       *)
(* Expired.                                                                *)
OnlyTheJobExpires ==
  [][\A r \in Requests : ~ MoveCandidate(r, "EXPIRED")]_vars
=============================================================================
