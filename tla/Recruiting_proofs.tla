------------------------- MODULE Recruiting_proofs --------------------------
(***************************************************************************)
(* Proofs about module Recruiting, for any candidates, requisitions and    *)
(* requests.  A row that has not moved is the row that was read: what a    *)
(* request judged, and what the job selected, is what is there when they   *)
(* write.                                                                  *)
(***************************************************************************)
EXTENDS Recruiting, TLAPS

(* What a request at work holds, told by its phase.                        *)
LEMMA WorkShape ==
  ASSUME TypeOK, NEW r \in Requests
  PROVE  /\ request[r].phase = "email" =>
              request[r] \in [phase: {"email"}, candidate: Candidates]
         /\ request[r].phase = "candidate" =>
              request[r] \in [phase: {"candidate"}, candidate: Candidates,
                              seen: CandidateStatus, current: BOOLEAN]
         /\ request[r].phase = "client" =>
              request[r] \in [phase: {"client"}, requisition: Requisitions,
                              fresh: BOOLEAN]
         /\ request[r].phase = "requisition" =>
              request[r] \in [phase: {"requisition"}, requisition: Requisitions,
                              seen: RequisitionStatus, fresh: BOOLEAN, current: BOOLEAN]
         /\ request[r].phase = "open" =>
              request[r] \in [phase: {"open"}, requisition: Requisitions]
         /\ request[r].phase = "eligible" =>
              request[r] \in [phase: {"eligible"}, requisition: Requisitions,
                              candidate: Candidates]
<1>1. request[r] \in {Idle} \cup Working
  BY DEF TypeOK
<1> QED
  BY <1>1 DEF Working, Idle

(* A request has read the status there is, unless its row has moved.       *)
SeenInv ==
  \A r \in Requests :
    /\ request[r].phase = "candidate" /\ request[r].current =>
         request[r].seen = candidate[request[r].candidate]
    /\ request[r].phase = "client" => requisition[request[r].requisition] # "NONE"
    /\ request[r].phase = "requisition" /\ request[r].current =>
         request[r].seen = requisition[request[r].requisition]

(* What the job has selected is as it was, unless its row has moved.       *)
SweepInv ==
  \A c \in sweep.chosen \ sweep.moved : candidate[c] = "ACTIVE" /\ old[c]

IInv == TypeOK /\ SeenInv /\ SweepInv

(* The two writes of rows that requests have read.                         *)
LEMMA OutdateKeeps ==
  ASSUME TypeOK, SeenInv, NEW Served \in SUBSET Requests, NEW C \in SUBSET Candidates,
         Outdate(Served, C), requisition' = requisition,
         \A c \in Candidates \ C : candidate'[c] = candidate[c]
  PROVE  request' \in [Requests -> {Idle} \cup Working] /\ SeenInv'
<1>1. ASSUME NEW r \in Requests
      PROVE  /\ request'[r] \in {Idle} \cup Working
             /\ request'[r].phase = "candidate" /\ request'[r].current =>
                  request'[r].seen = candidate'[request'[r].candidate]
             /\ request'[r].phase = "client" =>
                  requisition[request'[r].requisition] # "NONE"
             /\ request'[r].phase = "requisition" /\ request'[r].current =>
                  request'[r].seen = requisition[request'[r].requisition]
  <2>1. CASE r \in Served
    BY <2>1 DEF Outdate, Idle
  <2>2. CASE r \notin Served /\ HasRead(r, C)
    <3>1. request[r] \in [phase: {"candidate"}, candidate: Candidates,
                          seen: CandidateStatus, current: BOOLEAN]
      BY <2>2, WorkShape DEF HasRead
    <3>2. request'[r] = [request[r] EXCEPT !.current = FALSE]
      BY <2>2 DEF Outdate
    <3>3. /\ request'[r] \in [phase: {"candidate"}, candidate: Candidates,
                              seen: CandidateStatus, current: BOOLEAN]
          /\ request'[r].current = FALSE
      BY <3>1, <3>2
    <3> QED
      BY <3>3 DEF Working
  <2>3. CASE r \notin Served /\ ~ HasRead(r, C)
    <3>1. request'[r] = request[r]
      BY <2>3 DEF Outdate
    <3>2. request[r].phase = "candidate" =>
            request[r].candidate \in Candidates \ C
      BY <2>3, WorkShape DEF HasRead
    <3>3. /\ request[r] \in {Idle} \cup Working
          /\ request[r].phase = "candidate" /\ request[r].current =>
               request[r].seen = candidate[request[r].candidate]
          /\ request[r].phase = "client" => requisition[request[r].requisition] # "NONE"
          /\ request[r].phase = "requisition" /\ request[r].current =>
               request[r].seen = requisition[request[r].requisition]
      BY DEF TypeOK, SeenInv
    <3> QED
      BY <3>1, <3>2, <3>3
  <2> QED
    BY <2>1, <2>2, <2>3
<1>2. request' = [r \in Requests |-> request'[r]]
  BY DEF Outdate
<1>3. SeenInv'
  BY <1>1 DEF SeenInv
<1> QED
  BY <1>1, <1>2, <1>3

(* A request takes up work that it has read from unmoved rows.             *)
LEMMA BecomeKeeps ==
  ASSUME TypeOK, SeenInv, NEW r \in Requests, NEW work \in {Idle} \cup Working,
         Become(r, work),
         candidate' = candidate, requisition' = requisition,
         work.phase = "candidate" => work.seen = candidate[work.candidate],
         work.phase = "client" => requisition[work.requisition] # "NONE",
         work.phase = "requisition" => work.seen = requisition[work.requisition]
  PROVE  request' \in [Requests -> {Idle} \cup Working] /\ SeenInv'
<1>1. request'[r] = work /\ \A q \in Requests \ {r} : request'[q] = request[q]
  BY DEF Become, TypeOK
<1>2. request' \in [Requests -> {Idle} \cup Working]
  BY DEF Become, TypeOK
<1> QED
  BY <1>1, <1>2 DEF SeenInv

LEMMA TypeInit == Init => IInv
<1> SUFFICES ASSUME Init PROVE TypeOK /\ SeenInv /\ SweepInv
  BY DEF IInv
<1>1. TypeOK
  BY DEF Init, TypeOK, JourneyStatus, AtRest, Sweeps
<1>2. SeenInv
  BY DEF Init, SeenInv, Idle
<1>3. SweepInv
  BY DEF Init, SweepInv, AtRest
<1> QED
  BY <1>1, <1>2, <1>3

LEMMA MachineTypes ==
  /\ \A s \in CandidateStatus : VALID_TRANSITIONS[s] \subseteq CandidateStatus
  /\ \A s \in RequisitionStatus : VALID_REQUISITION_TRANSITIONS[s] \subseteq RequisitionStatus
  BY DEF CandidateStatus, VALID_TRANSITIONS, RequisitionStatus, VALID_REQUISITION_TRANSITIONS

(* A request reads: the rows and the job are what they were.               *)
LEMMA ReadStep ==
  ASSUME IInv, NEW r \in Requests, NEW work \in {Idle} \cup Working, Become(r, work),
         UNCHANGED <<rows, sweep>>,
         work.phase = "candidate" => work.seen = candidate[work.candidate],
         work.phase = "client" => requisition[work.requisition] # "NONE",
         work.phase = "requisition" => work.seen = requisition[work.requisition]
  PROVE  IInv'
<1>1. request' \in [Requests -> {Idle} \cup Working] /\ SeenInv'
  BY BecomeKeeps DEF IInv, rows
<1>2. TypeOK'
  BY <1>1 DEF IInv, TypeOK, rows
<1>3. SweepInv'
  BY DEF IInv, SweepInv, rows
<1> QED
  BY <1>1, <1>2, <1>3 DEF IInv

LEMMA InsertStep ==
  ASSUME IInv, NEW r \in Requests, InsertCandidate(r)
  PROVE  IInv'
<1> DEFINE c == request[r].candidate
<1>1. /\ c \in Candidates /\ candidate[c] = "NONE"
      /\ candidate' = [candidate EXCEPT ![c] = "ACTIVE"]
      /\ request' = [request EXCEPT ![r] = Idle]
      /\ UNCHANGED <<old, journey, requisition, associated, sweep>>
  BY WorkShape DEF IInv, InsertCandidate, Become
<1>2. TypeOK'
  BY <1>1 DEF IInv, TypeOK, CandidateStatus
<1>3. \A q \in Requests : request[q].phase = "candidate" /\ request[q].current =>
        request[q].candidate # c /\ request[q].candidate \in Candidates
  BY <1>1, WorkShape DEF IInv, SeenInv, CandidateStatus
<1>4. SeenInv'
  <2> SUFFICES ASSUME NEW q \in Requests, q # r
               PROVE  request[q].phase = "candidate" /\ request[q].current =>
                        request[q].seen = candidate'[request[q].candidate]
    BY <1>1 DEF IInv, SeenInv, TypeOK, Idle
  <2> QED
    BY <1>1, <1>3 DEF IInv, SeenInv, TypeOK
<1>5. SweepInv'
  BY <1>1 DEF IInv, SweepInv, TypeOK
<1> QED
  BY <1>2, <1>4, <1>5 DEF IInv

LEMMA MoveCandidateStep ==
  ASSUME IInv, NEW r \in Requests, NEW new \in CandidateStatus, MoveCandidate(r, new)
  PROVE  /\ IInv'
         /\ UNCHANGED requisition
         /\ \A c \in Candidates : candidate'[c] # candidate[c] =>
              candidate[c] # "NONE" /\ candidate'[c] \in VALID_TRANSITIONS[candidate[c]]
<1> DEFINE c == request[r].candidate
<1>1. /\ c \in Candidates /\ new \in VALID_TRANSITIONS[request[r].seen]
      /\ request[r].seen \in CandidateStatus /\ request[r].seen = candidate[c]
      /\ candidate' = [candidate EXCEPT ![c] = new]
      /\ old' = [old EXCEPT ![c] = FALSE]
      /\ sweep' = [sweep EXCEPT !.moved = @ \cup ({c} \cap sweep.chosen)]
      /\ Outdate({r}, {c})
      /\ UNCHANGED <<journey, requisition, associated>>
  BY WorkShape DEF IInv, SeenInv, MoveCandidate, Unmoved
<1>2. request' \in [Requests -> {Idle} \cup Working] /\ SeenInv'
  <2>1. \A d \in Candidates \ {c} : candidate'[d] = candidate[d]
    BY <1>1 DEF IInv, TypeOK
  <2> QED
    BY <1>1, <2>1, OutdateKeeps DEF IInv
<1>3. sweep' \in Sweeps /\ sweep'.chosen = sweep.chosen
      /\ sweep'.moved = sweep.moved \cup ({c} \cap sweep.chosen)
  BY <1>1 DEF IInv, TypeOK, Sweeps
<1>4. TypeOK'
  BY <1>1, <1>2, <1>3 DEF IInv, TypeOK
<1>5. SweepInv'
  <2> SUFFICES ASSUME NEW d \in sweep.chosen, d \notin sweep.moved, d # c
               PROVE  candidate'[d] = "ACTIVE" /\ old'[d]
    BY <1>3 DEF SweepInv
  <2>1. d \in Candidates /\ candidate[d] = "ACTIVE" /\ old[d]
    BY DEF IInv, TypeOK, Sweeps, SweepInv
  <2> QED
    BY <1>1, <2>1 DEF IInv, TypeOK
<1>6. candidate[c] # "NONE"
  BY <1>1 DEF CandidateStatus
<1> QED
  BY <1>1, <1>2, <1>4, <1>5, <1>6 DEF IInv, TypeOK

LEMMA MoveRequisitionStep ==
  ASSUME IInv, NEW r \in Requests, NEW new \in RequisitionStatus, MoveRequisition(r, new)
  PROVE  /\ IInv'
         /\ UNCHANGED candidate
         /\ \A q \in Requisitions : requisition'[q] # requisition[q] =>
              /\ requisition[q] # "NONE"
              /\ requisition'[q] \in VALID_REQUISITION_TRANSITIONS[requisition[q]]
<1> DEFINE q == request[r].requisition
<1>1. /\ q \in Requisitions /\ new \in VALID_REQUISITION_TRANSITIONS[request[r].seen]
      /\ request[r].seen \in RequisitionStatus /\ request[r].seen = requisition[q]
      /\ requisition' = [requisition EXCEPT ![q] = new]
      /\ UNCHANGED <<candidate, old, journey, associated, sweep>>
  BY WorkShape DEF IInv, SeenInv, MoveRequisition, Unmoved
<1>a. TypeOK /\ SeenInv
  BY DEF IInv
<1>2. ASSUME NEW o \in Requests
      PROVE  /\ request'[o] \in {Idle} \cup Working
             /\ request'[o].phase = "candidate" /\ request'[o].current =>
                  request'[o].seen = candidate[request'[o].candidate]
             /\ request'[o].phase = "client" =>
                  requisition'[request'[o].requisition] # "NONE"
             /\ request'[o].phase = "requisition" /\ request'[o].current =>
                  request'[o].seen = requisition'[request'[o].requisition]
  <2>0. new # "NONE"
    BY DEF RequisitionStatus
  <2>1. CASE o = r
    BY <2>1 DEF MoveRequisition, Idle
  <2>2. CASE o # r /\ request[o].phase = "client" /\ request[o].requisition = q
    <3>1. request[o] \in [phase: {"client"}, requisition: Requisitions, fresh: BOOLEAN]
      BY <1>a, <2>2, WorkShape
    <3>2. request'[o] = [request[o] EXCEPT !.fresh = FALSE]
      BY <2>2 DEF MoveRequisition
    <3>3. /\ request'[o] \in [phase: {"client"}, requisition: Requisitions, fresh: BOOLEAN]
          /\ request'[o].requisition = q
      BY <2>2, <3>1, <3>2
    <3> QED
      BY <1>1, <1>a, <2>0, <3>3 DEF Working, TypeOK
  <2>3. CASE o # r /\ request[o].phase = "requisition" /\ request[o].requisition = q
    <3>1. request[o] \in [phase: {"requisition"}, requisition: Requisitions,
                          seen: RequisitionStatus, fresh: BOOLEAN, current: BOOLEAN]
      BY <1>a, <2>3, WorkShape
    <3>2. request'[o] = [request[o] EXCEPT !.fresh = FALSE, !.current = FALSE]
      BY <2>3 DEF MoveRequisition
    <3>3. /\ request'[o] \in [phase: {"requisition"}, requisition: Requisitions,
                              seen: RequisitionStatus, fresh: BOOLEAN, current: BOOLEAN]
          /\ request'[o].current = FALSE
      BY <3>1, <3>2
    <3> QED
      BY <3>3 DEF Working
  <2>4. CASE /\ o # r
             /\ ~ (request[o].phase \in {"client", "requisition"}
                     /\ request[o].requisition = q)
    <3>1. request'[o] = request[o]
      BY <2>4 DEF MoveRequisition
    <3>2. request[o].phase \in {"client", "requisition"} =>
            request[o].requisition \in Requisitions \ {q}
      BY <1>a, <2>4, WorkShape
    <3> QED
      BY <1>1, <1>a, <3>1, <3>2 DEF TypeOK, SeenInv
  <2> QED
    BY <2>1, <2>2, <2>3, <2>4
<1>3. request' = [o \in Requests |-> request'[o]]
  BY DEF MoveRequisition
<1>4. SeenInv'
  BY <1>1, <1>2 DEF SeenInv
<1>5. TypeOK'
  BY <1>1, <1>2, <1>3, <1>a DEF TypeOK
<1>6. SweepInv'
  BY <1>1 DEF IInv, SweepInv
<1>7. requisition[q] # "NONE"
  BY <1>1 DEF RequisitionStatus
<1> QED
  BY <1>1, <1>4, <1>5, <1>6, <1>7, <1>a DEF IInv, TypeOK

LEMMA CommitStep ==
  ASSUME IInv, CommitSweep
  PROVE  /\ IInv'
         /\ UNCHANGED requisition
         /\ \A c \in sweep.chosen : candidate[c] = "ACTIVE" /\ old[c]
         /\ \A c \in Candidates \ sweep.chosen : candidate'[c] = candidate[c]
         /\ \A c \in sweep.chosen : candidate'[c] = "EXPIRED"
<1>1. /\ sweep.moved = {} /\ sweep.chosen \in SUBSET Candidates
      /\ candidate' = [c \in Candidates |->
                         IF c \in sweep.chosen THEN "EXPIRED" ELSE candidate[c]]
      /\ old' = [c \in Candidates |-> c \notin sweep.chosen /\ old[c]]
      /\ sweep' = AtRest
      /\ Outdate({}, sweep.chosen)
      /\ UNCHANGED <<journey, requisition, associated>>
  BY DEF CommitSweep, IInv, TypeOK, Sweeps
<1>2. \A c \in Candidates \ sweep.chosen : candidate'[c] = candidate[c]
  BY <1>1
<1>3. request' \in [Requests -> {Idle} \cup Working] /\ SeenInv'
  BY <1>1, <1>2, OutdateKeeps DEF IInv
<1>4. TypeOK'
  <2>1. candidate' \in [Candidates -> CandidateStatus \cup {"NONE"}]
    BY <1>1 DEF IInv, TypeOK, CandidateStatus
  <2>2. old' \in [Candidates -> BOOLEAN]
    BY <1>1
  <2>3. sweep' \in Sweeps
    BY <1>1 DEF AtRest, Sweeps
  <2> QED
    BY <1>1, <1>3, <2>1, <2>2, <2>3 DEF IInv, TypeOK
<1>5. SweepInv'
  BY <1>1 DEF SweepInv, AtRest
<1>6. \A c \in sweep.chosen : candidate[c] = "ACTIVE" /\ old[c]
  BY <1>1 DEF IInv, SweepInv
<1> QED
  BY <1>1, <1>2, <1>3, <1>4, <1>5, <1>6 DEF IInv

(* A step of the rows that neither requests nor the job read.              *)
LEMMA AsideStep ==
  ASSUME IInv, UNCHANGED <<candidate, request, sweep>>, TypeOK',
         \A c \in Candidates : old[c] => old'[c],
         \A q \in Requisitions : requisition[q] # "NONE" => requisition'[q] = requisition[q]
  PROVE  IInv'
<1>1. SeenInv'
  <2> SUFFICES ASSUME NEW r \in Requests
               PROVE  /\ request[r].phase = "client" =>
                           requisition'[request[r].requisition] # "NONE"
                      /\ request[r].phase = "requisition" /\ request[r].current =>
                           request[r].seen = requisition'[request[r].requisition]
    BY DEF IInv, SeenInv
  <2>1. request[r].phase \in {"client", "requisition"} =>
          request[r].requisition \in Requisitions
    BY WorkShape DEF IInv
  <2>2. request[r].phase = "requisition" => request[r].seen # "NONE"
    BY WorkShape DEF IInv, RequisitionStatus
  <2> QED
    BY <2>1, <2>2 DEF IInv, SeenInv
<1>2. SweepInv'
  BY DEF IInv, TypeOK, Sweeps, SweepInv
<1> QED
  BY <1>1, <1>2 DEF IInv

LEMMA TypeStep == IInv /\ [Next]_vars => IInv'
<1> SUFFICES ASSUME IInv, [Next]_vars PROVE IInv'
  OBVIOUS
<1>1. ASSUME NEW r \in Requests, NEW c \in Candidates,
             FindAddressFree(r, c) \/ ReadCandidate(r, c) \/ FindEligible(r, c)
      PROVE  IInv'
  <2>1. CASE FindAddressFree(r, c)
    <3>1. [phase |-> "email", candidate |-> c] \in Working
      BY DEF Working
    <3> QED
      BY <2>1, <3>1, ReadStep DEF FindAddressFree
  <2>2. CASE ReadCandidate(r, c)
    <3>1. [phase |-> "candidate", candidate |-> c, seen |-> candidate[c],
           current |-> TRUE] \in Working
      BY <2>2 DEF Working, ReadCandidate, IInv, TypeOK
    <3> QED
      BY <2>2, <3>1, ReadStep DEF ReadCandidate
  <2>3. CASE FindEligible(r, c)
    <3>1. [phase |-> "eligible", requisition |-> request[r].requisition,
           candidate |-> c] \in Working
      BY <2>3, WorkShape DEF Working, FindEligible, IInv
    <3> QED
      BY <2>3, <3>1, ReadStep DEF FindEligible
  <2> QED
    BY <1>1, <2>1, <2>2, <2>3
<1>2. ASSUME NEW r \in Requests, NEW q \in Requisitions,
             CreateRequisition(r, q) \/ GetRequisition(r, q) \/ FindOpen(r, q)
      PROVE  IInv'
  <2>1. CASE CreateRequisition(r, q)
    <3>1. TypeOK'
      BY <2>1 DEF CreateRequisition, IInv, TypeOK, RequisitionStatus
    <3> QED
      BY <2>1, <3>1, AsideStep DEF CreateRequisition, IInv, TypeOK
  <2>2. CASE GetRequisition(r, q)
    <3>1. [phase |-> "client", requisition |-> q, fresh |-> TRUE] \in Working
      BY DEF Working
    <3> QED
      BY <2>2, <3>1, ReadStep DEF GetRequisition
  <2>3. CASE FindOpen(r, q)
    <3>1. [phase |-> "open", requisition |-> q] \in Working
      BY DEF Working
    <3> QED
      BY <2>3, <3>1, ReadStep DEF FindOpen
  <2> QED
    BY <1>2, <2>1, <2>2, <2>3
<1>3. ASSUME NEW r \in Requests, ReadRequisition(r)
      PROVE  IInv'
  <2> DEFINE q == request[r].requisition
             work == [phase |-> "requisition", requisition |-> q, seen |-> requisition[q],
                      fresh |-> request[r].fresh, current |-> TRUE]
  <2>1. request[r] \in [phase: {"client"}, requisition: Requisitions, fresh: BOOLEAN]
    BY <1>3, WorkShape DEF IInv, ReadRequisition
  <2>2. requisition[q] \in RequisitionStatus
    BY <2>1 DEF IInv, SeenInv, TypeOK
  <2>3. work \in Working
    BY <2>1, <2>2 DEF Working
  <2> QED
    BY <1>3, <2>3, ReadStep DEF ReadRequisition
<1>4. ASSUME NEW r \in Requests, Associate(r)
      PROVE  IInv'
  <2>1. /\ associated' \in SUBSET (Candidates \X Requisitions)
        /\ Become(r, Idle)
        /\ UNCHANGED <<candidate, old, journey, requisition, sweep>>
    BY <1>4, WorkShape DEF Associate, IInv, TypeOK
  <2>2. request' \in [Requests -> {Idle} \cup Working] /\ SeenInv'
    BY <2>1, BecomeKeeps DEF IInv, Idle
  <2>3. TypeOK' /\ SweepInv'
    BY <2>1, <2>2 DEF IInv, TypeOK, SweepInv
  <2> QED
    BY <2>2, <2>3 DEF IInv
<1>5. ASSUME NEW r \in Requests, Fail(r)
      PROVE  IInv'
  BY <1>5, ReadStep DEF Fail, Idle
<1>6. ASSUME NEW r \in Requests, InsertCandidate(r)
      PROVE  IInv'
  BY <1>6, InsertStep
<1>7. ASSUME NEW r \in Requests, NEW new \in CandidateStatus, MoveCandidate(r, new)
      PROVE  IInv'
  BY <1>7, MoveCandidateStep
<1>8. ASSUME NEW r \in Requests, NEW new \in RequisitionStatus, MoveRequisition(r, new)
      PROVE  IInv'
  BY <1>8, MoveRequisitionStep
<1>9. ASSUME NEW c \in Candidates, Age(c)
      PROVE  IInv'
  <2>1. TypeOK'
    BY <1>9 DEF Age, IInv, TypeOK
  <2> QED
    BY <1>9, <2>1, AsideStep DEF Age, IInv, TypeOK
<1>10. CASE SelectStale
  <2>1. sweep' = [chosen |-> {c \in Candidates : Stale(c)}, moved |-> {}]
        /\ UNCHANGED <<rows, request>>
    BY <1>10 DEF SelectStale
  <2>2. TypeOK' /\ SeenInv'
    BY <2>1 DEF IInv, TypeOK, SeenInv, Sweeps, rows
  <2>3. SweepInv'
    BY <2>1 DEF SweepInv, Stale, rows
  <2> QED
    BY <2>2, <2>3 DEF IInv
<1>11. CASE CommitSweep
  BY <1>11, CommitStep
<1>12. CASE FailSweep
  BY <1>12 DEF FailSweep, IInv, TypeOK, SeenInv, SweepInv, Sweeps, AtRest, rows
<1>13. ASSUME NEW c \in Candidates, NEW j \in Journeys,
              BeginJourney(c, j) \/ \E end \in {"ENDED", "COMPLETED"} : EndJourney(c, j, end)
       PROVE  IInv'
  <2>1. PICK to \in JourneyStatus : journey' = [journey EXCEPT ![c][j] = to]
    BY <1>13 DEF BeginJourney, EndJourney, JourneyStatus
  <2>2. UNCHANGED <<candidate, old, requisition, associated, request, sweep>>
    BY <1>13 DEF BeginJourney, EndJourney
  <2>3. TypeOK'
    BY <2>1, <2>2 DEF IInv, TypeOK
  <2> QED
    BY <2>2, <2>3, AsideStep
<1>14. CASE UNCHANGED vars
  BY <1>14 DEF vars, rows, IInv, TypeOK, SeenInv, SweepInv
<1> QED
  BY <1>1, <1>2, <1>3, <1>4, <1>5, <1>6, <1>7, <1>8, <1>9, <1>10, <1>11, <1>12, <1>13, <1>14
  DEF Next, Serve

LEMMA Invariant == Spec => []IInv
  BY TypeInit, TypeStep, PTL DEF Spec

(* Recruiting.TypeOK: rows, requests and the job have their types.         *)
THEOREM TypeCorrect == Spec => []TypeOK
<1>1. IInv => TypeOK
  BY DEF IInv
<1> QED
  BY <1>1, Invariant, PTL

(* Recruiting.SweptAreIdle: what the job expires has not been touched      *)
(* since it was selected.                                                  *)
THEOREM SweptCorrect == Spec => SweptAreIdle
<1>1. IInv /\ [Next]_vars =>
        [CommitSweep => \A c \in sweep.chosen : candidate[c] = "ACTIVE" /\ old[c]]_vars
  BY CommitStep
<1> QED
  BY <1>1, Invariant, PTL DEF Spec, SweptAreIdle

LEMMA MachineStep ==
  ASSUME IInv, Next
  PROVE  /\ \A c \in Candidates : candidate'[c] # candidate[c] =>
              IF candidate[c] = "NONE" THEN candidate'[c] = "ACTIVE"
              ELSE candidate'[c] \in VALID_TRANSITIONS[candidate[c]]
         /\ \A q \in Requisitions : requisition'[q] # requisition[q] =>
              IF requisition[q] = "NONE" THEN requisition'[q] = "OPEN"
              ELSE requisition'[q] \in VALID_REQUISITION_TRANSITIONS[requisition[q]]
<1>1. ASSUME NEW r \in Requests, InsertCandidate(r)
      PROVE  UNCHANGED requisition /\ \A c \in Candidates :
               candidate'[c] # candidate[c] => candidate[c] = "NONE" /\ candidate'[c] = "ACTIVE"
  BY <1>1 DEF InsertCandidate, IInv, TypeOK
<1>2. ASSUME NEW r \in Requests, NEW q \in Requisitions, CreateRequisition(r, q)
      PROVE  UNCHANGED candidate /\ \A o \in Requisitions :
               requisition'[o] # requisition[o] =>
                 requisition[o] = "NONE" /\ requisition'[o] = "OPEN"
  BY <1>2 DEF CreateRequisition, IInv, TypeOK
<1>3. CASE CommitSweep
  <2>1. "EXPIRED" \in VALID_TRANSITIONS["ACTIVE"]
    BY DEF VALID_TRANSITIONS
  <2> QED
    BY <1>3, <2>1, CommitStep
<1>4. CASE /\ \A r \in Requests :
                /\ ~ InsertCandidate(r)
                /\ \A q \in Requisitions : ~ CreateRequisition(r, q)
                /\ \A new \in CandidateStatus : ~ MoveCandidate(r, new)
                /\ \A new \in RequisitionStatus : ~ MoveRequisition(r, new)
           /\ ~ CommitSweep
  <2>1. UNCHANGED <<candidate, requisition>>
    BY <1>4 DEF Next, Serve, FindAddressFree, ReadCandidate, FindEligible, GetRequisition,
                FindOpen, ReadRequisition, Associate, Fail, Age, SelectStale, FailSweep,
                BeginJourney, EndJourney, rows
  <2> QED
    BY <2>1
<1> QED
  BY <1>1, <1>2, <1>3, <1>4, MoveCandidateStep, MoveRequisitionStep

(* Recruiting.StatusesFollowMachines: no race takes a candidate or a       *)
(* requisition along a way that its machine does not have.                 *)
THEOREM MachinesCorrect == Spec => StatusesFollowMachines
<1>1. IInv /\ [Next]_vars =>
        [/\ \A c \in Candidates : candidate'[c] # candidate[c] =>
              IF candidate[c] = "NONE" THEN candidate'[c] = "ACTIVE"
              ELSE candidate'[c] \in VALID_TRANSITIONS[candidate[c]]
         /\ \A q \in Requisitions : requisition'[q] # requisition[q] =>
              IF requisition[q] = "NONE" THEN requisition'[q] = "OPEN"
              ELSE requisition'[q] \in VALID_REQUISITION_TRANSITIONS[requisition[q]]]_vars
  BY MachineStep
<1> QED
  BY <1>1, Invariant, PTL DEF Spec, StatusesFollowMachines
=============================================================================
