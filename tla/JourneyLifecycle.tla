-------------------------- MODULE JourneyLifecycle --------------------------
(***************************************************************************)
(* What a client of the journey service is promised: a journey starts in   *)
(* SOURCED, moves one permitted transition at a time, and the step that    *)
(* accepts the offer is the one that completes the journey and seals the   *)
(* link to its candidate.  There are no requests, versions or sessions.    *)
(***************************************************************************)
EXTENDS JourneyStages

CONSTANT Journeys

VARIABLES
  stage,      (* "NONE" until the journey is created                       *)
  completed,  (* journeys whose overall status is COMPLETED                *)
  sealed      (* journeys whose join record is encrypted                   *)

vars == <<stage, completed, sealed>>

Init ==
  /\ stage = [j \in Journeys |-> "NONE"]
  /\ completed = {}
  /\ sealed = {}

Create(j) ==
  /\ stage[j] = "NONE"
  /\ stage' = [stage EXCEPT ![j] = "SOURCED"]
  /\ UNCHANGED <<completed, sealed>>

Advance(j, to) ==
  /\ stage[j] # "NONE"
  /\ Permitted(stage[j], to)
  /\ stage' = [stage EXCEPT ![j] = to]
  /\ completed' = IF to = "OFFER_ACCEPTED" THEN completed \cup {j} ELSE completed
  /\ sealed' = IF to = "OFFER_ACCEPTED" THEN sealed \cup {j} ELSE sealed

Next == \E j \in Journeys : Create(j) \/ \E to \in Stages : Advance(j, to)

Spec == Init /\ [][Next]_vars
=============================================================================
