--------------------------- MODULE SurveyLifecycle ---------------------------
(***************************************************************************)
(* What the survey service promises to those who are asked: a survey is    *)
(* sent once, its link is closed by an answer or by the scheduler and then *)
(* for good, and one sweep of the scheduler, with all it reminds of and    *)
(* all it closes, is a single step that reminds of no survey a second      *)
(* time.  There are no tokens, sessions, requests or faults.               *)
(***************************************************************************)
CONSTANT Journeys

VARIABLES
  sent,      (* journeys whose survey has been sent                        *)
  open,      (* those of them whose link can be answered                   *)
  answered,  (* those with an answer                                       *)
  reminded   (* those that have been reminded of                           *)

vars == <<sent, open, answered, reminded>>

Init == sent = {} /\ open = {} /\ answered = {} /\ reminded = {}

Send(j) ==
  /\ j \notin sent
  /\ sent' = sent \cup {j}
  /\ open' = open \cup {j}
  /\ UNCHANGED <<answered, reminded>>

(* A request that found the link open may answer after it was closed.      *)
Answer(j) ==
  /\ j \in sent
  /\ open' = open \ {j}
  /\ answered' = answered \cup {j}
  /\ UNCHANGED <<sent, reminded>>

Sweep(due, overdue) ==
  /\ reminded' = reminded \cup due
  /\ open' = open \ overdue
  /\ UNCHANGED <<sent, answered>>

Next ==
  \/ \E j \in Journeys : Send(j) \/ Answer(j)
  \/ \E due \in SUBSET (sent \ reminded), overdue \in SUBSET sent : Sweep(due, overdue)

Spec == Init /\ [][Next]_vars
=============================================================================
