--------------------------- MODULE MCInterviewSlots ---------------------------
(* A small instance of InterviewSlots: one interviewer with three slots on *)
(* a day, and a slot without an interviewer.                               *)
EXTENDS InterviewSlots, TLC

CONSTANTS s1, s2, s3, s4, i1

Book(i, start) ==
  [interviewer |-> i, type |-> "TECHNICAL", start |-> start, end |-> start + 1,
   midnight |-> 0, monday |-> 0]

MCBooking == s4 :> Book(NoOne, 0) @@ [s \in {s1, s2, s3} |-> Book(i1, 1)]

MCLimits(day, week) == [types |-> {"TECHNICAL"}, perDay |-> day, perWeek |-> week]

MCDefault == MCLimits(1, 1)

(* Each raises one limit, so that the other is the one that is met.        *)
MCPreferences == {MCLimits(1, 2), MCLimits(2, 1)}

Symmetry == Permutations({s1, s2, s3}) \cup Permutations(Requests)
=============================================================================
