--------------------------- MODULE JourneyStages ---------------------------
(***************************************************************************)
(* The stages of an interview journey and the transitions the service      *)
(* permits between them: the tables of app/modules/journeys/service.py.    *)
(***************************************************************************)

(* VALID_TRANSITIONS: for each stage the stages it may be followed by.     *)
VALID_TRANSITIONS ==
  [SOURCED          |-> {"RECRUITER_SCREEN", "REJECTED", "WITHDRAWN"},
   RECRUITER_SCREEN |-> {"MANAGER_SCREEN", "REJECTED", "WITHDRAWN"},
   MANAGER_SCREEN   |-> {"LOOP_INTERVIEW", "REJECTED", "WITHDRAWN"},
   LOOP_INTERVIEW   |-> {"PANEL_REVIEW", "REJECTED", "WITHDRAWN"},
   PANEL_REVIEW     |-> {"OFFER_PENDING", "REJECTED", "WITHDRAWN"},
   OFFER_PENDING    |-> {"OFFER_EXTENDED", "REJECTED", "WITHDRAWN"},
   OFFER_EXTENDED   |-> {"OFFER_ACCEPTED", "OFFER_DECLINED", "WITHDRAWN"},
   REJECTED         |-> {},
   OFFER_DECLINED   |-> {},
   OFFER_ACCEPTED   |-> {},
   WITHDRAWN        |-> {}]

Stages ==
  {"SOURCED", "RECRUITER_SCREEN", "MANAGER_SCREEN", "LOOP_INTERVIEW",
   "PANEL_REVIEW", "OFFER_PENDING", "OFFER_EXTENDED", "REJECTED",
   "OFFER_DECLINED", "OFFER_ACCEPTED", "WITHDRAWN"}

TERMINAL_STAGES == {"REJECTED", "OFFER_DECLINED", "OFFER_ACCEPTED", "WITHDRAWN"}

(* The stages whose entry from LOOP_INTERVIEW asks for a feedback survey.  *)
SurveyStages ==
  {"PANEL_REVIEW", "OFFER_PENDING", "OFFER_EXTENDED", "OFFER_ACCEPTED",
   "OFFER_DECLINED", "REJECTED", "WITHDRAWN"}

Permitted(from, to) == to \in VALID_TRANSITIONS[from]

AsksInEveryStage(from, to) == to \in SurveyStages  (* mutation: from anywhere *)

AsksForSurvey(from, to) == from = "LOOP_INTERVIEW" /\ to \in SurveyStages
=============================================================================
