CONSTANTS
  Journeys = {j1, j2}
  Requests = {r1}
  Clients = {c1, c2}
  MaxFaults = 1
SPECIFICATION SurveysSpec
INVARIANTS LinkLivesWithSurvey RemindedOnce AnswersAreBounded
PROPERTIES OverdueIsClosed DueIsReminded ImplementsSurveyLifecycle
CHECK_DEADLOCK FALSE
