CONSTANTS
  Journeys = {j1}
  Requests = {r1}
  Clients = {c1}
  MaxFaults = 1
SPECIFICATION FairSpec
INVARIANT SurveyFollowsLoop
PROPERTY QueuedTaskMakesSurvey
CHECK_DEADLOCK FALSE
