CONSTANTS
  Journeys = {j1}
  Requests = {r1}
  Clients = {c1}
  MaxFaults = 0
SPECIFICATION FairSpec
PROPERTY LeavingLoopMakesSurvey
CHECK_DEADLOCK FALSE
