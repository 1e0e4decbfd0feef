SPECIFICATION Spec
CONSTANTS
  Candidates = {c1, c2}
  Requisitions = {q1}
  Journeys = {j1}
  Requests = {r1}
PROPERTIES StatusesFollowMachines SweptAreIdle StaleIsExpired
