SPECIFICATION Spec
CONSTANTS
  Candidates = {c1}
  Requisitions = {q1}
  Journeys = {j1, j2}
  Requests = {r1, r2}
PROPERTIES StatusesFollowMachines SweptAreIdle StaleIsExpired
