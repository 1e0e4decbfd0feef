CONSTANTS
  Journeys = {j1}
  Requests = {r1, r2}
SPECIFICATION Spec
CHECK_DEADLOCK FALSE

\* Statements that the code does not keep: check one at a time.
PROPERTY StaleIsConflict
\* PROPERTY CommittedIsAnsweredOk
