CONSTANTS
  Journeys = {j1}
  Clients = {c1, c2}
  MaxFaults = 0
SPECIFICATION Spec
CHECK_DEADLOCK FALSE

\* Statements that the code does not keep: check one at a time.
INVARIANT AtMostOneResponse
\* INVARIANT ExpiredWasNotAnswered
\* PROPERTY ClosedSurveyIsGone
\* PROPERTY NoReminderForExpired
