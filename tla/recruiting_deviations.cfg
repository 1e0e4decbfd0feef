SPECIFICATION Spec
CONSTANTS
  Candidates = {c1}
  Requisitions = {q1}
  Journeys = {j1}
  Requests = {r1, r2}

\* Statements that the code does not keep: check one at a time.
PROPERTY SweptHaveNoJourney
\* PROPERTY UpdatesAreFresh
\* PROPERTY AssociatesEligible
\* PROPERTY OnlyTheJobExpires
