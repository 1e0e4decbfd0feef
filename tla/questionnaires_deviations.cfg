CONSTANTS
  Candidates = {c1}
  Forms = {f1, f2}
  Requisitions = {j1}
  Questions = {q1}
  Values = {v1, v2}
  NoAnswer = NoAnswer
  Users = {u1}
  Nobody = Nobody
  Requests = {r1, r2}
SPECIFICATION Spec

\* Statements that the code does not keep: check one at a time.
INVARIANT OneLiveToken
\* INVARIANT OfferIsPossible
\* PROPERTY SubmittedIsFrozen
