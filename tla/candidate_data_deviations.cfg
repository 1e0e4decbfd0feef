CONSTANTS
  Candidates = {d1}
  People = {p1}
  Resumes = {m1}
  Dsars = {x1}
  Workers = {g1, g2}
  NoOne = NoOne
SPECIFICATION Spec

\* Statements that the code does not keep: check one at a time.
INVARIANT ErasureIsComplete
\* INVARIANT ErasureIsPossible
\* INVARIANT DeniedIsKept
\* INVARIANT CreatedIsLinked
