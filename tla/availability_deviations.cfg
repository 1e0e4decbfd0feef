CONSTANTS
  Candidates = {c1}
  Windows = {w1, w2}
  Interviews = {i1}
  MaxActive = 1
  Callers = {a1, a2}
SPECIFICATION Spec

\* Statements that the code does not keep: check one at a time.
INVARIANT LimitIsKept
\* PROPERTY CancelledIsClear
