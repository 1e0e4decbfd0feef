SPECIFICATION RecordsSpec
CONSTANTS
  Candidates = {c1}
  Forms = {f1}
  Requisitions = {j1}
  Questions = {q1, q2}
  Values = {v1}
  NoAnswer = NoAnswer
  Users = {u1, u2}
  Nobody = Nobody
  Requests = {r1, r2}
  Slots = {s1}
  Feedbacks = {k1, k2}
  Texts = {t1, t2}
  NoContent = NoContent
  NoFeedback = NoFeedback
  Editors = {e1, e2}
  Windows = {w1, w2, w3}
  Interviews = {i1, i2}
  MaxActive = 1
  Callers = {a1, a2}
  Ids = {d1, d2}
  People = {p1}
  Resumes = {m1}
  Dsars = {x1}
  Workers = {g1, g2}
  NoOne = NoOne
  Interval = 1
  Window = 12
  MaxAttempts = 3
  MaxFaults = 1
  Parts = {"questionnaires", "feedback", "availability", "data"}
SYMMETRY Symmetry
INVARIANTS SubmittedIsComplete ActiveOverrunIsBounded CompletedErasureIsDone CompletedIsApplied
PROPERTIES SubmittedIsFinal ReplacedWasSeen SubmittedIsAsRead CascadeHitsScheduled
