SPECIFICATION RemindersSpec
CONSTANTS
  Candidates = {c1}
  Forms = {f1}
  Requisitions = {j1}
  Questions = {q1}
  Values = {v1}
  NoAnswer = NoAnswer
  Users = {u1}
  Nobody = Nobody
  Requests = {r1}
  Slots = {s1}
  Feedbacks = {k1}
  Texts = {t1}
  NoContent = NoContent
  NoFeedback = NoFeedback
  Editors = {e1}
  Windows = {w1}
  Interviews = {i1, i2}
  MaxActive = 1
  Callers = {a1}
  Ids = {d1}
  People = {p1}
  Resumes = {m1}
  Dsars = {x1}
  Workers = {g1}
  NoOne = NoOne
  Interval = 1
  Window = 12
  MaxAttempts = 3
  MaxFaults = 1
  Parts = {"reminders"}
INVARIANTS RemindersAreTimely DueIsTakenUp
PROPERTY SweepEndsOrHangs
