CONSTANTS
  Slots = {s1}
  Feedbacks = {k1, k2}
  Contents = {t1, t2}
  NoContent = NoContent
  NoFeedback = NoFeedback
  Editors = {e1}
SPECIFICATION Spec

\* Statements that the code does not keep: check one at a time.
PROPERTY SubmittedIsFrozen
\* PROPERTY DraftHasTask
