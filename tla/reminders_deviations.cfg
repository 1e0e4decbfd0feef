CONSTANTS
  Slots = {s1, s2}
  Interval = 1
  Window = 4
  MaxAttempts = 3
  MaxFaults = 0
SPECIFICATION Spec

\* Statements that the code does not keep: check one at a time.
PROPERTY CancelledIsNotReminded
\* PROPERTY OneReminder
\* PROPERTY SweepsRecur
