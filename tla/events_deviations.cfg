CONSTANTS
  Events = {e1, e2}
  Contained = {e2}
  Notifying = {e2}
  Retriers = {r1, r2}
  NoEvent = NoEvent
  MaxFaults = 0
  MaxCount = 4
SPECIFICATION HandlersSpec

CHECK_DEADLOCK FALSE

\* Statements that the code does not keep: check one at a time.
INVARIANT NotifiedWhenPresent
\* PROPERTY RetriesOnlyFailed
\* PROPERTY PendingIsEventuallyDispatched
\* INVARIANT ErrorsCountRaised
\* INVARIANT ProcessedWasDelivered
