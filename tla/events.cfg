CONSTANTS
  Events = {e1, e2}
  Contained = {e2}
  Notifying = {e2}
  Retriers = {r1}
  NoEvent = NoEvent
  MaxFaults = 3
  MaxCount = 5
SPECIFICATION HandlersSpec
INVARIANTS OnlyCommittedDispatched EffectsBoundedByFaults NotifyingIsNeverRetried TaskRunsAlone
PROPERTIES ScheduledIsSettled FailedIsEventuallyProcessed
CHECK_DEADLOCK FALSE
