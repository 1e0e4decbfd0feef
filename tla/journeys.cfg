CONSTANTS
  Journeys = {j1}
  Requests = {r1, r2}
SPECIFICATION Spec
INVARIANT OutboxTellsHistory
PROPERTY ImplementsLifecycle
