\* Three requests at once, the session lapsing and answers lost at any moment.
SPECIFICATION EngineSpec
CONSTANTS
  Request = {r1, r2, r3}
  MaxPumps = 3
INVARIANTS
  AnswersTheHead
  OneSessionEvent
PROPERTIES
  EveryRequestAnswered
  QueueSpec
