SPECIFICATION Spec
CONSTANTS
  TimerMax = 3
  TickMax = 4
  TickMs = 3
  DurMax = 8
INVARIANTS
  QueueHoldsActive
  QueueInOrder
  LessThanTwoTicksEarly
