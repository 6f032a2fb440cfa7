SPECIFICATION Spec
CONSTANTS
  TimerMax = 2
  TickMax = 3
  TickMs = 2
  DurMax = 4
PROPERTIES
  OverflowedTimerExpires
