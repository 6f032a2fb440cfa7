SPECIFICATION Spec
CONSTANTS
  Client = {DUT, REF}
  StreamMax = 2
  OddMax = 2
CHECK_DEADLOCK FALSE
INVARIANTS UndisturbedNeverDeadlocks DeadlockHasTwoShapes
PROPERTIES HandlersEnd
