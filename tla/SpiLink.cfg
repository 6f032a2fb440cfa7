SPECIFICATION FairSpec
CONSTANTS
  HostMax = 3
  SlaveMax = 3
  TriesMax = 1
  StopsMax = 1
  FailsMax = 1
CHECK_DEADLOCK FALSE
INVARIANTS NothingLostUnlessMet DeliveredOnceInOrder MuteOnlyAfterMeeting DrainNeedsHost
PROPERTIES HostGetsThrough
