SPECIFICATION FairSpec
CONSTANTS
  Capability = "RF_PLC"
  SweepLen <- SweepLengths
  NeededFrames = 2
  FrameCount = 2
  ListMax = 4
  StreamMax = 4
  ResultMax = 8
  ReadMax = 1
  Modules = {TRUE, FALSE}
  TimersMax = 2
  RfCal <- BothCalibrated
  ConfigFails = FALSE
  Bound <- Clicks
INVARIANT SelectionSound
INVARIANT FlashedAfterAllTests
PROPERTY RunEnds
CHECK_DEADLOCK FALSE
