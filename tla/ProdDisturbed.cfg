SPECIFICATION Spec
CONSTANTS
  Capability = "RF_PLC"
  SweepLen <- OneEntry
  NeededFrames = 1
  FrameCount = 1
  ListMax = 2
  StreamMax = 2
  ResultMax = 6
  ReadMax = 2
  Modules = {TRUE, FALSE}
  TimersMax = 2
  RfCal <- Uncalibrated
  ConfigFails = TRUE
  Bound <- Disturbed
INVARIANT TypeOK
INVARIANT SelectionSound
CHECK_DEADLOCK FALSE
