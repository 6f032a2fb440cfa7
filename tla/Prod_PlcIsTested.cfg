SPECIFICATION Spec
CONSTANTS
  Capability = "RF_PLC"
  SweepLen <- SweepLengths
  NeededFrames = 2
  FrameCount = 2
  ListMax = 4
  StreamMax = 4
  ResultMax = 8
  ReadMax = 1
  Modules = {TRUE, FALSE}
  TimersMax = 2
  RfCal <- BothCalibrated
  ConfigFails = FALSE
  Bound <- OneClick
INVARIANT PlcIsTested
CHECK_DEADLOCK FALSE
