SPECIFICATION FairSpec
CONSTANTS
  Capability = "RF_PLC"
  SweepLen <- SweepLengths
  NeededFrames = 2
  FrameCount = 2
  ListMax = 4
  StreamMax = 4
  ResultMax = 8
  ReadMax = 1
  Modules = {FALSE}
  TimersMax = 2
  RfCal <- Uncalibrated
  ConfigFails = FALSE
  Bound <- OneRun
PROPERTY RunEnds
CHECK_DEADLOCK FALSE
