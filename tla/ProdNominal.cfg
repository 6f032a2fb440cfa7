SPECIFICATION Spec
CONSTANTS
  Capability = "RF_PLC"
  SweepLen <- SweepLengths
  NeededFrames = 2
  FrameCount = 2
  ListMax = 4
  StreamMax = 4
  ResultMax = 8
  ReadMax = 2
  Modules = {TRUE, FALSE}
  TimersMax = 2
  RfCal <- BothCalibrated
  ConfigFails = FALSE
  Bound <- TwoRuns
INVARIANT OneBoardAtATime
INVARIANT ResultsAreOwn
INVARIANT ReceiverFirst
INVARIANT NoCrash
PROPERTY ImplementsRun
CHECK_DEADLOCK FALSE
