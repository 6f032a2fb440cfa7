SPECIFICATION FairSpec
CONSTANTS
  Size <- MCSize
  Preemptible = FALSE
  FramesMax = 6
INVARIANTS NoFrameLost CountIsPending CurrentIsOldest NoFrameStranded
PROPERTIES ImplementsFairFifo
