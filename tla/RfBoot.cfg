SPECIFICATION Spec
CONSTANTS
  CalTryMax = 20
  CalMod = 256
INVARIANTS
  TypeOK
  PrepareAnswered
  SettledInMain
  FlashIsCurrent
  CalibratedHasRegs
  CalibrationMatchesClosedForm
PROPERTIES
  CalibrationKept
  PrepareIsAnswered
