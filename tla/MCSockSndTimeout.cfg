SPECIFICATION Spec
CONSTANTS
  Sizes <- MCSizes
  Default = 1
  Signals = {hup, term}
INVARIANT SndTimeoutInForce
CHECK_DEADLOCK FALSE
