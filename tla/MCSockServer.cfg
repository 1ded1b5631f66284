SPECIFICATION Spec
CONSTANTS
  Workers = {w1, w2}
  Conns = {c1, c2}
  Main = main
  None = none
  Bad = bad
  Inputs <- AllInputs
  Faults <- AllFaults
SYMMETRY Symmetry
INVARIANTS
  TypeOK
  ServeXorListen
  FdOwnership
  QuietWithoutPool
PROPERTIES
  EndsOnce
  UnloopStopsOne
  RaiseIsHandledWhenServing
CHECK_DEADLOCK FALSE
