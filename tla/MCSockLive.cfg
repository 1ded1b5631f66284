SPECIFICATION FairSpec
CONSTANTS
  Workers = {w1, w2}
  Conns = {c1, c2}
  Main = main
  None = none
  Bad = bad
  Inputs <- DataOnly
  Faults <- NoFaults
PROPERTIES
  SignalledStops
  UnloopCompletes
  WaitingIsAccepted
CHECK_DEADLOCK FALSE
