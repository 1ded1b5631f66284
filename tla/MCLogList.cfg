SPECIFICATION Spec
CONSTANTS
  Threads = {t1, t2, t3}
  Items = {i1, i2, i3}
  Logs = {l1, l2}
  Null = null
SYMMETRY Symmetry
INVARIANTS
  TypeOK
  SerialInOrder
  OutputEnds
  CrashOnlyIfEarly
CHECK_DEADLOCK FALSE
