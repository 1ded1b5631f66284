SPECIFICATION Spec
CONSTANTS
  Texts = {t1, t2}
  Bufs = {b1, b2}
  Null = null
  Lens <- MCLens
  MaxSize = 3
  MaxReqs = 2
SYMMETRY Symmetry
INVARIANTS
  TypeOK
  QueryAsSet
  ReceivedInOrder
CHECK_DEADLOCK FALSE
