SPECIFICATION Spec
CONSTANTS
  Texts = {t1, t2}
  Bufs = {b1, b2}
  Null = null
  Lens <- MCLens
  MaxSize = 2
  MaxReqs = 2
SYMMETRY Symmetry
INVARIANT GetIsGet
CHECK_DEADLOCK FALSE
