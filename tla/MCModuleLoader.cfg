SPECIFICATION Spec
CONSTANTS
  a = a
  b = b
  x = x
  f = f
  Names <- MCNames
  Loadable <- MCLoadable
  Methods <- MCMethods
  Exports <- MCExports
  Mods = {m1, m2, m3}
  Null = null
SYMMETRY Symmetry
INVARIANTS
  TypeOK
  NoUseAfterFree
  TableAgrees
CHECK_DEADLOCK FALSE
