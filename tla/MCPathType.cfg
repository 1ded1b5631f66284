SPECIFICATION Spec
CONSTANTS
  Names = {p, q}
  MaxLinks = 2
  MaxArgs = 1
INVARIANT
  LinkIsFound
CHECK_DEADLOCK FALSE
