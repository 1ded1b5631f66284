SPECIFICATION Spec
CONSTANTS
  Bytes = 1
  NAllocs <- MCNAllocs
  Lens <- MCLens
  MaxSize = 6
  SizeMod = 64
INVARIANTS
  TypeOK
  InBounds
  StringReadable
  TextInBlock
PROPERTY ImplementsText
CHECK_DEADLOCK FALSE
