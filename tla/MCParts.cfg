SPECIFICATION Spec
CONSTANTS
  x = x
  y = y
  nul = nul
  stray = stray
  Sizes <- MCSizes
  Default = 1
  Signals = {hup, term}
  Chunk = 2
  Letters = {x}
  Nul = nul
  Stray = stray
  MaxFile = 2
  MaxRuns = 2
  MaxOutput = 2
  Names = {p, q}
  MaxLinks = 2
  MaxArgs = 2
  Scale = 16
  Coords <- MCCoords
  Degree = 57
  CharBits = 3
  HashSize = 2
  Clues = {k1, k2}
  Texts <- MCTexts
  BlockSize = 2
  IVSize = 2
  GivenIVs <- MCGivenIVs
  MaxCalls = 2
  ByteBits = 3
  Bytes = 2
INVARIANTS
  TypeOK
  NothingLeftOpen
  DataAsWritten
  PathsAsTold
  ConversionsAsTold
PROPERTY
  Returns
CHECK_DEADLOCK FALSE
