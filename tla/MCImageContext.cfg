SPECIFICATION Spec
CONSTANTS
  wide = wide
  pixel = pixel
  c1 = c1
  c2 = c2
  Ctxs <- MCCtxs
  Editors <- MCEditors
  Imgs = {i1, i2, i3}
  Null = null
  Files <- MCFiles
  SizeOf <- MCSizeOf
  Aspects <- MCAspects
  Lengths <- MCLengths
  Percents <- MCPercents
SYMMETRY Symmetry
INVARIANTS
  TypeOK
  NoUseAfterFree
  LeakOnlyByReload
  SizeDescribesImage
CHECK_DEADLOCK FALSE
