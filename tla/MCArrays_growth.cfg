SPECIFICATION Spec
CONSTANTS
  Values = {null, a, b}
  Null = null
  Junk = junk
  ArrayAllocSize = 2
  InitialSizes = {0, 3}
  Sizes = {0, 1, 2, 3, 4, 5, 6}
  MaxGrowth = 4
  MaxSize = 4
INVARIANT CellsFit
