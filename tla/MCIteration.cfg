SPECIFICATION IterationSpec
CONSTANTS
  Values = {null, a}
  Null = null
  Junk = junk
  ArrayAllocSize = 2
  InitialSizes = {0, 3}
  Sizes = {0, 1, 2, 3, 4, 5, 6}
  MaxGrowth = 2
  MaxSize = 4
  MaxChanges = 2
  MaxLoopSize = 3
INVARIANT IterationTypeOK
INVARIANT CellsFit
PROPERTY PromiseKept
PROPERTY EachElementOnce
PROPERTY IterationEnds
