SPECIFICATION Spec
CONSTANTS
  MaxObjects = 3
  MaxStack = 1
  MaxEnvs = 1
  ArraySizes = {0, 1}
  MaxMembers = 1
  StringLengths = {1}
  Threshold = 3
  ArrayAllocSize = 1
INVARIANT TypeOK
INVARIANT NothingInUseIsFreed
INVARIANT ListIsExact
INVARIANT SizeIsExact
PROPERTY GarbageIsFreed
PROPERTY PromiseKept
PROPERTY MarkingEnds
