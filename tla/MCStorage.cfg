SPECIFICATION Spec
SYMMETRY Symmetric
CONSTANTS
  Addresses = {a1, a2, a3, a4, a5}
  Null = Null
  Storages = {interpreter, execute}
  CellSize = 2
  Overhead = 1
  PageSize = 3
  StorageSize = 1
  BlockSizes = {0, 1}
  Requests = {1, 3, 7}
INVARIANT ChainIsExact
INVARIANT DumpIsExact
INVARIANT ObjectsAreApart
INVARIANT NothingIsLost
PROPERTY DamageIsCaught
