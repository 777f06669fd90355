SPECIFICATION Spec
CONSTANTS
  Depth = 3
  Index <- MCIndex
  Item = {0, 1, 2}
  DefaultItem = 0
  NoRef = NoRef
INVARIANTS
  TypeOK
  StoredHashesExact
  PathsOpenRoot
  CacheExact
  RootsEqual
