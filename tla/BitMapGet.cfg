SPECIFICATION MCSpec
CONSTANTS
  Elem = {x, y}
  NULL = NULL
  MaxCount = 5
  InitialSize = 0
  Key <- MCKey
  SortCount = 1
  W = 3
  Sizes <- MCSizes
  Programs <- MCPrograms
INVARIANT GetExact
CONSTRAINT FewStale
