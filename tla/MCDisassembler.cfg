SPECIFICATION MCSpec
CONSTANTS
  Elem = {x, y}
  NULL = NULL
  MaxCount = 5
  InitialSize = 0
  Key <- MCKey
  SortCount = 5
  W = 3
  Sizes <- MCSizes
  Programs <- MCPrograms
INVARIANTS
  Inv
  BitsAndListing
  SortInv
PROPERTIES
  ImplementsList
  SortEnds
SYMMETRY Symmetry
CONSTRAINT FewStale
