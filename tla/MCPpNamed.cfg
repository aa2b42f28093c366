SPECIFICATION NamedSpec
CONSTANTS
  Objects = {o1, o2, o3, o4, o5}
  NoObject = none
  HashValues = {9, 10, 24, 35}
  InitialSize = 11
  LowWaterMark = 2
  HighWaterMark = 25
  Names <- FiveNames
  InitialCapacity = 2
  MaxRefcount = 2
SYMMETRY Entries
INVARIANT ListedInOrder
PROPERTIES SetSpec NothingFreed
