SPECIFICATION Spec
CONSTANTS
  Pages = 2
  PageLen = 6
  CacheLen = 4
  Block = 2
  MinLen = 2
  Ranges <- MCRanges
  MaxWrites = 3
  MaxErases = 2
  MaxFaults = 2
  MaxLosses = 1
INVARIANTS
  TypeOK
PROPERTIES
  ImplementsPageStore
