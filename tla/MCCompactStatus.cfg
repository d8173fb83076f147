CONSTANTS
  MaxUserKey = 3
  MaxTs = 1
  Compactors = {c1, c2, c3}
  Tables = {1, 2, 3, 4, 5, 6}
  LevelOf <- mcLevelOf
  Smallest <- mcSmallest
  Biggest <- mcBiggest
  Sizes = {1, 2}
  NumLevels = 3
SPECIFICATION Spec
SYMMETRY Symmetry
INVARIANTS TypeOK NoPanic RegistryExact DelSizeExact VersionsTogether
PROPERTY EmptyRangeLocksLevel
