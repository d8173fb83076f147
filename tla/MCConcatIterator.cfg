CONSTANTS
  SuffixLen = 1
  WordSize = 256
  Rot = 32
  MinBits = 16
  BlockSize = 72
  BloomEnabled = TRUE
  BitsPerKey = 7
  WideWord = 3
  NarrowWord = 2
  ChecksumLen = 6
  Fingerprint <- mcFingerprint
  Levels <- mcLevels
  Wanted <- mcWanted
  Faults = {"rewind", "seek"}
SPECIFICATION Spec
INVARIANT TypeOK
PROPERTY IsSortedCursor
