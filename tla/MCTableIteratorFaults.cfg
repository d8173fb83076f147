CONSTANTS
  SuffixLen = 1
  WordSize = 256
  Rot = 32
  MinBits = 16
  BlockSize = 72
  BloomEnabled = TRUE
  BitsPerKey = 7
  WideWord = 3
  NarrowWord = 2
  ChecksumLen = 6
  Fingerprint <- mcFingerprint
  Universe <- mcUniverse
  Values <- mcValues
  Wanted <- mcWanted
  Faults = {"seek_to_first", "seek_to_last", "next", "prev", "seek", "seek_for_prev"}
SPECIFICATION Spec
INVARIANT SeekForPrevLands
