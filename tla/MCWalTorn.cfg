\* What the iterator returns after a write that was cut off.
SPECIFICATION Spec
CONSTANTS
  a = a
  b = b
  c = c
  d = d
  Entries = {a, b, c, d}
  EmptyKey = {d}
  LongKey = {c}
  Size <- mcSize
  ValueLogFileSize = 3
  MaxHeaderSize = 1
  Zero = Zero
  Garbage = Garbage
  LogRead = LogRead
INVARIANT StopsAtCorrupted
CHECK_DEADLOCK FALSE
