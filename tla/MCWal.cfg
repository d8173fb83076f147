\* Writes, truncations, crashes and restarts of one WAL file.
SPECIFICATION Spec
CONSTANTS
  a = a
  b = b
  c = c
  d = d
  Entries = {a, b, c, d}
  EmptyKey = {d}
  LongKey = {c}
  Size <- mcSize
  ValueLogFileSize = 3
  MaxHeaderSize = 1
  Zero = Zero
  Garbage = Garbage
  LogRead = LogRead
INVARIANTS TypeOK ReplayExact AckedSurvive RoomUntilFlush PointersReadBack
CHECK_DEADLOCK FALSE
