\* One writer, one reader, three versioned keys: every read is linearizable
\* and returns.
SPECIFICATION FairSpec
CONSTANTS
  Writers = {w1}
  Readers = {r1}
  Keys = {1, 2, 3}
  Vals = {v1}
  NoVal = NoVal
  UserKey <- mcUserKey
  MaxHeight = 2
  ArenaCap = 4
PROPERTIES Linearizable ReadReturns
CHECK_DEADLOCK FALSE
