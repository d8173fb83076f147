\* Puts racing each other: every interleaving of two writers, each of
\* which goes on to the end of its put.
SPECIFICATION FairSpec
CONSTANTS
  Writers = {w1, w2}
  Readers = {}
  Keys = {1, 2}
  Vals = {v1, v2}
  NoVal = NoVal
  UserKey <- mcUserKey
  MaxHeight = 3
  ArenaCap = 3
INVARIANTS TypeOK AssertionsHold ListWellFormed DroppedOnce
PROPERTIES InsertOnly PutReturns
CHECK_DEADLOCK FALSE
