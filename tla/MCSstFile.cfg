CONSTANTS
  Paths = {p}
  Files = {f1, f2}
  Tables = {t1, t2}
  MaxRefs = 2
  Modes = {"NoVerification", "OnTableRead", "OnBlockRead", "OnTableAndBlockRead"}
  NumBlocks = 2
  BlockLen = 16
  SumLen = 2
  Count = 1
  OtherFields <- MCOtherFields
  None = None
SPECIFICATION Spec
INVARIANTS TypeOK DiskMatchesFate DropFindsFile NoGarbage
SYMMETRY Symmetry
VIEW View
