CONSTANTS
  Universe = {2, 4, 6, 8}
  Wanted = {1, 2, 3, 4, 5, 6, 7, 8, 9}
  Failures = {{}, {"left"}, {"right"}, {"left", "right"}}
SPECIFICATION Spec
INVARIANTS TypeOK LeftWins ChildrenNotMisused
PROPERTIES IsSortedCursor OthersGoOn
