SPECIFICATION Spec
CONSTANTS
  r1 = r1
  r2 = r2
  Rows <- MCRows
  Pages <- AllPages
  Clicks = 2
  MaxSends <- MCSends
  MaxBusy = 1
  MaxFails = 1
  MaxForeign = 0
  Timed = {}
  MaxPolls = 0
  MaxTags = 9
SYMMETRY RowSymmetry
INVARIANTS
  TypeOK
  FlagHeld
  SingleFlight
  SettledShowsQuery
  OwnWritesShown
  FormOwner
  DetailOfSelection
  NoMixedRow
  RowMarked
CHECK_DEADLOCK FALSE
