CONSTANTS
  Clis = {p1, p2}
  Vaults = {a, b}
  Users = {u, v}
  NoEntry = NoEntry
  Shared = TRUE
  MaxEntries = 4
  MaxChanges = 2
  Faults = 2
SPECIFICATION MoveSpec
SYMMETRY MCSymmetry
INVARIANTS NothingLost CopiesAreWhole
CHECK_DEADLOCK FALSE
