CONSTANTS
  Clis = {p1}
  Vaults = {a, b}
  Users = {u, v}
  NoEntry = NoEntry
  Shared = TRUE
  MaxEntries = 3
  MaxChanges = 1
  Faults = 1
SPECIFICATION MoveSpec
SYMMETRY MCSymmetry
INVARIANTS MovesBringAttachments
CHECK_DEADLOCK FALSE
