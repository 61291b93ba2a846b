SPECIFICATION Spec
CONSTANTS
  a1 = a1
  a2 = a2
  i1 = i1
  i2 = i2
  p1 = p1
  p2 = p2
  Accounts <- MCAccounts
  None = None
  Ids <- MCIds
  Procs <- MCProcs
  Budget = 2
  Faults = 1
  Reach = 1
INVARIANTS SourcesNeverCycle DesktopCredentialsWork CredentialsMatchConfig
PROPERTIES OnlyRemovalForgets
CHECK_DEADLOCK FALSE
SYMMETRY MCSymmetry
