SPECIFICATION FairSpec
CONSTANTS
  t1 = t1
  t2 = t2
  Tasks <- MCTasks
  MaxGen = 2
  MaxToken = 2
  Budget = 2
  RotatingTokens = TRUE
INVARIANTS KdfFitsKey VaultReadable LiveSessionIsCurrent
PROPERTIES Converges
CHECK_DEADLOCK FALSE
