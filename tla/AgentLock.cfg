SPECIFICATION FairSpec
CONSTANTS
  a1 = a1
  a2 = a2
  r1 = r1
  r2 = r2
  Accounts <- MCAccounts
  Primary = a1
  Requests <- MCRequests
  Kinds <- AllKinds
  PromptsExpire = TRUE
  Budget = 2
INVARIANTS ServedUnlockExpires KeysTogether
PROPERTIES NoPlaintextWhileLocked ServedUnlockIsLocked RequestsEnd ImplementsVault
CHECK_DEADLOCK FALSE
