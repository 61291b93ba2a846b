SPECIFICATION Spec
CONSTANTS
  a1 = a1
  t1 = t1
  t2 = t2
  Accounts <- MCAccounts
  AccountList <- MCList
  Tasks <- MCTasks
  PeriodicSync = TRUE
  None = None
  MaxRev = 1
INVARIANT HearsItsServer
