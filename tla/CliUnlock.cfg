SPECIFICATION FairSpec
CONSTANTS
  a1 = a1
  a2 = a2
  p1 = p1
  p2 = p2
  Accounts <- MCAccounts
  NoSource = NoSource
  Source <- MCSource
  Procs <- MCProcs
  Own <- MCMinors
  Nobody = Nobody
  Kinds <- MCKinds
  FirstAgents = {20, 31}
  FirstLogins <- MCLogins
  Budget = 2
INVARIANTS LocksFollowSources OneUnlockAtATime
PROPERTIES CommandsEnd
CHECK_DEADLOCK FALSE
