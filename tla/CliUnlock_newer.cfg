SPECIFICATION Spec
CONSTANTS
  a1 = a1
  a2 = a2
  p1 = p1
  p2 = p2
  Accounts <- MCAccounts
  NoSource = NoSource
  Source <- MCSource
  Procs <- MCProcs
  Own <- MCMajors
  Nobody = Nobody
  Kinds <- MCKinds
  FirstAgents = {20}
  FirstLogins <- MCLogins
  Budget = 2
PROPERTIES NewerAgentStays
CHECK_DEADLOCK FALSE
