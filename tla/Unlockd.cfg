SPECIFICATION FairSpec
CONSTANTS
  c1 = c1
  c2 = c2
  p1 = p1
  p2 = p2
  Conns <- MCConns
  Passwords <- MCPasswords
  Nothing = Nothing
  Unknown = Unknown
  Nobody = Nobody
  FreeFailures = 1
  MaxLockout = 2
  MaxCount = 3
  Budget = 3
INVARIANTS AckedIsServed OverrunBounded
PROPERTIES OnlyRemovalForgets RequestsEnd
CHECK_DEADLOCK FALSE
