SPECIFICATION Spec
CONSTANTS
  t1 = t1
  t2 = t2
  Tasks <- MCOneTask
  MaxGen = 2
  MaxToken = 3
  Budget = 2
  RotatingTokens = TRUE
PROPERTIES OnlyRewraps
CHECK_DEADLOCK FALSE
