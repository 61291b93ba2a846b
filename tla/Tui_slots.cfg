SPECIFICATION TuiSpec
CONSTANTS
  a1 = a1
  a2 = a2
  Nothing = Nothing
  Accounts <- MCAccounts
  Target = a1
  Keys <- MCKeys
  First <- MCKeys
  Broken <- MCBroken
  Proactive <- MCProactive
  MaxRev = 3
  MaxOthers = 0

PROPERTIES DeletesWhatWasConfirmed
