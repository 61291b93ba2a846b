SPECIFICATION TuiFairSpec
CONSTANTS
  a1 = a1
  a2 = a2
  Nothing = Nothing
  Accounts <- MCAccounts
  Target = a1
  Keys <- MCTwoKeys
  First <- MCFirst
  Broken <- MCNone
  Proactive <- MCProactive
  MaxRev = 3
  MaxOthers = 2
PROPERTIES DeletesWhatWasConfirmed SavesReplaceWhatWasSeen SecretsLeave
