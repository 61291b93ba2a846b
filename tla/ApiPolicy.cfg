CONSTANTS
  Clis = {p1, p2}
  Requests = {r1}
  Clients = {c1}
  Accounts = {a1, a2}
  Fields = {f1, f2}
  None = None
  NoPolicy = NoPolicy
  Nobody = Nobody
  Budget = 4
SPECIFICATION PolicySpec
INVARIANTS PolicyIsWhatWasGranted ServedWasGranted ClientsHaveKeys
SYMMETRY Symmetry
CHECK_DEADLOCK FALSE
