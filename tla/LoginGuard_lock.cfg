SPECIFICATION Spec
CONSTANTS
  None = None
  Attempts = {a1, a2, a3, a4}
  Accounts = {u1}
  Addresses = {i1}
  AddressLimit = 2
  AddressWindow = 2
  FailureLimit = 2
  FailureWindow = 2
  LockTime = 2
  Lag = 1
  MaxTime = 3
INVARIANTS
  TypeOK
  OnlyTheDeadCountForEver
  LockIsEarned
  LockHolds
  TwiceTheLimit
SYMMETRY Symmetry
CHECK_DEADLOCK FALSE
