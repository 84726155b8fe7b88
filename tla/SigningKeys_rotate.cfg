SPECIFICATION Spec
CONSTANTS
  None = None
  Keys = {k1, k2}
  KidOf <- OwnKid
  Admins = {adm1, adm2}
  Signers = {s1}
  Lifetime = 1
  Grace = 2
  WriteLag = 1
  SignLag = 1
  MaxTime = 4
INVARIANTS
  TypeOK
  RotationKeepsTokens
SYMMETRY AdminSymmetry
CHECK_DEADLOCK FALSE
