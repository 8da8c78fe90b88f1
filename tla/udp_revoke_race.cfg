SPECIFICATION Spec
CONSTANTS
  u1 = u1
  u2 = u2
  t1 = t1
  User = {u1, u2}
  Token = {t1}
  Task = {d1, d2}
  Owner <- MCOwner
  NoUser = NoUser
  NoToken = NoToken
  Stranger = Stranger
  MaxChanges = 1
  MaxFaults = 0
SYMMETRY TaskSymmetry
INVARIANT RevocationReaches
CHECK_DEADLOCK FALSE
