SPECIFICATION Spec
CONSTANTS
  d1 = d1
  d2 = d2
  u1 = u1
  u2 = u2
  c1 = c1
  c2 = c2
  x = x
  y = y
  Doc = {d1, d2}
  NewId = {n1, n2}
  User = {u1, u2}
  Callsign = {c1, c2}
  Body = {x, y}
  Legacy <- MCLegacy
  None = None
  MaxChanges = 3
  MaxStarts = 3
SYMMETRY MCSymmetry
INVARIANTS TypeOK LogsAreMigrated OneHome
PROPERTIES StartKeepsLogs StartCopiesAll
CHECK_DEADLOCK FALSE
