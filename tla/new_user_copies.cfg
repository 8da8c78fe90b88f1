SPECIFICATION Spec
CONSTANTS
  Proc = {p1}
  QsoId = {1, 2, 3}
  Call = {"W1AW"}
  Date <- MCDate
  Time <- MCTime
  DayLength = 10
  Batches <- MCBatches
  Updates <- MCUpdates
  Absent = Absent
  Keep = Keep
  Garbled = Garbled
  Empty = Empty
  Text = Text
  ClientUtc = {Text}
  Canonical <- MCCanonical
  Indexed = FALSE
  MaxRecords = 2
  MaxEdits = 0
  MaxClears = 0
  MaxFaults = 0
INVARIANT NoExactDuplicates
CHECK_DEADLOCK FALSE
