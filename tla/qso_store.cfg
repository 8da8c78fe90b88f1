SPECIFICATION Spec
CONSTANTS
  Proc = {p1, p2}
  QsoId = {1, 2, 3}
  Call = {"W1AW"}
  Date <- MCDate
  Time <- MCTime
  DayLength = 10
  Batches <- MCBatches
  Updates <- MCUpdates
  Absent = Absent
  Keep = Keep
  Garbled = Garbled
  Empty = Empty
  Text = Text
  ClientUtc = {Text}
  Canonical <- MCCanonical
  Indexed = TRUE
  MaxRecords = 3
  MaxEdits = 2
  MaxClears = 1
  MaxFaults = 1
CONSTRAINT FewDisturbances
SYMMETRY ProcSymmetry
INVARIANTS TypeOK FieldsFresh NoExactDuplicates NearDuplicateOnlyByRace AcceptedIsKept VerdictsJustified
PROPERTIES KeepsContract DeleteRefusedOnlyByTwin
CHECK_DEADLOCK FALSE
