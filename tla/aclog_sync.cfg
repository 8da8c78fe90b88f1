SPECIFICATION Spec
CONSTANTS
  Callsign = {"own", "club", "other"}
  Operator = "own"
  Station = "club"
  NoCall = "none"
  SetupCall = {"none", "club"}
  MyCall <- MCMyCall
  Op <- MCOp
  Minute <- MCMinute
  Sync = {s1, s2}
  Live = live
  MaxContacts = 2
  MaxMoves = 1
  MaxSyncs = 2
  MaxFaults = 1
SYMMETRY SyncSymmetry
INVARIANTS TypeOK OnlyMissingImported ReportIsTrue
CHECK_DEADLOCK FALSE
