CONSTANTS
  Callsign = {"own", "club", "other"}
  Operator = "own"
  Station = "club"
  NoCall = "none"
  SetupCall = {"none", "club", "other"}
  Identity <- MCIdentity
  Recent = 1
  MaxContacts = 2
  MaxMoves = 1
  MaxAmends = 1
  MaxFaults = 1
SPECIFICATION FairSpec
INVARIANTS TypeOK OneOutcome SkippedForAReason NeverAnEarlierNote
PROPERTIES ImportsOwnContacts PendingIsSettled
CHECK_DEADLOCK FALSE
