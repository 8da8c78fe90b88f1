CONSTANTS
  b1 = b1
  b2 = b2
  s1 = s1
  s2 = s2
  t1 = t1
  t2 = t2
  t3 = t3
  Bridge <- MCBridge
  Signature <- MCSignature
  Off = Off
  Task <- MCTask
  NoTask = NoTask
  MaxEdits = 2
  MaxFaults = 1
SPECIFICATION FairSpec
INVARIANTS TypeOK OneClientPerBridge NoOrphan ReconciledExactly
PROPERTIES EditsReachBridges ShutdownCompletes
CHECK_DEADLOCK FALSE
