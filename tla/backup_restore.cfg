SPECIFICATION Spec
CONSTANTS
  u1 = u1
  u2 = u2
  t2 = t2
  q2 = q2
  Coll <- MCColl
  Rank <- MCRank
  Permanent <- MCPermanent
  Logs <- MCLogs
  Doc = {u1, u2, t2, q2}
  Home <- MCHome
  Needs <- MCNeeds
  NoDoc = NoDoc
  First = {u1}
  Job = {j1, j2}
  NoFile = NoFile
  MaxJobs = 3
  MaxFaults = 1
SYMMETRY JobSymmetry
INVARIANTS TypeOK NothingIsLost DumpIsClosed RestoreIsExact
CHECK_DEADLOCK FALSE
