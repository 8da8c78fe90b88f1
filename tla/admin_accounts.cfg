SPECIFICATION Spec
CONSTANTS
  Username = {a1, a2, o1}
  AdminNames = {a1, a2}
  Password = {pw}
  Request = {r1, r2}
  Absent = Absent
  NoJob = NoJob
  MaxStops = 1
SYMMETRY AccountSymmetry
INVARIANTS TypeOK LockoutOnlyByRace RefusedOnceDisabled StartedWithAdmin
PROPERTIES OnlyOrderedChanges
CHECK_DEADLOCK FALSE
