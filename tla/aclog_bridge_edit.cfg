CONSTANTS
  b1 = b1
  b2 = b2
  s1 = s1
  s2 = s2
  t1 = t1
  t2 = t2
  t3 = t3
  Bridge = {b1}
  Signature = {s1, s2}
  Off = Off
  Task = {t1, t2}
  NoTask = NoTask
  MaxEdits = 2
  MaxFaults = 1
SPECIFICATION FairSpec
PROPERTY EditsTakeEffect
CHECK_DEADLOCK FALSE
