SPECIFICATION Spec
CONSTANTS
  t1 = t1
  t2 = t2
  Ticks <- OneTick
  Settings <- SoftOnly
  MaxAttempts = 4
  MaxEdits = 0
INVARIANT ArchivedAfterSuccess
