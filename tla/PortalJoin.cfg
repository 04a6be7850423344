SPECIFICATION Spec
CONSTANTS
  s1 = s1
  s2 = s2
  Sessions = {s1, s2}
  NoOne = NoOne
  Says <- MCSays
  MaxAhead = 1
CHECK_DEADLOCK FALSE
INVARIANT JoinableAtDestruction
