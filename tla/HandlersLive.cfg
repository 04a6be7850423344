CONSTANTS
  Sessions = {s1, s2}
  Relations = {r1}
  NoOne = none
  Objects = {1, 2, 3, 4}
  InitRows = 1
  LoadRows = 1
  MaxStatements = 3
SPECIFICATION Spec
PROPERTY StatementEnds
CHECK_DEADLOCK FALSE
