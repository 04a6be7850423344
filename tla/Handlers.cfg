CONSTANTS
  Sessions = {s1, s2}
  Relations = {r1, r2}
  NoOne = none
  Objects = {1, 2, 3, 4}
  InitRows = 1
  LoadRows = 2
  MaxStatements = 3
SYMMETRY Symmetry
SPECIFICATION Spec
INVARIANTS TypeOK RefCountExact NoDangling MapsAreOpenFiles IdleMeansClosed DiesOnlyDisturbed LoadAllOrNothing ScanComplete
CHECK_DEADLOCK FALSE
