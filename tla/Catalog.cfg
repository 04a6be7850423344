SPECIFICATION Spec
CONSTANTS
  Names = {n1, n2}
  Sessions = {s1, s2}
  Main = main
  NoOp = none
  MaxCols = 2
  MaxRecords = 2
  SysClassCols = 1
  SysAttrCols = 2
SYMMETRY Symmetry
INVARIANTS TypeOK MapsAgree PersistedBeforeVisible PositionIsIndex AckedSurvives AbortOnlyAfterDuplicate StartFailsOnlyHalfInitialised
PROPERTY RelationsStable
