CONSTANTS
  Columns <- MCColumns
  Types <- MCTypes
  Contents <- MCContents
  Queries <- MCQueries
SPECIFICATION Spec
CHECK_DEADLOCK FALSE
INVARIANTS TypeOK RefusesUnclear SendsTheAnswer CrashesOnlyUnsupported
