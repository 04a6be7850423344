CONSTANTS
  Columns <- MCColumns
  Types <- MCTypes
  Contents <- MCContents
  Queries <- MCQueries
SPECIFICATION Spec
CHECK_DEADLOCK FALSE
INVARIANT JoinIsAnswered
