SPECIFICATION Spec
CONSTANTS
  Kinds = {"create", "select", "load_stdin", "load_file", "copy_stdout", "copy_file", "insert"}
  MaxQueries = 2
  MaxAhead = 2
  MaxRows = 1
  MaxUnread = 2
CHECK_DEADLOCK FALSE
INVARIANTS
  TypeOK
  AnsweredInOrder
  ConfusedOnlyByCopy
  CopyIsComplete
PROPERTIES
  ImplementsCycle
  QueryEnds
  TerminateCloses
