SPECIFICATION Spec
CONSTANTS
  Kinds = {"create", "select", "load_stdin", "load_file", "copy_stdout", "copy_file", "insert"}
  MaxQueries = 2
  MaxAhead = 2
  MaxRows = 2
  MaxUnread = 2
CHECK_DEADLOCK FALSE
INVARIANT ClientUnderstands
