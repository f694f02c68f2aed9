CONSTANTS
  Workers = {w1, w2}
  Producers = {p1}
  Tasks = {1, 2, 3, 4}
  Funcs = {"f", "g"}
  Args = {1, 2, 3, 4}
  FuncOf <- MCFuncOf
  ArgOf <- MCOwnArg
  MAX_QUEUE_SIZE = 3
  null_func = "null_func"
  NULL_ARG = NULL_ARG
SPECIFICATION Spec
INVARIANTS
  RunsOnceAsAdded
  QueueEmptyAtReturn
PROPERTIES
  AcceptedRuns
  CallsReturn
