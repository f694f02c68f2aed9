CONSTANTS
  Appenders = {a1, a2}
  Sizes = {1, 3}
  CHUNK_SIZE = 4
  FLUSH_UNIT = 2
  FLUSH_COUNT = 2
  MAX_PREPARE_LOG_CNK_CNT = 3
  CHUNK_MAP_MAX = 4
  EarlyFlusher = FALSE
  WriteErrors = FALSE
  MaxAppends = 4
  MaxCrashes = 0
SPECIFICATION Spec
INVARIANTS
  ReservedOnce
SYMMETRY Symmetry
CHECK_DEADLOCK FALSE
