CONSTANTS
  Appenders = {a1, a2}
  Sizes = {1}
  CHUNK_SIZE = 2
  FLUSH_UNIT = 1
  FLUSH_COUNT = 2
  MAX_PREPARE_LOG_CNK_CNT = 3
  CHUNK_MAP_MAX = 8
  EarlyFlusher = TRUE
  WriteErrors = TRUE
  MaxAppends = 6
  MaxCrashes = 2
SPECIFICATION Spec
INVARIANTS
  NoLostAppend
  WritesOwnBuffer
  CacheSuffices
  
SYMMETRY Symmetry
CHECK_DEADLOCK FALSE
