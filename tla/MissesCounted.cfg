SPECIFICATION SimSpec
CONSTANTS
  NUM_CORES = 4
  WORDS_IN_BLOCK = 4
  NUM_BLOCKS = 6
  NUM_SETS = 2
  RESPONSE_DELAY = 14
  Word <- MCWord
  MemIn <- MCMemIn
  Loads <- Everything
  Stores <- Everything
  WIDTH = 8
  IMMEDIATE_BITS = 6
  NUM_REGISTERS = 16
  IMEM_SIZE = 40
  MASK = 3
  INCREMENTS = 2
  LOG_LENGTH = 3
  CACHE_WORDS = 8
  CONFLICT = 8
  Starts = {0, 3}
  LitmusStarts = {3, 9}
  MAX_CYCLES = 600
  Programs <- SerialProgram
CHECK_DEADLOCK FALSE
INVARIANT LoadsAreHitsOrMisses
