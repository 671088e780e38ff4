CONSTANTS
  NUM_CORES = 2
  WORDS_IN_BLOCK = 2
  NUM_BLOCKS = 2
  NUM_SETS = 1
  RESPONSE_DELAY = 1
  NUM_VALUES = 2
  Word <- MCWord
  MemIn <- MCMemIn
  Loads <- Everything
  Stores <- OwnBlock
SPECIFICATION Spec
PROPERTY ImplementsAtomicMemory
