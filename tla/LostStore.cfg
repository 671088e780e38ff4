CONSTANTS
  NUM_CORES = 1
  WORDS_IN_BLOCK = 4
  NUM_BLOCKS = 2
  NUM_SETS = 1
  RESPONSE_DELAY = 1
  NUM_VALUES = 2
  Word <- MCWord
  MemIn <- MCMemIn
  Loads <- Everything
  Stores <- Everything
SPECIFICATION Spec
PROPERTY StoreIsInCache
