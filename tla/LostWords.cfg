CONSTANTS
  NUM_CORES = 2
  WORDS_IN_BLOCK = 4
  NUM_BLOCKS = 4
  NUM_SETS = 2
  RESPONSE_DELAY = 1
  NUM_VALUES = 2
  Word <- MCWord
  MemIn <- MCMemIn
  Loads <- SharedOrConflict
  Stores <- SharedAndOwn
SPECIFICATION Spec
PROPERTY WritesWholeBlockBack
