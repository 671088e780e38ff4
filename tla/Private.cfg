CONSTANTS
  NUM_CORES = 3
  WORDS_IN_BLOCK = 4
  NUM_BLOCKS = 4
  NUM_SETS = 1
  RESPONSE_DELAY = 2
  NUM_VALUES = 1
  Word <- MCWord
  MemIn <- MCMemIn
  Loads <- CommonLast
  Stores <- OwnLast
SPECIFICATION FairSpec
PROPERTIES AccessCompletes RoundRobin OneSupplier
