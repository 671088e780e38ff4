CONSTANTS
  NUM_CORES = 2
  WORDS_IN_BLOCK = 2
  NUM_BLOCKS = 2
  NUM_SETS = 1
  RESPONSE_DELAY = 1
  NUM_VALUES = 1
  Word <- MCWord
  MemIn <- MCMemIn
  Loads <- Everything
  Stores <- Everything
SPECIFICATION Spec
CONSTRAINT DriftBound
INVARIANTS
  ProtocolInvariant
  SupplyServesTransaction
  FillsOwnBlock
  MemoryInvariant
