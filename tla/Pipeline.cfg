SPECIFICATION FairSpec
CONSTANTS
  WIDTH = 3
  IMMEDIATE_BITS = 3
  NUM_REGISTERS = 8
  IMEM_SIZE = 8
  Programs <- MixedPrograms
  DataIn <- Memory
INVARIANTS TypeOK PipelineInvariant
PROPERTIES ImplementsSequential Halts NoStaleOperand
