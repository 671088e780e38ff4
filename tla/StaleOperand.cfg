SPECIFICATION Spec
CONSTANTS
  WIDTH = 3
  IMMEDIATE_BITS = 3
  NUM_REGISTERS = 8
  IMEM_SIZE = 8
  Programs <- HazardPrograms
  DataIn <- Memory
PROPERTY NoStaleOperand
