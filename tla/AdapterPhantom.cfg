SPECIFICATION AdapterSpec
CONSTANTS
  MaxBlocks = 1
  MaxPieces = 2
  MaxSpoken = 2
INVARIANTS
  OnlyModelCalls
CHECK_DEADLOCK FALSE
