CONSTANTS
  MAX_PUBLIC_INPUTS = 2
  Pairs <- MCPairs
SPECIFICATION Spec
INVARIANTS
  ExhaustionIsE015
CHECK_DEADLOCK FALSE
