CONSTANTS
  MAX_PUBLIC_INPUTS = 2
  Pairs <- MCPairs
SPECIFICATION Spec
INVARIANTS
  TypeOK
  PairingFaultIsTheOnlyFault
  PairingSeesOnlySoundPoints
  Inv
PROPERTIES
  Implements
CHECK_DEADLOCK FALSE
