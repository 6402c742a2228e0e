CONSTANTS
  U32 = 256
  MAX_SECTIONS = 6
  MAX_META = 8
  OverflowChecks = FALSE
  Images <- MCImages
SPECIFICATION Spec
INVARIANTS
  TypeOK
  PanicOnlyPastU32
  AcceptsExactly
  OneOwner
  HashPinsTheFile
  HashFaultIsTheOnlyFault
  MissingSectionInASoundBody
  Inv
PROPERTY Implements
CHECK_DEADLOCK FALSE
