CONSTANTS
  U32 = 256
  MAX_SECTIONS = 6
  MAX_META = 8
  OverflowChecks = FALSE
  Images <- MCImages
SPECIFICATION Spec
INVARIANT CanonicalLayout
CHECK_DEADLOCK FALSE
