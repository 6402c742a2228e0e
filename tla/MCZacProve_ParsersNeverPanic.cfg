CONSTANTS
  U32 = 16
  U64 = 8192
  TWO_ADICITY = 3
  MAX_DOMAIN = 8
  MAX_PUBLIC_INPUTS = 2
  Jobs <- MCJobs
SPECIFICATION Spec
PROPERTIES
  ParsersNeverPanic
CHECK_DEADLOCK FALSE
