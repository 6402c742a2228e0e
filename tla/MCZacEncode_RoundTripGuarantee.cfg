CONSTANTS
  U32 = 256
  BYTE = 6
  LeadBytes <- MCLeadBytes
  Continuations <- MCContinuations
  MAX_SECTIONS = 5
  MAX_META = 8
  Files <- MCFiles
SPECIFICATION Spec
INVARIANT RoundTripGuarantee
CHECK_DEADLOCK FALSE
