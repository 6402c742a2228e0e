CONSTANTS
  U32 = 16
  U64 = 8192
  TWO_ADICITY = 3
  MAX_DOMAIN = 8
  MAX_PUBLIC_INPUTS = 2
  Jobs <- MCJobs
SPECIFICATION FairSpec
INVARIANTS
  TypeOK
  PanicIsAccountedFor
  NativeProverFitsTheKey
  ForeignKeyIsTheOnlyFault
  MadeProofVerifies
  CosetAvoidsDomain
  Inv
PROPERTIES
  Implements
  Terminates
CHECK_DEADLOCK FALSE
