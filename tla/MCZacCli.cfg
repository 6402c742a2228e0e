CONSTANTS
  Procs <- MCProcs
  Tasks <- MCTasks
  Keys <- MCKeys
  Blocks <- MCBlocks
  Names <- MCNames
  Seeds <- MCSeeds
SPECIFICATION Spec
INVARIANTS
  TypeOK
  NoTornContainer
  AcceptedPairIsGenuine
  CreatorKeepsTheFile
CHECK_DEADLOCK FALSE
