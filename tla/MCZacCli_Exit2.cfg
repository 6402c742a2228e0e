CONSTANTS
  Procs <- MCProcs
  Tasks <- MCTasks
  Keys <- MCKeys
  Blocks <- MCBlocks
  Names <- MCNames
  Seeds <- MCSeeds
SPECIFICATION Spec
INVARIANTS
  Exit2IsThePairing
CHECK_DEADLOCK FALSE
