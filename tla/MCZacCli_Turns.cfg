CONSTANTS
  Procs <- MCProcs
  Tasks <- Races
  Keys <- MCKeys
  Blocks <- MCBlocks
  Names <- MCNames
  Seeds <- MCSeeds
SPECIFICATION Spec
INVARIANTS
  Inv
PROPERTIES
  Implements
  TakingTurnsIsEnough
  EveryRunEnds
CHECK_DEADLOCK FALSE
