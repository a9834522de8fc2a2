SPECIFICATION Spec
CONSTANTS
  MaxLast = 4
  Inputs <- MCInputs
INVARIANT LoopsMatchSets
CHECK_DEADLOCK FALSE
