SPECIFICATION FairSpec
CONSTANTS
  a = a
  b = b
  junk = junk
  garbage = garbage
  Values <- MCValues
  Malformed = {garbage}
  MaxTreeHeight = 4
  Pow2 <- MCPow2
  Scenarios <- MCDocuments
INVARIANTS
  TypeOK
  AcceptsExactCovers
  DuplicateMeansRedundant
  HonestRoot
  Sound
  LevelInv
PROPERTY Terminates
CHECK_DEADLOCK FALSE
