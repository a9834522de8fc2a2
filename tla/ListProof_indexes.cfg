SPECIFICATION Spec
CONSTANTS
  a = a
  b = b
  junk = junk
  garbage = garbage
  Values <- MCValues
  Malformed = {garbage}
  MaxTreeHeight = 4
  Pow2 <- MCPow2
  Scenarios <- MCNegative
INVARIANT IndexesAppropriate
CHECK_DEADLOCK FALSE
