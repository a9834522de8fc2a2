SPECIFICATION Spec
CONSTANTS
  stranger = stranger
  fieldsA = fieldsA
  fieldsB = fieldsB
  garbage = garbage
  Keys <- MCKeys
  Networks <- MCNetworks
  Blocks <- MCBlocks
  Malformed = {garbage}
  Signable <- MCSignable
  Circulating <- MCCirculating
  MaxLength = 5
INVARIANTS
  AcceptedByQuorum
  ForkIsAccountable
  LoopInv
