SPECIFICATION ClientSpec
CONSTANTS
  a = a
  b = b
  junk = junk
  garbage = garbage
  none = none
  Width = 3
  Keys <- MCKeys
  PathOf <- MCPathOf
  Values <- MCValues
  Malformed = {garbage}
  Scenarios <- MCDocuments
  Chain <- MCChain
  TableDocs <- MCTableDocs
  DataDocs <- MCDataDocs
INVARIANTS
  TypeOK
  AcceptsPrefixFree
  ContourInv
  FoldsTheTree
  Sound
  HonestAccepted
  DataIsInState
CHECK_DEADLOCK FALSE
