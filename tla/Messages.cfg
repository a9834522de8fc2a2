SPECIFICATION Spec
CONSTANTS
  k = k
  l = l
  none = none
  plain = plain
  Keys = {k, l}
  Types <- MCTypes
  Payloads <- MCPayloads
  MaxData = 1
SYMMETRY Symmetry
INVARIANTS
  TypeOK
  Delivered
  HashIsThatOfOrigin
  HopsAgree
  DetachedSignatureFits
  CreatedAgain
  VerifiesCleanOnly
CHECK_DEADLOCK FALSE
