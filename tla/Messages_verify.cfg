SPECIFICATION Spec
CONSTANTS
  k = k
  l = l
  none = none
  plain = plain
  Keys = {k, l}
  Types <- MCTypes
  Payloads <- MCPayloads
  MaxData = 1
INVARIANT
  VerifyUndoesSign
CHECK_DEADLOCK FALSE
