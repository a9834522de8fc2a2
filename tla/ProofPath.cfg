SPECIFICATION Spec
CONSTANTS
  ByteBits = 6
  HashBytes = 8
  Half = 32
  Strings <- MCStrings
INVARIANTS
  CommonPrefixFound
  PrefixIsCanonical
  SelfDelimiting
  JSONRoundTrip
  ConvertersAgree
  KeyTypesAgree
CHECK_DEADLOCK FALSE
