SPECIFICATION Spec
CONSTANT Alphabets <- MCAlphabets
INVARIANTS
  ScannersAgree
  StrippingIsFinal
  TrustedTablesAreSeen
CHECK_DEADLOCK FALSE
