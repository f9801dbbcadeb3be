CONSTANTS
  NONE = NONE
  METADATA_ID = METADATA_ID
  TOKEN_ID = TOKEN_ID
  SYSTEM_ID = SYSTEM_ID
  Strs <- MCStrsSplit
  Fees = {0}
  Decimals = {0, 9}
  Keys = {1, 2}
  UninitBytes = {0, 1, 2}
  MAX_SENDS = 2
SPECIFICATION Spec
INVARIANTS
  PayloadInjective
