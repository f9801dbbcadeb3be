CONSTANTS
  NAME_LEN = 3
  SYMBOL_LEN = 2
  URI_LEN = 4
  MAX_KV_PAIRS = 2
  KV_KEY_LEN = 3
  KV_VALUE_LEN = 3
  Strs <- MCStrsNone
  Keys <- MCKeysLong
  Values <- MCValuesFit
  NONE = NONE
SPECIFICATION MCSpec
INVARIANTS
  LookupSound
