CONSTANTS
  NAME_LEN = 2
  SYMBOL_LEN = 2
  URI_LEN = 3
  MAX_KV_PAIRS = 2
  KV_KEY_LEN = 3
  KV_VALUE_LEN = 3
  Strs <- MCStrsAscii
  Keys <- MCKeysFit
  Values <- MCValuesFit
  NONE = NONE
SPECIFICATION MCSpec
INVARIANTS
  TypeOK
  FieldReadBack
  LookupSound
PROPERTIES
  KVRefinement
