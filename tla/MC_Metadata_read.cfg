CONSTANTS
  NONE = NONE
  HEAP_BYTES = 32768
  Metas <- MCMetasFew
  TamperBytes = {255}
  MAX_EDITS = 1
SPECIFICATION Spec
INVARIANTS
  TypeOK
  WireDecodeHead
