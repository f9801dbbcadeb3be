CONSTANTS
  NONE = NONE
  HEAP_BYTES = 32768
  Metas <- MCMetasFew
  TamperBytes = {}
  MAX_EDITS = 0
SPECIFICATION Spec
INVARIANT SavePersists
