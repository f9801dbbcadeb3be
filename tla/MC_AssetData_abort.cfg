CONSTANTS
  NONE = NONE
  Assets <- MCAssetsTamper
  TamperBytes = {0, 2, 255}
  MAX_EDITS = 1
  HEAP_BYTES = 32768
SPECIFICATION Spec
INVARIANT DecodeNoAbort
