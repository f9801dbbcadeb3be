CONSTANTS
  NONE = NONE
  Assets <- MCAssetsCodec
  TamperBytes = {0, 2, 255}
  MAX_EDITS = 1
  HEAP_BYTES = 32768
SPECIFICATION MCCodecSpec
INVARIANTS
  TypeOK
  LengthLockstep
  TruncationRejected
  DecodeConsumesCalcLen
  RoundTrip
