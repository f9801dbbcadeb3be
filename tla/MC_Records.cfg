CONSTANTS
  NONE = NONE
  ID = ID
  OtherOwner = OtherOwner
  Owners = {ID, OtherOwner}
  Recs <- MCRecs
  Sizes <- MCSizes
  TamperBytes = {0, 1, 8, 9}
  MAX_EDITS = 2
SPECIFICATION Spec
INVARIANTS
  TypeOK
  LoadSound
  WrittenLoadsBack
