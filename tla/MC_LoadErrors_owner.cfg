CONSTANTS
  NONE = NONE
  ID = ID
  OtherOwner = OtherOwner
  Owners <- MCOwners
  Lens <- MCLens
  MAX_VIEWS = 2
  MAX_WRITES = 2
  CustomCodes <- MCCustomCodes
  Codes <- MCCodes
  MetadataErrorCodes = {0, 1, 200}
SPECIFICATION LSpec
INVARIANT OwnerMismatchReported
