SPECIFICATION FairSpec
CONSTANTS
  Nil = Nil
  Keys = {k1, k2}
  MaxKeys = 2
  Callers = {s1}
  MaxCalls = 1
  Sizes = {0, 3, 4, 5}
  MaxPayload = 4
  CompressThreshold = 3
  EncryptionOverhead = 1
  Clears = TRUE
INVARIANTS
  LibraryTypeOK
  FlagsDescribePayload
  HeldKeyNotReplaced
  TooLargeMeansAboveLimit
PROPERTIES
  CallsReturn
CHECK_DEADLOCK FALSE
