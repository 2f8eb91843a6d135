SPECIFICATION Spec
CONSTANTS
  Nil = Nil
  Keys = {k1, k2}
  MaxKeys = 2
  Callers = {s1}
  MaxCalls = 1
  Sizes = {2}
  MaxPayload = 4
  CompressThreshold = 3
  EncryptionOverhead = 1
  Clears = TRUE
INVARIANTS
  HeldKeyUnchanged
CHECK_DEADLOCK FALSE
