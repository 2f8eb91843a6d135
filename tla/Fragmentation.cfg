SPECIFICATION FairSpec
CONSTANTS
  Overhead = 2
  MaxUint16 = 9
  UintMod = 32
  FragMaxFragments = 5
  PayloadSizes = {0, 1, 4, 5, 6, 8, 9, 10}
  MTUs = {0, 1, 2, 3, 4, 5, 6, 12, 15}
  Nil = Nil
INVARIANTS
  FragTypeOK
  CompletesOnce
  AssembledIsOriginal
  CompleteMeansAssemblable
PROPERTIES
  EventuallyAssembled
CHECK_DEADLOCK FALSE
