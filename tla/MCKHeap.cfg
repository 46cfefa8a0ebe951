CONSTANTS
  HeapSize = 112
  Request = {0, 1, 8, 9, 24, 40}
SPECIFICATION FairSpec
INVARIANTS Tiled LiveIsolated Coalesced
PROPERTIES FailsOnlyWhenFull CallsReturn
