CONSTANTS
  NodeAllocs = 2
SPECIFICATION FairSpec
INVARIANTS InitOnce HeapBeforeThreads
PROPERTIES EnableIsHeeded
