SPECIFICATION FairSpec
CONSTANTS
  a1 = a1
  a2 = a2
  App = {a1, a2}
  FASTMEM_PAGES = 1
  SLOWMEM_PAGES = 1
  NUM_BATCHS = 1
  NumVA = 2
  Ops = {"mmap", "touch", "munmap"}
  Kinds = {}
  MaxPagesNum = 1
  MaxRand = 1
INVARIANTS
  FramesDistinct
  TrackedPagesMatch
PROPERTIES
  FaultServed
CHECK_DEADLOCK FALSE
