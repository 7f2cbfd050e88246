SPECIFICATION Spec
CONSTANTS
  a1 = a1
  a2 = a2
  App = {a1}
  FASTMEM_PAGES = 1
  SLOWMEM_PAGES = 2
  NUM_BATCHS = 1
  NumVA = 1
  Ops = {"mmap", "munmap"}
  Kinds = {}
  MaxPagesNum = 1
  MaxRand = 1
INVARIANTS
  FallbackOnlyWhenFull
CHECK_DEADLOCK FALSE
