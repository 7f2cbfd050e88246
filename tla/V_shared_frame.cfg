SPECIFICATION Spec
CONSTANTS
  a1 = a1
  a2 = a2
  App = {a1}
  FASTMEM_PAGES = 3
  SLOWMEM_PAGES = 2
  NUM_BATCHS = 1
  NumVA = 2
  Ops = {"mmap", "request"}
  Kinds = {"dram_to_dram_list"}
  MaxPagesNum = 1
  MaxRand = 1
INVARIANTS
  FramesDistinct
CHECK_DEADLOCK FALSE
