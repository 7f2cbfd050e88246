SPECIFICATION Spec
CONSTANTS
  a1 = a1
  a2 = a2
  App = {a1, a2}
  FASTMEM_PAGES = 2
  SLOWMEM_PAGES = 2
  NUM_BATCHS = 1
  NumVA = 2
  Ops = {"mmap", "request"}
  Kinds = {"dram_to_nvm_list"}
  MaxPagesNum = 1
  MaxRand = 1
SYMMETRY AppSymmetry
INVARIANTS
  TypeOK
  Ownership
  QueueCountExact
CHECK_DEADLOCK FALSE
