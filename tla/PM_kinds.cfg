SPECIFICATION Spec
CONSTANTS
  a1 = a1
  a2 = a2
  App = {a1}
  FASTMEM_PAGES = 2
  SLOWMEM_PAGES = 2
  NUM_BATCHS = 2
  NumVA = 2
  Ops = {"mmap", "request"}
  Kinds = {"dram_to_nvm_list", "nvm_to_dram_list", "nvm_to_nvm_list"}
  MaxPagesNum = 1
  MaxRand = 0
INVARIANTS
  NoNullPage
  KindsMatchLists
  FlagAssertionsHold
  TiersConserved
  TrackedPagesMatch
CHECK_DEADLOCK FALSE
