SPECIFICATION MemSpec
CONSTANTS
  App = {a1, a2}
  FASTMEM_PAGES = 2
  SLOWMEM_PAGES = 2
  NUM_BATCHS = 2
  NumVA = 2
  Ops = {"mmap", "touch", "request"}
  Kinds = {"dram_to_nvm_list"}
  MaxPagesNum = 2
  MaxRand = 0
  Callers = {a1}
  Value = {1}
  Zero = 0
  None = None
INVARIANTS
  ProtectedOnlyInMoves
  FaultingPageTracked
PROPERTIES
  ImplementsMemory
  StoresComplete
CHECK_DEADLOCK FALSE
