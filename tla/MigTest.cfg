SPECIFICATION MigSpec
CONSTANTS
  main = main
  npage = 3
  App = {main}
  FASTMEM_PAGES = 6
  SLOWMEM_PAGES = 7
  NUM_BATCHS = 2
  NumVA = 3
  Ops = {"mmap", "munmap", "request"}
  Kinds = {"dram_to_nvm_list", "nvm_to_dram_list"}
  MaxPagesNum = 3
  MaxRand = 2
INVARIANTS
  NeverDies
  WaitMeansMoved
  CountersSettled
  AllPagesRequested
  UnmapIsFinal
  FramesDistinct
PROPERTIES
  Returns
