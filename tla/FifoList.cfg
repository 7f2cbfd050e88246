SPECIFICATION Spec
CONSTANTS
  Entry = {e1, e2, e3}
  List = {free, mapped}
  Thread = {t1, t2}
  NULL = NULL
INVARIANTS
  AssertionsHold
  BothEndsAgree
PROPERTIES
  ImplementsFifo
