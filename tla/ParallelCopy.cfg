SPECIFICATION Spec
CONSTANTS
  Client = {c1, c2}
  MAX_COPY_THREADS = 2
  Region = {r1, r2, r3}
  Length = 4
  None = None
PROPERTIES
  JobIsStable
  ImplementsAtomicCopy
  CopiesComplete
