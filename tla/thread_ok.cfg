\* Four threads on a kernel whose clone always succeeds.
SPECIFICATION Spec
CONSTANTS
  N = 4
  Pid <- MCPid
  Main = p0
  Caller <- MCCaller
  Junk = Junk
  CloneMayFail = FALSE
  p0 = p0  p1 = p1  p2 = p2  p3 = p3  p4 = p4
  c1 = c1  c2 = c2
SYMMETRY MCSymmetry
INVARIANTS
  AllBlocksRan
  BlockOnce
PROPERTIES
  ImplementsForkJoin
