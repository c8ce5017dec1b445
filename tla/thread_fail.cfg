\* Three threads on a kernel whose clone may fail at any of its calls.
SPECIFICATION FairSpec
CONSTANTS
  N = 3
  Pid <- MCSmallPid
  Main = p0
  Caller <- MCCaller
  Junk = Junk
  CloneMayFail = TRUE
  p0 = p0  p1 = p1  p2 = p2  p3 = p3  p4 = p4
  c1 = c1  c2 = c2
INVARIANTS
  IInv
  JoinBarrier
  RegistersRestored
  NoOrphans
  PrefixRan
PROPERTIES
  SectionEnds
