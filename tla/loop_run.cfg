\* Three threads, 4-bit registers, every loop of MCLoops that is accepted.
SPECIFICATION FairSpec
CONSTANTS
  W = 4
  N = 3
  MinTimes = 4
  Loops <- MCLoops
  Before <- MCBefore
INVARIANTS
  TypeOK
  SameResult
  IterationsIndependent
  NoRace
  BlocksTile
PROPERTIES
  KeepsForkJoin
  Terminates
