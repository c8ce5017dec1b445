SPECIFICATION Spec
CONSTANTS
  W = 4
  N = 2
  MinTimes = 3
  Loops <- MCZeroStep
  Before <- MCBefore
INVARIANTS
  IterationsIndependent
