\* One register on every small graph, three on two loops; three machine registers.
SPECIFICATION FairCodeSpec
CONSTANTS
  Block = {1, 2, 3}
  Reg = {0, 1, 2, 3, 4, 5}
  Machine = {0, 1, 2}
  Pseudo = {3, 4, 5}
  Spilling = {}
  Entry = 1
  Val = {0, 1}
  Funcs <- MCFuncs
INVARIANTS
  LeastSolution
  LiveIsRead
  OperandsKept
PROPERTIES
  Terminates
