\* Two colours; two machine registers and three registers of the program, or one
\* machine register and four others, two of them temporaries of spill code.
SPECIFICATION FairSpec
CONSTANTS
  Machine = {0, 1}
  Pseudo = {2, 3, 4, 5, 6}
  Allocable = {0, 1}
  Spilling = {5, 6}
  Graphs <- SmallGraphs
INVARIANTS
  TypeOK
  IInv
  ProperColouring
  CanSelect
  GraphsSymmetric
  CanSpill
  NoNeedlessSpill
PROPERTIES
  Terminates
