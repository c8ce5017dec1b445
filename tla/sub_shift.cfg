\* A product by four, subtracted, with the passes the compiler has switched
\* on.
SPECIFICATION Spec
CONSTANTS
  W = 16
  Stack = 64
  Fuel = 12
  CalleeSave = {4, 5, 6, 14}
  OffsetRange = 6
  SimpleFrom = 2000
  PhisTogether = TRUE
  ThreadCnt = 2
  MinParTimes = 3
  FuncNames <- NameList
  Programs <- DifferenceList
  Inputs <- InputList
  Options <- DefaultOptions
  Pass <- PassList
  Simulate <- Interpreter
  Emulate <- Machine
  Meaning <- SourceMeaning
INVARIANTS
  SemanticsPreserved
CHECK_DEADLOCK FALSE
