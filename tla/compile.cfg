\* Six programs and a family of 48 loops, with everything switched on, with
\* what is off by default and with the passes off that hide others; words of
\* 16 bits, two threads.
SPECIFICATION Spec
CONSTANTS
  W = 16
  Stack = 64
  Fuel = 12
  CalleeSave = {4, 5, 6, 14}
  OffsetRange = 6
  SimpleFrom = 2000
  PhisTogether = TRUE
  ThreadCnt = 2
  MinParTimes = 3
  FuncNames <- NameList
  Programs <- ProgramList
  Inputs <- InputList
  Options <- OptionSets
  Pass <- PassList
  Simulate <- Interpreter
  Emulate <- Machine
  Meaning <- SourceMeaning
INVARIANTS
  SemanticsPreserved
  VersionsTrue
  NoThreadsCollide
  NoAssertionFails
CHECK_DEADLOCK FALSE
