CONSTANTS
  Path <- Paths
  AlphaRank <- Ranks
  CppHeaders = {"vector", "iostream"}
  StreamHeaders = {"iostream"}
  NORMAL_TRIGGER = 1
  TEST_TRIGGER = 2
  SmallClass = 3
  Capitals = {"TEST", "TEST_F", "EXPORTED"}
  TestNames = {"TEST", "TEST_F", "TestHelper"}
  CopyrightLines = 2
  Invocations <- Runs
SPECIFICATION Spec
CHECK_DEADLOCK FALSE
INVARIANTS PrintedAsAsked IncludeOrderByKind OwnHeaderCounts LongFunctionsReported ClassStackIsTheNesting
PROPERTIES TotalIsPrinted
