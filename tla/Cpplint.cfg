CONSTANTS
    NamespaceLines = 3
    NORMAL_TRIGGER = 1
    TEST_TRIGGER = 2
    SmallClass = 2
    NestLength = 6
    MaxBody = 12
    Argv <- MCArgv
SPECIFICATION Spec
CHECK_DEADLOCK FALSE
INVARIANTS
    ElseBranchesIgnored
    OpenBlocksMatchBraces
    ReportsExact
    OrderReportsExact
    FunctionLinesExact
    SemicolonsReportedOnce
