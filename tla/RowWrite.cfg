CONSTANTS
    c1 = c1
    c2 = c2
    NULL = NULL
    DEFAULT = DEFAULT
    TYPED = TYPED
    None = None
    Columns <- MCColumns
    Strings <- MCStrings
    Defaults <- MCDefaults
    RowIds = {1, 2, 3}
    InitialTable <- MCInitialTable
    Calls = {c1, c2}
    Requests <- MCRequests
SPECIFICATION Spec
SYMMETRY CallSymmetry
CHECK_DEADLOCK FALSE
INVARIANTS
    TypeOK
    StatementsFit
    WriteAnswersAreHonest
PROPERTIES
    InsertIsExact
    UpdateIsExact
    DeleteIsExact
