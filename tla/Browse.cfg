SPECIFICATION Spec
CONSTANTS
    Columns <- MCColumns
    Values <- MCValues
    NULL = NULL
    Displayed <- MCDisplayed
    Rank <- MCRank
    Tables <- MCTables
    Requests <- MCRequests
    MaxRows = 3
    None = None
INVARIANTS
    FiltersKeepTheirMeaning
    PageIsExact
    MoreIsTold
    WalkIsComplete
\* A walk ends.
CHECK_DEADLOCK FALSE
