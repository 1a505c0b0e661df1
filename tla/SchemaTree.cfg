SPECIFICATION Spec
CONSTANTS
    Names <- MCNames
    Rank <- MCRank
    Displayed <- MCDisplayed
    Hidden = {"pg_toast"}
    Connected = "app"
    Catalogs <- MCCatalogs
    None = None
INVARIANTS
    TreeIsOfItsTime
    TreeIsInOrder
\* A call ends.
CHECK_DEADLOCK FALSE
