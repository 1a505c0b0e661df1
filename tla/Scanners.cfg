SPECIFICATION Spec
CONSTANTS
    Shown <- MCShown
    Limits <- MCLimits
    Statements <- MCStatements
    DefaultTexts <- MCDefaultTexts
INVARIANTS
    DisplayIsExact
    DisplayKeepsItsPromise
    OneStatementPasses
    TriggersAreRefused
    RowsAreFetched
    DefaultsKeepTheirMeaning
PROPERTIES
    ScannersEnd
\* A scanner ends.
CHECK_DEADLOCK FALSE
