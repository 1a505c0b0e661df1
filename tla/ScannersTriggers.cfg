SPECIFICATION Spec
CONSTANTS
    Shown = {}
    Limits <- MCLimits
    Statements <- MCStatements
    DefaultTexts = {}
INVARIANTS
    TriggersAreUnsupported
\* A scanner ends.
CHECK_DEADLOCK FALSE
