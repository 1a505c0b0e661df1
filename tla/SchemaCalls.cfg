CONSTANTS
    Nil = Nil
    Texts <- MCTexts
    Trimmed <- MCTrimmed
    Folded <- MCFolded
    Displayed <- MCDisplayed
    ControlTexts <- MCControlTexts
    SemicolonTexts <- MCSemicolonTexts
    TypeTexts <- MCTypeTexts
    LiteralTexts <- MCLiteralTexts
    PkeyTexts <- MCPkeyTexts
    Tables <- MCTables
    FormatType <- MCFormatType
    DefaultText <- MCDefaultText
    IdentityOf <- MCIdentityOf
    PrimaryKeyNames <- MCPrimaryKeyNames
    ForeignKeyNames <- MCForeignKeyNames
    Calls = {c1, c2}
    Requests <- CallRequests
    InitialCatalog <- CallsCatalog
SPECIFICATION Spec
CHECK_DEADLOCK FALSE
INVARIANTS
    TypeOK
    ErrorLeavesNoTrace
    OkAppliedOnce
    AnsweredHoldsNothing
PROPERTIES
    AlterStaysInItsDiff
    FreshAlterationIsExact
    ImplementsAtomicChange
    ReplacementIsAtomic
    DropHitsItsName
