CONSTANTS
    Nil = Nil
    Texts <- MCTexts
    Trimmed <- MCTrimmed
    Folded <- MCFolded
    Displayed <- MCDisplayed
    ControlTexts <- MCControlTexts
    SemicolonTexts <- MCSemicolonTexts
    TypeTexts <- MCTypeTexts
    LiteralTexts <- MCLiteralTexts
    PkeyTexts <- MCPkeyTexts
    Tables <- MCTables
    FormatType <- MCFormatType
    DefaultText <- MCDefaultText
    IdentityOf <- MCIdentityOf
    PrimaryKeyNames <- MCPrimaryKeyNames
    ForeignKeyNames <- MCForeignKeyNames
    Calls = {c1, c2, c3}
    Requests <- RaceRequests
    InitialCatalog <- ColumnsCatalog
SPECIFICATION Spec
SYMMETRY CallSymmetry
CHECK_DEADLOCK FALSE
INVARIANTS
    ReplayStaysLegal
    OkAppliedOnce
PROPERTIES
    AlterStaysInItsDiff
