CONSTANTS
    Nil = Nil
    Texts <- MCTexts
    Trimmed <- MCSame
    Folded <- MCSame
    Displayed <- MCDisplayed
    ControlTexts <- MCControlTexts
    SemicolonTexts = {}
    TypeTexts = {}
    LiteralTexts = {}
    PkeyTexts = {}
    Catalogs <- MCCatalogs
    Lists <- MCLists
    Qualified <- MCQualified
    Rank <- MCRank
SPECIFICATION Spec
CHECK_DEADLOCK FALSE
INVARIANTS
    EveryForeignKeyListed
