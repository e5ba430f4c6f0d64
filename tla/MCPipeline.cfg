SPECIFICATION Spec
CONSTANTS
    Dies <- MCDies
    Files <- MCFiles
    Mappings <- MCMappings
    Sessions <- MCSessions
    LowerCase <- MCLowerCase
    Builds = "sound"
INVARIANTS
    TypeOK
    CallsNest
    Closed
    LayoutsAreTheBuilds
    ConflictsReported
    FilterMirrorsIndex
    ExtractedLoads
    FirstUsableWins
    EveryEntryAccounted
    DecodersAreTheStructs
PROPERTY
    TypesStay
