SPECIFICATION Spec
CONSTANTS
    Dies <- MCDies
    Files <- MCFiles
    Mappings <- MCMappings
    Sessions <- MCSessions
    LowerCase <- MCLowerCase
    Builds = "nameless"
INVARIANT
    LayoutsAreTheBuilds
