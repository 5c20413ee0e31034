SPECIFICATION Spec
CONSTANTS
    Start = 10
    Apply <- MCApply
    PayloadBase = 4
    LowBase = 16
    BlockEntries = 2
    MaxSearchLimit = 2
    BucketWidth = 64
    BucketCount = 4
    Libraries <- MCLibraries
    Settings <- MCSettings
    Hashes <- MCHashes
    Filters <- MCFilters
    Depths <- MCDepths
    EloWidth = 100
INVARIANTS
    NeverRejected
    CandidatesSound
PROPERTIES
    PostingsExact
    TreeTransparent
    PagesAgree
    FiltersNarrow
    TreeIsWhole
CHECK_DEADLOCK FALSE
