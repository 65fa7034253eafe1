CONSTANTS
    None = None
    Ids <- MCIds
    MaxPageSize <- MCMaxPageSize
    RootLimit = 2
    Sizes <- MCSizes
    MaxSecond = 2
SPECIFICATION FairListingSpec
INVARIANTS
    ListingTypeOK
    OnlyLeavingSkips
    OnlyEnteringRepeats
    SameTokenSamePages
PROPERTIES
    WalksEnd
CHECK_DEADLOCK FALSE
