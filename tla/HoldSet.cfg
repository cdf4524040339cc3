SPECIFICATION FairSpec
CONSTANTS
    a = a
    b = b
    Owners = {a, b}
    Modes <- WorktreeModes
    NoMode = NoMode
    Excludes <- WorktreeExcludes
    Covers <- WorktreeCovers
    Keeper = Keeper
    CreatesObject = FALSE
    MaxTries = 2
INVARIANTS TypeOK ExclusiveAccess ConsumersCovered DrainedIsQuiet
PROPERTIES FenceHolds ImplementsFence LeftHoldsSwept
