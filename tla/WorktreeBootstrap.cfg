SPECIFICATION FairSpec
CONSTANTS
    a = a
    b = b
    Nobody = Nobody
    Users = {a, b}
    Specs <- TwoSpecs
    Sources <- TwoSources
    MaxSize = 2
    MaxFaults = 1
INVARIANTS ChildIsWhole WorkUndisturbed
PROPERTIES WorktreeSettles
