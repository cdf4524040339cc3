SPECIFICATION FairSpec
CONSTANTS
    r = r
    s = s
    e = e
    t = t
    Parent = r
    Syncs = {s}
    Commands = {e}
    Clones = {t}
    MaxGen = 2
    MaxDisruptions = 1
INVARIANTS ParentExclusive ReadyIsWhole CloneIsWhole JobOnce ReservedWhileUsed
PROPERTIES RequestsReleased
CHECK_DEADLOCK FALSE
