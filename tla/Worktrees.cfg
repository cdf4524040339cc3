SPECIFICATION FairSpec
CONSTANTS
    a = a
    b = b
    x = x
    y = y
    Owners = {a, b, x, y}
    Workspaces = {a, b}
    Execs = {x, y}
    Worktrees = {1}
    MaxEdits = 1
    MaxTopology = 1
    Loads <- Sharing
INVARIANTS ConsumersHeld VolumeProtected CommandOnce ResultIsFinal
PROPERTIES SuspendReleases ExecsFinish DeletionCompletes MountsConverge
CHECK_DEADLOCK FALSE
