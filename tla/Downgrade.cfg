SPECIFICATION Spec
CONSTANTS
    a = a
    b = b
    x = x
    y = y
    Owners = {a, b, x, y}
    Workspaces = {a, b}
    Execs = {}
    Worktrees = {1}
    MaxEdits = 1
    MaxTopology = 1
    Loads <- Downgrading
SYMMETRY Interchangeable
INVARIANTS OneWriter
CHECK_DEADLOCK FALSE
