SPECIFICATION Spec
CONSTANTS
    a = a
    b = b
    x = x
    y = y
    Owners = {a, b, x, y}
    Workspaces = {a, b}
    Execs = {}
    Worktrees = {1, 2}
    MaxEdits = 1
    MaxTopology = 2
    Loads <- Competing
SYMMETRY Interchangeable
INVARIANT OneWriter
PROPERTIES ImplementsFence
CHECK_DEADLOCK FALSE
