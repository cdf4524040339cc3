SPECIFICATION Spec
CHECK_DEADLOCK FALSE
CONSTANTS
  Execs <- MCExecs
  MaxCommits = 2
  Loads <- MCLoads
INVARIANTS WorkKept HomeIsRevision
PROPERTIES CommitSettles
