------------------------ MODULE WorktreeBootstrapMC ------------------------
(***************************************************************************)
(* Instances of WorktreeBootstrap for TLC.                                 *)
(***************************************************************************)
EXTENDS WorktreeBootstrap

CONSTANTS a, b      \* Workspaces

\* A Job's Worktree that inherits its storage, and one generated for a Workspace
\* with a size of its own.
TwoSpecs == {[deferred |-> FALSE, size |-> 0, modes |-> {}],
             [deferred |-> TRUE, size |-> 1, modes |-> {"ReadWriteOnce"}]}

\* A claim that waits for its first consumer, and a block device.
TwoSources == {[bound |-> FALSE, filesystem |-> TRUE, request |-> 1, capacity |-> 0, modes |-> {"ReadWriteOnce"}],
               [bound |-> TRUE, filesystem |-> FALSE, request |-> 1, capacity |-> 1, modes |-> {"ReadOnlyMany"}]}

=============================================================================
