----------------------------- MODULE WorktreeMC -----------------------------
(***************************************************************************)
(* Instances of WorktreeSystem for TLC.                                    *)
(***************************************************************************)
EXTENDS WorktreeSystem, TLC

CONSTANTS a, b,     \* Workspaces
          x, y      \* WorktreeExecs

\* Workspaces are interchangeable, and so are WorktreeExecs.  Only for runs
\* without liveness properties.
Interchangeable == Permutations(Workspaces) \cup Permutations(Execs)

With(trees, disturbances, bound) ==
    [worktrees |-> trees, owners |-> Owners, disturbances |-> disturbances, faults |-> bound]

\* Two Workspaces compete for one Worktree with a fault, or for two in any modes.
Competing == {With({1}, {"mount", "suspend", "topology"}, 1), With({1, 2}, {"suspend"}, 0)}
Used(owners, disturbances, bound) == [With({1}, disturbances, bound) EXCEPT !.owners = owners]

\* A Workspace and a WorktreeExec whose storage is deleted or whose executions
\* run, WorktreeExecs with vanishing Jobs, deletions and failing calls, or one
\* with informer caches that lag.
Executing ==
    {Used({a, x}, {"mount", "suspend", "storage"}, 0),
     Used({a, x}, {"suspend", "storage", "execution"}, 0),
     Used({a, x}, {"mount", "suspend", "execution"}, 0),
     Used({x, y}, {"storage", "job", "deleteExec"}, 0),
     Used({x, y}, {"job", "deleteExec"}, 1),
     Used({x}, {"storage", "job", "deleteExec"}, 2),
     Used({x}, {"lag"}, 0)}

\* Workspaces whose users mount, suspend and delete, or one whose dependencies
\* go missing as well.
Living ==
    {Used({a, b}, {"mount", "suspend", "delete"}, 0),
     Used({a}, {"mount", "suspend", "delete", "dependency"}, 0)}

Sharing == Executing \cup Living
Downgrading == {With({1}, {"mount", "downgrade"}, 0)}

=============================================================================
