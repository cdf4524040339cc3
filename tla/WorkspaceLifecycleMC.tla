----------------------- MODULE WorkspaceLifecycleMC -----------------------
(***************************************************************************)
(* Small instances of WorkspaceLifecycle: executions "a" and "b" of one    *)
(* Workspace, and loads that each exercise a part of its life.             *)
(***************************************************************************)
EXTENDS WorkspaceLifecycle

MCUids == {"a", "b"}
MCIdOf == [u \in MCUids |-> u]

Quiet == [uids |-> {"a"}, unresolved |-> {}, lag |-> FALSE, direct |-> FALSE, users |-> {}, faults |-> 0, pods |-> 1,
          ticks |-> 1, edits |-> 0, touch |-> FALSE, retention |-> FALSE, prune |-> FALSE,
          temporary |-> FALSE, idle |-> 0, maxRun |-> 0, deleteAfter |-> 0]

\* Starts under failures, with and without a lagging cache, and one whose
\* credentials cannot be resolved.
Faulty == {[Quiet EXCEPT !.unresolved = {"a"}, !.users = {"stop", "delete"}, !.faults = 1, !.pods = 2],
           [Quiet EXCEPT !.direct = TRUE, !.users = {"stop", "delete"}, !.faults = 2, !.pods = 2, !.prune = TRUE],
           [Quiet EXCEPT !.lag = TRUE, !.users = {"stop"}, !.faults = 1, !.pods = 2, !.prune = TRUE]}

\* An idle Workspace, with records that expire and work that is reported.
Idling == {[Quiet EXCEPT !.ticks = 5, !.retention = TRUE, !.idle = 2, !.touch = TRUE],
           [Quiet EXCEPT !.uids = {"a", "b"}, !.ticks = 3, !.retention = TRUE, !.idle = 1]}

\* Deletion of a temporary and of a suspended Workspace, with late executions.
Expiring == {[Quiet EXCEPT !.ticks = 3, !.retention = TRUE, !.temporary = TRUE, !.faults = 1],
             [Quiet EXCEPT !.ticks = 4, !.retention = TRUE, !.deleteAfter = 1, !.edits = 2, !.pods = 2]}

\* A run that reaches its maximum.
Overdue == {[Quiet EXCEPT !.ticks = 3, !.retention = TRUE, !.maxRun = 1]}

\* A lost answer and a history that is pruned, the cache up to date.
Pruning == {[Quiet EXCEPT !.faults = 1, !.prune = TRUE]}

MCLoads == Faulty \cup Idling \cup Expiring \cup Overdue
===========================================================================
