--------------------------- MODULE EnvironmentsMC ---------------------------
(***************************************************************************)
(* Small instances of Environments: two executions of one Environment.     *)
(***************************************************************************)
EXTENDS Environments

MCExecs == {"a", "b"}

Calm == [execs |-> {"a"}, stops |-> FALSE, home |-> FALSE, rejects |-> FALSE, idle |-> FALSE,
         commits |-> 1, edits |-> 0, faults |-> 0, losses |-> 0]

\* Two executions around commits and edits, with stops or with a failing pass.
Editing == {[Calm EXCEPT !.execs = {"a", "b"}, !.stops = TRUE, !.edits = 1],
            [Calm EXCEPT !.execs = {"a", "b"}, !.commits = 2, !.faults = 1, !.edits = 1]}

\* A Workspace that clones the Environment while it is committed.
Cloning == {[Calm EXCEPT !.home = TRUE, !.commits = 2, !.faults = 1, !.edits = 1],
            [Calm EXCEPT !.home = TRUE, !.rejects = TRUE, !.commits = 0]}

\* An editor that is lost or times out between executions.
Losing == {[Calm EXCEPT !.execs = {"a", "b"}, !.commits = 0, !.idle = TRUE, !.losses = 1, !.stops = TRUE],
           [Calm EXCEPT !.idle = TRUE, !.losses = 1, !.faults = 1]}

MCLoads == Editing \cup Cloning \cup Losing

\* An execution that is stopped before its editor is ready, around a commit.
Rushed == {[Calm EXCEPT !.stops = TRUE]}
=============================================================================
