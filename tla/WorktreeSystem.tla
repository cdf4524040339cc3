--------------------------- MODULE WorktreeSystem ---------------------------
(***************************************************************************)
(* Everything that writes to Worktrees: Workspaces and WorktreeExecs with  *)
(* the Worktree controller that sweeps their holds and cleans up behind    *)
(* them.                                                                   *)
(***************************************************************************)
EXTENDS WorkspaceMounts, WorktreeExecs

\* A holder key starts with the kind of its owner.
ASSUME KindsAssumption == Workspaces \cap Execs = {}

vars == <<storeVars, workspaceVars, execVars>>

\* Every variable has its type.
TypeOK == StoreTypeOK /\ WorkspaceTypeOK /\ ExecTypeOK

Init == StoreInit /\ WorkspaceInit /\ ExecInit

\* ReferenceBlockers: a Workspace object whose spec mounts the Worktree.
Referenced(t) == \E w \in Workspaces : spec[w].desired # "Gone" /\ spec[w].mounts[t] # "none"

\* claimInUse: a Pod that has not terminated mounts the volume.
InUse(t) ==
    \/ \E w \in Workspaces : RunsOn(w, t)
    \/ \E e \in Execs : target[e] = t /\ Writing(e)

Cleanup(t) == CleanupPass(t, Referenced(t), InUse(t)) /\ UNCHANGED <<workspaceVars, execVars>>

Sweep(e) == SweepExec(e, InUse(target[e])) /\ UNCHANGED workspaceVars

Storage(t) ==
    /\ DeleteWorktree(t) \/ DeleteVolume(t) \/ VolumeGone(t, InUse(t))
    /\ UNCHANGED <<workspaceVars, execVars>>

Next ==
    \/ WorkspaceNext /\ UNCHANGED execVars
    \/ ExecNext /\ UNCHANGED workspaceVars
    \/ \E e \in Execs : Sweep(e)
    \/ \E t \in Worktrees : Cleanup(t) \/ Storage(t)

Spec == Init /\ [][Next /\ UNCHANGED load]_<<vars, load>>

(* Fairness: a reconcile request is retried until it succeeds and requeues *)
(* what waits; Kubernetes finishes what it was asked to do, commands end.  *)

\* What a Workspace pass reads is watched: its Pod, Worktrees and executions.
WorkspacesKeepUp ==
    \A w \in Workspaces :
        /\ WF_vars(PassStep(w) /\ UNCHANGED <<faults, execVars>>)
        /\ WF_vars((PodReady(w) \/ PodGone(w)) /\ UNCHANGED <<faults, execVars>>)
        /\ \A t \in Worktrees :
            WF_vars((HelperReady(w, t) \/ CleanerSucceeds(w, t) \/ HelperGone(w, t))
                        /\ UNCHANGED <<faults, execVars>>)

ExecsKeepUp ==
    \A e \in Execs :
        /\ WF_vars(ExecStep(e) /\ UNCHANGED workspaceVars)
        /\ WF_vars(JobController(e) /\ UNCHANGED <<storeVars, workspaceVars, target, exec, seen, execPass>>)
        /\ WF_vars(Sync(e) /\ UNCHANGED <<storeVars, workspaceVars, target, exec, job, jobPod, execPass, starts>>)

\* A changed Workspace, and a changed WorktreeExec, enqueue their Worktrees.
WorktreesKeepUp ==
    /\ \A e \in Execs : WF_vars(Sweep(e))
    /\ \A t \in Worktrees : WF_vars(Cleanup(t))

Fairness == WorkspacesKeepUp /\ ExecsKeepUp /\ WorktreesKeepUp

FairSpec == Spec /\ Fairness

-----------------------------------------------------------------------------
(* Safety.                                                                 *)

\* Who can write to a Worktree now.
Writers(t) ==
    {w \in Workspaces : Live(w, t) /\ helper[w][t].mode = "write"} \cup
    {e \in Execs : target[e] = t /\ Writing(e)}

\* One Worktree is written by one running Workspace or WorktreeExec at a time.
OneWriter == \A t \in Worktrees : Cardinality(Writers(t)) <= 1

\* What is mounted is held: a helper whose bind mount may be in place is covered
\* by a hold of its mode, a running command by a write hold.  Holds are given
\* back only after the last consumer stopped.  Left out, as in VolumeProtected:
\* a WorktreeExec that is deleted, or taken for finished from a lagging cache.
ConsumersHeld ==
    \A t \in Worktrees :
        /\ \A w \in Workspaces : Live(w, t) => hold[t].mode[w] \in {"write", helper[w][t].mode}
        /\ \A e \in Execs : target[e] = t /\ Writing(e) /\ exec[e].phase # "deleted" /\ "lag" \notin Disturbances
                            => hold[t].mode[e] = "write"

\* The volume loses its protection only when nothing mounts it, and nothing
\* mounts it afterwards.  Left out: a WorktreeExec that is deleted, or taken for
\* finished from a cache that lags, before the Job controller has started its Pod.
VolumeProtected ==
    \A t \in Worktrees :
        Disturbances \cap {"deleteExec", "lag"} = {} /\ volume[t] \in {"released", "gone"} => ~InUse(t) /\ \A w \in Workspaces : ~Live(w, t)

\* A command is started at most once.
CommandOnce == \A e \in Execs : starts[e] <= 1

\* Once a result is recorded the command does not run and will not start,
\* unless the pass that recorded it read the Job from a cache that lags.
ResultIsFinal ==
    \A e \in Execs :
        exec[e].phase = "done" /\ "lag" \notin Disturbances => ~Writing(e) /\ job[e] # "created"

\* How each owner uses a Worktree.
UsersOf(t) ==
    [o \in Owners |->
        IF o \in Workspaces THEN (IF Live(o, t) THEN {helper[o][t].mode} ELSE {})
        ELSE IF o \in Execs /\ target[o] = t /\ Writing(o) THEN {"write"} ELSE {}]

Access(t) ==
    INSTANCE AccessFence WITH
        hold <- hold[t], users <- UsersOf(t), Modes <- MountModes, NoMode <- "none",
        Excludes <- WriterExcludesWriter,
        Covers <- {<<"read", "read">>, <<"write", "write">>, <<"write", "read">>}

\* The controllers use every Worktree the way AccessFence allows: what mounts it
\* starts under a hold of its mode, a hold is weakened or dropped only when what
\* it covered has stopped, and nothing is granted past the fence.
\* (FenceSpec of every Worktree, with the quantifier inside the box.)
ImplementsFence ==
    /\ \A t \in Worktrees : Access(t)!FenceInit
    /\ [][\A t \in Worktrees : [Access(t)!FenceNext]_(Access(t)!fenceVars)]_vars

-----------------------------------------------------------------------------
(* Liveness.                                                               *)

AtRest(w) ==
    /\ pod[w].phase = "absent" /\ NoHelpers(w)
    /\ \A t \in Worktrees : hold[t].mode[w] = "none"

\* The Environment is there, and so is every Worktree object the spec mounts.
Resolvable(w) == deps[w] /\ \A t \in Mounted(spec[w]) : tree[t] # "gone"

\* An idle Workspace that stays suspended gives up its Pod, mounts and holds,
\* even when its storage closes.
SuspendReleases ==
    \A w \in Workspaces :
        <>[](spec[w].desired = "Suspended" /\ ~active[w] /\ Resolvable(w)) => <>[]AtRest(w)

\* A deleted Workspace whose executions end is removed.
DeletionCompletes ==
    \A w \in Workspaces : ~<>[](spec[w].desired = "Deleted" /\ ~active[w])

\* A running Workspace wants the Worktrees its spec mounts.
Wants(w, t) == spec[w].desired = "Running" /\ spec[w].mounts[t] # "none"

\* Nothing stands in the way of w: its storage is open, it is idle, no other
\* Workspace wants what it wants or is kept from letting go, and no user left a
\* cleaned-up helper of the wanted mode behind.
Obtainable(w, t) ==
    /\ Wants(w, t) /\ ~active[w] /\ deps[w]
    /\ \A u \in Mounted(spec[w]) : ~MountsClosed(u)
    /\ \A v \in Workspaces \ {w} : ~active[v] /\ Resolvable(v) /\ \A u \in Mounted(spec[w]) : ~Wants(v, u)
    /\ \A u \in Worktrees : helper[w][u].phase # "cleaned" \/ helper[w][u].deleting

\* A Workspace that keeps asking for Worktrees nobody else wants any more gets
\* them: whoever held them suspends, unmounts or goes, and lets go.
MountsConverge ==
    \A w \in Workspaces, t \in Worktrees :
        <>[]Obtainable(w, t)
            => <>[](helper[w][t].phase = "ready" /\ helper[w][t].mode = spec[w].mounts[t])

\* An exec that no Workspace keeps from writing comes to an end and gives its
\* hold back.
ExecsFinish ==
    \A e \in Execs :
        <>[](\A w \in Workspaces : hold[target[e]].mode[w] # "write")
            => <>[](exec[e].phase \in {"done", "deleted"} /\ hold[target[e]].mode[e] = "none")

=============================================================================
