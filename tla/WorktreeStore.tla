---------------------------- MODULE WorktreeStore ----------------------------
(***************************************************************************)
(* The Worktree as the components that mount it see it: its hold set, its  *)
(* deletion and the volume behind it, with the Worktree controller's       *)
(* cleanup.  HoldSet implements AccessFence, so every operation on a hold  *)
(* set is one step here.                                                   *)
(***************************************************************************)
EXTENDS Naturals, FiniteSets

CONSTANTS
    Owners,         \* holder keys: Workspaces and WorktreeExecs
    Worktrees,      \* Worktree names, ordered as numbers
    Loads           \* which Worktrees and owners are there, what users and the cluster do
                    \* to them, and the bound on failed calls, lost Pods and helpers

AllDisturbances ==
    {"mount", "downgrade", "topology", "suspend", "delete", "execution", "dependency",
     "storage", "job", "deleteExec", "lag"}

ASSUME WorktreesAssumption ==
    /\ Worktrees \subseteq Nat /\ IsFiniteSet(Worktrees)
    /\ Loads \subseteq [worktrees : SUBSET Worktrees, owners : SUBSET Owners,
                        disturbances : SUBSET AllDisturbances, faults : Nat]

MountModes == {"read", "write"}

\* Readers share a Worktree; a writer excludes other writers.
WriterExcludesWriter == {<<"write", "write">>}

INSTANCE HoldState WITH Modes <- MountModes, NoMode <- "none",
                        Excludes <- WriterExcludesWriter

VARIABLES
    load,       \* the load of this behaviour; it never changes
    hold,       \* each Worktree's hold set
    tree,       \* each Worktree object: live, deleting or gone
    volume,     \* its volume: bound, deleting (DELETE requested), released
                \* (rc's protection finalizer removed) or gone
    faults      \* faults so far

storeVars == <<hold, tree, volume, faults>>

Disturbances == load.disturbances
MaxFaults == load.faults

StoreTypeOK ==
    /\ load \in Loads
    /\ hold \in [Worktrees -> HoldStates]
    /\ tree \in [Worktrees -> {"live", "deleting", "gone"}]
    /\ volume \in [Worktrees -> {"bound", "deleting", "released", "gone"}]
    /\ faults \in 0..MaxFaults

StoreInit ==
    /\ load \in Loads
    /\ hold = [t \in Worktrees |-> EmptySet]
    /\ tree = [t \in Worktrees |-> "live"]
    /\ volume = [t \in Worktrees |-> "bound"]
    /\ faults = 0

Fault == faults < MaxFaults /\ faults' = faults + 1

FirstOf(S) == CHOOSE t \in S : \A u \in S : t <= u

MountsClosed(t) == tree[t] # "live" \/ hold[t].closed

-----------------------------------------------------------------------------
(* MountAccess.                                                            *)

\* Admission also treats a deletion timestamp as the fence.
Fenced(t) == [hold[t] EXCEPT !.closed = @ \/ tree[t] # "live"]

\* Mutant: a conflict does not refuse the mount.
MayMountShared(t, o, m) == tree[t] # "gone" /\ ~Fenced(t).closed

MayMount(t, o, m) == tree[t] # "gone" /\ Admitted(Fenced(t), o, m)

StillHeld(t, o, m) == tree[t] # "gone" /\ Held(hold[t], o, m)

\* The hold sets after MountAccess.Admit.
AfterAdmit(t, o, m) ==
    IF tree[t] = "gone" THEN hold
    ELSE [hold EXCEPT ![t].mode = Admit(Fenced(t), o, m).mode]

AfterRelease(t, o) == [hold EXCEPT ![t] = Remove(hold[t], o)]

\* MountAccess.Retain over every Worktree: holds absent from keep are removed
\* and a write hold becomes a read hold where keep only reads.
AfterRetain(o, keep) ==
    [t \in Worktrees |->
        IF hold[t].mode[o] = "none" \/ keep[t] = "write" THEN hold[t]
        ELSE IF keep[t] = "none" THEN Remove(hold[t], o) ELSE Put(hold[t], o, "read")]

KeepNothing == [t \in Worktrees |-> "none"]

-----------------------------------------------------------------------------
(* The Worktree controller and the API server.                             *)

DeleteWorktree(t) ==
    /\ "storage" \in Disturbances
    /\ tree[t] = "live"
    /\ tree' = [tree EXCEPT ![t] = "deleting"]
    /\ UNCHANGED <<hold, volume, faults>>

\* A direct DELETE of the volume claim; rc's finalizer keeps it for now.
DeleteVolume(t) ==
    /\ "storage" \in Disturbances
    /\ volume[t] = "bound"
    /\ volume' = [volume EXCEPT ![t] = "deleting"]
    /\ UNCHANGED <<hold, tree, faults>>

NeedsCleanup(t) ==
    /\ tree[t] # "gone"
    /\ tree[t] = "deleting" \/ hold[t].closed \/ volume[t] \in {"deleting", "gone"}

\* Mutant: cleanup looks at running Pods only.
CleanupReadyNow(t, referenced, inUse) ==
    /\ tree[t] = "deleting" => ~referenced
    /\ ~inUse

\* Nothing admitted before the fence, no Workspace that mounts a deleting
\* Worktree and no running Pod is left.
CleanupReady(t, referenced, inUse) ==
    /\ Holders(hold[t]) = {}
    /\ tree[t] = "deleting" => ~referenced
    /\ ~inUse

\* One cleanup pass: close admission, then release the volume's protection and,
\* for a deleting Worktree, its finalizer.  Between the two nothing can be
\* admitted, so a pass is one step.
CleanupPass(t, referenced, inUse) ==
    /\ NeedsCleanup(t)
    /\ hold' = [hold EXCEPT ![t] = Close(hold[t])]
    /\ IF CleanupReady(t, referenced, inUse)
       THEN \/ /\ volume[t] = "deleting"
               /\ volume' = [volume EXCEPT ![t] = "released"]
               /\ UNCHANGED tree
            \/ /\ volume[t] # "deleting"
               /\ IF tree[t] = "deleting"
                  THEN /\ tree' = [tree EXCEPT ![t] = "gone"]
                       /\ volume' = [volume EXCEPT ![t] =
                              IF volume[t] = "bound" THEN "released" ELSE volume[t]]
                  ELSE UNCHANGED <<tree, volume>>
       ELSE UNCHANGED <<tree, volume>>
    /\ UNCHANGED faults

\* Kubernetes removes a released claim once no Pod uses it.
VolumeGone(t, inUse) ==
    /\ volume[t] = "released" /\ ~inUse
    /\ volume' = [volume EXCEPT ![t] = "gone"]
    /\ UNCHANGED <<hold, tree, faults>>

=============================================================================
