--------------------------- MODULE WorkspaceMounts ---------------------------
(***************************************************************************)
(* The Workspace controller on Linux as far as Worktree access goes: one   *)
(* runtime Pod per Workspace, one hot-mount helper Pod per mounted         *)
(* Worktree, and the holds that must cover them.  A reconcile pass runs on *)
(* a Workspace read once at its start; each of its API calls is a step     *)
(* that other passes, the kubelet and users interleave with.               *)
(*                                                                         *)
(* A worker reconciles one Workspace at a time, so a Workspace has at most *)
(* one pass.  Any call may fail: the pass then ends where it is.           *)
(***************************************************************************)
EXTENDS WorktreeStore, Functions

CONSTANTS
    Workspaces,         \* the owners that are Workspaces
    MaxEdits,           \* bound: spec edits of all Workspaces
    MaxTopology         \* bound: Pod topologies of one Workspace

ASSUME WorkspacesAssumption ==
    /\ Workspaces \subseteq Owners
    /\ MaxEdits \in Nat /\ MaxTopology \in Nat \ {0}

VARIABLES
    spec,       \* the Workspace object: mounts, topology, desired, gen
    active,     \* has a WorkspaceExec that is not terminal
    deps,       \* its Environment and projections resolve
    pod,        \* the runtime Pod and its annotations
    helper,     \* the helper Pod (and cleanup Pod) of each Worktree mount
    pass        \* the reconcile pass in progress

workspaceVars == <<spec, active, deps, pod, helper, pass>>

Mounts == [Worktrees -> {"none", "read", "write"}]
NoMounts == [t \in Worktrees |-> "none"]

Specs == [mounts : Mounts, topology : 1..MaxTopology, gen : 1..MaxEdits + 1,
          desired : {"Running", "Suspended", "Deleted", "Gone"}]

NoPod == [phase |-> "absent", topology |-> 0, claims |-> {}, acked |-> 0]
Pods == [phase : {"absent", "starting", "ready", "terminal", "stopping"},
         topology : 0..MaxTopology, claims : SUBSET Worktrees, acked : 0..MaxEdits + 1]

\* "failed" leaves its bind mount on the node; "cleaning" and "cleaned" have a
\* cleanup Pod beside them; "cleaner" is a cleanup Pod whose helper is gone.
HelperPhases == {"absent", "starting", "ready", "failed", "cleaning", "cleaned", "cleaner"}
NoHelper == [phase |-> "absent", mode |-> "none", deleting |-> FALSE]
Helpers == [phase : HelperPhases, mode : {"none", "read", "write"}, deleting : BOOLEAN]

PassSteps == {"idle", "resolve", "admit", "create", "verify", "topology", "readmit",
              "hot", "retain", "ack"}
Passes == [pc : PassSteps, spec : Specs, active : BOOLEAN, ready : BOOLEAN, todo : SUBSET Worktrees]

NewSpec == [mounts |-> NoMounts, topology |-> 1, gen |-> 1, desired |-> "Running"]
NoPass == [pc |-> "idle", spec |-> NewSpec, active |-> FALSE, ready |-> FALSE, todo |-> {}]

WorkspaceTypeOK ==
    /\ spec \in [Workspaces -> Specs]
    /\ active \in [Workspaces -> BOOLEAN]
    /\ deps \in [Workspaces -> BOOLEAN]
    /\ pod \in [Workspaces -> Pods]
    /\ helper \in [Workspaces -> [Worktrees -> Helpers]]
    /\ pass \in [Workspaces -> Passes]

Writes(s) == {t \in Worktrees : s.mounts[t] = "write"}
Mounted(s) == {t \in Worktrees : s.mounts[t] # "none"}

\* A Workspace that the load leaves out is gone.
WorkspaceInit ==
    /\ spec \in [Workspaces -> {[NewSpec EXCEPT !.mounts = m] : m \in Mounts} \cup
                               {[NewSpec EXCEPT !.desired = "Gone"]}]
    /\ \A w \in Workspaces :
          /\ Mounted(spec[w]) \subseteq load.worktrees
          /\ spec[w].desired = IF w \in load.owners THEN "Running" ELSE "Gone"
    /\ active = [w \in Workspaces |-> FALSE]
    /\ deps = [w \in Workspaces |-> TRUE]
    /\ pod = [w \in Workspaces |-> NoPod]
    /\ helper = [w \in Workspaces |-> [t \in Worktrees |-> NoHelper]]
    /\ pass = [w \in Workspaces |-> NoPass]

\* The bind mount of the helper may be in place.
Live(w, t) == helper[w][t].phase \in {"starting", "ready", "failed", "cleaning"}

\* claimInUse: a Pod that has not terminated mounts the volume.
RunsOn(w, t) == helper[w][t].phase \in {"starting", "ready"}

\* Mutant: a helper that is stopping or failed counts as gone.
NoHelpersStopping(w) == \A t \in Worktrees : ~RunsOn(w, t) \/ helper[w][t].deleting

NoHelpers(w) == \A t \in Worktrees : helper[w][t].phase = "absent"

-----------------------------------------------------------------------------
(* Steps every pass is made of.                                            *)

At(w, step) == pass[w].pc = step

GoTo(w, step) == pass' = [pass EXCEPT ![w].pc = step]

\* A loop over the Worktrees in S at one step, then the next step.
Loop(w, step, S, then) ==
    pass' = [pass EXCEPT ![w].pc = IF S = {} THEN then ELSE step, ![w].todo = S]

\* The pass returns; the next one reads everything again.
End(w) == pass' = [pass EXCEPT ![w] = NoPass]

KeepUsers == UNCHANGED <<spec, active, deps>>
KeepStore == UNCHANGED <<hold, tree, volume>>

\* What one call of reconcileHotMounts does about the helpers in S that must
\* go: cleanup Pods left behind first, then a failed helper is cleaned on its
\* node, then it is deleted.
DropHelper(w, S) ==
    LET orphans == {t \in Worktrees : helper[w][t].phase = "cleaner"}
    IN IF orphans # {}
       THEN \E t \in orphans : helper' = [helper EXCEPT ![w][t].deleting = TRUE]
       ELSE \E t \in S :
              helper' = CASE helper[w][t].phase = "failed" -> [helper EXCEPT ![w][t].phase = "cleaning"]
                          [] helper[w][t].phase = "cleaning" -> helper
                          [] OTHER -> [helper EXCEPT ![w][t].deleting = TRUE]

\* removeHotMounts that has not removed everything yet.
Unmount(w) ==
    /\ ~NoHelpers(w)
    /\ DropHelper(w, {t \in Worktrees : helper[w][t].phase # "absent"})
    /\ UNCHANGED <<hold, pod>>

\* MountAccess.Admit also refuses a Workspace that is being deleted.
OwnerLive(w) == spec[w].desired \in {"Running", "Suspended"}
MayHold(w, t, m) == OwnerLive(w) /\ MayMount(t, w, m)

\* What a pass writes when it asks for the mount.
AfterRequest(w, t, m) == IF OwnerLive(w) THEN AfterAdmit(t, w, m) ELSE hold

Conflicting(w, t, m) == OwnerLive(w) /\ ~Fenced(t).closed /\ Conflicts(hold[t], w, m) # {}

ReleaseAll(w) == hold' = AfterRetain(w, KeepNothing)

\* Helpers first, then the runtime Pod, if it is still there.
UnmountThenStop(w) ==
    \/ Unmount(w)
    \/ /\ NoHelpers(w)
       /\ pod' = IF pod[w].phase = "absent" THEN pod ELSE [pod EXCEPT ![w].phase = "stopping"]
       /\ UNCHANGED <<hold, helper>>

-----------------------------------------------------------------------------
(* The reconcile pass.                                                     *)

\* A pass of a Workspace that is not being deleted starts with releaseClaims:
\* holds go once the Pod and every helper are gone.
BeginPass(w) ==
    /\ At(w, "idle") /\ OwnerLive(w)
    /\ pass' = [pass EXCEPT ![w].spec = spec[w], ![w].pc = "resolve"]
    /\ CASE pod[w].phase # "absent" -> UNCHANGED <<hold, helper, pod>>
         [] pod[w].phase = "absent" /\ NoHelpers(w) -> ReleaseAll(w) /\ UNCHANGED <<helper, pod>>
         [] OTHER -> Unmount(w)
    /\ KeepUsers /\ UNCHANGED <<tree, volume>>

\* reconcileRuntimeRecovery: a terminal Pod of a running Workspace is replaced
\* after its executions are terminal.
Recover(w) ==
    /\ End(w)
    /\ IF active[w] THEN UNCHANGED <<hold, pod, helper>> ELSE UnmountThenStop(w)

\* Mutant: closing storage is reported as missing.
ResolutionStrict(w, s) ==
    IF deps[w] /\ \A t \in Mounted(s) : ~MountsClosed(t) THEN "ok" ELSE "missing"

\* The first problem of the Environment and then of the mounts, in order.
Resolution(w, s) ==
    LET closed == {t \in Mounted(s) : MountsClosed(t)}
    IN CASE ~deps[w] -> "missing"
         [] deps[w] /\ closed = {} -> "ok"
         [] OTHER -> IF tree[FirstOf(closed)] = "gone" THEN "missing" ELSE "closing"

\* suspendWorkspace.
Suspend(w) ==
    /\ End(w)
    /\ CASE active[w] -> UNCHANGED <<hold, pod, helper>>
         [] ~active[w] /\ NoHelpers(w) /\ pod[w].phase = "absent" ->
               ReleaseAll(w) /\ UNCHANGED <<pod, helper>>
         [] OTHER -> UnmountThenStop(w)

\* Without a Pod: remove old helpers, release old holds, then admit the mounts.
StartRuntime(w) ==
    IF NoHelpers(w)
    THEN /\ ReleaseAll(w)
         /\ Loop(w, "admit", Mounted(pass[w].spec), "create")
         /\ UNCHANGED <<pod, helper>>
    ELSE Unmount(w) /\ End(w)

\* With a Pod: verify what it may write, by the spec or by its annotation.
CheckRuntime(w) ==
    LET s == pass[w].spec
        claims == IF pod[w].topology = s.topology THEN Writes(s) ELSE pod[w].claims
    IN /\ pass' = [pass EXCEPT
            ![w].pc = IF claims = {} THEN "topology" ELSE "verify", ![w].todo = claims,
            ![w].active = active[w], ![w].ready = pod[w].phase = "ready"]
       /\ UNCHANGED <<hold, pod, helper>>

\* Recover a terminal Pod, resolve the dependencies, then suspend, start or
\* verify the runtime.  Storage that closes does not keep a Workspace from
\* suspending.
Resolve(w) ==
    /\ At(w, "resolve")
    /\ LET s == pass[w].spec
           found == Resolution(w, s)
           phase == pod[w].phase
       IN CASE s.desired = "Running" /\ phase = "terminal" -> Recover(w)
            [] s.desired = "Suspended" /\ found # "missing" -> Suspend(w)
            [] s.desired = "Running" /\ found = "ok" /\ phase = "absent" -> StartRuntime(w)
            [] s.desired = "Running" /\ found = "ok" /\ phase \in {"starting", "ready"} -> CheckRuntime(w)
            [] OTHER -> End(w) /\ UNCHANGED <<hold, pod, helper>>
    /\ KeepUsers /\ UNCHANGED <<tree, volume>>

\* admitWorktreeMounts before the Pod is created: one Worktree at a time in
\* name order.  A writer conflict gives up every hold, a closed fence none.
AdmitMount(w) ==
    /\ At(w, "admit")
    /\ LET t == FirstOf(pass[w].todo)
           m == pass[w].spec.mounts[t]
       IN CASE MayHold(w, t, m) ->
                 /\ hold' = AfterRequest(w, t, m)
                 /\ Loop(w, "admit", pass[w].todo \ {t}, "create")
            [] Conflicting(w, t, m) -> ReleaseAll(w) /\ End(w)
            [] OTHER -> UNCHANGED hold /\ End(w)
    /\ KeepUsers /\ UNCHANGED <<tree, volume, pod, helper>>

CreatePod(w) ==
    /\ At(w, "create")
    /\ End(w)
    /\ pod' = [pod EXCEPT ![w] = [phase |-> "starting", topology |-> pass[w].spec.topology,
                                  claims |-> Writes(pass[w].spec), acked |-> 0]]
    /\ KeepUsers /\ KeepStore /\ UNCHANGED helper

\* The API server rejects the Pod: nothing was created from the holds.
PodRejected(w) ==
    /\ At(w, "create")
    /\ Fault
    /\ End(w) /\ ReleaseAll(w)
    /\ KeepUsers /\ UNCHANGED <<tree, volume, pod, helper>>

\* verifyWriteClaims: a refused Worktree that a helper uses stops the runtime,
\* any other refusal ends the pass.
VerifyClaim(w) ==
    /\ At(w, "verify")
    /\ LET t == FirstOf(pass[w].todo)
           kept == \/ tree[t] = "gone" \/ MayHold(w, t, "write")
                   \/ OwnerLive(w) /\ StillHeld(t, w, "write")
           used == helper[w][t].phase \notin {"absent", "cleaner"}
       IN CASE kept -> /\ hold' = AfterRequest(w, t, "write")
                       /\ Loop(w, "verify", pass[w].todo \ {t}, "topology")
                       /\ UNCHANGED <<pod, helper>>
            [] ~kept /\ used -> UnmountThenStop(w) /\ End(w)
            [] OTHER -> UNCHANGED <<hold, pod, helper>> /\ End(w)
    /\ KeepUsers /\ UNCHANGED <<tree, volume>>

\* An idle Pod of another topology is replaced; a Pod that is ready goes on.
Topology(w) ==
    /\ At(w, "topology")
    /\ CASE pod[w].topology # pass[w].spec.topology /\ ~pass[w].active -> UnmountThenStop(w) /\ End(w)
         [] pod[w].topology = pass[w].spec.topology /\ pass[w].ready ->
               Loop(w, "readmit", Mounted(pass[w].spec), "hot") /\ UNCHANGED <<hold, pod, helper>>
         [] OTHER -> End(w) /\ UNCHANGED <<hold, pod, helper>>
    /\ KeepUsers /\ UNCHANGED <<tree, volume>>

\* admitWorktreeMounts of a ready runtime, with the modes of the spec.
Readmit(w) ==
    /\ At(w, "readmit")
    /\ LET t == FirstOf(pass[w].todo)
           m == pass[w].spec.mounts[t]
       IN /\ hold' = AfterRequest(w, t, m)
          /\ IF MayHold(w, t, m) THEN Loop(w, "readmit", pass[w].todo \ {t}, "hot") ELSE End(w)
    /\ KeepUsers /\ UNCHANGED <<tree, volume, pod, helper>>

\* A helper that does not match the mounts; the Pod it was made for need not
\* be compared, for a Pod is only created once every helper is gone.
Mismatched(w, t) == helper[w][t].mode # pass[w].spec.mounts[t]

\* reconcileHotMounts: helpers and cleanup Pods that must go, then one missing
\* helper, then wait until all are ready.
HotMounts(w) ==
    /\ At(w, "hot")
    /\ LET s == pass[w].spec
           phase(t) == helper[w][t].phase
           orphans == {t \in Worktrees : phase(t) = "cleaner"}
           broken == {t \in Worktrees : phase(t) \in {"failed", "cleaning"}}
           wrong == {t \in Worktrees : phase(t) \in {"starting", "ready", "cleaned"} /\ Mismatched(w, t)}
           missing == {t \in Mounted(s) : phase(t) = "absent"}
       IN CASE orphans # {} -> DropHelper(w, {}) /\ End(w)
            [] orphans = {} /\ broken \cup wrong # {} ->
                  /\ \E t \in broken \cup wrong :
                        IF t \in wrong /\ pass[w].active THEN UNCHANGED helper ELSE DropHelper(w, {t})
                  /\ End(w)
            [] orphans \cup broken \cup wrong = {} /\ missing # {} ->
                  /\ \E t \in missing : helper' =
                        [helper EXCEPT ![w][t] = [phase |-> "starting", mode |-> s.mounts[t], deleting |-> FALSE]]
                  /\ End(w)
            [] OTHER ->
                  /\ IF \A t \in Mounted(s) : phase(t) = "ready" THEN GoTo(w, "retain") ELSE End(w)
                  /\ UNCHANGED helper
    /\ KeepUsers /\ KeepStore /\ UNCHANGED pod

\* Mutant: the generation is acknowledged without giving anything back.
RetainNothing(w) ==
    /\ At(w, "retain")
    /\ IF pod[w].acked = pass[w].spec.gen THEN End(w) ELSE GoTo(w, "ack")
    /\ KeepUsers /\ UNCHANGED <<hold, tree, volume, pod, helper>>

\* releaseOldWorktreeMounts, once per generation.
RetainHolds(w) ==
    /\ At(w, "retain")
    /\ IF pod[w].acked = pass[w].spec.gen THEN End(w) /\ UNCHANGED hold
       ELSE hold' = AfterRetain(w, pass[w].spec.mounts) /\ GoTo(w, "ack")
    /\ KeepUsers /\ UNCHANGED <<tree, volume, pod, helper>>

\* The generation is acknowledged on the Pod after cleanup succeeded.
Acknowledge(w) ==
    /\ At(w, "ack")
    /\ pod' = IF pod[w].phase = "absent" THEN pod ELSE [pod EXCEPT ![w].acked = pass[w].spec.gen]
    /\ End(w)
    /\ KeepUsers /\ KeepStore /\ UNCHANGED helper

\* Mutant: finalization waits for an already absent Pod.
FinalizeWaits(w) ==
    /\ At(w, "idle") /\ spec[w].desired = "Deleted"
    /\ ~active[w] /\ UnmountThenStop(w)
    /\ UNCHANGED <<spec, active, deps, pass, tree, volume>>

\* finalizeWorkspace: executions, helpers and the Pod go before the holds.
Finalize(w) ==
    /\ At(w, "idle") /\ spec[w].desired = "Deleted"
    /\ CASE active[w] -> UNCHANGED <<hold, pod, helper, spec>>
         [] ~active[w] /\ NoHelpers(w) /\ pod[w].phase = "absent" ->
               /\ ReleaseAll(w)
               /\ spec' = [spec EXCEPT ![w].desired = "Gone", ![w].mounts = NoMounts]
               /\ UNCHANGED <<pod, helper>>
         [] OTHER -> UnmountThenStop(w) /\ UNCHANGED spec
    /\ UNCHANGED <<active, deps, pass, tree, volume>>

PassStep(w) ==
    \/ BeginPass(w) \/ Resolve(w) \/ AdmitMount(w) \/ CreatePod(w) \/ VerifyClaim(w)
    \/ Topology(w) \/ Readmit(w) \/ HotMounts(w) \/ RetainHolds(w) \/ Acknowledge(w)
    \/ Finalize(w)

-----------------------------------------------------------------------------
(* Users, executions, the kubelet and faults.                              *)

Edit(w, s) ==
    /\ SumFunction([v \in Workspaces |-> spec[v].gen - 1]) < MaxEdits
    /\ spec' = [spec EXCEPT ![w] = [s EXCEPT !.gen = @ + 1]]
    /\ KeepStore /\ UNCHANGED <<active, deps, pod, helper, pass>>

\* rcctl mount and unmount.  Without "downgrade" a writable mount turns
\* read-only only after its write hold is gone.
EditMount(w, t, m) ==
    /\ "mount" \in Disturbances
    /\ OwnerLive(w) /\ spec[w].mounts[t] # m
    /\ m = "read" => \/ "downgrade" \in Disturbances
                     \/ hold[t].mode[w] # "write" /\ pass[w].spec.mounts[t] # "write"
    /\ Edit(w, [spec[w] EXCEPT !.mounts[t] = m])

EditTopology(w) ==
    /\ "topology" \in Disturbances
    /\ OwnerLive(w) /\ spec[w].topology < MaxTopology
    /\ Edit(w, [spec[w] EXCEPT !.topology = @ + 1])

\* rcctl suspend, resume and delete.
SetDesired(w, d) ==
    /\ (IF d = "Deleted" THEN "delete" ELSE "suspend") \in Disturbances
    /\ OwnerLive(w) /\ spec[w].desired # d
    /\ Edit(w, [spec[w] EXCEPT !.desired = d])

\* A WorkspaceExec starts on a ready runtime; the last one becomes terminal.
ExecutionStarts(w) ==
    /\ "execution" \in Disturbances
    /\ ~active[w] /\ pod[w].phase = "ready" /\ spec[w].desired = "Running"
    /\ active' = [active EXCEPT ![w] = TRUE]
    /\ KeepStore /\ UNCHANGED <<spec, deps, pod, helper, pass>>

ExecutionsEnd(w) ==
    /\ active[w]
    /\ active' = [active EXCEPT ![w] = FALSE]
    /\ KeepStore /\ UNCHANGED <<spec, deps, pod, helper, pass>>

DependencyVanishes(w) ==
    /\ "dependency" \in Disturbances
    /\ deps[w]
    /\ deps' = [deps EXCEPT ![w] = FALSE]
    /\ KeepStore /\ UNCHANGED <<spec, active, pod, helper, pass>>

SetPod(w, p) ==
    /\ pod' = [pod EXCEPT ![w] = p]
    /\ KeepStore /\ UNCHANGED <<spec, active, deps, helper, pass>>

PodReady(w) ==
    pod[w].phase = "starting" /\ SetPod(w, [pod[w] EXCEPT !.phase = "ready"])

PodGone(w) == pod[w].phase = "stopping" /\ SetPod(w, NoPod)

SetHelper(w, t, h) ==
    /\ helper' = [helper EXCEPT ![w][t] = h]
    /\ KeepStore /\ UNCHANGED <<spec, active, deps, pod, pass>>

HelperReady(w, t) ==
    /\ helper[w][t].phase = "starting"
    /\ SetHelper(w, t, [helper[w][t] EXCEPT !.phase = "ready"])

CleanerSucceeds(w, t) ==
    /\ helper[w][t].phase = "cleaning"
    /\ SetHelper(w, t, [helper[w][t] EXCEPT !.phase = "cleaned"])

\* A deleted helper unmounts on its way out; its cleanup Pod stays behind.
HelperGone(w, t) ==
    /\ helper[w][t].deleting
    /\ SetHelper(w, t, IF helper[w][t].phase = "cleaned"
                       THEN [NoHelper EXCEPT !.phase = "cleaner"] ELSE NoHelper)

\* An API call fails, perhaps after it took effect, or the controller restarts.
PassFails(w) ==
    /\ ~At(w, "idle")
    /\ Fault
    /\ End(w)
    /\ KeepStore /\ UNCHANGED <<spec, active, deps, pod, helper>>

PodExits(w) ==
    pod[w].phase \in {"starting", "ready"} /\ Fault /\ SetPod(w, [pod[w] EXCEPT !.phase = "terminal"])

\* The Pod object disappears without the controller deleting it.
PodLost(w) == pod[w].phase # "absent" /\ Fault /\ SetPod(w, NoPod)

HelperFails(w, t) ==
    /\ RunsOn(w, t) /\ ~helper[w][t].deleting
    /\ Fault
    /\ SetHelper(w, t, [helper[w][t] EXCEPT !.phase = "failed"])

Kubelet(w) ==
    \/ PodReady(w) \/ PodGone(w)
    \/ \E t \in Worktrees : HelperReady(w, t) \/ CleanerSucceeds(w, t) \/ HelperGone(w, t)

Users(w) ==
    \/ \E t \in load.worktrees, m \in {"none", "read", "write"} : EditMount(w, t, m)
    \/ EditTopology(w)
    \/ \E d \in {"Running", "Suspended", "Deleted"} : SetDesired(w, d)
    \/ ExecutionStarts(w) \/ ExecutionsEnd(w) \/ DependencyVanishes(w)

Faults(w) ==
    \/ PassFails(w) \/ PodRejected(w) \/ PodExits(w) \/ PodLost(w)
    \/ \E t \in Worktrees : HelperFails(w, t)

WorkspaceNext ==
    \E w \in Workspaces :
        \/ (PassStep(w) \/ Kubelet(w) \/ Users(w)) /\ UNCHANGED faults
        \/ Faults(w)

=============================================================================
