------------------------- MODULE WorktreeBootstrap -------------------------
(***************************************************************************)
(* One Worktree from its creation to a checkout that Workspaces may mount: *)
(* the clone of the Repository's volume is planned and created, becomes    *)
(* Bound, and is checked out by a bootstrap Job or, when the Worktree was  *)
(* generated for a Workspace, by an init container of the Pod that mounts  *)
(* it first.                                                               *)
(*                                                                         *)
(* RepositoryParent has the parent's side of the reservation and           *)
(* WorktreeStore the deletion of the Worktree itself; here the reservation *)
(* is a flag, and the fence and the write hold are one owner.  The         *)
(* Worktree and its claim are read from the API server, the Job from a     *)
(* cache that may lag.  (A Workspace's cached read of the status is        *)
(* covered too: its pass may rest between the read and the Pod.)           *)
(***************************************************************************)
EXTENDS Naturals

CONSTANTS
    Users,          \* Workspaces whose spec mounts the Worktree
    Nobody,
    Specs,          \* Worktree specs to try
    Sources,        \* first observations of the parent's volume claim
    MaxSize,        \* bound: sizes of volumes
    MaxFaults       \* bound: failed passes and Jobs that vanish unread

Sizes == 1..MaxSize
Modes == {"ReadWriteOnce", "ReadOnlyMany", "ReadWriteMany", "ReadWriteOncePod"}

\* Size 0 and no mode: inherit.  Claims of size 0 have not been reported.
SpecSet == [deferred : BOOLEAN, size : 0..MaxSize, modes : SUBSET Modes]
SourceSet == [bound : BOOLEAN, filesystem : BOOLEAN, request : Sizes, capacity : 0..MaxSize,
              modes : SUBSET Modes]

ASSUME BootstrapAssumption ==
    /\ Nobody \notin Users
    /\ MaxSize \in Nat \ {0} /\ MaxFaults \in Nat
    /\ Specs \subseteq SpecSet /\ Sources \subseteq SourceSet

VARIABLES
    spec,       \* the Worktree's spec, which is immutable
    repo,       \* the Repository: its size, and whether it can be cloned
    source,     \* the parent's volume claim
    volume,     \* the child: its claim, its size and how many were created
    checkout,   \* what is on the child: cloned, partial or whole
    status,     \* the Worktree's conditions and the claim it records
    reserved,   \* the clone's reservation of the parent
    closed,     \* the fence of the hold set
    holder,     \* who holds the Worktree
    usedBy,     \* status.usedBy
    job,        \* the bootstrap Job
    jobPods,    \* how many Pods of bootstrap Jobs run
    seenJob,    \* the Job in the controller's cache
    pod,        \* the Pod of each user and its init container
    mounting,   \* each user's pass between resolving the mount and its Pod
    pass,       \* the reconcile pass of the Worktree
    worked,     \* the child a user's Pod has run on, 0 for none
    lost,       \* a bootstrap Job was deleted before its Pod had ended
    faults

objects == <<repo, source, volume, checkout, job, jobPods, seenJob>>
users == <<closed, holder, pod, mounting, worked>>
control == <<spec, faults, lost>>
vars == <<objects, users, control, status, reserved, usedBy, pass>>

Waits == {"none", "RepositoryNotFound", "RepositoryFailed", "RepositoryNotReady", "CloneSourceNotReady",
          "CloneSizeTooSmall", "CloneStorageInvalid", "Provisioning"}
Reasons == Waits \cup {"VolumeClaimSpecChanged", "WaitingForWorkspace", "Initializing", "BootstrapFailed",
                       "WorktreeReady", "VolumeDeleting", "VolumeDeleted"}
JobStates == {"absent", "created", "active", "succeeded", "failed"}

NoPod == [phase |-> "absent", init |-> FALSE]
NoMounting == [pc |-> "idle", init |-> FALSE]
NoPass == [pc |-> "idle", bound |-> FALSE, ready |-> FALSE, size |-> 0, modes |-> {},
           reason |-> "none"]

\* Every variable has its type.
TypeOK ==
    /\ spec \in Specs
    /\ repo \in [state : {"absent", "waiting", "busy", "ready", "failed"}, size : Sizes]
    /\ source \in SourceSet
    /\ volume \in [phase : {"none", "pending", "bound", "deleting", "released"}, id : 0..2,
                  size : 0..MaxSize, modes : SUBSET Modes]
    /\ checkout \in {"cloned", "partial", "whole"}
    /\ status \in [reason : Reasons, volumeReady : BOOLEAN, recorded : BOOLEAN]
    /\ reserved \in BOOLEAN /\ closed \in BOOLEAN /\ lost \in BOOLEAN
    /\ holder \in Users \cup {Nobody} /\ usedBy \in Users \cup {Nobody}
    /\ job \in JobStates /\ seenJob \in JobStates /\ jobPods \in 0..2
    /\ pod \in [Users -> [phase : {"absent", "init", "failing", "running"}, init : BOOLEAN]]
    /\ mounting \in [Users -> [pc : {"idle", "admit", "create"}, init : BOOLEAN]]
    /\ pass \in [pc : {"idle", "close", "drain", "repository", "plan", "create", "claim", "volume",
                       "observe", "job", "status", "usage"},
                 bound : BOOLEAN, ready : BOOLEAN, size : 0..MaxSize, modes : SUBSET Modes, reason : Reasons]
    /\ worked \in 0..2 /\ faults \in 0..MaxFaults

Init ==
    /\ spec \in Specs /\ source \in Sources
    /\ repo \in [state : {"absent", "waiting"}, size : Sizes]
    /\ volume = [phase |-> "none", id |-> 0, size |-> 0, modes |-> {}] /\ checkout = "cloned"
    /\ status = [reason |-> "none", volumeReady |-> FALSE, recorded |-> FALSE]
    /\ reserved = FALSE /\ closed = FALSE /\ lost = FALSE
    /\ holder = Nobody /\ usedBy = Nobody
    /\ job = "absent" /\ seenJob = "absent" /\ jobPods = 0
    /\ pod = [u \in Users |-> NoPod] /\ mounting = [u \in Users |-> NoMounting]
    /\ pass = NoPass
    /\ worked = 0 /\ faults = 0

-----------------------------------------------------------------------------
(* Planning a clone.                                                       *)

Larger(a, b) == IF a > b THEN a ELSE b

\* Retryable: the claim exists, is Bound and reports its capacity.
Observable(s) == s.bound /\ s.capacity > 0

\* validateAccessModes
Writable(modes) ==
    /\ modes \cap {"ReadWriteOnce", "ReadWriteMany", "ReadWriteOncePod"} # {}
    /\ "ReadWriteOncePod" \in modes => modes = {"ReadWriteOncePod"}

Rejected(reason) == [reason |-> reason, size |-> 0, modes |-> {}]

\* PlanClone: the child holds at least what the parent requested and was given.
PlanClone(s, repoSize, w) ==
    LET minimum == Larger(s.request, s.capacity)
        size == IF w.size # 0 THEN w.size ELSE Larger(repoSize, minimum)
        modes == IF w.modes # {} THEN w.modes ELSE s.modes
    IN CASE ~Observable(s) -> Rejected("CloneSourceNotReady")
         [] Observable(s) /\ ~s.filesystem -> Rejected("CloneStorageInvalid")
         [] Observable(s) /\ s.filesystem /\ size < minimum -> Rejected("CloneSizeTooSmall")
         [] Observable(s) /\ s.filesystem /\ size >= minimum ->
              IF Writable(modes) THEN [reason |-> "none", size |-> size, modes |-> modes] ELSE Rejected("CloneStorageInvalid")

-----------------------------------------------------------------------------
(* The Worktree controller.                                                *)

At(step) == pass.pc = step
GoTo(step) == pass' = [pass EXCEPT !.pc = step]
Report(reason) == pass' = [pass EXCEPT !.pc = "status", !.reason = reason]
IsReady == status.reason = "WorktreeReady"

PodOn(u) == pod[u].phase # "absent"
InUse == jobPods > 0 \/ \E u \in Users : PodOn(u)

\* The fence is closed, a recorded claim is missing, or the claim terminates.
StorageDeleted ==
    \/ closed
    \/ volume.phase = "none" /\ status.recorded
    \/ volume.phase \in {"deleting", "released"}

\* The pass reads the Worktree and its claim.
Begin ==
    /\ At("idle")
    /\ pass' = [NoPass EXCEPT !.pc = CASE StorageDeleted -> "close"
                                       [] ~StorageDeleted /\ volume.phase = "none" -> "repository"
                                       [] OTHER -> "claim",
                              !.bound = volume.phase = "bound", !.ready = IsReady]
    /\ UNCHANGED <<objects, users, control, status, reserved, usedBy>>

CloseMounts ==
    /\ At("close") /\ closed' = TRUE /\ GoTo("drain")
    /\ UNCHANGED <<objects, control, status, reserved, usedBy, holder, pod, mounting, worked>>

\* reconcileStorageDeletion once the fence is closed: the protection of the
\* claim goes after its holders and Pods, and nothing replaces it.
Drain ==
    /\ At("drain")
    /\ LET drained == holder = Nobody /\ ~InUse IN
       /\ volume' = IF drained /\ volume.phase = "deleting" THEN [volume EXCEPT !.phase = "released"] ELSE volume
       /\ reserved' = IF drained /\ volume.phase = "none" THEN FALSE ELSE reserved
       /\ status' = [status EXCEPT !.volumeReady = FALSE, !.reason =
                        IF drained /\ volume.phase = "none" THEN "VolumeDeleted" ELSE "VolumeDeleting"]
    /\ GoTo("usage")
    /\ UNCHANGED <<users, control, usedBy, repo, source, checkout, job, jobPods, seenJob>>

\* A failed parent gives the reservation back; Acquire does when the parent is
\* not ready, and waits for another writer.
ReadRepository ==
    /\ At("repository")
    /\ reserved' = CASE repo.state \in {"failed", "waiting"} -> FALSE
                     [] repo.state \in {"absent", "busy"} -> reserved
                     [] repo.state = "ready" -> TRUE
    /\ CASE repo.state = "absent" -> Report("RepositoryNotFound")
         [] repo.state = "failed" -> Report("RepositoryFailed")
         [] repo.state \in {"waiting", "busy"} -> Report("RepositoryNotReady")
         [] repo.state = "ready" -> GoTo("plan")
    /\ UNCHANGED <<objects, users, control, status, usedBy>>

Planned(plan) == pass' = [pass EXCEPT !.pc = "create", !.size = plan.size, !.modes = plan.modes]

\* Mutant: a rejected plan keeps the reservation for the next attempt.
PlanHeld ==
    /\ At("plan")
    /\ LET plan == PlanClone(source, repo.size, spec) IN
       IF plan.reason = "none" THEN Planned(plan) ELSE Report(plan.reason)
    /\ UNCHANGED <<objects, users, control, status, usedBy, reserved>>

\* The source is read after admission; a rejected plan drops the reservation.
Plan ==
    /\ At("plan")
    /\ LET plan == PlanClone(source, repo.size, spec) IN
       IF plan.reason = "none"
       THEN Planned(plan) /\ UNCHANGED reserved
       ELSE Report(plan.reason) /\ reserved' = FALSE
    /\ UNCHANGED <<objects, users, control, status, usedBy>>

CreateClaim ==
    /\ At("create")
    /\ volume' = [phase |-> "pending", id |-> volume.id + 1, size |-> pass.size, modes |-> pass.modes]
    /\ checkout' = "cloned"
    /\ GoTo("claim")
    /\ UNCHANGED <<users, control, status, reserved, usedBy, repo, source, job, jobPods, seenJob>>

\* worktreeClaimMatches: what the spec asks for explicitly.
ClaimMatches ==
    /\ volume.size >= spec.size
    /\ spec.modes # {} => volume.modes = spec.modes

\* A Bound child is independent of the parent; a pending one is being copied.
CheckClaim ==
    /\ At("claim")
    /\ IF ClaimMatches /\ pass.bound THEN reserved' = FALSE /\ GoTo("volume")
       ELSE UNCHANGED reserved /\ Report(IF ClaimMatches THEN "Provisioning" ELSE "VolumeClaimSpecChanged")
    /\ UNCHANGED <<objects, users, control, status, usedBy>>

\* setWorktreeVolumeReady, then labels for the Pods that mount the volume.
SetVolumeReady ==
    /\ At("volume")
    /\ status' = [status EXCEPT !.volumeReady = TRUE, !.recorded = TRUE]
    /\ GoTo(IF pass.ready THEN "usage" ELSE IF spec.deferred /\ seenJob = "absent" THEN "observe" ELSE "job")
    /\ UNCHANGED <<objects, users, control, reserved, usedBy>>

Initializers(phases) == {u \in Users : pod[u].init /\ pod[u].phase \in phases}

\* Mutant: an init container that exited is one that succeeded.
BootstrapOfAny ==
    CASE Initializers({"running", "failing"}) # {} -> "WorktreeReady"
      [] Initializers({"running", "failing"}) = {} /\ Initializers({"init"}) # {} -> "Initializing"
      [] OTHER -> "WaitingForWorkspace"

\* reconcileWorkspaceBootstrap: what the init containers of the Pods that mount
\* the volume say.  One that waits for a restart counts by its last exit.
BootstrapOfPods ==
    CASE Initializers({"running"}) # {} -> "WorktreeReady"
      [] Initializers({"running"}) = {} /\ Initializers({"failing"}) # {} -> "BootstrapFailed"
      [] Initializers({"running", "failing"}) = {} /\ Initializers({"init"}) # {} -> "Initializing"
      [] OTHER -> "WaitingForWorkspace"

ObservePods ==
    /\ At("observe") /\ Report(BootstrapOfPods)
    /\ UNCHANGED <<objects, users, control, status, reserved, usedBy>>

\* A Job missing from the cache is created, unless it is there after all.
CreateJob ==
    /\ At("job") /\ seenJob = "absent"
    /\ IF job = "absent" THEN job' = "created" /\ Report("Initializing")
                         ELSE UNCHANGED job /\ pass' = NoPass
    /\ UNCHANGED <<users, control, status, reserved, usedBy, repo, source, volume, checkout, jobPods, seenJob>>

ReadJob ==
    /\ At("job") /\ seenJob # "absent"
    /\ Report(CASE seenJob = "failed" -> "BootstrapFailed"
                [] seenJob = "succeeded" -> "WorktreeReady"
                [] OTHER -> "Initializing")
    /\ UNCHANGED <<objects, users, control, status, reserved, usedBy>>

\* setWorktreeStatus: the claim is recorded as soon as there is one.
SetStatus ==
    /\ At("status")
    /\ status' = [status EXCEPT !.reason = pass.reason,
                                !.recorded = @ \/ pass.reason \notin Waits \ {"Provisioning"}]
    /\ GoTo("usage")
    /\ UNCHANGED <<objects, users, control, reserved, usedBy>>

\* publishUsage, after every other write of the pass.
PublishUsage ==
    /\ At("usage") /\ usedBy' = holder /\ pass' = NoPass
    /\ UNCHANGED <<objects, users, control, status, reserved>>

PassStep ==
    \/ Begin \/ CloseMounts \/ Drain \/ ReadRepository \/ Plan \/ CreateClaim \/ CheckClaim
    \/ SetVolumeReady \/ ObservePods \/ CreateJob \/ ReadJob \/ SetStatus \/ PublishUsage

-----------------------------------------------------------------------------
(* Workspaces that mount the Worktree.                                     *)

\* Mutant: VolumeReady is enough for everybody.
MountableVolume == status.recorded /\ ~closed /\ status.volumeReady

\* A deferred checkout that is not there yet is made by the Pod that mounts it.
NeedsInitializer == spec.deferred /\ ~IsReady

\* resolveWorkspaceMount: a checkout that is ready, or a volume that is and
\* whose checkout the Pod itself makes.
Mountable ==
    /\ status.recorded /\ ~closed
    /\ IsReady \/ (spec.deferred /\ status.volumeReady)

ResolveMount(u) ==
    /\ mounting[u].pc = "idle" /\ ~PodOn(u) /\ holder # u
    /\ Mountable
    /\ mounting' = [mounting EXCEPT ![u] = [pc |-> "admit", init |-> NeedsInitializer]]
    /\ UNCHANGED <<objects, control, status, reserved, usedBy, pass, closed, holder, pod, worked>>

AdmitMount(u) ==
    /\ mounting[u].pc = "admit"
    /\ IF holder = Nobody /\ ~closed
       THEN holder' = u /\ mounting' = [mounting EXCEPT ![u].pc = "create"]
       ELSE mounting' = [mounting EXCEPT ![u] = NoMounting] /\ UNCHANGED holder
    /\ UNCHANGED <<objects, control, status, reserved, usedBy, pass, closed, pod, worked>>

\* A Pod, or a hot-mount helper, with the initializer the mount asked for.
CreatePod(u) ==
    /\ mounting[u].pc = "create"
    /\ pod' = [pod EXCEPT ![u] = [phase |-> IF mounting[u].init THEN "init" ELSE "running",
                                  init |-> mounting[u].init]]
    /\ worked' = IF mounting[u].init THEN worked ELSE volume.id
    /\ mounting' = [mounting EXCEPT ![u] = NoMounting]
    /\ UNCHANGED <<objects, control, status, reserved, usedBy, pass, closed, holder>>

\* worktreebootstrap.Action is safe to repeat.
Initialized(u) ==
    /\ pod[u].phase = "init"
    /\ pod' = [pod EXCEPT ![u].phase = "running"]
    /\ checkout' = "whole" /\ worked' = volume.id
    /\ UNCHANGED <<control, status, reserved, usedBy, pass, closed, holder, mounting,
                   repo, source, volume, job, jobPods, seenJob>>

InitializerFails(u) ==
    /\ pod[u].phase = "init"
    /\ pod' = [pod EXCEPT ![u].phase = "failing"]
    /\ checkout' = IF checkout = "whole" THEN checkout ELSE "partial"
    /\ UNCHANGED <<control, status, reserved, usedBy, pass, closed, holder, mounting, worked,
                   repo, source, volume, job, jobPods, seenJob>>

RestartInitializer(u) ==
    /\ pod[u].phase = "failing"
    /\ pod' = [pod EXCEPT ![u].phase = "init"]
    /\ UNCHANGED <<objects, control, status, reserved, usedBy, pass, closed, holder, mounting, worked>>

\* The Workspace is suspended, deleted or its Pod replaced; its hold goes last.
StopPod(u) ==
    /\ PodOn(u)
    /\ pod' = [pod EXCEPT ![u] = NoPod]
    /\ UNCHANGED <<objects, control, status, reserved, usedBy, pass, closed, holder, mounting, worked>>

ReleaseMount(u) ==
    /\ holder = u /\ ~PodOn(u) /\ mounting[u].pc = "idle"
    /\ holder' = Nobody
    /\ UNCHANGED <<objects, control, status, reserved, usedBy, pass, closed, pod, mounting, worked>>

UserStep(u) ==
    \/ ResolveMount(u) \/ AdmitMount(u) \/ CreatePod(u) \/ Initialized(u) \/ InitializerFails(u)
    \/ RestartInitializer(u) \/ StopPod(u) \/ ReleaseMount(u)

-----------------------------------------------------------------------------
(* Kubernetes, the Repository and users.                                   *)

\* The script of the Job: git refuses to create the branch a second time.
StartJobPod ==
    /\ job = "created" /\ jobPods < 2
    /\ job' = "active" /\ jobPods' = jobPods + 1
    /\ checkout' = IF checkout = "whole" THEN checkout ELSE "partial"
    /\ UNCHANGED <<users, control, status, reserved, usedBy, pass, repo, source, volume, seenJob>>

EndJobPod ==
    /\ jobPods > 0 /\ jobPods' = jobPods - 1
    /\ \E result \in {"succeeded", "failed"} :
          /\ job' = IF job = "active" THEN result ELSE job
          /\ checkout' = IF result = "succeeded" THEN "whole" ELSE checkout
    /\ UNCHANGED <<users, control, status, reserved, usedBy, pass, repo, source, volume, seenJob>>

SyncJob ==
    /\ seenJob # job /\ seenJob' = job
    /\ UNCHANGED <<users, control, status, reserved, usedBy, pass, repo, source, volume, checkout, job, jobPods>>

Fault == faults < MaxFaults /\ faults' = faults + 1

Known == \/ job = "succeeded" /\ IsReady
         \/ job = "failed" /\ status.reason = "BootstrapFailed"

\* TTLSecondsAfterFinished, three days, or somebody deletes the Job: a fault
\* while its result has not been recorded.
ExpireJob ==
    /\ job # "absent" /\ job' = "absent"
    /\ IF Known THEN UNCHANGED faults ELSE Fault
    /\ lost' = (lost \/ job \in {"created", "active"})
    /\ UNCHANGED <<users, status, reserved, usedBy, pass, spec, repo, source, volume, checkout, jobPods, seenJob>>

\* The storage driver has copied the parent.
Provision ==
    /\ volume.phase = "pending" /\ volume' = [volume EXCEPT !.phase = "bound"]
    /\ UNCHANGED <<users, control, status, reserved, usedBy, pass, repo, source, checkout, job, jobPods, seenJob>>

\* A direct DELETE of the claim, and its end once rc's finalizer is off.
DeleteClaim ==
    /\ volume.phase \in {"pending", "bound"} /\ volume' = [volume EXCEPT !.phase = "deleting"]
    /\ UNCHANGED <<users, control, status, reserved, usedBy, pass, repo, source, checkout, job, jobPods, seenJob>>

ClaimGone ==
    /\ volume.phase = "released" /\ ~InUse /\ volume' = [volume EXCEPT !.phase = "none"]
    /\ UNCHANGED <<users, control, status, reserved, usedBy, pass, repo, source, checkout, job, jobPods, seenJob>>

\* The Repository is bootstrapped, synced, edited, fails and recovers; another
\* writer has it only while nobody reserves it.
RepositoryChanges ==
    /\ \E state \in {"waiting", "busy", "ready", "failed"} :
          /\ state # repo.state /\ (state = "busy" => ~reserved)
          /\ repo' = [repo EXCEPT !.state = state]
    /\ UNCHANGED <<users, control, status, reserved, usedBy, pass, source, volume, checkout, job, jobPods, seenJob>>

\* The parent's claim binds and reports its capacity; a writer may expand it.
SourceChanges ==
    /\ \/ ~source.bound /\ source' = [source EXCEPT !.bound = TRUE]
       \/ \E c \in Sizes : /\ source.bound /\ c > source.capacity /\ c >= source.request
                           /\ source.capacity > 0 => ~reserved
                           /\ source' = [source EXCEPT !.capacity = c]
    /\ UNCHANGED <<users, control, status, reserved, usedBy, pass, repo, volume, checkout, job, jobPods, seenJob>>

\* A call of the pass fails or the manager restarts.
PassFails ==
    /\ ~At("idle") /\ Fault /\ pass' = NoPass
    /\ UNCHANGED <<objects, users, status, reserved, usedBy, spec, lost>>

Next ==
    \/ PassStep \/ PassFails
    \/ \E u \in Users : UserStep(u)
    \/ StartJobPod \/ EndJobPod \/ SyncJob \/ ExpireJob
    \/ Provision \/ DeleteClaim \/ ClaimGone \/ RepositoryChanges \/ SourceChanges

Spec == Init /\ [][Next]_vars

\* Reconcile requests are retried and waiting ones requeued; caches catch up,
\* the driver copies, and Pods of Jobs start and end.
Fairness ==
    /\ WF_vars(PassStep) /\ WF_vars(SyncJob) /\ WF_vars(Provision) /\ WF_vars(ClaimGone)
    /\ WF_vars(StartJobPod) /\ WF_vars(EndJobPod)

FairSpec == Spec /\ Fairness

-----------------------------------------------------------------------------
(* Properties.                                                             *)

\* A child is copied only while the parent is reserved for it, into a volume that
\* holds all the parent has been given and that a later pass accepts for the
\* same spec; and a Worktree reported Ready has a finished checkout, whether a
\* Job or an init container made it.
ChildIsWhole ==
    /\ volume.phase = "pending" => reserved /\ volume.size >= Larger(source.request, source.capacity)
    /\ volume.phase # "none" => ClaimMatches
    /\ IsReady => checkout = "whole"

\* Once a Workspace's Pod has run on the checkout, the Worktree never gets
\* another child, no bootstrap Job works on it, and no other Pod initializes it
\* while one runs.  (A Job that somebody deletes while its Pod runs is left out:
\* the next Job does not wait for that Pod.)
WorkUndisturbed ==
    worked # 0 =>
        /\ volume.id = worked
        /\ lost \/ jobPods = 0
        /\ \A u, v \in Users : u # v => ~(pod[u].phase = "init" /\ pod[v].phase = "running")

\* The parent can be cloned as the spec asks.
Clonable == repo.state = "ready" /\ PlanClone(source, repo.size, spec).reason = "none"

Deleted == status.reason \in {"VolumeDeleting", "VolumeDeleted"}
Settled == Deleted \/ IF spec.deferred THEN status.volumeReady ELSE status.reason \in {"WorktreeReady", "BootstrapFailed"}

\* A clone never keeps the parent reserved for ever, whatever becomes of it, so
\* that a sync or an expansion can repair the parent; and while the parent can
\* be cloned the Worktree is initialized, or says why it is not.
WorktreeSettles == []<>~reserved /\ (<>[]Clonable => []<>Settled)

=============================================================================
