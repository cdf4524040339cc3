-------------------------- MODULE RepositoryParent --------------------------
(***************************************************************************)
(* A Repository's parent volume and everything that reserves it through    *)
(* the access gate: the bootstrap Job of each Repository generation, the   *)
(* one-shot Jobs of RepositorySyncs and RepositoryExecs, and the child     *)
(* volumes that Worktrees clone from it.                                   *)
(*                                                                         *)
(* Every reconciler has one pass per object at a time, and each request of *)
(* a pass that others can observe is a step.  HoldSet implements           *)
(* AccessFence, so an operation on the access Lease is one step.  The      *)
(* requests, Jobs and Pods are read from the API server.                   *)
(***************************************************************************)
EXTENDS Naturals

CONSTANTS
    Parent,     \* the Repository as a holder of its own parent volume
    Syncs,      \* RepositorySyncs
    Commands,   \* RepositoryExecs
    Clones,     \* Worktrees
    MaxGen,     \* bound: generations of the Repository
    MaxDisruptions  \* bound: deleted objects, lost Jobs and failed passes

Requests == Syncs \cup Commands
Consumers == {Parent} \cup Requests \cup Clones
Gens == 1..MaxGen
Jobs == Requests \cup Gens      \* a generation stands for its bootstrap Job

ASSUME ParentAssumption ==
    /\ MaxGen \in Nat \ {0} /\ MaxDisruptions \in Nat
    /\ Parent \notin Requests \cup Clones
    /\ Syncs \cap Commands = {} /\ Requests \cap Clones = {} /\ Requests \cap Nat = {}

AccessModes == {"write", "clone"}

\* Writers are exclusive; clones only mix with clones.
WriterExcludes == (AccessModes \X AccessModes) \ {<<"clone", "clone">>}

INSTANCE HoldState WITH Owners <- Consumers, Modes <- AccessModes, NoMode <- "none",
                        Excludes <- WriterExcludes

VARIABLES
    gen,        \* the Repository's generation
    status,     \* its StorageReady condition: observed generation and state
    claim,      \* the parent volume: none, created or recorded in the status
    content,    \* the generation checked out on it, 0 while there is none or
                \* a checkout has not finished
    lease,      \* the hold set of the access Lease
    request,    \* RepositorySync and RepositoryExec objects
    job,        \* Jobs; "created" has not started its Pod yet
    pods,       \* how many Pods of each Job run
    starts,     \* how often a request's Pod was started
    child,      \* the Worktrees' volumes cloned from the parent, and deletion
    pass,       \* the reconcile pass of every consumer
    disruptions \* deleted objects, lost Jobs and failed passes so far

vars == <<gen, status, claim, content, lease, request, job, pods, starts, child, pass, disruptions>>

\* "working" stands for Provisioning and Initializing, "failed" for the
\* failures that only a new spec or a Credential ends.
StorageStates == {"unknown", "working", "ready", "syncing", "syncFailed", "failed"}
Statuses == [gen : 0..MaxGen, state : StorageStates]
Lives == {"live", "deleting", "gone"}

PassSteps == {"idle", "acquire", "confirm", "record", "parent", "abandon", "create", "status",
              "result", "release", "finalize"}
NoPass == [pc |-> "idle", gen |-> 0, status |-> [gen |-> 0, state |-> "unknown"], out |-> "unknown"]

\* "done" is a terminal result, "released" one whose finalizer is off.
NewRequest == [phase |-> "pending", recorded |-> FALSE, gen |-> 0, life |-> "live"]

\* Every variable has its type.
TypeOK ==
    /\ gen \in Gens
    /\ status \in Statuses
    /\ claim \in {"none", "created", "recorded"}
    /\ content \in 0..MaxGen
    /\ lease \in HoldStates
    /\ request \in [Requests -> [phase : {"pending", "done", "released"}, recorded : BOOLEAN,
                                 gen : 0..MaxGen, life : Lives]]
    /\ job \in [Jobs -> {"absent", "created", "active", "succeeded", "failed", "deleting"}]
    /\ pods \in [Jobs -> 0..2]
    /\ starts \in [Requests -> 0..2]
    /\ child \in [Clones -> [claim : {"none", "pending", "bound"}, life : Lives]]
    /\ pass \in [Consumers -> [pc : PassSteps, gen : 0..MaxGen, status : Statuses, out : StorageStates]]
    /\ disruptions \in 0..MaxDisruptions

Init ==
    /\ gen = 1
    /\ status = [gen |-> 0, state |-> "unknown"]
    /\ claim = "none" /\ content = 0
    /\ lease = EmptySet
    /\ request = [o \in Requests |-> NewRequest]
    /\ job = [k \in Jobs |-> "absent"]
    /\ pods = [k \in Jobs |-> 0]
    /\ starts = [o \in Requests |-> 0]
    /\ child = [c \in Clones |-> [claim |-> "none", life |-> "live"]]
    /\ pass = [o \in Consumers |-> NoPass]
    /\ disruptions = 0

-----------------------------------------------------------------------------
(* Repository status and the access gate.                                  *)

At(o, step) == pass[o].pc = step
GoTo(o, step) == pass' = [pass EXCEPT ![o].pc = step]
End(o) == pass' = [pass EXCEPT ![o] = NoPass]

\* The pass remembers the Repository it read.
Capture(o, step, out) ==
    pass' = [pass EXCEPT ![o] = [pc |-> step, gen |-> gen, status |-> status, out |-> out]]

IsFinished(k) == job[k] \in {"succeeded", "failed"}
Running(k) == pods[k] > 0

Observed == status.gen = gen
ReadyNow == Observed /\ status.state = "ready"

\* repositoryaccess.Failure: nothing but a user ends this.
FailedNow == Observed /\ status.state \in {"syncFailed", "failed"}

\* Mutant: a late result is written for the generation that is current now.
SetStorageReadyLate(g, state) == status' = [gen |-> gen, state |-> state]

\* setRepositoryStorageReady: a result for generation g is dropped when the
\* spec has changed since.
SetStorageReady(g, state) ==
    status' = IF g = gen THEN [gen |-> gen, state |-> state] ELSE status

\* Mutant: only the Lease is consulted.
ConsumersStoppedByLease(o) == TRUE

\* Gate.consumersStopped: no Pod uses the parent, and for a writer no clone of
\* it is pending.
ConsumersStopped(o) ==
    /\ \A k \in Jobs : ~Running(k)
    /\ o \notin Clones => \A c \in Clones : child[c].claim # "pending"

ModeOf(o) == IF o \in Clones THEN "clone" ELSE "write"

\* Only a RepositorySync and the bootstrap may use a parent that is not ready.
NeedsReady(o) == o \in Commands \cup Clones

ReleaseHold(o) == lease' = Remove(lease, o)

\* Gate.Acquire: reserve the parent first ...
Reserve(o) ==
    /\ At(o, "acquire")
    /\ lease' = Admit(lease, o, ModeOf(o))
    /\ IF Admitted(lease, o, ModeOf(o)) THEN GoTo(o, "confirm") ELSE End(o)
    /\ UNCHANGED <<gen, status, claim, content, request, job, pods, starts, child, disruptions>>

Unchanged(o) == pass[o].gen = gen /\ pass[o].status = status

\* Mutant: the Repository is not read again after the reservation.
ConfirmBlind(o) ==
    /\ At(o, "confirm")
    /\ IF ConsumersStopped(o) THEN GoTo(o, "record") ELSE End(o)
    /\ UNCHANGED <<gen, status, claim, content, lease, request, job, pods, starts, child, disruptions>>

\* ... then compare the Repository with what the pass read and look at what
\* still runs.  A reservation that has to wait is kept.
Confirm(o) ==
    /\ At(o, "confirm")
    /\ CASE ~Unchanged(o) \/ (NeedsReady(o) /\ ~ReadyNow) -> ReleaseHold(o) /\ End(o)
         [] OTHER -> /\ IF ConsumersStopped(o) THEN GoTo(o, "record") ELSE End(o)
                     /\ UNCHANGED lease
    /\ UNCHANGED <<gen, status, claim, content, request, job, pods, starts, child, disruptions>>

-----------------------------------------------------------------------------
(* RepositorySync and RepositoryExec.                                      *)

\* The pass goes on to write the outcome of a sync to its Repository.
Report(o, out) == pass' = [pass EXCEPT ![o].pc = "parent", ![o].out = out]

\* The Job has a result.  A successful sync whose commit cannot be read fails.
Complete(o) ==
    IF o \in Syncs
    THEN \E out \in IF job[o] = "succeeded" THEN {"ready", "syncFailed"} ELSE {"syncFailed"} : Report(o, out)
    ELSE GoTo(o, "result")

\* Nothing scheduled: wait for the parent, give up on it, or ask for it.
Schedule(o) ==
    CASE o \in Syncs /\ ~(Observed /\ status.state \in {"ready", "syncFailed"}) -> End(o)
      [] o \in Commands /\ FailedNow -> GoTo(o, "result")
      [] o \in Commands /\ ~FailedNow /\ ~ReadyNow -> End(o)
      [] OTHER -> Capture(o, "acquire", "unknown")

\* Mutant: a recorded Job that disappeared is scheduled again.
LoseJobAgain(o) == Schedule(o)

\* A recorded Job that disappeared is never created again.
LoseJob(o) == IF o \in Syncs THEN Report(o, "syncFailed") ELSE GoTo(o, "result")

\* A deleted request: release, after the Repository has heard of an unfinished
\* sync.
Abandon(o) ==
    IF o \in Syncs /\ request[o].recorded /\ request[o].phase = "pending"
    THEN pass' = [pass EXCEPT ![o].pc = "abandon", ![o].out = "syncFailed"]
    ELSE GoTo(o, "finalize")

\* After the release a pass has nothing left to do.
BeginRequest(o) ==
    /\ At(o, "idle") /\ request[o].life # "gone"
    /\ request[o].life = "live" => request[o].phase # "released"
    /\ CASE request[o].life = "deleting" -> Abandon(o)
         [] request[o].life = "live" /\ request[o].phase = "done" -> GoTo(o, "release")
         [] request[o].life = "live" /\ request[o].phase = "pending" ->
              CASE IsFinished(o) -> Complete(o)
                [] job[o] = "absent" /\ request[o].recorded -> LoseJob(o)
                [] job[o] = "absent" /\ ~request[o].recorded -> Schedule(o)
                [] OTHER -> End(o)
    /\ UNCHANGED <<gen, status, claim, content, lease, request, job, pods, starts, child, disruptions>>

\* Admitted: record the Job and the generation it checks out, or find that the
\* Credential of a sync is missing.
Record(o) ==
    /\ At(o, "record") /\ o \in Requests
    /\ \/ /\ request' = [request EXCEPT ![o].recorded = TRUE, ![o].gen = pass[o].gen]
          /\ IF o \in Syncs THEN Report(o, "syncing") ELSE GoTo(o, "create")
       \/ o \in Syncs /\ UNCHANGED request /\ GoTo(o, "result")
    /\ UNCHANGED <<gen, status, claim, content, lease, job, pods, starts, child, disruptions>>

\* setParent, for the generation the sync captured.
SetParent(o) ==
    /\ \/ At(o, "parent") /\ GoTo(o, IF pass[o].out = "syncing" THEN "create" ELSE "result")
       \/ At(o, "abandon") /\ GoTo(o, "finalize")
    /\ SetStorageReady(request[o].gen, pass[o].out)
    /\ UNCHANGED <<gen, claim, content, lease, request, job, pods, starts, child, disruptions>>

CreateJob(o) ==
    /\ At(o, "create") /\ o \in Requests
    /\ job' = [job EXCEPT ![o] = "created"]
    /\ End(o)
    /\ UNCHANGED <<gen, status, claim, content, lease, request, pods, starts, child, disruptions>>

\* setResult: a terminal result is never rewritten.
SetResult(o) ==
    /\ At(o, "result") /\ o \in Requests
    /\ request' = [request EXCEPT ![o].phase = "done"]
    /\ End(o)
    /\ UNCHANGED <<gen, status, claim, content, lease, job, pods, starts, child, disruptions>>

\* Mutant: a lost Job is proof enough that its Pod has stopped.
StoppedByJob(o, deleting) ==
    request[o].recorded => job[o] = "absent" \/ (~deleting /\ IsFinished(o))

\* Mutant: only a finished Job counts.
StoppedIfFinished(o, deleting) ==
    request[o].recorded => IsFinished(o) /\ ~Running(o)

\* A Job that is gone or has finished, and no Pod of it that still runs.  The
\* Job of a deleted request has to be gone.
Stopped(o, deleting) ==
    request[o].recorded =>
        /\ job[o] = "absent" \/ (~deleting /\ IsFinished(o))
        /\ ~Running(o)

\* releaseRepositoryOperation for a finished request: the reservation goes
\* after its Pods, the finalizer last, unless a deletion came in between.
ReleaseOperation(o) ==
    /\ At(o, "release") /\ o \in Requests
    /\ IF Stopped(o, FALSE)
       THEN /\ ReleaseHold(o)
            /\ request' = [request EXCEPT ![o].phase = IF request[o].life = "live" THEN "released" ELSE @]
       ELSE UNCHANGED <<lease, request>>
    /\ End(o)
    /\ UNCHANGED <<gen, status, claim, content, job, pods, starts, child, disruptions>>

\* releaseRepositoryOperation for a deleted request deletes its Job and waits
\* for the Pods with it.
FinalizeOperation(o) ==
    /\ At(o, "finalize") /\ o \in Requests
    /\ IF Stopped(o, TRUE)
       THEN ReleaseHold(o) /\ request' = [request EXCEPT ![o].life = "gone"] /\ UNCHANGED job
       ELSE /\ job' = IF job[o] # "absent" THEN [job EXCEPT ![o] = "deleting"] ELSE job
            /\ UNCHANGED <<lease, request>>
    /\ End(o)
    /\ UNCHANGED <<gen, status, claim, content, pods, starts, child, disruptions>>

RequestStep(o) ==
    \/ BeginRequest(o) \/ Reserve(o) \/ Confirm(o) \/ Record(o) \/ SetParent(o) \/ CreateJob(o)
    \/ SetResult(o) \/ ReleaseOperation(o) \/ FinalizeOperation(o)

-----------------------------------------------------------------------------
(* The Repository itself: its volume and the bootstrap Job of its spec.     *)

\* Gate.Busy: another consumer holds a reservation.
Busy == Holders(lease) # {} /\ Parent \notin Holders(lease)

\* A sync owns the condition until its result is persisted.
SyncOwnsStatus == Observed /\ status.state \in {"syncing", "syncFailed"}

PreviousRuns == \E g \in Gens \ {gen} : job[g] # "absent" /\ ~IsFinished(g)

\* reconcileRepository up to its first write: the volume, or the release of a
\* parent that is ready.  Owners leave the Lease before they go, so the sweep of
\* vanished owners finds nothing here.
BeginParent ==
    /\ At(Parent, "idle")
    /\ ~Busy /\ ~SyncOwnsStatus /\ ~PreviousRuns
    /\ claim' = IF claim = "none" THEN "created" ELSE claim
    /\ lease' = IF claim = "recorded" /\ ReadyNow THEN Remove(lease, Parent) ELSE lease
    /\ CASE claim # "recorded" -> Capture(Parent, "status", "working")
         [] claim = "recorded" /\ ReadyNow -> UNCHANGED pass
         [] claim = "recorded" /\ ~ReadyNow ->
              CASE job[gen] = "absent" -> Capture(Parent, "acquire", "working")
                [] job[gen] = "succeeded" -> Capture(Parent, "acquire", "ready")
                [] job[gen] = "failed" -> Capture(Parent, "acquire", "failed")
                [] OTHER -> Capture(Parent, "status", "working")
    /\ UNCHANGED <<gen, status, content, request, job, pods, starts, child, disruptions>>

\* Admitted: create the bootstrap Job of the spec that was read, or find that
\* its Credential is missing; or go on to publish the result of the Job.
Bootstrap ==
    /\ At(Parent, "record")
    /\ LET k == pass[Parent].gen IN
       \/ /\ pass[Parent].out = "working" /\ job[k] = "absent"
          /\ job' = [job EXCEPT ![k] = "created"] /\ GoTo(Parent, "status")
       \/ /\ pass[Parent].out = "working" /\ UNCHANGED job
          /\ pass' = [pass EXCEPT ![Parent].pc = "status", ![Parent].out = "failed"]
       \/ pass[Parent].out # "working" /\ UNCHANGED job /\ GoTo(Parent, "result")
    /\ UNCHANGED <<gen, status, claim, content, lease, request, pods, starts, child, disruptions>>

\* setRepositoryStorageReady also records the name of the volume.  A result is
\* followed by the release of the reservation, progress is not.
SetStatus ==
    /\ \/ At(Parent, "status") /\ End(Parent)
       \/ At(Parent, "result") /\ GoTo(Parent, "release")
    /\ SetStorageReady(pass[Parent].gen, pass[Parent].out)
    /\ claim' = IF pass[Parent].gen = gen THEN "recorded" ELSE claim
    /\ UNCHANGED <<gen, content, lease, request, job, pods, starts, child, disruptions>>

ReleaseParent ==
    /\ At(Parent, "release") /\ ReleaseHold(Parent) /\ End(Parent)
    /\ UNCHANGED <<gen, status, claim, content, request, job, pods, starts, child, disruptions>>

ParentStep ==
    BeginParent \/ Reserve(Parent) \/ Confirm(Parent) \/ Bootstrap \/ SetStatus \/ ReleaseParent

-----------------------------------------------------------------------------
(* Worktrees: a child volume cloned from the parent.                       *)

\* Deleting a pending volume could leave the storage driver copying.
Provisioned(c) == child[c].claim # "pending"

BeginClone(c) ==
    /\ At(c, "idle") /\ child[c].life # "gone"
    /\ CASE child[c].life = "deleting" -> IF Provisioned(c) THEN GoTo(c, "finalize") ELSE End(c)
         [] child[c].life = "live" /\ child[c].claim = "none" ->
              IF FailedNow THEN GoTo(c, "release") ELSE Capture(c, "acquire", "unknown")
         [] child[c].life = "live" /\ child[c].claim = "pending" -> End(c)
         [] child[c].life = "live" /\ child[c].claim = "bound" ->
              IF c \in Holders(lease) THEN GoTo(c, "release") ELSE End(c)
    /\ UNCHANGED <<gen, status, claim, content, lease, request, job, pods, starts, child, disruptions>>

\* Admitted: create the child volume, unless PlanClone rejects the source.
CreateClone(c) ==
    /\ At(c, "record") /\ c \in Clones
    /\ \/ child' = [child EXCEPT ![c].claim = "pending"] /\ End(c)
       \/ UNCHANGED child /\ GoTo(c, "release")
    /\ UNCHANGED <<gen, status, claim, content, lease, request, job, pods, starts, disruptions>>

\* releaseClone, followed by the finalizer when the Worktree is deleted.
ReleaseClone(c) ==
    /\ At(c, "release") \/ At(c, "finalize")
    /\ c \in Clones
    /\ ReleaseHold(c)
    /\ child' = [child EXCEPT ![c].life = IF At(c, "finalize") THEN "gone" ELSE @]
    /\ End(c)
    /\ UNCHANGED <<gen, status, claim, content, request, job, pods, starts, disruptions>>

CloneStep(c) == BeginClone(c) \/ Reserve(c) \/ Confirm(c) \/ CreateClone(c) \/ ReleaseClone(c)

-----------------------------------------------------------------------------
(* Kubernetes and users.                                                   *)

Checkout(k) == k \notin Commands

\* The generation whose spec a checkout was given.
CheckedOut(k) == IF k \in Gens THEN k ELSE request[k].gen

StartPod(k) ==
    /\ job[k] = "created"
    /\ job' = [job EXCEPT ![k] = "active"]
    /\ pods' = [pods EXCEPT ![k] = @ + 1]
    /\ starts' = IF k \in Requests THEN [starts EXCEPT ![k] = @ + 1] ELSE starts
    /\ content' = IF Checkout(k) THEN 0 ELSE content
    /\ UNCHANGED <<gen, status, claim, lease, request, child, pass, disruptions>>

\* The Pod ends, by itself or because its Job is gone.  backoffLimit is 0.
EndPod(k) ==
    /\ Running(k)
    /\ pods' = [pods EXCEPT ![k] = @ - 1]
    /\ \E result \in {"succeeded", "failed"} :
          /\ job' = IF job[k] = "active" THEN [job EXCEPT ![k] = result] ELSE job
          /\ content' = IF Checkout(k) /\ result = "succeeded" THEN CheckedOut(k) ELSE content
    /\ UNCHANGED <<gen, status, claim, lease, request, starts, child, pass, disruptions>>

\* Foreground deletion ends after the Pods.
RemoveJob(k) ==
    /\ job[k] = "deleting" /\ ~Running(k)
    /\ job' = [job EXCEPT ![k] = "absent"]
    /\ UNCHANGED <<gen, status, claim, content, lease, request, pods, starts, child, pass, disruptions>>

Provision(c) ==
    /\ child[c].claim = "pending"
    /\ child' = [child EXCEPT ![c].claim = "bound"]
    /\ UNCHANGED <<gen, status, claim, content, lease, request, job, pods, starts, pass, disruptions>>

\* TTLSecondsAfterFinished of a command, and of a sync whose result is
\* recorded; garbage collection after the owner.
ExpireJob(k) ==
    /\ k \in Requests /\ job[k] \in {"created", "active", "succeeded", "failed"}
    /\ \/ IsFinished(k) /\ (k \in Commands \/ request[k].phase = "released")
       \/ request[k].life = "gone"
    /\ job' = [job EXCEPT ![k] = "absent"]
    /\ UNCHANGED <<gen, status, claim, content, lease, request, pods, starts, child, pass, disruptions>>

Disrupt == disruptions < MaxDisruptions /\ disruptions' = disruptions + 1

\* A user edits the spec.
Edit ==
    /\ gen < MaxGen /\ gen' = gen + 1
    /\ UNCHANGED <<status, claim, content, lease, request, job, pods, starts, child, pass, disruptions>>

\* A user deletes a request, or expire deletes a sync.  Nothing holds back a
\* request without the finalizer.
DeleteRequest(o) ==
    /\ request[o].life = "live" /\ Disrupt
    /\ request' = [request EXCEPT ![o].life = IF request[o].phase = "released" THEN "gone" ELSE "deleting"]
    /\ UNCHANGED <<gen, status, claim, content, lease, job, pods, starts, child, pass>>

DeleteWorktree(c) ==
    /\ child[c].life = "live" /\ Disrupt
    /\ child' = [child EXCEPT ![c].life = "deleting"]
    /\ UNCHANGED <<gen, status, claim, content, lease, request, job, pods, starts, pass>>

\* A request of the pass fails or the manager restarts: the pass starts over.
PassFails(o) ==
    /\ pass[o].pc # "idle" /\ Disrupt
    /\ End(o)
    /\ UNCHANGED <<gen, status, claim, content, lease, request, job, pods, starts, child>>

\* Somebody deletes a Job; its Pods go after it.
LoseJobObject(k) ==
    /\ job[k] \in {"created", "active", "succeeded", "failed"} /\ Disrupt
    /\ job' = [job EXCEPT ![k] = "absent"]
    /\ UNCHANGED <<gen, status, claim, content, lease, request, pods, starts, child, pass>>

-----------------------------------------------------------------------------
Next ==
    \/ ParentStep
    \/ \E o \in Requests : RequestStep(o) \/ DeleteRequest(o)
    \/ \E c \in Clones : CloneStep(c) \/ Provision(c) \/ DeleteWorktree(c)
    \/ \E k \in Jobs : StartPod(k) \/ EndPod(k) \/ RemoveJob(k) \/ ExpireJob(k) \/ LoseJobObject(k)
    \/ Edit
    \/ \E o \in Consumers : PassFails(o)

Spec == Init /\ [][Next]_vars

\* Every controller requeues an object whose work is not finished, the Job
\* controller and the kubelet start and end Pods, and the storage driver copies.
\* The Repository's claim, Jobs and access Lease enqueue it.
ParentKeepsUp == WF_vars(ParentStep)

Fairness ==
    /\ ParentKeepsUp
    /\ \A o \in Requests : WF_vars(RequestStep(o))
    /\ \A c \in Clones : WF_vars(CloneStep(c)) /\ WF_vars(Provision(c))
    /\ \A k \in Jobs : WF_vars(StartPod(k)) /\ WF_vars(EndPod(k)) /\ WF_vars(RemoveJob(k))

FairSpec == Spec /\ Fairness

-----------------------------------------------------------------------------
(* Properties.                                                             *)

Pending(c) == child[c].claim = "pending"

\* Two Pods never write the parent volume at the same time, and none does while
\* the storage driver copies it for a Worktree, whatever Jobs are lost, passes
\* fail and requests are deleted meanwhile.
ParentExclusive ==
    /\ \A j, k \in Jobs : pods[k] <= 1 /\ (Running(j) /\ Running(k) => j = k)
    /\ \A c \in Clones, k \in Jobs : ~(Pending(c) /\ Running(k))

\* A parent published as ready for the current spec holds a finished checkout
\* of that very spec: no late result, lost sync or unfinished bootstrap shows.
ReadyIsWhole == ReadyNow => content = gen

\* A Worktree is never cloned from a parent without a finished checkout.
CloneIsWhole == \A c \in Clones : Pending(c) => content # 0

\* The Pod of a RepositorySync or RepositoryExec starts at most once, although
\* its Job may be lost and passes are repeated.
JobOnce == \A o \in Requests : starts[o] <= 1

\* A Pod of a request and a clone use the parent volume only under a
\* reservation of their owner, whatever became of the Job.  The bootstrap is
\* left out: when its Job is deleted while the Pod runs and the spec changes as
\* well, Acquire drops the Repository's reservation, and only ConsumersStopped
\* holds the next writer back.
ReservedWhileUsed ==
    /\ \A o \in Requests : Running(o) => lease.mode[o] = "write"
    /\ \A c \in Clones : Pending(c) => lease.mode[c] = "clone"

\* Nothing that is finished or deleted still holds the parent or waits to go.
AllReleased ==
    /\ \A o \in Requests :
          /\ request[o].phase # "pending" => lease.mode[o] = "none"
          /\ request[o].life # "deleting"
    /\ \A c \in Clones : child[c].life # "deleting"

\* A finished or deleted request gives the parent back, even when its Job was
\* lost, and a deleted request or Worktree goes.  (Each part, once true, stays
\* true until the next deletion.)
RequestsReleased == []<>AllReleased

=============================================================================
