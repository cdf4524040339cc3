# rc: TLA+ models, checks and proofs

rc runs remote workspaces on Kubernetes.  Users keep Git *Repositories* and
*Worktrees* on volumes, and run *Workspaces* (a runtime Pod with a supervisor),
*WorkspaceExecs* (processes in such a Pod), *WorktreeExecs*, *RepositoryExecs* and
*RepositorySyncs* (Jobs on a volume).  Everything rc promises about user data rests
on one question: who may write to which volume now, and who has really stopped?
The answer is kept in *hold sets* stored in Kubernetes objects and used by
controllers that crash, retry, read stale caches and race each other.  This
directory models that core.

## Inventory

| Component | State | Operations | Interaction | What is hard | Correct when |
|---|---|---|---|---|---|
| Hold sets (`internal/holdset`) | a JSON set of holders and a Closed fence in an annotation or a Lease | Acquire, Release, Close, Sweep: Load, change, Save with a resourceVersion | used by every access gate | lost updates, lost responses, limited retries, staleness decided outside the loop | excluding consumers never run together, a consumer is always held, the fence is final |
| Worktree access (`internal/worktreeownership`) | the hold set of a Worktree, readers and writers | Admit, Release, ReleaseExcept, Retain, Close | called by Workspace and WorktreeExec passes and by cleanup | a deletion timestamp counts as the fence before the set is closed | one writer; nothing is mounted after cleanup began |
| Repository access gate (`internal/repositoryaccess`) | a Lease per Repository; modes write, mount, clone | Gate.Acquire, Release, Busy | called by Repository, Sync, Exec, Worktree and Workspace passes | the Repository changes between reading it and reserving it; Pods that outlive their Job | writers of the parent volume are alone |
| Workspace controller (`controller/workspaces`) | runtime Pod, helper Pods, annotations, finalizer | Reconcile, suspend, recover, finalize, hot mounts | users edit the spec, the kubelet runs Pods | a long pass on a spec read once; helpers that fail and leave bind mounts | mounts are held; suspended and deleted Workspaces let go |
| WorktreeExec controller (`controller/repositories`) | exec status, Job, Pods | admit, record, create, observe, stop, lose | shares Worktrees with Workspaces | restart between two writes; separate caches; Job and Pod vanish separately | a command starts at most once, under its hold; its result is final |
| Worktree controller | Worktree status, volume, protection finalizer | clone or bootstrap, cleanup, sweep | closes the fence others admit against | cleanup decides from several reads | a volume is protected while it is mounted |
| Repository, RepositorySync, RepositoryExec controllers | status per generation, Jobs, the parent volume | bootstrap, fetch, run, release | share the parent volume with clones and mounts | results of older generations, lost Jobs, a restart between recording and creating a Job | a ready parent is a whole checkout of its spec; requests run at most once and give the parent back |
| WorkspaceExec controller | exec status, claimed runtime UID | start, observe, stop, expire, finalize | drives the supervisor over HTTP | a repeated start, a replaced Pod, lost output | a process is started once while its record is kept, and its end is recorded |
| Supervisor (`internal/rckube`) | process table, credentials, attach streams, services | start, stop, attach, resize, wait, shutdown | serves the controller and clients | shutdown against start, output after exit, input owners | an identity starts at most once while its record is kept; no process outlives shutdown; nothing a client sent or should see is lost unnoticed |
| Transcript history and retention | files per process, retention policy | append, prune, expire | supervisor writes, controller prunes | pruning what is still written | a live transcript is kept |
| Workspace lifecycle and retention | clocks, the admission gate | idle suspend, maximum run, expiry | feeds the Workspace pass and the executions | a timer against activity; a list that is old when the decision is written | no busy Workspace is suspended as idle or expires |
| WorkspaceEnvironment controller | revisions, current and draft claims, editor Pod | create, edit, commit, idle stop | executions work on the draft, Workspaces clone current | a pass that read the editor before a worker made it; a promotion that fails midway | work is never dropped; a home is the revision it names |
| Clone planning, volume identity | none | pure functions | used by Worktree | the source changes after the plan | a clone holds all its source has |
| Credentials, admission, audit, rcctl, platform | none of their own | validation, reports, clients, Pod specs | read and edit objects | I/O | not modelled, see below |

## Modules

| Module | Models |
|---|---|
| `HoldState` | the decoded set: holders, modes, fence, `State.Admit`, `Result` |
| `HoldSet` | every operation of `holdset.go` at the granularity of its API requests, on both stores of `store.go`, with the callers' discipline |
| `AccessFence` | the abstract specification: what a hold set promises, one atomic step per operation |
| `HoldSetProofs` | the theorems about `HoldSet` |
| `WorktreeStore` | a Worktree: its hold set, deletion, volume and the cleanup pass |
| `WorkspaceMounts` | the Workspace pass on Linux: admission, runtime Pod, hot-mount helpers, suspension, recovery, finalization |
| `WorktreeExecs` | the WorktreeExec pass, its Job, Pod and caches |
| `WorktreeSystem` | the composition: Workspaces and WorktreeExecs on shared Worktrees; the properties |
| `RepositoryParent` | the parent volume of a Repository: the access gate, the bootstrap of every generation, RepositorySync, RepositoryExec and Worktree clones |
| `WorktreeBootstrap` | one Worktree from its creation to a checkout that may be mounted: clone planning, the claim, the bootstrap Job or the init container of the first Workspace, cleanup |
| `ProcessTable` | what a supervisor keeps of its processes in memory and on the volume, and the steps that change it |
| `Supervisor` | the threads of one `rc-kube serve`: start, stop, attach, input, services, pruning, shutdown, restart |
| `WorkspaceExecs` | the WorkspaceExec controller against the API server and a `ProcessTable` |
| `WorkspaceLifecycle` | one Workspace with its executions: the runtime pass and the retention controller composed with `WorkspaceExecs` |
| `Environments` | a WorkspaceEnvironment: current, draft, editor, commits, the executions on the draft and the home volume of a Workspace |
| `WorktreeProofs`, `RepositoryProofs`, `WorktreeBootstrapProofs`, `SupervisorProofs`, `WorkspaceLifecycleProofs`, `EnvironmentsProofs` | the theorems about `WorktreeSystem`, `RepositoryParent`, `WorktreeBootstrap`, `Supervisor`, `WorkspaceLifecycle` and `Environments` |
| `WorktreeRefinement` | the proof that `WorktreeSystem` implements `AccessFence` |
| `HoldSetMC`, `WorktreeMC`, `RepositoryMC`, `SupervisorMC`, `WorkspaceLifecycleMC`, `EnvironmentsMC`, `WorktreeBootstrapMC` | instances for TLC |

`HoldSet` implements `AccessFence` (proved), so the modules above it take every
hold-set operation as one step.  `WorktreeSystem` is in turn shown to use each
Worktree the way `AccessFence` allows (proved in `WorktreeRefinement`).  `ProcessTable` is
the part `Supervisor` and `WorkspaceExecs` share: the former splits a request into the
steps of its threads, the latter takes it as one step and is composed with the
Workspace's life.  `WorktreeBootstrap` uses the reservation of `RepositoryParent` and
the holds of `WorktreeStore` as a flag and one owner.

**Loads.**  A behaviour of the larger modules begins by choosing a `load` from the
constant `Loads` and keeps it: which owners or executions take part, what users and
the cluster do (`disturbances`, `users`, `edits`, `commits` ...), how many faults
happen, which timeouts are set.  One run thus explores several combinations, each of
them fully, and a property is checked in all of them.  Loads are bounds and have no
counterpart in the code.

### HoldSet

`call[c]` is the call in flight of caller `c`: an owner's pass, or the `Keeper`
(the Worktree controller, which closes and sweeps).  `pc` says whether the next
request is a Load or a Save; `next` is the set to be written.  `fresh` holds the
callers whose loaded resourceVersion is still current, which abstracts the version
number: every write empties it.  `Save` needs freshness (the precondition of the
patch, or Create against AlreadyExists for a Lease), `SaveConflict` is the retry,
`SaveUnknown` a write whose response is lost, `CallFails` any other error.
`consumers` are the Pods and Jobs an owner started in a mode; they are created only
in the step after admission (`CreateConsumer`) and a caller releases only what it no
longer uses, as the callers in `controller/` do.  A holder key contains a UID, so an
owner that is gone never comes back.  A sweep (`CallSweep`) chooses among the holders
whose owner is gone, and only while no consumer of any owner runs: Pods are not
attributed to holders (`InUse`, `claimInUse`), so one reader that never stops keeps the
hold of a writer that is gone, and `LeftHoldsSwept` speaks of objects that stay unused.
Owner and Pods are read in one step.

### WorktreeStore, WorkspaceMounts, WorktreeExecs

A Workspace pass (`pass[w]`) works on the spec it read first.  Its program counter
follows `WorkspaceReconciler.Reconcile`: `resolve` (dependencies, suspension,
recovery), `admit`/`create` (no Pod yet), `verify`/`topology` (a Pod exists),
`readmit`/`hot`/`retain`/`ack` (a ready Pod).  Every request that others can observe
is a step of its own.  `releaseClaims` reads the Pod and the helpers and releases the
holds in one step: only the Workspace's own pass creates its Pod, its helpers or its
holds, and there is one pass per Workspace at a time, so nothing it read can become
false before the release.  `helper[w][t]` is the helper Pod of a mount together with
its cleanup Pod: a *failed* helper leaves its bind mount on the node until a cleanup
Pod has run there, so it still counts as a writer (`Live`), although Kubernetes no
longer counts it as a user of the volume (`RunsOn`).  `pod[w].claims` is the
write-Worktrees annotation, as old as the Pod, and `pod[w].acked` the acknowledged
generation.

`WorktreeExecs` separates the status write that records the Job from the creation of
the Job, and the release of a hold from the status write that follows it.  With
`"lag"` the pass reads the exec, its Job and its Pod from `seen`, which catches up
one part at a time.

### RepositoryParent

One pass per object (`pass[o]`), as above; `Reserve` and `Confirm` are the two halves
of `Gate.Acquire`, between which everybody else may step, and a pass remembers the
generation and the condition of the Repository it read.  `job` and `pods` are apart:
a Job can be deleted while its Pod writes on.  `content` is what a checkout left on
the volume, 0 from the start of a checkout until it succeeds; the code cannot see it,
the properties compare it with what the status claims.  `status` keeps the observed
generation and the class of the StorageReady reason; two different failures with the
same class count as the same status in `Unchanged`, which only makes `Confirm` more
permissive.  Commands leave `content` alone: what a user's command does to the
checkout is the user's business.  `disruptions` counts deleted objects, lost Jobs and
failed passes together.  The passes read the Repository from the cache; because
`Confirm` compares it with the API server, a stale read ends like an edit between the
read and the reservation.  Owners leave the Lease before they go, so the sweep of
vanished owners, which serves objects whose finalizer was removed by force, has
nothing to do here.

In `WorktreeSystem`, `Disturbances` is what users and the cluster do in a load (edit
mounts, suspend, delete, start executions, delete storage, drop Jobs ...).  `MaxEdits` bounds spec edits, `MaxTopology` topologies,
`load.faults` failed calls, lost Pods and failed helpers together; `MaxTries` is the
retry limit of `Update`.

### WorktreeBootstrap

`pass` is the Worktree controller's pass: the fence (`close`, `drain`), the Repository,
`PlanClone` over request, capacity, sizes and access modes, the creation of the claim,
its phase, the bootstrap Job, the status, and `usedBy` at the end.  `source` is what
the parent's claim reports, which may change between the plan and the creation.
`checkout` is what is really on the child, which the code only infers from Jobs and
Pods.  `job` is the Job, `seenJob` the one in the cache and `jobPods` the Pods, which
outlive a deleted Job.  A generated Worktree (`spec.deferred`) has no Job: the pass of a
Workspace that finds the volume ready and the Worktree uninitialized adds an init
container (`mounting[u]`, `pod[u]`).  `worked` remembers the child a user has worked on.

### ProcessTable and Supervisor

`table` dies with the supervisor; `owner` (owner.uid) and `record` (record.json) stay.
A process has an ID, which may be reused, and a UID, which may not.  Pruning removes
`owner` with the rest of the directory, and the supervisor has then forgotten the UID; a
start for it that is repeated makes another process.  `removed` counts this per UID.  In
`Supervisor`, where a process has output and clients of its own, an element of `Uids` is
one *life* of a process: a request names a UID, `BeginStart` gives it a life it has not
had (`Lives`), and `Identity` says which lives belong to one UID.  How many lives a UID has
is a bound of the instance.  `PruneHistory` may take any ended process at any time, the
one whose start is on its way to be repeated included.  A `Supervisor`
start claims the ID, prepares transcript, files, credential links, projections,
environment and command under `mu`, one step each with a check for cancellation before
it, and then launches, records a failure or rolls back; every other operation takes the
lock for one step.  `native` follows the process itself, `pipe`, `out`, `copy` its
output through `processOutput.Write`, `kept` the transcript.  `WriteFails` is a
transcript that cannot be written: Write returns, no client gets the bytes, and the copy
closes the pipe (`broken`).  A client's `queue` is its
channel: a lossless client blocks the writer, another one is dropped when it is full.
Output is a number of bytes and a client knows up to which position it has seen it, so
that gaps and lost tails are visible.  `aliases` has the owners of each credential link
and `held` the links each process was started with.  `serve` follows Serve from the end
of its context through waiting for handlers to the stop of every process;
`RestartServe` is a new container on the same volume.

### WorkspaceExecs and WorkspaceLifecycle

`obj` is the record of a WorkspaceExec and `seen` the cached one (`load.lag`).
`pass[e]` follows Reconcile: finalizer, admission through the Workspace's gate,
claiming a runtime UID, resolving environment and credentials, the start request,
`Inspect`, stop, finalize and the removal of expired records.  The history of the
supervisor is pruned at any time (`HistoryPass`), whatever the controller knows of the
process, and a stop answers with what is found under the name when the process has ended.  A request under way is in
`wire` and may be answered, delivered late or lost; an update refers to the version that
was read.  `WorkspaceLifecycle` adds the runtime pass (Pod, readiness, suspension,
deletion) and retention (`plan`): clocks are recorded first, the decision is taken in
further steps, each conditional on the version that was read, and an expired Workspace
is closed to new executions before they are counted.  Time is `now`, in units of the
timeouts.

### Environments

A claim is named after the revision it was made for and `holds` the executions whose
work is on it; `sealed` is what a revision held when it was committed.  `pass` is the
Environment controller (current, observed generation, commit, promotion, editor, idle
stop), `job[e]` the WorkspaceExec worker that resolves the target, makes the draft and
the editor and starts the command, and `homing` the part of the Workspace pass that
clones a home and records its source revision.  Each read and each write is a step.
Reads show the object as it is; a pass keeps what it read.  A worker that finds its editor
gone when it starts the command records the execution as ended (Lost in the code).  A
replaced editor is the editor again: the UID check of `originalRuntimePod` is not told
apart from its absence.
`MaxCommits` bounds the commits of a load, and with them the names of claims.

## Runs

| Run | Instance | Checks |
|---|---|---|
| `hold_set` | 2 owners, the keeper, Worktree policy, 2 attempts | `TypeOK`, `ExclusiveAccess`, `ConsumersCovered`, `DrainedIsQuiet`, `FenceHolds`, `ImplementsFence` (refinement of `AccessFence`), `LeftHoldsSwept` |
| `mounts` | 2 Workspaces; 1 Worktree with 1 edit, 2 topologies and 1 fault, or 2 Worktrees with every initial spec | `OneWriter`, `ImplementsFence` |
| `worktrees` | a Workspace and a WorktreeExec with 1 edit whose storage is deleted or whose executions run; 2 WorktreeExecs with deleted storage, lost Jobs and deletion, or with a fault; 1 with 2 faults; 1 with lagging caches; 2 Workspaces with 1 edit, mount, suspend and delete; 1 whose dependencies go missing too | `ConsumersHeld`, `VolumeProtected`, `CommandOnce`, `ResultIsFinal`, `SuspendReleases`, `ExecsFinish`, `DeletionCompletes`, `MountsConverge` |
| `parent` | 2 generations, a sync, a command, a clone, 1 disruption | `ParentExclusive`, `ReadyIsWhole`, `CloneIsWhole`, `JobOnce`, `ReservedWhileUsed`, `RequestsReleased` |
| `worktree_bootstrap` | 2 users, a Job's and a generated Worktree, 2 sources, sizes to 2, 1 fault | `ChildIsWhole`, `WorkUndisturbed`, `WorktreeSettles` |
| `supervisor` | 5 UIDs on 4 IDs, one of them with 2 lives, 2 handlers, 2 runs of a service, 2 clients, 1 restart | `AtMostOnce`, `AliasesLive`, `ShutdownComplete`, `StreamsWhole`, `ShutdownEnds` |
| `workspace_execs` | 2 executions, 2 Pods, up to 2 faults, 5 ticks, 2 edits; caches that lag; pruning | `StatusTrue`, `ExpiryFenced`, `IdleClockKept`, `SecretUntilStarted`, `ResultKept`, `StopSettles` |
| `environments` | 2 executions, 2 commits, 1 edit, 1 fault, 1 lost editor, a home | `WorkKept`, `HomeIsRevision`, `CommitSettles` |
| `downgrade`, `max_run`, `commit_mounted`, `pruned_start` | see findings | violated by what the code does |

Bounds.  Exclusion and cover are about pairs of owners, so two suffice; the third
party of every race is the keeper or the kubelet, which is always there.  Two
attempts of `Update` show both the retry and the end of the retries.  One edit in
the middle of any pass of either Workspace gives every "spec read, then changed"
race, because the initial states already contain every pair of specs.  One fault at
every possible moment gives every single crash; the refinement proof covers any
number of faults at the hold-set level.  Two generations of a Repository give every
edit in the middle of a bootstrap, a sync, a command or a clone; one consumer of each
kind gives every pair of kinds.

In the supervisor two processes use one name one after the other, a third shares their
credential link, and two requests for the same identity race; a queue of one chunk and
a transcript of two bytes against three bytes of output make the queue fill, the
transcript overflow and a client attach on either side of both.  Two runs of a service
with a history of one make it prune.  A UID with two lives is started, pruned and started
again, by two handlers and across a restart.  In `workspace_execs` each timeout is one to three
ticks, so that a decision may be taken just before, at and after it; two Pods give a
replaced runtime, and one or two faults a repeated start, a lost reply and a lost Pod.
Two commits are needed to delete a volume that was current before; the second execution
runs on the draft that a commit is about to promote.  In `worktree_bootstrap` a size of
2 against requests of 1 tells a grown source from the planned one, and two users give
the race for the first initialization.  `CHECK_DEADLOCK FALSE` appears in all runs but
`hold_set` and `worktree_bootstrap`, because a system whose users, commands and timers
have ended really is at rest.

Fairness.  Controller passes are weakly fair: controller-runtime retries a failed
request and rc requeues whatever waits.  The kubelet, the Job controller and the
garbage collector are weakly fair, and so is the storage driver that copies a clone.
The end of executions, edits and faults are not
assumed.  In `HoldSet` the sweep is strongly fair: it starts every pass of the
Worktree controller, and contention on one object with the client's backoff does not
last for ever.  Nothing is assumed of owners or of their consumers.

In the supervisor the goroutines of a call, of a process's output and of its end run on,
a killed process dies, and a handler's connection breaks when the context ends; a
process that only got SIGTERM, a client that does not read and a user who does not type
owe nothing, which is what `ShutdownEnds` is about.  In `workspace_execs` executions are
reconciled when they or their Pod change, retention follows the clock and requeues
itself, requests arrive in the end and a process that was asked to stop dies; a process
that nobody asked to stop may run for ever.  In `environments` commands end (weakly fair,
`ProcessEnds`): `CommitSettles` asks only about times without active executions, but
one that is never ended keeps a commit waiting by design.  In `worktree_bootstrap` the
driver copies, Pods of Jobs start and end and caches catch up; users owe nothing.

`EditMount` lets a writable mount become read-only only after the write hold is gone
unless `"downgrade"` is in `Disturbances`: that edit alone breaks `OneWriter` (see
below), and the other runs ask whether anything else does.

## Findings

- `downgrade`: a mount edited from read-write to read-only loses its write hold
  before its writable helper is gone, and another Workspace may write beside it.
- `max_run`: at the end of the maximum run the executions are listed and asked to stop,
  then the Workspace is suspended; an execution created after the list is asked nothing,
  the suspension waits for it, and the deadline no longer applies to a Workspace that is
  to be suspended (`workspace_retention_controller.go:117`).
- `commit_mounted`: a worker that resolved its target before the commit creates the
  editor after the commit's pass looked for one; once its execution is stopped the draft
  is promoted while that editor mounts it (`workspaceenvironment_controller.go:242`).
- `pruned_start`: the answer of a start is lost, the command ends, and the history is
  pruned by the number of its entries, which knows no age (`history.go:262`), before the
  next pass repeats the start: the supervisor finds no owner and the command runs twice.
  `history.go:223`, `docs/design/workspace-exec-history.md:108` and
  `docs/design/workspace-runtime.md:590` say it starts at most once.  No cache lags in this
  run.  `AtMostOnce` and `StatusTrue` therefore say what is left: a launch is repeated only
  after the directory of the one before was pruned.

Disagreements without a run of their own, each found with the same modules:

- A pass with a lagging cache turns a recorded result into Pending, because
  `setProcessCondition` does not look at the phase it replaces
  (`workspaceexec_controller.go:861`).  If the supervisor has pruned the ended process, the
  next start finds no trace of it and the command runs a second time, as in `pruned_start`
  but without a lost answer.  It takes a suspension that waits for the execution, which
  keeps the pass from starting it, and a resumption.
- A sweep lists the Pods once, for the first holder whose owner is gone
  (`holders.go:197`).  Another owner that starts a Pod after that list and is removed by
  force before its own turn loses its hold under the Pod, against `holders.go:59`.
  `HoldSet` reads owner and Pods in one step.
- Stop names a process by its ID only (`workspaceexec_controller.go:347`,
  `rckube/supervisor.go:346`).  A WorkspaceExec that is deleted between its claim and its
  start is given the end of an earlier one of the same name that the supervisor still
  knows, and its record says Exited although it never ran: two executions of one name with
  `users = {"delete"}` and two faults violate `StatusTrue`.  Start compares the UID and is
  not affected.
- With three executions, `stops` and one commit, a worker that found the draft before the
  commit records it over the draft that another execution has made since
  (`environment_runtime.go:176`): the Environment no longer names the volume with that
  work, although `docs/design/workspace-runtime.md:184` says a later edit or exec resumes
  from the draft until it is committed.  TLC finds `WorkKept` violated; two executions are
  too few for it, so `environments` checks `WorkKept` with two.
- A WorktreeExec deleted between the creation of its Job and the start of the Pod
  loses its hold to the sweep, which only looks at Pods (`holders.go:185`); one exec
  with `"deleteExec"` violates `ConsumersHeld`.
- A runtime created with a writable mount that was unmounted later is never replaced
  for a new topology once that Worktree refuses writers: the annotation of the old
  Pod still names it (`workspace_controller.go:458`), while
  `docs/design/workspace-runtime.md:366` says an idle runtime is replaced.
- A read mount edited to read-write while another Workspace writes is taken for a
  runtime that lost its writer, and its read mount is removed under running
  executions (`worktree_admission.go:136`), while `workspace_controller.go:487` says
  the runtime keeps running.
- When the bootstrap Job is deleted while its Pod runs and the spec is edited, Acquire
  drops the Repository's reservation under the running Pod (`access.go:175`), although
  `access.go:234` asks for stopped consumers; only `consumersStopped` keeps the next
  writer out, so `ParentExclusive` holds and `ReservedWhileUsed` leaves the bootstrap
  out.
- `CommandOnce` holds with lagging caches, and with faults, but not with lagging
  caches and a fault, a dropped Job or a deleted exec together: the cached exec may
  then be older than the whole life of its Job.
- A WorktreeExec's Job that the cache does not show right after its creation is taken
  for lost, and the write hold goes while the command runs
  (`worktreeexec_controller.go:100`, against the comment at `:80`).  A WorktreeExec deleted
  or taken for finished before its Pod started also stops protecting the volume.  This is
  why `ConsumersHeld`, `VolumeProtected` and `ResultIsFinal` leave out lagging caches, and
  the first two deleted executions.
- A missing dependency ends the Workspace pass before the desired state is looked at
  (`workspace_controller.go:322`), so a suspended Workspace keeps its Pod, mounts and holds,
  against `workspace_suspend.go:18` and `docs/design/workspace-runtime.md:310`;
  `SuspendReleases` asks for resolvable dependencies.
- A RepositoryExec or RepositorySync that reserved the parent and failed before it
  recorded its Job waits for a ready Repository after an edit of the spec
  (`repositoryexec_controller.go:148`, `repositorysync_controller.go:112`), while the
  Repository waits for that reservation (`repository_controller.go:104`, `access.go:162`).
  `RequestsReleased` is therefore about
  finished and deleted requests.

Environments:

- A commit without a draft (`workspaceenvironment_controller.go:229`) leaves its
  generation unobserved: the Environment does not become Ready again until a draft exists,
  and none is made while it is not Ready (`docs/design/workspace-runtime.md:176`).
  `CommitSettles` excludes it.
- A commit that `rcctl` reports as rejected because a process is active
  (`environments/cmd.go:282`, `workspace-runtime.md:179`) is carried out once the process
  has ended.
- A pending execution needs a Ready Environment; an edit or commit of the spec needs an
  Environment without active executions.  Each waits for the other.
- "At most two volumes" (`workspace-runtime.md:167`) fails when the deletion of the old
  current fails after the promotion; the old claim is then never looked at again.
- A home claim refused at admission (`workspace_controller.go:259`) has already recorded
  its source revision; a home cloned later, from a newer revision, keeps the old number
  (`workspace_types.go:453`).  The run lets claims be refused only without commits.
- The idle stop and `rcctl env stop` delete the editor after listing no active
  execution, with no gate between the list and the deletion.
- A commit may delete the old current while a home that clones it is not bound yet.
- A pass decides about a commit on the cached Environment
  (`workspaceenvironment_controller.go:61`) and then fetches the status it writes
  (`:271`).  Right after a promotion the cache may still show the commit as due and the old
  draft: the pass promotes the same volume a second time (`:275`) and clears the name of a
  draft that was made since.  `Environments` reads the Environment as it is.

Worktree bootstrap:

- A Job deleted while its Pod runs is replaced at once, and two Pods work on the
  checkout; `WorkUndisturbed` leaves it out (`lost`).
- A Job that succeeded and vanished before Ready was recorded is run again, and
  `git checkout -b` fails: BootstrapFailed on a whole checkout.  A failed Job is silently
  retried once its TTL has removed it.

Supervisor:

- A stream that was dropped for being slow may see the process's exit first and end
  without an error (`supervisor.go:516`), while `client.go:156` says slow clients are
  disconnected explicitly.
- Credential links made before `prepareCredentialAliases` fails or is cancelled midway stay
  owned, against `process_start.go:106`.
- After a failed write of the transcript (`supervisor.go:712`) the output copy ends
  (`osprocess/process.go:188`).  A lossless client then sees the process exit normally, with
  output missing and without a notice, while `osprocess/process.go:223` says data is lost
  only when the delay runs out and `docs/design/workspace-runtime.md:908` promises a lossless
  attach.  `OutputWhole` leaves such processes out; what clients got before is whole.

WorkspaceExecs:

- With a lagging cache `setProcessCondition` can turn a recorded result into Pending
  (`docs/design/workspace-runtime.md:579`: "Terminal states never return to Running");
  `ResultKept` allows exactly that.
- A start delivered after the stop, or after the finalizer, leaves a process nobody
  follows (`docs/design/workspace-exec-history.md`: deletion stops the process).
- Stop and Inspect name a process by its ID only, so after the reuse of a name they may
  reach the next one: two executions of one name, with two faults and user stops,
  violate `StatusTrue`.
- A result that a lagging cache turns into Pending between the scan and the deletion of an
  expired Workspace is an unfinished execution behind the fence; it violates
  `ExpiryFenced` with lagging caches.
- A pending execution waits for a running Workspace and a suspension for its executions.

## Proofs

TLC checks small instances; the theorems hold for every value of the constants: any
sets of owners, objects, processes and names, any loads, and any bounds on edits, faults,
sizes, queues and timeouts.  No property below is inductive by itself.  Each module of
proofs defines an inductive invariant `IInv` as a conjunction of named parts, which was
checked with TLC before it was proved, shows that `Init` establishes it and that every
action keeps it, one lemma per action, and derives the properties from it.  Lemmas on the
shape of records (what an update changes and what it leaves) and frame lemmas (what a step
elsewhere cannot disturb) carry most of the proofs.

| Module | Theorem | Property | Condition on the load |
|---|---|---|---|
| `HoldSetProofs` | `TypeCorrect`, `Covered`, `Exclusion`, `DrainQuiet`, `Fenced` | `TypeOK`, `ConsumersCovered`, `ExclusiveAccess`, `DrainedIsQuiet`, `FenceHolds` | |
| | `Refinement` | `ImplementsFence` | |
| `WorktreeProofs` | `WritersAlone` | `OneWriter` | no downgrade, no deleted exec, no lag |
| | `MountedIsHeld` | `ConsumersHeld` | no downgrade |
| | `VolumeKept`, `ResultsFinal` | `VolumeProtected`, `ResultIsFinal` | those the properties name |
| | `CommandsOnce` | `CommandOnce` | no lag |
| `WorktreeRefinement` | `AccessRefinement` | `ImplementsFence` | no downgrade, no deleted exec, no lag |
| `RepositoryProofs` | `ParentTypes`, `WritersAlone`, `ReadyHasContent`, `ClonesWhole`, `RequestsRunOnce`, `UsersHold` | `TypeOK`, `ParentExclusive`, `ReadyIsWhole`, `CloneIsWhole`, `JobOnce`, `ReservedWhileUsed` | |
| `WorktreeBootstrapProofs` | `BootstrapTypes`, `ChildrenWhole`, `WorkIsKept` | `TypeOK`, `ChildIsWhole`, `WorkUndisturbed` | |
| `SupervisorProofs` | `SupervisorTypes`, `StartsOnce`, `LinksStay`, `ShutdownStops`, `NothingLost` | `TypeOK`, `AtMostOnce`, `AliasesLive`, `ShutdownComplete`, `StreamsWhole` | |
| `WorkspaceLifecycleProofs` | `LifecycleTypes`, `IdleClock`, `SecretsWait`, `ResultsStay` | `TypeOK`, `IdleClockKept`, `SecretUntilStarted`, `ResultKept` | |
| | `StatusIsTrue` | `StatusTrue` | names are not reused |
| | `ExpiryIsFenced` | `ExpiryFenced` | no lag |
| `EnvironmentsProofs` | `EnvironmentTypes` | `TypeOK` | |
| | `WorkKeptTwo` | `WorkKept` | at most two executions |
| | `WorkKeptFresh` | `WorkKept` | no stale draft is recorded (`FreshRecords`) |
| | `HomeIsRevisionOne` | `HomeIsRevision` | one execution; homes are refused only without commits |
| | `HomeIsRevisionFresh` | `HomeIsRevision` | `FreshWrites`, `HomesMatch` |

The conditions are not there to help the proofs: without them TLC finds the property
violated, as the findings say (`downgrade` and the ones without a run).  What
they leave is more than the runs explore: `CommandsOnce`, for example, covers any number
of faults, dropped Jobs and deleted execs.

**HoldSet.**  `IInv` adds what a call in flight relies on: a save the API server would
accept was computed from the current set (`FreshIsCurrent`), a release in flight has no
consumers and an admission still covers what runs (`OwnerCallsSafe`), a hold the sweeper
chose stays stale because its owner can neither return nor start anything
(`KeeperCallSafe`), and the persisted holds are compatible (`HoldsCompatible`).  Exclusion
follows from compatible holds and covered consumers; the refinement maps a successful
`Save` to the abstract operation it carries, which `FreshIsCurrent` makes the right one,
and every other step to a stutter or to `Use` and `Leave`.

**WorktreeSystem.**  Three layers: write holds exclude each other and a closed set is
empty; a Workspace asks for a hold before it creates a helper and gives it back only in a
pass that has seen no helper, or only helpers of the modes it keeps (`AsSpecified`,
`NeverWeakened` say at which steps of a pass that is known); a WorktreeExec holds from its
admission until its Job and Pod have ended (`Orderly`).  Exclusion of *consumers* follows
only from all three: holds alone do not tell what a failed helper has left mounted.

**WorktreeRefinement.**  The refinement mapping takes the helpers of a Workspace and the
Pod of a WorktreeExec to uses of the Worktree.  Each step belongs to one owner, who changes
what it uses or what it holds and never both (`WorkspaceMoves`, `ExecActs`).  Every Worktree
sees such a step as `Use`, `Leave`, `Grant`, `Weaken`, `Drop` or nothing: a helper is created
where none is and under a hold of its mode (`AsSpecified`), a command starts under the write
hold (`Orderly`), a hold that changes still covers what runs (the invariant in the next
state), and a write hold is never granted past the fence, to a reader either
(`HoldGrants`).  The cleanup pass is `Fence`.

**RepositoryParent.**  A writer has the Lease from its reservation until its Job and Pods
are gone, so what a pass saw when it was admitted stays true until it is used
(`RequestSafe`, `CloneSafe`, `ParentSafe`).  The one consumer without the Lease is the Pod
of a bootstrap Job that was lost; `PodsAlone` says that nobody gets past `Confirm` while it
runs.  `ContentSafe` ties what the status claims to what is on the volume.

**WorktreeBootstrap.**  A Worktree gets one child in its life (`OneChild`: a claim goes
away only through a closed fence, behind which no pass plans), it is copied under the
reservation taken before the parent was measured (`CloneSafe`), and a checkout is made in
one of two ways that exclude each other, by a Job that is over before anybody mounts or by
the init container of the holder (`JobsSafe`, `UsersSafe`).

**Supervisor.**  The start that holds the lock has a name nobody else owns and a life that
was never launched (`AttemptSafe`); a launched life that was not pruned owns its name
(`StartsSafe`), so two lives of one UID are not both in the history; a native process that
is not over is the running one of its name (`TableSafe`); from the moment Shutdown reads the
table every running process has a stop of its own (`ServeSafe`).  For streams the invariant
says where what a client has meets what is on its way: its queue continues what it has, and
ends where the output ends or where the chunk being sent to it begins; a copy that has
broken has nothing on its way (`BrokenSafe`).

**WorkspaceLifecycle.**  A pass under way works on a record with the finalizer, which only
that pass removes (`Finalized`); a start under way is about an execution that waits
(`StartFits`); an outcome on its way, or recorded, is about a settled start
(`OutcomeTrue`); of the launches of an execution all but the last were pruned, and the last
one was pruned too or still has its claim, so that a late request finds an owner as long as
anything is left to find (`StartsSafe`); from the closing of the gate on nothing is admitted and from
the scan on what was admitted is finished (`FenceSafe`); and the last completion is on some
record, with its finalizer, or already on the Workspace (`ClockSafe`), which is why the
idle clock survives the deletion of records.  `RecordStep` says what any step may do to a
record: mark it, remove it in its own pass, or write a state over an unfinished one;
`ResultKept` follows from it.

**Environments.**  `TInv` (types, the count of commits and revisions, what a pass still
knows of what it read) is inductive in every behaviour.  `WInv` says that current and the
draft carry the names of their revisions, that each claim is a clone of the one before it,
that only claims older than current go away, and that all work is on the draft or, until
that is bound, on current.  Exactly one kind of step breaks it: a worker that resolved its
target before a commit records the old name again, because `setEnvironmentDraftStatus`
(`environment_runtime.go:176`) patches the status without comparing revisions.
`FreshRecords` says that no step of a behaviour is of that kind, and `WorkKeptFresh` then
holds for any number of executions.  A commit needs an Environment without active
executions, so with two of them the stale worker is alone: `PairInv` is `WInv` with such a
worker (`Overtaken`), or the states after it has recorded its draft (`Late`), where draft
and current are one volume with all the work and nothing moves on.  That makes
`WorkKeptTwo` unconditional.  With a third execution the finding above is a
counterexample.

`HInv` adds what was sealed.  `HomeIsRevisionFresh` needs that workers and processes touch
only the draft of the status (`FreshWrites`; the executions of `commit_mounted` that run on in
the editor of a committed volume do not) and that a home is cloned from the claim of the
revision it records (`HomesMatch`; a refused home and a later commit break it, see the
findings).  With one execution (`OneInv`) both follow: nothing is committed while it is
under way, and when a commit has left its editor mounted there is nobody to write in it.

**Assumptions.**  Each is named, in the module that declares the constants, and evaluated
by the runs.

- `HoldState`, `HoldSet`: the exclusion policy is symmetric, a mode covers itself, and a
  mode that covers another excludes whatever the other excludes.
- `KindsAssumption`: a holder key starts with the kind of its owner, so Workspaces and
  execs differ.
- `ParentAssumption`, `BootstrapAssumption`: kinds of objects are disjoint, a size is not
  zero, and bounds are natural numbers.
- `IdsAssumption`: every process has a name; `None` is no value of a record.
- `SupervisorAssumption`: the threads are distinct, the clients finitely many, the
  lives of a UID share its name, and the runs of a service have UIDs of their own, each
  with one life, under names with a prefix that other processes
  do not have (`serviceIDPrefix`, `services.go:36`).
- `LifecycleAssumption`: timeouts are natural numbers and `None` is not a record.
- `EnvironmentsAssumption`: the numbers of a load are natural and its commits at most
  `MaxCommits`.

**Only model-checked.**

- Liveness (`LeftHoldsSwept`, `SuspendReleases`, `DeletionCompletes`, `MountsConverge`,
  `ExecsFinish`, `RequestsReleased`, `WorktreeSettles`, `ShutdownEnds`, `StopSettles`,
  `CommitSettles`): it needs fairness and ENABLED.

The `TypeOK` of `WorktreeSystem` is neither proved nor a property of a run: its bound on
edits is a sum over all Workspaces, which would need induction over finite sets.  The
types without that bound are part of `HoldsInvariant`, and the whole predicate holds on
the instances of `Mounts.cfg`, `Worktrees.cfg` and `Downgrade.cfg` when
it is added to them.

## Not modelled

- Workspaces: Windows static mounts and readiness, Repository mounts, RBAC objects, one
  Worktree mounted twice at different paths, a cleanup Pod that fails (the helper then
  stays `cleaning`, as in the code), labels and status messages.
- Repositories and Worktrees: expansion and storage errors of the parent volume, submodule
  conditions, force-deleted owners, the migration of legacy Leases, the old layout of
  generated Worktrees, and conflicts with foreign claims or Jobs of the same name, which
  end a pass without a change.
- Environments: deletion of an Environment and the retention of its history; the cached
  reads of the Environment and its executions; edits that a pass reports as unsupported and
  waits on (platform, `workspaceenvironment_controller.go:64`; storage, `:121`), a foreign or
  missing claim (`:89`, `:104`) and a claim that fails to provision (`:126`).  The `EditSpec`
  of the model is none of these edits; after one the Environment stays not Ready until the
  next edit, and `CommitSettles` would not hold.
- Supervisor: terminal size and the foreground client, the reads List and Logs, signals
  that fail, and descendants of a process that keep its output open.  Which ended
  processes the history policy picks, and when, is left open; the age of transcripts is not
  modelled.
- Credential controllers, the audit reports and the platform packages have no protocol of
  their own: they validate, report, and build Pod specs.  `rcctl` is a client that edits
  specs and waits for conditions; its edits are the users' actions, its terminal handling
  is I/O.

## Plan

1. Hold sets with their proofs - done.
2. Worktree access: store, Workspace pass, WorktreeExec, composition - done.
3. `RepositoryParent`: the gate over the parent volume with Sync, Exec, bootstrap and
   clone - done.  Open: Workspace mounts of a Repository, expansion.
4. `ProcessTable` and `Supervisor` - done.
5. `WorkspaceExecs` and `WorkspaceLifecycle` - done.
6. `Environments` and `WorktreeBootstrap` - done.  Open: deletion of an Environment.
7. Proofs: safety of `HoldSet`, `WorktreeSystem`, `RepositoryParent`,
   `WorktreeBootstrap`, `Supervisor`, `WorkspaceLifecycle` and `Environments`,
   and the refinement of `AccessFence` by `HoldSet` and by `WorktreeSystem` - done: every
   safety property that a run checks is stated by a theorem.
