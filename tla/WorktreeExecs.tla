---------------------------- MODULE WorktreeExecs ----------------------------
(***************************************************************************)
(* The WorktreeExec controller: one command, run once by a Job, under the  *)
(* Worktree's write hold.  The controller reads the exec, its Job and the  *)
(* Job's Pods from informer caches that follow the API server separately,  *)
(* and the Worktree from the API server itself.                            *)
(***************************************************************************)
EXTENDS WorktreeStore

CONSTANT Execs          \* the owners that are WorktreeExecs

ASSUME ExecsAssumption == Execs \subseteq Owners

VARIABLES
    target,     \* the Worktree each exec names
    exec,       \* the exec object: phase and whether its Job is recorded
    job,        \* its Job; "created" has not started a Pod yet
    jobPod,     \* the Job's Pod; "stopping" still runs
    seen,       \* the cached exec, Job and Pod
    execPass,   \* the step of the reconcile pass in progress
    starts      \* how often the command was started

execVars == <<target, exec, job, jobPod, seen, execPass, starts>>

ExecStates == [phase : {"pending", "stopping", "done", "deleted"}, recorded : BOOLEAN]
JobStates == {"absent", "created", "active", "finished", "deleting"}
PodStates == {"absent", "running", "stopping", "stopped"}
Views == [exec : ExecStates, job : JobStates, pod : PodStates]

NewExec == [phase |-> "pending", recorded |-> FALSE]

\* An exec that the load leaves out is already gone.
FirstSeen(e) == IF e \in load.owners THEN NewExec ELSE [NewExec EXCEPT !.phase = "deleted"]

\* One Job starts one Pod; a second start would repeat the command.
MaxStarts == 2

ExecTypeOK ==
    /\ target \in [Execs -> Worktrees]
    /\ exec \in [Execs -> ExecStates]
    /\ job \in [Execs -> JobStates]
    /\ jobPod \in [Execs -> PodStates]
    /\ seen \in [Execs -> Views]
    /\ execPass \in [Execs -> {"idle", "recheck", "record", "create", "stop", "finish"}]
    /\ starts \in [Execs -> 0..MaxStarts]

ExecInit ==
    /\ target \in [Execs -> load.worktrees]
    /\ exec = [e \in Execs |-> FirstSeen(e)]
    /\ job = [e \in Execs |-> "absent"]
    /\ jobPod = [e \in Execs |-> "absent"]
    /\ seen = [e \in Execs |-> [exec |-> FirstSeen(e), job |-> "absent", pod |-> "absent"]]
    /\ execPass = [e \in Execs |-> "idle"]
    /\ starts = [e \in Execs |-> 0]

Writing(e) == jobPod[e] \in {"running", "stopping"}

-----------------------------------------------------------------------------
(* The reconcile pass.                                                     *)

Current(e) == [exec |-> exec[e], job |-> job[e], pod |-> jobPod[e]]

\* What the pass reads.
View(e) == IF "lag" \in Disturbances THEN seen[e] ELSE Current(e)

Unavailable(e) == MountsClosed(target[e])

ReleaseWriter(e) == hold' = AfterRelease(target[e], e)

\* A terminal condition is never rewritten, and a deleted exec stays deleted.
SetExec(e, p, r) ==
    exec' = IF View(e).exec.phase = "done" \/ exec[e].phase = "deleted" THEN exec
            ELSE [exec EXCEPT ![e] = [phase |-> p, recorded |-> r]]

ExecGoTo(e, step) == execPass' = [execPass EXCEPT ![e] = step]

\* acquireClaim: admitted, or holding already.
Acquires(e) ==
    /\ exec[e].phase # "deleted"
    /\ MayMount(target[e], e, "write") \/ StillHeld(target[e], e, "write")

KeepStoreHolds == UNCHANGED <<tree, volume, faults>>

\* Mutant: a terminal exec is left alone.
ReleaseDoneNever(e) ==
    /\ View(e).exec.phase = "done"
    /\ UNCHANGED <<hold, exec, job, jobPod, execPass>>

\* A terminal exec gives its hold back again on every pass.
ReleaseDone(e) ==
    /\ View(e).exec.phase = "done"
    /\ ReleaseWriter(e)
    /\ UNCHANGED <<exec, job, jobPod, execPass>>

\* The Job is there: stop it, reflect its result, or verify the writer.
ObserveJob(e) ==
    LET v == View(e)
        deletes == job' = [job EXCEPT ![e] = IF @ = "absent" THEN @ ELSE "deleting"]
    IN /\ v.exec.phase \in {"pending", "stopping"} /\ v.job # "absent"
       /\ CASE v.exec.phase = "stopping" /\ v.job # "deleting" ->
                  deletes /\ ExecGoTo(e, "stop") /\ UNCHANGED <<hold, exec>>
            [] v.exec.phase = "stopping" /\ v.job = "deleting" -> UNCHANGED <<hold, exec, job, execPass>>
            [] v.exec.phase = "pending" /\ v.job = "finished" ->
                  ReleaseWriter(e) /\ ExecGoTo(e, "finish") /\ UNCHANGED <<exec, job>>
            [] v.exec.phase = "pending" /\ v.job # "finished" /\ ~Unavailable(e) /\ Acquires(e) ->
                  /\ hold' = AfterAdmit(target[e], e, "write")
                  /\ SetExec(e, "pending", TRUE)
                  /\ UNCHANGED <<job, execPass>>
            [] OTHER -> deletes /\ ExecGoTo(e, "stop") /\ UNCHANGED <<hold, exec>>
       /\ UNCHANGED jobPod

\* Mutant: the failure is final as soon as the Job's deletion is requested.
RecordStoppedEarly(e) ==
    /\ execPass[e] = "stop"
    /\ SetExec(e, "done", TRUE) /\ ExecGoTo(e, "idle")
    /\ UNCHANGED <<hold, job, jobPod>>

\* stopJobAndFail records the failure after the Job's deletion is requested.
RecordStopping(e) ==
    /\ execPass[e] = "stop"
    /\ SetExec(e, "stopping", TRUE) /\ ExecGoTo(e, "idle")
    /\ UNCHANGED <<hold, job, jobPod>>

RecordResult(e) ==
    /\ execPass[e] = "finish"
    /\ SetExec(e, "done", TRUE) /\ ExecGoTo(e, "idle")
    /\ UNCHANGED <<hold, job, jobPod>>

\* Mutant: a Pod that is being deleted counts as gone.
PodsGoneStopping(v) == v.pod \in {"absent", "stopping"}

PodsGone(v) == v.pod = "absent"

\* The recorded Job is gone: stop its Pods, and only then release the hold.
LoseJob(e) ==
    LET v == View(e)
    IN /\ v.exec.phase \in {"pending", "stopping"} /\ v.exec.recorded /\ v.job = "absent"
       /\ IF PodsGone(v)
          THEN ReleaseWriter(e) /\ ExecGoTo(e, "finish") /\ UNCHANGED <<exec, jobPod>>
          ELSE /\ jobPod' = [jobPod EXCEPT ![e] = IF @ = "running" THEN "stopping"
                                                  ELSE IF @ = "stopped" THEN "absent" ELSE @]
               /\ SetExec(e, "stopping", TRUE)
               /\ UNCHANGED <<hold, execPass>>
       /\ UNCHANGED job

\* Mutant: a recorded Job that disappeared is created again.
UnscheduledAgain(v) == v.exec.phase \in {"pending", "stopping"} /\ v.job = "absent"

Unscheduled(v) == v.exec.phase \in {"pending", "stopping"} /\ ~v.exec.recorded /\ v.job = "absent"

\* Nothing scheduled yet: admit the writer, or wait for it.
AdmitWriter(e) ==
    LET v == View(e)
    IN /\ Unscheduled(v)
       /\ CASE Unavailable(e) -> SetExec(e, "done", FALSE) /\ UNCHANGED <<hold, execPass>>
            [] ~Unavailable(e) /\ Acquires(e) ->
                  hold' = AfterAdmit(target[e], e, "write") /\ ExecGoTo(e, "recheck") /\ UNCHANGED exec
            [] OTHER -> SetExec(e, "pending", FALSE) /\ UNCHANGED <<hold, execPass>>
       /\ UNCHANGED <<job, jobPod>>

Reconcile(e) ==
    /\ execPass[e] = "idle" /\ View(e).exec.phase # "deleted"
    /\ ReleaseDone(e) \/ ObserveJob(e) \/ LoseJob(e) \/ AdmitWriter(e)

\* createClaimedJob: check readiness again, record the Job, create the Job.
Recheck(e) ==
    /\ execPass[e] = "recheck"
    /\ IF Unavailable(e) THEN ReleaseWriter(e) /\ SetExec(e, "done", FALSE) /\ ExecGoTo(e, "idle")
       ELSE ExecGoTo(e, "record") /\ UNCHANGED <<hold, exec>>
    /\ UNCHANGED <<job, jobPod>>

\* Patching an exec that is gone fails, unless the cache knows it is gone.
RecordJob(e) ==
    /\ execPass[e] = "record"
    /\ IF exec[e].phase = "deleted" /\ View(e).exec.phase # "deleted"
       THEN ReleaseWriter(e) /\ ExecGoTo(e, "idle") /\ UNCHANGED exec
       ELSE SetExec(e, "pending", TRUE) /\ ExecGoTo(e, "create") /\ UNCHANGED hold
    /\ UNCHANGED <<job, jobPod>>

\* A Job that exists already makes the call fail and changes nothing.
CreateJob(e) ==
    /\ execPass[e] = "create"
    /\ job' = [job EXCEPT ![e] = IF @ = "absent" THEN "created" ELSE @]
    /\ ExecGoTo(e, "idle")
    /\ UNCHANGED <<hold, exec, jobPod>>

\* An API call fails or the controller restarts.  The hold is released when
\* recording the Job failed.
ExecPassFails(e) ==
    /\ execPass[e] # "idle"
    /\ Fault
    /\ ExecGoTo(e, "idle")
    /\ IF execPass[e] = "record" THEN ReleaseWriter(e) \/ UNCHANGED hold ELSE UNCHANGED hold
    /\ UNCHANGED <<exec, job, jobPod, tree, volume, target, seen, starts>>

ExecStep(e) ==
    /\ \/ Reconcile(e) \/ Recheck(e) \/ RecordJob(e) \/ CreateJob(e)
       \/ RecordStopping(e) \/ RecordResult(e)
    /\ KeepStoreHolds /\ UNCHANGED <<target, seen, starts>>

-----------------------------------------------------------------------------
(* The Job controller, the garbage collector, caches and users.            *)

SetPods(e, j, p) == job' = [job EXCEPT ![e] = j] /\ jobPod' = [jobPod EXCEPT ![e] = p]

StartCommand(e) ==
    /\ job[e] = "created"
    /\ SetPods(e, "active", "running")
    /\ starts' = [starts EXCEPT ![e] = @ + 1]

CommandEnds(e) == jobPod[e] = "running" /\ SetPods(e, job[e], "stopped") /\ UNCHANGED starts

\* backoffLimit 0: the Job ends with its only Pod.
JobFinishes(e) ==
    /\ job[e] = "active" /\ jobPod[e] \in {"stopped", "absent"}
    /\ SetPods(e, "finished", jobPod[e]) /\ UNCHANGED starts

\* A Pod whose Job is gone or being deleted is collected; foreground deletion
\* removes the Job after it.
CollectPod(e) ==
    /\ job[e] \in {"absent", "deleting"}
    /\ jobPod[e] # "absent"
    /\ SetPods(e, job[e], IF jobPod[e] = "running" THEN "stopping" ELSE "absent")
    /\ UNCHANGED starts

PodStops(e) == jobPod[e] = "stopping" /\ SetPods(e, job[e], "absent") /\ UNCHANGED starts

RemoveJob(e) ==
    /\ job[e] = "deleting" /\ jobPod[e] = "absent"
    /\ SetPods(e, "absent", "absent") /\ UNCHANGED starts

\* The Job of a deleted exec is collected.
CollectJob(e) ==
    /\ exec[e].phase = "deleted" /\ job[e] \notin {"absent", "deleting"}
    /\ SetPods(e, "absent", jobPod[e]) /\ UNCHANGED starts

\* A user, or the Job's TTL, deletes the Job object before its Pods.
DropJob(e) ==
    /\ "job" \in Disturbances
    /\ job[e] \notin {"absent", "deleting"}
    /\ SetPods(e, "absent", jobPod[e]) /\ UNCHANGED starts

JobController(e) ==
    \/ StartCommand(e) \/ CommandEnds(e) \/ JobFinishes(e) \/ CollectPod(e) \/ PodStops(e)
    \/ RemoveJob(e) \/ CollectJob(e)

DeleteExec(e) ==
    /\ "deleteExec" \in Disturbances
    /\ exec[e].phase # "deleted"
    /\ exec' = [exec EXCEPT ![e].phase = "deleted"]
    /\ UNCHANGED <<job, jobPod, starts>>

\* One informer catches up.
Sync(e) ==
    /\ "lag" \in Disturbances
    /\ \E part \in {"exec", "job", "pod"} : seen' = [seen EXCEPT ![e][part] = Current(e)[part]]
    /\ seen' # seen

ExecNext ==
    \E e \in Execs :
        \/ ExecStep(e)
        \/ (JobController(e) \/ DropJob(e)) /\ UNCHANGED <<storeVars, target, exec, seen, execPass>>
        \/ DeleteExec(e) /\ UNCHANGED <<storeVars, target, seen, execPass>>
        \/ Sync(e) /\ UNCHANGED <<storeVars, target, exec, job, jobPod, execPass, starts>>
        \/ ExecPassFails(e)

\* sweepWorktreeHolders: the hold of an exec that is gone is removed while no
\* running Pod mounts the volume.
SweepExec(e, inUse) ==
    /\ exec[e].phase = "deleted"
    /\ tree[target[e]] # "gone" /\ ~inUse
    /\ hold[target[e]].mode[e] # "none"
    /\ ReleaseWriter(e)
    /\ KeepStoreHolds /\ UNCHANGED execVars

=============================================================================
