------------------------- MODULE WorkspaceLifecycle -------------------------
(***************************************************************************)
(* The life of one Workspace with its executions: the runtime controller,  *)
(* which starts, suspends and finalizes the runtime, and the retention     *)
(* controller, which suspends an idle or overdue Workspace and deletes an  *)
(* expired one.  Both run next to the WorkspaceExec controller.            *)
(*                                                                         *)
(* A retention pass reads the Workspace, records its clocks, and then      *)
(* takes its decision in further steps, each conditional on the version    *)
(* of the Workspace it has read.                                           *)
(***************************************************************************)
EXTENDS WorkspaceExecs, FiniteSetsExt

CONSTANTS StartTimeout,       \* workspaceStartTimeout
          TempStartTimeout,   \* temporaryWorkspaceStartTimeout
          TempCleanupDelay    \* temporaryWorkspaceCleanupDelay

VARIABLES
  plan,      \* the retention controller's pass, or None
  touched,   \* the last activity the supervisor was told of
  edits      \* how often a user changed the Workspace's spec

lifeVars == <<plan, touched, edits>>
vars == <<tableVars, worldVars, ws, pod, execVars, lifeVars>>

Created == 1   \* the time the Workspace was created

NewWorkspace ==
  [desired |-> "Running", ready |-> FALSE, readyAt |-> 0, suspended |-> FALSE,
   closed |-> FALSE, deleting |-> FALSE, expired |-> FALSE,
   active |-> 0, lastDone |-> 0, suspendedAt |-> 0, since |-> 0]

Workspaces ==
  [desired : {"Running", "Suspended"}, ready : BOOLEAN, readyAt : Nat, suspended : BOOLEAN,
   closed : BOOLEAN, deleting : BOOLEAN, expired : BOOLEAN,
   active : Nat, lastDone : Nat, suspendedAt : Nat, since : Nat]

ASSUME LifecycleAssumption ==
  /\ None \notin ExecRecords
  /\ StartTimeout \in Nat
  /\ \A l \in Loads : l.idle \in Nat

TypeOK ==
  /\ ExecTypeOK
  /\ ws.desired \in {"Running", "Suspended"}
  /\ ws.suspended => ws.desired = "Suspended" /\ ~ws.ready
  /\ \A t \in {ws.readyAt, ws.active, ws.lastDone, ws.suspendedAt, ws.since, touched} : t \in 0..now
  /\ plan # None => plan.at \in {"stop", "ask", "suspend", "close", "scan", "delete", "reopen"}

Init == ExecInit /\ ws = NewWorkspace /\ plan = None /\ touched = 0 /\ edits = 0

-----------------------------------------------------------------------------
(* Users, the clock, and the work a resident agent reports.                *)

Edit(desired) ==
  /\ edits < load.edits /\ ~ws.deleting /\ ws.desired # desired
  /\ edits' = edits + 1
  /\ ws' = [ws EXCEPT !.desired = desired, !.suspended = FALSE]
  /\ UNCHANGED <<tableVars, worldVars, pod, execVars, plan, touched>>

Tick ==
  /\ now < load.ticks
  /\ now' = now + 1
  /\ UNCHANGED <<tableVars, load, faults, ws, pod, execVars, lifeVars>>

Touch ==
  /\ load.touch /\ PodRuns /\ touched # now
  /\ touched' = now
  /\ UNCHANGED <<tableVars, worldVars, ws, pod, execVars, plan, edits>>

-----------------------------------------------------------------------------
(* The runtime controller.                                                 *)

KnownActive == \E e \in Uids : View(e) # None /\ ~Terminal(View(e))

\* setWorkspaceStatus of a Workspace that is to run ends a suspension.
Unready(w) ==
  [w EXCEPT !.ready = FALSE,
            !.active = IF w.desired = "Running" /\ w.suspendedAt # 0 THEN now ELSE @,
            !.suspendedAt = IF w.desired = "Running" THEN 0 ELSE @]

Running == ws.desired = "Running" /\ ~ws.deleting

Outer == UNCHANGED <<tableVars, worldVars, execVars, lifeVars>>

\* The Pod is missing: the loss is published before a Pod is made.
StartRuntime ==
  /\ Running /\ pod.state = "gone" /\ pod.n < load.pods
  /\ ws' = Unready(ws)
  /\ pod' = IF ws.ready THEN pod ELSE [n |-> pod.n + 1, state |-> "up"]
  /\ Outer

BecomeReady ==
  /\ Running /\ pod.state = "up" /\ ~ws.ready
  /\ ws' = [Unready(ws) EXCEPT !.ready = TRUE, !.readyAt = now, !.active = now]
  /\ UNCHANGED pod /\ Outer

\* reconcileRuntimeRecovery: a terminal Pod goes once nothing is bound to it.
RecoverRuntime ==
  /\ Running /\ pod.state = "terminated"
  /\ ws' = Unready(ws)
  /\ pod' = IF \E e \in Uids : Exists(e) /\ ~Terminal(obj[e]) /\ obj[e].pod = pod.n
            THEN pod ELSE [pod EXCEPT !.state = "gone"]
  /\ Outer

\* suspendWorkspace waits for the executions, then for the Pod.
Suspend ==
  /\ ws.desired = "Suspended" /\ ~ws.deleting
  /\ ~KnownActive => pod.state # "going"
  /\ IF KnownActive \/ pod.state # "gone"
     THEN ws' = [ws EXCEPT !.ready = FALSE, !.suspended = FALSE]
     ELSE ws' = [ws EXCEPT !.ready = FALSE, !.suspended = TRUE,
                           !.suspendedAt = IF @ = 0 \/ ~ws.suspended THEN now ELSE @]
  /\ pod' = IF ~KnownActive /\ pod.state \in {"up", "terminated"}
            THEN [pod EXCEPT !.state = "going"] ELSE pod
  /\ Outer

\* finalizeWorkspace stops the executions, deletes their records, then the Pod.
FinalizeWorkspace ==
  /\ ws.deleting
  /\ obj' = [e \in Uids |-> IF ~Exists(e) \/ View(e) = None THEN obj[e]
                            ELSE IF Terminal(View(e)) THEN Deleted(obj[e])
                            ELSE IF View(e) = obj[e] THEN [obj[e] EXCEPT !.stop = TRUE] ELSE obj[e]]
  /\ pod' = IF (\A e \in Uids : View(e) = None) /\ pod.state \in {"up", "terminated"}
            THEN [pod EXCEPT !.state = "going"] ELSE pod
  /\ obj' # obj \/ pod' # pod
  /\ UNCHANGED <<tableVars, worldVars, ws, lifeVars, born, seen, secret, pass, wire, admitted, lastRun>>

RuntimePass == StartRuntime \/ BecomeReady \/ RecoverRuntime \/ Suspend \/ FinalizeWorkspace

-----------------------------------------------------------------------------
(* The retention controller: its clocks.                                   *)

\* listWorkspaceProcesses: what the records, and the clock they left, tell.
Seen     == {e \in Uids : View(e) # None}
LastCompletion == Max({ws.lastDone} \cup {View(e).doneAt : e \in Seen})
AnyExec  == ws.lastDone # 0 \/ Seen # {}

SuspensionConfirmed(w) == w.desired = "Suspended" /\ w.suspended

\* recordRun.
Since(w) == IF w.desired = "Suspended" THEN IF w.suspended THEN 0 ELSE w.since
            ELSE IF w.since = 0 /\ w.ready THEN w.readyAt ELSE w.since

\* recordActivity.
Resumed(w) == w.suspendedAt # 0 /\ (w.desired # "Suspended" \/ KnownActive)
Clocked(w) ==
  LET activity == Max({Created, w.active, LastCompletion, IF w.ready THEN w.readyAt ELSE 0})
      suspendedAt == IF Resumed(w) THEN 0 ELSE w.suspendedAt
      legacy == /\ ~KnownActive /\ ~load.temporary /\ suspendedAt = 0
                /\ load.deleteAfter > 0 /\ SuspensionConfirmed(w)
  IN [w EXCEPT !.since = Since(w),
               !.active = IF Resumed(w) THEN now ELSE activity,
               !.suspendedAt = IF legacy THEN now ELSE suspendedAt]

\* lifecycleDeadlines, each as "it is due".
MaxRunDue(w) ==
  /\ w.desired # "Suspended" /\ load.maxRun > 0 /\ w.since # 0
  /\ now >= w.since + load.maxRun

IdleSpan(w) == IF w.ready THEN load.idle ELSE Max({load.idle, StartTimeout})
IdleDue(w) ==
  /\ ~KnownActive /\ ~load.temporary /\ w.desired # "Suspended" /\ load.idle > 0
  /\ now >= w.active + IdleSpan(w)

DeleteDue(w) ==
  /\ ~KnownActive
  /\ \/ /\ load.temporary /\ (AnyExec => LastCompletion # 0)
        /\ now >= IF AnyExec THEN LastCompletion + TempCleanupDelay ELSE Created + TempStartTimeout
     \/ /\ ~load.temporary /\ load.deleteAfter > 0 /\ SuspensionConfirmed(w) /\ w.suspendedAt # 0
        /\ now >= w.suspendedAt + load.deleteAfter

-----------------------------------------------------------------------------
(* The retention controller: its passes.                                   *)

\* The end of a pass: the gate it found closed, or closed itself, is reopened.
EndPass(w) == plan' = IF w.closed THEN [at |-> "reopen", ws |-> w, time |-> now, known |-> 0] ELSE None

\* Reconcile up to its decision.
PlanPass ==
  LET w == Clocked(ws)
      go(at) == plan' = [at |-> at, ws |-> w, time |-> now, known |-> lastRun]
  IN /\ plan = None /\ load.retention /\ ~ws.deleting
     /\ ws' = w
     /\ IF MaxRunDue(w) THEN go("stop") ELSE IF IdleDue(w) THEN go("ask")
        ELSE IF DeleteDue(w) THEN go("close") ELSE EndPass(w)
     /\ UNCHANGED <<tableVars, worldVars, pod, execVars, touched, edits>>

\* A conditional write of the Workspace: it conflicts when the Workspace has
\* changed since it was read.
Conditionally(w, next) ==
  /\ IF ws = plan.ws THEN ws' = w /\ next ELSE UNCHANGED ws /\ EndPass(plan.ws)
  /\ UNCHANGED <<tableVars, worldVars, pod, execVars, touched, edits>>

\* stopExecutions: the maximum run does not wait for executions.
StopExecutions ==
  /\ plan # None /\ plan.at = "stop"
  /\ obj' = [e \in Uids |-> IF Exists(e) /\ View(e) # None /\ ~Terminal(View(e))
                            THEN [obj[e] EXCEPT !.stop = TRUE] ELSE obj[e]]
  /\ plan' = [plan EXCEPT !.at = "suspend"]
  /\ UNCHANGED <<tableVars, worldVars, ws, pod, born, seen, secret, pass, wire, admitted, lastRun, touched, edits>>

\* postponeForRuntimeActivity.
Postponed == /\ pod.state = "up" /\ touched > plan.ws.active
             /\ touched + load.idle > plan.time
AskRuntime ==
  /\ plan # None /\ plan.at = "ask"
  /\ IF Postponed THEN Conditionally([ws EXCEPT !.active = touched], EndPass(ws))
     ELSE /\ plan' = [plan EXCEPT !.at = "suspend"]
          /\ UNCHANGED <<tableVars, worldVars, ws, pod, execVars, touched, edits>>

RequestSuspension ==
  /\ plan # None /\ plan.at = "suspend"
  /\ Conditionally([ws EXCEPT !.desired = "Suspended", !.suspended = FALSE], EndPass(ws))

\* deleteExpired: Gate.Close, the uncached scan, and the DELETE of the
\* version that was closed.
CloseGate ==
  /\ plan # None /\ plan.at = "close"
  /\ IF ws = plan.ws
     THEN /\ ws' = [ws EXCEPT !.closed = TRUE]
          /\ plan' = [plan EXCEPT !.at = "scan", !.ws = [ws EXCEPT !.closed = TRUE]]
     ELSE /\ UNCHANGED ws
          /\ plan' = [plan EXCEPT !.at = "reopen"]
  /\ UNCHANGED <<tableVars, worldVars, pod, execVars, touched, edits>>

\* Mutant: expiry does not look for executions behind the closed gate.
NothingFound == TRUE
ScanEmpty == \A e \in Uids : Exists(e) => Terminal(obj[e])

ScanExecutions ==
  /\ plan # None /\ plan.at = "scan"
  /\ plan' = [plan EXCEPT !.at = IF ScanEmpty THEN "delete" ELSE "reopen"]
  /\ UNCHANGED <<tableVars, worldVars, ws, pod, execVars, touched, edits>>

DeleteExpired ==
  /\ plan # None /\ plan.at = "delete"
  /\ Conditionally([ws EXCEPT !.deleting = TRUE, !.expired = TRUE], plan' = None)

\* Gate.Reopen.
ReopenGate ==
  /\ plan # None /\ plan.at = "reopen"
  /\ ws' = IF ws.deleting THEN ws ELSE [ws EXCEPT !.closed = FALSE]
  /\ plan' = None
  /\ UNCHANGED <<tableVars, worldVars, pod, execVars, touched, edits>>

\* The controller restarts, or a call fails: the gate may stay closed.
RetentionFails ==
  /\ plan # None /\ faults < load.faults /\ faults' = faults + 1
  /\ plan' = None
  /\ UNCHANGED <<tableVars, load, now, ws, pod, execVars, touched, edits>>

RetentionPass == \/ PlanPass \/ StopExecutions \/ AskRuntime \/ RequestSuspension
                 \/ CloseGate \/ ScanExecutions \/ DeleteExpired \/ ReopenGate

\* historyRetention: the supervisor forgets ended processes.  Which ones the
\* policy picks is left open: MaxEntries knows no age, and neither looks at the
\* WorkspaceExec or at requests under way.
HistoryPass ==
  /\ load.prune /\ PodRuns /\ ~ws.deleting
  /\ \E S \in SUBSET {i \in Ids : Prunable(i)} \ {{}} : PruneSet(S)
  /\ UNCHANGED <<worldVars, ws, pod, execVars, lifeVars>>

-----------------------------------------------------------------------------

ExecStep(e) == Create(e) \/ AskToStop(e) \/ Delete(e) \/ Sync(e) \/ ExecPass(e) \/ Abort(e)

Next ==
  \/ \E e \in Uids : ExecStep(e) /\ UNCHANGED lifeVars
  \/ \E q \in wire : Deliver(q) /\ UNCHANGED lifeVars
  \/ \E i \in Ids : ProcessEnds(i) /\ UNCHANGED lifeVars
  \/ \E s \in {"up", "terminated", "gone"} : LoseRuntime(s) /\ UNCHANGED lifeVars
  \/ PodGone /\ UNCHANGED lifeVars
  \/ \E d \in {"Running", "Suspended"} : Edit(d)
  \/ Tick \/ Touch \/ RuntimePass \/ RetentionPass \/ RetentionFails \/ HistoryPass

(***************************************************************************)
(* Controllers repeat their passes, requests arrive, time goes on and a    *)
(* process that was asked to stop is killed in the end.  A process that    *)
(* was not may run for ever.                                               *)
(***************************************************************************)
Killed(i) == table[i] # None /\ table[i].stop /\ ProcessEnds(i) /\ UNCHANGED lifeVars

\* An execution is reconciled when it or its runtime Pod changes.
ExecsKeepUp ==
  \A e \in Uids : /\ WF_vars(ExecPass(e) /\ UNCHANGED lifeVars)
                  /\ WF_vars(Sync(e) /\ UNCHANGED lifeVars)

\* Retention follows the Workspace, its executions, its Pod and the clock.
RetentionKeepsUp == WF_vars(RetentionPass) /\ WF_vars(Tick)

Fairness ==
  /\ ExecsKeepUp /\ RetentionKeepsUp
  /\ WF_vars(\E q \in wire : Deliver(q) /\ UNCHANGED lifeVars)
  /\ \A i \in Ids : WF_vars(Killed(i))
  /\ WF_vars(PodGone /\ UNCHANGED lifeVars)
  /\ WF_vars(RuntimePass)

Spec == Init /\ [][Next]_vars /\ Fairness

-----------------------------------------------------------------------------
(* Properties.                                                             *)

\* However often a start is repeated, delayed or lost, and whatever becomes
\* of the Pod and the controller, a command is launched at most once for as
\* long as its process history is there, and a record that says Running, or how
\* the process ended, is about a process that was launched for it.  (Pruning
\* opens the way to another launch, see StartedOnce; names that are used again
\* can break the second part: the README says how.)
StatusTrue ==
  \A e \in Uids :
    /\ launches[e] <= removed[e] + 1
    /\ Exists(e) /\ obj[e].phase \in {"Running", "Exited"} => launches[e] >= 1

\* A command is launched once, whatever is pruned: history.go says that pruning
\* is safe because "a WorkspaceExec record is never started twice".
StartedOnce == \A e \in Uids : launches[e] <= 1

\* A Workspace that expired is deleted only when no execution that passed
\* its gate is unfinished, and none passes the gate afterwards.
ExpiryFenced ==
  ws.expired => \A e \in admitted : ~Exists(e) \/ Terminal(obj[e])

\* A Workspace is suspended as idle only when the last execution has been
\* complete for the whole timeout, also when its record is already deleted.
IdleClockKept ==
  plan # None /\ plan.at = "ask" => plan.time >= plan.known + load.idle

\* An execution that waits to be started still has its environment.
SecretUntilStarted ==
  ~load.lag => \A e \in Uids : Exists(e) /\ obj[e].phase \in {"Pending", "Starting"} => secret[e]

\* A result is never replaced by another one or by a late reply of the
\* supervisor.  (setProcessCondition does not look at the phase it replaces:
\* a pass that began with a lagging cache can turn a result into Pending.)
ResultKept ==
  [][\A e \in Uids : Exists(e) /\ Terminal(obj[e])
       => obj'[e] = None \/ obj'[e].phase \in {obj[e].phase} \cup (IF load.lag THEN {"Pending"} ELSE {})]_vars

\* An execution that is asked to stop comes to an end, and so does one that
\* is deleted.
StopSettles ==
  \A e \in Uids : (Exists(e) /\ (obj[e].stop \/ obj[e].deleting)) ~> (~Exists(e) \/ Terminal(obj[e]))

\* At the end of its maximum run a Workspace gives up its compute, whatever
\* its activity.
RunBounded ==
  (ws.since # 0 /\ load.maxRun > 0 /\ now >= ws.since + load.maxRun /\ load.edits = 0)
    ~> (pod.state = "gone" \/ ws.deleting)
=============================================================================
