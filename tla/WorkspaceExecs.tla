--------------------------- MODULE WorkspaceExecs ---------------------------
(***************************************************************************)
(* The WorkspaceExec controller: it starts commands in the runtime Pod of  *)
(* one Workspace, follows them to their end and removes their records.     *)
(*                                                                         *)
(* A pass reads the informer cache, and its calls of the API server and of *)
(* the supervisor are separate steps: users, the kubelet, the supervisor   *)
(* and the other controllers move in between, and the pass may fail at any *)
(* of them.  An update refers to the version that was read and is refused  *)
(* when the record has changed since.                                      *)
(*                                                                         *)
(* The supervisor is the ProcessTable, with one step for a whole request;  *)
(* Supervisor shows what happens inside.                                   *)
(***************************************************************************)
EXTENDS ProcessTable, FiniteSets

CONSTANTS ResultWindow,   \* executionResultWindow
          Loads           \* what one behaviour exercises, see WorkspaceLifecycleMC

VARIABLES
  load,      \* the load of this behaviour
  now,       \* the clock, from 1: time 0 is "not set"
  faults,    \* how many failures have happened
  ws, pod,   \* the Workspace, its runtime Pod
  born,      \* the WorkspaceExecs that were ever created
  obj, seen, \* per WorkspaceExec: the record, the cached record
  secret,    \* per WorkspaceExec: its environment Secret is there
  pass,      \* per WorkspaceExec: the controller's pass
  wire,      \* start requests under way to a Pod
  admitted,  \* the WorkspaceExecs that have passed the Workspace's gate
  lastRun    \* when the last admitted execution was recorded as complete

worldVars == <<load, now, faults>>
execVars  == <<born, obj, seen, secret, pass, wire, admitted, lastRun>>

\* Exited stands for Succeeded and Failed, which only the exit code tells
\* apart; Failed is a refused admission.
TerminalPhases == {"Exited", "Stopped", "Lost", "Failed"}
Terminal(r) == r.phase \in TerminalPhases

NewExec == [phase |-> "Pending", pod |-> 0, stop |-> FALSE, deleting |-> FALSE,
            fin |-> FALSE, owned |-> ~load.direct, doneAt |-> 0]
ExecRecords == [phase : TerminalPhases \cup {"Pending", "Starting", "Running"}, pod : Nat, stop : BOOLEAN,
                deleting : BOOLEAN, fin : BOOLEAN, owned : BOOLEAN, doneAt : Nat]
Rest    == [at |-> "idle", pod |-> 0, result |-> "none", copy |-> None, try |-> 0]

ExecTypeOK ==
  /\ TableTypeOK
  /\ pod.state \in {"up", "going", "terminated", "gone"}
  /\ \A e \in Uids : /\ pass[e].at \in {"idle", "pend", "claim", "admit", "own", "check", "send",
                                        "waiting", "apply", "release", "stop", "stopping", "inspect",
                                        "finalStop", "finalStopping", "settle", "preserve", "remove"}
                     /\ obj[e] # None => obj[e].phase \in TerminalPhases \cup {"Pending", "Starting", "Running"}
  /\ \A q \in wire : q.uid \in Uids /\ q.pod <= pod.n

ExecInit ==
  /\ TableInit
  /\ load \in Loads /\ now = 1 /\ faults = 0
  /\ pod = [n |-> 0, state |-> "gone"]
  /\ born = {} /\ wire = {} /\ admitted = {} /\ lastRun = 0
  /\ obj    = [e \in Uids |-> None]
  /\ seen   = [e \in Uids |-> None]
  /\ secret = [e \in Uids |-> TRUE]
  /\ pass   = [e \in Uids |-> Rest]

View(e)  == IF load.lag THEN seen[e] ELSE obj[e]
Exists(e) == obj[e] # None
PodRuns  == pod.state \in {"up", "going"}

\* Processes of the supervisor, the Workspace and what surrounds them stay.
Outside  == UNCHANGED <<tableVars, worldVars, ws, pod>>

GoTo(e, at)           == pass' = [pass EXCEPT ![e].at = at]
GoWith(e, at, result) == pass' = [pass EXCEPT ![e].at = at, ![e].result = result]
GiveUp(e)             == pass' = [pass EXCEPT ![e] = Rest]

KeepRecords == UNCHANGED <<born, obj, seen, secret, admitted, lastRun>>

-----------------------------------------------------------------------------
(* Users and clients.                                                      *)

Create(e) ==
  /\ e \in load.uids \ born /\ \A f \in born : Exists(f) => IdOf[f] # IdOf[e]
  /\ born' = born \cup {e}
  /\ obj' = [obj EXCEPT ![e] = NewExec]
  /\ Outside /\ UNCHANGED <<seen, secret, pass, wire, admitted, lastRun>>

AskToStop(e) ==
  /\ "stop" \in load.users /\ Exists(e) /\ ~obj[e].stop
  /\ obj' = [obj EXCEPT ![e].stop = TRUE]
  /\ Outside /\ UNCHANGED <<born, seen, secret, pass, wire, admitted, lastRun>>

\* An object without a finalizer goes at once.
Deleted(r) == IF r.fin THEN [r EXCEPT !.deleting = TRUE] ELSE None

Delete(e) ==
  /\ "delete" \in load.users /\ Exists(e) /\ ~obj[e].deleting
  /\ obj' = [obj EXCEPT ![e] = Deleted(@)]
  /\ Outside /\ UNCHANGED <<born, seen, secret, pass, wire, admitted, lastRun>>

\* The informer delivers what the API server holds.
Sync(e) ==
  /\ load.lag /\ seen[e] # obj[e]
  /\ seen' = [seen EXCEPT ![e] = obj[e]]
  /\ Outside /\ UNCHANGED <<born, obj, secret, pass, wire, admitted, lastRun>>

-----------------------------------------------------------------------------
(* Reconcile: what a pass does is decided by the cached record.            *)

Idle(e)    == pass[e].at = "idle" /\ View(e) # None
Working(e) == /\ Idle(e)
              /\ ~View(e).deleting /\ View(e).fin /\ ~Terminal(View(e))
\* originalRuntimePod reports loss.
PodLost(r) == ~(pod.n = r.pod /\ PodRuns)
Bound(e)   == View(e).pod # 0
Reachable(e) == Bound(e) => ~PodLost(View(e))

\* handleWorkspaceExecLifecycle: the finalizer comes before anything else.
AddFinalizer(e) ==
  /\ Idle(e) /\ ~View(e).deleting /\ ~View(e).fin /\ View(e) = obj[e]
  /\ obj' = [obj EXCEPT ![e].fin = TRUE]
  /\ Outside /\ UNCHANGED <<born, seen, secret, pass, wire, admitted, lastRun>>

ReleaseSecret(e) == secret' = [secret EXCEPT ![e] = FALSE]

\* A terminal record gives its Secret back and is deleted after its window.
Expire(e) ==
  /\ Idle(e) /\ ~View(e).deleting /\ View(e).fin /\ Terminal(View(e))
  /\ ReleaseSecret(e)
  /\ obj' = IF now >= View(e).doneAt + ResultWindow /\ Exists(e)
            THEN [obj EXCEPT ![e] = Deleted(@)] ELSE obj
  /\ obj' # obj \/ secret' # secret
  /\ Outside /\ UNCHANGED <<born, seen, pass, wire, admitted, lastRun>>

Begin(e, at, result) ==
  /\ GoWith(e, at, result)
  /\ Outside /\ KeepRecords /\ UNCHANGED wire

\* A claimed execution whose Pod is gone or has ended is lost.
FindLost(e) == Working(e) /\ Bound(e) /\ PodLost(View(e)) /\ Begin(e, "apply", "Lost")

StopEarly(e) == Working(e) /\ View(e).stop /\ ~Bound(e) /\ Begin(e, "apply", "Stopped")

\* Mutant: only a Running execution is stopped, not one that is Starting.
StopRunning(e) ==
  /\ Working(e) /\ View(e).stop /\ View(e).phase = "Running" /\ Reachable(e)
  /\ pass' = [pass EXCEPT ![e].at = "stop", ![e].pod = View(e).pod]
  /\ Outside /\ KeepRecords /\ UNCHANGED wire

BeginStop(e) ==
  /\ Working(e) /\ View(e).stop /\ Bound(e) /\ Reachable(e)
  /\ pass' = [pass EXCEPT ![e].at = "stop", ![e].pod = View(e).pod]
  /\ Outside /\ KeepRecords /\ UNCHANGED wire

BeginInspect(e) ==
  /\ Working(e) /\ ~View(e).stop /\ View(e).phase = "Running" /\ Reachable(e)
  /\ GoTo(e, "inspect") /\ ReleaseSecret(e)
  /\ Outside /\ UNCHANGED <<born, obj, seen, wire, admitted, lastRun>>

Starts(e) == Working(e) /\ ~View(e).stop /\ View(e).phase # "Running" /\ Reachable(e)

\* resolveProcessTarget: the Workspace is Ready and its Pod is not stopping.
TargetReady == ws.ready /\ pod.state = "up"

BeginPend(e) == Starts(e) /\ ~TargetReady /\ Begin(e, "pend", "none")

\* Without the Secret of its environment, or a credential that the Workspace
\* refers to and that can be read, the pass fails before anything is claimed.
EnvironmentResolved(e) == secret[e]
CredentialsResolved(e) == e \notin load.unresolved

BeginClaim(e) ==
  /\ Starts(e) /\ TargetReady /\ EnvironmentResolved(e) /\ CredentialsResolved(e)
  /\ pass' = [pass EXCEPT ![e].at = "claim", ![e].pod = pod.n]
  /\ Outside /\ KeepRecords /\ UNCHANGED wire

-----------------------------------------------------------------------------
(* Status updates re-read the record, from the cache too.                  *)

\* The update goes through, or it conflicts and the pass fails.
Update(e, r, next) ==
  /\ IF View(e) = obj[e]
     THEN obj' = [obj EXCEPT ![e] = r] /\ next
     ELSE UNCHANGED obj /\ GiveUp(e)
  /\ Outside /\ UNCHANGED <<born, seen, secret, wire, admitted>>

\* setProcessCondition.
Pend(e) ==
  /\ pass[e].at = "pend" /\ View(e) # None
  /\ Update(e, [View(e) EXCEPT !.phase = "Pending"], GiveUp(e))
  /\ UNCHANGED lastRun

\* claimProcessRuntime binds the execution to the Pod, once.
ClaimRuntime(e) ==
  /\ pass[e].at = "claim" /\ View(e) # None
  /\ ~Terminal(View(e)) /\ View(e).pod \in {0, pass[e].pod}
  /\ Update(e, [View(e) EXCEPT !.phase = "Starting", !.pod = pass[e].pod], GoTo(e, "admit"))
  /\ UNCHANGED lastRun

\* Mutant: a late state replaces a result.
Overwritable(r) == TRUE
Settable(r) == ~Terminal(r)

\* What is kept of a completion: the executions that ran keep a Workspace awake.
Completed(r) == lastRun' = IF Terminal(r) /\ r.owned THEN now ELSE lastRun

\* applyRuntimeState and setTerminalProcessStatus.  The pass that started the
\* process (it has a copy of the admitted record) gives its Secret back
\* afterwards.
Apply(e) ==
  LET phase == pass[e].result
      r == [View(e) EXCEPT !.phase = phase,
                           !.pod = IF phase = "Running" THEN pass[e].pod ELSE @,
                           !.doneAt = IF phase \in TerminalPhases THEN now ELSE @]
  IN /\ pass[e].at = "apply" /\ View(e) # None /\ Settable(View(e))
     /\ Update(e, r, IF phase = "Running" /\ pass[e].copy # None
                     THEN GoTo(e, "release") ELSE GiveUp(e))
     /\ IF View(e) = obj[e] THEN Completed(r) ELSE UNCHANGED lastRun

ApplyNothing(e) ==
  /\ pass[e].at = "apply" /\ (View(e) = None \/ ~Settable(View(e)))
  /\ GiveUp(e)
  /\ Outside /\ KeepRecords /\ UNCHANGED wire

\* releaseProcessEnvironment at the end of a start.
Release(e) ==
  /\ pass[e].at = "release"
  /\ ReleaseSecret(e) /\ GiveUp(e)
  /\ Outside /\ UNCHANGED <<born, obj, seen, wire, admitted, lastRun>>

-----------------------------------------------------------------------------
(* startProcess, after the claim.                                          *)

\* The record read from the API server says there is nothing to start.
Moot(e) == ~Exists(e) \/ obj[e].deleting \/ Terminal(obj[e])

GateOpen == ~ws.closed /\ ~ws.deleting

AdmitMoot(e) ==
  /\ pass[e].at = "admit" /\ Moot(e) /\ GiveUp(e)
  /\ Outside /\ KeepRecords /\ UNCHANGED wire

AdmitRejected(e) ==
  pass[e].at = "admit" /\ ~Moot(e) /\ ~GateOpen /\ Begin(e, "apply", "Failed")

\* Gate.Admit: the conditional update of the Workspace is the point at which
\* the command is accepted.
Admit(e) ==
  /\ pass[e].at = "admit" /\ ~Moot(e) /\ GateOpen
  /\ admitted' = admitted \cup {e}
  /\ pass' = [pass EXCEPT ![e].at = IF obj[e].owned THEN "check" ELSE "own", ![e].copy = obj[e]]
  /\ Outside /\ UNCHANGED <<born, obj, seen, secret, wire, lastRun>>

\* A record submitted without an owner gets the Workspace as its owner.
Own(e) ==
  /\ pass[e].at = "own"
  /\ IF obj[e] = pass[e].copy
     THEN obj' = [obj EXCEPT ![e].owned = TRUE] /\ GoTo(e, "check")
     ELSE UNCHANGED obj /\ GiveUp(e)
  /\ Outside /\ UNCHANGED <<born, seen, secret, wire, admitted, lastRun>>

\* originalRuntimePod, right before the request.
CheckPod(e) ==
  /\ pass[e].at = "check"
  /\ IF PodLost(pass[e]) THEN GoWith(e, "apply", "Lost") ELSE GoTo(e, "send")
  /\ Outside /\ KeepRecords /\ UNCHANGED wire

\* Mutant: the Secret goes when the request is sent, not when it is answered.
SendAndRelease(e) ==
  /\ pass[e].at = "send" /\ PodRuns
  /\ wire' = wire \cup {[uid |-> e, pod |-> pod.n, try |-> faults]}
  /\ pass' = [pass EXCEPT ![e].at = "waiting", ![e].try = faults]
  /\ ReleaseSecret(e)
  /\ Outside /\ UNCHANGED <<born, obj, seen, admitted, lastRun>>

\* Runtime.Start connects to the Pod of that name.
Send(e) ==
  /\ pass[e].at = "send" /\ PodRuns
  /\ wire' = wire \cup {[uid |-> e, pod |-> pod.n, try |-> faults]}
  /\ pass' = [pass EXCEPT ![e].at = "waiting", ![e].try = faults]
  /\ Outside /\ KeepRecords

\* The answer reaches the pass that still waits for it.
Waits(q) == pass[q.uid].at = "waiting" /\ pass[q.uid].try = q.try
\* Mutant: any answer is taken for a running process.
AnswerBlind(q, result) == IF ~Waits(q) THEN UNCHANGED pass ELSE GoWith(q.uid, "apply", "Running")
Answer(q, result) ==
  IF ~Waits(q) THEN UNCHANGED pass
  ELSE IF result = "error" THEN GiveUp(q.uid) ELSE GoWith(q.uid, "apply", result)

\* The supervisor takes the request: it launches the process, records a
\* failure to, or gives the identity back; or it knows the identity.
Deliver(q) ==
  LET e == q.uid IN
  /\ q.pod = pod.n /\ PodRuns
  /\ wire' = wire \ {q}
  /\ \/ Free(e) /\ Claim(e) /\ Launch(e) /\ Answer(q, "Running")
     \/ Free(e) /\ Claim(e) /\ RecordFailure(e) /\ Answer(q, "Exited")
     \/ Free(e) /\ UNCHANGED tableVars /\ Answer(q, "error")
     \/ Owns(e) /\ UNCHANGED tableVars /\ Answer(q, table[IdOf[e]].phase)
     \/ LostRun(e) /\ UNCHANGED tableVars /\ Answer(q, "Lost")
     \/ Conflict(e) /\ UNCHANGED tableVars /\ Answer(q, "error")
  /\ KeepRecords /\ UNCHANGED <<worldVars, ws, pod>>

-----------------------------------------------------------------------------
(* Stop and Inspect name the process by its ID.                            *)

\* What Inspect answers: a process that is not found is lost.
Reported(i) == IF Found(i) THEN Inspected(i).phase ELSE "Lost"

\* The answer of a stop: the pass, or the finalizer, records it.  The finalizer
\* tries again when something runs.
StopAnswer(e, result) ==
  IF pass[e].at \in {"stop", "stopping"} THEN GoWith(e, "apply", result)
  ELSE IF result = "Running" THEN GiveUp(e) ELSE GoWith(e, "settle", result)

\* A process that has ended is the answer at once.
SendStop(e) ==
  LET i == IdOf[e] IN
  /\ pass[e].at \in {"stop", "finalStop"} /\ PodRuns
  /\ RequestStop(i)
  /\ IF table[i] = None THEN StopAnswer(e, "Lost")
     ELSE IF ~Active(i) THEN StopAnswer(e, table[i].phase)
     ELSE GoTo(e, IF pass[e].at = "stop" THEN "stopping" ELSE "finalStopping")
  /\ UNCHANGED <<owner, record, launches, removed, worldVars, ws, pod, wire>> /\ KeepRecords

\* The process that was asked has ended, and the supervisor answers with what
\* it then finds under the name: nothing if the history was pruned meanwhile,
\* a process that was not asked to stop if it was also started again.
StopAnswered(e) ==
  LET i == IdOf[e] IN
  /\ pass[e].at \in {"stopping", "finalStopping"} /\ PodRuns
  /\ ~(Active(i) /\ table[i].stop)
  /\ StopAnswer(e, Reported(i))
  /\ Outside /\ KeepRecords /\ UNCHANGED wire

Inspect(e) ==
  LET i == IdOf[e] IN
  /\ pass[e].at = "inspect" /\ PodRuns
  /\ pass' = [pass EXCEPT ![e].at = "apply", ![e].pod = View(e).pod, ![e].result = Reported(i)]
  /\ View(e) # None
  /\ Outside /\ KeepRecords /\ UNCHANGED wire

-----------------------------------------------------------------------------
(* finalizeWorkspaceExec.                                                  *)

\* Only an owned, claimed, unfinished execution of a Workspace that stays
\* has a process to stop.
MustStop(r) == r.owned /\ ~ws.deleting /\ ~Terminal(r) /\ r.pod # 0

BeginFinalize(e) ==
  /\ Idle(e) /\ View(e).deleting /\ View(e).fin
  /\ pass' = [pass EXCEPT ![e].copy = View(e),
       ![e].at = IF ~MustStop(View(e)) THEN "preserve"
                 ELSE IF PodLost(View(e)) THEN "settle" ELSE "finalStop",
       ![e].result = "Lost"]
  /\ Outside /\ KeepRecords /\ UNCHANGED wire

Settle(e) ==
  LET r == [pass[e].copy EXCEPT !.phase = pass[e].result, !.doneAt = now] IN
  /\ pass[e].at = "settle"
  /\ IF obj[e] = pass[e].copy
     THEN /\ obj' = [obj EXCEPT ![e] = r] /\ Completed(r)
          /\ pass' = [pass EXCEPT ![e].at = "preserve", ![e].copy = r]
     ELSE UNCHANGED <<obj, lastRun>> /\ GiveUp(e)
  /\ Outside /\ UNCHANGED <<born, seen, secret, wire, admitted>>

\* Mutant: the completion goes with the record.
KeptClock(r)  == ws
\* preserveTargetIdleClock: the completion outlives the record.
ClockAfter(r) ==
  IF r.owned /\ ~ws.deleting /\ r.doneAt > ws.lastDone
  THEN [ws EXCEPT !.lastDone = r.doneAt] ELSE ws

Preserve(e) ==
  /\ pass[e].at = "preserve"
  /\ ws' = ClockAfter(pass[e].copy)
  /\ GoTo(e, "remove")
  /\ KeepRecords /\ UNCHANGED <<tableVars, worldVars, pod, wire>>

RemoveFinalizer(e) ==
  /\ pass[e].at = "remove"
  /\ obj' = IF obj[e] = pass[e].copy THEN [obj EXCEPT ![e] = None] ELSE obj
  /\ GiveUp(e)
  /\ Outside /\ UNCHANGED <<born, seen, secret, wire, admitted, lastRun>>

\* A call fails or times out, or the controller restarts: the pass ends where
\* it is.  A request that was sent stays on its way.
Abort(e) ==
  /\ pass[e].at # "idle" /\ faults < load.faults
  /\ faults' = faults + 1
  /\ GiveUp(e)
  /\ KeepRecords /\ UNCHANGED <<tableVars, load, now, ws, pod, wire>>

\* The supervisor cannot be reached, or its connection broke.
Unreachable(e) ==
  \/ pass[e].at \in {"send", "stop", "finalStop", "inspect", "stopping", "finalStopping"} /\ ~PodRuns
  \/ pass[e].at \in {"stopping", "finalStopping"} /\ table[IdOf[e]] = None
  \/ pass[e].at = "waiting" /\ \A q \in wire : q.uid # e \/ ~Waits(q)

\* The record a step re-reads is gone, or is not what the step expects.
Overtaken(e) ==
  /\ pass[e].at \in {"pend", "claim", "inspect"}
  /\ \/ View(e) = None
     \/ pass[e].at = "claim" /\ (Terminal(View(e)) \/ View(e).pod \notin {0, pass[e].pod})

Fail(e) ==
  /\ Unreachable(e) \/ Overtaken(e)
  /\ GiveUp(e)
  /\ Outside /\ KeepRecords /\ UNCHANGED wire

ExecPass(e) ==
  \/ AddFinalizer(e) \/ Expire(e) \/ FindLost(e) \/ StopEarly(e) \/ BeginStop(e) \/ BeginInspect(e)
  \/ BeginPend(e) \/ BeginClaim(e) \/ Pend(e) \/ ClaimRuntime(e) \/ Apply(e) \/ ApplyNothing(e)
  \/ Release(e) \/ AdmitMoot(e) \/ AdmitRejected(e) \/ Admit(e) \/ Own(e) \/ CheckPod(e) \/ Send(e)
  \/ SendStop(e) \/ StopAnswered(e) \/ Inspect(e) \/ BeginFinalize(e) \/ Settle(e) \/ Preserve(e)
  \/ RemoveFinalizer(e) \/ Fail(e)

-----------------------------------------------------------------------------
(* Processes and the Pod.                                                  *)

ProcessEnds(i) ==
  /\ Active(i) /\ Finish(i)
  /\ UNCHANGED <<worldVars, ws, pod, execVars>>

\* The supervisor's memory, its processes and open connections are gone.
RuntimeEnds(state) ==
  /\ Restart
  /\ wire' = {}
  /\ pod' = [pod EXCEPT !.state = state]
  /\ KeepRecords /\ UNCHANGED <<pass, ws, load, now>>

\* The container restarts in its Pod, the Pod ends, or it is removed.
LoseRuntime(state) ==
  /\ pod.state = "up" /\ faults < load.faults /\ faults' = faults + 1
  /\ RuntimeEnds(state)

PodGone == pod.state = "going" /\ RuntimeEnds("gone") /\ UNCHANGED faults
=============================================================================
