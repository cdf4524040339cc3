---------------------- MODULE WorkspaceLifecycleProofs ----------------------
(***************************************************************************)
(* Theorems about WorkspaceLifecycle, for every set of executions and      *)
(* names, every load and all timeouts: what a status says of its process,  *)
(* the fence in front of an expired Workspace, the idle clock, the         *)
(* environment of a waiting execution and the results.                     *)
(*                                                                         *)
(* The inductive invariant says what a pass, a request or a decision under *)
(* way may rely on although the record, the cache, the process and the     *)
(* Workspace go on changing.                                               *)
(***************************************************************************)
EXTENDS WorkspaceLifecycle, WellFoundedInduction, TLAPS

-----------------------------------------------------------------------------
(* The inductive invariant: types.                                         *)

Steps == {"idle", "pend", "claim", "admit", "own", "check", "send", "waiting", "apply",
          "release", "stop", "stopping", "inspect", "finalStop", "finalStopping", "settle",
          "preserve", "remove"}
Outcomes == TerminalPhases \cup {"Running"}
Passes == [at : Steps, pod : Nat, result : Outcomes \cup {"none"}, copy : ExecRecords \cup {None}, try : Nat]
Requests == [uid : Uids, pod : Nat, try : Nat]
Decisions == {"stop", "ask", "suspend", "close", "scan", "delete", "reopen"}
Plans == [at : Decisions, ws : Workspaces, time : Nat, known : Nat]
PodStates == {"up", "going", "terminated", "gone"}

ExecTypes ==
  /\ obj \in [Uids -> ExecRecords \cup {None}] /\ seen \in [Uids -> ExecRecords \cup {None}]
  /\ secret \in [Uids -> BOOLEAN]
  /\ pass \in [Uids -> Passes]

WorldTypes ==
  /\ load \in Loads /\ now \in Nat \ {0} /\ faults \in Nat /\ lastRun \in 0..now
  /\ wire \subseteq Requests
  /\ pod \in [n : Nat, state : PodStates]
  /\ touched \in 0..now

\* The Workspace and the decision about it; no time that was recorded lies ahead.
WorkspaceTypes ==
  /\ ws \in Workspaces /\ plan \in Plans \cup {None}
  /\ \A t \in {ws.readyAt, ws.active, ws.lastDone, ws.suspendedAt, ws.since} : t <= now
  /\ ws.suspended => ws.desired = "Suspended" /\ ~ws.ready

-----------------------------------------------------------------------------
(* The inductive invariant: one execution.                                 *)

\* A pass works on a record that was created and that has the finalizer: only
\* the pass itself can make it vanish.
Finalized(e) ==
  /\ obj[e] # None \/ seen[e] # None \/ pass[e].at # "idle" => e \in born
  /\ pass[e].at # "idle" /\ obj[e] # None => obj[e].fin
  /\ seen[e] # None /\ obj[e] # None => (seen[e].fin => obj[e].fin)

\* No completion that was recorded lies ahead.
TimesPast(e) ==
  /\ obj[e] # None => obj[e].doneAt <= now
  /\ seen[e] # None => seen[e].doneAt <= now
  /\ pass[e].copy # None => pass[e].copy.doneAt <= now

\* A start under way is about an execution that still waits for it.
Waiting(r) == r # None /\ r.phase \in {"Pending", "Starting"}
StartSteps == {"pend", "claim", "admit", "own", "check", "send", "waiting"}
StartFits(e) ==
  ~load.lag =>
    /\ pass[e].at \in StartSteps => Waiting(obj[e])
    /\ pass[e].at = "release" => ~Waiting(obj[e])
    /\ ~secret[e] => e \in born /\ ~Waiting(obj[e])

\* What a pass remembers of the record, and the outcome it is about to write.
StopSteps == {"finalStop", "finalStopping", "settle"}
CopyFits(e) ==
  /\ pass[e].at \in {"own", "preserve", "remove"} => pass[e].copy # None
  /\ pass[e].at = "apply" => pass[e].result \in Outcomes
  /\ pass[e].at = "settle" => pass[e].result \in TerminalPhases
  /\ pass[e].at \in StopSteps =>
       /\ pass[e].copy # None /\ ~Terminal(pass[e].copy)
       /\ load.lag /\ obj[e] # None => seen[e] # None /\ (Terminal(seen[e]) => Terminal(obj[e]))

\* An outcome on its way, or recorded, is about a settled start of its own.
\* (Stop and Inspect name a process by its ID: a name that is used again
\* would show the state of another process.)
NamesUnique == \A e, f \in Uids : IdOf[e] = IdOf[f] => e = f
Settled == {"Running", "Exited"}
OutcomeTrue(e) ==
  NamesUnique =>
    /\ pass[e].at \in {"apply", "settle"} /\ pass[e].result \in Settled => launches[e] > 0
    /\ obj[e] # None /\ obj[e].phase \in Settled => launches[e] > 0

\* A record goes only after the Workspace has its completion.
ClockCopied(e) ==
  pass[e].at = "remove" /\ pass[e].copy.owned /\ ~ws.deleting => pass[e].copy.doneAt <= ws.lastDone

ExecSafe(e) ==
  /\ Finalized(e) /\ TimesPast(e) /\ StartFits(e) /\ CopyFits(e) /\ OutcomeTrue(e) /\ ClockCopied(e)

-----------------------------------------------------------------------------
(* The inductive invariant: the supervisor, the gate and the clock.        *)

WireSafe ==
  /\ \A q \in wire : q.uid \in born /\ q.pod <= pod.n
  /\ admitted \subseteq born /\ born \subseteq Uids

\* Whatever the supervisor keeps was settled, under its own name.
TableSafe ==
  /\ TableTypeOK /\ launches \in [Uids -> Nat]
  /\ \A i \in Ids :
       /\ table[i] # None => owner[i] = table[i].uid
       /\ record[i] # None => owner[i] = record[i].uid
       /\ owner[i] # None => IdOf[owner[i]] = i /\ launches[owner[i]] > 0

\* Of the launches of an execution all but the last one were forgotten, and the
\* last one is either forgotten too or still has its claim.
StartsSafe ==
  /\ removed \in [Uids -> Nat]
  /\ \A e \in Uids : /\ launches[e] <= removed[e] + 1
                     /\ launches[e] > removed[e] => owner[IdOf[e]] = e

\* From the closing of the gate on nothing is admitted; from the scan on what
\* was admitted is finished.
AllFinished == \A e \in admitted : Exists(e) => Terminal(obj[e])
FenceSafe ==
  /\ plan # None /\ plan.at \in {"scan", "delete"} => ws.closed
  /\ plan # None /\ plan.at = "delete" /\ ~load.lag => AllFinished
  /\ ws.expired => ws.deleting /\ (~load.lag => AllFinished)

\* The record of e, and what is cached of it, tell of the completion at lastRun.
Carries(e) ==
  /\ obj[e] # None /\ obj[e].fin /\ obj[e].owned /\ obj[e].doneAt >= lastRun
  /\ load.lag => seen[e] # None /\ (Terminal(seen[e]) => seen[e].doneAt >= lastRun)
ClockSafe == ws.deleting \/ lastRun <= ws.lastDone \/ \E e \in Uids : Carries(e)

IInv ==
  /\ ExecTypes /\ WorldTypes /\ WorkspaceTypes
  /\ \A e \in Uids : ExecSafe(e)
  /\ WireSafe /\ TableSafe /\ StartsSafe /\ FenceSafe /\ ClockSafe /\ IdleClockKept

-----------------------------------------------------------------------------
(* What a step may do to a record.                                         *)

\* The record of e is the same, is marked, or goes for want of a finalizer.
Marked(e) ==
  \/ obj'[e] = obj[e]
  \/ /\ obj[e] # None /\ obj'[e] # None
     /\ obj'[e].phase = obj[e].phase /\ obj'[e].doneAt = obj[e].doneAt
     /\ (obj[e].fin => obj'[e].fin) /\ (obj[e].owned => obj'[e].owned)
  \/ obj[e] # None /\ ~obj[e].fin /\ obj'[e] = None

\* Its own pass removes it, or writes a state.
RemovedByPass(e) ==
  obj[e] # None /\ pass[e].at = "remove" /\ obj[e] = pass[e].copy /\ obj'[e] = None
StateWritten(e) ==
  /\ obj[e] # None /\ obj'[e] # None
  /\ obj'[e].fin = obj[e].fin /\ obj'[e].owned = obj[e].owned
  /\ ~Terminal(obj[e]) \/ (load.lag /\ obj'[e].phase = "Pending")
  /\ obj'[e].doneAt \in {obj[e].doneAt, now}

RecordStep(e) == Marked(e) \/ RemovedByPass(e) \/ StateWritten(e) \/ e \notin born

\* A step of e leaves the other executions alone.
Alone(e) ==
  \A f \in Uids \ {e} : /\ obj'[f] = obj[f] /\ seen'[f] = seen[f]
                        /\ secret'[f] = secret[f] /\ pass'[f] = pass[f]


-----------------------------------------------------------------------------
(* Lemmas about records and passes.                                        *)

AllPhases == TerminalPhases \cup {"Pending", "Starting", "Running"}
RecordsOf(A, N, B) == [phase : A, pod : N, stop : B, deleting : B, fin : B, owned : B, doneAt : N]
PassesOf(A, N, R, C) == [at : A, pod : N, result : R, copy : C, try : N]

GoToPod(e, x, n) == pass' = [pass EXCEPT ![e].at = x, ![e].pod = n]
GoCopying(e, x, c) == pass' = [pass EXCEPT ![e].at = x, ![e].copy = c]
GoWaiting(e, x, k) == pass' = [pass EXCEPT ![e].at = x, ![e].try = k]
GoFinding(e, x, n, y) == pass' = [pass EXCEPT ![e].at = x, ![e].pod = n, ![e].result = y]
GoFinalizing(e, c, x, y) == pass' = [pass EXCEPT ![e].copy = c, ![e].at = x, ![e].result = y]
ClaimedAs(r, p, n) == [r EXCEPT !.phase = p, !.pod = n]
AppliedAs(r, p, n, t) == [r EXCEPT !.phase = p, !.pod = n, !.doneAt = t]
SettledAs(r, p, t) == [r EXCEPT !.phase = p, !.doneAt = t]

\* A record gets another phase.
LEMMA PhaseWritten ==
  ASSUME NEW r \in ExecRecords, NEW p \in AllPhases
  PROVE  LET u == [r EXCEPT !.phase = p]
         IN /\ u \in ExecRecords
            /\ u.phase = p /\ u.pod = r.pod /\ u.stop = r.stop /\ u.deleting = r.deleting
            /\ u.fin = r.fin /\ u.owned = r.owned /\ u.doneAt = r.doneAt
<1> DEFINE u == [r EXCEPT !.phase = p]
<1>1. PICK A, N, B : A = AllPhases /\ N = Nat /\ B = BOOLEAN
  OBVIOUS
<1>2. ExecRecords = RecordsOf(A, N, B)
  BY <1>1 DEF ExecRecords, RecordsOf, AllPhases
<1>3. r \in RecordsOf(A, N, B) /\ p \in A
  BY <1>1, <1>2
<1>4. /\ u \in RecordsOf(A, N, B)
      /\ u.phase = p /\ u.pod = r.pod /\ u.stop = r.stop /\ u.deleting = r.deleting
      /\ u.fin = r.fin /\ u.owned = r.owned /\ u.doneAt = r.doneAt
  BY <1>3 DEF RecordsOf
<1> QED
  BY <1>2, <1>4, Zenon

\* It is claimed for a Pod.
LEMMA RecordClaimed ==
  ASSUME NEW r \in ExecRecords, NEW p \in AllPhases, NEW n \in Nat
  PROVE  LET u == ClaimedAs(r, p, n)
         IN /\ u \in ExecRecords
            /\ u.phase = p /\ u.pod = n /\ u.stop = r.stop /\ u.deleting = r.deleting
            /\ u.fin = r.fin /\ u.owned = r.owned /\ u.doneAt = r.doneAt
<1> DEFINE u == [r EXCEPT !.phase = p, !.pod = n]
<1>1. PICK A, N, B : A = AllPhases /\ N = Nat /\ B = BOOLEAN
  OBVIOUS
<1>2. ExecRecords = RecordsOf(A, N, B)
  BY <1>1 DEF ExecRecords, RecordsOf, AllPhases
<1>3. r \in RecordsOf(A, N, B) /\ p \in A /\ n \in N
  BY <1>1, <1>2
<1>4. /\ u \in RecordsOf(A, N, B)
      /\ u.phase = p /\ u.pod = n /\ u.stop = r.stop /\ u.deleting = r.deleting
      /\ u.fin = r.fin /\ u.owned = r.owned /\ u.doneAt = r.doneAt
  BY <1>3 DEF RecordsOf
<1> QED
  BY <1>2, <1>4, Zenon DEF ClaimedAs

\* It gets a state.
LEMMA StateApplied ==
  ASSUME NEW r \in ExecRecords, NEW p \in AllPhases, NEW n \in Nat, NEW t \in Nat
  PROVE  LET u == AppliedAs(r, p, n, t)
         IN /\ u \in ExecRecords
            /\ u.phase = p /\ u.pod = n /\ u.stop = r.stop /\ u.deleting = r.deleting
            /\ u.fin = r.fin /\ u.owned = r.owned /\ u.doneAt = t
<1> DEFINE u == [r EXCEPT !.phase = p, !.pod = n, !.doneAt = t]
<1>1. PICK A, N, B : A = AllPhases /\ N = Nat /\ B = BOOLEAN
  OBVIOUS
<1>2. ExecRecords = RecordsOf(A, N, B)
  BY <1>1 DEF ExecRecords, RecordsOf, AllPhases
<1>3. r \in RecordsOf(A, N, B) /\ p \in A /\ n \in N /\ t \in N
  BY <1>1, <1>2
<1>4. /\ u \in RecordsOf(A, N, B)
      /\ u.phase = p /\ u.pod = n /\ u.stop = r.stop /\ u.deleting = r.deleting
      /\ u.fin = r.fin /\ u.owned = r.owned /\ u.doneAt = t
  BY <1>3 DEF RecordsOf
<1> QED
  BY <1>2, <1>4, Zenon DEF AppliedAs

\* The finalizer settles it.
LEMMA RecordSettled ==
  ASSUME NEW r \in ExecRecords, NEW p \in AllPhases, NEW t \in Nat
  PROVE  LET u == SettledAs(r, p, t)
         IN /\ u \in ExecRecords
            /\ u.phase = p /\ u.pod = r.pod /\ u.stop = r.stop /\ u.deleting = r.deleting
            /\ u.fin = r.fin /\ u.owned = r.owned /\ u.doneAt = t
<1> DEFINE u == [r EXCEPT !.phase = p, !.doneAt = t]
<1>1. PICK A, N, B : A = AllPhases /\ N = Nat /\ B = BOOLEAN
  OBVIOUS
<1>2. ExecRecords = RecordsOf(A, N, B)
  BY <1>1 DEF ExecRecords, RecordsOf, AllPhases
<1>3. r \in RecordsOf(A, N, B) /\ p \in A /\ t \in N
  BY <1>1, <1>2
<1>4. /\ u \in RecordsOf(A, N, B)
      /\ u.phase = p /\ u.pod = r.pod /\ u.stop = r.stop /\ u.deleting = r.deleting
      /\ u.fin = r.fin /\ u.owned = r.owned /\ u.doneAt = t
  BY <1>3 DEF RecordsOf
<1> QED
  BY <1>2, <1>4, Zenon DEF SettledAs

\* It is asked to stop.
LEMMA StopMarked ==
  ASSUME NEW r \in ExecRecords
  PROVE  LET u == [r EXCEPT !.stop = TRUE]
         IN /\ u \in ExecRecords
            /\ u.phase = r.phase /\ u.pod = r.pod /\ u.stop = TRUE /\ u.deleting = r.deleting
            /\ u.fin = r.fin /\ u.owned = r.owned /\ u.doneAt = r.doneAt
<1>1. PICK A, N, B, b : A = AllPhases /\ N = Nat /\ B = BOOLEAN /\ b = TRUE
  OBVIOUS
<1> DEFINE v == [r EXCEPT !.stop = b]
<1>2. ExecRecords = RecordsOf(A, N, B)
  BY <1>1 DEF ExecRecords, RecordsOf, AllPhases
<1>3. r \in RecordsOf(A, N, B) /\ b \in B
  BY <1>1, <1>2
<1>4. /\ v \in RecordsOf(A, N, B)
      /\ v.phase = r.phase /\ v.pod = r.pod /\ v.stop = b /\ v.deleting = r.deleting
      /\ v.fin = r.fin /\ v.owned = r.owned /\ v.doneAt = r.doneAt
  BY <1>3 DEF RecordsOf
<1> QED
  BY <1>1, <1>2, <1>4, Zenon

\* It is deleted.
LEMMA DeletionMarked ==
  ASSUME NEW r \in ExecRecords
  PROVE  LET u == [r EXCEPT !.deleting = TRUE]
         IN /\ u \in ExecRecords
            /\ u.phase = r.phase /\ u.pod = r.pod /\ u.stop = r.stop /\ u.deleting = TRUE
            /\ u.fin = r.fin /\ u.owned = r.owned /\ u.doneAt = r.doneAt
<1>1. PICK A, N, B, b : A = AllPhases /\ N = Nat /\ B = BOOLEAN /\ b = TRUE
  OBVIOUS
<1> DEFINE v == [r EXCEPT !.deleting = b]
<1>2. ExecRecords = RecordsOf(A, N, B)
  BY <1>1 DEF ExecRecords, RecordsOf, AllPhases
<1>3. r \in RecordsOf(A, N, B) /\ b \in B
  BY <1>1, <1>2
<1>4. /\ v \in RecordsOf(A, N, B)
      /\ v.phase = r.phase /\ v.pod = r.pod /\ v.stop = r.stop /\ v.deleting = b
      /\ v.fin = r.fin /\ v.owned = r.owned /\ v.doneAt = r.doneAt
  BY <1>3 DEF RecordsOf
<1> QED
  BY <1>1, <1>2, <1>4, Zenon

\* It gets the finalizer.
LEMMA FinalizerAdded ==
  ASSUME NEW r \in ExecRecords
  PROVE  LET u == [r EXCEPT !.fin = TRUE]
         IN /\ u \in ExecRecords
            /\ u.phase = r.phase /\ u.pod = r.pod /\ u.stop = r.stop /\ u.deleting = r.deleting
            /\ u.fin = TRUE /\ u.owned = r.owned /\ u.doneAt = r.doneAt
<1>1. PICK A, N, B, b : A = AllPhases /\ N = Nat /\ B = BOOLEAN /\ b = TRUE
  OBVIOUS
<1> DEFINE v == [r EXCEPT !.fin = b]
<1>2. ExecRecords = RecordsOf(A, N, B)
  BY <1>1 DEF ExecRecords, RecordsOf, AllPhases
<1>3. r \in RecordsOf(A, N, B) /\ b \in B
  BY <1>1, <1>2
<1>4. /\ v \in RecordsOf(A, N, B)
      /\ v.phase = r.phase /\ v.pod = r.pod /\ v.stop = r.stop /\ v.deleting = r.deleting
      /\ v.fin = b /\ v.owned = r.owned /\ v.doneAt = r.doneAt
  BY <1>3 DEF RecordsOf
<1> QED
  BY <1>1, <1>2, <1>4, Zenon

\* It gets its owner.
LEMMA OwnerAdded ==
  ASSUME NEW r \in ExecRecords
  PROVE  LET u == [r EXCEPT !.owned = TRUE]
         IN /\ u \in ExecRecords
            /\ u.phase = r.phase /\ u.pod = r.pod /\ u.stop = r.stop /\ u.deleting = r.deleting
            /\ u.fin = r.fin /\ u.owned = TRUE /\ u.doneAt = r.doneAt
<1>1. PICK A, N, B, b : A = AllPhases /\ N = Nat /\ B = BOOLEAN /\ b = TRUE
  OBVIOUS
<1> DEFINE v == [r EXCEPT !.owned = b]
<1>2. ExecRecords = RecordsOf(A, N, B)
  BY <1>1 DEF ExecRecords, RecordsOf, AllPhases
<1>3. r \in RecordsOf(A, N, B) /\ b \in B
  BY <1>1, <1>2
<1>4. /\ v \in RecordsOf(A, N, B)
      /\ v.phase = r.phase /\ v.pod = r.pod /\ v.stop = r.stop /\ v.deleting = r.deleting
      /\ v.fin = r.fin /\ v.owned = b /\ v.doneAt = r.doneAt
  BY <1>3 DEF RecordsOf
<1> QED
  BY <1>1, <1>2, <1>4, Zenon

\* A pass goes on to another step.
LEMMA PassGoes ==
  ASSUME NEW e \in Uids, pass \in [Uids -> Passes], NEW x \in Steps,
         GoTo(e, x)
  PROVE  /\ pass' \in [Uids -> Passes] /\ \A f \in Uids \ {e} : pass'[f] = pass[f]
         /\ pass'[e].at = x /\ pass'[e].pod = pass[e].pod /\ pass'[e].result = pass[e].result /\ pass'[e].copy = pass[e].copy
         /\ pass'[e].try = pass[e].try
<1>1. PICK A, N, R, C : A = Steps /\ N = Nat /\ R = Outcomes \cup {"none"} /\ C = ExecRecords \cup {None}
  OBVIOUS
<1>2. Passes = PassesOf(A, N, R, C)
  BY <1>1 DEF Passes, PassesOf
<1>3. pass[e] \in PassesOf(A, N, R, C) /\ x \in A
  BY <1>1, <1>2
<1>4. PICK r \in PassesOf(A, N, R, C) : r = pass[e]
  BY <1>3
<1> DEFINE u == [r EXCEPT !.at = x]
<1>5. /\ u \in PassesOf(A, N, R, C)
      /\ u.at = x /\ u.pod = r.pod /\ u.result = r.result /\ u.copy = r.copy
      /\ u.try = r.try
  BY <1>3 DEF PassesOf
<1>6. pass' = [pass EXCEPT ![e] = u]
  BY <1>4 DEF GoTo
<1> HIDE DEF u
<1>7. u \in Passes
  BY <1>2, <1>5
<1>8. pass'[e] = u /\ pass' \in [Uids -> Passes] /\ \A f \in Uids \ {e} : pass'[f] = pass[f]
  BY <1>6, <1>7
<1> QED
  BY <1>4, <1>5, <1>8

\* It goes on with an outcome.
LEMMA PassGoesWith ==
  ASSUME NEW e \in Uids, pass \in [Uids -> Passes], NEW x \in Steps, NEW y \in Outcomes \cup {"none"},
         GoWith(e, x, y)
  PROVE  /\ pass' \in [Uids -> Passes] /\ \A f \in Uids \ {e} : pass'[f] = pass[f]
         /\ pass'[e].at = x /\ pass'[e].pod = pass[e].pod /\ pass'[e].result = y /\ pass'[e].copy = pass[e].copy
         /\ pass'[e].try = pass[e].try
<1>1. PICK A, N, R, C : A = Steps /\ N = Nat /\ R = Outcomes \cup {"none"} /\ C = ExecRecords \cup {None}
  OBVIOUS
<1>2. Passes = PassesOf(A, N, R, C)
  BY <1>1 DEF Passes, PassesOf
<1>3. pass[e] \in PassesOf(A, N, R, C) /\ x \in A /\ y \in R
  BY <1>1, <1>2
<1>4. PICK r \in PassesOf(A, N, R, C) : r = pass[e]
  BY <1>3
<1> DEFINE u == [r EXCEPT !.at = x, !.result = y]
<1>5. /\ u \in PassesOf(A, N, R, C)
      /\ u.at = x /\ u.pod = r.pod /\ u.result = y /\ u.copy = r.copy
      /\ u.try = r.try
  BY <1>3 DEF PassesOf
<1>6. pass' = [pass EXCEPT ![e] = u]
  BY <1>4 DEF GoWith
<1> HIDE DEF u
<1>7. u \in Passes
  BY <1>2, <1>5
<1>8. pass'[e] = u /\ pass' \in [Uids -> Passes] /\ \A f \in Uids \ {e} : pass'[f] = pass[f]
  BY <1>6, <1>7
<1> QED
  BY <1>4, <1>5, <1>8

\* It goes on with a Pod.
LEMMA PassClaims ==
  ASSUME NEW e \in Uids, pass \in [Uids -> Passes], NEW x \in Steps, NEW n \in Nat,
         GoToPod(e, x, n)
  PROVE  /\ pass' \in [Uids -> Passes] /\ \A f \in Uids \ {e} : pass'[f] = pass[f]
         /\ pass'[e].at = x /\ pass'[e].pod = n /\ pass'[e].result = pass[e].result /\ pass'[e].copy = pass[e].copy
         /\ pass'[e].try = pass[e].try
<1>1. PICK A, N, R, C : A = Steps /\ N = Nat /\ R = Outcomes \cup {"none"} /\ C = ExecRecords \cup {None}
  OBVIOUS
<1>2. Passes = PassesOf(A, N, R, C)
  BY <1>1 DEF Passes, PassesOf
<1>3. pass[e] \in PassesOf(A, N, R, C) /\ x \in A /\ n \in N
  BY <1>1, <1>2
<1>4. PICK r \in PassesOf(A, N, R, C) : r = pass[e]
  BY <1>3
<1> DEFINE u == [r EXCEPT !.at = x, !.pod = n]
<1>5. /\ u \in PassesOf(A, N, R, C)
      /\ u.at = x /\ u.pod = n /\ u.result = r.result /\ u.copy = r.copy
      /\ u.try = r.try
  BY <1>3 DEF PassesOf
<1>6. pass' = [pass EXCEPT ![e] = u]
  BY <1>4 DEF GoToPod
<1> HIDE DEF u
<1>7. u \in Passes
  BY <1>2, <1>5
<1>8. pass'[e] = u /\ pass' \in [Uids -> Passes] /\ \A f \in Uids \ {e} : pass'[f] = pass[f]
  BY <1>6, <1>7
<1> QED
  BY <1>4, <1>5, <1>8

\* It goes on with a copy of the record.
LEMMA PassCopies ==
  ASSUME NEW e \in Uids, pass \in [Uids -> Passes], NEW x \in Steps, NEW c \in ExecRecords \cup {None},
         GoCopying(e, x, c)
  PROVE  /\ pass' \in [Uids -> Passes] /\ \A f \in Uids \ {e} : pass'[f] = pass[f]
         /\ pass'[e].at = x /\ pass'[e].pod = pass[e].pod /\ pass'[e].result = pass[e].result /\ pass'[e].copy = c
         /\ pass'[e].try = pass[e].try
<1>1. PICK A, N, R, C : A = Steps /\ N = Nat /\ R = Outcomes \cup {"none"} /\ C = ExecRecords \cup {None}
  OBVIOUS
<1>2. Passes = PassesOf(A, N, R, C)
  BY <1>1 DEF Passes, PassesOf
<1>3. pass[e] \in PassesOf(A, N, R, C) /\ x \in A /\ c \in C
  BY <1>1, <1>2
<1>4. PICK r \in PassesOf(A, N, R, C) : r = pass[e]
  BY <1>3
<1> DEFINE u == [r EXCEPT !.at = x, !.copy = c]
<1>5. /\ u \in PassesOf(A, N, R, C)
      /\ u.at = x /\ u.pod = r.pod /\ u.result = r.result /\ u.copy = c
      /\ u.try = r.try
  BY <1>3 DEF PassesOf
<1>6. pass' = [pass EXCEPT ![e] = u]
  BY <1>4 DEF GoCopying
<1> HIDE DEF u
<1>7. u \in Passes
  BY <1>2, <1>5
<1>8. pass'[e] = u /\ pass' \in [Uids -> Passes] /\ \A f \in Uids \ {e} : pass'[f] = pass[f]
  BY <1>6, <1>7
<1> QED
  BY <1>4, <1>5, <1>8

\* It goes on with a request.
LEMMA PassSends ==
  ASSUME NEW e \in Uids, pass \in [Uids -> Passes], NEW x \in Steps, NEW k \in Nat,
         GoWaiting(e, x, k)
  PROVE  /\ pass' \in [Uids -> Passes] /\ \A f \in Uids \ {e} : pass'[f] = pass[f]
         /\ pass'[e].at = x /\ pass'[e].pod = pass[e].pod /\ pass'[e].result = pass[e].result /\ pass'[e].copy = pass[e].copy
         /\ pass'[e].try = k
<1>1. PICK A, N, R, C : A = Steps /\ N = Nat /\ R = Outcomes \cup {"none"} /\ C = ExecRecords \cup {None}
  OBVIOUS
<1>2. Passes = PassesOf(A, N, R, C)
  BY <1>1 DEF Passes, PassesOf
<1>3. pass[e] \in PassesOf(A, N, R, C) /\ x \in A /\ k \in N
  BY <1>1, <1>2
<1>4. PICK r \in PassesOf(A, N, R, C) : r = pass[e]
  BY <1>3
<1> DEFINE u == [r EXCEPT !.at = x, !.try = k]
<1>5. /\ u \in PassesOf(A, N, R, C)
      /\ u.at = x /\ u.pod = r.pod /\ u.result = r.result /\ u.copy = r.copy
      /\ u.try = k
  BY <1>3 DEF PassesOf
<1>6. pass' = [pass EXCEPT ![e] = u]
  BY <1>4 DEF GoWaiting
<1> HIDE DEF u
<1>7. u \in Passes
  BY <1>2, <1>5
<1>8. pass'[e] = u /\ pass' \in [Uids -> Passes] /\ \A f \in Uids \ {e} : pass'[f] = pass[f]
  BY <1>6, <1>7
<1> QED
  BY <1>4, <1>5, <1>8

\* It goes on with a Pod and an outcome.
LEMMA PassFinds ==
  ASSUME NEW e \in Uids, pass \in [Uids -> Passes], NEW x \in Steps, NEW n \in Nat, NEW y \in Outcomes \cup {"none"},
         GoFinding(e, x, n, y)
  PROVE  /\ pass' \in [Uids -> Passes] /\ \A f \in Uids \ {e} : pass'[f] = pass[f]
         /\ pass'[e].at = x /\ pass'[e].pod = n /\ pass'[e].result = y /\ pass'[e].copy = pass[e].copy
         /\ pass'[e].try = pass[e].try
<1>1. PICK A, N, R, C : A = Steps /\ N = Nat /\ R = Outcomes \cup {"none"} /\ C = ExecRecords \cup {None}
  OBVIOUS
<1>2. Passes = PassesOf(A, N, R, C)
  BY <1>1 DEF Passes, PassesOf
<1>3. pass[e] \in PassesOf(A, N, R, C) /\ x \in A /\ n \in N /\ y \in R
  BY <1>1, <1>2
<1>4. PICK r \in PassesOf(A, N, R, C) : r = pass[e]
  BY <1>3
<1> DEFINE u == [r EXCEPT !.at = x, !.pod = n, !.result = y]
<1>5. /\ u \in PassesOf(A, N, R, C)
      /\ u.at = x /\ u.pod = n /\ u.result = y /\ u.copy = r.copy
      /\ u.try = r.try
  BY <1>3 DEF PassesOf
<1>6. pass' = [pass EXCEPT ![e] = u]
  BY <1>4 DEF GoFinding
<1> HIDE DEF u
<1>7. u \in Passes
  BY <1>2, <1>5
<1>8. pass'[e] = u /\ pass' \in [Uids -> Passes] /\ \A f \in Uids \ {e} : pass'[f] = pass[f]
  BY <1>6, <1>7
<1> QED
  BY <1>4, <1>5, <1>8

\* It starts to finalize the record.
LEMMA PassFinalizes ==
  ASSUME NEW e \in Uids, pass \in [Uids -> Passes], NEW c \in ExecRecords \cup {None}, NEW x \in Steps, NEW y \in Outcomes \cup {"none"},
         GoFinalizing(e, c, x, y)
  PROVE  /\ pass' \in [Uids -> Passes] /\ \A f \in Uids \ {e} : pass'[f] = pass[f]
         /\ pass'[e].at = x /\ pass'[e].pod = pass[e].pod /\ pass'[e].result = y /\ pass'[e].copy = c
         /\ pass'[e].try = pass[e].try
<1>1. PICK A, N, R, C : A = Steps /\ N = Nat /\ R = Outcomes \cup {"none"} /\ C = ExecRecords \cup {None}
  OBVIOUS
<1>2. Passes = PassesOf(A, N, R, C)
  BY <1>1 DEF Passes, PassesOf
<1>3. pass[e] \in PassesOf(A, N, R, C) /\ c \in C /\ x \in A /\ y \in R
  BY <1>1, <1>2
<1>4. PICK r \in PassesOf(A, N, R, C) : r = pass[e]
  BY <1>3
<1> DEFINE u == [r EXCEPT !.copy = c, !.at = x, !.result = y]
<1>5. /\ u \in PassesOf(A, N, R, C)
      /\ u.at = x /\ u.pod = r.pod /\ u.result = y /\ u.copy = c
      /\ u.try = r.try
  BY <1>3 DEF PassesOf
<1>6. pass' = [pass EXCEPT ![e] = u]
  BY <1>4 DEF GoFinalizing
<1> HIDE DEF u
<1>7. u \in Passes
  BY <1>2, <1>5
<1>8. pass'[e] = u /\ pass' \in [Uids -> Passes] /\ \A f \in Uids \ {e} : pass'[f] = pass[f]
  BY <1>6, <1>7
<1> QED
  BY <1>4, <1>5, <1>8

-----------------------------------------------------------------------------
(* Lemmas about the Workspace.                                             *)

Desires == {"Running", "Suspended"}
WorkspacesOf(D, B, N) ==
  [desired : D, ready : B, readyAt : N, suspended : B, closed : B, deleting : B, expired : B,
   active : N, lastDone : N, suspendedAt : N, since : N]

Preserved(w, t) == [w EXCEPT !.lastDone = t]
Edited(w, d) == [w EXCEPT !.desired = d, !.suspended = FALSE]
Unreadied(w, t, s) == [w EXCEPT !.ready = FALSE, !.active = t, !.suspendedAt = s]
Readied(w, t) == [w EXCEPT !.ready = TRUE, !.readyAt = t, !.active = t]
Halting(w) == [w EXCEPT !.ready = FALSE, !.suspended = FALSE]
Halted(w, s) == [w EXCEPT !.ready = FALSE, !.suspended = TRUE, !.suspendedAt = s]
Timed(w, m, t, s) == [w EXCEPT !.since = m, !.active = t, !.suspendedAt = s]
Busy(w, t) == [w EXCEPT !.active = t]
Shut(w) == [w EXCEPT !.closed = TRUE]
Opened(w) == [w EXCEPT !.closed = FALSE]
Expired(w) == [w EXCEPT !.deleting = TRUE, !.expired = TRUE]

\* It keeps a completion.
LEMMA ClockPreserved ==
  ASSUME NEW w \in Workspaces, NEW t \in Nat, NEW u, u = Preserved(w, t)
  PROVE  /\ u \in Workspaces
         /\ u.desired = w.desired /\ u.ready = w.ready /\ u.readyAt = w.readyAt /\ u.suspended = w.suspended
         /\ u.closed = w.closed /\ u.deleting = w.deleting /\ u.expired = w.expired /\ u.active = w.active
         /\ u.lastDone = t /\ u.suspendedAt = w.suspendedAt /\ u.since = w.since
<1>1. PICK D, B, N : D = Desires /\ B = BOOLEAN /\ N = Nat
  OBVIOUS
<1>2. Workspaces = WorkspacesOf(D, B, N)
  BY <1>1 DEF Workspaces, WorkspacesOf, Desires
<1>3. w \in WorkspacesOf(D, B, N) /\ t \in N
  BY <1>1, <1>2
<1> DEFINE v == [w EXCEPT !.lastDone = t]
<1>4. /\ v \in WorkspacesOf(D, B, N)
      /\ v.desired = w.desired /\ v.ready = w.ready /\ v.readyAt = w.readyAt /\ v.suspended = w.suspended
      /\ v.closed = w.closed /\ v.deleting = w.deleting /\ v.expired = w.expired /\ v.active = w.active
      /\ v.lastDone = t /\ v.suspendedAt = w.suspendedAt /\ v.since = w.since
  BY <1>3 DEF WorkspacesOf
<1>5. u = v
  BY <1>1 DEF Preserved
<1> HIDE DEF v
<1> QED
  BY <1>1, <1>2, <1>4, <1>5, Zenon

\* A user, or the end of a timeout, decides whether it is to run.
LEMMA DesireEdited ==
  ASSUME NEW w \in Workspaces, NEW d \in Desires, NEW u, u = Edited(w, d)
  PROVE  /\ u \in Workspaces
         /\ u.desired = d /\ u.ready = w.ready /\ u.readyAt = w.readyAt /\ ~u.suspended
         /\ u.closed = w.closed /\ u.deleting = w.deleting /\ u.expired = w.expired /\ u.active = w.active
         /\ u.lastDone = w.lastDone /\ u.suspendedAt = w.suspendedAt /\ u.since = w.since
<1>1. PICK D, B, N, n : D = Desires /\ B = BOOLEAN /\ N = Nat /\ n = FALSE
  OBVIOUS
<1>2. Workspaces = WorkspacesOf(D, B, N)
  BY <1>1 DEF Workspaces, WorkspacesOf, Desires
<1>3. w \in WorkspacesOf(D, B, N) /\ d \in D /\ n \in B
  BY <1>1, <1>2
<1> DEFINE v == [w EXCEPT !.desired = d, !.suspended = n]
<1>4. /\ v \in WorkspacesOf(D, B, N)
      /\ v.desired = d /\ v.ready = w.ready /\ v.readyAt = w.readyAt /\ v.suspended = n
      /\ v.closed = w.closed /\ v.deleting = w.deleting /\ v.expired = w.expired /\ v.active = w.active
      /\ v.lastDone = w.lastDone /\ v.suspendedAt = w.suspendedAt /\ v.since = w.since
  BY <1>3 DEF WorkspacesOf
<1>5. u = v
  BY <1>1 DEF Edited
<1> HIDE DEF v
<1> QED
  BY <1>1, <1>2, <1>4, <1>5, Zenon

\* Its runtime is not ready; a suspension may end.
LEMMA RuntimeUnready ==
  ASSUME NEW w \in Workspaces, NEW t \in Nat, NEW s \in Nat, NEW u, u = Unreadied(w, t, s)
  PROVE  /\ u \in Workspaces
         /\ u.desired = w.desired /\ ~u.ready /\ u.readyAt = w.readyAt /\ u.suspended = w.suspended
         /\ u.closed = w.closed /\ u.deleting = w.deleting /\ u.expired = w.expired /\ u.active = t
         /\ u.lastDone = w.lastDone /\ u.suspendedAt = s /\ u.since = w.since
<1>1. PICK D, B, N, n : D = Desires /\ B = BOOLEAN /\ N = Nat /\ n = FALSE
  OBVIOUS
<1>2. Workspaces = WorkspacesOf(D, B, N)
  BY <1>1 DEF Workspaces, WorkspacesOf, Desires
<1>3. w \in WorkspacesOf(D, B, N) /\ t \in N /\ s \in N /\ n \in B
  BY <1>1, <1>2
<1> DEFINE v == [w EXCEPT !.ready = n, !.active = t, !.suspendedAt = s]
<1>4. /\ v \in WorkspacesOf(D, B, N)
      /\ v.desired = w.desired /\ v.ready = n /\ v.readyAt = w.readyAt /\ v.suspended = w.suspended
      /\ v.closed = w.closed /\ v.deleting = w.deleting /\ v.expired = w.expired /\ v.active = t
      /\ v.lastDone = w.lastDone /\ v.suspendedAt = s /\ v.since = w.since
  BY <1>3 DEF WorkspacesOf
<1>5. u = v
  BY <1>1 DEF Unreadied
<1> HIDE DEF v
<1> QED
  BY <1>1, <1>2, <1>4, <1>5, Zenon

\* Its runtime is ready.
LEMMA RuntimeReady ==
  ASSUME NEW w \in Workspaces, NEW t \in Nat, NEW u, u = Readied(w, t)
  PROVE  /\ u \in Workspaces
         /\ u.desired = w.desired /\ u.ready /\ u.readyAt = t /\ u.suspended = w.suspended
         /\ u.closed = w.closed /\ u.deleting = w.deleting /\ u.expired = w.expired /\ u.active = t
         /\ u.lastDone = w.lastDone /\ u.suspendedAt = w.suspendedAt /\ u.since = w.since
<1>1. PICK D, B, N, y : D = Desires /\ B = BOOLEAN /\ N = Nat /\ y = TRUE
  OBVIOUS
<1>2. Workspaces = WorkspacesOf(D, B, N)
  BY <1>1 DEF Workspaces, WorkspacesOf, Desires
<1>3. w \in WorkspacesOf(D, B, N) /\ t \in N /\ y \in B
  BY <1>1, <1>2
<1> DEFINE v == [w EXCEPT !.ready = y, !.readyAt = t, !.active = t]
<1>4. /\ v \in WorkspacesOf(D, B, N)
      /\ v.desired = w.desired /\ v.ready = y /\ v.readyAt = t /\ v.suspended = w.suspended
      /\ v.closed = w.closed /\ v.deleting = w.deleting /\ v.expired = w.expired /\ v.active = t
      /\ v.lastDone = w.lastDone /\ v.suspendedAt = w.suspendedAt /\ v.since = w.since
  BY <1>3 DEF WorkspacesOf
<1>5. u = v
  BY <1>1 DEF Readied
<1> HIDE DEF v
<1> QED
  BY <1>1, <1>2, <1>4, <1>5, Zenon

\* It is being suspended.
LEMMA SuspensionWaits ==
  ASSUME NEW w \in Workspaces, NEW u, u = Halting(w)
  PROVE  /\ u \in Workspaces
         /\ u.desired = w.desired /\ ~u.ready /\ u.readyAt = w.readyAt /\ ~u.suspended
         /\ u.closed = w.closed /\ u.deleting = w.deleting /\ u.expired = w.expired /\ u.active = w.active
         /\ u.lastDone = w.lastDone /\ u.suspendedAt = w.suspendedAt /\ u.since = w.since
<1>1. PICK D, B, N, n : D = Desires /\ B = BOOLEAN /\ N = Nat /\ n = FALSE
  OBVIOUS
<1>2. Workspaces = WorkspacesOf(D, B, N)
  BY <1>1 DEF Workspaces, WorkspacesOf, Desires
<1>3. w \in WorkspacesOf(D, B, N) /\ n \in B
  BY <1>1, <1>2
<1> DEFINE v == [w EXCEPT !.ready = n, !.suspended = n]
<1>4. /\ v \in WorkspacesOf(D, B, N)
      /\ v.desired = w.desired /\ v.ready = n /\ v.readyAt = w.readyAt /\ v.suspended = n
      /\ v.closed = w.closed /\ v.deleting = w.deleting /\ v.expired = w.expired /\ v.active = w.active
      /\ v.lastDone = w.lastDone /\ v.suspendedAt = w.suspendedAt /\ v.since = w.since
  BY <1>3 DEF WorkspacesOf
<1>5. u = v
  BY <1>1 DEF Halting
<1> HIDE DEF v
<1> QED
  BY <1>1, <1>2, <1>4, <1>5, Zenon

\* It is suspended.
LEMMA SuspensionDone ==
  ASSUME NEW w \in Workspaces, NEW s \in Nat, NEW u, u = Halted(w, s)
  PROVE  /\ u \in Workspaces
         /\ u.desired = w.desired /\ ~u.ready /\ u.readyAt = w.readyAt /\ u.suspended
         /\ u.closed = w.closed /\ u.deleting = w.deleting /\ u.expired = w.expired /\ u.active = w.active
         /\ u.lastDone = w.lastDone /\ u.suspendedAt = s /\ u.since = w.since
<1>1. PICK D, B, N, n, y : D = Desires /\ B = BOOLEAN /\ N = Nat /\ n = FALSE /\ y = TRUE
  OBVIOUS
<1>2. Workspaces = WorkspacesOf(D, B, N)
  BY <1>1 DEF Workspaces, WorkspacesOf, Desires
<1>3. w \in WorkspacesOf(D, B, N) /\ s \in N /\ n \in B /\ y \in B
  BY <1>1, <1>2
<1> DEFINE v == [w EXCEPT !.ready = n, !.suspended = y, !.suspendedAt = s]
<1>4. /\ v \in WorkspacesOf(D, B, N)
      /\ v.desired = w.desired /\ v.ready = n /\ v.readyAt = w.readyAt /\ v.suspended = y
      /\ v.closed = w.closed /\ v.deleting = w.deleting /\ v.expired = w.expired /\ v.active = w.active
      /\ v.lastDone = w.lastDone /\ v.suspendedAt = s /\ v.since = w.since
  BY <1>3 DEF WorkspacesOf
<1>5. u = v
  BY <1>1 DEF Halted
<1> HIDE DEF v
<1> QED
  BY <1>1, <1>2, <1>4, <1>5, Zenon

\* u is w with the clocks m, t and s.
HasClocks(u, w, m, t, s) ==
  /\ u \in Workspaces
  /\ u.desired = w.desired /\ u.ready = w.ready /\ u.readyAt = w.readyAt /\ u.suspended = w.suspended
  /\ u.closed = w.closed /\ u.deleting = w.deleting /\ u.expired = w.expired /\ u.active = t
  /\ u.lastDone = w.lastDone /\ u.suspendedAt = s /\ u.since = m

\* Retention records its clocks.
LEMMA ClocksRecorded ==
  ASSUME NEW w \in Workspaces, NEW m \in Nat, NEW t \in Nat, NEW s \in Nat
  PROVE  HasClocks(Timed(w, m, t, s), w, m, t, s)
<1>1. PICK D, B, N : D = Desires /\ B = BOOLEAN /\ N = Nat
  OBVIOUS
<1>2. Workspaces = WorkspacesOf(D, B, N)
  BY <1>1 DEF Workspaces, WorkspacesOf, Desires
<1>3. w \in WorkspacesOf(D, B, N) /\ m \in N /\ t \in N /\ s \in N
  BY <1>1, <1>2
<1> DEFINE v == [w EXCEPT !.since = m, !.active = t, !.suspendedAt = s]
<1>4. /\ v \in WorkspacesOf(D, B, N)
      /\ v.desired = w.desired /\ v.ready = w.ready /\ v.readyAt = w.readyAt /\ v.suspended = w.suspended
      /\ v.closed = w.closed /\ v.deleting = w.deleting /\ v.expired = w.expired /\ v.active = t
      /\ v.lastDone = w.lastDone /\ v.suspendedAt = s /\ v.since = m
  BY <1>3 DEF WorkspacesOf
<1>5. Timed(w, m, t, s) = v
  BY <1>1 DEF Timed
<1> HIDE DEF v
<1> QED
  BY <1>1, <1>2, <1>4, <1>5, Zenon DEF HasClocks

\* Retention records an activity.
LEMMA ActivityRecorded ==
  ASSUME NEW w \in Workspaces, NEW t \in Nat, NEW u, u = Busy(w, t)
  PROVE  /\ u \in Workspaces
         /\ u.desired = w.desired /\ u.ready = w.ready /\ u.readyAt = w.readyAt /\ u.suspended = w.suspended
         /\ u.closed = w.closed /\ u.deleting = w.deleting /\ u.expired = w.expired /\ u.active = t
         /\ u.lastDone = w.lastDone /\ u.suspendedAt = w.suspendedAt /\ u.since = w.since
<1>1. PICK D, B, N : D = Desires /\ B = BOOLEAN /\ N = Nat
  OBVIOUS
<1>2. Workspaces = WorkspacesOf(D, B, N)
  BY <1>1 DEF Workspaces, WorkspacesOf, Desires
<1>3. w \in WorkspacesOf(D, B, N) /\ t \in N
  BY <1>1, <1>2
<1> DEFINE v == [w EXCEPT !.active = t]
<1>4. /\ v \in WorkspacesOf(D, B, N)
      /\ v.desired = w.desired /\ v.ready = w.ready /\ v.readyAt = w.readyAt /\ v.suspended = w.suspended
      /\ v.closed = w.closed /\ v.deleting = w.deleting /\ v.expired = w.expired /\ v.active = t
      /\ v.lastDone = w.lastDone /\ v.suspendedAt = w.suspendedAt /\ v.since = w.since
  BY <1>3 DEF WorkspacesOf
<1>5. u = v
  BY <1>1 DEF Busy
<1> HIDE DEF v
<1> QED
  BY <1>1, <1>2, <1>4, <1>5, Zenon

\* Its gate is closed.
LEMMA GateClosed ==
  ASSUME NEW w \in Workspaces, NEW u, u = Shut(w)
  PROVE  /\ u \in Workspaces
         /\ u.desired = w.desired /\ u.ready = w.ready /\ u.readyAt = w.readyAt /\ u.suspended = w.suspended
         /\ u.closed /\ u.deleting = w.deleting /\ u.expired = w.expired /\ u.active = w.active
         /\ u.lastDone = w.lastDone /\ u.suspendedAt = w.suspendedAt /\ u.since = w.since
<1>1. PICK D, B, N, y : D = Desires /\ B = BOOLEAN /\ N = Nat /\ y = TRUE
  OBVIOUS
<1>2. Workspaces = WorkspacesOf(D, B, N)
  BY <1>1 DEF Workspaces, WorkspacesOf, Desires
<1>3. w \in WorkspacesOf(D, B, N) /\ y \in B
  BY <1>1, <1>2
<1> DEFINE v == [w EXCEPT !.closed = y]
<1>4. /\ v \in WorkspacesOf(D, B, N)
      /\ v.desired = w.desired /\ v.ready = w.ready /\ v.readyAt = w.readyAt /\ v.suspended = w.suspended
      /\ v.closed = y /\ v.deleting = w.deleting /\ v.expired = w.expired /\ v.active = w.active
      /\ v.lastDone = w.lastDone /\ v.suspendedAt = w.suspendedAt /\ v.since = w.since
  BY <1>3 DEF WorkspacesOf
<1>5. u = v
  BY <1>1 DEF Shut
<1> HIDE DEF v
<1> QED
  BY <1>1, <1>2, <1>4, <1>5, Zenon

\* Its gate is opened.
LEMMA GateOpened ==
  ASSUME NEW w \in Workspaces, NEW u, u = Opened(w)
  PROVE  /\ u \in Workspaces
         /\ u.desired = w.desired /\ u.ready = w.ready /\ u.readyAt = w.readyAt /\ u.suspended = w.suspended
         /\ ~u.closed /\ u.deleting = w.deleting /\ u.expired = w.expired /\ u.active = w.active
         /\ u.lastDone = w.lastDone /\ u.suspendedAt = w.suspendedAt /\ u.since = w.since
<1>1. PICK D, B, N, n : D = Desires /\ B = BOOLEAN /\ N = Nat /\ n = FALSE
  OBVIOUS
<1>2. Workspaces = WorkspacesOf(D, B, N)
  BY <1>1 DEF Workspaces, WorkspacesOf, Desires
<1>3. w \in WorkspacesOf(D, B, N) /\ n \in B
  BY <1>1, <1>2
<1> DEFINE v == [w EXCEPT !.closed = n]
<1>4. /\ v \in WorkspacesOf(D, B, N)
      /\ v.desired = w.desired /\ v.ready = w.ready /\ v.readyAt = w.readyAt /\ v.suspended = w.suspended
      /\ v.closed = n /\ v.deleting = w.deleting /\ v.expired = w.expired /\ v.active = w.active
      /\ v.lastDone = w.lastDone /\ v.suspendedAt = w.suspendedAt /\ v.since = w.since
  BY <1>3 DEF WorkspacesOf
<1>5. u = v
  BY <1>1 DEF Opened
<1> HIDE DEF v
<1> QED
  BY <1>1, <1>2, <1>4, <1>5, Zenon

\* It is deleted as expired.
LEMMA ExpiryRecorded ==
  ASSUME NEW w \in Workspaces, NEW u, u = Expired(w)
  PROVE  /\ u \in Workspaces
         /\ u.desired = w.desired /\ u.ready = w.ready /\ u.readyAt = w.readyAt /\ u.suspended = w.suspended
         /\ u.closed = w.closed /\ u.deleting /\ u.expired /\ u.active = w.active
         /\ u.lastDone = w.lastDone /\ u.suspendedAt = w.suspendedAt /\ u.since = w.since
<1>1. PICK D, B, N, y : D = Desires /\ B = BOOLEAN /\ N = Nat /\ y = TRUE
  OBVIOUS
<1>2. Workspaces = WorkspacesOf(D, B, N)
  BY <1>1 DEF Workspaces, WorkspacesOf, Desires
<1>3. w \in WorkspacesOf(D, B, N) /\ y \in B
  BY <1>1, <1>2
<1> DEFINE v == [w EXCEPT !.deleting = y, !.expired = y]
<1>4. /\ v \in WorkspacesOf(D, B, N)
      /\ v.desired = w.desired /\ v.ready = w.ready /\ v.readyAt = w.readyAt /\ v.suspended = w.suspended
      /\ v.closed = w.closed /\ v.deleting = y /\ v.expired = y /\ v.active = w.active
      /\ v.lastDone = w.lastDone /\ v.suspendedAt = w.suspendedAt /\ v.since = w.since
  BY <1>3 DEF WorkspacesOf
<1>5. u = v
  BY <1>1 DEF Expired
<1> HIDE DEF v
<1> QED
  BY <1>1, <1>2, <1>4, <1>5, Zenon

\* A bounded set of times has a greatest one: Max is what its name says.
LEMMA BoundedMax ==
  ASSUME NEW n \in Nat, NEW D, D \subseteq 0..n, D # {}
  PROVE  Max(D) \in D /\ \A d \in D : d <= Max(D)
<1> DEFINE R == OpToRel(<, Nat)
           T == {n - d : d \in D}
<1>0. \A d \in D : d \in Nat /\ d <= n /\ n - d \in Nat
  OBVIOUS
<1>1. T \subseteq Nat /\ T # {}
  <2>1. ASSUME NEW t \in T PROVE t \in Nat
    BY <1>0, <2>1
  <2>2. PICK d \in D : TRUE
    OBVIOUS
  <2>3. n - d \in T
    BY <2>2
  <2> QED
    BY <2>1, <2>3
<1>2. IsWellFoundedOn(R, Nat)
  BY NatLessThanWellFounded
<1>3. \A a, b \in Nat : a < b => <<a, b>> \in R
  BY DEF OpToRel
<1> HIDE DEF R
<1>4. PICK x \in T : \A y \in T : ~(<<y, x>> \in R)
  <2> HIDE DEF T
  <2> QED BY <1>1, <1>2, WFMin
<1>5. PICK m \in D : x = n - m
  OBVIOUS
<1>6. ASSUME NEW d \in D PROVE m >= d
  <2>1. n - d \in T /\ n - d \in Nat /\ n - m \in Nat /\ d \in Nat /\ m \in Nat
    BY <1>0
  <2>2. ~(<<n - d, n - m>> \in R)
    BY <1>4, <1>5, <2>1
  <2>3. ~(n - d < n - m)
    BY <1>3, <2>1, <2>2
  <2> QED
    BY <2>1, <2>3
<1>7. Max(D) \in D /\ \A d \in D : Max(D) >= d
  BY <1>6 DEF Max
<1> QED
  BY <1>7

-----------------------------------------------------------------------------
(* One execution.                                                          *)

\* What the invariant says of e.
LEMMA ExecParts ==
  ASSUME IInv, NEW e \in Uids
  PROVE  /\ Finalized(e) /\ TimesPast(e) /\ StartFits(e) /\ CopyFits(e) /\ OutcomeTrue(e) /\ ClockCopied(e)
         /\ obj[e] \in ExecRecords \cup {None} /\ seen[e] \in ExecRecords \cup {None} /\ pass[e] \in Passes
         /\ pass[e].at \in Steps /\ pass[e].pod \in Nat /\ pass[e].result \in Outcomes \cup {"none"}
         /\ pass[e].copy \in ExecRecords \cup {None}
         /\ obj[e] # None => obj[e].doneAt \in Nat /\ obj[e].pod \in Nat /\ obj[e].phase \in AllPhases
         /\ seen[e] # None => seen[e].doneAt \in Nat
         /\ pass[e].copy # None => pass[e].copy.doneAt \in Nat
         /\ now \in Nat
<1>1. /\ ExecSafe(e) /\ now \in Nat
      /\ obj[e] \in ExecRecords \cup {None} /\ seen[e] \in ExecRecords \cup {None} /\ pass[e] \in Passes
  BY DEF IInv, ExecTypes, WorldTypes
<1>2. /\ pass[e].at \in Steps /\ pass[e].pod \in Nat /\ pass[e].result \in Outcomes \cup {"none"}
      /\ pass[e].copy \in ExecRecords \cup {None}
  BY <1>1 DEF Passes
<1>3. \A r \in ExecRecords : r.doneAt \in Nat /\ r.pod \in Nat /\ r.phase \in AllPhases
  BY DEF ExecRecords, AllPhases
<1> QED
  BY <1>1, <1>2, <1>3 DEF ExecSafe

\* What a pass reads of the record: the cache, or the record itself.
LEMMA ViewParts ==
  ASSUME IInv, NEW e \in Uids
  PROVE  /\ View(e) \in ExecRecords \cup {None}
         /\ load.lag => View(e) = seen[e]
         /\ ~load.lag => View(e) = obj[e]
         /\ View(e) # None => e \in born
         /\ View(e) # None => /\ View(e).doneAt \in Nat /\ View(e).doneAt <= now /\ View(e).pod \in Nat
                              /\ View(e).phase \in AllPhases /\ View(e) \in ExecRecords
<1>1. /\ obj[e] \in ExecRecords \cup {None} /\ seen[e] \in ExecRecords \cup {None}
      /\ Finalized(e) /\ TimesPast(e)
  BY ExecParts
<1>2. View(e) \in {obj[e], seen[e]} /\ (load.lag => View(e) = seen[e]) /\ (~load.lag => View(e) = obj[e])
  BY DEF View
<1>3. \A r \in ExecRecords : r.doneAt \in Nat /\ r.pod \in Nat /\ r.phase \in AllPhases
  BY DEF ExecRecords, AllPhases
<1>4. View(e) # None => View(e) \in ExecRecords /\ e \in born /\ View(e).doneAt <= now
  <2>1. CASE View(e) = obj[e]
    BY <1>1, <2>1, SMT DEF Finalized, TimesPast
  <2>2. CASE View(e) = seen[e]
    BY <1>1, <2>2, SMT DEF Finalized, TimesPast
  <2> QED
    BY <1>2, <2>1, <2>2
<1>5. View(e) \in ExecRecords \cup {None}
  BY <1>1, <1>2
<1>6. View(e) # None => View(e).doneAt \in Nat /\ View(e).pod \in Nat /\ View(e).phase \in AllPhases
  BY <1>3, <1>4
<1> QED
  BY <1>2, <1>4, <1>5, <1>6

\* A pass that finds the finalizer in what it reads may rely on it.
LEMMA PassBegins ==
  ASSUME IInv, NEW e \in Uids, View(e) # None, View(e).fin
  PROVE  e \in born /\ (obj[e] # None => obj[e].fin)
<1>1. CASE load.lag
  <2>1. View(e) = seen[e] /\ Finalized(e) /\ e \in born
    BY <1>1, ViewParts, ExecParts
  <2>2. seen[e] # None /\ seen[e].fin
    BY <2>1
  <2> QED
    BY <2>1, <2>2 DEF Finalized
<1>2. CASE ~load.lag
  <2>1. View(e) = obj[e] /\ e \in born
    BY <1>2, ViewParts
  <2> QED
    BY <2>1
<1> QED
  BY <1>1, <1>2

\* An execution whose pass and cache stay, and whose record is at most marked.
LEMMA ExecFrame ==
  ASSUME IInv, NEW e \in Uids, Marked(e), pass'[e] = pass[e], seen'[e] = seen[e],
         ~load.lag /\ ~secret'[e] => ~secret[e] \/ (e \in born /\ ~Waiting(obj[e])),
         load' = load, born \subseteq born', now' \in Nat, now <= now',
         launches[e] > 0 => launches'[e] > 0,
         ws.deleting => ws'.deleting, ws.lastDone \in Nat, ws'.lastDone \in Nat, ws.lastDone <= ws'.lastDone
  PROVE  ExecSafe(e)'
<1>1. /\ Finalized(e) /\ TimesPast(e) /\ StartFits(e) /\ CopyFits(e) /\ OutcomeTrue(e) /\ ClockCopied(e)
      /\ obj[e] # None => obj[e].doneAt \in Nat
      /\ seen[e] # None => seen[e].doneAt \in Nat
      /\ pass[e].copy # None => pass[e].copy.doneAt \in Nat
      /\ now \in Nat
  BY ExecParts
<1>2. Finalized(e)'
  BY <1>1 DEF Finalized, Marked
<1>3. TimesPast(e)'
  <2>1. obj'[e] # None => obj[e] # None /\ obj'[e].doneAt = obj[e].doneAt
    BY DEF Marked
  <2> QED
    BY <1>1, <2>1 DEF TimesPast
<1>4. pass[e].at # "idle" => (obj'[e] = None => obj[e] = None)
  BY <1>1 DEF Finalized, Marked
<1>5. obj'[e] # None => obj[e] # None /\ obj'[e].phase = obj[e].phase
  BY DEF Marked
<1>6. StartFits(e)'
  <2>1. Waiting(obj[e])' => Waiting(obj[e])
    BY <1>5 DEF Waiting
  <2>2. pass[e].at # "idle" /\ Waiting(obj[e]) => Waiting(obj[e])'
    BY <1>4, <1>5 DEF Waiting
  <2> QED
    BY <1>1, <2>1, <2>2 DEF StartFits, StartSteps
<1>7. CopyFits(e)'
  <2>1. obj'[e] # None => obj[e] # None /\ (Terminal(obj[e]) => Terminal(obj[e])')
    BY <1>5 DEF Terminal
  <2> QED
    BY <1>1, <2>1 DEF CopyFits, Terminal
<1>8. OutcomeTrue(e)'
  BY <1>1, <1>5 DEF OutcomeTrue, NamesUnique
<1>9. ClockCopied(e)'
  <2>1. CASE pass[e].at = "remove" /\ pass[e].copy.owned /\ ~ws'.deleting
    <3>1. pass[e].copy # None /\ pass[e].copy.doneAt <= ws.lastDone
      BY <1>1, <2>1 DEF CopyFits, ClockCopied
    <3> QED
      BY <1>1, <3>1 DEF ClockCopied
  <2>2. CASE ~(pass[e].at = "remove" /\ pass[e].copy.owned /\ ~ws'.deleting)
    BY <2>2 DEF ClockCopied
  <2> QED
    BY <2>1, <2>2
<1> QED
  BY <1>2, <1>3, <1>6, <1>7, <1>8, <1>9 DEF ExecSafe

\* A step of a pass that leaves the record alone.
LEMMA PassOnly ==
  ASSUME IInv, NEW e \in Uids, load' = load, now' = now, obj' = obj, seen' = seen, born' = born,
         secret' \in [Uids -> BOOLEAN], \A f \in Uids \ {e} : secret'[f] = secret[f],
         ~load.lag /\ ~secret'[e] => ~Waiting(obj[e]) /\ e \in born,
         pass' \in [Uids -> Passes], \A f \in Uids \ {e} : pass'[f] = pass[f],
         pass'[e].at # "idle" => e \in born /\ (obj[e] # None => obj[e].fin),
         pass'[e].copy # None => pass'[e].copy.doneAt <= now,
         ~load.lag /\ pass'[e].at \in StartSteps => Waiting(obj[e]),
         ~load.lag /\ pass'[e].at = "release" => ~Waiting(obj[e]),
         CopyFits(e)', ClockCopied(e)',
         launches[e] > 0 => launches'[e] > 0,
         NamesUnique /\ pass'[e].at \in {"apply", "settle"} /\ pass'[e].result \in Settled => launches'[e] > 0
  PROVE  ExecTypes' /\ ExecSafe(e)' /\ RecordStep(e) /\ Alone(e)
<1>1. Finalized(e) /\ TimesPast(e) /\ StartFits(e) /\ OutcomeTrue(e)
  BY ExecParts
<1>2. ExecTypes'
  BY DEF IInv, ExecTypes
<1>3. Finalized(e)' /\ TimesPast(e)'
  BY <1>1 DEF Finalized, TimesPast
<1>4. StartFits(e)'
  BY <1>1 DEF StartFits, Waiting
<1>5. OutcomeTrue(e)'
  BY <1>1 DEF OutcomeTrue, NamesUnique
<1>6. RecordStep(e)
  BY DEF RecordStep, Marked
<1>7. Alone(e)
  BY DEF Alone
<1> QED
  BY <1>2, <1>3, <1>4, <1>5, <1>6, <1>7 DEF ExecSafe

-----------------------------------------------------------------------------
(* Steps of a pass that leave the record alone.                            *)

ExecMove(e) == ExecTypes' /\ ExecSafe(e)' /\ RecordStep(e) /\ Alone(e)
Still == UNCHANGED <<load, now, obj, seen, born, secret, launches, ws>>

\* A pass that is under way has a record with the finalizer.
LEMMA PassRuns ==
  ASSUME IInv, NEW e \in Uids, pass[e].at # "idle"
  PROVE  e \in born /\ (obj[e] # None => obj[e].fin)
BY ExecParts DEF Finalized

\* The pass ends.
LEMMA GiveUpMove ==
  ASSUME IInv, NEW e \in Uids, Still, GiveUp(e)
  PROVE  ExecMove(e)
<1>1. Rest \in Passes /\ Rest.at = "idle" /\ Rest.copy = None
  BY DEF Rest, Passes, Steps
<1>2. pass \in [Uids -> Passes] /\ StartFits(e) /\ secret \in [Uids -> BOOLEAN]
  BY ExecParts DEF IInv, ExecTypes
<1>3. pass' = [pass EXCEPT ![e] = Rest]
  BY DEF GiveUp
<1>4. pass' \in [Uids -> Passes] /\ pass'[e] = Rest /\ \A f \in Uids \ {e} : pass'[f] = pass[f]
  BY <1>1, <1>2, <1>3
<1>5. CopyFits(e)' /\ ClockCopied(e)'
  BY <1>1, <1>4 DEF CopyFits, ClockCopied, StopSteps
<1>6. UNCHANGED load /\ UNCHANGED now /\ UNCHANGED obj /\ UNCHANGED seen /\ UNCHANGED born /\ UNCHANGED secret
      /\ UNCHANGED launches
  BY DEF Still
<1>7. ~load.lag /\ ~secret'[e] => ~Waiting(obj[e]) /\ e \in born
  BY <1>2, <1>6 DEF StartFits
<1>8. pass'[e].at = "idle" /\ pass'[e].copy = None /\ "idle" \notin StartSteps /\ "idle" \notin {"apply", "settle", "release"}
  BY <1>1, <1>4 DEF StartSteps
<1> QED
  BY <1>2, <1>4, <1>5, <1>6, <1>7, <1>8, PassOnly DEF ExecMove

\* The pass goes to a step that needs neither an outcome nor a copy.
LEMMA StepMove ==
  ASSUME IInv, NEW e \in Uids, Still, e \in born, obj[e] # None => obj[e].fin,
         pass' \in [Uids -> Passes], \A f \in Uids \ {e} : pass'[f] = pass[f],
         pass'[e].at \in StartSteps \cup {"stop", "stopping", "inspect", "release"},
         pass'[e].copy # None => pass'[e].copy.doneAt <= now,
         pass'[e].at = "own" => pass'[e].copy # None,
         ~load.lag /\ pass'[e].at \in StartSteps => Waiting(obj[e]),
         ~load.lag /\ pass'[e].at = "release" => ~Waiting(obj[e])
  PROVE  ExecMove(e)
<1>1. StartFits(e) /\ secret \in [Uids -> BOOLEAN]
  BY ExecParts DEF IInv, ExecTypes
<1>2. UNCHANGED load /\ UNCHANGED now /\ UNCHANGED obj /\ UNCHANGED seen /\ UNCHANGED born /\ UNCHANGED secret
      /\ UNCHANGED launches
  BY DEF Still
<1>3. CopyFits(e)' /\ ClockCopied(e)'
  BY DEF CopyFits, ClockCopied, StopSteps, StartSteps
<1>4. ~load.lag /\ ~secret'[e] => ~Waiting(obj[e]) /\ e \in born
  BY <1>1, <1>2 DEF StartFits
<1>5. pass'[e].at \notin {"apply", "settle"}
  BY DEF StartSteps
<1> QED
  BY <1>1, <1>2, <1>3, <1>4, <1>5, PassOnly DEF ExecMove

\* The pass goes on to write an outcome that no start of a process claims.
LEMMA OutcomeMove ==
  ASSUME IInv, NEW e \in Uids, Still, e \in born, obj[e] # None => obj[e].fin,
         NEW x \in {"apply", "settle"}, NEW y \in Outcomes, GoWith(e, x, y),
         x = "settle" => y \in TerminalPhases /\ pass[e].at \in StopSteps,
         NamesUnique /\ y \in Settled => launches[e] > 0
  PROVE  ExecMove(e)
<1>1. /\ StartFits(e) /\ TimesPast(e) /\ CopyFits(e) /\ secret \in [Uids -> BOOLEAN]
      /\ pass \in [Uids -> Passes]
  BY ExecParts DEF IInv, ExecTypes
<1>2. UNCHANGED load /\ UNCHANGED now /\ UNCHANGED obj /\ UNCHANGED seen /\ UNCHANGED born /\ UNCHANGED secret
      /\ UNCHANGED launches
  BY DEF Still
<1>3. x \in Steps /\ y \in Outcomes \cup {"none"}
  BY DEF Steps
<1>5. /\ pass' \in [Uids -> Passes] /\ \A f \in Uids \ {e} : pass'[f] = pass[f]
      /\ pass'[e].at = x /\ pass'[e].result = y /\ pass'[e].copy = pass[e].copy
  BY <1>1, <1>3, PassGoesWith
<1>6. CopyFits(e)'
  BY <1>1, <1>2, <1>5 DEF CopyFits, StopSteps, Terminal
<1>7. ClockCopied(e)'
  BY <1>5 DEF ClockCopied
<1>8. ~load.lag /\ ~secret'[e] => ~Waiting(obj[e]) /\ e \in born
  BY <1>1, <1>2 DEF StartFits
<1>9. pass'[e].copy # None => pass'[e].copy.doneAt <= now
  BY <1>1, <1>5 DEF TimesPast
<1>10. pass'[e].at \notin StartSteps /\ pass'[e].at # "release"
  BY <1>5 DEF StartSteps
<1>11. NamesUnique /\ pass'[e].at \in {"apply", "settle"} /\ pass'[e].result \in Settled => launches'[e] > 0
  BY <1>2, <1>5
<1> QED
  BY <1>1, <1>2, <1>5, <1>6, <1>7, <1>8, <1>9, <1>10, <1>11, PassOnly DEF ExecMove

\* Outside and KeepRecords keep everything an execution is about.
LEMMA StillOutside ==
  ASSUME Outside, UNCHANGED <<born, obj, seen, secret>>
  PROVE  Still
BY DEF Outside, Still, tableVars, worldVars

\* So does a step that keeps all records.
LEMMA StillKept ==
  ASSUME Outside, KeepRecords
  PROVE  Still
BY DEF Outside, Still, tableVars, worldVars, KeepRecords

\* The pass of an execution that works.
LEMMA WorkingFacts ==
  ASSUME IInv, NEW e \in Uids, Working(e)
  PROVE  /\ e \in born /\ (obj[e] # None => obj[e].fin) /\ View(e) # None /\ ~Terminal(View(e))
         /\ pass[e].at = "idle"
BY PassBegins DEF Working, Idle

\* FindLost, StopEarly: an execution that works has come to its end.
LEMMA FoundMove ==
  ASSUME IInv, NEW e \in Uids, FindLost(e) \/ StopEarly(e)
  PROVE  ExecMove(e)
<1>1. PICK y \in {"Lost", "Stopped"} : Working(e) /\ Begin(e, "apply", y)
  BY DEF FindLost, StopEarly
<1>2. GoWith(e, "apply", y) /\ Still
  BY <1>1, StillKept DEF Begin
<1>3. y \in Outcomes /\ y \notin Settled
  BY DEF Outcomes, TerminalPhases, Settled
<1>4. e \in born /\ (obj[e] # None => obj[e].fin)
  BY <1>1, WorkingFacts
<1> QED
  BY <1>2, <1>3, <1>4, OutcomeMove

\* BeginStop: the pass turns to the supervisor.
LEMMA BeginStopMove ==
  ASSUME IInv, NEW e \in Uids, BeginStop(e)
  PROVE  ExecMove(e)
<1>1. Working(e) /\ View(e) # None
  BY WorkingFacts DEF BeginStop
<1>2. GoToPod(e, "stop", View(e).pod) /\ Still
  BY StillKept DEF BeginStop, GoToPod
<1>3. pass \in [Uids -> Passes] /\ TimesPast(e) /\ View(e).pod \in Nat
  BY <1>1, ExecParts, ViewParts DEF IInv, ExecTypes
<1>4. "stop" \in Steps /\ "stop" \notin StartSteps \cup {"own", "release"}
  BY DEF Steps, StartSteps
<1>5. /\ pass' \in [Uids -> Passes] /\ \A f \in Uids \ {e} : pass'[f] = pass[f]
      /\ pass'[e].at = "stop" /\ pass'[e].copy = pass[e].copy
  BY <1>2, <1>3, <1>4, PassClaims
<1>6. e \in born /\ (obj[e] # None => obj[e].fin)
  BY <1>1, WorkingFacts
<1>7. pass'[e].copy # None => pass'[e].copy.doneAt <= now
  BY <1>3, <1>5 DEF TimesPast
<1> QED
  BY <1>2, <1>4, <1>5, <1>6, <1>7, StepMove

\* An execution that is to be started waits for it.
LEMMA StartsWaits ==
  ASSUME IInv, NEW e \in Uids, Starts(e)
  PROVE  ~load.lag => Waiting(obj[e])
<1>1. View(e) # None /\ ~Terminal(View(e)) /\ View(e).phase # "Running"
  BY WorkingFacts DEF Starts
<1>2. View(e).phase \in AllPhases /\ (~load.lag => View(e) = obj[e])
  BY <1>1, ViewParts
<1> QED
  BY <1>1, <1>2 DEF Waiting, Terminal, AllPhases

\* BeginPend: the Workspace is not ready.
LEMMA BeginPendMove ==
  ASSUME IInv, NEW e \in Uids, BeginPend(e)
  PROVE  ExecMove(e)
<1>1. Starts(e) /\ Working(e) /\ Begin(e, "pend", "none")
  BY DEF BeginPend, Starts
<1>2. GoWith(e, "pend", "none") /\ Still
  BY <1>1, StillKept DEF Begin
<1>3. pass \in [Uids -> Passes] /\ TimesPast(e)
  BY ExecParts DEF IInv, ExecTypes
<1>4. "pend" \in Steps /\ "pend" \in StartSteps
  BY DEF Steps, StartSteps
<1>5. /\ pass' \in [Uids -> Passes] /\ \A f \in Uids \ {e} : pass'[f] = pass[f]
      /\ pass'[e].at = "pend" /\ pass'[e].copy = pass[e].copy
  BY <1>2, <1>3, <1>4, PassGoesWith
<1>6. e \in born /\ (obj[e] # None => obj[e].fin) /\ (~load.lag => Waiting(obj[e]))
  BY <1>1, WorkingFacts, StartsWaits
<1>7. pass'[e].copy # None => pass'[e].copy.doneAt <= now
  BY <1>3, <1>5 DEF TimesPast
<1> QED
  BY <1>2, <1>4, <1>5, <1>6, <1>7, StepMove

\* BeginClaim: the Workspace is ready.
LEMMA BeginClaimMove ==
  ASSUME IInv, NEW e \in Uids, BeginClaim(e)
  PROVE  ExecMove(e)
<1>1. Starts(e) /\ Working(e) /\ Still /\ GoToPod(e, "claim", pod.n)
  BY StillKept DEF BeginClaim, Starts, GoToPod
<1>2. pass \in [Uids -> Passes] /\ TimesPast(e) /\ pod.n \in Nat
  BY ExecParts DEF IInv, ExecTypes, WorldTypes
<1>3. "claim" \in Steps /\ "claim" \in StartSteps
  BY DEF Steps, StartSteps
<1>4. /\ pass' \in [Uids -> Passes] /\ \A f \in Uids \ {e} : pass'[f] = pass[f]
      /\ pass'[e].at = "claim" /\ pass'[e].copy = pass[e].copy
  BY <1>1, <1>2, <1>3, PassClaims
<1>5. e \in born /\ (obj[e] # None => obj[e].fin) /\ (~load.lag => Waiting(obj[e]))
  BY <1>1, WorkingFacts, StartsWaits
<1>6. pass'[e].copy # None => pass'[e].copy.doneAt <= now
  BY <1>2, <1>4 DEF TimesPast
<1> QED
  BY <1>1, <1>3, <1>4, <1>5, <1>6, StepMove

\* ApplyNothing, AdmitMoot, Fail, Abort: the pass ends where it is.
LEMMA EndMove ==
  ASSUME IInv, NEW e \in Uids, ApplyNothing(e) \/ AdmitMoot(e) \/ Fail(e) \/ Abort(e)
  PROVE  ExecMove(e)
<1>1. GiveUp(e)
  BY DEF ApplyNothing, AdmitMoot, Fail, Abort
<1>2. Still
  <2>1. CASE ApplyNothing(e) \/ AdmitMoot(e) \/ Fail(e)
    BY <2>1, StillKept DEF ApplyNothing, AdmitMoot, Fail
  <2>2. CASE Abort(e)
    BY <2>2 DEF Abort, KeepRecords, Still, tableVars
  <2> QED
    BY <2>1, <2>2
<1> QED
  BY <1>1, <1>2, GiveUpMove

\* AdmitRejected: the gate is closed.
LEMMA AdmitRejectedMove ==
  ASSUME IInv, NEW e \in Uids, AdmitRejected(e)
  PROVE  ExecMove(e)
<1>1. pass[e].at = "admit" /\ GoWith(e, "apply", "Failed") /\ Still
  BY StillKept DEF AdmitRejected, Begin
<1>2. "Failed" \in Outcomes /\ "Failed" \notin Settled
  BY DEF Outcomes, TerminalPhases, Settled
<1>3. e \in born /\ (obj[e] # None => obj[e].fin)
  BY <1>1, PassRuns
<1> QED
  BY <1>1, <1>2, <1>3, OutcomeMove

\* Admit: the pass goes on with a copy of the record it has admitted.
LEMMA AdmitMove ==
  ASSUME IInv, NEW e \in Uids, Admit(e)
  PROVE  ExecMove(e)
<1>1. pass[e].at = "admit" /\ obj[e] # None
  BY DEF Admit, Moot, Exists
<1>2. PICK x \in {"check", "own"} : GoCopying(e, x, obj[e])
  BY DEF Admit, GoCopying
<1>3. Still
  BY StillOutside DEF Admit
<1>4. /\ pass \in [Uids -> Passes] /\ TimesPast(e) /\ StartFits(e)
      /\ obj[e] \in ExecRecords \cup {None}
  BY ExecParts DEF IInv, ExecTypes
<1>5. x \in Steps /\ x \in StartSteps /\ "admit" \in StartSteps
  BY DEF Steps, StartSteps
<1>6. /\ pass' \in [Uids -> Passes] /\ \A f \in Uids \ {e} : pass'[f] = pass[f]
      /\ pass'[e].at = x /\ pass'[e].copy = obj[e]
  BY <1>2, <1>4, <1>5, PassCopies
<1>7. e \in born /\ (obj[e] # None => obj[e].fin)
  BY <1>1, PassRuns
<1>8. ~load.lag => Waiting(obj[e])
  BY <1>1, <1>4, <1>5 DEF StartFits
<1>9. obj[e].doneAt <= now
  BY <1>1, <1>4 DEF TimesPast
<1> QED
  BY <1>1, <1>3, <1>5, <1>6, <1>7, <1>8, <1>9, StepMove

\* CheckPod: the Pod is gone, or the request may be sent.
LEMMA CheckPodMove ==
  ASSUME IInv, NEW e \in Uids, CheckPod(e)
  PROVE  ExecMove(e)
<1>1. pass[e].at = "check" /\ Still
  BY StillKept DEF CheckPod
<1>2. e \in born /\ (obj[e] # None => obj[e].fin)
  BY <1>1, PassRuns
<1>3. CASE GoWith(e, "apply", "Lost")
  <2>1. "Lost" \in Outcomes /\ "Lost" \notin Settled
    BY DEF Outcomes, TerminalPhases, Settled
  <2> QED
    BY <1>1, <1>2, <1>3, <2>1, OutcomeMove
<1>4. CASE GoTo(e, "send")
  <2>1. pass \in [Uids -> Passes] /\ TimesPast(e) /\ StartFits(e)
    BY ExecParts DEF IInv, ExecTypes
  <2>2. "send" \in Steps /\ "send" \in StartSteps /\ "check" \in StartSteps
    BY DEF Steps, StartSteps
  <2>3. /\ pass' \in [Uids -> Passes] /\ \A f \in Uids \ {e} : pass'[f] = pass[f]
        /\ pass'[e].at = "send" /\ pass'[e].copy = pass[e].copy
    BY <1>4, <2>1, <2>2, PassGoes
  <2>4. ~load.lag => Waiting(obj[e])
    BY <1>1, <2>1, <2>2 DEF StartFits
  <2>5. pass'[e].copy # None => pass'[e].copy.doneAt <= now
    BY <2>1, <2>3 DEF TimesPast
  <2> QED
    BY <1>1, <1>2, <2>2, <2>3, <2>4, <2>5, StepMove
<1> QED
  BY <1>3, <1>4 DEF CheckPod

\* Send: the request is on its way.
LEMMA SendMove ==
  ASSUME IInv, NEW e \in Uids, Send(e)
  PROVE  ExecMove(e)
<1>1. pass[e].at = "send" /\ GoWaiting(e, "waiting", faults) /\ Still
  BY StillKept DEF Send, GoWaiting
<1>2. pass \in [Uids -> Passes] /\ TimesPast(e) /\ StartFits(e) /\ faults \in Nat
  BY ExecParts DEF IInv, ExecTypes, WorldTypes
<1>3. "waiting" \in Steps /\ "waiting" \in StartSteps /\ "send" \in StartSteps
  BY DEF Steps, StartSteps
<1>4. /\ pass' \in [Uids -> Passes] /\ \A f \in Uids \ {e} : pass'[f] = pass[f]
      /\ pass'[e].at = "waiting" /\ pass'[e].copy = pass[e].copy
  BY <1>1, <1>2, <1>3, PassSends
<1>5. e \in born /\ (obj[e] # None => obj[e].fin)
  BY <1>1, PassRuns
<1>6. ~load.lag => Waiting(obj[e])
  BY <1>1, <1>2, <1>3 DEF StartFits
<1>7. pass'[e].copy # None => pass'[e].copy.doneAt <= now
  BY <1>2, <1>4 DEF TimesPast
<1> QED
  BY <1>1, <1>3, <1>4, <1>5, <1>6, <1>7, StepMove

\* Under unique names a process, or a record, of e's name is one of e.
LEMMA NamedIsOwn ==
  ASSUME IInv, NamesUnique, NEW e \in Uids, table[IdOf[e]] # None \/ record[IdOf[e]] # None
  PROVE  launches[e] > 0
<1> DEFINE i == IdOf[e]
<1>1. i \in Ids /\ None \notin Uids
  BY IdsAssumption
<1>2. TableSafe
  BY DEF IInv
<1>3. owner[i] \in Uids \cup {None}
  BY <1>1, <1>2 DEF TableSafe, TableTypeOK
<1>4. owner[i] # None
  <2>1. CASE table[i] # None
    <3>1. table[i] \in Processes /\ owner[i] = table[i].uid
      BY <1>1, <1>2, <2>1 DEF TableSafe, TableTypeOK
    <3> QED
      BY <1>1, <3>1 DEF Processes
  <2>2. CASE record[i] # None
    <3>1. record[i] \in Records /\ owner[i] = record[i].uid
      BY <1>1, <1>2, <2>2 DEF TableSafe, TableTypeOK
    <3> QED
      BY <1>1, <3>1 DEF Records
  <2> QED
    BY <2>1, <2>2
<1>5. IdOf[owner[i]] = i /\ launches[owner[i]] > 0 /\ owner[i] \in Uids
  BY <1>1, <1>2, <1>3, <1>4 DEF TableSafe
<1>6. owner[i] = e
  BY <1>5 DEF NamesUnique
<1> QED
  BY <1>5, <1>6

\* The phases of a process.
LEMMA ProcessPhases ==
  ASSUME IInv, NEW i \in Ids
  PROVE  /\ table[i] # None => table[i] \in Processes /\ table[i].phase \in Phases /\ table[i].uid \in Uids
         /\ record[i] # None => record[i] \in Records /\ record[i].phase \in Phases \cup {"Lost"} /\ record[i].uid \in Uids
         /\ Phases \subseteq Outcomes /\ Ended \subseteq TerminalPhases
<1>1. table[i] \in Processes \cup {None} /\ record[i] \in Records \cup {None}
  BY DEF IInv, TableSafe, TableTypeOK
<1>2. Phases \subseteq Outcomes /\ Ended \subseteq TerminalPhases
  BY DEF Phases, Ended, Outcomes, TerminalPhases
<1>3. \A p \in Processes : p.phase \in Phases /\ p.uid \in Uids
  BY DEF Processes
<1>4. \A r \in Records : r.phase \in Phases \cup {"Lost"} /\ r.uid \in Uids
  BY DEF Records
<1> QED
  BY <1>1, <1>2, <1>3, <1>4

\* BeginInspect: a running process gives its Secret back.
LEMMA BeginInspectMove ==
  ASSUME IInv, NEW e \in Uids, BeginInspect(e)
  PROVE  ExecMove(e)
<1>1. Working(e) /\ View(e).phase = "Running" /\ GoTo(e, "inspect")
  BY DEF BeginInspect
<1>2. UNCHANGED load /\ UNCHANGED now /\ UNCHANGED obj /\ UNCHANGED seen /\ UNCHANGED born /\ UNCHANGED launches
  BY DEF BeginInspect, Outside, tableVars, worldVars
<1>3. pass \in [Uids -> Passes] /\ TimesPast(e) /\ secret \in [Uids -> BOOLEAN]
  BY ExecParts DEF IInv, ExecTypes
<1>4. "inspect" \in Steps /\ "inspect" \notin StartSteps
  BY DEF Steps, StartSteps
<1>5. /\ pass' \in [Uids -> Passes] /\ \A f \in Uids \ {e} : pass'[f] = pass[f]
      /\ pass'[e].at = "inspect" /\ pass'[e].copy = pass[e].copy
  BY <1>1, <1>3, <1>4, PassGoes
<1>6. e \in born /\ (obj[e] # None => obj[e].fin)
  BY <1>1, WorkingFacts
<1>7. ~load.lag => ~Waiting(obj[e])
  BY <1>1, ViewParts DEF Waiting
<1>8. secret' \in [Uids -> BOOLEAN] /\ \A f \in Uids \ {e} : secret'[f] = secret[f]
  BY <1>3 DEF BeginInspect, ReleaseSecret
<1>9. CopyFits(e)' /\ ClockCopied(e)'
  BY <1>5 DEF CopyFits, ClockCopied, StopSteps
<1>10. pass'[e].copy # None => pass'[e].copy.doneAt <= now
  BY <1>3, <1>5 DEF TimesPast
<1> QED
  BY <1>2, <1>4, <1>5, <1>6, <1>7, <1>8, <1>9, <1>10, PassOnly DEF ExecMove

\* Release: so does one that was just started.
LEMMA ReleaseMove ==
  ASSUME IInv, NEW e \in Uids, Release(e)
  PROVE  ExecMove(e)
<1>1. pass[e].at = "release" /\ GiveUp(e)
  BY DEF Release
<1>2. UNCHANGED load /\ UNCHANGED now /\ UNCHANGED obj /\ UNCHANGED seen /\ UNCHANGED born /\ UNCHANGED launches
  BY DEF Release, Outside, tableVars, worldVars
<1>3. pass \in [Uids -> Passes] /\ StartFits(e) /\ secret \in [Uids -> BOOLEAN]
  BY ExecParts DEF IInv, ExecTypes
<1>4. Rest \in Passes /\ Rest.at = "idle" /\ Rest.copy = None
  BY DEF Rest, Passes, Steps
<1>5. pass' \in [Uids -> Passes] /\ pass'[e] = Rest /\ \A f \in Uids \ {e} : pass'[f] = pass[f]
  BY <1>1, <1>3, <1>4 DEF GiveUp
<1>6. e \in born /\ (~load.lag => ~Waiting(obj[e]))
  BY <1>1, <1>3, PassRuns DEF StartFits
<1>7. secret' \in [Uids -> BOOLEAN] /\ \A f \in Uids \ {e} : secret'[f] = secret[f]
  BY <1>3 DEF Release, ReleaseSecret
<1>8. CopyFits(e)' /\ ClockCopied(e)'
  BY <1>4, <1>5 DEF CopyFits, ClockCopied, StopSteps
<1>9. pass'[e].at = "idle" /\ pass'[e].copy = None /\ "idle" \notin StartSteps
  BY <1>4, <1>5 DEF StartSteps
<1> QED
  BY <1>2, <1>5, <1>6, <1>7, <1>8, <1>9, PassOnly DEF ExecMove

\* The answer of a stop becomes the outcome of the pass, or of the finalizer,
\* which gives up when something runs.
LEMMA StopAnswerMove ==
  ASSUME IInv, NEW e \in Uids, Still, pass[e].at \in {"stop", "stopping", "finalStop", "finalStopping"},
         NEW y \in Outcomes, StopAnswer(e, y), NamesUnique /\ y \in Settled => launches[e] > 0
  PROVE  ExecMove(e)
<1>1. \/ GiveUp(e)
      \/ GoWith(e, "apply", y)
      \/ GoWith(e, "settle", y) /\ y \in TerminalPhases /\ pass[e].at \in StopSteps
  BY DEF StopAnswer, StopSteps, Outcomes
<1>2. e \in born /\ (obj[e] # None => obj[e].fin)
  BY PassRuns
<1> QED
  BY <1>1, <1>2, OutcomeMove, GiveUpMove

\* SendStop: the supervisor does not know the process, or is asked to stop it.
LEMMA SendStopMove ==
  ASSUME IInv, NEW e \in Uids, SendStop(e)
  PROVE  ExecMove(e)
<1>1. pass[e].at \in {"stop", "finalStop"}
  BY DEF SendStop
<1>2. Still
  BY DEF SendStop, KeepRecords, Still, worldVars
<1>3. CASE StopAnswer(e, "Lost")
  <2>1. "Lost" \in Outcomes /\ "Lost" \notin Settled
    BY DEF Outcomes, TerminalPhases, Settled
  <2> QED
    BY <1>1, <1>2, <1>3, <2>1, StopAnswerMove
<1>4. ASSUME NEW x \in {"stopping", "finalStopping"}, GoTo(e, x), x = "finalStopping" => pass[e].at = "finalStop"
      PROVE  ExecMove(e)
  <2>1. pass \in [Uids -> Passes] /\ TimesPast(e) /\ StartFits(e) /\ CopyFits(e) /\ secret \in [Uids -> BOOLEAN]
    BY ExecParts DEF IInv, ExecTypes
  <2>2. x \in Steps /\ x \notin StartSteps /\ x \notin {"idle", "release", "apply", "settle"}
    BY <1>4 DEF Steps, StartSteps
  <2>3. /\ pass' \in [Uids -> Passes] /\ \A f \in Uids \ {e} : pass'[f] = pass[f]
        /\ pass'[e].at = x /\ pass'[e].copy = pass[e].copy
    BY <1>4, <2>1, <2>2, PassGoes
  <2>4. UNCHANGED load /\ UNCHANGED now /\ UNCHANGED obj /\ UNCHANGED seen /\ UNCHANGED born /\ UNCHANGED secret
        /\ UNCHANGED launches
    BY <1>2 DEF Still
  <2>5. CopyFits(e)'
    BY <1>4, <2>1, <2>3, <2>4 DEF CopyFits, StopSteps, Terminal
  <2>6. ClockCopied(e)'
    BY <1>4, <2>3 DEF ClockCopied
  <2>7. e \in born /\ (obj[e] # None => obj[e].fin)
    BY <1>1, PassRuns
  <2>8. ~load.lag /\ ~secret'[e] => ~Waiting(obj[e]) /\ e \in born
    BY <2>1, <2>4 DEF StartFits
  <2>9. pass'[e].copy # None => pass'[e].copy.doneAt <= now
    BY <2>1, <2>3 DEF TimesPast
  <2> QED
    BY <2>1, <2>2, <2>3, <2>4, <2>5, <2>6, <2>7, <2>8, <2>9, PassOnly DEF ExecMove
<1>5. ASSUME table[IdOf[e]] # None, StopAnswer(e, table[IdOf[e]].phase)
      PROVE  ExecMove(e)
  <2>1. table[IdOf[e]].phase \in Outcomes
    BY <1>5, ProcessPhases, IdsAssumption
  <2>2. NamesUnique => launches[e] > 0
    BY <1>5, NamedIsOwn
  <2> QED
    BY <1>1, <1>2, <1>5, <2>1, <2>2, StopAnswerMove
<1>6. \/ StopAnswer(e, "Lost")
      \/ table[IdOf[e]] # None /\ StopAnswer(e, table[IdOf[e]].phase)
      \/ \E x \in {"stopping", "finalStopping"} : GoTo(e, x) /\ (x = "finalStopping" => pass[e].at = "finalStop")
  BY <1>1 DEF SendStop
<1> QED
  BY <1>3, <1>4, <1>5, <1>6

\* What is reported under the name of e is about a start of its own.
LEMMA ReportedIsOwn ==
  ASSUME IInv, NEW e \in Uids
  PROVE  /\ Reported(IdOf[e]) \in Outcomes
         /\ NamesUnique /\ Reported(IdOf[e]) \in Settled => launches[e] > 0
<1> DEFINE i == IdOf[e]
           y == Reported(i)
<1>1. i \in Ids
  BY IdsAssumption
<1>2. CASE table[i] # None
  <2>1. y = table[i].phase
    BY <1>2 DEF Reported, Found, Inspected
  <2> QED
    BY <1>1, <1>2, <2>1, ProcessPhases, NamedIsOwn
<1>3. CASE table[i] = None /\ record[i] # None /\ record[i].phase \in Ended
  <2>1. y = record[i].phase
    BY <1>3 DEF Reported, Found, Inspected
  <2>2. Ended \subseteq Outcomes
    BY DEF Ended, Outcomes, TerminalPhases
  <2> QED
    BY <1>3, <2>1, <2>2, NamedIsOwn
<1>4. CASE table[i] = None /\ ~(record[i] # None /\ record[i].phase \in Ended)
  <2>1. y = "Lost"
    BY <1>4 DEF Reported, Found
  <2> QED
    BY <2>1 DEF Outcomes, TerminalPhases, Settled
<1> QED
  BY <1>2, <1>3, <1>4

\* StopAnswered: the process that was asked to stop has ended.
LEMMA StopAnsweredMove ==
  ASSUME IInv, NEW e \in Uids, StopAnswered(e)
  PROVE  ExecMove(e)
<1>1. pass[e].at \in {"stopping", "finalStopping"} /\ Still /\ StopAnswer(e, Reported(IdOf[e]))
  BY StillKept DEF StopAnswered
<1> QED
  BY <1>1, ReportedIsOwn, StopAnswerMove

\* Inspect: what the supervisor shows under the name.
LEMMA InspectMove ==
  ASSUME IInv, NEW e \in Uids, Inspect(e)
  PROVE  ExecMove(e)
<1> DEFINE i == IdOf[e]
           y == Reported(i)
<1>1. pass[e].at = "inspect" /\ View(e) # None /\ Still /\ GoFinding(e, "apply", View(e).pod, y)
  BY StillKept DEF Inspect, GoFinding
<1>2. i \in Ids
  BY IdsAssumption
<1>3. y \in Outcomes /\ (NamesUnique /\ y \in Settled => launches[e] > 0)
  BY ReportedIsOwn
<1> HIDE DEF y
<1>4. /\ pass \in [Uids -> Passes] /\ TimesPast(e) /\ StartFits(e) /\ secret \in [Uids -> BOOLEAN]
      /\ View(e).pod \in Nat
  BY <1>1, ExecParts, ViewParts DEF IInv, ExecTypes
<1>5. "apply" \in Steps /\ "apply" \notin StartSteps /\ y \in Outcomes \cup {"none"}
  BY <1>3 DEF Steps, StartSteps
<1>6. /\ pass' \in [Uids -> Passes] /\ \A f \in Uids \ {e} : pass'[f] = pass[f]
      /\ pass'[e].at = "apply" /\ pass'[e].copy = pass[e].copy /\ pass'[e].result = y
  BY <1>1, <1>4, <1>5, PassFinds
<1>7. UNCHANGED load /\ UNCHANGED now /\ UNCHANGED obj /\ UNCHANGED seen /\ UNCHANGED born /\ UNCHANGED secret
      /\ UNCHANGED launches
  BY <1>1 DEF Still
<1>8. CopyFits(e)' /\ ClockCopied(e)'
  BY <1>3, <1>6 DEF CopyFits, ClockCopied, StopSteps
<1>9. e \in born /\ (obj[e] # None => obj[e].fin)
  BY <1>1, PassRuns
<1>10. ~load.lag /\ ~secret'[e] => ~Waiting(obj[e]) /\ e \in born
  BY <1>4, <1>7 DEF StartFits
<1>11. pass'[e].copy # None => pass'[e].copy.doneAt <= now
  BY <1>4, <1>6 DEF TimesPast
<1>12. NamesUnique /\ pass'[e].at \in {"apply", "settle"} /\ pass'[e].result \in Settled => launches'[e] > 0
  BY <1>3, <1>6, <1>7
<1>13. pass'[e].at \notin StartSteps /\ pass'[e].at # "release"
  BY <1>5, <1>6
<1> QED
  BY <1>4, <1>6, <1>7, <1>8, <1>9, <1>10, <1>11, <1>12, <1>13, PassOnly DEF ExecMove

\* BeginFinalize: the pass keeps the record it is going to remove.
LEMMA BeginFinalizeMove ==
  ASSUME IInv, NEW e \in Uids, BeginFinalize(e)
  PROVE  ExecMove(e)
<1>1. pass[e].at = "idle" /\ View(e) # None /\ View(e).fin /\ Still
  BY StillKept DEF BeginFinalize, Idle
<1>2. PICK x \in {"preserve", "settle", "finalStop"} :
        GoFinalizing(e, View(e), x, "Lost") /\ (x # "preserve" => MustStop(View(e)))
  BY DEF BeginFinalize, GoFinalizing
<1>3. /\ pass \in [Uids -> Passes] /\ StartFits(e) /\ secret \in [Uids -> BOOLEAN]
      /\ View(e) \in ExecRecords \cup {None}
  BY ExecParts, ViewParts DEF IInv, ExecTypes
<1>4. x \in Steps /\ x \notin StartSteps /\ "Lost" \in Outcomes /\ "Lost" \in TerminalPhases
  BY DEF Steps, StartSteps, Outcomes, TerminalPhases
<1>5. "Lost" \in Outcomes \cup {"none"}
  BY <1>4
<1>6. /\ pass' \in [Uids -> Passes] /\ \A f \in Uids \ {e} : pass'[f] = pass[f]
      /\ pass'[e].at = x /\ pass'[e].copy = View(e) /\ pass'[e].result = "Lost"
  BY <1>2, <1>3, <1>4, <1>5, PassFinalizes
<1>7. UNCHANGED load /\ UNCHANGED now /\ UNCHANGED obj /\ UNCHANGED seen /\ UNCHANGED born /\ UNCHANGED secret
      /\ UNCHANGED launches
  BY <1>1 DEF Still
<1>8. CopyFits(e)'
  <2>1. load.lag => View(e) = seen[e]
    BY ViewParts
  <2>2. x # "preserve" => ~Terminal(View(e))
    BY <1>2 DEF MustStop
  <2> QED
    BY <1>1, <1>4, <1>6, <1>7, <2>1, <2>2 DEF CopyFits, StopSteps, Terminal
<1>9. ClockCopied(e)'
  BY <1>2, <1>6 DEF ClockCopied
<1>10. e \in born /\ (obj[e] # None => obj[e].fin)
  BY <1>1, PassBegins
<1>11. ~load.lag /\ ~secret'[e] => ~Waiting(obj[e]) /\ e \in born
  BY <1>3, <1>7 DEF StartFits
<1>12. pass'[e].copy # None => pass'[e].copy.doneAt <= now
  BY <1>6, ViewParts
<1>13. "Lost" \notin Settled /\ pass'[e].at # "release"
  BY <1>2, <1>6 DEF Settled
<1> QED
  BY <1>3, <1>4, <1>6, <1>7, <1>8, <1>9, <1>10, <1>11, <1>12, <1>13, PassOnly DEF ExecMove

-----------------------------------------------------------------------------
(* Steps that mark, create or show a record.                               *)

\* A record that is deleted is marked, or goes when nothing holds it.
LEMMA DeletedMarks ==
  ASSUME NEW e \in Uids, obj[e] \in ExecRecords, obj'[e] = Deleted(obj[e])
  PROVE  Marked(e) /\ obj'[e] \in ExecRecords \cup {None}
<1>1. CASE obj[e].fin
  <2>1. obj'[e] = [obj[e] EXCEPT !.deleting = TRUE]
    BY <1>1 DEF Deleted
  <2>2. /\ obj'[e] \in ExecRecords /\ obj'[e].phase = obj[e].phase /\ obj'[e].doneAt = obj[e].doneAt
        /\ obj'[e].fin = obj[e].fin /\ obj'[e].owned = obj[e].owned
    BY <2>1, DeletionMarked, Zenon
  <2>3. obj[e] # None /\ obj'[e] # None
    BY <2>2, LifecycleAssumption
  <2> QED
    BY <2>2, <2>3, Zenon DEF Marked
<1>2. CASE ~obj[e].fin
  <2>1. obj'[e] = None /\ obj[e] # None
    BY <1>2, LifecycleAssumption DEF Deleted
  <2> QED
    BY <1>2, <2>1 DEF Marked
<1> QED
  BY <1>1, <1>2

\* A record of e that keeps its outcome.
LEMMA MarkMove ==
  ASSUME IInv, NEW e \in Uids, UNCHANGED <<load, now, seen, born, pass, launches, ws>>,
         obj' \in [Uids -> ExecRecords \cup {None}], \A f \in Uids \ {e} : obj'[f] = obj[f], Marked(e),
         secret' \in [Uids -> BOOLEAN], \A f \in Uids \ {e} : secret'[f] = secret[f],
         ~load.lag /\ ~secret'[e] => ~secret[e] \/ (e \in born /\ ~Waiting(obj[e]))
  PROVE  ExecMove(e)
<1>1. UNCHANGED load /\ UNCHANGED now /\ UNCHANGED seen /\ UNCHANGED born /\ UNCHANGED pass
      /\ UNCHANGED launches /\ UNCHANGED ws
  OBVIOUS
<1>2. ExecTypes'
  BY <1>1 DEF IInv, ExecTypes
<1>3. now \in Nat /\ ws.lastDone \in Nat
  BY DEF IInv, WorldTypes, WorkspaceTypes, Workspaces
<1>4. ExecSafe(e)'
  BY <1>1, <1>3, ExecFrame
<1>5. RecordStep(e)
  BY DEF RecordStep
<1>6. Alone(e)
  BY <1>1 DEF Alone
<1> QED
  BY <1>2, <1>4, <1>5, <1>6 DEF ExecMove

\* AskToStop, AddFinalizer: a flag of the record.
LEMMA FlagMove ==
  ASSUME IInv, NEW e \in Uids, AskToStop(e) \/ AddFinalizer(e)
  PROVE  ExecMove(e)
<1>1. UNCHANGED <<load, now, seen, born, pass, launches, ws>> /\ secret' = secret
  BY DEF AskToStop, AddFinalizer, Outside, tableVars, worldVars
<1>2. obj \in [Uids -> ExecRecords \cup {None}] /\ secret \in [Uids -> BOOLEAN]
  BY DEF IInv, ExecTypes
<1>3. obj[e] # None
  <2>1. CASE AskToStop(e)
    BY <2>1 DEF AskToStop, Exists
  <2>2. CASE AddFinalizer(e)
    BY <2>2 DEF AddFinalizer, Idle
  <2> QED
    BY <2>1, <2>2
<1>4. PICK r : r = obj[e] /\ r \in ExecRecords
  BY <1>2, <1>3
<1>5. PICK u \in ExecRecords : /\ obj' = [obj EXCEPT ![e] = u] /\ u.phase = r.phase /\ u.doneAt = r.doneAt
                               /\ (r.fin => u.fin) /\ (r.owned => u.owned)
  <2>1. CASE AskToStop(e)
    <3> DEFINE v == [r EXCEPT !.stop = TRUE]
    <3>1. obj' = [obj EXCEPT ![e] = v]
      BY <1>4, <2>1 DEF AskToStop
    <3>2. /\ v \in ExecRecords /\ v.phase = r.phase /\ v.doneAt = r.doneAt
          /\ v.fin = r.fin /\ v.owned = r.owned
      BY <1>4, StopMarked, Zenon
    <3> HIDE DEF v
    <3>3. (r.fin => v.fin) /\ (r.owned => v.owned)
      BY <3>2, Zenon
    <3> QED
      BY <3>1, <3>2, <3>3
  <2>2. CASE AddFinalizer(e)
    <3> DEFINE v == [r EXCEPT !.fin = TRUE]
    <3>1. obj' = [obj EXCEPT ![e] = v]
      BY <1>4, <2>2 DEF AddFinalizer
    <3>2. /\ v \in ExecRecords /\ v.phase = r.phase /\ v.doneAt = r.doneAt
          /\ v.fin = TRUE /\ v.owned = r.owned
      BY <1>4, FinalizerAdded, Zenon
    <3> HIDE DEF v
    <3>3. (r.fin => v.fin) /\ (r.owned => v.owned)
      BY <3>2, Zenon
    <3> QED
      BY <3>1, <3>2, <3>3
  <2> QED
    BY <2>1, <2>2
<1>6. obj' \in [Uids -> ExecRecords \cup {None}] /\ obj'[e] = u /\ \A f \in Uids \ {e} : obj'[f] = obj[f]
  BY <1>2, <1>5
<1>7. u # None
  BY LifecycleAssumption
<1>8. Marked(e)
  BY <1>3, <1>4, <1>5, <1>6, <1>7, Zenon DEF Marked
<1> QED
  BY <1>1, <1>2, <1>6, <1>8, MarkMove

\* Delete: a user deletes the record.
LEMMA DeleteMove ==
  ASSUME IInv, NEW e \in Uids, Delete(e)
  PROVE  ExecMove(e)
<1>1. UNCHANGED <<load, now, seen, born, pass, launches, ws>> /\ secret' = secret
  BY DEF Delete, Outside, tableVars, worldVars
<1>2. obj \in [Uids -> ExecRecords \cup {None}] /\ secret \in [Uids -> BOOLEAN]
  BY DEF IInv, ExecTypes
<1>3. obj[e] \in ExecRecords /\ obj' = [obj EXCEPT ![e] = Deleted(obj[e])]
  BY <1>2 DEF Delete, Exists
<1>4. obj'[e] = Deleted(obj[e]) /\ \A f \in Uids \ {e} : obj'[f] = obj[f]
  BY <1>2, <1>3
<1>5. Marked(e) /\ obj'[e] \in ExecRecords \cup {None}
  BY <1>3, <1>4, DeletedMarks
<1>6. obj' \in [Uids -> ExecRecords \cup {None}]
  BY <1>2, <1>3, <1>4, <1>5
<1> QED
  BY <1>1, <1>2, <1>4, <1>5, <1>6, MarkMove

\* Expire: a result gives its Secret back and is deleted after its window.
LEMMA ExpireMove ==
  ASSUME IInv, NEW e \in Uids, Expire(e)
  PROVE  ExecMove(e)
<1>1. UNCHANGED <<load, now, seen, born, pass, launches, ws>> /\ View(e) # None /\ Terminal(View(e))
  BY DEF Expire, Outside, tableVars, worldVars, Idle
<1>2. obj \in [Uids -> ExecRecords \cup {None}] /\ secret \in [Uids -> BOOLEAN]
  BY DEF IInv, ExecTypes
<1>3. secret' \in [Uids -> BOOLEAN] /\ \A f \in Uids \ {e} : secret'[f] = secret[f]
  BY <1>2 DEF Expire, ReleaseSecret
<1>4. /\ obj' \in [Uids -> ExecRecords \cup {None}] /\ \A f \in Uids \ {e} : obj'[f] = obj[f]
      /\ Marked(e)
  <2>1. CASE obj' = obj
    BY <1>2, <2>1 DEF Marked
  <2>2. CASE obj' # obj
    <3>1. obj[e] \in ExecRecords /\ obj' = [obj EXCEPT ![e] = Deleted(obj[e])]
      BY <1>2, <2>2 DEF Expire, Exists
    <3>2. obj'[e] = Deleted(obj[e]) /\ \A f \in Uids \ {e} : obj'[f] = obj[f]
      BY <1>2, <3>1
    <3>3. Marked(e) /\ obj'[e] \in ExecRecords \cup {None}
      BY <3>1, <3>2, DeletedMarks
    <3> QED
      BY <1>2, <3>1, <3>2, <3>3
  <2> QED
    BY <2>1, <2>2
<1>5. ~load.lag => e \in born /\ ~Waiting(obj[e])
  <2>1. ~load.lag => View(e) = obj[e] /\ e \in born
    BY <1>1, ViewParts
  <2>2. Terminal(View(e)) => ~Waiting(View(e))
    BY DEF Terminal, Waiting, TerminalPhases
  <2> QED
    BY <1>1, <2>1, <2>2
<1> QED
  BY <1>1, <1>3, <1>4, <1>5, MarkMove

\* Create: a new record, whose name nobody else uses.
LEMMA CreateMove ==
  ASSUME IInv, NEW e \in Uids, Create(e)
  PROVE  ExecMove(e)
<1>1. /\ e \notin born /\ born' = born \cup {e} /\ obj' = [obj EXCEPT ![e] = NewExec]
      /\ UNCHANGED load /\ UNCHANGED now /\ UNCHANGED seen /\ UNCHANGED pass /\ UNCHANGED launches
      /\ UNCHANGED ws /\ UNCHANGED secret
  BY DEF Create, Outside, tableVars, worldVars
<1>2. /\ Finalized(e) /\ TimesPast(e) /\ StartFits(e) /\ CopyFits(e) /\ OutcomeTrue(e) /\ now \in Nat
      /\ ExecTypes
  BY ExecParts DEF IInv
<1>3. obj[e] = None /\ seen[e] = None /\ pass[e].at = "idle"
  BY <1>1, <1>2 DEF Finalized
<1>4. NewExec \in ExecRecords /\ NewExec.phase = "Pending" /\ NewExec.doneAt = 0
  <2>1. PICK b \in BOOLEAN : b = ~load.direct
    OBVIOUS
  <2>2. NewExec = [phase |-> "Pending", pod |-> 0, stop |-> FALSE, deleting |-> FALSE,
                   fin |-> FALSE, owned |-> b, doneAt |-> 0]
    BY <2>1 DEF NewExec
  <2> QED
    BY <2>2 DEF ExecRecords
<1>5. obj'[e] = NewExec /\ obj' \in [Uids -> ExecRecords \cup {None}] /\ \A f \in Uids \ {e} : obj'[f] = obj[f]
  BY <1>1, <1>2, <1>4 DEF ExecTypes
<1>6. ExecTypes' /\ Alone(e) /\ RecordStep(e)
  BY <1>1, <1>2, <1>5 DEF ExecTypes, Alone, RecordStep
<1>7. Finalized(e)' /\ TimesPast(e)'
  BY <1>1, <1>2, <1>3, <1>4, <1>5 DEF Finalized, TimesPast
<1>8. StartFits(e)'
  BY <1>1, <1>2, <1>3 DEF StartFits, StartSteps
<1>9. CopyFits(e)' /\ ClockCopied(e)'
  BY <1>1, <1>3 DEF CopyFits, ClockCopied, StopSteps
<1>10. OutcomeTrue(e)'
  BY <1>1, <1>3, <1>4, <1>5 DEF OutcomeTrue, Settled
<1> QED
  BY <1>6, <1>7, <1>8, <1>9, <1>10 DEF ExecMove, ExecSafe

\* Sync: the cache shows the record.
LEMMA SyncMove ==
  ASSUME IInv, NEW e \in Uids, Sync(e)
  PROVE  ExecMove(e)
<1>1. /\ load.lag /\ seen' = [seen EXCEPT ![e] = obj[e]]
      /\ UNCHANGED load /\ UNCHANGED now /\ UNCHANGED obj /\ UNCHANGED born /\ UNCHANGED pass
      /\ UNCHANGED launches /\ UNCHANGED ws /\ UNCHANGED secret
  BY DEF Sync, Outside, tableVars, worldVars
<1>2. /\ Finalized(e) /\ TimesPast(e) /\ CopyFits(e) /\ OutcomeTrue(e) /\ ClockCopied(e) /\ ExecTypes
  BY ExecParts DEF IInv
<1>3. seen'[e] = obj[e] /\ seen' \in [Uids -> ExecRecords \cup {None}] /\ \A f \in Uids \ {e} : seen'[f] = seen[f]
  BY <1>1, <1>2 DEF ExecTypes
<1>4. ExecTypes' /\ Alone(e) /\ RecordStep(e)
  BY <1>1, <1>2, <1>3 DEF ExecTypes, Alone, RecordStep, Marked
<1>5. Finalized(e)' /\ TimesPast(e)'
  BY <1>1, <1>2, <1>3 DEF Finalized, TimesPast
<1>6. StartFits(e)'
  BY <1>1 DEF StartFits
<1>7. CopyFits(e)'
  BY <1>1, <1>2, <1>3 DEF CopyFits, Terminal
<1>8. ClockCopied(e)' /\ OutcomeTrue(e)'
  BY <1>1, <1>2 DEF ClockCopied, OutcomeTrue, NamesUnique
<1> QED
  BY <1>4, <1>5, <1>6, <1>7, <1>8 DEF ExecMove, ExecSafe

-----------------------------------------------------------------------------
(* Steps of a pass that write the record.                                  *)

\* The pass writes a state and ends, or goes on.
LEMMA StateMove ==
  ASSUME IInv, NEW e \in Uids, obj[e] # None, pass[e].at # "idle",
         UNCHANGED <<load, now, seen, born, secret, launches, ws>>,
         NEW r \in ExecRecords, obj' = [obj EXCEPT ![e] = r],
         r.fin = obj[e].fin, r.owned = obj[e].owned, r.doneAt \in {obj[e].doneAt, now},
         ~Terminal(obj[e]) \/ (load.lag /\ r.phase = "Pending"),
         ~load.lag /\ ~secret[e] => ~Waiting(r),
         NamesUnique /\ r.phase \in Settled => launches[e] > 0,
         pass' \in [Uids -> Passes], \A f \in Uids \ {e} : pass'[f] = pass[f],
         pass'[e].at \in {"idle", "admit", "release", "preserve"},
         pass'[e].at = "preserve" => pass'[e].copy # None,
         pass'[e].copy # None => pass'[e].copy.doneAt <= now,
         ~load.lag /\ pass'[e].at = "admit" => Waiting(r),
         ~load.lag /\ pass'[e].at = "release" => ~Waiting(r)
  PROVE  ExecMove(e)
<1>1. UNCHANGED load /\ UNCHANGED now /\ UNCHANGED seen /\ UNCHANGED born /\ UNCHANGED secret
      /\ UNCHANGED launches /\ UNCHANGED ws
  OBVIOUS
<1>2. /\ Finalized(e) /\ TimesPast(e) /\ StartFits(e) /\ OutcomeTrue(e) /\ ExecTypes /\ now \in Nat
      /\ obj[e].doneAt \in Nat
  BY ExecParts DEF IInv
<1>3. obj'[e] = r /\ obj' \in [Uids -> ExecRecords \cup {None}] /\ \A f \in Uids \ {e} : obj'[f] = obj[f]
  BY <1>2 DEF ExecTypes
<1>4. r # None
  BY LifecycleAssumption
<1>5. ExecTypes' /\ Alone(e)
  BY <1>1, <1>2, <1>3 DEF ExecTypes, Alone
<1>6. RecordStep(e)
  <2>1. StateWritten(e)
    BY <1>3, <1>4 DEF StateWritten
  <2> QED
    BY <2>1 DEF RecordStep
<1>7. obj[e].fin /\ e \in born
  BY <1>2 DEF Finalized
<1>8. Finalized(e)'
  <2>1. obj'[e].fin
    BY <1>3, <1>7, Zenon
  <2> QED
    BY <1>1, <1>7, <2>1 DEF Finalized
<1>9. TimesPast(e)'
  BY <1>1, <1>2, <1>3 DEF TimesPast
<1>10. StartFits(e)'
  <2>1. ~load.lag /\ pass'[e].at \in StartSteps => Waiting(obj[e])'
    BY <1>3 DEF StartSteps
  <2>2. ~load.lag /\ pass'[e].at = "release" => ~Waiting(obj[e])'
    BY <1>3
  <2>3. ~load.lag /\ ~secret'[e] => e \in born' /\ ~Waiting(obj[e])'
    BY <1>1, <1>3, <1>7
  <2> QED
    BY <1>1, <2>1, <2>2, <2>3 DEF StartFits
<1>11. CopyFits(e)' /\ ClockCopied(e)'
  BY DEF CopyFits, ClockCopied, StopSteps
<1>12. OutcomeTrue(e)'
  BY <1>1, <1>3 DEF OutcomeTrue, NamesUnique
<1> QED
  BY <1>5, <1>6, <1>8, <1>9, <1>10, <1>11, <1>12 DEF ExecMove, ExecSafe

\* A refused update ends the pass.
LEMMA RefusedMove ==
  ASSUME IInv, NEW e \in Uids, Outside, UNCHANGED <<born, seen, secret>>, UNCHANGED obj, GiveUp(e)
  PROVE  ExecMove(e)
BY StillOutside, GiveUpMove

\* GiveUp leaves a pass at rest.
LEMMA AtRest ==
  ASSUME IInv, NEW e \in Uids, GiveUp(e)
  PROVE  /\ pass' \in [Uids -> Passes] /\ \A f \in Uids \ {e} : pass'[f] = pass[f]
         /\ pass'[e].at = "idle" /\ pass'[e].copy = None
<1>1. Rest \in Passes /\ Rest.at = "idle" /\ Rest.copy = None
  BY DEF Rest, Passes, Steps
<1>2. pass \in [Uids -> Passes] /\ pass' = [pass EXCEPT ![e] = Rest]
  BY DEF IInv, ExecTypes, GiveUp
<1>3. pass' \in [Uids -> Passes] /\ pass'[e] = Rest /\ \A f \in Uids \ {e} : pass'[f] = pass[f]
  BY <1>1, <1>2
<1> QED
  BY <1>1, <1>3

\* Pend: the execution waits for its target.
LEMMA PendMove ==
  ASSUME IInv, NEW e \in Uids, Pend(e)
  PROVE  ExecMove(e)
<1>1. /\ pass[e].at = "pend" /\ View(e) # None /\ Outside /\ UNCHANGED <<born, seen, secret>>
  BY DEF Pend, Update
<1>2. CASE View(e) # obj[e]
  <2>1. UNCHANGED obj /\ GiveUp(e)
    BY <1>2 DEF Pend, Update
  <2> QED
    BY <1>1, <2>1, RefusedMove
<1>3. CASE View(e) = obj[e]
  <2>0. PICK v \in ExecRecords : v = View(e)
    BY <1>1, ViewParts
  <2> DEFINE r == [v EXCEPT !.phase = "Pending"]
  <2>1. obj' = [obj EXCEPT ![e] = r] /\ GiveUp(e)
    BY <1>3, <2>0 DEF Pend, Update
  <2>2. obj[e] # None /\ obj[e] \in ExecRecords /\ "Pending" \in AllPhases /\ StartFits(e)
    BY <1>1, <1>3, ExecParts DEF AllPhases
  <2>a. /\ r \in ExecRecords /\ r.phase = "Pending" /\ r.fin = v.fin /\ r.owned = v.owned
        /\ r.doneAt = v.doneAt
    BY <2>2, PhaseWritten, Zenon
  <2> HIDE DEF r
  <2>3. /\ r \in ExecRecords /\ r.phase = "Pending" /\ r.fin = obj[e].fin /\ r.owned = obj[e].owned
        /\ r.doneAt = obj[e].doneAt
    BY <1>3, <2>0, <2>a, Zenon
  <2>4. UNCHANGED <<load, now, seen, born, secret, launches, ws>>
    BY <1>1 DEF Outside, tableVars, worldVars
  <2>5. ~load.lag => Waiting(obj[e]) /\ secret[e]
    BY <1>1, <2>2 DEF StartFits, StartSteps
  <2>6. ~Terminal(obj[e]) \/ load.lag
    BY <2>5 DEF Waiting, Terminal, TerminalPhases
  <2>7. r.phase \notin Settled
    BY <2>3 DEF Settled
  <2>8. /\ pass' \in [Uids -> Passes] /\ \A f \in Uids \ {e} : pass'[f] = pass[f]
        /\ pass'[e].at = "idle" /\ pass'[e].copy = None
    BY <2>1, AtRest
  <2> QED
    BY <1>1, <2>1, <2>2, <2>3, <2>4, <2>5, <2>6, <2>7, <2>8, StateMove
<1> QED
  BY <1>2, <1>3

\* ClaimRuntime: the execution is bound to a Pod.
LEMMA ClaimRuntimeMove ==
  ASSUME IInv, NEW e \in Uids, ClaimRuntime(e)
  PROVE  ExecMove(e)
<1>1. /\ pass[e].at = "claim" /\ View(e) # None /\ ~Terminal(View(e)) /\ Outside /\ UNCHANGED <<born, seen, secret>>
  BY DEF ClaimRuntime, Update
<1>2. CASE View(e) # obj[e]
  <2>1. UNCHANGED obj /\ GiveUp(e)
    BY <1>2 DEF ClaimRuntime, Update
  <2> QED
    BY <1>1, <2>1, RefusedMove
<1>3. CASE View(e) = obj[e]
  <2>0. PICK v \in ExecRecords : v = View(e)
    BY <1>1, ViewParts
  <2>n. PICK n \in Nat : n = pass[e].pod
    BY ExecParts
  <2> DEFINE r == ClaimedAs(v, "Starting", n)
  <2>1. obj' = [obj EXCEPT ![e] = r] /\ GoTo(e, "admit")
    BY <1>3, <2>0, <2>n DEF ClaimRuntime, Update, ClaimedAs
  <2>2. /\ obj[e] # None /\ obj[e] \in ExecRecords /\ "Starting" \in AllPhases /\ StartFits(e)
        /\ pass[e].pod \in Nat /\ TimesPast(e)
    BY <1>1, <1>3, ExecParts DEF AllPhases
  <2>a. /\ r \in ExecRecords /\ r.phase = "Starting" /\ r.fin = v.fin /\ r.owned = v.owned
        /\ r.doneAt = v.doneAt
    BY <2>2, RecordClaimed, ZenonT(40)
  <2> HIDE DEF r
  <2>3. /\ r \in ExecRecords /\ r.phase = "Starting" /\ r.fin = obj[e].fin /\ r.owned = obj[e].owned
        /\ r.doneAt = obj[e].doneAt
    BY <1>3, <2>0, <2>a, Zenon
  <2>4. UNCHANGED <<load, now, seen, born, secret, launches, ws>>
    BY <1>1 DEF Outside, tableVars, worldVars
  <2>5. ~load.lag => Waiting(obj[e]) /\ secret[e]
    BY <1>1, <2>2 DEF StartFits, StartSteps
  <2>6. Waiting(r) /\ r.phase \notin Settled
    BY <2>3, LifecycleAssumption DEF Settled, Waiting
  <2>7. "admit" \in Steps /\ pass \in [Uids -> Passes]
    BY DEF Steps, IInv, ExecTypes
  <2>8. /\ pass' \in [Uids -> Passes] /\ \A f \in Uids \ {e} : pass'[f] = pass[f]
        /\ pass'[e].at = "admit" /\ pass'[e].copy = pass[e].copy
    BY <2>1, <2>7, PassGoes
  <2>9. pass'[e].copy # None => pass'[e].copy.doneAt <= now
    BY <2>2, <2>8 DEF TimesPast
  <2> QED
    BY <1>1, <1>3, <2>1, <2>2, <2>3, <2>4, <2>5, <2>6, <2>8, <2>9, StateMove
<1> QED
  BY <1>2, <1>3

\* Apply: a state is recorded.  The completion of an owned execution is what
\* the record then tells.
LEMMA ApplyMove ==
  ASSUME IInv, NEW e \in Uids, Apply(e)
  PROVE  ExecMove(e) /\ (lastRun' = lastRun \/ Carries(e)')
<1> DEFINE y == pass[e].result
           n == IF y = "Running" THEN pass[e].pod ELSE View(e).pod
           t == IF y \in TerminalPhases THEN now ELSE View(e).doneAt
<1>1. /\ pass[e].at = "apply" /\ View(e) # None /\ ~Terminal(View(e)) /\ Outside /\ UNCHANGED <<born, seen, secret>>
  BY DEF Apply, Update, Settable
<1>2. CASE View(e) # obj[e]
  <2>1. UNCHANGED obj /\ GiveUp(e) /\ lastRun' = lastRun
    BY <1>2 DEF Apply, Update
  <2> QED
    BY <1>1, <2>1, RefusedMove
<1>3. CASE View(e) = obj[e]
  <2>0. PICK v \in ExecRecords : v = View(e)
    BY <1>1, ViewParts
  <2> DEFINE r == AppliedAs(v, y, n, t)
  <2>1. /\ obj' = [obj EXCEPT ![e] = r] /\ Completed(r)
        /\ GoTo(e, "release") \/ GiveUp(e)
    <3>1. r = [View(e) EXCEPT !.phase = y, !.pod = IF y = "Running" THEN pass[e].pod ELSE @,
                              !.doneAt = IF y \in TerminalPhases THEN now ELSE @]
      BY <2>0 DEF AppliedAs
    <3> QED
      BY <1>3, <3>1 DEF Apply, Update
  <2>2. /\ obj[e] # None /\ obj[e] \in ExecRecords /\ StartFits(e) /\ OutcomeTrue(e) /\ Finalized(e)
        /\ pass[e].pod \in Nat /\ TimesPast(e) /\ CopyFits(e) /\ View(e).pod \in Nat /\ View(e).doneAt \in Nat
        /\ now \in Nat
    BY <1>1, <1>3, ExecParts, ViewParts
  <2>3. y \in Outcomes /\ y \in AllPhases /\ n \in Nat /\ t \in Nat
    BY <1>1, <2>2 DEF CopyFits, Outcomes, AllPhases
  <2>a. /\ r \in ExecRecords /\ r.phase = y /\ r.fin = v.fin /\ r.owned = v.owned /\ r.doneAt = t
    <3> HIDE DEF n, t, y
    <3> QED
      BY <2>3, StateApplied, SMT
  <2>b. v = obj[e]
    BY <1>3, <2>0
  <2>4. /\ r \in ExecRecords /\ r.phase = y /\ r.fin = obj[e].fin /\ r.owned = obj[e].owned
        /\ r.doneAt = t
    <3> HIDE DEF n, t, y, r
    <3> QED
      BY <2>a, <2>b, Zenon
  <2>5. t \in {obj[e].doneAt, now} /\ (y \in TerminalPhases => t = now)
    BY <1>3
  <2>6. ~Waiting(r)
    BY <2>3, <2>4 DEF Waiting, Outcomes, TerminalPhases
  <2> HIDE DEF r, n, t
  <2>7. UNCHANGED <<load, now, seen, born, secret, launches, ws>>
    BY <1>1 DEF Outside, tableVars, worldVars
  <2>8. NamesUnique /\ r.phase \in Settled => launches[e] > 0
    BY <1>1, <2>2, <2>4 DEF OutcomeTrue
  <2>9. /\ pass' \in [Uids -> Passes] /\ \A f \in Uids \ {e} : pass'[f] = pass[f]
        /\ pass'[e].at \in {"idle", "release"}
        /\ pass'[e].copy # None => pass'[e].copy.doneAt <= now
    <3>1. CASE GiveUp(e)
      BY <3>1, AtRest
    <3>2. CASE GoTo(e, "release")
      <4>1. "release" \in Steps /\ pass \in [Uids -> Passes]
        BY DEF Steps, IInv, ExecTypes
      <4>2. /\ pass' \in [Uids -> Passes] /\ \A f \in Uids \ {e} : pass'[f] = pass[f]
            /\ pass'[e].at = "release" /\ pass'[e].copy = pass[e].copy
        BY <3>2, <4>1, PassGoes
      <4> QED
        BY <2>2, <4>2 DEF TimesPast
    <3> QED
      BY <2>1, <3>1, <3>2
  <2>10. ExecMove(e)
    BY <1>1, <1>3, <2>1, <2>2, <2>4, <2>5, <2>6, <2>7, <2>8, <2>9, StateMove
  <2>11. lastRun' = lastRun \/ Carries(e)'
    <3>1. CASE Terminal(r) /\ r.owned
      <4>1. lastRun' = now /\ r.doneAt = now
        BY <2>1, <2>4, <2>5, <3>1 DEF Completed, Terminal
      <4>2. obj'[e] = r /\ r # None
        BY <2>1, <2>2, <2>4, LifecycleAssumption DEF IInv, ExecTypes
      <4>3. obj[e].fin
        BY <1>1, <2>2 DEF Finalized
      <4>4. r.fin
        BY <2>4, <4>3, Zenon
      <4>5. load.lag => seen[e] # None /\ ~Terminal(seen[e])
        BY <1>1, ViewParts
      <4>6. load' = load /\ seen' = seen /\ now' = now
        BY <2>7
      <4>7. load'.lag => seen'[e] # None /\ ~Terminal(seen'[e])
        BY <4>5, <4>6
      <4>8. r.doneAt >= now
        BY <2>2, <4>1
      <4> QED
        BY <3>1, <4>1, <4>2, <4>4, <4>7, <4>8 DEF Carries, Terminal
    <3>2. CASE ~(Terminal(r) /\ r.owned)
      BY <2>1, <3>2 DEF Completed
    <3> QED
      BY <3>1, <3>2
  <2> QED
    BY <2>10, <2>11
<1> QED
  BY <1>2, <1>3

\* Own: the record gets the Workspace as its owner.
LEMMA OwnMove ==
  ASSUME IInv, NEW e \in Uids, Own(e)
  PROVE  ExecMove(e)
<1>1. pass[e].at = "own" /\ Outside /\ UNCHANGED <<born, seen, secret>>
  BY DEF Own
<1>2. CASE obj[e] # pass[e].copy
  <2>1. UNCHANGED obj /\ GiveUp(e)
    BY <1>2 DEF Own
  <2> QED
    BY <1>1, <2>1, RefusedMove
<1>3. CASE obj[e] = pass[e].copy
  <2>1. /\ Finalized(e) /\ TimesPast(e) /\ StartFits(e) /\ CopyFits(e) /\ OutcomeTrue(e) /\ ExecTypes
        /\ obj[e] \in ExecRecords \cup {None}
    BY ExecParts DEF IInv
  <2>2. obj[e] # None /\ obj[e] \in ExecRecords
    BY <1>1, <1>3, <2>1 DEF CopyFits
  <2> DEFINE r == [obj[e] EXCEPT !.owned = TRUE]
  <2>3. obj' = [obj EXCEPT ![e] = r] /\ GoTo(e, "check")
    BY <1>3 DEF Own
  <2>4. /\ r \in ExecRecords /\ r.phase = obj[e].phase /\ r.fin = obj[e].fin /\ r.owned = TRUE
        /\ r.doneAt = obj[e].doneAt
    BY <2>2, OwnerAdded, Zenon
  <2> HIDE DEF r
  <2>5. "check" \in Steps /\ "check" \in StartSteps /\ "own" \in StartSteps /\ pass \in [Uids -> Passes]
    BY <2>1 DEF Steps, StartSteps, ExecTypes
  <2>6. /\ pass' \in [Uids -> Passes] /\ \A f \in Uids \ {e} : pass'[f] = pass[f]
        /\ pass'[e].at = "check" /\ pass'[e].copy = pass[e].copy
    BY <2>3, <2>5, PassGoes
  <2>7. obj'[e] = r /\ obj' \in [Uids -> ExecRecords \cup {None}] /\ \A f \in Uids \ {e} : obj'[f] = obj[f]
    BY <2>1, <2>3, <2>4 DEF ExecTypes
  <2>8. r # None
    BY <2>4, LifecycleAssumption
  <2>9. UNCHANGED load /\ UNCHANGED now /\ UNCHANGED seen /\ UNCHANGED born /\ UNCHANGED secret
        /\ UNCHANGED launches /\ UNCHANGED ws
    BY <1>1 DEF Outside, tableVars, worldVars
  <2>10. ExecTypes' /\ Alone(e)
    BY <2>1, <2>6, <2>7, <2>9 DEF ExecTypes, Alone
  <2>11. Marked(e)
    BY <2>2, <2>4, <2>7, <2>8, Zenon DEF Marked
  <2>12. Finalized(e)'
    <3>1. obj[e].fin /\ e \in born
      BY <1>1, <2>1, <2>2 DEF Finalized
    <3>2. obj'[e].fin
      BY <2>4, <2>7, <3>1, Zenon
    <3> QED
      BY <2>9, <3>1, <3>2 DEF Finalized
  <2>13. TimesPast(e)'
    BY <2>1, <2>2, <2>4, <2>6, <2>7, <2>9 DEF TimesPast
  <2>14. StartFits(e)'
    BY <1>1, <2>1, <2>2, <2>4, <2>5, <2>6, <2>7, <2>8, <2>9 DEF StartFits, Waiting
  <2>15. CopyFits(e)' /\ ClockCopied(e)'
    BY <2>6 DEF CopyFits, ClockCopied, StopSteps
  <2>16. OutcomeTrue(e)'
    BY <2>1, <2>2, <2>4, <2>6, <2>7, <2>9 DEF OutcomeTrue, NamesUnique
  <2> QED
    BY <2>10, <2>11, <2>12, <2>13, <2>14, <2>15, <2>16 DEF ExecMove, ExecSafe, RecordStep
<1> QED
  BY <1>2, <1>3

\* Settle: the finalizer records the end of a process it stopped.
LEMMA SettleMove ==
  ASSUME IInv, NEW e \in Uids, Settle(e)
  PROVE  ExecMove(e) /\ (lastRun' = lastRun \/ Carries(e)')
<1> DEFINE y == pass[e].result
<1>1. pass[e].at = "settle" /\ Outside /\ UNCHANGED <<born, seen, secret>>
  BY DEF Settle
<1>2. CASE obj[e] # pass[e].copy
  <2>1. UNCHANGED obj /\ GiveUp(e) /\ lastRun' = lastRun
    BY <1>2 DEF Settle
  <2> QED
    BY <1>1, <2>1, RefusedMove
<1>3. CASE obj[e] = pass[e].copy
  <2>0. PICK v : v = pass[e].copy
    OBVIOUS
  <2> DEFINE r == SettledAs(v, y, now)
  <2>1. obj' = [obj EXCEPT ![e] = r] /\ Completed(r) /\ GoCopying(e, "preserve", r)
    BY <1>3, <2>0 DEF Settle, GoCopying, SettledAs
  <2>2. /\ Finalized(e) /\ CopyFits(e) /\ OutcomeTrue(e) /\ ExecTypes /\ now \in Nat
        /\ obj[e] \in ExecRecords \cup {None}
    BY ExecParts DEF IInv
  <2>3. /\ obj[e] # None /\ obj[e] \in ExecRecords /\ ~Terminal(obj[e]) /\ y \in TerminalPhases
        /\ load.lag => seen[e] # None /\ ~Terminal(seen[e])
    BY <1>1, <1>3, <2>2 DEF CopyFits, StopSteps
  <2>4. y \in AllPhases
    BY <2>3 DEF AllPhases
  <2>b. v = obj[e] /\ v \in ExecRecords
    BY <1>3, <2>0, <2>3
  <2>a. /\ r \in ExecRecords /\ r.phase = y /\ r.fin = v.fin /\ r.owned = v.owned /\ r.doneAt = now
    <3> HIDE DEF y
    <3> QED
      BY <2>b, <2>2, <2>4, RecordSettled, Zenon
  <2>5. /\ r \in ExecRecords /\ r.phase = y /\ r.fin = obj[e].fin /\ r.owned = obj[e].owned
        /\ r.doneAt = now
    <3> HIDE DEF y, r
    <3> QED
      BY <2>a, <2>b, Zenon
  <2>6. NamesUnique /\ r.phase \in Settled => launches[e] > 0
    BY <1>1, <2>2, <2>5 DEF OutcomeTrue
  <2>7. ~Waiting(r) /\ Terminal(r)
    BY <2>3, <2>5 DEF Waiting, TerminalPhases, Terminal
  <2> HIDE DEF r
  <2>8. "preserve" \in Steps /\ r \in ExecRecords \cup {None} /\ pass \in [Uids -> Passes] /\ r # None
    BY <2>2, <2>5, LifecycleAssumption DEF Steps, ExecTypes
  <2>9. /\ pass' \in [Uids -> Passes] /\ \A f \in Uids \ {e} : pass'[f] = pass[f]
        /\ pass'[e].at = "preserve" /\ pass'[e].copy = r
    BY <2>1, <2>8, PassCopies
  <2>10. UNCHANGED <<load, now, seen, born, secret, launches, ws>>
    BY <1>1 DEF Outside, tableVars, worldVars
  <2>11. r.doneAt <= now
    BY <2>2, <2>5
  <2>12. ExecMove(e)
    BY <1>1, <2>1, <2>3, <2>5, <2>6, <2>7, <2>8, <2>9, <2>10, <2>11, StateMove
  <2>13. lastRun' = lastRun \/ Carries(e)'
    <3>1. CASE r.owned
      <4>1. lastRun' = now
        BY <2>1, <2>7, <3>1 DEF Completed
      <4>2. obj'[e] = r
        BY <2>1, <2>2 DEF ExecTypes
      <4>3. obj[e].fin
        BY <1>1, <2>2, <2>3 DEF Finalized
      <4>4. r.fin
        BY <2>5, <4>3, Zenon
      <4>5. load' = load /\ seen' = seen
        BY <2>10
      <4>6. load'.lag => seen'[e] # None /\ ~Terminal(seen'[e])
        BY <2>3, <4>5
      <4>7. r.doneAt >= now
        BY <2>2, <2>5
      <4> QED
        BY <2>8, <3>1, <4>1, <4>2, <4>4, <4>6, <4>7 DEF Carries, Terminal
    <3>2. CASE ~r.owned
      BY <2>1, <3>2 DEF Completed
    <3> QED
      BY <3>1, <3>2
  <2> QED
    BY <2>12, <2>13
<1> QED
  BY <1>2, <1>3


-----------------------------------------------------------------------------
(* The end of a record.                                                    *)

\* What the invariant says of the Workspace.
LEMMA WorkspaceParts ==
  ASSUME IInv
  PROVE  /\ ws \in Workspaces /\ now \in Nat /\ ws.lastDone \in Nat /\ ws.active \in Nat /\ ws.readyAt \in Nat
         /\ ws.suspendedAt \in Nat /\ ws.since \in Nat /\ ws.desired \in Desires
         /\ ws.closed \in BOOLEAN /\ ws.deleting \in BOOLEAN /\ ws.expired \in BOOLEAN
         /\ ws.ready \in BOOLEAN /\ ws.suspended \in BOOLEAN
         /\ ws.readyAt <= now /\ ws.active <= now /\ ws.lastDone <= now /\ ws.suspendedAt <= now /\ ws.since <= now
         /\ ws.suspended => ws.desired = "Suspended" /\ ~ws.ready
<1>1. ws \in Workspaces /\ now \in Nat
  BY DEF IInv, WorldTypes, WorkspaceTypes
<1>2. /\ ws.readyAt <= now /\ ws.active <= now /\ ws.lastDone <= now /\ ws.suspendedAt <= now /\ ws.since <= now
      /\ ws.suspended => ws.desired = "Suspended" /\ ~ws.ready
  BY DEF IInv, WorkspaceTypes
<1>3. /\ ws.lastDone \in Nat /\ ws.active \in Nat /\ ws.readyAt \in Nat
      /\ ws.suspendedAt \in Nat /\ ws.since \in Nat /\ ws.desired \in Desires
  BY <1>1 DEF Workspaces, Desires
<1>4. /\ ws.closed \in BOOLEAN /\ ws.deleting \in BOOLEAN /\ ws.expired \in BOOLEAN
      /\ ws.ready \in BOOLEAN /\ ws.suspended \in BOOLEAN
  BY <1>1 DEF Workspaces
<1> QED
  BY <1>1, <1>2, <1>3, <1>4

\* The Workspace keeps its gate and its clock goes on.
GateKept == ws'.closed = ws.closed /\ ws'.deleting = ws.deleting /\ ws'.expired = ws.expired
ClockGoesOn == ws'.lastDone \in Nat /\ ws.lastDone <= ws'.lastDone

\* Preserve: the Workspace keeps the completion, the record may go.
LEMMA PreserveMove ==
  ASSUME IInv, NEW e \in Uids, Preserve(e), UNCHANGED lifeVars
  PROVE  ExecMove(e) /\ WorkspaceTypes' /\ GateKept /\ ClockGoesOn
<1>1. /\ pass[e].at = "preserve" /\ UNCHANGED load /\ UNCHANGED now /\ UNCHANGED obj /\ UNCHANGED seen
      /\ UNCHANGED born /\ UNCHANGED secret /\ UNCHANGED launches /\ UNCHANGED plan
  BY DEF Preserve, KeepRecords, tableVars, worldVars, lifeVars
<1>2. PICK c : c = pass[e].copy
  OBVIOUS
<1>3. /\ TimesPast(e) /\ StartFits(e) /\ CopyFits(e) /\ secret \in [Uids -> BOOLEAN] /\ pass \in [Uids -> Passes]
      /\ WorkspaceTypes
  BY ExecParts DEF IInv, ExecTypes
<1>4. c # None /\ c.doneAt \in Nat /\ c.doneAt <= now
  BY <1>1, <1>2, ExecParts DEF CopyFits, TimesPast
<1>5. /\ ws'.lastDone \in Nat /\ ws.lastDone <= ws'.lastDone /\ (c.owned /\ ~ws'.deleting => c.doneAt <= ws'.lastDone)
      /\ GateKept /\ WorkspaceTypes'
  <2>1. CASE c.owned /\ ~ws.deleting /\ c.doneAt > ws.lastDone
    <3>1. ws' = Preserved(ws, c.doneAt)
      BY <1>2, <2>1 DEF Preserve, ClockAfter, Preserved
    <3>2. ws \in Workspaces /\ ws.lastDone \in Nat
      BY WorkspaceParts
    <3>3. /\ ws' \in Workspaces
          /\ ws'.desired = ws.desired /\ ws'.ready = ws.ready /\ ws'.readyAt = ws.readyAt
          /\ ws'.suspended = ws.suspended
          /\ ws'.closed = ws.closed /\ ws'.deleting = ws.deleting /\ ws'.expired = ws.expired
          /\ ws'.active = ws.active
          /\ ws'.lastDone = c.doneAt /\ ws'.suspendedAt = ws.suspendedAt /\ ws'.since = ws.since
      BY <1>4, <3>1, <3>2, ClockPreserved
    <3>4. GateKept
      BY <3>3 DEF GateKept
    <3>5. WorkspaceTypes'
      BY <1>1, <1>3, <1>4, <3>3 DEF WorkspaceTypes
    <3>6. ws.lastDone <= ws'.lastDone /\ c.doneAt <= ws'.lastDone /\ ws'.lastDone \in Nat
      BY <1>4, <2>1, <3>2, <3>3
    <3> QED
      BY <3>4, <3>5, <3>6
  <2>2. CASE ~(c.owned /\ ~ws.deleting /\ c.doneAt > ws.lastDone)
    <3>1. ws' = ws
      BY <1>2, <2>2 DEF Preserve, ClockAfter
    <3>2. ws.lastDone \in Nat
      BY WorkspaceParts
    <3>3. GateKept /\ WorkspaceTypes'
      BY <1>1, <1>3, <3>1 DEF GateKept, WorkspaceTypes
    <3> QED
      BY <1>4, <2>2, <3>1, <3>2, <3>3
  <2> QED
    BY <2>1, <2>2
<1>6. "remove" \in Steps /\ "remove" \notin StartSteps /\ "remove" \notin StopSteps
  BY DEF Steps, StartSteps, StopSteps
<1>7. GoTo(e, "remove")
  BY DEF Preserve
<1>8. /\ pass' \in [Uids -> Passes] /\ \A f \in Uids \ {e} : pass'[f] = pass[f]
      /\ pass'[e].at = "remove" /\ pass'[e].copy = c
  BY <1>2, <1>3, <1>6, <1>7, PassGoes
<1>9. CopyFits(e)'
  BY <1>4, <1>6, <1>8 DEF CopyFits
<1>10. ClockCopied(e)'
  BY <1>5, <1>8 DEF ClockCopied
<1>11. e \in born /\ (obj[e] # None => obj[e].fin)
  BY <1>1, PassRuns
<1>12. ~load.lag /\ ~secret'[e] => ~Waiting(obj[e]) /\ e \in born
  BY <1>1, <1>3 DEF StartFits
<1>13. ExecMove(e)
  BY <1>1, <1>3, <1>4, <1>6, <1>8, <1>9, <1>10, <1>11, <1>12, PassOnly DEF ExecMove
<1> QED
  BY <1>5, <1>13 DEF ClockGoesOn

\* RemoveFinalizer: the record that was read goes.
LEMMA RemoveFinalizerMove ==
  ASSUME IInv, NEW e \in Uids, RemoveFinalizer(e)
  PROVE  ExecMove(e)
<1>1. pass[e].at = "remove" /\ Outside /\ UNCHANGED <<born, seen, secret>> /\ GiveUp(e)
  BY DEF RemoveFinalizer
<1>2. CASE obj[e] # pass[e].copy
  <2>1. UNCHANGED obj
    BY <1>2 DEF RemoveFinalizer
  <2> QED
    BY <1>1, <2>1, RefusedMove
<1>3. CASE obj[e] = pass[e].copy
  <2>1. /\ obj' = [obj EXCEPT ![e] = None] /\ UNCHANGED load /\ UNCHANGED now /\ UNCHANGED seen /\ UNCHANGED born
        /\ UNCHANGED secret /\ UNCHANGED launches
    BY <1>1, <1>3 DEF RemoveFinalizer, Outside, tableVars, worldVars
  <2>2. /\ Finalized(e) /\ TimesPast(e) /\ StartFits(e) /\ CopyFits(e) /\ ExecTypes
    BY ExecParts DEF IInv
  <2>3. obj[e] # None /\ e \in born
    BY <1>1, <1>3, <2>2 DEF CopyFits, Finalized
  <2>4. obj' \in [Uids -> ExecRecords \cup {None}] /\ obj'[e] = None /\ \A f \in Uids \ {e} : obj'[f] = obj[f]
    BY <2>1, <2>2 DEF ExecTypes
  <2>5. /\ pass' \in [Uids -> Passes] /\ \A f \in Uids \ {e} : pass'[f] = pass[f]
        /\ pass'[e].at = "idle" /\ pass'[e].copy = None
    BY <1>1, AtRest
  <2>6. ExecTypes' /\ Alone(e)
    BY <2>1, <2>2, <2>4, <2>5 DEF ExecTypes, Alone
  <2>7. RecordStep(e)
    BY <1>1, <1>3, <2>3, <2>4 DEF RecordStep, RemovedByPass
  <2>8. Finalized(e)'
    BY <2>1, <2>2, <2>3, <2>4, <2>5 DEF Finalized
  <2>9. TimesPast(e)'
    BY <2>1, <2>2, <2>4, <2>5 DEF TimesPast
  <2>10. StartFits(e)'
    BY <2>1, <2>2, <2>3, <2>4, <2>5 DEF StartFits, StartSteps, Waiting
  <2>11. CopyFits(e)' /\ OutcomeTrue(e)' /\ ClockCopied(e)'
    BY <2>4, <2>5 DEF CopyFits, OutcomeTrue, ClockCopied, StopSteps
  <2> QED
    BY <2>6, <2>7, <2>8, <2>9, <2>10, <2>11 DEF ExecMove, ExecSafe
<1> QED
  BY <1>2, <1>3

-----------------------------------------------------------------------------
(* What all steps share: the other executions, the starts, the fence and   *)
(* the clock.                                                              *)

\* A step of e is safe for every execution.
LEMMA OthersSafe ==
  ASSUME IInv, NEW e \in Uids, ExecMove(e), UNCHANGED load, UNCHANGED now, born \subseteq born',
         \A f \in Uids : launches[f] > 0 => launches'[f] > 0,
         ws.deleting => ws'.deleting, ClockGoesOn
  PROVE  ExecTypes' /\ (\A f \in Uids : ExecSafe(f)') /\ (\A f \in Uids : RecordStep(f))
<1>1. ExecTypes' /\ ExecSafe(e)' /\ RecordStep(e)
  BY DEF ExecMove
<1>2. now' \in Nat /\ now <= now' /\ ws.lastDone \in Nat /\ ws'.lastDone \in Nat /\ ws.lastDone <= ws'.lastDone
  BY WorkspaceParts DEF ClockGoesOn
<1>3. ASSUME NEW f \in Uids, f # e PROVE ExecSafe(f)' /\ RecordStep(f)
  <2>1. obj'[f] = obj[f] /\ seen'[f] = seen[f] /\ secret'[f] = secret[f] /\ pass'[f] = pass[f]
    BY <1>3 DEF ExecMove, Alone
  <2>2. Marked(f)
    BY <2>1 DEF Marked
  <2>3. ExecSafe(f)'
    BY <1>2, <2>1, <2>2, ExecFrame
  <2> QED
    BY <2>2, <2>3 DEF RecordStep
<1> QED
  BY <1>1, <1>3

\* So is a step that at most marks records.
LEMMA AllSafe ==
  ASSUME IInv, \A e \in Uids : Marked(e), obj' \in [Uids -> ExecRecords \cup {None}],
         UNCHANGED load, UNCHANGED seen, UNCHANGED secret, UNCHANGED pass, UNCHANGED born,
         now' \in Nat, now <= now', \A f \in Uids : launches[f] > 0 => launches'[f] > 0,
         ws.deleting => ws'.deleting, ClockGoesOn
  PROVE  ExecTypes' /\ (\A f \in Uids : ExecSafe(f)') /\ (\A f \in Uids : RecordStep(f))
<1>1. ExecTypes'
  BY DEF IInv, ExecTypes
<1>2. ws.lastDone \in Nat /\ ws'.lastDone \in Nat /\ ws.lastDone <= ws'.lastDone
  BY WorkspaceParts DEF ClockGoesOn
<1>3. ASSUME NEW f \in Uids PROVE ExecSafe(f)' /\ RecordStep(f)
  <2>1. seen'[f] = seen[f] /\ secret'[f] = secret[f] /\ pass'[f] = pass[f]
    OBVIOUS
  <2>2. Marked(f)
    OBVIOUS
  <2>3. ExecSafe(f)'
    BY <1>2, <2>1, <2>2, ExecFrame
  <2> QED
    BY <2>2, <2>3 DEF RecordStep
<1> QED
  BY <1>1, <1>3

\* What is finished stays so: without a lagging cache no step revives a record.
LEMMA FinishedStays ==
  ASSUME IInv, NEW f \in Uids, RecordStep(f), f \in born, ~load.lag, Exists(f) => Terminal(obj[f])
  PROVE  (Exists(f) => Terminal(obj[f]))'
<1>1. CASE Marked(f)
  BY <1>1 DEF Marked, Exists, Terminal
<1>2. CASE RemovedByPass(f)
  BY <1>2 DEF RemovedByPass, Exists
<1>3. CASE StateWritten(f)
  BY <1>3 DEF StateWritten, Exists
<1> QED
  BY <1>1, <1>2, <1>3 DEF RecordStep

\* The starts.
LEMMA StartsKept ==
  ASSUME IInv, UNCHANGED launches, UNCHANGED removed, UNCHANGED owner
  PROVE  StartsSafe'
BY DEF IInv, StartsSafe

\* The fence.
LEMMA FinishedKept ==
  ASSUME IInv, \A f \in Uids : RecordStep(f), ~load.lag, AllFinished, admitted' = admitted
  PROVE  AllFinished'
<1>1. SUFFICES ASSUME NEW f \in admitted PROVE (Exists(f) => Terminal(obj[f]))'
  BY DEF AllFinished
<1>2. f \in born /\ (Exists(f) => Terminal(obj[f]))
  BY DEF IInv, WireSafe, AllFinished
<1>3. f \in Uids
  BY <1>2 DEF IInv, WireSafe
<1> QED
  BY <1>2, <1>3, FinishedStays

\* A step that decides nothing about the Workspace and opens no gate.
LEMMA FenceKept ==
  ASSUME IInv, \A f \in Uids : RecordStep(f), UNCHANGED load, GateKept, UNCHANGED plan,
         admitted' = admitted \/ (~ws.closed /\ ~ws.deleting)
  PROVE  FenceSafe'
<1>1. FenceSafe
  BY DEF IInv
<1>2. plan' # None /\ plan'.at \in {"scan", "delete"} => ws'.closed
  BY <1>1 DEF FenceSafe, GateKept
<1>3. plan' # None /\ plan'.at = "delete" /\ ~load.lag => AllFinished'
  BY <1>1, FinishedKept DEF FenceSafe
<1>4. ws'.expired => ws'.deleting /\ (~load.lag => AllFinished')
  BY <1>1, FinishedKept DEF FenceSafe, GateKept
<1> QED
  BY <1>2, <1>3, <1>4 DEF FenceSafe

\* The clock: what carries the last completion goes on carrying it, or the
\* Workspace has it.
LEMMA CarriesStays ==
  ASSUME IInv, NEW e \in Uids, Carries(e), RecordStep(e), UNCHANGED load, lastRun' = lastRun,
         seen'[e] = seen[e] \/ (seen'[e] = obj[e] /\ obj'[e] = obj[e])
  PROVE  Carries(e)' \/ ws.deleting \/ lastRun <= ws.lastDone
<1>1. /\ Finalized(e) /\ ClockCopied(e) /\ now \in Nat /\ obj[e] # None /\ obj[e].doneAt \in Nat
      /\ obj[e].fin /\ obj[e].owned /\ obj[e].doneAt >= lastRun
  BY ExecParts DEF Carries
<1>2. lastRun \in Nat /\ lastRun <= now
  BY DEF IInv, WorldTypes
<1>3. load.lag => seen'[e] # None /\ (Terminal(seen'[e]) => seen'[e].doneAt >= lastRun)
  BY <1>1 DEF Carries
<1>4. CASE Marked(e)
  <2>1. obj'[e] # None /\ obj'[e].fin /\ obj'[e].owned /\ obj'[e].doneAt = obj[e].doneAt
    BY <1>1, <1>4 DEF Marked
  <2> QED
    BY <1>1, <1>3, <2>1 DEF Carries, Terminal
<1>5. CASE RemovedByPass(e)
  <2>1. pass[e].at = "remove" /\ pass[e].copy = obj[e]
    BY <1>5 DEF RemovedByPass
  <2>2. ~ws.deleting => obj[e].doneAt <= ws.lastDone
    BY <1>1, <2>1 DEF ClockCopied
  <2>3. ws.lastDone \in Nat
    BY WorkspaceParts
  <2> QED
    BY <1>1, <1>2, <2>2, <2>3
<1>6. CASE StateWritten(e)
  <2>1. obj'[e] # None /\ obj'[e].fin = obj[e].fin /\ obj'[e].owned = obj[e].owned
    BY <1>6 DEF StateWritten
  <2>2. obj'[e].fin /\ obj'[e].owned
    BY <1>1, <2>1, Zenon
  <2>3. obj'[e].doneAt >= lastRun
    BY <1>1, <1>2, <1>6 DEF StateWritten
  <2> QED
    BY <1>3, <2>1, <2>2, <2>3 DEF Carries, Terminal
<1>7. e \in born
  BY <1>1 DEF Finalized
<1> QED
  BY <1>4, <1>5, <1>6, <1>7 DEF RecordStep

\* ClockSafe survives every step that does not move lastRun.
LEMMA ClockKept ==
  ASSUME IInv, \A e \in Uids : RecordStep(e), UNCHANGED load, lastRun' = lastRun,
         \A e \in Uids : seen'[e] = seen[e] \/ (seen'[e] = obj[e] /\ obj'[e] = obj[e]),
         ws.deleting => ws'.deleting, ClockGoesOn
  PROVE  ClockSafe'
<1>1. ClockSafe
  BY DEF IInv
<1>2. lastRun \in Nat /\ ws.lastDone \in Nat /\ ws'.lastDone \in Nat /\ ws.lastDone <= ws'.lastDone
  BY WorkspaceParts DEF IInv, WorldTypes, ClockGoesOn
<1>3. CASE ws.deleting \/ lastRun <= ws.lastDone
  BY <1>2, <1>3 DEF ClockSafe
<1>4. ASSUME NEW e \in Uids, Carries(e) PROVE ClockSafe'
  <2>1. Carries(e)' \/ ws.deleting \/ lastRun <= ws.lastDone
    BY <1>4, CarriesStays
  <2>2. CASE Carries(e)'
    BY <2>2 DEF ClockSafe
  <2> QED
    BY <1>3, <2>1, <2>2
<1> QED
  BY <1>1, <1>3, <1>4 DEF ClockSafe

-----------------------------------------------------------------------------
(* The steps of an execution preserve the invariant.                       *)

\* What a step of e leaves alone outside of its record, cache and pass.
Elsewhere(e) ==
  /\ UNCHANGED load /\ UNCHANGED now /\ UNCHANGED pod /\ UNCHANGED plan /\ UNCHANGED touched
  /\ UNCHANGED owner /\ UNCHANGED record /\ UNCHANGED launches /\ UNCHANGED removed
  /\ faults' \in Nat /\ born \subseteq born' /\ born' \subseteq born \cup {e}
  /\ wire' = wire \/ \E n \in 0..pod.n, k \in Nat : wire' = wire \cup {[uid |-> e, pod |-> n, try |-> k]}
  /\ wire' # wire => e \in born
  /\ admitted' = admitted \/ (admitted' = admitted \cup {e} /\ e \in born /\ ~ws.closed /\ ~ws.deleting)
  /\ lastRun' = lastRun \/ Carries(e)'
  /\ lastRun' \in {lastRun, now}
  /\ \A f \in Uids : seen'[f] = seen[f] \/ (seen'[f] = obj[f] /\ obj'[f] = obj[f])

\* A step of e, put together.
LEMMA ExecStepSafe ==
  ASSUME IInv, NEW e \in Uids, ExecMove(e), Elsewhere(e), TableSafe',
         WorkspaceTypes', GateKept, ClockGoesOn
  PROVE  IInv'
<1>1. /\ UNCHANGED load /\ UNCHANGED now /\ UNCHANGED pod /\ UNCHANGED plan /\ UNCHANGED touched
      /\ UNCHANGED owner /\ UNCHANGED record /\ UNCHANGED launches /\ UNCHANGED removed
      /\ faults' \in Nat /\ born \subseteq born' /\ born' \subseteq born \cup {e}
  BY DEF Elsewhere
<1>2. ws.deleting => ws'.deleting
  BY DEF GateKept
<1>3. ExecTypes' /\ (\A f \in Uids : ExecSafe(f)') /\ (\A f \in Uids : RecordStep(f))
  BY <1>1, <1>2, OthersSafe
<1>4. /\ wire' = wire \/ \E n \in 0..pod.n, k \in Nat : wire' = wire \cup {[uid |-> e, pod |-> n, try |-> k]}
      /\ wire' # wire => e \in born
  BY DEF Elsewhere
<1>5. \A q \in wire' : q \in wire \/ (q \in Requests /\ q.uid = e /\ q.pod <= pod.n /\ e \in born)
  <2>1. SUFFICES ASSUME NEW q \in wire', q \notin wire
                 PROVE  q \in Requests /\ q.uid = e /\ q.pod <= pod.n /\ e \in born
    OBVIOUS
  <2>2. PICK n \in 0..pod.n, k \in Nat : wire' = wire \cup {[uid |-> e, pod |-> n, try |-> k]}
    BY <1>4, <2>1
  <2>3. pod.n \in Nat
    BY DEF IInv, WorldTypes
  <2>4. q = [uid |-> e, pod |-> n, try |-> k] /\ n \in Nat /\ n <= pod.n
    BY <2>1, <2>2, <2>3
  <2> QED
    BY <1>4, <2>1, <2>4 DEF Requests
<1>6. WorldTypes'
  <2>1. WorldTypes
    BY DEF IInv
  <2>2. lastRun' \in 0..now
    BY <2>1 DEF Elsewhere, WorldTypes
  <2> QED
    BY <1>1, <1>5, <2>1, <2>2 DEF WorldTypes
<1>7. WireSafe'
  <2>1. WireSafe
    BY DEF IInv
  <2>2. admitted' \subseteq born'
    BY <1>1, <2>1 DEF WireSafe, Elsewhere
  <2>3. \A q \in wire' : q.uid \in born' /\ q.pod <= pod'.n
    BY <1>1, <1>5, <2>1 DEF WireSafe
  <2> QED
    BY <1>1, <2>1, <2>2, <2>3 DEF WireSafe
<1>8. StartsSafe'
  BY <1>1, StartsKept
<1>9. FenceSafe'
  <2>1. admitted' = admitted \/ (~ws.closed /\ ~ws.deleting)
    BY DEF Elsewhere
  <2> QED
    BY <1>1, <1>3, <2>1, FenceKept
<1>10. ClockSafe'
  <2>1. CASE lastRun' = lastRun
    BY <1>1, <1>2, <1>3, <2>1, ClockKept DEF Elsewhere
  <2>2. CASE lastRun' # lastRun
    <3>1. Carries(e)'
      BY <2>2 DEF Elsewhere
    <3> QED
      BY <3>1 DEF ClockSafe
  <2> QED
    BY <2>1, <2>2
<1>11. IdleClockKept'
  BY <1>1 DEF IInv, IdleClockKept
<1> QED
  BY <1>3, <1>6, <1>7, <1>8, <1>9, <1>10, <1>11 DEF IInv

\* The Workspace stays as it is.
LEMMA WorkspaceStays ==
  ASSUME IInv, UNCHANGED ws, UNCHANGED plan, UNCHANGED now
  PROVE  WorkspaceTypes' /\ GateKept /\ ClockGoesOn
<1>1. WorkspaceTypes /\ ws.lastDone \in Nat
  BY WorkspaceParts DEF IInv
<1> QED
  BY <1>1 DEF WorkspaceTypes, GateKept, ClockGoesOn

\* The supervisor stays as it is.
LEMMA TableStays ==
  ASSUME IInv, UNCHANGED tableVars
  PROVE  TableSafe'
BY DEF IInv, TableSafe, TableTypeOK, tableVars

\* A step of e within the records.
LEMMA OutsideStep ==
  ASSUME IInv, NEW e \in Uids, ExecMove(e), Elsewhere(e), Outside, UNCHANGED lifeVars
  PROVE  IInv'
<1>1. UNCHANGED ws /\ UNCHANGED plan /\ UNCHANGED now /\ UNCHANGED tableVars
  BY DEF Outside, lifeVars, worldVars
<1>2. WorkspaceTypes' /\ GateKept /\ ClockGoesOn
  BY <1>1, WorkspaceStays
<1>3. TableSafe'
  BY <1>1, TableStays
<1> QED
  BY <1>2, <1>3, ExecStepSafe

\* A step of e that sends, admits, creates, shows and completes nothing.
LEMMA QuietStep ==
  ASSUME IInv, NEW e \in Uids, ExecMove(e), Outside, UNCHANGED lifeVars,
         UNCHANGED <<born, seen, wire, admitted, lastRun>>
  PROVE  IInv'
<1>1. faults \in Nat
  BY DEF IInv, WorldTypes
<1>2. Elsewhere(e)
  BY <1>1 DEF Elsewhere, Outside, lifeVars, worldVars, tableVars
<1> QED
  BY <1>2, OutsideStep

\* The quiet steps.
LEMMA QuietActions ==
  ASSUME IInv, NEW e \in Uids, UNCHANGED lifeVars,
         \/ AskToStop(e) \/ Delete(e) \/ AddFinalizer(e) \/ Expire(e) \/ FindLost(e) \/ StopEarly(e)
         \/ BeginStop(e) \/ BeginInspect(e) \/ BeginPend(e) \/ BeginClaim(e) \/ Pend(e) \/ ClaimRuntime(e)
         \/ ApplyNothing(e) \/ Release(e) \/ AdmitMoot(e) \/ AdmitRejected(e) \/ Own(e) \/ CheckPod(e)
         \/ StopAnswered(e) \/ Inspect(e) \/ BeginFinalize(e) \/ RemoveFinalizer(e) \/ Fail(e)
  PROVE  IInv'
<1>1. CASE AskToStop(e) \/ AddFinalizer(e)
  <2>1. Outside /\ UNCHANGED <<born, seen, wire, admitted, lastRun>>
    BY <1>1 DEF AskToStop, AddFinalizer
  <2> QED
    BY <1>1, <2>1, FlagMove, QuietStep
<1>2. CASE Delete(e)
  BY <1>2, DeleteMove, QuietStep DEF Delete
<1>3. CASE Expire(e)
  BY <1>3, ExpireMove, QuietStep DEF Expire
<1>4. CASE FindLost(e) \/ StopEarly(e)
  <2>1. Outside /\ UNCHANGED <<born, seen, wire, admitted, lastRun>>
    BY <1>4 DEF FindLost, StopEarly, Begin, KeepRecords
  <2> QED
    BY <1>4, <2>1, FoundMove, QuietStep
<1>5. CASE BeginStop(e)
  BY <1>5, BeginStopMove, QuietStep DEF BeginStop, Begin, KeepRecords
<1>6. CASE BeginInspect(e)
  BY <1>6, BeginInspectMove, QuietStep DEF BeginInspect
<1>7. CASE BeginPend(e)
  BY <1>7, BeginPendMove, QuietStep DEF BeginPend, Begin, KeepRecords
<1>8. CASE BeginClaim(e)
  BY <1>8, BeginClaimMove, QuietStep DEF BeginClaim, KeepRecords
<1>9. CASE Pend(e)
  BY <1>9, PendMove, QuietStep DEF Pend, Update
<1>10. CASE ClaimRuntime(e)
  BY <1>10, ClaimRuntimeMove, QuietStep DEF ClaimRuntime, Update
<1>11. CASE ApplyNothing(e) \/ AdmitMoot(e) \/ Fail(e)
  <2>1. Outside /\ UNCHANGED <<born, seen, wire, admitted, lastRun>>
    BY <1>11 DEF ApplyNothing, AdmitMoot, Fail, KeepRecords
  <2> QED
    BY <1>11, <2>1, EndMove, QuietStep
<1>12. CASE Release(e)
  BY <1>12, ReleaseMove, QuietStep DEF Release
<1>13. CASE AdmitRejected(e)
  BY <1>13, AdmitRejectedMove, QuietStep DEF AdmitRejected, Begin, KeepRecords
<1>14. CASE Own(e)
  BY <1>14, OwnMove, QuietStep DEF Own
<1>15. CASE CheckPod(e)
  BY <1>15, CheckPodMove, QuietStep DEF CheckPod, KeepRecords
<1>16. CASE StopAnswered(e)
  BY <1>16, StopAnsweredMove, QuietStep DEF StopAnswered, KeepRecords
<1>17. CASE Inspect(e)
  BY <1>17, InspectMove, QuietStep DEF Inspect, KeepRecords
<1>18. CASE BeginFinalize(e)
  BY <1>18, BeginFinalizeMove, QuietStep DEF BeginFinalize, KeepRecords
<1>19. CASE RemoveFinalizer(e)
  BY <1>19, RemoveFinalizerMove, QuietStep DEF RemoveFinalizer
<1> QED
  BY <1>1, <1>2, <1>3, <1>4, <1>5, <1>6, <1>7, <1>8, <1>9, <1>10, <1>11, <1>12, <1>13, <1>14, <1>15,
     <1>16, <1>17, <1>18, <1>19

\* Apply and Settle complete an execution.
LEMMA CompletingActions ==
  ASSUME IInv, NEW e \in Uids, UNCHANGED lifeVars, Apply(e) \/ Settle(e)
  PROVE  IInv'
<1>1. ExecMove(e) /\ (lastRun' = lastRun \/ Carries(e)')
  BY ApplyMove, SettleMove
<1>2. Outside /\ UNCHANGED <<born, seen, wire, admitted>>
  BY DEF Apply, Settle, Update
<1>3. lastRun' \in {lastRun, now}
  BY DEF Apply, Settle, Completed
<1>4. faults \in Nat
  BY DEF IInv, WorldTypes
<1>5. Elsewhere(e)
  BY <1>1, <1>2, <1>3, <1>4 DEF Elsewhere, Outside, lifeVars, worldVars, tableVars
<1> QED
  BY <1>1, <1>2, <1>5, OutsideStep

\* Create, Sync, Admit, Send: a record, its cache, the gate, a request.
LEMMA EnteringActions ==
  ASSUME IInv, NEW e \in Uids, UNCHANGED lifeVars, Create(e) \/ Sync(e) \/ Admit(e) \/ Send(e)
  PROVE  IInv'
<1>1. /\ faults \in Nat /\ pod.n \in Nat /\ StartFits(e) /\ Finalized(e)
      /\ seen \in [Uids -> ExecRecords \cup {None}]
  BY ExecParts DEF IInv, WorldTypes, ExecTypes
<1>2. CASE Create(e)
  <2>1. Outside /\ born' = born \cup {e} /\ UNCHANGED <<seen, wire, admitted, lastRun>>
    BY <1>2 DEF Create
  <2>2. Elsewhere(e)
    BY <1>1, <2>1 DEF Elsewhere, Outside, lifeVars, worldVars, tableVars
  <2> QED
    BY <1>2, <2>1, <2>2, CreateMove, OutsideStep
<1>3. CASE Sync(e)
  <2>1. Outside /\ UNCHANGED <<born, obj, wire, admitted, lastRun>> /\ seen' = [seen EXCEPT ![e] = obj[e]]
    BY <1>3 DEF Sync
  <2>2. \A f \in Uids : seen'[f] = seen[f] \/ (seen'[f] = obj[f] /\ obj'[f] = obj[f])
    BY <1>1, <2>1
  <2>3. Elsewhere(e)
    BY <1>1, <2>1, <2>2 DEF Elsewhere, Outside, lifeVars, worldVars, tableVars
  <2> QED
    BY <1>3, <2>1, <2>3, SyncMove, OutsideStep
<1>4. CASE Admit(e)
  <2>1. Outside /\ UNCHANGED <<born, seen, wire, lastRun>> /\ admitted' = admitted \cup {e}
    BY <1>4 DEF Admit
  <2>2. pass[e].at = "admit" /\ ~ws.closed /\ ~ws.deleting
    BY <1>4 DEF Admit, GateOpen
  <2>3. e \in born
    BY <2>2, PassRuns
  <2>4. Elsewhere(e)
    BY <1>1, <2>1, <2>2, <2>3 DEF Elsewhere, Outside, lifeVars, worldVars, tableVars
  <2> QED
    BY <1>4, <2>1, <2>4, AdmitMove, OutsideStep
<1>5. CASE Send(e)
  <2>1. Outside /\ UNCHANGED <<born, seen, admitted, lastRun>> /\ pass[e].at = "send"
    BY <1>5 DEF Send, KeepRecords
  <2>2. \E n \in 0..pod.n, k \in Nat : wire' = wire \cup {[uid |-> e, pod |-> n, try |-> k]}
    <3>1. wire' = wire \cup {[uid |-> e, pod |-> pod.n, try |-> faults]} /\ pod.n \in 0..pod.n
      BY <1>1, <1>5 DEF Send
    <3> QED
      BY <1>1, <3>1
  <2>3. e \in born /\ (~load.lag => Waiting(obj[e]))
    BY <1>1, <2>1, PassRuns DEF StartFits, StartSteps
  <2>4. Elsewhere(e)
    BY <1>1, <2>1, <2>2, <2>3 DEF Elsewhere, Outside, lifeVars, worldVars, tableVars
  <2> QED
    BY <1>5, <2>1, <2>4, SendMove, OutsideStep
<1> QED
  BY <1>2, <1>3, <1>4, <1>5

\* SendStop marks the process; Preserve writes the Workspace; Abort is a fault.
LEMMA OtherActions ==
  ASSUME IInv, NEW e \in Uids, UNCHANGED lifeVars, SendStop(e) \/ Preserve(e) \/ Abort(e)
  PROVE  IInv'
<1>1. faults \in Nat
  BY DEF IInv, WorldTypes
<1>2. CASE SendStop(e)
  <2>1. /\ UNCHANGED <<owner, record, launches, removed, worldVars, ws, pod, wire>> /\ KeepRecords
        /\ RequestStop(IdOf[e])
    BY <1>2 DEF SendStop
  <2>2. Elsewhere(e)
    BY <1>1, <2>1 DEF Elsewhere, lifeVars, worldVars, KeepRecords
  <2>3. WorkspaceTypes' /\ GateKept /\ ClockGoesOn
    BY <2>1, WorkspaceStays DEF worldVars, lifeVars
  <2>4. TableSafe'
    <3>1. PICK i \in Ids : i = IdOf[e]
      BY IdsAssumption
    <3>2. TableSafe /\ table \in [Ids -> Processes \cup {None}]
      BY DEF IInv, TableSafe, TableTypeOK
    <3>3. CASE ~Active(i)
      <4>1. table' = table
        BY <2>1, <3>1, <3>3 DEF RequestStop
      <4> QED
        BY <2>1, <3>2, <4>1 DEF TableSafe, TableTypeOK
    <3>4. CASE Active(i)
      <4>1. table[i] # None /\ table[i] \in Processes
        BY <3>2, <3>4 DEF Active
      <4>2. PICK p \in Processes : p = table[i]
        BY <4>1
      <4> DEFINE s == [p EXCEPT !.stop = TRUE]
      <4>3. s \in Processes /\ s.uid = p.uid
        BY <4>2 DEF Processes
      <4>4. table' = [table EXCEPT ![i] = s]
        BY <2>1, <3>1, <3>4, <4>2 DEF RequestStop
      <4> HIDE DEF s
      <4>5. table' \in [Ids -> Processes \cup {None}] /\ table'[i] = s /\ \A j \in Ids \ {i} : table'[j] = table[j]
        BY <3>2, <4>3, <4>4
      <4>6. \A j \in Ids : table'[j] # None => owner[j] = table'[j].uid
        BY <3>2, <4>1, <4>2, <4>3, <4>5 DEF TableSafe
      <4> QED
        BY <2>1, <3>2, <4>5, <4>6 DEF TableSafe, TableTypeOK
    <3> QED
      BY <3>3, <3>4
  <2> QED
    BY <1>2, <2>2, <2>3, <2>4, SendStopMove, ExecStepSafe
<1>3. CASE Preserve(e)
  <2>1. KeepRecords /\ UNCHANGED <<tableVars, worldVars, pod, wire>>
    BY <1>3 DEF Preserve
  <2>2. Elsewhere(e)
    BY <1>1, <2>1 DEF Elsewhere, lifeVars, worldVars, tableVars, KeepRecords
  <2>3. TableSafe'
    BY <2>1, TableStays
  <2> QED
    BY <1>3, <2>2, <2>3, PreserveMove, ExecStepSafe
<1>4. CASE Abort(e)
  <2>1. KeepRecords /\ UNCHANGED <<tableVars, load, now, ws, pod, wire>> /\ faults' = faults + 1
    BY <1>4 DEF Abort
  <2>2. Elsewhere(e)
    BY <1>1, <2>1 DEF Elsewhere, lifeVars, tableVars, KeepRecords
  <2>3. TableSafe'
    BY <2>1, TableStays
  <2>4. WorkspaceTypes' /\ GateKept /\ ClockGoesOn
    BY <2>1, WorkspaceStays DEF lifeVars
  <2> QED
    BY <1>4, <2>2, <2>3, <2>4, EndMove, ExecStepSafe
<1> QED
  BY <1>2, <1>3, <1>4

\* Every step of an execution.
LEMMA ExecStepKeeps ==
  ASSUME IInv, NEW e \in Uids, ExecStep(e), UNCHANGED lifeVars
  PROVE  IInv'
<1>1. CASE Create(e) \/ Sync(e) \/ Admit(e) \/ Send(e)
  BY <1>1, EnteringActions
<1>2. CASE Apply(e) \/ Settle(e)
  BY <1>2, CompletingActions
<1>3. CASE SendStop(e) \/ Preserve(e) \/ Abort(e)
  BY <1>3, OtherActions
<1> QED
  BY <1>1, <1>2, <1>3, QuietActions DEF ExecStep, ExecPass

-----------------------------------------------------------------------------
(* The supervisor's steps.                                                 *)

\* A step that decides nothing about the Workspace, put together.
LEMMA TableStepSafe ==
  ASSUME IInv, ExecTypes', \A f \in Uids : ExecSafe(f)', \A f \in Uids : RecordStep(f),
         WorldTypes', WorkspaceTypes', WireSafe', TableSafe', StartsSafe',
         UNCHANGED load, UNCHANGED plan, UNCHANGED admitted, UNCHANGED lastRun, UNCHANGED seen,
         GateKept, ClockGoesOn
  PROVE  IInv'
<1>1. FenceSafe'
  BY FenceKept
<1>2. ws.deleting => ws'.deleting
  BY DEF GateKept
<1>3. \A e \in Uids : seen'[e] = seen[e] \/ (seen'[e] = obj[e] /\ obj'[e] = obj[e])
  OBVIOUS
<1>4. ClockSafe'
  BY <1>2, <1>3, ClockKept
<1>5. IdleClockKept'
  BY DEF IInv, IdleClockKept
<1> QED
  BY <1>1, <1>4, <1>5 DEF IInv

\* Answer: the pass that waits gets the outcome.
LEMMA AnswerMove ==
  ASSUME IInv, NEW q \in wire, NEW y \in Outcomes \cup {"error"}, Answer(q, y), KeepRecords,
         UNCHANGED load, UNCHANGED now, UNCHANGED ws,
         \A f \in Uids : launches[f] > 0 => launches'[f] > 0,
         y \in Settled => launches'[q.uid] > 0
  PROVE  ExecTypes' /\ (\A f \in Uids : ExecSafe(f)') /\ (\A f \in Uids : RecordStep(f))
<1>1. /\ UNCHANGED born /\ UNCHANGED obj /\ UNCHANGED seen /\ UNCHANGED secret
      /\ born \subseteq born' /\ obj \in [Uids -> ExecRecords \cup {None}]
      /\ pass \in [Uids -> Passes] /\ secret \in [Uids -> BOOLEAN]
  BY DEF KeepRecords, IInv, ExecTypes
<1>2. (ws.deleting => ws'.deleting) /\ ClockGoesOn /\ now' \in Nat /\ now <= now'
  BY WorkspaceParts DEF ClockGoesOn
<1>3. PICK e \in Uids : e = q.uid
  BY DEF IInv, WorldTypes, Requests
<1>4. CASE ~Waits(q)
  <2>1. UNCHANGED pass
    BY <1>4 DEF Answer
  <2>2. \A f \in Uids : Marked(f)
    BY <1>1 DEF Marked
  <2> QED
    BY <1>1, <1>2, <2>1, <2>2, AllSafe
<1>5. CASE Waits(q)
  <2>1. pass[e].at = "waiting" /\ "waiting" # "idle"
    BY <1>3, <1>5 DEF Waits
  <2>2. e \in born /\ (obj[e] # None => obj[e].fin) /\ StartFits(e) /\ TimesPast(e)
    BY <2>1, PassRuns, ExecParts
  <2>3. ~load.lag /\ ~secret'[e] => ~Waiting(obj[e]) /\ e \in born
    BY <1>1, <2>2 DEF StartFits
  <2>4. CASE y = "error"
    <3>1. GiveUp(e)
      BY <1>3, <1>5, <2>4 DEF Answer
    <3>2. /\ pass' \in [Uids -> Passes] /\ \A f \in Uids \ {e} : pass'[f] = pass[f]
          /\ pass'[e].at = "idle" /\ pass'[e].copy = None
      BY <3>1, AtRest
    <3>3. CopyFits(e)' /\ ClockCopied(e)'
      BY <3>2 DEF CopyFits, ClockCopied, StopSteps
    <3>4. pass'[e].at \notin StartSteps /\ pass'[e].at # "release" /\ pass'[e].at \notin {"apply", "settle"}
      BY <3>2 DEF StartSteps
    <3>5. ExecMove(e)
      BY <1>1, <2>3, <3>2, <3>3, <3>4, PassOnly DEF ExecMove
    <3> QED
      BY <1>1, <1>2, <3>5, OthersSafe
  <2>5. CASE y # "error"
    <3>1. GoWith(e, "apply", y) /\ y \in Outcomes /\ y \in Outcomes \cup {"none"} /\ "apply" \in Steps
      BY <1>3, <1>5, <2>5 DEF Answer, Steps
    <3>2. /\ pass' \in [Uids -> Passes] /\ \A f \in Uids \ {e} : pass'[f] = pass[f]
          /\ pass'[e].at = "apply" /\ pass'[e].result = y /\ pass'[e].copy = pass[e].copy
      BY <1>1, <3>1, PassGoesWith
    <3>3. CopyFits(e)' /\ ClockCopied(e)'
      BY <3>1, <3>2 DEF CopyFits, ClockCopied, StopSteps
    <3>4. pass'[e].at \notin StartSteps /\ pass'[e].at # "release"
      BY <3>2 DEF StartSteps
    <3>5. pass'[e].copy # None => pass'[e].copy.doneAt <= now
      BY <2>2, <3>2 DEF TimesPast
    <3>6. pass'[e].result \in Settled => launches'[e] > 0
      BY <1>3, <3>2
    <3>7. ExecMove(e)
      BY <1>1, <2>2, <2>3, <3>2, <3>3, <3>4, <3>5, <3>6, PassOnly DEF ExecMove
    <3> QED
      BY <1>1, <1>2, <3>7, OthersSafe
  <2> QED
    BY <2>4, <2>5
<1> QED
  BY <1>4, <1>5

\* A start is settled: the process enters the table, its record and its claim.
SettledStart(e, p) ==
  /\ owner' = [owner EXCEPT ![IdOf[e]] = e]
  /\ table' = [table EXCEPT ![IdOf[e]] = [uid |-> e, phase |-> p, stop |-> FALSE]]
  /\ record' = [record EXCEPT ![IdOf[e]] = [uid |-> e, phase |-> p]]
  /\ launches' = [launches EXCEPT ![e] = @ + 1]
  /\ UNCHANGED removed

\* Nothing else of the supervisor's state changes, and it stays consistent.
LEMMA SettledTable ==
  ASSUME IInv, NEW e \in Uids, NEW p \in Settled, owner[IdOf[e]] = None, SettledStart(e, p)
  PROVE  /\ TableSafe' /\ launches'[e] = launches[e] + 1 /\ launches'[e] > 0
         /\ \A f \in Uids \ {e} : launches'[f] = launches[f]
         /\ \A f \in Uids : launches[f] > 0 => launches'[f] > 0
         /\ owner'[IdOf[e]] = e /\ \A j \in Ids \ {IdOf[e]} : owner'[j] = owner[j]
<1>1. TableSafe /\ TableTypeOK /\ launches \in [Uids -> Nat]
  BY DEF IInv, TableSafe
<1>2. PICK i \in Ids : i = IdOf[e]
  BY IdsAssumption
<1>3. PICK t \in Processes : t = [uid |-> e, phase |-> p, stop |-> FALSE]
  BY DEF Settled, Processes, Phases, Ended
<1>4. PICK r \in Records : r = [uid |-> e, phase |-> p]
  BY DEF Settled, Records, Phases, Ended
<1>5. t.uid = e /\ r.uid = e
  BY <1>3, <1>4
<1>6. /\ table' = [table EXCEPT ![i] = t] /\ record' = [record EXCEPT ![i] = r]
      /\ owner' = [owner EXCEPT ![i] = e] /\ launches' = [launches EXCEPT ![e] = launches[e] + 1]
  BY <1>2, <1>3, <1>4 DEF SettledStart
<1>7. /\ table' \in [Ids -> Processes \cup {None}] /\ table'[i] = t
      /\ \A j \in Ids \ {i} : table'[j] = table[j]
  BY <1>1, <1>6 DEF TableTypeOK
<1>8. /\ record' \in [Ids -> Records \cup {None}] /\ record'[i] = r
      /\ \A j \in Ids \ {i} : record'[j] = record[j]
  BY <1>1, <1>6 DEF TableTypeOK
<1>9. /\ owner' \in [Ids -> Uids \cup {None}] /\ owner'[i] = e
      /\ \A j \in Ids \ {i} : owner'[j] = owner[j]
  BY <1>1, <1>6 DEF TableTypeOK
<1>10. /\ launches' \in [Uids -> Nat] /\ launches'[e] = launches[e] + 1 /\ launches'[e] > 0
       /\ \A f \in Uids \ {e} : launches'[f] = launches[f]
  BY <1>1, <1>6
<1>11. \A f \in Uids : launches[f] > 0 => launches'[f] > 0
  BY <1>10
<1>12. TableSafe'
  <2>1. ASSUME NEW j \in Ids
        PROVE  /\ table'[j] # None => owner'[j] = table'[j].uid
               /\ record'[j] # None => owner'[j] = record'[j].uid
               /\ owner'[j] # None => IdOf[owner'[j]] = j /\ launches'[owner'[j]] > 0
    <3>1. CASE j = i
      BY <1>2, <1>5, <1>7, <1>8, <1>9, <1>10, <3>1
    <3>2. CASE j # i
      <4>1. table'[j] = table[j] /\ record'[j] = record[j] /\ owner'[j] = owner[j]
        BY <1>7, <1>8, <1>9, <3>2
      <4>2. owner[j] # None => owner[j] \in Uids
        BY <1>1 DEF TableTypeOK
      <4> QED
        BY <1>1, <1>11, <4>1, <4>2 DEF TableSafe
    <3> QED
      BY <3>1, <3>2
  <2> QED
    BY <1>7, <1>8, <1>9, <1>10, <2>1 DEF TableSafe, TableTypeOK
<1> QED
  BY <1>2, <1>9, <1>10, <1>11, <1>12

\* What a request that is delivered leaves alone.
LEMMA DeliverFrame ==
  ASSUME IInv, NEW q \in wire, wire' = wire \ {q}, KeepRecords, UNCHANGED <<worldVars, ws, pod>>, UNCHANGED lifeVars
  PROVE  WorldTypes' /\ WorkspaceTypes' /\ WireSafe' /\ GateKept /\ ClockGoesOn
<1>1. /\ UNCHANGED load /\ UNCHANGED now /\ UNCHANGED faults /\ UNCHANGED lastRun /\ UNCHANGED pod
      /\ UNCHANGED touched /\ UNCHANGED ws /\ UNCHANGED plan /\ UNCHANGED born /\ UNCHANGED admitted
  BY DEF worldVars, KeepRecords, lifeVars
<1>2. WorldTypes /\ WireSafe
  BY DEF IInv
<1>3. WorldTypes'
  BY <1>1, <1>2 DEF WorldTypes
<1>4. WireSafe'
  BY <1>1, <1>2 DEF WireSafe
<1> QED
  BY <1>1, <1>3, <1>4, WorkspaceStays

\* Deliver, when the request settles the start.
LEMMA DeliverStarts ==
  ASSUME IInv, NEW q \in wire, wire' = wire \ {q}, KeepRecords, UNCHANGED <<worldVars, ws, pod>>, UNCHANGED lifeVars,
         Free(q.uid), NEW p \in Settled, SettledStart(q.uid, p), Answer(q, p)
  PROVE  IInv'
<1>1. PICK e \in Uids : e = q.uid
  BY DEF IInv, WorldTypes, Requests
<1>2. owner[IdOf[e]] = None
  BY <1>1 DEF Free
<1>3. /\ TableSafe' /\ launches'[e] = launches[e] + 1 /\ launches'[e] > 0
      /\ \A f \in Uids \ {e} : launches'[f] = launches[f]
      /\ \A f \in Uids : launches[f] > 0 => launches'[f] > 0
      /\ owner'[IdOf[e]] = e /\ \A j \in Ids \ {IdOf[e]} : owner'[j] = owner[j]
  BY <1>1, <1>2, SettledTable
<1>4. WorldTypes' /\ WorkspaceTypes' /\ WireSafe' /\ GateKept /\ ClockGoesOn
  BY DeliverFrame
<1>5. p \in Outcomes \cup {"error"}
  BY DEF Settled, Outcomes, TerminalPhases
<1>6. /\ UNCHANGED load /\ UNCHANGED now /\ UNCHANGED ws /\ UNCHANGED plan /\ UNCHANGED admitted
      /\ UNCHANGED lastRun /\ UNCHANGED seen /\ UNCHANGED born /\ UNCHANGED obj
  BY DEF worldVars, KeepRecords, lifeVars
<1>7. ExecTypes' /\ (\A f \in Uids : ExecSafe(f)') /\ (\A f \in Uids : RecordStep(f))
  BY <1>1, <1>3, <1>5, <1>6, AnswerMove
<1>8. StartsSafe'
  <2>1. /\ removed \in [Uids -> Nat] /\ launches \in [Uids -> Nat]
        /\ \A f \in Uids : /\ launches[f] <= removed[f] + 1
                           /\ launches[f] > removed[f] => owner[IdOf[f]] = f
    BY DEF IInv, StartsSafe, TableSafe
  <2>2. removed' = removed
    BY DEF SettledStart
  <2>3. ASSUME NEW f \in Uids
        PROVE  /\ launches'[f] <= removed[f] + 1
               /\ launches'[f] > removed[f] => owner'[IdOf[f]] = f
    <3>1. CASE f = e
      <4>1. owner[IdOf[e]] # e
        BY <1>2, IdsAssumption
      <4>2. launches[e] <= removed[e]
        BY <2>1, <4>1
      <4> QED
        BY <1>3, <2>1, <3>1, <4>2
    <3>2. CASE f # e
      <4>1. owner[IdOf[f]] = f => owner'[IdOf[f]] = f
        BY <1>2, <1>3, IdsAssumption
      <4> QED
        BY <1>3, <2>1, <3>2, <4>1
    <3> QED
      BY <3>1, <3>2
  <2> QED
    BY <2>1, <2>2, <2>3 DEF StartsSafe
<1> QED
  BY <1>3, <1>4, <1>6, <1>7, <1>8, TableStepSafe

\* Deliver, when the request only gets an answer.
LEMMA DeliverAnswers ==
  ASSUME IInv, NEW q \in wire, wire' = wire \ {q}, KeepRecords, UNCHANGED <<worldVars, ws, pod>>, UNCHANGED lifeVars,
         UNCHANGED tableVars, NEW y \in Outcomes \cup {"error"}, Answer(q, y), y \in Settled => launches[q.uid] > 0
  PROVE  IInv'
<1>1. WorldTypes' /\ WorkspaceTypes' /\ WireSafe' /\ GateKept /\ ClockGoesOn
  BY DeliverFrame
<1>2. /\ UNCHANGED load /\ UNCHANGED now /\ UNCHANGED ws /\ UNCHANGED plan /\ UNCHANGED admitted
      /\ UNCHANGED lastRun /\ UNCHANGED seen /\ UNCHANGED born /\ UNCHANGED obj /\ UNCHANGED launches
      /\ UNCHANGED owner /\ UNCHANGED removed
  BY DEF worldVars, KeepRecords, lifeVars, tableVars
<1>3. ExecTypes' /\ (\A f \in Uids : ExecSafe(f)') /\ (\A f \in Uids : RecordStep(f))
  BY <1>2, AnswerMove
<1>4. StartsSafe'
  BY <1>2, StartsKept
<1>5. TableSafe'
  BY TableStays
<1> QED
  BY <1>1, <1>2, <1>3, <1>4, <1>5, TableStepSafe

\* Deliver: the supervisor takes a request.
LEMMA DeliverKeeps ==
  ASSUME IInv, NEW q \in wire, Deliver(q), UNCHANGED lifeVars
  PROVE  IInv'
<1>1. wire' = wire \ {q} /\ KeepRecords /\ UNCHANGED <<worldVars, ws, pod>>
  BY DEF Deliver
<1>2. PICK e \in Uids : e = q.uid
  BY DEF IInv, WorldTypes, Requests
<1>3. CASE Free(e) /\ Claim(e) /\ Launch(e) /\ Answer(q, "Running")
  <2>1. SettledStart(e, "Running") /\ "Running" \in Settled
    BY <1>3 DEF SettledStart, Claim, Launch, Recorded, Settled
  <2> QED
    BY <1>1, <1>2, <1>3, <2>1, DeliverStarts
<1>4. CASE Free(e) /\ Claim(e) /\ RecordFailure(e) /\ Answer(q, "Exited")
  <2>1. SettledStart(e, "Exited") /\ "Exited" \in Settled
    BY <1>4 DEF SettledStart, Claim, RecordFailure, Recorded, Settled
  <2> QED
    BY <1>1, <1>2, <1>4, <2>1, DeliverStarts
<1>5. CASE UNCHANGED tableVars /\ Answer(q, "error")
  <2>1. "error" \in Outcomes \cup {"error"} /\ "error" \notin Settled
    BY DEF Settled
  <2> QED
    BY <1>1, <1>5, <2>1, DeliverAnswers
<1>6. CASE UNCHANGED tableVars /\ Answer(q, "Lost")
  <2>1. "Lost" \in Outcomes \cup {"error"} /\ "Lost" \notin Settled
    BY DEF Settled, Outcomes, TerminalPhases
  <2> QED
    BY <1>1, <1>6, <2>1, DeliverAnswers
<1>7. CASE Owns(e) /\ UNCHANGED tableVars /\ Answer(q, table[IdOf[e]].phase)
  <2>1. PICK i \in Ids : i = IdOf[e]
    BY IdsAssumption
  <2>2. table[i] # None /\ table[i].uid = e
    BY <1>7, <2>1 DEF Owns
  <2>3. owner[i] = e /\ launches[e] > 0
    <3>1. owner[i] = e
      BY <2>2 DEF IInv, TableSafe
    <3>2. e # None
      BY IdsAssumption
    <3> QED
      BY <3>1, <3>2 DEF IInv, TableSafe
  <2>4. table[i].phase \in Outcomes \cup {"error"}
    BY <2>2, ProcessPhases
  <2>5. PICK y \in Outcomes \cup {"error"} : y = table[i].phase
    BY <2>4
  <2> QED
    BY <1>1, <1>2, <1>7, <2>1, <2>3, <2>5, DeliverAnswers
<1> QED
  BY <1>2, <1>3, <1>4, <1>5, <1>6, <1>7 DEF Deliver

\* Steps of the supervisor that start nothing: all records stay.
LEMMA RecordsStay ==
  ASSUME IInv, KeepRecords, UNCHANGED pass, UNCHANGED ws, UNCHANGED load, UNCHANGED now, UNCHANGED plan,
         UNCHANGED launches
  PROVE  /\ ExecTypes' /\ (\A f \in Uids : ExecSafe(f)') /\ (\A f \in Uids : RecordStep(f))
         /\ WorkspaceTypes' /\ GateKept /\ ClockGoesOn
<1>1. UNCHANGED born /\ UNCHANGED obj /\ UNCHANGED seen /\ UNCHANGED secret
  BY DEF KeepRecords
<1>2. WorkspaceTypes' /\ GateKept /\ ClockGoesOn
  BY WorkspaceStays
<1>3. \A f \in Uids : Marked(f)
  BY <1>1 DEF Marked
<1>4. (ws.deleting => ws'.deleting) /\ now' \in Nat /\ now <= now' /\ obj' \in [Uids -> ExecRecords \cup {None}]
  BY <1>1, WorkspaceParts DEF IInv, ExecTypes
<1> QED
  BY <1>1, <1>2, <1>3, <1>4, AllSafe

\* ProcessEnds: the state of a process and its record.
LEMMA ProcessEndsKeeps ==
  ASSUME IInv, NEW i \in Ids, ProcessEnds(i), UNCHANGED lifeVars
  PROVE  IInv'
<1>1. /\ KeepRecords /\ UNCHANGED pass /\ UNCHANGED ws /\ UNCHANGED load /\ UNCHANGED now /\ UNCHANGED plan
      /\ UNCHANGED faults /\ UNCHANGED pod /\ UNCHANGED wire /\ UNCHANGED touched
      /\ UNCHANGED launches /\ UNCHANGED owner /\ UNCHANGED removed
      /\ UNCHANGED admitted /\ UNCHANGED lastRun /\ UNCHANGED seen /\ UNCHANGED born
  BY DEF ProcessEnds, Finish, execVars, worldVars, lifeVars, KeepRecords
<1>2. /\ ExecTypes' /\ (\A f \in Uids : ExecSafe(f)') /\ (\A f \in Uids : RecordStep(f))
      /\ WorkspaceTypes' /\ GateKept /\ ClockGoesOn
  BY <1>1, RecordsStay
<1>3. WorldTypes' /\ WireSafe'
  BY <1>1 DEF IInv, WorldTypes, WireSafe
<1>4. StartsSafe'
  BY <1>1, StartsKept
<1>5. TableSafe'
  <2>1. TableSafe /\ TableTypeOK /\ launches \in [Uids -> Nat]
    BY DEF IInv, TableSafe
  <2>2. PICK p \in Processes : p = table[i]
    BY <2>1 DEF ProcessEnds, Active, TableTypeOK
  <2>3. PICK x \in Phases : x = EndPhase(i)
    BY DEF EndPhase, Phases, Ended
  <2> DEFINE t == [p EXCEPT !.phase = x]
             r == [uid |-> p.uid, phase |-> x]
  <2>4. t \in Processes /\ t.uid = p.uid /\ r \in Records /\ r.uid = p.uid
    BY DEF Processes, Records
  <2>5. p # None /\ owner[i] = p.uid /\ IdOf[p.uid] = i
    <3>1. p # None /\ p.uid # None
      BY IdsAssumption DEF Processes
    <3> QED
      BY <2>1, <2>2, <3>1 DEF TableSafe
  <2>6. table' = [table EXCEPT ![i] = t] /\ record' = [record EXCEPT ![i] = r]
    BY <2>2, <2>3, <2>5 DEF ProcessEnds, Finish, Recorded
  <2> HIDE DEF t, r
  <2>7. /\ table' \in [Ids -> Processes \cup {None}] /\ table'[i] = t
        /\ \A j \in Ids \ {i} : table'[j] = table[j]
    BY <2>1, <2>4, <2>6 DEF TableTypeOK
  <2>8. /\ record' \in [Ids -> Records \cup {None}] /\ record'[i] = r
        /\ \A j \in Ids \ {i} : record'[j] = record[j]
    BY <2>1, <2>4, <2>6 DEF TableTypeOK
  <2>9. \A j \in Ids : /\ table'[j] # None => owner[j] = table'[j].uid
                       /\ record'[j] # None => owner[j] = record'[j].uid
    BY <2>1, <2>4, <2>5, <2>7, <2>8 DEF TableSafe
  <2> QED
    BY <1>1, <2>1, <2>7, <2>8, <2>9 DEF TableSafe, TableTypeOK
<1> QED
  BY <1>1, <1>2, <1>3, <1>4, <1>5, TableStepSafe

\* LoseRuntime, PodGone: a new supervisor finds what the old one left on disk.
LEMMA RuntimeEndsKeeps ==
  ASSUME IInv, NEW s \in PodStates, RuntimeEnds(s), faults' \in Nat, UNCHANGED lifeVars
  PROVE  IInv'
<1>1. /\ KeepRecords /\ UNCHANGED pass /\ UNCHANGED ws /\ UNCHANGED load /\ UNCHANGED now /\ UNCHANGED plan
      /\ wire' = {} /\ UNCHANGED touched /\ UNCHANGED launches /\ UNCHANGED owner /\ UNCHANGED removed
      /\ UNCHANGED admitted /\ UNCHANGED lastRun /\ UNCHANGED seen /\ UNCHANGED born
  BY DEF RuntimeEnds, Restart, lifeVars, KeepRecords
<1>2. /\ ExecTypes' /\ (\A f \in Uids : ExecSafe(f)') /\ (\A f \in Uids : RecordStep(f))
      /\ WorkspaceTypes' /\ GateKept /\ ClockGoesOn
  BY <1>1, RecordsStay
<1>3. WorldTypes' /\ WireSafe'
  <2>1. pod' \in [n : Nat, state : PodStates]
    <3>1. pod \in [n : Nat, state : PodStates] /\ pod' = [pod EXCEPT !.state = s]
      BY DEF IInv, WorldTypes, RuntimeEnds
    <3>2. PICK T : T = PodStates
      OBVIOUS
    <3>3. pod' \in [n : Nat, state : T]
      BY <3>1, <3>2
    <3> QED
      BY <3>2, <3>3
  <2> QED
    BY <1>1, <2>1 DEF IInv, WorldTypes, WireSafe
<1>4. StartsSafe'
  BY <1>1, StartsKept
<1>5. TableSafe'
  <2>1. TableSafe /\ TableTypeOK /\ launches \in [Uids -> Nat]
    BY DEF IInv, TableSafe
  <2>2. /\ table' = [i \in Ids |-> None]
        /\ record' = [i \in Ids |-> IF record[i] # None /\ record[i].phase = "Running"
                                    THEN [record[i] EXCEPT !.phase = "Lost"] ELSE record[i]]
    BY DEF RuntimeEnds, Restart
  <2>3. table' \in [Ids -> Processes \cup {None}]
    BY <2>2
  <2>4. ASSUME NEW i \in Ids
        PROVE  /\ record'[i] \in Records \cup {None}
               /\ record'[i] # None => record[i] # None /\ record'[i].uid = record[i].uid
    <3>1. record[i] \in Records \cup {None}
      BY <2>1 DEF TableTypeOK
    <3>2. CASE record[i] # None /\ record[i].phase = "Running"
      <4>1. PICK r \in Records : r = record[i]
        BY <3>1, <3>2
      <4>2. record'[i] = [r EXCEPT !.phase = "Lost"]
        BY <2>2, <3>2, <4>1
      <4> QED
        BY <3>2, <4>1, <4>2 DEF Records
    <3>3. CASE ~(record[i] # None /\ record[i].phase = "Running")
      BY <2>2, <3>1, <3>3
    <3> QED
      BY <3>2, <3>3
  <2>5. record' \in [Ids -> Records \cup {None}]
    BY <2>2, <2>4
  <2>6. \A i \in Ids : /\ table'[i] = None
                       /\ record'[i] # None => owner[i] = record'[i].uid
    BY <2>1, <2>2, <2>4 DEF TableSafe
  <2> QED
    BY <1>1, <2>1, <2>3, <2>5, <2>6 DEF TableSafe, TableTypeOK
<1> QED
  BY <1>1, <1>2, <1>3, <1>4, <1>5, TableStepSafe

\* HistoryPass: the supervisor forgets processes that are over.
LEMMA HistoryPassKeeps ==
  ASSUME IInv, HistoryPass
  PROVE  IInv'
<1>1. /\ KeepRecords /\ UNCHANGED pass /\ UNCHANGED ws /\ UNCHANGED load /\ UNCHANGED now /\ UNCHANGED plan
      /\ UNCHANGED faults /\ UNCHANGED pod /\ UNCHANGED wire /\ UNCHANGED touched /\ UNCHANGED launches
      /\ UNCHANGED admitted /\ UNCHANGED lastRun /\ UNCHANGED seen /\ UNCHANGED born /\ UNCHANGED obj
  BY DEF HistoryPass, PruneSet, execVars, worldVars, lifeVars, KeepRecords
<1>2. /\ ExecTypes' /\ (\A f \in Uids : ExecSafe(f)') /\ (\A f \in Uids : RecordStep(f))
      /\ WorkspaceTypes' /\ GateKept /\ ClockGoesOn
  BY <1>1, RecordsStay
<1>3. WorldTypes' /\ WireSafe'
  BY <1>1 DEF IInv, WorldTypes, WireSafe
<1>4. PICK S \in SUBSET Ids : PruneSet(S)
  BY DEF HistoryPass
<1>5. /\ table'  = [i \in Ids |-> IF i \in S THEN None ELSE table[i]]
      /\ owner'  = [i \in Ids |-> IF i \in S THEN None ELSE owner[i]]
      /\ record' = [i \in Ids |-> IF i \in S THEN None ELSE record[i]]
      /\ removed' = [u \in Uids |-> IF IdOf[u] \in S /\ owner[IdOf[u]] = u
                                    THEN removed[u] + 1 ELSE removed[u]]
  BY <1>4 DEF PruneSet
<1>6. TableSafe'
  <2>1. TableSafe /\ TableTypeOK /\ launches \in [Uids -> Nat]
    BY DEF IInv, TableSafe
  <2>2. /\ table' \in [Ids -> Processes \cup {None}] /\ owner' \in [Ids -> Uids \cup {None}]
        /\ record' \in [Ids -> Records \cup {None}]
    BY <1>5, <2>1 DEF TableTypeOK
  <2>3. \A i \in Ids : \/ table'[i] = None /\ owner'[i] = None /\ record'[i] = None
                       \/ table'[i] = table[i] /\ owner'[i] = owner[i] /\ record'[i] = record[i]
    BY <1>5
  <2> QED
    BY <1>1, <2>1, <2>2, <2>3 DEF TableSafe, TableTypeOK
<1>7. StartsSafe'
  <2>1. /\ removed \in [Uids -> Nat] /\ launches \in [Uids -> Nat]
        /\ \A f \in Uids : /\ launches[f] <= removed[f] + 1
                           /\ launches[f] > removed[f] => owner[IdOf[f]] = f
    BY DEF IInv, StartsSafe, TableSafe
  <2>2. removed' \in [Uids -> Nat]
    BY <1>5, <2>1
  <2>3. ASSUME NEW f \in Uids
        PROVE  /\ launches[f] <= removed'[f] + 1
               /\ launches[f] > removed'[f] => owner'[IdOf[f]] = f
    <3>1. IdOf[f] \in Ids
      BY IdsAssumption
    <3>2. CASE IdOf[f] \in S /\ owner[IdOf[f]] = f
      <4>1. removed'[f] = removed[f] + 1
        BY <1>5, <3>2
      <4> QED
        BY <2>1, <4>1
    <3>3. CASE ~(IdOf[f] \in S /\ owner[IdOf[f]] = f)
      <4>1. removed'[f] = removed[f]
        BY <1>5, <3>3
      <4>2. owner[IdOf[f]] = f => owner'[IdOf[f]] = f
        BY <1>5, <3>1, <3>3
      <4> QED
        BY <2>1, <4>1, <4>2
    <3> QED
      BY <3>2, <3>3
  <2> QED
    BY <1>1, <2>1, <2>2, <2>3 DEF StartsSafe
<1> QED
  BY <1>1, <1>2, <1>3, <1>6, <1>7, TableStepSafe

-----------------------------------------------------------------------------
(* Steps about the Workspace.                                              *)

\* A step that at most marks records and leaves the supervisor alone, put together.
LEMMA WorkspaceStepSafe ==
  ASSUME IInv, \A e \in Uids : Marked(e), obj' \in [Uids -> ExecRecords \cup {None}],
         UNCHANGED tableVars, UNCHANGED load, UNCHANGED <<born, seen, secret, pass, wire, admitted, lastRun>>,
         now' \in Nat, now <= now', faults' \in Nat, touched' \in 0..now',
         pod' \in [n : Nat, state : PodStates], pod.n <= pod'.n,
         WorkspaceTypes', FenceSafe', IdleClockKept', ws.deleting => ws'.deleting, ClockGoesOn
  PROVE  IInv'
<1>1. /\ UNCHANGED born /\ UNCHANGED seen /\ UNCHANGED secret /\ UNCHANGED pass /\ UNCHANGED wire
      /\ UNCHANGED admitted /\ UNCHANGED lastRun /\ UNCHANGED launches /\ UNCHANGED owner /\ UNCHANGED removed
  BY DEF tableVars
<1>2. ExecTypes' /\ (\A f \in Uids : ExecSafe(f)') /\ (\A f \in Uids : RecordStep(f))
  BY <1>1, AllSafe
<1>3. WorldTypes'
  BY <1>1 DEF IInv, WorldTypes
<1>4. WireSafe'
  <2>1. WireSafe /\ pod.n \in Nat /\ pod'.n \in Nat /\ wire \subseteq Requests
    BY DEF IInv, WorldTypes
  <2>2. \A q \in wire : q.pod \in Nat
    BY <2>1 DEF Requests
  <2> QED
    BY <1>1, <2>1, <2>2 DEF WireSafe
<1>5. TableSafe'
  BY TableStays
<1>6. StartsSafe'
  BY <1>1, StartsKept
<1>7. ClockSafe'
  BY <1>1, <1>2, ClockKept
<1> QED
  BY <1>2, <1>3, <1>4, <1>5, <1>6, <1>7 DEF IInv

\* The records stay: nothing is marked.
LEMMA NothingMarked ==
  ASSUME IInv, UNCHANGED obj
  PROVE  (\A e \in Uids : Marked(e)) /\ obj' \in [Uids -> ExecRecords \cup {None}] /\ \A e \in Uids : RecordStep(e)
BY DEF Marked, RecordStep, IInv, ExecTypes

\* The Pod stays, or changes its state.
LEMMA PodChanges ==
  ASSUME IInv, pod' = pod \/ \E s \in PodStates : pod' = [pod EXCEPT !.state = s]
  PROVE  pod' \in [n : Nat, state : PodStates] /\ pod.n <= pod'.n
<1>1. pod \in [n : Nat, state : PodStates]
  BY DEF IInv, WorldTypes
<1>2. CASE pod' = pod
  BY <1>1, <1>2
<1>3. ASSUME NEW s \in PodStates, pod' = [pod EXCEPT !.state = s]
      PROVE  pod' \in [n : Nat, state : PodStates] /\ pod.n <= pod'.n
  <2>1. PICK T : T = PodStates
    OBVIOUS
  <2>2. pod' \in [n : Nat, state : T] /\ pod'.n = pod.n /\ pod.n \in Nat
    BY <1>1, <1>3, <2>1
  <2> QED
    BY <2>1, <2>2
<1> QED
  BY <1>2, <1>3

\* A step of a user, of the clock or of the runtime controller: it decides
\* nothing about the gate.
LEMMA RuntimeStepSafe ==
  ASSUME IInv, UNCHANGED tableVars, UNCHANGED load, UNCHANGED execVars, UNCHANGED plan, UNCHANGED faults,
         now' \in Nat, now <= now', touched' \in 0..now',
         pod' \in [n : Nat, state : PodStates], pod.n <= pod'.n,
         WorkspaceTypes', GateKept, ClockGoesOn
  PROVE  IInv'
<1>1. UNCHANGED obj /\ UNCHANGED admitted /\ UNCHANGED <<born, seen, secret, pass, wire, admitted, lastRun>>
  BY DEF execVars
<1>2. (\A e \in Uids : Marked(e)) /\ obj' \in [Uids -> ExecRecords \cup {None}] /\ \A e \in Uids : RecordStep(e)
  BY <1>1, NothingMarked
<1>3. FenceSafe'
  BY <1>1, <1>2, FenceKept
<1>4. IdleClockKept'
  BY DEF IInv, IdleClockKept
<1>5. faults' \in Nat /\ (ws.deleting => ws'.deleting)
  BY DEF IInv, WorldTypes, GateKept
<1> QED
  BY <1>1, <1>2, <1>3, <1>4, <1>5, WorkspaceStepSafe

\* Types of a Workspace that was written.
LEMMA WorkspaceWritten ==
  ASSUME IInv, ws' \in Workspaces, plan' \in Plans \cup {None},
         ws'.readyAt <= now', ws'.active <= now', ws'.lastDone <= now', ws'.suspendedAt <= now', ws'.since <= now',
         ws'.suspended => ws'.desired = "Suspended" /\ ~ws'.ready
  PROVE  WorkspaceTypes'
BY DEF WorkspaceTypes

\* Edit: a user decides whether the Workspace is to run.
LEMMA EditKeeps ==
  ASSUME IInv, NEW d \in Desires, Edit(d)
  PROVE  IInv'
<1>1. /\ UNCHANGED tableVars /\ UNCHANGED load /\ UNCHANGED execVars /\ UNCHANGED plan /\ UNCHANGED faults
      /\ UNCHANGED now /\ UNCHANGED touched /\ UNCHANGED pod /\ ws' = Edited(ws, d)
  BY DEF Edit, worldVars, Edited
<1>2. /\ ws' \in Workspaces /\ ws'.desired = d /\ ws'.readyAt = ws.readyAt /\ ~ws'.suspended
      /\ ws'.closed = ws.closed /\ ws'.deleting = ws.deleting /\ ws'.expired = ws.expired /\ ws'.active = ws.active
      /\ ws'.lastDone = ws.lastDone /\ ws'.suspendedAt = ws.suspendedAt /\ ws'.since = ws.since
  BY <1>1, WorkspaceParts, DesireEdited
<1>3. plan \in Plans \cup {None} /\ touched \in 0..now
  BY DEF IInv, WorkspaceTypes, WorldTypes
<1>4. WorkspaceTypes'
  BY <1>1, <1>2, <1>3, WorkspaceParts, WorkspaceWritten
<1>5. GateKept /\ ClockGoesOn
  BY <1>2, WorkspaceParts DEF GateKept, ClockGoesOn
<1>6. pod' \in [n : Nat, state : PodStates] /\ pod.n <= pod'.n
  BY <1>1, PodChanges
<1> QED
  BY <1>1, <1>3, <1>4, <1>5, <1>6, WorkspaceParts, RuntimeStepSafe

\* Tick and Touch: time, and work that a resident agent reports.
LEMMA ClockKeeps ==
  ASSUME IInv, Tick \/ Touch
  PROVE  IInv'
<1>1. /\ UNCHANGED tableVars /\ UNCHANGED load /\ UNCHANGED execVars /\ UNCHANGED plan /\ UNCHANGED faults
      /\ UNCHANGED pod /\ UNCHANGED ws /\ now' \in {now, now + 1} /\ touched' \in {touched, now}
  BY DEF Tick, Touch, worldVars, lifeVars
<1>2. now \in Nat /\ touched \in 0..now /\ plan \in Plans \cup {None}
  BY DEF IInv, WorkspaceTypes, WorldTypes
<1>3. now' \in Nat /\ now <= now' /\ touched' \in 0..now'
  BY <1>1, <1>2
<1>4. WorkspaceTypes'
  <2>1. /\ ws.readyAt <= now' /\ ws.active <= now' /\ ws.lastDone <= now' /\ ws.suspendedAt <= now' /\ ws.since <= now'
    BY <1>3, WorkspaceParts
  <2> QED
    BY <1>1, <1>2, <2>1, WorkspaceParts, WorkspaceWritten
<1>5. GateKept /\ ClockGoesOn
  BY <1>1, WorkspaceParts DEF GateKept, ClockGoesOn
<1>6. pod' \in [n : Nat, state : PodStates] /\ pod.n <= pod'.n
  BY <1>1, PodChanges
<1> QED
  BY <1>1, <1>3, <1>4, <1>5, <1>6, RuntimeStepSafe

\* Unready of the Workspace.
LEMMA UnreadyShape ==
  ASSUME IInv, NEW u, u = Unready(ws)
  PROVE  /\ u \in Workspaces /\ u.desired = ws.desired /\ u.readyAt = ws.readyAt /\ u.suspended = ws.suspended
         /\ u.closed = ws.closed /\ u.deleting = ws.deleting /\ u.expired = ws.expired
         /\ u.lastDone = ws.lastDone /\ u.since = ws.since /\ ~u.ready
         /\ u.active <= now /\ u.suspendedAt <= now
<1> DEFINE t == IF ws.desired = "Running" /\ ws.suspendedAt # 0 THEN now ELSE ws.active
           s == IF ws.desired = "Running" THEN 0 ELSE ws.suspendedAt
<1>1. u = Unreadied(ws, t, s)
  BY DEF Unready, Unreadied
<1>2. t \in Nat /\ s \in Nat /\ t <= now /\ s <= now
  BY WorkspaceParts
<1> HIDE DEF t, s
<1>3. /\ u \in Workspaces /\ u.desired = ws.desired /\ u.readyAt = ws.readyAt /\ u.suspended = ws.suspended
      /\ u.closed = ws.closed /\ u.deleting = ws.deleting /\ u.expired = ws.expired
      /\ u.lastDone = ws.lastDone /\ u.since = ws.since /\ ~u.ready
      /\ u.active = t /\ u.suspendedAt = s
  <2>1. ws \in Workspaces
    BY WorkspaceParts
  <2> QED
    BY <1>1, <1>2, <2>1, RuntimeUnready
<1> QED
  BY <1>2, <1>3

\* StartRuntime and RecoverRuntime: the runtime is not ready.
LEMMA UnreadyKeeps ==
  ASSUME IInv, StartRuntime \/ RecoverRuntime
  PROVE  IInv'
<1>1. /\ UNCHANGED tableVars /\ UNCHANGED load /\ UNCHANGED execVars /\ UNCHANGED plan /\ UNCHANGED faults
      /\ UNCHANGED now /\ UNCHANGED touched /\ ws' = Unready(ws)
  BY DEF StartRuntime, RecoverRuntime, Outer, worldVars, lifeVars
<1>2. /\ ws' \in Workspaces /\ ws'.desired = ws.desired /\ ws'.readyAt = ws.readyAt /\ ws'.suspended = ws.suspended
      /\ ws'.closed = ws.closed /\ ws'.deleting = ws.deleting /\ ws'.expired = ws.expired
      /\ ws'.lastDone = ws.lastDone /\ ws'.since = ws.since /\ ~ws'.ready
      /\ ws'.active <= now /\ ws'.suspendedAt <= now
  BY <1>1, UnreadyShape
<1>3. plan \in Plans \cup {None} /\ touched \in 0..now
  BY DEF IInv, WorkspaceTypes, WorldTypes
<1>4. WorkspaceTypes'
  BY <1>1, <1>2, <1>3, WorkspaceParts, WorkspaceWritten
<1>5. GateKept /\ ClockGoesOn
  BY <1>2, WorkspaceParts DEF GateKept, ClockGoesOn
<1>6. pod' \in [n : Nat, state : PodStates] /\ pod.n <= pod'.n
  <2>1. CASE RecoverRuntime
    <3>1. pod' = pod \/ pod' = [pod EXCEPT !.state = "gone"]
      BY <2>1 DEF RecoverRuntime
    <3>2. "gone" \in PodStates
      BY DEF PodStates
    <3> QED
      BY <3>1, <3>2, PodChanges
  <2>2. CASE StartRuntime
    <3>1. pod' = pod \/ pod' = [n |-> pod.n + 1, state |-> "up"]
      BY <2>2 DEF StartRuntime
    <3>2. CASE pod' = pod
      BY <3>2, PodChanges
    <3>3. CASE pod' = [n |-> pod.n + 1, state |-> "up"]
      <4>1. pod.n \in Nat /\ "up" \in PodStates
        BY DEF IInv, WorldTypes, PodStates
      <4> QED
        BY <3>3, <4>1
    <3> QED
      BY <3>1, <3>2, <3>3
  <2> QED
    BY <2>1, <2>2
<1> QED
  BY <1>1, <1>3, <1>4, <1>5, <1>6, WorkspaceParts, RuntimeStepSafe

\* BecomeReady: the runtime is ready.
LEMMA ReadyKeeps ==
  ASSUME IInv, BecomeReady
  PROVE  IInv'
<1>1. /\ UNCHANGED tableVars /\ UNCHANGED load /\ UNCHANGED execVars /\ UNCHANGED plan /\ UNCHANGED faults
      /\ UNCHANGED now /\ UNCHANGED touched /\ UNCHANGED pod /\ ws.desired = "Running"
  BY DEF BecomeReady, Outer, worldVars, lifeVars, Running
<1>2. PICK u : u = Unready(ws)
  OBVIOUS
<1>3. ws' = Readied(u, now)
  BY <1>2 DEF BecomeReady, Readied
<1>4. /\ u \in Workspaces /\ u.desired = ws.desired /\ u.suspended = ws.suspended
      /\ u.closed = ws.closed /\ u.deleting = ws.deleting /\ u.expired = ws.expired
      /\ u.lastDone = ws.lastDone /\ u.since = ws.since /\ u.suspendedAt <= now
  BY <1>2, UnreadyShape
<1>5. /\ ws' \in Workspaces /\ ws'.desired = u.desired /\ ws'.readyAt = now /\ ws'.suspended = u.suspended
      /\ ws'.closed = u.closed /\ ws'.deleting = u.deleting /\ ws'.expired = u.expired /\ ws'.active = now
      /\ ws'.lastDone = u.lastDone /\ ws'.suspendedAt = u.suspendedAt /\ ws'.since = u.since
  <2>1. now \in Nat /\ u \in Workspaces
    BY <1>4, WorkspaceParts
  <2> QED
    BY <1>3, <2>1, RuntimeReady
<1>6. plan \in Plans \cup {None} /\ touched \in 0..now
  BY DEF IInv, WorkspaceTypes, WorldTypes
<1>7. ~ws'.suspended
  BY <1>1, <1>4, <1>5, WorkspaceParts
<1>8. WorkspaceTypes'
  BY <1>1, <1>4, <1>5, <1>6, <1>7, WorkspaceParts, WorkspaceWritten
<1>9. GateKept /\ ClockGoesOn
  BY <1>4, <1>5, WorkspaceParts DEF GateKept, ClockGoesOn
<1>10. pod' \in [n : Nat, state : PodStates] /\ pod.n <= pod'.n
  BY <1>1, PodChanges
<1> QED
  BY <1>1, <1>6, <1>8, <1>9, <1>10, WorkspaceParts, RuntimeStepSafe

\* Suspend: the runtime goes, then the Workspace is suspended.
LEMMA SuspendKeeps ==
  ASSUME IInv, Suspend
  PROVE  IInv'
<1>1. /\ UNCHANGED tableVars /\ UNCHANGED load /\ UNCHANGED execVars /\ UNCHANGED plan /\ UNCHANGED faults
      /\ UNCHANGED now /\ UNCHANGED touched /\ ws.desired = "Suspended"
  BY DEF Suspend, Outer, worldVars, lifeVars
<1>2. plan \in Plans \cup {None} /\ touched \in 0..now
  BY DEF IInv, WorkspaceTypes, WorldTypes
<1>3. /\ ws' \in Workspaces /\ ws'.desired = ws.desired /\ ws'.readyAt = ws.readyAt /\ ~ws'.ready
      /\ ws'.closed = ws.closed /\ ws'.deleting = ws.deleting /\ ws'.expired = ws.expired /\ ws'.active = ws.active
      /\ ws'.lastDone = ws.lastDone /\ ws'.since = ws.since /\ ws'.suspendedAt <= now
  <2>1. CASE KnownActive \/ pod.state # "gone"
    <3>1. ws' = Halting(ws)
      BY <2>1 DEF Suspend, Halting
    <3>2. /\ ws' \in Workspaces /\ ws'.desired = ws.desired /\ ws'.readyAt = ws.readyAt /\ ~ws'.ready
          /\ ws'.closed = ws.closed /\ ws'.deleting = ws.deleting /\ ws'.expired = ws.expired /\ ws'.active = ws.active
          /\ ws'.lastDone = ws.lastDone /\ ws'.since = ws.since /\ ws'.suspendedAt = ws.suspendedAt
      BY <3>1, WorkspaceParts, SuspensionWaits
    <3> QED
      BY <3>2, WorkspaceParts
  <2>2. CASE ~(KnownActive \/ pod.state # "gone")
    <3> DEFINE s == IF ws.suspendedAt = 0 \/ ~ws.suspended THEN now ELSE ws.suspendedAt
    <3>1. ws' = Halted(ws, s)
      BY <2>2 DEF Suspend, Halted
    <3>2. s \in Nat /\ s <= now
      BY WorkspaceParts
    <3> HIDE DEF s
    <3>3. /\ ws' \in Workspaces /\ ws'.desired = ws.desired /\ ws'.readyAt = ws.readyAt /\ ~ws'.ready
          /\ ws'.closed = ws.closed /\ ws'.deleting = ws.deleting /\ ws'.expired = ws.expired /\ ws'.active = ws.active
          /\ ws'.lastDone = ws.lastDone /\ ws'.since = ws.since /\ ws'.suspendedAt = s
      <4>1. ws \in Workspaces
        BY WorkspaceParts
      <4> QED
        BY <3>1, <3>2, <4>1, SuspensionDone
    <3> QED
      BY <3>2, <3>3
  <2> QED
    BY <2>1, <2>2
<1>4. WorkspaceTypes'
  BY <1>1, <1>2, <1>3, WorkspaceParts, WorkspaceWritten
<1>5. GateKept /\ ClockGoesOn
  BY <1>3, WorkspaceParts DEF GateKept, ClockGoesOn
<1>6. pod' \in [n : Nat, state : PodStates] /\ pod.n <= pod'.n
  <2>1. pod' = pod \/ pod' = [pod EXCEPT !.state = "going"]
    BY DEF Suspend
  <2>2. "going" \in PodStates
    BY DEF PodStates
  <2> QED
    BY <2>1, <2>2, PodChanges
<1> QED
  BY <1>1, <1>2, <1>4, <1>5, <1>6, WorkspaceParts, RuntimeStepSafe

-----------------------------------------------------------------------------
(* Steps of the retention controller.                                      *)

PlansOf(A, W, N) == [at : A, ws : W, time : N, known : N]
Moved(p, x) == [p EXCEPT !.at = x]
Closed(p, x, w) == [p EXCEPT !.at = x, !.ws = w]

\* A decision goes on to its next step.
LEMMA PlanMoved ==
  ASSUME NEW p \in Plans, NEW x \in Decisions, NEW u, u = Moved(p, x)
  PROVE  u \in Plans /\ u.at = x
<1>1. PICK A, W, N : A = Decisions /\ W = Workspaces /\ N = Nat
  OBVIOUS
<1>2. Plans = PlansOf(A, W, N)
  BY <1>1 DEF Plans, PlansOf
<1>3. p \in PlansOf(A, W, N) /\ x \in A
  BY <1>1, <1>2
<1>4. u \in PlansOf(A, W, N) /\ u.at = x
  BY <1>3 DEF PlansOf, Moved
<1> QED
  BY <1>2, <1>4, Zenon

\* It goes on with the Workspace it has closed.
LEMMA PlanClosed ==
  ASSUME NEW p \in Plans, NEW x \in Decisions, NEW w \in Workspaces, NEW u, u = Closed(p, x, w)
  PROVE  u \in Plans /\ u.at = x
<1>1. PICK A, W, N : A = Decisions /\ W = Workspaces /\ N = Nat
  OBVIOUS
<1>2. Plans = PlansOf(A, W, N)
  BY <1>1 DEF Plans, PlansOf
<1>3. p \in PlansOf(A, W, N) /\ x \in A /\ w \in W
  BY <1>1, <1>2
<1>4. u \in PlansOf(A, W, N) /\ u.at = x
  BY <1>3 DEF PlansOf, Closed
<1> QED
  BY <1>2, <1>4, Zenon

\* A decision is taken.
LEMMA PlanMade ==
  ASSUME NEW x \in Decisions, NEW w \in Workspaces, NEW t \in Nat, NEW k \in Nat,
         NEW u, u = [at |-> x, ws |-> w, time |-> t, known |-> k]
  PROVE  u \in Plans /\ u.at = x /\ u.time = t /\ u.known = k
<1>1. PICK A, W, N : A = Decisions /\ W = Workspaces /\ N = Nat
  OBVIOUS
<1>2. Plans = PlansOf(A, W, N)
  BY <1>1 DEF Plans, PlansOf
<1>3. x \in A /\ w \in W /\ t \in N /\ k \in N
  BY <1>1
<1>4. u \in PlansOf(A, W, N) /\ u.at = x /\ u.time = t /\ u.known = k
  BY <1>3 DEF PlansOf
<1> QED
  BY <1>2, <1>4, Zenon

\* EndPass: at most the gate is left to be reopened.
LEMMA PassEnds ==
  ASSUME IInv, NEW w \in Workspaces, EndPass(w)
  PROVE  plan' \in Plans \cup {None} /\ (plan' = None \/ plan'.at = "reopen")
<1>1. now \in Nat /\ 0 \in Nat /\ "reopen" \in Decisions
  BY WorkspaceParts DEF Decisions
<1>2. plan' = None \/ plan' = [at |-> "reopen", ws |-> w, time |-> now, known |-> 0]
  BY DEF EndPass
<1>3. CASE plan' = None
  BY <1>3
<1>4. CASE plan' = [at |-> "reopen", ws |-> w, time |-> now, known |-> 0]
  <2>1. plan' \in Plans /\ plan'.at = "reopen"
    BY <1>1, <1>4, PlanMade
  <2> QED
    BY <2>1
<1> QED
  BY <1>2, <1>3, <1>4

\* A decision is not yet, or no longer, behind the closed gate.
LEMMA FencePassed ==
  ASSUME IInv, \A f \in Uids : RecordStep(f), UNCHANGED load, admitted' = admitted,
         plan' = None \/ plan'.at \notin {"scan", "delete"},
         ws'.expired => ws.expired, ws.deleting => ws'.deleting
  PROVE  FenceSafe'
<1>1. FenceSafe
  BY DEF IInv
<1>2. ws'.expired => ws'.deleting /\ (~load.lag => AllFinished')
  BY <1>1, FinishedKept DEF FenceSafe
<1> QED
  BY <1>2 DEF FenceSafe

\* A step of the retention controller, put together.
LEMMA RetentionStepSafe ==
  ASSUME IInv, UNCHANGED tableVars, UNCHANGED load, UNCHANGED now, UNCHANGED pod, UNCHANGED execVars,
         UNCHANGED touched, faults' \in Nat, WorkspaceTypes', FenceSafe', IdleClockKept',
         ws.deleting => ws'.deleting, ClockGoesOn
  PROVE  IInv'
<1>1. UNCHANGED obj /\ UNCHANGED <<born, seen, secret, pass, wire, admitted, lastRun>>
  BY DEF execVars
<1>2. (\A e \in Uids : Marked(e)) /\ obj' \in [Uids -> ExecRecords \cup {None}]
  BY <1>1, NothingMarked
<1>3. pod' \in [n : Nat, state : PodStates] /\ pod.n <= pod'.n
  BY PodChanges
<1>4. now' \in Nat /\ now <= now' /\ touched' \in 0..now'
  BY DEF IInv, WorldTypes
<1> QED
  BY <1>1, <1>2, <1>3, <1>4, WorkspaceStepSafe

\* Nothing is decided behind the gate, and nothing as idle.
LEMMA RetentionGoesOn ==
  ASSUME IInv, UNCHANGED tableVars, UNCHANGED load, UNCHANGED now, UNCHANGED pod, UNCHANGED execVars,
         UNCHANGED touched, faults' \in Nat, WorkspaceTypes',
         plan' = None \/ plan'.at \notin {"scan", "delete", "ask"},
         ws'.expired => ws.expired, ws.deleting => ws'.deleting, ClockGoesOn
  PROVE  IInv'
<1>1. UNCHANGED obj /\ UNCHANGED admitted
  BY DEF execVars
<1>2. FenceSafe'
  BY <1>1, NothingMarked, FencePassed
<1>3. IdleClockKept'
  BY DEF IdleClockKept
<1> QED
  BY <1>2, <1>3, RetentionStepSafe

\* A conditional write that conflicts.
LEMMA ConflictKeeps ==
  ASSUME IInv, plan # None, UNCHANGED tableVars, UNCHANGED worldVars, UNCHANGED pod, UNCHANGED execVars,
         UNCHANGED touched, UNCHANGED ws, EndPass(plan.ws)
  PROVE  IInv'
<1>1. plan \in Plans
  BY DEF IInv, WorkspaceTypes
<1>2. plan.ws \in Workspaces
  BY <1>1 DEF Plans
<1>3. plan' \in Plans \cup {None} /\ (plan' = None \/ plan'.at = "reopen")
  BY <1>2, PassEnds
<1>4. WorkspaceTypes'
  BY <1>3, WorkspaceParts, WorkspaceWritten DEF worldVars
<1>5. ClockGoesOn /\ faults' \in Nat /\ UNCHANGED load /\ UNCHANGED now
  BY WorkspaceParts DEF ClockGoesOn, worldVars, IInv, WorldTypes
<1> QED
  BY <1>3, <1>4, <1>5, RetentionGoesOn

\* AskRuntime: the supervisor knows of a later activity, or it does not.
LEMMA AskKeeps ==
  ASSUME IInv, AskRuntime
  PROVE  IInv'
<1>1. /\ plan # None /\ plan \in Plans /\ UNCHANGED tableVars /\ UNCHANGED worldVars /\ UNCHANGED pod
      /\ UNCHANGED execVars /\ UNCHANGED touched
  BY DEF IInv, WorkspaceTypes, AskRuntime, Conditionally
<1>2. faults' \in Nat /\ UNCHANGED load /\ UNCHANGED now /\ now \in Nat /\ touched \in 0..now
  BY <1>1 DEF worldVars, IInv, WorldTypes
<1>3. CASE Postponed /\ ws = plan.ws
  <2>1. ws' = Busy(ws, touched) /\ EndPass(ws)
    BY <1>3 DEF AskRuntime, Conditionally, Busy
  <2>2. touched \in Nat /\ touched <= now /\ ws \in Workspaces
    BY <1>2, WorkspaceParts
  <2>3. /\ ws' \in Workspaces /\ ws'.desired = ws.desired /\ ws'.ready = ws.ready /\ ws'.readyAt = ws.readyAt
        /\ ws'.suspended = ws.suspended /\ ws'.deleting = ws.deleting /\ ws'.expired = ws.expired
        /\ ws'.active = touched /\ ws'.lastDone = ws.lastDone /\ ws'.suspendedAt = ws.suspendedAt
        /\ ws'.since = ws.since
    BY <2>1, <2>2, ActivityRecorded
  <2>4. plan' \in Plans \cup {None} /\ (plan' = None \/ plan'.at = "reopen")
    BY <2>1, <2>2, PassEnds
  <2>5. WorkspaceTypes'
    BY <1>2, <2>2, <2>3, <2>4, WorkspaceParts, WorkspaceWritten
  <2>6. ClockGoesOn
    BY <2>3, WorkspaceParts DEF ClockGoesOn
  <2> QED
    BY <1>1, <1>2, <2>3, <2>4, <2>5, <2>6, RetentionGoesOn
<1>4. CASE Postponed /\ ws # plan.ws
  <2>1. UNCHANGED ws /\ EndPass(plan.ws)
    BY <1>4 DEF AskRuntime, Conditionally
  <2> QED
    BY <1>1, <2>1, ConflictKeeps
<1>5. CASE ~Postponed
  <2>1. UNCHANGED ws /\ plan' = Moved(plan, "suspend") /\ "suspend" \in Decisions
    BY <1>5 DEF AskRuntime, Moved, Decisions
  <2>2. plan' \in Plans /\ plan'.at = "suspend"
    BY <1>1, <2>1, PlanMoved
  <2>3. WorkspaceTypes'
    BY <1>2, <2>1, <2>2, WorkspaceParts, WorkspaceWritten
  <2>4. ClockGoesOn
    BY <2>1, WorkspaceParts DEF ClockGoesOn
  <2> QED
    BY <1>1, <1>2, <2>1, <2>2, <2>3, <2>4, RetentionGoesOn
<1> QED
  BY <1>3, <1>4, <1>5

\* RequestSuspension: a Workspace that was idle is to be suspended.
LEMMA RequestKeeps ==
  ASSUME IInv, RequestSuspension
  PROVE  IInv'
<1>1. /\ plan # None /\ UNCHANGED tableVars /\ UNCHANGED worldVars /\ UNCHANGED pod
      /\ UNCHANGED execVars /\ UNCHANGED touched
  BY DEF RequestSuspension, Conditionally
<1>2. faults' \in Nat /\ UNCHANGED load /\ UNCHANGED now
  BY <1>1 DEF worldVars, IInv, WorldTypes
<1>3. CASE ws = plan.ws
  <2>1. ws' = Edited(ws, "Suspended") /\ EndPass(ws)
    BY <1>3 DEF RequestSuspension, Conditionally, Edited
  <2>2. "Suspended" \in Desires /\ ws \in Workspaces
    BY WorkspaceParts DEF Desires
  <2>3. /\ ws' \in Workspaces /\ ws'.desired = "Suspended" /\ ws'.ready = ws.ready /\ ws'.readyAt = ws.readyAt
        /\ ~ws'.suspended /\ ws'.deleting = ws.deleting /\ ws'.expired = ws.expired
        /\ ws'.active = ws.active /\ ws'.lastDone = ws.lastDone /\ ws'.suspendedAt = ws.suspendedAt
        /\ ws'.since = ws.since
    BY <2>1, <2>2, DesireEdited
  <2>4. plan' \in Plans \cup {None} /\ (plan' = None \/ plan'.at = "reopen")
    BY <2>1, <2>2, PassEnds
  <2>5. WorkspaceTypes'
    BY <1>2, <2>3, <2>4, WorkspaceParts, WorkspaceWritten
  <2>6. ClockGoesOn
    BY <2>3, WorkspaceParts DEF ClockGoesOn
  <2> QED
    BY <1>1, <1>2, <2>3, <2>4, <2>5, <2>6, RetentionGoesOn
<1>4. CASE ws # plan.ws
  <2>1. UNCHANGED ws /\ EndPass(plan.ws)
    BY <1>4 DEF RequestSuspension, Conditionally
  <2> QED
    BY <1>1, <2>1, ConflictKeeps
<1> QED
  BY <1>3, <1>4

\* CloseGate: from here on nothing is admitted.
LEMMA CloseKeeps ==
  ASSUME IInv, CloseGate
  PROVE  IInv'
<1>1. /\ plan # None /\ plan \in Plans /\ UNCHANGED tableVars /\ UNCHANGED worldVars /\ UNCHANGED pod
      /\ UNCHANGED execVars /\ UNCHANGED touched
  BY DEF CloseGate, IInv, WorkspaceTypes
<1>2. faults' \in Nat /\ UNCHANGED load /\ UNCHANGED now
  BY <1>1 DEF worldVars, IInv, WorldTypes
<1>3. CASE ws = plan.ws
  <2>1. ws' = Shut(ws) /\ plan' = Closed(plan, "scan", ws') /\ "scan" \in Decisions /\ ws \in Workspaces
    BY <1>3, WorkspaceParts DEF CloseGate, Shut, Closed, Decisions
  <2>2. /\ ws' \in Workspaces /\ ws'.desired = ws.desired /\ ws'.ready = ws.ready /\ ws'.readyAt = ws.readyAt
        /\ ws'.suspended = ws.suspended /\ ws'.closed /\ ws'.deleting = ws.deleting /\ ws'.expired = ws.expired
        /\ ws'.active = ws.active /\ ws'.lastDone = ws.lastDone /\ ws'.suspendedAt = ws.suspendedAt
        /\ ws'.since = ws.since
    BY <2>1, GateClosed
  <2>3. plan' \in Plans /\ plan'.at = "scan"
    BY <1>1, <2>1, <2>2, PlanClosed
  <2>4. WorkspaceTypes'
    BY <1>2, <2>2, <2>3, WorkspaceParts, WorkspaceWritten
  <2>5. ClockGoesOn
    BY <2>2, WorkspaceParts DEF ClockGoesOn
  <2>6. FenceSafe'
    <3>1. UNCHANGED obj /\ UNCHANGED admitted /\ FenceSafe
      BY <1>1 DEF execVars, IInv
    <3>2. ws.expired => (~load.lag => AllFinished')
      BY <3>1, NothingMarked, FinishedKept DEF FenceSafe
    <3> QED
      BY <1>2, <2>2, <2>3, <3>1, <3>2 DEF FenceSafe
  <2>7. IdleClockKept'
    BY <2>3 DEF IdleClockKept
  <2> QED
    BY <1>1, <1>2, <2>2, <2>4, <2>5, <2>6, <2>7, RetentionStepSafe
<1>4. CASE ws # plan.ws
  <2>1. UNCHANGED ws /\ plan' = Moved(plan, "reopen") /\ "reopen" \in Decisions
    BY <1>4 DEF CloseGate, Moved, Decisions
  <2>2. plan' \in Plans /\ plan'.at = "reopen"
    BY <1>1, <2>1, PlanMoved
  <2>3. WorkspaceTypes'
    BY <1>2, <2>1, <2>2, WorkspaceParts, WorkspaceWritten
  <2>4. ClockGoesOn
    BY <2>1, WorkspaceParts DEF ClockGoesOn
  <2> QED
    BY <1>1, <1>2, <2>1, <2>2, <2>3, <2>4, RetentionGoesOn
<1> QED
  BY <1>3, <1>4

\* ScanExecutions: behind the closed gate, an empty scan says that all is finished.
LEMMA ScanKeeps ==
  ASSUME IInv, ScanExecutions
  PROVE  IInv'
<1>1. /\ plan # None /\ plan \in Plans /\ plan.at = "scan" /\ UNCHANGED tableVars /\ UNCHANGED worldVars
      /\ UNCHANGED pod /\ UNCHANGED execVars /\ UNCHANGED touched /\ UNCHANGED ws
  BY DEF ScanExecutions, IInv, WorkspaceTypes
<1>2. faults' \in Nat /\ UNCHANGED load /\ UNCHANGED now
  BY <1>1 DEF worldVars, IInv, WorldTypes
<1>3. PICK x \in {"delete", "reopen"} : plan' = Moved(plan, x) /\ (x = "delete" => ScanEmpty)
  BY DEF ScanExecutions, Moved
<1>4. plan' \in Plans /\ plan'.at = x
  <2>1. x \in Decisions
    BY DEF Decisions
  <2> QED
    BY <1>1, <1>3, <2>1, PlanMoved
<1>5. WorkspaceTypes'
  BY <1>1, <1>2, <1>4, WorkspaceParts, WorkspaceWritten
<1>6. ClockGoesOn
  BY <1>1, WorkspaceParts DEF ClockGoesOn
<1>7. FenceSafe'
  <2>1. UNCHANGED obj /\ UNCHANGED admitted /\ FenceSafe /\ admitted \subseteq Uids
    BY <1>1 DEF execVars, IInv, WireSafe
  <2>2. ws.closed
    BY <1>1, <2>1 DEF FenceSafe
  <2>3. AllFinished => AllFinished'
    BY <2>1 DEF AllFinished, Exists, Terminal
  <2>4. ScanEmpty => AllFinished
    BY <2>1 DEF ScanEmpty, AllFinished
  <2> QED
    BY <1>1, <1>2, <1>3, <1>4, <2>1, <2>2, <2>3, <2>4 DEF FenceSafe
<1>8. IdleClockKept'
  BY <1>4 DEF IdleClockKept
<1> QED
  BY <1>1, <1>2, <1>5, <1>6, <1>7, <1>8, RetentionStepSafe

\* DeleteExpired: the version that was closed is deleted.
LEMMA DeleteExpiredKeeps ==
  ASSUME IInv, DeleteExpired
  PROVE  IInv'
<1>1. /\ plan # None /\ plan.at = "delete" /\ UNCHANGED tableVars /\ UNCHANGED worldVars /\ UNCHANGED pod
      /\ UNCHANGED execVars /\ UNCHANGED touched
  BY DEF DeleteExpired, Conditionally
<1>2. faults' \in Nat /\ UNCHANGED load /\ UNCHANGED now
  BY <1>1 DEF worldVars, IInv, WorldTypes
<1>3. CASE ws = plan.ws
  <2>1. ws' = Expired(ws) /\ plan' = None
    BY <1>3 DEF DeleteExpired, Conditionally, Expired
  <2>2. /\ ws' \in Workspaces /\ ws'.desired = ws.desired /\ ws'.ready = ws.ready /\ ws'.readyAt = ws.readyAt
        /\ ws'.suspended = ws.suspended /\ ws'.deleting /\ ws'.expired
        /\ ws'.active = ws.active /\ ws'.lastDone = ws.lastDone /\ ws'.suspendedAt = ws.suspendedAt
        /\ ws'.since = ws.since
    BY <2>1, WorkspaceParts, ExpiryRecorded
  <2>3. WorkspaceTypes'
    BY <1>2, <2>1, <2>2, WorkspaceParts, WorkspaceWritten
  <2>4. ClockGoesOn
    BY <2>2, WorkspaceParts DEF ClockGoesOn
  <2>5. FenceSafe'
    <3>1. UNCHANGED obj /\ UNCHANGED admitted /\ FenceSafe
      BY <1>1 DEF execVars, IInv
    <3>2. ~load.lag => AllFinished
      BY <1>1, <3>1 DEF FenceSafe
    <3>3. AllFinished => AllFinished'
      BY <3>1 DEF AllFinished, Exists, Terminal
    <3> QED
      BY <1>2, <2>1, <2>2, <3>2, <3>3 DEF FenceSafe
  <2>6. IdleClockKept'
    BY <2>1 DEF IdleClockKept
  <2> QED
    BY <1>1, <1>2, <2>2, <2>3, <2>4, <2>5, <2>6, RetentionStepSafe
<1>4. CASE ws # plan.ws
  <2>1. UNCHANGED ws /\ EndPass(plan.ws)
    BY <1>4 DEF DeleteExpired, Conditionally
  <2> QED
    BY <1>1, <2>1, ConflictKeeps
<1> QED
  BY <1>3, <1>4

\* ReopenGate and RetentionFails: the decision is dropped.
LEMMA DropKeeps ==
  ASSUME IInv, ReopenGate \/ RetentionFails
  PROVE  IInv'
<1>1. /\ plan' = None /\ UNCHANGED tableVars /\ UNCHANGED load /\ UNCHANGED now /\ UNCHANGED pod
      /\ UNCHANGED execVars /\ UNCHANGED touched
  BY DEF ReopenGate, RetentionFails, worldVars
<1>2. faults' \in Nat
  <2>1. faults \in Nat /\ faults' \in {faults, faults + 1}
    BY DEF ReopenGate, RetentionFails, worldVars, IInv, WorldTypes
  <2> QED
    BY <2>1
<1>3. ws' = ws \/ ws' = Opened(ws)
  BY DEF ReopenGate, RetentionFails, Opened
<1>4. /\ ws' \in Workspaces /\ ws'.desired = ws.desired /\ ws'.ready = ws.ready /\ ws'.readyAt = ws.readyAt
      /\ ws'.suspended = ws.suspended /\ ws'.deleting = ws.deleting /\ ws'.expired = ws.expired
      /\ ws'.active = ws.active /\ ws'.lastDone = ws.lastDone /\ ws'.suspendedAt = ws.suspendedAt
      /\ ws'.since = ws.since
  <2>1. ws \in Workspaces
    BY WorkspaceParts
  <2>2. CASE ws' = ws
    BY <2>1, <2>2
  <2>3. CASE ws' = Opened(ws)
    BY <2>1, <2>3, GateOpened
  <2> QED
    BY <1>3, <2>2, <2>3
<1>5. WorkspaceTypes'
  BY <1>1, <1>4, WorkspaceParts, WorkspaceWritten
<1>6. ClockGoesOn
  BY <1>4, WorkspaceParts DEF ClockGoesOn
<1> QED
  BY <1>1, <1>2, <1>4, <1>5, <1>6, RetentionGoesOn

\* A record that is asked to stop is marked.
LEMMA StopMarks ==
  ASSUME NEW e \in Uids, obj[e] \in ExecRecords, obj'[e] = [obj[e] EXCEPT !.stop = TRUE]
  PROVE  Marked(e) /\ obj'[e] \in ExecRecords \cup {None}
<1>1. /\ obj'[e] \in ExecRecords /\ obj'[e].phase = obj[e].phase /\ obj'[e].doneAt = obj[e].doneAt
      /\ obj'[e].fin = obj[e].fin /\ obj'[e].owned = obj[e].owned
  BY StopMarked, Zenon
<1>2. obj[e] # None /\ obj'[e] # None
  BY <1>1, LifecycleAssumption
<1> QED
  BY <1>1, <1>2, Zenon DEF Marked

\* The maximum run marks the executions it asks to stop.
LEMMA StopsMark ==
  ASSUME IInv, StopExecutions
  PROVE  obj' \in [Uids -> ExecRecords \cup {None}] /\ \A e \in Uids : Marked(e)
<1>1. obj' = [e \in Uids |-> IF Exists(e) /\ View(e) # None /\ ~Terminal(View(e))
                             THEN [obj[e] EXCEPT !.stop = TRUE] ELSE obj[e]]
  BY DEF StopExecutions
<1>2. obj \in [Uids -> ExecRecords \cup {None}]
  BY DEF IInv, ExecTypes
<1>3. ASSUME NEW e \in Uids PROVE Marked(e) /\ obj'[e] \in ExecRecords \cup {None}
  <2>1. CASE Exists(e) /\ View(e) # None /\ ~Terminal(View(e))
    <3>1. obj'[e] = [obj[e] EXCEPT !.stop = TRUE]
      BY <1>1, <2>1
    <3>2. obj[e] \in ExecRecords
      BY <1>2, <2>1 DEF Exists
    <3> QED
      BY <3>1, <3>2, StopMarks
  <2>2. CASE ~(Exists(e) /\ View(e) # None /\ ~Terminal(View(e)))
    <3>1. obj'[e] = obj[e]
      BY <1>1, <2>2
    <3> QED
      BY <1>2, <3>1 DEF Marked
  <2> QED
    BY <2>1, <2>2
<1>4. obj' = [e \in Uids |-> obj'[e]]
  BY <1>1
<1> QED
  BY <1>3, <1>4

\* StopExecutions: the maximum run asks all executions to stop.
LEMMA StopAllKeeps ==
  ASSUME IInv, StopExecutions
  PROVE  IInv'
<1>1. /\ plan # None /\ plan \in Plans /\ plan' = Moved(plan, "suspend") /\ "suspend" \in Decisions
      /\ UNCHANGED tableVars /\ UNCHANGED load /\ UNCHANGED now /\ UNCHANGED faults /\ UNCHANGED pod /\ UNCHANGED ws
      /\ UNCHANGED touched /\ UNCHANGED admitted /\ UNCHANGED <<born, seen, secret, pass, wire, admitted, lastRun>>
  BY DEF StopExecutions, IInv, WorkspaceTypes, worldVars, Moved, Decisions
<1>2. obj' \in [Uids -> ExecRecords \cup {None}] /\ \A e \in Uids : Marked(e)
  BY StopsMark
<1>3. plan' \in Plans /\ plan'.at = "suspend"
  BY <1>1, PlanMoved
<1>4. WorkspaceTypes'
  BY <1>1, <1>3, WorkspaceParts, WorkspaceWritten
<1>5. ClockGoesOn
  BY <1>1, WorkspaceParts DEF ClockGoesOn
<1>6. FenceSafe'
  BY <1>1, <1>2, <1>3, FencePassed DEF RecordStep
<1>7. IdleClockKept'
  BY <1>3 DEF IdleClockKept
<1>8. pod' \in [n : Nat, state : PodStates] /\ pod.n <= pod'.n
  BY <1>1, PodChanges
<1>9. now' \in Nat /\ now <= now' /\ touched' \in 0..now' /\ faults' \in Nat
  BY <1>1 DEF IInv, WorldTypes
<1> QED
  BY <1>1, <1>2, <1>4, <1>5, <1>6, <1>7, <1>8, <1>9, WorkspaceStepSafe

\* Finalization marks the executions it asks to stop or deletes.
LEMMA FinalizationMarks ==
  ASSUME IInv, FinalizeWorkspace
  PROVE  obj' \in [Uids -> ExecRecords \cup {None}] /\ \A e \in Uids : Marked(e)
<1>1. obj' = [e \in Uids |-> IF ~Exists(e) \/ View(e) = None THEN obj[e]
                             ELSE IF Terminal(View(e)) THEN Deleted(obj[e])
                             ELSE IF View(e) = obj[e] THEN [obj[e] EXCEPT !.stop = TRUE] ELSE obj[e]]
  BY DEF FinalizeWorkspace
<1>2. obj \in [Uids -> ExecRecords \cup {None}]
  BY DEF IInv, ExecTypes
<1>3. ASSUME NEW e \in Uids PROVE Marked(e) /\ obj'[e] \in ExecRecords \cup {None}
  <2>1. \/ obj'[e] = obj[e]
        \/ Exists(e) /\ obj'[e] = Deleted(obj[e])
        \/ Exists(e) /\ obj'[e] = [obj[e] EXCEPT !.stop = TRUE]
    BY <1>1
  <2>2. Exists(e) => obj[e] \in ExecRecords
    BY <1>2 DEF Exists
  <2>3. CASE obj'[e] = obj[e]
    BY <1>2, <2>3 DEF Marked
  <2>4. CASE Exists(e) /\ obj'[e] = Deleted(obj[e])
    BY <2>2, <2>4, DeletedMarks
  <2>5. CASE Exists(e) /\ obj'[e] = [obj[e] EXCEPT !.stop = TRUE]
    BY <2>2, <2>5, StopMarks
  <2> QED
    BY <2>1, <2>3, <2>4, <2>5
<1>4. obj' = [e \in Uids |-> obj'[e]]
  BY <1>1
<1> QED
  BY <1>3, <1>4

\* FinalizeWorkspace: executions are asked to stop, records that ended are deleted.
LEMMA FinalizeKeeps ==
  ASSUME IInv, FinalizeWorkspace
  PROVE  IInv'
<1>1. /\ UNCHANGED tableVars /\ UNCHANGED load /\ UNCHANGED now /\ UNCHANGED faults /\ UNCHANGED ws /\ UNCHANGED plan
      /\ UNCHANGED touched /\ UNCHANGED admitted /\ UNCHANGED <<born, seen, secret, pass, wire, admitted, lastRun>>
  BY DEF FinalizeWorkspace, worldVars, lifeVars
<1>2. obj' \in [Uids -> ExecRecords \cup {None}] /\ \A e \in Uids : Marked(e)
  BY FinalizationMarks
<1>3. WorkspaceTypes' /\ GateKept /\ ClockGoesOn
  BY <1>1, WorkspaceStays
<1>4. FenceSafe'
  BY <1>1, <1>2, <1>3, FenceKept DEF RecordStep
<1>5. IdleClockKept'
  BY <1>1 DEF IInv, IdleClockKept
<1>6. pod' \in [n : Nat, state : PodStates] /\ pod.n <= pod'.n
  <2>1. pod' = pod \/ pod' = [pod EXCEPT !.state = "going"]
    BY DEF FinalizeWorkspace
  <2>2. "going" \in PodStates
    BY DEF PodStates
  <2> QED
    BY <2>1, <2>2, PodChanges
<1>7. now' \in Nat /\ now <= now' /\ touched' \in 0..now' /\ faults' \in Nat /\ (ws.deleting => ws'.deleting)
  BY <1>1 DEF IInv, WorldTypes
<1> QED
  BY <1>1, <1>2, <1>3, <1>4, <1>5, <1>6, <1>7, WorkspaceStepSafe

\* What the records and the Workspace tell of the last completion.
LEMMA CompletionsKnown ==
  ASSUME IInv
  PROVE  /\ LastCompletion \in Nat /\ LastCompletion <= now /\ ws.lastDone <= LastCompletion
         /\ \A e \in Uids : View(e) # None => View(e).doneAt <= LastCompletion
<1> DEFINE D == {ws.lastDone} \cup {View(e).doneAt : e \in Seen}
<1>1. now \in Nat /\ ws.lastDone \in Nat /\ ws.lastDone <= now
  BY WorkspaceParts
<1>2. \A e \in Uids : View(e) # None => View(e).doneAt \in Nat /\ View(e).doneAt <= now
  BY ViewParts
<1>3. D \subseteq 0..now /\ D # {}
  BY <1>1, <1>2 DEF Seen
<1>4. Max(D) \in D /\ \A d \in D : d <= Max(D)
  <2> HIDE DEF D
  <2> QED
    BY <1>1, <1>3, BoundedMax
<1>5. LastCompletion = Max(D)
  BY DEF LastCompletion
<1>6. ws.lastDone \in D /\ \A e \in Uids : View(e) # None => View(e).doneAt \in D
  BY DEF Seen
<1> QED
  BY <1>3, <1>4, <1>5, <1>6

\* The clocks that a retention pass records: none lies ahead, and the activity
\* is not before the last completion.
LEMMA ClockedShape ==
  ASSUME IInv, NEW w, w = Clocked(ws)
  PROVE  /\ w \in Workspaces /\ w.desired = ws.desired /\ w.ready = ws.ready /\ w.readyAt = ws.readyAt
         /\ w.suspended = ws.suspended /\ w.closed = ws.closed /\ w.deleting = ws.deleting
         /\ w.expired = ws.expired /\ w.lastDone = ws.lastDone
         /\ w.since <= now /\ w.active <= now /\ w.suspendedAt <= now
         /\ LastCompletion <= w.active /\ w.active \in Nat
<1> DEFINE A == {Created, ws.active, LastCompletion, IF ws.ready THEN ws.readyAt ELSE 0}
           activity == Max(A)
           suspendedAt == IF Resumed(ws) THEN 0 ELSE ws.suspendedAt
           legacy == /\ ~KnownActive /\ ~load.temporary /\ suspendedAt = 0
                     /\ load.deleteAfter > 0 /\ SuspensionConfirmed(ws)
           m == Since(ws)
           t == IF Resumed(ws) THEN now ELSE activity
           s == IF legacy THEN now ELSE suspendedAt
<1>1. w = Timed(ws, m, t, s)
  BY DEF Clocked, Timed
<1>2. now \in Nat /\ Created \in Nat /\ Created <= now
  BY DEF IInv, WorldTypes, Created
<1>3. A \subseteq 0..now /\ A # {}
  BY <1>2, WorkspaceParts, CompletionsKnown
<1>4. Max(A) \in A /\ \A d \in A : d <= Max(A)
  <2> HIDE DEF A
  <2> QED
    BY <1>2, <1>3, BoundedMax
<1>5. activity \in Nat /\ activity <= now /\ LastCompletion <= activity
  <2>1. LastCompletion \in A
    OBVIOUS
  <2> HIDE DEF A
  <2>2. LastCompletion <= Max(A)
    BY <1>4, <2>1
  <2>3. Max(A) \in 0..now
    BY <1>3, <1>4
  <2>4. PICK x : x = Max(A)
    OBVIOUS
  <2>5. x \in 0..now /\ LastCompletion <= x
    BY <2>2, <2>3, <2>4
  <2>6. x \in Nat /\ x <= now
    BY <1>2, <2>5
  <2> QED
    BY <2>4, <2>5, <2>6
<1> HIDE DEF A, activity
<1>6. t \in Nat /\ t <= now /\ LastCompletion <= t
  BY <1>2, <1>5, CompletionsKnown
<1>7. s \in Nat /\ s <= now
  BY <1>2, WorkspaceParts
<1>8. m \in Nat /\ m <= now
  BY WorkspaceParts DEF Since
<1> HIDE DEF m, t, s
<1>9. ws \in Workspaces
  BY WorkspaceParts
<1>10. /\ w \in Workspaces /\ w.desired = ws.desired /\ w.ready = ws.ready /\ w.readyAt = ws.readyAt
       /\ w.suspended = ws.suspended /\ w.closed = ws.closed /\ w.deleting = ws.deleting
       /\ w.expired = ws.expired /\ w.lastDone = ws.lastDone
       /\ w.since = m /\ w.active = t /\ w.suspendedAt = s
  <2>1. HasClocks(Timed(ws, m, t, s), ws, m, t, s)
    BY <1>6, <1>7, <1>8, <1>9, ClocksRecorded, Zenon
  <2>2. HasClocks(w, ws, m, t, s)
    BY <1>1, <2>1, Zenon
  <2> QED
    BY <2>2, Zenon DEF HasClocks
<1> QED
  BY <1>6, <1>7, <1>8, <1>10

\* The last completion that was recorded is one the retention pass knows of,
\* unless an execution is still active or the Workspace is deleted.
LEMMA LastRunKnown ==
  ASSUME IInv, ~KnownActive, ~ws.deleting
  PROVE  lastRun <= LastCompletion
<1>1. /\ lastRun \in Nat /\ ClockSafe /\ ws.lastDone \in Nat
  BY WorkspaceParts DEF IInv, WorldTypes
<1>2. CASE lastRun <= ws.lastDone
  BY <1>1, <1>2, CompletionsKnown
<1>3. ASSUME NEW e \in Uids, Carries(e) PROVE lastRun <= LastCompletion
  <2>1. View(e) # None /\ View(e).doneAt >= lastRun
    <3>1. CASE load.lag
      <4>1. View(e) = seen[e] /\ seen[e] # None
        BY <1>3, <3>1, ViewParts DEF Carries
      <4>2. Terminal(seen[e])
        BY <4>1 DEF KnownActive
      <4> QED
        BY <1>3, <3>1, <4>1, <4>2 DEF Carries
    <3>2. CASE ~load.lag
      BY <1>3, <3>2, ViewParts DEF Carries
    <3> QED
      BY <3>1, <3>2
  <2>2. View(e).doneAt \in Nat /\ View(e).doneAt <= LastCompletion /\ LastCompletion \in Nat
    BY <2>1, ViewParts, CompletionsKnown
  <2> QED
    BY <1>1, <2>1, <2>2
<1> QED
  BY <1>1, <1>2, <1>3 DEF ClockSafe

\* An idle timeout is never shorter than the Workspace's.
LEMMA IdleSpanLong ==
  ASSUME IInv, NEW w
  PROVE  IdleSpan(w) \in Nat /\ load.idle \in Nat /\ load.idle <= IdleSpan(w)
<1>1. load.idle \in Nat /\ StartTimeout \in Nat
  BY LifecycleAssumption DEF IInv, WorldTypes
<1> DEFINE S == {load.idle, StartTimeout}
<1>2. S \subseteq 0..(load.idle + StartTimeout) /\ S # {} /\ load.idle + StartTimeout \in Nat /\ load.idle \in S
      /\ S \subseteq Nat
  BY <1>1
<1>3. Max(S) \in S /\ \A d \in S : d <= Max(S)
  <2> HIDE DEF S
  <2> QED
    BY <1>2, BoundedMax
<1>4. IdleSpan(w) = load.idle \/ IdleSpan(w) = Max(S)
  BY DEF IdleSpan
<1> HIDE DEF S
<1>5. PICK x : x = Max(S)
  OBVIOUS
<1>6. x \in Nat /\ load.idle <= x
  BY <1>2, <1>3, <1>5
<1>7. PICK y : y = IdleSpan(w)
  OBVIOUS
<1>8. y = load.idle \/ y = x
  BY <1>4, <1>5, <1>7
<1>9. y \in Nat /\ load.idle <= y
  BY <1>1, <1>6, <1>8
<1> QED
  BY <1>1, <1>7, <1>9

\* PlanPass: the clocks are recorded and a decision is taken.
LEMMA PlanKeeps ==
  ASSUME IInv, PlanPass
  PROVE  IInv'
<1>1. PICK w : w = Clocked(ws)
  OBVIOUS
<1>2. /\ UNCHANGED tableVars /\ UNCHANGED load /\ UNCHANGED now /\ UNCHANGED faults /\ UNCHANGED pod
      /\ UNCHANGED execVars /\ UNCHANGED touched /\ ws' = w /\ ~ws.deleting
  BY <1>1 DEF PlanPass, worldVars
<1>3. /\ w \in Workspaces /\ w.desired = ws.desired /\ w.ready = ws.ready /\ w.readyAt = ws.readyAt
      /\ w.suspended = ws.suspended /\ w.closed = ws.closed /\ w.deleting = ws.deleting
      /\ w.expired = ws.expired /\ w.lastDone = ws.lastDone
      /\ w.since <= now /\ w.active <= now /\ w.suspendedAt <= now
      /\ LastCompletion <= w.active /\ w.active \in Nat
  BY <1>1, ClockedShape
<1>4. /\ now \in Nat /\ lastRun \in Nat /\ faults' \in Nat
  BY <1>2 DEF IInv, WorldTypes
<1>5. ClockGoesOn
  BY <1>2, <1>3, WorkspaceParts DEF ClockGoesOn
<1>6. \/ EndPass(w)
      \/ \E x \in {"stop", "ask", "close"} :
           /\ plan' = [at |-> x, ws |-> w, time |-> now, known |-> lastRun]
           /\ x = "ask" => IdleDue(w)
  BY <1>1 DEF PlanPass
<1>7. CASE EndPass(w)
  <2>1. plan' \in Plans \cup {None} /\ (plan' = None \/ plan'.at = "reopen")
    BY <1>3, <1>7, PassEnds
  <2>2. WorkspaceTypes'
    BY <1>2, <1>3, <2>1, WorkspaceParts, WorkspaceWritten
  <2> QED
    BY <1>2, <1>3, <1>4, <1>5, <2>1, <2>2, RetentionGoesOn
<1>8. ASSUME NEW x \in {"stop", "ask", "close"},
             plan' = [at |-> x, ws |-> w, time |-> now, known |-> lastRun], x = "ask" => IdleDue(w)
      PROVE  IInv'
  <2>1. x \in Decisions
    BY DEF Decisions
  <2>2. plan' \in Plans /\ plan'.at = x /\ plan'.time = now /\ plan'.known = lastRun
    BY <1>3, <1>4, <1>8, <2>1, PlanMade
  <2>3. WorkspaceTypes'
    BY <1>2, <1>3, <2>2, WorkspaceParts, WorkspaceWritten
  <2>4. FenceSafe'
    <3>1. UNCHANGED obj /\ UNCHANGED admitted
      BY <1>2 DEF execVars
    <3> QED
      BY <1>2, <1>3, <2>2, <3>1, NothingMarked, FencePassed
  <2>5. IdleClockKept'
    <3>1. CASE x = "ask"
      <4>1. ~KnownActive /\ now >= w.active + IdleSpan(w)
        BY <1>8, <3>1 DEF IdleDue
      <4>2. lastRun <= LastCompletion /\ LastCompletion \in Nat
        BY <1>2, <4>1, LastRunKnown, CompletionsKnown
      <4>3. IdleSpan(w) \in Nat /\ load.idle \in Nat /\ load.idle <= IdleSpan(w)
        BY IdleSpanLong
      <4>4. now >= lastRun + load.idle
        BY <1>3, <1>4, <4>1, <4>2, <4>3
      <4> QED
        BY <1>2, <2>2, <4>4 DEF IdleClockKept
    <3>2. CASE x # "ask"
      BY <2>2, <3>2 DEF IdleClockKept
    <3> QED
      BY <3>1, <3>2
  <2> QED
    BY <1>2, <1>3, <1>4, <1>5, <2>3, <2>4, <2>5, RetentionStepSafe
<1> QED
  BY <1>6, <1>7, <1>8

-----------------------------------------------------------------------------
(* What the specification does.                                            *)

\* The runtime controller.
LEMMA RuntimePassKeeps ==
  ASSUME IInv, RuntimePass
  PROVE  IInv'
BY UnreadyKeeps, ReadyKeeps, SuspendKeeps, FinalizeKeeps DEF RuntimePass

\* The retention controller.
LEMMA RetentionPassKeeps ==
  ASSUME IInv, RetentionPass
  PROVE  IInv'
BY PlanKeeps, StopAllKeeps, AskKeeps, RequestKeeps, CloseKeeps, ScanKeeps, DeleteExpiredKeeps, DropKeeps
   DEF RetentionPass

\* The runtime is lost, or its Pod goes.
LEMMA LossKeeps ==
  ASSUME IInv, UNCHANGED lifeVars, (\E s \in {"up", "terminated", "gone"} : LoseRuntime(s)) \/ PodGone
  PROVE  IInv'
<1>1. faults \in Nat
  BY DEF IInv, WorldTypes
<1>2. ASSUME NEW s \in {"up", "terminated", "gone"}, LoseRuntime(s) PROVE IInv'
  <2>1. s \in PodStates
    BY DEF PodStates
  <2> QED
    BY <1>1, <1>2, <2>1, RuntimeEndsKeeps DEF LoseRuntime
<1>3. CASE PodGone
  <2>1. "gone" \in PodStates
    BY DEF PodStates
  <2> QED
    BY <1>1, <1>3, <2>1, RuntimeEndsKeeps DEF PodGone
<1> QED
  BY <1>2, <1>3

\* Nothing happens.
LEMMA StutterKeeps ==
  ASSUME IInv, UNCHANGED vars
  PROVE  IInv'
<1>1. /\ UNCHANGED tableVars /\ UNCHANGED worldVars /\ UNCHANGED ws /\ UNCHANGED pod /\ UNCHANGED execVars
      /\ UNCHANGED lifeVars
  BY DEF vars
<1>2. /\ UNCHANGED load /\ UNCHANGED now /\ UNCHANGED faults /\ UNCHANGED plan /\ UNCHANGED touched
  BY <1>1 DEF worldVars, lifeVars
<1>3. WorkspaceTypes' /\ GateKept /\ ClockGoesOn
  BY <1>1, <1>2, WorkspaceStays
<1>4. pod' \in [n : Nat, state : PodStates] /\ pod.n <= pod'.n
  BY <1>1, PodChanges
<1>5. now' \in Nat /\ now <= now' /\ touched' \in 0..now'
  BY <1>2 DEF IInv, WorldTypes
<1> QED
  BY <1>1, <1>2, <1>3, <1>4, <1>5, RuntimeStepSafe

\* Every step keeps the invariant.
LEMMA NextKeeps ==
  ASSUME IInv, [Next]_vars
  PROVE  IInv'
<1>1. ASSUME NEW e \in Uids, ExecStep(e), UNCHANGED lifeVars PROVE IInv'
  BY <1>1, ExecStepKeeps
<1>2. ASSUME NEW q \in wire, Deliver(q), UNCHANGED lifeVars PROVE IInv'
  BY <1>2, DeliverKeeps
<1>3. ASSUME NEW i \in Ids, ProcessEnds(i), UNCHANGED lifeVars PROVE IInv'
  BY <1>3, ProcessEndsKeeps
<1>4. CASE UNCHANGED lifeVars /\ ((\E s \in {"up", "terminated", "gone"} : LoseRuntime(s)) \/ PodGone)
  BY <1>4, LossKeeps
<1>5. ASSUME NEW d \in {"Running", "Suspended"}, Edit(d) PROVE IInv'
  <2>1. d \in Desires
    BY DEF Desires
  <2> QED
    BY <1>5, <2>1, EditKeeps
<1>6. CASE Tick \/ Touch
  BY <1>6, ClockKeeps
<1>7. CASE RuntimePass
  BY <1>7, RuntimePassKeeps
<1>8. CASE RetentionPass
  BY <1>8, RetentionPassKeeps
<1>9. CASE RetentionFails
  BY <1>9, DropKeeps
<1>10. CASE HistoryPass
  BY <1>10, HistoryPassKeeps
<1>11. CASE UNCHANGED vars
  BY <1>11, StutterKeeps
<1> QED
  BY <1>1, <1>2, <1>3, <1>4, <1>5, <1>6, <1>7, <1>8, <1>9, <1>10, <1>11 DEF Next

\* A Workspace is created with an empty record.
LEMMA NewWorkspaceFits ==
  /\ NewWorkspace \in Workspaces
  /\ NewWorkspace.desired = "Running" /\ NewWorkspace.readyAt = 0 /\ ~NewWorkspace.suspended
  /\ NewWorkspace.active = 0 /\ NewWorkspace.lastDone = 0 /\ NewWorkspace.suspendedAt = 0
  /\ NewWorkspace.since = 0 /\ ~NewWorkspace.expired
BY DEF NewWorkspace, Workspaces

\* A pass at rest.
LEMMA RestFits ==
  /\ Rest \in Passes /\ Rest.at = "idle" /\ Rest.copy = None
BY DEF Rest, Passes, Steps

\* The invariant holds when the Workspace is created.
LEMMA InitHolds ==
  ASSUME Init
  PROVE  IInv
<1>1. /\ TableInit /\ load \in Loads /\ now = 1 /\ faults = 0 /\ pod = [n |-> 0, state |-> "gone"]
      /\ born = {} /\ wire = {} /\ admitted = {} /\ lastRun = 0
      /\ obj = [e \in Uids |-> None] /\ seen = [e \in Uids |-> None] /\ secret = [e \in Uids |-> TRUE]
      /\ pass = [e \in Uids |-> Rest] /\ ws = NewWorkspace /\ plan = None /\ touched = 0
  BY DEF Init, ExecInit
<1>2. ExecTypes
  BY <1>1, RestFits DEF ExecTypes
<1>3. WorldTypes
  <2>1. pod \in [n : Nat, state : PodStates]
    BY <1>1 DEF PodStates
  <2>2. wire \subseteq Requests
    BY <1>1
  <2> QED
    BY <1>1, <2>1, <2>2 DEF WorldTypes
<1>4. WorkspaceTypes
  BY <1>1, NewWorkspaceFits DEF WorkspaceTypes
<1>5. ASSUME NEW e \in Uids PROVE ExecSafe(e)
  <2>1. obj[e] = None /\ seen[e] = None /\ secret[e] /\ pass[e].at = "idle" /\ pass[e].copy = None
    BY <1>1, RestFits
  <2>2. Finalized(e) /\ TimesPast(e) /\ OutcomeTrue(e) /\ ClockCopied(e)
    BY <2>1 DEF Finalized, TimesPast, OutcomeTrue, ClockCopied
  <2>3. StartFits(e)
    BY <2>1 DEF StartFits, StartSteps
  <2>4. CopyFits(e)
    BY <2>1 DEF CopyFits, StopSteps
  <2> QED
    BY <2>2, <2>3, <2>4 DEF ExecSafe
<1>6. WireSafe
  BY <1>1 DEF WireSafe
<1>7. TableSafe
  BY <1>1, IdsAssumption DEF TableSafe, TableInit, TableTypeOK
<1>8. StartsSafe
  <2>1. \A e \in Uids : launches[e] \in {0} /\ removed[e] \in {0}
    BY <1>1 DEF TableInit
  <2>2. \A n, m \in {0} : n <= m + 1 /\ ~(n > m)
    OBVIOUS
  <2>3. \A e \in Uids : launches[e] <= removed[e] + 1 /\ ~(launches[e] > removed[e])
    BY <2>1, <2>2, Zenon
  <2>4. removed \in [Uids -> Nat]
    BY <1>1 DEF TableInit
  <2> QED
    BY <2>3, <2>4, Zenon DEF StartsSafe
<1>9. FenceSafe
  BY <1>1, NewWorkspaceFits DEF FenceSafe
<1>10. ClockSafe /\ IdleClockKept
  BY <1>1, NewWorkspaceFits DEF ClockSafe, IdleClockKept
<1> QED
  BY <1>2, <1>3, <1>4, <1>5, <1>6, <1>7, <1>8, <1>9, <1>10 DEF IInv

-----------------------------------------------------------------------------
(* Results.                                                                *)

\* Every step of an execution is a move of its own record.
LEMMA ExecStepMoves ==
  ASSUME IInv, NEW e \in Uids, ExecStep(e), UNCHANGED lifeVars
  PROVE  \A f \in Uids : RecordStep(f)
<1>1. ExecMove(e)
  <2>1. CASE Create(e) \/ AskToStop(e) \/ Delete(e) \/ Sync(e) \/ Abort(e)
    BY <2>1, CreateMove, FlagMove, DeleteMove, SyncMove, EndMove
  <2>2. CASE AddFinalizer(e) \/ Expire(e) \/ FindLost(e) \/ StopEarly(e) \/ BeginStop(e) \/ BeginInspect(e)
    BY <2>2, FlagMove, ExpireMove, FoundMove, BeginStopMove, BeginInspectMove
  <2>3. CASE BeginPend(e) \/ BeginClaim(e) \/ Pend(e) \/ ClaimRuntime(e) \/ Apply(e) \/ ApplyNothing(e)
    BY <2>3, BeginPendMove, BeginClaimMove, PendMove, ClaimRuntimeMove, ApplyMove, EndMove
  <2>4. CASE Release(e) \/ AdmitMoot(e) \/ AdmitRejected(e) \/ Admit(e) \/ Own(e) \/ CheckPod(e) \/ Send(e)
    BY <2>4, ReleaseMove, EndMove, AdmitRejectedMove, AdmitMove, OwnMove, CheckPodMove, SendMove
  <2>5. CASE SendStop(e) \/ StopAnswered(e) \/ Inspect(e) \/ BeginFinalize(e) \/ Settle(e) \/ Preserve(e)
    BY <2>5, SendStopMove, StopAnsweredMove, InspectMove, BeginFinalizeMove, SettleMove, PreserveMove
  <2>6. CASE RemoveFinalizer(e) \/ Fail(e)
    BY <2>6, RemoveFinalizerMove, EndMove
  <2> QED
    BY <2>1, <2>2, <2>3, <2>4, <2>5, <2>6 DEF ExecStep, ExecPass
<1>2. \A f \in Uids \ {e} : Marked(f)
  BY <1>1 DEF ExecMove, Alone, Marked
<1> QED
  BY <1>1, <1>2 DEF ExecMove, RecordStep

\* Every step is a move of each record.
LEMMA NextMoves ==
  ASSUME IInv, Next
  PROVE  \A f \in Uids : RecordStep(f)
<1>1. ASSUME NEW e \in Uids, ExecStep(e), UNCHANGED lifeVars PROVE \A f \in Uids : RecordStep(f)
  BY <1>1, ExecStepMoves
<1>2. CASE StopExecutions \/ FinalizeWorkspace
  BY <1>2, StopsMark, FinalizationMarks DEF RecordStep
<1>3. CASE UNCHANGED obj
  BY <1>3, NothingMarked
<1>4. ASSUME NEW q \in wire, Deliver(q) PROVE UNCHANGED obj
  BY <1>4 DEF Deliver, KeepRecords
<1>5. ASSUME NEW i \in Ids, ProcessEnds(i) PROVE UNCHANGED obj
  BY <1>5 DEF ProcessEnds, execVars
<1>6. ASSUME (\E s \in {"up", "terminated", "gone"} : LoseRuntime(s)) \/ PodGone PROVE UNCHANGED obj
  BY <1>6 DEF LoseRuntime, PodGone, RuntimeEnds, KeepRecords
<1>7. ASSUME NEW d \in {"Running", "Suspended"}, Edit(d) PROVE UNCHANGED obj
  BY <1>7 DEF Edit, execVars
<1>8. ASSUME Tick \/ Touch \/ HistoryPass \/ RetentionFails PROVE UNCHANGED obj
  BY <1>8 DEF Tick, Touch, HistoryPass, RetentionFails, execVars
<1>9. ASSUME StartRuntime \/ BecomeReady \/ RecoverRuntime \/ Suspend PROVE UNCHANGED obj
  BY <1>9 DEF StartRuntime, BecomeReady, RecoverRuntime, Suspend, Outer, execVars
<1>10. ASSUME PlanPass \/ AskRuntime \/ RequestSuspension PROVE UNCHANGED obj
  BY <1>10 DEF PlanPass, AskRuntime, RequestSuspension, Conditionally, execVars
<1>11. ASSUME CloseGate \/ ScanExecutions \/ DeleteExpired \/ ReopenGate PROVE UNCHANGED obj
  BY <1>11 DEF CloseGate, ScanExecutions, DeleteExpired, ReopenGate, Conditionally, execVars
<1> QED
  BY <1>1, <1>2, <1>3, <1>4, <1>5, <1>6, <1>7, <1>8, <1>9, <1>10, <1>11
     DEF Next, RuntimePass, RetentionPass

\* What a step does to a result.
LEMMA ResultStep ==
  ASSUME IInv, Next, NEW e \in Uids, Exists(e), Terminal(obj[e])
  PROVE  \/ obj'[e] = None
         \/ obj'[e].phase \in {obj[e].phase} \cup (IF load.lag THEN {"Pending"} ELSE {})
<1>1. RecordStep(e)
  BY NextMoves
<1>2. e \in born
  BY ExecParts DEF Finalized, Exists
<1> QED
  BY <1>1, <1>2 DEF RecordStep, Marked, RemovedByPass, StateWritten

-----------------------------------------------------------------------------
(* Theorems.                                                               *)

\* What passes, requests and decisions under way rely on holds throughout.
THEOREM LifecycleInvariant == Spec => []IInv
<1>1. Init => IInv
  BY InitHolds
<1>2. IInv /\ [Next]_vars => IInv'
  BY NextKeeps
<1> QED
  BY <1>1, <1>2, PTL DEF Spec

\* TypeOK: records, passes, requests, the Pod and the clocks of the Workspace
\* stay within their types.
THEOREM LifecycleTypes == Spec => []TypeOK
<1>1. IInv => TypeOK
  <2> SUFFICES ASSUME IInv PROVE TypeOK
    OBVIOUS
  <2>1. TableTypeOK
    BY DEF IInv, TableSafe
  <2>2. pod.state \in {"up", "going", "terminated", "gone"}
    BY DEF IInv, WorldTypes, PodStates
  <2>3. ASSUME NEW e \in Uids
        PROVE  /\ pass[e].at \in Steps
               /\ obj[e] # None => obj[e].phase \in TerminalPhases \cup {"Pending", "Starting", "Running"}
    BY ExecParts DEF AllPhases
  <2>4. \A q \in wire : q.uid \in Uids /\ q.pod <= pod.n
    BY DEF IInv, WireSafe, WorldTypes, Requests
  <2>5. ExecTypeOK
    BY <2>1, <2>2, <2>3, <2>4 DEF ExecTypeOK, Steps
  <2>6. \A t \in {ws.readyAt, ws.active, ws.lastDone, ws.suspendedAt, ws.since, touched} : t \in 0..now
    <3>1. touched \in 0..now
      BY DEF IInv, WorldTypes
    <3> QED
      BY <3>1, WorkspaceParts
  <2>7. ws.desired \in {"Running", "Suspended"} /\ (ws.suspended => ws.desired = "Suspended" /\ ~ws.ready)
    BY WorkspaceParts DEF Desires, IInv, WorkspaceTypes
  <2>8. plan # None => plan.at \in Decisions
    BY DEF IInv, WorkspaceTypes, Plans
  <2> QED
    BY <2>5, <2>6, <2>7, <2>8 DEF TypeOK, Decisions
<1> QED
  BY <1>1, LifecycleInvariant, PTL

\* StatusTrue: however often a start is repeated, delayed or lost, a command
\* is launched once more only after the supervisor pruned its last run, and
\* a record that says Running or Exited is about a process that was launched
\* for it.  Executions have names of their own.
THEOREM StatusIsTrue == Spec => [](NamesUnique => StatusTrue)
<1>1. IInv => (NamesUnique => StatusTrue)
  <2> SUFFICES ASSUME IInv, NamesUnique, NEW e \in Uids
               PROVE  /\ launches[e] <= removed[e] + 1
                      /\ Exists(e) /\ obj[e].phase \in {"Running", "Exited"} => launches[e] >= 1
    BY DEF StatusTrue
  <2>1. launches[e] \in Nat
    BY DEF IInv, TableSafe
  <2>2. launches[e] <= removed[e] + 1
    BY DEF IInv, StartsSafe
  <2>3. Exists(e) /\ obj[e].phase \in {"Running", "Exited"} => launches[e] > 0
    BY ExecParts DEF OutcomeTrue, Settled, Exists
  <2> QED
    BY <2>1, <2>2, <2>3
<1> QED
  BY <1>1, LifecycleInvariant, PTL

\* ExpiryFenced: an expired Workspace is deleted only when no execution that
\* passed its gate is unfinished, and none passes afterwards.  (A lagging
\* cache can turn a result into Pending again.)
THEOREM ExpiryIsFenced == Spec => [](~load.lag => ExpiryFenced)
<1>1. IInv => (~load.lag => ExpiryFenced)
  BY DEF IInv, FenceSafe, AllFinished, ExpiryFenced
<1> QED
  BY <1>1, LifecycleInvariant, PTL

\* IdleClockKept: the idle timeout runs from the last completion, also when
\* the record of that execution is already deleted.
THEOREM IdleClock == Spec => []IdleClockKept
<1>1. IInv => IdleClockKept
  BY DEF IInv
<1> QED
  BY <1>1, LifecycleInvariant, PTL

\* SecretUntilStarted: an execution that waits to be started still has its
\* environment, whatever requests, failures and answers are under way.
THEOREM SecretsWait == Spec => []SecretUntilStarted
<1>1. IInv => SecretUntilStarted
  BY ExecParts DEF SecretUntilStarted, StartFits, Waiting, Exists
<1> QED
  BY <1>1, LifecycleInvariant, PTL

\* ResultKept: a result is never replaced by another one or by a late answer
\* of the supervisor; only a lagging cache can turn it into Pending.
THEOREM ResultsStay == Spec => ResultKept
<1> DEFINE Kept == \A e \in Uids : Exists(e) /\ Terminal(obj[e])
             => obj'[e] = None \/ obj'[e].phase \in {obj[e].phase} \cup (IF load.lag THEN {"Pending"} ELSE {})
<1>1. IInv /\ [Next]_vars => [Kept]_vars
  <2> SUFFICES ASSUME IInv, Next PROVE Kept
    OBVIOUS
  <2> QED
    BY ResultStep
<1> QED
  BY <1>1, LifecycleInvariant, PTL DEF Spec, ResultKept
=============================================================================
