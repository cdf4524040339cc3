--------------------------- MODULE WorktreeProofs ---------------------------
(***************************************************************************)
(* Theorems about WorktreeSystem: however the passes of Workspaces and     *)
(* WorktreeExecs, users, the kubelet, the Job controller and faults        *)
(* interleave, and for every number of Workspaces, WorktreeExecs,          *)
(* Worktrees, edits and faults, one Worktree is written by one consumer at *)
(* a time, what is mounted is held, a volume keeps its protection while it *)
(* is used, and a command is started at most once.                         *)
(*                                                                         *)
(* The argument has three layers.  The hold sets alone keep write holds    *)
(* exclusive and a closed set empty.  A Workspace asks for a hold before   *)
(* it creates the helper, and gives it back only in a pass that has seen   *)
(* no helper, or only helpers of the modes it keeps: the invariant records *)
(* at which steps of a pass that is known.  A WorktreeExec holds from      *)
(* admission until its Job and Pod have ended.                             *)
(*                                                                         *)
(* What each theorem leaves out is a condition on the load of the          *)
(* behaviour, the one the property itself names: a write mount edited to   *)
(* read while it is held, a deleted WorktreeExec, a cache that lags.       *)
(***************************************************************************)
EXTENDS WorktreeSystem, TLAPS, FiniteSetTheorems, WellFoundedInduction

(* Types that hold for every bound on edits, starts and faults.            *)

LooseSpecs == [mounts : Mounts, topology : Nat, gen : Nat,
               desired : {"Running", "Suspended", "Deleted", "Gone"}]
LoosePods == [phase : {"absent", "starting", "ready", "terminal", "stopping"},
              topology : Nat, claims : SUBSET Worktrees, acked : Nat]
LoosePasses == [pc : PassSteps, spec : LooseSpecs, active : BOOLEAN, ready : BOOLEAN,
                todo : SUBSET Worktrees]

StoreTypes ==
    /\ load \in Loads
    /\ hold \in [Worktrees -> HoldStates]
    /\ tree \in [Worktrees -> {"live", "deleting", "gone"}]
    /\ volume \in [Worktrees -> {"bound", "deleting", "released", "gone"}]

WorkspaceTypes ==
    /\ spec \in [Workspaces -> LooseSpecs]
    /\ active \in [Workspaces -> BOOLEAN]
    /\ pod \in [Workspaces -> LoosePods]
    /\ helper \in [Workspaces -> [Worktrees -> Helpers]]
    /\ pass \in [Workspaces -> LoosePasses]

ExecTypes ==
    /\ target \in [Execs -> Worktrees]
    /\ exec \in [Execs -> ExecStates]
    /\ job \in [Execs -> JobStates]
    /\ jobPod \in [Execs -> PodStates]
    /\ seen \in [Execs -> Views]
    /\ execPass \in [Execs -> {"idle", "recheck", "record", "create", "stop", "finish"}]
    /\ starts \in [Execs -> Nat]

-----------------------------------------------------------------------------
(* The inductive invariant.                                                *)

\* No two owners hold a Worktree for writing.
HoldsExclusive ==
    \A t \in Worktrees : \A o, p \in Owners :
        hold[t].mode[o] = "write" /\ hold[t].mode[p] = "write" => o = p

\* A volume without protection belongs to a hold set that is closed and empty.
VolumeClosed ==
    \A t \in Worktrees : volume[t] \in {"released", "gone"} =>
        hold[t].closed /\ \A o \in Owners : hold[t].mode[o] = "none"

\* What may be mounted is held, in some mode.
Covered(w) ==
    \A t \in Worktrees : Live(w, t) => helper[w][t].mode \in MountModes /\ hold[t].mode[w] # "none"

\* A pass that creates the Pod has seen that there is no helper.
Unused(w) == At(w, "admit") \/ At(w, "create") => NoHelpers(w)

\* What the loops of a pass range over.
Looping(w) ==
    /\ At(w, "admit") \/ At(w, "verify") \/ At(w, "readmit") => pass[w].todo # {}
    /\ At(w, "admit") \/ At(w, "readmit") => pass[w].todo \subseteq Mounted(pass[w].spec)

\* A pass that creates helpers holds what its spec mounts; one that gives holds
\* back has seen only helpers of the modes it keeps.
AsSpecified(w) ==
    /\ At(w, "readmit") =>
        \A t \in Mounted(pass[w].spec) \ pass[w].todo : hold[t].mode[w] = pass[w].spec.mounts[t]
    /\ At(w, "hot") => \A t \in Mounted(pass[w].spec) : hold[t].mode[w] = pass[w].spec.mounts[t]
    /\ At(w, "retain") => \A t \in Worktrees : Live(w, t) => helper[w][t].mode = pass[w].spec.mounts[t]

\* As long as no held write mount is edited to read: a helper that may write is
\* covered by a write hold, and neither the spec nor the pass asks for less.
NeverWeakened(w) ==
    "downgrade" \notin Disturbances =>
        \A t \in Worktrees :
            /\ Live(w, t) => hold[t].mode[w] \in {"write", helper[w][t].mode}
            /\ Live(w, t) /\ helper[w][t].mode = "write" =>
                    spec[w].mounts[t] # "read" /\ pass[w].spec.mounts[t] # "read"
            /\ pass[w].spec.mounts[t] = "write" => spec[w].mounts[t] # "read"

WorkspaceSafe(w) ==
    Covered(w) /\ Unused(w) /\ Looping(w) /\ AsSpecified(w) /\ NeverWeakened(w)

\* An exec x, its Job and Pod, the step of its pass, the number of starts and
\* the mode it holds, as far as a pass that reads fresh objects knows them:
\* a pass that schedules the Job has seen that there never was one; the only Job
\* is recorded before it is created; the command, from the time it is scheduled
\* until it has ended, is covered by the write hold of the exec; the result is
\* recorded after that; and an exec that no user deletes is there till then.
Scheduling(step) == step \in {"recheck", "record", "create"}
Runs(p) == p \in {"running", "stopping"}
Pending(j, p) == j \in {"created", "active"} \/ Runs(p)

Orderly(x, j, p, step, n, m) ==
    /\ Scheduling(step) => j = "absent" /\ p = "absent" /\ n = 0 /\ x.phase # "done"
    /\ step = "create" => x.recorded \/ x.phase = "deleted"
    /\ ~x.recorded /\ x.phase # "deleted" => j = "absent" /\ p = "absent" /\ n = 0
    /\ j = "created" => n = 0 /\ p = "absent"
    /\ n <= 1
    /\ j = "finished" => ~Runs(p)
    /\ step = "finish" => j \in {"absent", "finished"} /\ ~Runs(p)
    /\ x.phase = "done" => ~Pending(j, p)
    /\ x.phase # "deleted" /\ (Scheduling(step) \/ Pending(j, p)) => m = "write"
    /\ "deleteExec" \notin Disturbances /\ x.phase = "deleted" => ~Scheduling(step) /\ ~Pending(j, p)

ExecSafe(e) ==
    "lag" \notin Disturbances =>
        Orderly(exec[e], job[e], jobPod[e], execPass[e], starts[e], hold[target[e]].mode[e])

IInv ==
    /\ StoreTypes /\ WorkspaceTypes /\ ExecTypes
    /\ HoldsExclusive /\ VolumeClosed
    /\ \A w \in Workspaces : WorkspaceSafe(w)
    /\ \A e \in Execs : ExecSafe(e)

-----------------------------------------------------------------------------
(* What the operations on holds, passes and helpers change.                *)

\* The first Worktree of a loop is one of those left: FirstOf is a minimum.
LEMMA FirstOfLeft ==
    ASSUME NEW S, S \subseteq Worktrees, S # {}
    PROVE  FirstOf(S) \in S
<1>1. S \subseteq Nat
  BY WorktreesAssumption
<1>2. PICK t \in S : \A u \in S : ~(<<u, t>> \in OpToRel(<, Nat))
  BY <1>1, NatLessThanWellFounded, WFMin
<1>3. \A u, v \in Nat : u < v => <<u, v>> \in OpToRel(<, Nat)
  BY DEF OpToRel
<1>4. \A u \in S : ~(u < t)
  BY <1>1, <1>2, <1>3, Zenon
<1>5. \A u \in S : t <= u
  BY <1>1, <1>4
<1> QED BY <1>5 DEF FirstOf

\* A step of owner o on the hold sets: nobody else's hold changes, a new write
\* hold meets no other, and a closed set gets no new holder.
HoldMoves(o) ==
    /\ hold' \in [Worktrees -> HoldStates]
    /\ \A t \in Worktrees :
        /\ hold'[t].closed <=> hold[t].closed
        /\ \A p \in Owners \ {o} : hold'[t].mode[p] = hold[t].mode[p]
        /\ hold'[t].mode[o] = "write" /\ hold[t].mode[o] # "write" =>
                \A p \in Owners : hold[t].mode[p] # "write"
        /\ hold'[t].mode[o] # "none" /\ hold[t].mode[o] = "none" => ~hold[t].closed

\* Holds of others stay, so the write holds stay exclusive, and so does what a
\* volume without protection knows.
LEMMA HoldMovesKeeps ==
    ASSUME StoreTypes, HoldsExclusive, VolumeClosed, NEW o \in Owners, HoldMoves(o), volume' = volume
    PROVE  HoldsExclusive' /\ VolumeClosed'
<1>1. HoldsExclusive'
  BY DEF StoreTypes, HoldsExclusive, HoldMoves
<1>2. VolumeClosed'
  BY DEF StoreTypes, VolumeClosed, HoldMoves
<1> QED BY <1>1, <1>2

\* MountAccess that changes nothing.
LEMMA SameHolds ==
    ASSUME StoreTypes, hold' = hold, NEW o \in Owners
    PROVE  HoldMoves(o)
BY DEF StoreTypes, HoldMoves

\* MountAccess.Admit changes one hold at most, to the mode asked for, and does
\* exactly when the request is admitted.
LEMMA AdmitMoves ==
    ASSUME StoreTypes, NEW t \in Worktrees, NEW o \in Owners, NEW m \in MountModes,
           hold' = AfterAdmit(t, o, m)
    PROVE  /\ HoldMoves(o)
           /\ \A u \in Worktrees \ {t} : hold'[u] = hold[u]
           /\ hold'[t].mode[o] = IF MayMount(t, o, m) THEN m ELSE hold[t].mode[o]
<1> USE DEF MountModes
<1>1. hold[t] \in HoldStates
  BY DEF StoreTypes
<1>2. CASE tree[t] = "gone"
  BY <1>2, SameHolds DEF AfterAdmit, MayMount
<1>3. CASE tree[t] # "gone"
  <2> DEFINE f == Admit(Fenced(t), o, m)
  <2>1. /\ Fenced(t).mode = hold[t].mode
        /\ Fenced(t).closed <=> hold[t].closed \/ tree[t] # "live"
    BY <1>1 DEF Fenced, HoldStates
  <2>2. Fenced(t) = [closed |-> Fenced(t).closed, mode |-> hold[t].mode]
    BY <1>1, <2>1 DEF Fenced, HoldStates
  <2>3. /\ f.mode \in [Owners -> MountModes \cup {"none"}]
        /\ \A p \in Owners \ {o} : f.mode[p] = hold[t].mode[p]
        /\ f.mode[o] = IF hold[t].mode[o] # m /\ MayAdmit(Fenced(t), o, m) THEN m ELSE hold[t].mode[o]
    BY <1>1, <2>1, <2>2 DEF Admit, Put, HoldStates
  <2>4. /\ hold' \in [Worktrees -> HoldStates]
        /\ hold'[t].mode = f.mode /\ (hold'[t].closed <=> hold[t].closed)
        /\ \A u \in Worktrees \ {t} : hold'[u] = hold[u]
    BY <1>1, <1>3, <2>3 DEF AfterAdmit, StoreTypes, HoldStates
  <2>5. MayAdmit(Fenced(t), o, m) =>
            /\ ~hold[t].closed
            /\ m = "write" => \A p \in Owners \ {o} : hold[t].mode[p] # "write"
    BY <1>1, <2>1 DEF MayAdmit, Conflicts, Holders, WriterExcludesWriter, HoldStates
  <2> HIDE DEF f
  <2>6. HoldMoves(o)
    <3>1. \A u \in Worktrees \ {t} :
            /\ hold'[u].closed <=> hold[u].closed
            /\ \A p \in Owners : hold'[u].mode[p] = hold[u].mode[p]
      BY <2>4
    <3>2. \A p \in Owners \ {o} : hold'[t].mode[p] = hold[t].mode[p]
      BY <2>3, <2>4
    <3>3. hold'[t].mode[o] # hold[t].mode[o] => hold'[t].mode[o] = m /\ MayAdmit(Fenced(t), o, m)
      BY <2>3, <2>4
    <3> QED BY <2>4, <2>5, <3>1, <3>2, <3>3 DEF HoldMoves
  <2>7. hold'[t].mode[o] = IF MayMount(t, o, m) THEN m ELSE hold[t].mode[o]
    BY <1>3, <2>1, <2>3, <2>4 DEF MayMount, Admitted, Held
  <2> QED BY <2>4, <2>6, <2>7
<1> QED BY <1>2, <1>3

\* MountAccess.Release drops one hold.
LEMMA ReleaseMoves ==
    ASSUME StoreTypes, NEW t \in Worktrees, NEW o \in Owners, hold' = AfterRelease(t, o)
    PROVE  HoldMoves(o)
<1>1. hold[t] \in HoldStates
  BY DEF StoreTypes
<1>2. /\ Remove(hold[t], o) \in HoldStates
      /\ Remove(hold[t], o).closed <=> hold[t].closed
      /\ \A p \in Owners \ {o} : Remove(hold[t], o).mode[p] = hold[t].mode[p]
      /\ Remove(hold[t], o).mode[o] = "none"
  BY <1>1 DEF Remove, HoldStates
<1> QED BY <1>2 DEF AfterRelease, HoldMoves, StoreTypes

\* MountAccess.Retain keeps a hold, weakens it or drops it, as asked.
LEMMA RetainMoves ==
    ASSUME StoreTypes, NEW o \in Owners, NEW keep \in Mounts, hold' = AfterRetain(o, keep)
    PROVE  /\ HoldMoves(o)
           /\ \A t \in Worktrees : hold'[t].mode[o] =
                IF hold[t].mode[o] = "none" \/ keep[t] = "write" THEN hold[t].mode[o] ELSE keep[t]
<1>1. ASSUME NEW t \in Worktrees
      PROVE  /\ hold'[t] \in HoldStates
             /\ hold'[t].closed <=> hold[t].closed
             /\ \A p \in Owners \ {o} : hold'[t].mode[p] = hold[t].mode[p]
             /\ hold'[t].mode[o] =
                    IF hold[t].mode[o] = "none" \/ keep[t] = "write" THEN hold[t].mode[o] ELSE keep[t]
  <2>1. hold[t] \in HoldStates /\ keep[t] \in {"none", "read", "write"}
    BY DEF StoreTypes, Mounts
  <2>2. hold'[t] = IF hold[t].mode[o] = "none" \/ keep[t] = "write" THEN hold[t]
                   ELSE IF keep[t] = "none" THEN Remove(hold[t], o) ELSE Put(hold[t], o, "read")
    BY DEF AfterRetain
  <2> QED BY <2>1, <2>2 DEF Remove, Put, HoldStates, MountModes
<1>2. hold' \in [Worktrees -> HoldStates]
  BY <1>1 DEF AfterRetain
<1>3. \A t \in Worktrees : hold'[t].mode[o] \in {hold[t].mode[o], "none", "read"}
  BY <1>1 DEF Mounts
<1>4. \A t \in Worktrees : hold[t].mode[o] = "none" => hold'[t].mode[o] = "none"
  BY <1>1
<1>5. HoldMoves(o)
  BY <1>1, <1>2, <1>3, <1>4 DEF HoldMoves
<1> QED BY <1>1, <1>5

\* ReleaseAll drops every hold of the Workspace.
LEMMA ReleaseAllMoves ==
    ASSUME StoreTypes, NEW w \in Workspaces, ReleaseAll(w)
    PROVE  HoldMoves(w)
<1>1. w \in Owners /\ KeepNothing \in Mounts
  BY WorkspacesAssumption DEF KeepNothing, Mounts
<1> QED BY <1>1, RetainMoves DEF ReleaseAll

-----------------------------------------------------------------------------
(* Steps of a Workspace.                                                   *)

\* The pass of w is now at a step, with a spec and a set of Worktrees to do.
PassBecomes(w, step, s, S) ==
    /\ pass' \in [Workspaces -> LoosePasses]
    /\ \A v \in Workspaces \ {w} : pass'[v] = pass[v]
    /\ pass'[w].pc = step /\ pass'[w].spec = s /\ pass'[w].todo = S

\* A pass that returns is idle and has forgotten its spec.
LEMMA EndShape ==
    ASSUME WorkspaceTypes, NEW w \in Workspaces, End(w)
    PROVE  PassBecomes(w, "idle", NewSpec, {})
<1>1. NoPass \in LoosePasses
  BY DEF NoPass, NewSpec, LoosePasses, LooseSpecs, PassSteps, NoMounts, Mounts
<1>2. NoPass.pc = "idle" /\ NoPass.spec = NewSpec /\ NoPass.todo = {}
  BY DEF NoPass
<1> QED BY <1>1, <1>2 DEF End, PassBecomes, WorkspaceTypes

\* A pass that goes on keeps its spec and what is left to do.
LEMMA GoToShape ==
    ASSUME WorkspaceTypes, NEW w \in Workspaces, NEW step \in PassSteps, GoTo(w, step)
    PROVE  PassBecomes(w, step, pass[w].spec, pass[w].todo)
BY DEF GoTo, PassBecomes, WorkspaceTypes, LoosePasses

\* A loop goes on while something is left to do.
LEMMA LoopShape ==
    ASSUME WorkspaceTypes, NEW w \in Workspaces, NEW step \in PassSteps, NEW then \in PassSteps,
           NEW S \in SUBSET Worktrees, Loop(w, step, S, then)
    PROVE  PassBecomes(w, IF S = {} THEN then ELSE step, pass[w].spec, S)
BY ZenonT(40) DEF Loop, PassBecomes, WorkspaceTypes, LoosePasses

\* Helpers of w stop, or go: none appears and none changes its mode.
HelpersShrink(w) ==
    /\ helper' \in [Workspaces -> [Worktrees -> Helpers]]
    /\ \A v \in Workspaces \ {w} : helper'[v] = helper[v]
    /\ \A t \in Worktrees : Live(w, t)' => Live(w, t) /\ helper'[w][t].mode = helper[w][t].mode
    /\ NoHelpers(w) => NoHelpers(w)'

\* Helpers that do not change do not grow.
LEMMA SameHelpers ==
    ASSUME WorkspaceTypes, NEW w \in Workspaces, helper' = helper
    PROVE  HelpersShrink(w)
BY DEF WorkspaceTypes, HelpersShrink, Live, NoHelpers

\* One helper is replaced by one that is not more alive.
LEMMA HelperShrinks ==
    ASSUME WorkspaceTypes, NEW w \in Workspaces, NEW t \in Worktrees, NEW h \in Helpers,
           helper' = [helper EXCEPT ![w][t] = h],
           h.phase \in {"starting", "ready", "failed", "cleaning"} =>
                Live(w, t) /\ h.mode = helper[w][t].mode,
           helper[w][t].phase = "absent" => h.phase = "absent"
    PROVE  HelpersShrink(w)
<1>1. /\ helper' \in [Workspaces -> [Worktrees -> Helpers]]
      /\ \A v \in Workspaces \ {w} : helper'[v] = helper[v]
      /\ \A u \in Worktrees \ {t} : helper'[w][u] = helper[w][u]
      /\ helper'[w][t] = h
  BY DEF WorkspaceTypes
<1> QED BY <1>1 DEF HelpersShrink, Live, NoHelpers

\* Deleting or cleaning a helper leaves its mode and makes none alive.
LEMMA DropShrinks ==
    ASSUME WorkspaceTypes, NEW w \in Workspaces, NEW S \in SUBSET Worktrees, DropHelper(w, S)
    PROVE  HelpersShrink(w)
<1>1. PICK t \in Worktrees :
        \/ helper' = helper
        \/ helper' = [helper EXCEPT ![w][t].deleting = TRUE]
        \/ helper[w][t].phase = "failed" /\ helper' = [helper EXCEPT ![w][t].phase = "cleaning"]
  BY DEF DropHelper
<1>2. helper[w][t] \in Helpers
  BY DEF WorkspaceTypes
<1>3. CASE helper' = helper
  BY <1>3, SameHelpers
<1>4. CASE helper' = [helper EXCEPT ![w][t].deleting = TRUE]
  <2> DEFINE h == [helper[w][t] EXCEPT !.deleting = TRUE]
  <2>1. h \in Helpers /\ h.phase = helper[w][t].phase /\ h.mode = helper[w][t].mode
    BY <1>2 DEF Helpers
  <2>2. helper' = [helper EXCEPT ![w][t] = h]
    BY <1>4
  <2> QED BY <2>1, <2>2, HelperShrinks DEF Live
<1>5. CASE helper[w][t].phase = "failed" /\ helper' = [helper EXCEPT ![w][t].phase = "cleaning"]
  <2> DEFINE h == [helper[w][t] EXCEPT !.phase = "cleaning"]
  <2>1. h \in Helpers /\ h.phase = "cleaning" /\ h.mode = helper[w][t].mode
    BY <1>2 DEF Helpers, HelperPhases
  <2>2. helper' = [helper EXCEPT ![w][t] = h]
    BY <1>5
  <2> QED BY <1>5, <2>1, <2>2, HelperShrinks DEF Live
<1> QED BY <1>1, <1>3, <1>4, <1>5

\* Removing helpers, and then stopping the Pod, never adds a helper.
LEMMA UnmountShrinks ==
    ASSUME WorkspaceTypes, NEW w \in Workspaces, Unmount(w)
    PROVE  HelpersShrink(w) /\ hold' = hold /\ pod' = pod
<1>1. {t \in Worktrees : helper[w][t].phase # "absent"} \in SUBSET Worktrees
  OBVIOUS
<1> QED BY <1>1, DropShrinks DEF Unmount

\* The Pod is stopped after the helpers; no hold changes.
LEMMA UnmountThenStopShrinks ==
    ASSUME WorkspaceTypes, NEW w \in Workspaces, UnmountThenStop(w)
    PROVE  HelpersShrink(w) /\ hold' = hold /\ pod' \in [Workspaces -> LoosePods]
<1>1. CASE Unmount(w)
  BY <1>1, UnmountShrinks DEF WorkspaceTypes
<1>2. CASE ~Unmount(w)
  <2>1. /\ helper' = helper /\ hold' = hold
        /\ pod' = IF pod[w].phase = "absent" THEN pod ELSE [pod EXCEPT ![w].phase = "stopping"]
    BY <1>2 DEF UnmountThenStop
  <2>2. pod' \in [Workspaces -> LoosePods]
    BY <2>1 DEF WorkspaceTypes, LoosePods
  <2> QED BY <2>1, <2>2, SameHelpers
<1> QED BY <1>1, <1>2

\* A step of somebody else leaves what a Workspace knows.
LEMMA OthersSafe ==
    ASSUME NEW v \in Workspaces, WorkspaceSafe(v), NEW o \in Owners \ {v}, HoldMoves(o),
           helper'[v] = helper[v], pass'[v] = pass[v], spec'[v] = spec[v], load' = load
    PROVE  WorkspaceSafe(v)'
<1>1. v \in Owners
  BY WorkspacesAssumption
<1>2. \A t \in Worktrees : hold'[t].mode[v] = hold[t].mode[v]
  BY <1>1 DEF HoldMoves
<1>3. Covered(v)'
  BY <1>2 DEF WorkspaceSafe, Covered, Live
<1>4. Unused(v)' /\ Looping(v)'
  BY DEF WorkspaceSafe, Unused, Looping, NoHelpers, At, Mounted
<1>5. AsSpecified(v)'
  BY <1>2 DEF WorkspaceSafe, AsSpecified, Live, At, Mounted
<1>6. NeverWeakened(v)'
  BY <1>2 DEF WorkspaceSafe, NeverWeakened, Live, Disturbances
<1> QED BY <1>3, <1>4, <1>5, <1>6 DEF WorkspaceSafe

\* A WorktreeExec does not depend on the holds of Workspaces.
LEMMA WorkspaceLeavesExecs ==
    ASSUME ExecTypes, NEW w \in Workspaces, HoldMoves(w), UNCHANGED execVars, load' = load,
           \A e \in Execs : ExecSafe(e)
    PROVE  \A e \in Execs : ExecSafe(e)'
<1> SUFFICES ASSUME NEW e \in Execs PROVE ExecSafe(e)'
  OBVIOUS
<1>1. e \in Owners \ {w} /\ target[e] \in Worktrees
  BY KindsAssumption, ExecsAssumption DEF ExecTypes
<1>2. hold'[target[e]].mode[e] = hold[target[e]].mode[e]
  BY <1>1 DEF HoldMoves
<1> QED BY <1>2 DEF ExecSafe, Orderly, Disturbances, execVars

\* What a step of w must show: it is safe itself.
LEMMA WorkspaceStep ==
    ASSUME IInv, NEW w \in Workspaces, HoldMoves(w), WorkspaceTypes', WorkspaceSafe(w)',
           \A v \in Workspaces \ {w} : helper'[v] = helper[v] /\ pass'[v] = pass[v] /\ spec'[v] = spec[v],
           UNCHANGED <<load, tree, volume, execVars>>
    PROVE  IInv'
<1>1. w \in Owners
  BY WorkspacesAssumption
<1>2. StoreTypes'
  BY DEF IInv, StoreTypes, HoldMoves
<1>3. ExecTypes'
  BY DEF IInv, ExecTypes, execVars
<1>4. HoldsExclusive' /\ VolumeClosed'
  BY <1>1, HoldMovesKeeps DEF IInv
<1>5. ASSUME NEW v \in Workspaces PROVE WorkspaceSafe(v)'
  <2>1. CASE v = w
    BY <2>1
  <2>2. CASE v # w
    BY <1>1, <2>2, OthersSafe DEF IInv
  <2> QED BY <2>1, <2>2
<1>6. \A e \in Execs : ExecSafe(e)'
  BY WorkspaceLeavesExecs DEF IInv
<1> QED BY <1>2, <1>3, <1>4, <1>5, <1>6 DEF IInv

\* A step that creates no helper, gives back no hold of one and promises nothing
\* about the rest of the pass.
LEMMA QuietSafe ==
    ASSUME NEW w \in Workspaces, WorkspaceTypes, WorkspaceSafe(w), HelpersShrink(w),
           \A t \in Worktrees : Live(w, t)' => hold'[t].mode[w] \in {hold[t].mode[w], "write"},
           pass'[w].pc \in {"idle", "resolve", "verify", "topology", "ack"},
           pass'[w].pc = "verify" => pass'[w].todo # {},
           pass'[w].spec \in {NewSpec, spec[w], pass[w].spec},
           spec'[w].mounts \in {spec[w].mounts, NoMounts},
           load' = load
    PROVE  WorkspaceSafe(w)'
<1>1. \A t \in Worktrees : Live(w, t)' => Live(w, t) /\ helper'[w][t].mode = helper[w][t].mode
  BY DEF HelpersShrink
<1>2. Covered(w)'
  BY <1>1 DEF WorkspaceSafe, Covered
<1>3. Unused(w)' /\ Looping(w)' /\ AsSpecified(w)'
  BY DEF Unused, Looping, AsSpecified, At
<1>4. NeverWeakened(w)'
  <2>1. \A t \in Worktrees : /\ NewSpec.mounts[t] = "none" /\ NoMounts[t] = "none"
    BY DEF NewSpec, NoMounts
  <2>2. \A t \in Worktrees :
            /\ spec'[w].mounts[t] \in {spec[w].mounts[t], "none"}
            /\ pass'[w].spec.mounts[t] \in {"none", spec[w].mounts[t], pass[w].spec.mounts[t]}
    BY <2>1
  <2> QED BY <1>1, <2>2, SMTT(30) DEF WorkspaceSafe, NeverWeakened, Disturbances
<1> QED BY <1>2, <1>3, <1>4 DEF WorkspaceSafe

-----------------------------------------------------------------------------
(* The reconcile pass of a Workspace, action by action.                    *)

\* What every step of a pass leaves alone.
PassFrame == UNCHANGED <<load, tree, volume, spec, active, execVars>>

\* A step that ends the pass, removes helpers at most and keeps every hold of w.
LEMMA EndKeeps ==
    ASSUME IInv, NEW w \in Workspaces, End(w), HelpersShrink(w), HoldMoves(w),
           \A t \in Worktrees : Live(w, t)' => hold'[t].mode[w] = hold[t].mode[w],
           pod' \in [Workspaces -> LoosePods], PassFrame
    PROVE  IInv'
<1>1. WorkspaceTypes /\ WorkspaceSafe(w)
  BY DEF IInv
<1>2. PassBecomes(w, "idle", NewSpec, {})
  BY <1>1, EndShape
<1>3. WorkspaceTypes'
  BY <1>1, <1>2 DEF WorkspaceTypes, PassBecomes, PassFrame, HelpersShrink
<1>4. WorkspaceSafe(w)'
  BY <1>1, <1>2, QuietSafe DEF PassBecomes, PassFrame
<1> QED BY <1>2, <1>3, <1>4, WorkspaceStep DEF PassBecomes, PassFrame, HelpersShrink

\* Without a helper the holds of w may go.
LEMMA EndReleasing ==
    ASSUME IInv, NEW w \in Workspaces, End(w), NoHelpers(w), helper' = helper, ReleaseAll(w),
           pod' = pod, PassFrame
    PROVE  IInv'
<1>1. WorkspaceTypes /\ StoreTypes
  BY DEF IInv
<1>2. HelpersShrink(w) /\ HoldMoves(w) /\ pod' \in [Workspaces -> LoosePods]
  BY <1>1, SameHelpers, ReleaseAllMoves DEF WorkspaceTypes
<1>3. \A t \in Worktrees : ~Live(w, t)'
  BY DEF NoHelpers, Live
<1> QED BY <1>2, <1>3, EndKeeps

\* Helpers and then the Pod go, the holds stay.
LEMMA EndUnmounting ==
    ASSUME IInv, NEW w \in Workspaces, End(w), UnmountThenStop(w), PassFrame
    PROVE  IInv'
<1>1. WorkspaceTypes /\ StoreTypes /\ w \in Owners
  BY WorkspacesAssumption DEF IInv
<1>2. HelpersShrink(w) /\ hold' = hold /\ pod' \in [Workspaces -> LoosePods]
  BY <1>1, UnmountThenStopShrinks
<1> QED BY <1>1, <1>2, SameHolds, EndKeeps

\* The pass just ends.
LEMMA EndOnly ==
    ASSUME IInv, NEW w \in Workspaces, End(w), UNCHANGED <<hold, helper>>,
           pod' \in [Workspaces -> LoosePods], PassFrame
    PROVE  IInv'
<1>1. WorkspaceTypes /\ StoreTypes /\ w \in Owners
  BY WorkspacesAssumption DEF IInv
<1> QED BY <1>1, SameHelpers, SameHolds, EndKeeps

\* A pass that starts reads the spec; holds go only without Pod and helpers.
LEMMA BeginPassKeeps ==
    ASSUME IInv, NEW w \in Workspaces, BeginPass(w), UNCHANGED <<load, execVars>>
    PROVE  IInv'
<1>1. WorkspaceTypes /\ StoreTypes /\ WorkspaceSafe(w) /\ w \in Owners
  BY WorkspacesAssumption DEF IInv
<1>2. /\ PassBecomes(w, "resolve", spec[w], pass[w].todo)
      /\ PassFrame
  BY <1>1, ZenonT(40) DEF BeginPass, KeepUsers, PassFrame, PassBecomes, WorkspaceTypes, LoosePasses, PassSteps
<1>3. /\ HelpersShrink(w) /\ HoldMoves(w) /\ pod' = pod
      /\ \A t \in Worktrees : Live(w, t)' => hold'[t].mode[w] = hold[t].mode[w]
  <2>1. CASE pod[w].phase # "absent"
    BY <1>1, <2>1, SameHelpers, SameHolds DEF BeginPass
  <2>2. CASE pod[w].phase = "absent" /\ NoHelpers(w)
    <3>1. ReleaseAll(w) /\ helper' = helper /\ pod' = pod
      BY <2>2 DEF BeginPass
    <3>2. \A t \in Worktrees : ~Live(w, t)'
      BY <2>2, <3>1 DEF NoHelpers, Live
    <3> QED BY <1>1, <3>1, <3>2, SameHelpers, ReleaseAllMoves
  <2>3. CASE pod[w].phase = "absent" /\ ~NoHelpers(w)
    <3>1. Unmount(w)
      BY <2>3 DEF BeginPass
    <3> QED BY <1>1, <3>1, UnmountShrinks, SameHolds
  <2> QED BY <2>1, <2>2, <2>3
<1>4. WorkspaceTypes'
  BY <1>1, <1>2, <1>3 DEF WorkspaceTypes, PassBecomes, PassFrame, HelpersShrink
<1>5. WorkspaceSafe(w)'
  BY <1>1, <1>2, <1>3, QuietSafe DEF PassBecomes, PassFrame
<1> QED BY <1>2, <1>3, <1>4, <1>5, WorkspaceStep DEF PassBecomes, PassFrame, HelpersShrink

\* A step that goes on with the loops before the Pod is created.
LEMMA AdmittingKeeps ==
    ASSUME IInv, NEW w \in Workspaces, NoHelpers(w), helper' = helper, pod' = pod, HoldMoves(w),
           NEW S \in SUBSET Mounted(pass[w].spec), Loop(w, "admit", S, "create"), PassFrame
    PROVE  IInv'
<1>1. WorkspaceTypes /\ WorkspaceSafe(w)
  BY DEF IInv
<1>2. PassBecomes(w, IF S = {} THEN "create" ELSE "admit", pass[w].spec, S)
  <2>1. S \in SUBSET Worktrees /\ "admit" \in PassSteps /\ "create" \in PassSteps
    BY DEF Mounted, PassSteps
  <2> QED BY <1>1, <2>1, LoopShape
<1>3. WorkspaceTypes'
  BY <1>1, <1>2 DEF WorkspaceTypes, PassBecomes, PassFrame
<1>4. NoHelpers(w)' /\ \A t \in Worktrees : ~Live(w, t)'
  BY DEF NoHelpers, Live
<1>5. WorkspaceSafe(w)'
  <2>1. Covered(w)' /\ Unused(w)'
    BY <1>4 DEF Covered, Unused
  <2>2. Looping(w)' /\ AsSpecified(w)'
    BY <1>2, <1>4 DEF PassBecomes, Looping, AsSpecified, At, Mounted
  <2>3. NeverWeakened(w)'
    BY <1>1, <1>2, <1>4 DEF WorkspaceSafe, NeverWeakened, Disturbances, PassBecomes, PassFrame
  <2> QED BY <2>1, <2>2, <2>3 DEF WorkspaceSafe
<1> QED BY <1>2, <1>3, <1>5, WorkspaceStep DEF PassBecomes, PassFrame

\* The Pod and what it may write: the pass goes on to check it.
LEMMA CheckRuntimeKeeps ==
    ASSUME IInv, NEW w \in Workspaces, CheckRuntime(w), PassFrame
    PROVE  IInv'
<1>1. WorkspaceTypes /\ StoreTypes /\ WorkspaceSafe(w) /\ w \in Owners
  BY WorkspacesAssumption DEF IInv
<1> DEFINE S == IF pod[w].topology = pass[w].spec.topology THEN Writes(pass[w].spec) ELSE pod[w].claims
<1>2. S \in SUBSET Worktrees
  BY <1>1 DEF Writes, WorkspaceTypes, LoosePods
<1>3. PassBecomes(w, IF S = {} THEN "topology" ELSE "verify", pass[w].spec, S)
  <2> DEFINE step == IF S = {} THEN "topology" ELSE "verify"
             Passing(B) == [pc : PassSteps, spec : LooseSpecs, active : B, ready : B, todo : SUBSET Worktrees]
  <2>1. PICK B : B = BOOLEAN
    OBVIOUS
  <2>2. pass \in [Workspaces -> Passing(B)]
    BY <1>1, <2>1 DEF WorkspaceTypes, LoosePasses
  <2>3. active[w] \in B /\ (pod[w].phase = "ready") \in B
    BY <1>1, <2>1 DEF WorkspaceTypes
  <2>4. PICK busy \in B, up \in B :
            pass' = [pass EXCEPT ![w].pc = step, ![w].todo = S, ![w].active = busy, ![w].ready = up]
    BY <2>3 DEF CheckRuntime
  <2>5. step \in PassSteps
    BY DEF PassSteps
  <2> HIDE DEF S, step
  <2>6. /\ pass' \in [Workspaces -> Passing(B)]
        /\ \A v \in Workspaces \ {w} : pass'[v] = pass[v]
        /\ pass'[w].pc = step /\ pass'[w].spec = pass[w].spec /\ pass'[w].todo = S
    BY <1>2, <2>2, <2>4, <2>5, ZenonT(40)
  <2>7. pass' \in [Workspaces -> LoosePasses]
    BY <2>1, <2>6 DEF LoosePasses
  <2> QED BY <2>6, <2>7 DEF PassBecomes, step
<1> HIDE DEF S
<1>4. HelpersShrink(w) /\ HoldMoves(w) /\ UNCHANGED <<hold, pod, helper>>
  BY <1>1, SameHelpers, SameHolds DEF CheckRuntime
<1>5. WorkspaceTypes'
  BY <1>1, <1>3, <1>4 DEF WorkspaceTypes, PassBecomes, PassFrame
<1>6. WorkspaceSafe(w)'
  BY <1>1, <1>3, <1>4, QuietSafe DEF PassBecomes, PassFrame
<1> QED BY <1>3, <1>4, <1>5, <1>6, WorkspaceStep DEF PassBecomes, PassFrame

\* Recovery, suspension, and the start or check of the runtime: holds are given
\* back only without helpers.
LEMMA ResolveKeeps ==
    ASSUME IInv, NEW w \in Workspaces, Resolve(w), UNCHANGED <<load, execVars>>
    PROVE  IInv'
<1>1. WorkspaceTypes /\ StoreTypes
  BY DEF IInv
<1>2. PassFrame /\ pod \in [Workspaces -> LoosePods]
  BY <1>1 DEF Resolve, KeepUsers, PassFrame, WorkspaceTypes
<1>3. \/ Recover(w) \/ Suspend(w) \/ StartRuntime(w) \/ CheckRuntime(w)
      \/ End(w) /\ UNCHANGED <<hold, pod, helper>>
  BY DEF Resolve
<1>4. CASE Recover(w)
  BY <1>2, <1>4, EndOnly, EndUnmounting DEF Recover
<1>5. CASE Suspend(w)
  BY <1>2, <1>5, EndOnly, EndUnmounting, EndReleasing DEF Suspend
<1>6. CASE StartRuntime(w) /\ NoHelpers(w)
  <2>1. /\ ReleaseAll(w) /\ Loop(w, "admit", Mounted(pass[w].spec), "create")
        /\ UNCHANGED <<pod, helper>>
    BY <1>6 DEF StartRuntime
  <2>2. HoldMoves(w)
    BY <1>1, <2>1, ReleaseAllMoves
  <2> QED BY <1>2, <1>6, <2>1, <2>2, AdmittingKeeps
<1>7. CASE StartRuntime(w) /\ ~NoHelpers(w)
  BY <1>2, <1>7, EndUnmounting DEF StartRuntime, UnmountThenStop
<1>8. CASE CheckRuntime(w)
  BY <1>2, <1>8, CheckRuntimeKeeps
<1>9. CASE End(w) /\ UNCHANGED <<hold, pod, helper>>
  BY <1>2, <1>9, EndOnly
<1> QED BY <1>3, <1>4, <1>5, <1>6, <1>7, <1>8, <1>9

\* What a pass writes when it asks for a mount.
LEMMA RequestMoves ==
    ASSUME StoreTypes, NEW w \in Workspaces, NEW t \in Worktrees, NEW m \in MountModes,
           hold' = AfterRequest(w, t, m)
    PROVE  /\ HoldMoves(w)
           /\ \A u \in Worktrees \ {t} : hold'[u] = hold[u]
           /\ hold'[t].mode[w] = IF MayHold(w, t, m) THEN m ELSE hold[t].mode[w]
<1>1. w \in Owners
  BY WorkspacesAssumption
<1>2. CASE OwnerLive(w)
  BY <1>1, <1>2, AdmitMoves DEF AfterRequest, MayHold
<1>3. CASE ~OwnerLive(w)
  BY <1>1, <1>3, SameHolds DEF AfterRequest, MayHold
<1> QED BY <1>2, <1>3

\* The Worktree a loop is at, and the mode its spec asks for.
LEMMA LoopNext ==
    ASSUME NEW w \in Workspaces, WorkspaceTypes, Looping(w), At(w, "admit") \/ At(w, "readmit")
    PROVE  /\ FirstOf(pass[w].todo) \in Worktrees
           /\ pass[w].spec.mounts[FirstOf(pass[w].todo)] \in MountModes
           /\ pass[w].todo \in SUBSET Mounted(pass[w].spec)
<1>1. pass[w].todo \subseteq Mounted(pass[w].spec) /\ pass[w].todo # {} /\ pass[w].todo \subseteq Worktrees
  BY DEF Looping, Mounted
<1>2. FirstOf(pass[w].todo) \in pass[w].todo
  BY <1>1, FirstOfLeft
<1>3. pass[w].spec.mounts \in Mounts
  BY DEF WorkspaceTypes, LoosePasses, LooseSpecs
<1> QED BY <1>1, <1>2, <1>3 DEF Mounted, Mounts, MountModes

\* Admission before the Pod is created, with no helper to protect.
LEMMA AdmitMountKeeps ==
    ASSUME IInv, NEW w \in Workspaces, AdmitMount(w), UNCHANGED <<load, execVars>>
    PROVE  IInv'
<1> DEFINE t == FirstOf(pass[w].todo)
           m == pass[w].spec.mounts[t]
<1>1. WorkspaceTypes /\ StoreTypes /\ Unused(w) /\ Looping(w)
  BY DEF IInv, WorkspaceSafe
<1>2. /\ At(w, "admit") /\ PassFrame /\ UNCHANGED <<pod, helper>>
      /\ pod \in [Workspaces -> LoosePods]
  BY <1>1 DEF AdmitMount, KeepUsers, PassFrame, WorkspaceTypes
<1>3. NoHelpers(w)
  BY <1>1, <1>2 DEF Unused
<1>4. t \in Worktrees /\ m \in MountModes /\ pass[w].todo \in SUBSET Mounted(pass[w].spec)
  BY <1>1, <1>2, LoopNext
<1>5. \/ hold' = AfterRequest(w, t, m) /\ Loop(w, "admit", pass[w].todo \ {t}, "create")
      \/ ReleaseAll(w) /\ End(w)
      \/ UNCHANGED hold /\ End(w)
  BY DEF AdmitMount
<1> HIDE DEF t, m
<1>6. CASE hold' = AfterRequest(w, t, m) /\ Loop(w, "admit", pass[w].todo \ {t}, "create")
  <2>1. HoldMoves(w) /\ pass[w].todo \ {t} \in SUBSET Mounted(pass[w].spec)
    BY <1>1, <1>4, <1>6, RequestMoves
  <2> QED BY <1>2, <1>3, <1>6, <2>1, AdmittingKeeps
<1>7. CASE ReleaseAll(w) /\ End(w)
  BY <1>2, <1>3, <1>7, EndReleasing
<1>8. CASE UNCHANGED hold /\ End(w)
  BY <1>2, <1>8, EndOnly
<1> QED BY <1>5, <1>6, <1>7, <1>8

\* A new Pod mounts nothing yet.
LEMMA CreatePodKeeps ==
    ASSUME IInv, NEW w \in Workspaces, CreatePod(w), UNCHANGED <<load, execVars>>
    PROVE  IInv'
<1>1. WorkspaceTypes
  BY DEF IInv
<1>2. End(w) /\ UNCHANGED <<hold, helper>> /\ PassFrame
  BY DEF CreatePod, KeepUsers, KeepStore, PassFrame
<1>3. pod' \in [Workspaces -> LoosePods]
  <2>1. [phase |-> "starting", topology |-> pass[w].spec.topology,
         claims |-> Writes(pass[w].spec), acked |-> 0] \in LoosePods
    BY <1>1 DEF WorkspaceTypes, LoosePasses, LooseSpecs, LoosePods, Writes
  <2> QED BY <1>1, <2>1 DEF CreatePod, WorkspaceTypes
<1> QED BY <1>2, <1>3, EndOnly

\* A rejected Pod gives everything back: no helper was made for it.
LEMMA PodRejectedKeeps ==
    ASSUME IInv, NEW w \in Workspaces, PodRejected(w), UNCHANGED <<load, execVars>>
    PROVE  IInv'
<1>1. Unused(w)
  BY DEF IInv, WorkspaceSafe
<1>2. NoHelpers(w) /\ End(w) /\ ReleaseAll(w) /\ UNCHANGED <<pod, helper>> /\ PassFrame
  BY <1>1 DEF PodRejected, KeepUsers, PassFrame, Unused
<1> QED BY <1>2, EndReleasing

\* Verification only makes holds stronger.
LEMMA VerifyClaimKeeps ==
    ASSUME IInv, NEW w \in Workspaces, VerifyClaim(w), UNCHANGED <<load, execVars>>
    PROVE  IInv'
<1> DEFINE t == FirstOf(pass[w].todo)
<1>1. WorkspaceTypes /\ StoreTypes /\ WorkspaceSafe(w) /\ Looping(w)
  BY DEF IInv, WorkspaceSafe
<1>2. At(w, "verify") /\ PassFrame /\ pod \in [Workspaces -> LoosePods]
  BY <1>1 DEF VerifyClaim, KeepUsers, PassFrame, WorkspaceTypes
<1>3. t \in Worktrees /\ pass[w].todo \in SUBSET Worktrees
  <2>1. pass[w].todo \subseteq Worktrees
    BY <1>1 DEF WorkspaceTypes, LoosePasses
  <2>2. pass[w].todo # {}
    BY <1>1, <1>2 DEF Looping
  <2> QED BY <2>1, <2>2, FirstOfLeft
<1>4. \/ /\ hold' = AfterRequest(w, t, "write")
         /\ Loop(w, "verify", pass[w].todo \ {t}, "topology")
         /\ UNCHANGED <<pod, helper>>
      \/ UnmountThenStop(w) /\ End(w)
      \/ UNCHANGED <<hold, pod, helper>> /\ End(w)
  BY DEF VerifyClaim
<1> HIDE DEF t
<1>5. CASE /\ hold' = AfterRequest(w, t, "write")
           /\ Loop(w, "verify", pass[w].todo \ {t}, "topology")
           /\ UNCHANGED <<pod, helper>>
  <2>1. /\ HoldMoves(w)
        /\ \A u \in Worktrees \ {t} : hold'[u] = hold[u]
        /\ hold'[t].mode[w] \in {hold[t].mode[w], "write"}
    <3>1. "write" \in MountModes
      BY DEF MountModes
    <3> QED BY <1>1, <1>3, <1>5, <3>1, RequestMoves
  <2> DEFINE S == pass[w].todo \ {t}
  <2>2. PassBecomes(w, IF S = {} THEN "topology" ELSE "verify", pass[w].spec, S)
    <3>1. S \in SUBSET Worktrees /\ "verify" \in PassSteps /\ "topology" \in PassSteps
      BY <1>3 DEF PassSteps
    <3> QED BY <1>1, <1>5, <3>1, LoopShape
  <2> HIDE DEF S
  <2>3. HelpersShrink(w)
    BY <1>1, <1>5, SameHelpers
  <2>4. WorkspaceTypes'
    BY <1>1, <1>2, <1>5, <2>2 DEF WorkspaceTypes, PassBecomes, PassFrame
  <2>5. \A u \in Worktrees : hold'[u].mode[w] \in {hold[u].mode[w], "write"}
    BY <2>1
  <2>6. WorkspaceSafe(w)'
    BY <1>1, <1>2, <2>2, <2>3, <2>5, QuietSafe DEF PassBecomes, PassFrame
  <2> QED BY <1>2, <1>5, <2>1, <2>2, <2>4, <2>6, WorkspaceStep DEF PassBecomes, PassFrame
<1>6. CASE UnmountThenStop(w) /\ End(w)
  BY <1>2, <1>6, EndUnmounting
<1>7. CASE UNCHANGED <<hold, pod, helper>> /\ End(w)
  BY <1>2, <1>7, EndOnly
<1> QED BY <1>4, <1>5, <1>6, <1>7

\* The loop before the helpers: a Worktree leaves it when its mode is held.  A
\* hold of w becomes weaker only where the spec of the pass reads.
LEMMA ReadmittingKeeps ==
    ASSUME IInv, NEW w \in Workspaces, UNCHANGED <<helper, pod>>, HoldMoves(w), PassFrame,
           NEW S \in SUBSET Mounted(pass[w].spec), Loop(w, "readmit", S, "hot"),
           \A t \in Worktrees :
                \/ hold'[t].mode[w] = hold[t].mode[w]
                \/ t \in Mounted(pass[w].spec) /\ hold'[t].mode[w] = pass[w].spec.mounts[t],
           \A t \in Mounted(pass[w].spec) \ S : hold'[t].mode[w] = pass[w].spec.mounts[t]
    PROVE  IInv'
<1>1. WorkspaceTypes /\ WorkspaceSafe(w)
  BY DEF IInv
<1>2. PassBecomes(w, IF S = {} THEN "hot" ELSE "readmit", pass[w].spec, S)
  <2>1. S \in SUBSET Worktrees /\ "readmit" \in PassSteps /\ "hot" \in PassSteps
    BY DEF Mounted, PassSteps
  <2> QED BY <1>1, <2>1, LoopShape
<1>3. WorkspaceTypes'
  BY <1>1, <1>2 DEF WorkspaceTypes, PassBecomes, PassFrame
<1>4. WorkspaceSafe(w)'
  <2>1. \A t \in Worktrees : /\ hold[t].mode[w] # "none" => hold'[t].mode[w] # "none"
                             /\ hold'[t].mode[w] \in {hold[t].mode[w], pass[w].spec.mounts[t]}
    BY DEF Mounted
  <2>2. Covered(w)'
    BY <1>1, <2>1 DEF WorkspaceSafe, Covered, Live
  <2>3. Unused(w)' /\ Looping(w)'
    BY <1>2 DEF PassBecomes, Unused, Looping, At, Mounted
  <2>4. AsSpecified(w)'
    BY <1>2 DEF PassBecomes, AsSpecified, At, Mounted
  <2>5. NeverWeakened(w)'
    <3>1. pass[w].spec.mounts \in Mounts
      BY <1>1 DEF WorkspaceTypes, LoosePasses, LooseSpecs
    <3>2. \A t \in Worktrees : Live(w, t) => helper[w][t].mode \in MountModes /\ hold[t].mode[w] # "none"
      BY <1>1 DEF WorkspaceSafe, Covered
    <3> QED BY <1>1, <1>2, <3>1, <3>2
            DEF WorkspaceSafe, NeverWeakened, Live, Mounts, Mounted, MountModes, Disturbances, PassBecomes, PassFrame
  <2> QED BY <2>2, <2>3, <2>4, <2>5 DEF WorkspaceSafe
<1> QED BY <1>2, <1>3, <1>4, WorkspaceStep DEF PassBecomes, PassFrame

\* A Pod of another topology is replaced; the mounts of a ready one are admitted
\* again, all of them.
LEMMA TopologyKeeps ==
    ASSUME IInv, NEW w \in Workspaces, Topology(w), UNCHANGED <<load, execVars>>
    PROVE  IInv'
<1>1. WorkspaceTypes /\ StoreTypes /\ w \in Owners
  BY WorkspacesAssumption DEF IInv
<1>2. PassFrame /\ pod \in [Workspaces -> LoosePods]
  BY <1>1 DEF Topology, KeepUsers, PassFrame, WorkspaceTypes
<1>3. \/ UnmountThenStop(w) /\ End(w)
      \/ Loop(w, "readmit", Mounted(pass[w].spec), "hot") /\ UNCHANGED <<hold, pod, helper>>
      \/ End(w) /\ UNCHANGED <<hold, pod, helper>>
  BY DEF Topology
<1>4. CASE UnmountThenStop(w) /\ End(w)
  BY <1>2, <1>4, EndUnmounting
<1>5. CASE Loop(w, "readmit", Mounted(pass[w].spec), "hot") /\ UNCHANGED <<hold, pod, helper>>
  <2>1. HoldMoves(w)
    BY <1>1, <1>5, SameHolds
  <2> QED BY <1>2, <1>5, <2>1, ReadmittingKeeps
<1>6. CASE End(w) /\ UNCHANGED <<hold, pod, helper>>
  BY <1>2, <1>6, EndOnly
<1> QED BY <1>3, <1>4, <1>5, <1>6

\* The pass goes on to the helpers only when it holds every mount of its spec.
LEMMA ReadmitKeeps ==
    ASSUME IInv, NEW w \in Workspaces, Readmit(w), UNCHANGED <<load, execVars>>
    PROVE  IInv'
<1> DEFINE t == FirstOf(pass[w].todo)
           m == pass[w].spec.mounts[t]
<1>1. WorkspaceTypes /\ StoreTypes /\ Looping(w) /\ AsSpecified(w)
  BY DEF IInv, WorkspaceSafe
<1>2. /\ At(w, "readmit") /\ PassFrame /\ UNCHANGED <<pod, helper>> /\ pod \in [Workspaces -> LoosePods]
      /\ hold' = AfterRequest(w, t, m)
  BY <1>1 DEF Readmit, KeepUsers, PassFrame, WorkspaceTypes
<1>3. /\ t \in Worktrees /\ m \in MountModes /\ pass[w].todo \in SUBSET Mounted(pass[w].spec)
      /\ t \in Mounted(pass[w].spec)
  BY <1>1, <1>2, LoopNext DEF Mounted, MountModes
<1>4. IF MayHold(w, t, m) THEN Loop(w, "readmit", pass[w].todo \ {t}, "hot") ELSE End(w)
  BY DEF Readmit
<1>5. \A u \in Mounted(pass[w].spec) \ pass[w].todo : hold[u].mode[w] = pass[w].spec.mounts[u]
  BY <1>1, <1>2 DEF AsSpecified
<1>6. m = pass[w].spec.mounts[t]
  OBVIOUS
<1> HIDE DEF t, m
<1>7. /\ HoldMoves(w)
      /\ \A u \in Worktrees \ {t} : hold'[u] = hold[u]
      /\ hold'[t].mode[w] = IF MayHold(w, t, m) THEN m ELSE hold[t].mode[w]
  BY <1>1, <1>2, <1>3, RequestMoves
<1>8. CASE MayHold(w, t, m)
  <2> DEFINE S == pass[w].todo \ {t}
  <2>1. S \in SUBSET Mounted(pass[w].spec) /\ Loop(w, "readmit", S, "hot")
    BY <1>3, <1>4, <1>8
  <2>2. \A u \in Worktrees :
                \/ hold'[u].mode[w] = hold[u].mode[w]
                \/ u \in Mounted(pass[w].spec) /\ hold'[u].mode[w] = pass[w].spec.mounts[u]
    BY <1>3, <1>6, <1>7
  <2>3. \A u \in Mounted(pass[w].spec) \ S : hold'[u].mode[w] = pass[w].spec.mounts[u]
    BY <1>5, <1>6, <1>7, <1>8 DEF Mounted
  <2> HIDE DEF S
  <2> QED BY <1>2, <1>7, <2>1, <2>2, <2>3, ReadmittingKeeps
<1>9. CASE ~MayHold(w, t, m)
  <2>1. \A u \in Worktrees : hold'[u].mode[w] = hold[u].mode[w]
    BY <1>7, <1>9
  <2>2. HelpersShrink(w) /\ End(w)
    BY <1>1, <1>2, <1>4, <1>9, SameHelpers
  <2> QED BY <1>2, <1>7, <2>1, <2>2, EndKeeps
<1> QED BY <1>8, <1>9

\* A new helper is covered by the hold the pass has made sure of.
LEMMA CreateHelperKeeps ==
    ASSUME IInv, NEW w \in Workspaces, At(w, "hot"), End(w), NEW t \in Mounted(pass[w].spec),
           helper' = [helper EXCEPT ![w][t] =
                [phase |-> "starting", mode |-> pass[w].spec.mounts[t], deleting |-> FALSE]],
           UNCHANGED <<hold, pod>>, PassFrame
    PROVE  IInv'
<1> DEFINE h == [phase |-> "starting", mode |-> pass[w].spec.mounts[t], deleting |-> FALSE]
<1>1. WorkspaceTypes /\ StoreTypes /\ WorkspaceSafe(w) /\ w \in Owners
  BY WorkspacesAssumption DEF IInv
<1>2. t \in Worktrees /\ pass[w].spec.mounts[t] \in MountModes
  BY <1>1 DEF Mounted, Mounts, MountModes, WorkspaceTypes, LoosePasses, LooseSpecs
<1>3. hold[t].mode[w] = pass[w].spec.mounts[t]
  BY <1>1 DEF WorkspaceSafe, AsSpecified
<1>4. h \in Helpers
  BY <1>2 DEF Helpers, HelperPhases, MountModes
<1>5. /\ helper' \in [Workspaces -> [Worktrees -> Helpers]]
      /\ \A v \in Workspaces \ {w} : helper'[v] = helper[v]
      /\ \A u \in Worktrees \ {t} : helper'[w][u] = helper[w][u]
      /\ helper'[w][t].mode = pass[w].spec.mounts[t]
  BY <1>1, <1>2, <1>4 DEF WorkspaceTypes
<1> HIDE DEF h
<1>6. PassBecomes(w, "idle", NewSpec, {})
  BY <1>1, EndShape
<1>7. HoldMoves(w)
  BY <1>1, SameHolds
<1>8. WorkspaceTypes'
  BY <1>1, <1>5, <1>6 DEF WorkspaceTypes, PassBecomes, PassFrame
<1>9. WorkspaceSafe(w)'
  <2>1. Covered(w)'
    BY <1>1, <1>2, <1>3, <1>5 DEF WorkspaceSafe, Covered, Live, MountModes
  <2>2. Unused(w)' /\ Looping(w)' /\ AsSpecified(w)'
    BY <1>6 DEF PassBecomes, Unused, Looping, AsSpecified, At
  <2>3. NeverWeakened(w)'
    <3>1. \A u \in Worktrees : pass'[w].spec.mounts[u] = "none"
      BY <1>6 DEF PassBecomes, NewSpec, NoMounts
    <3> QED BY <1>1, <1>3, <1>5, <3>1 DEF WorkspaceSafe, NeverWeakened, Live, Disturbances, PassFrame
  <2> QED BY <2>1, <2>2, <2>3 DEF WorkspaceSafe
<1> QED BY <1>5, <1>6, <1>7, <1>8, <1>9, WorkspaceStep DEF PassBecomes, PassFrame

\* Helpers go, one is created, or all are as the spec says and old holds may go.
LEMMA HotMountsKeeps ==
    ASSUME IInv, NEW w \in Workspaces, HotMounts(w), UNCHANGED <<load, execVars>>
    PROVE  IInv'
<1>1. WorkspaceTypes /\ StoreTypes /\ WorkspaceSafe(w) /\ w \in Owners
  BY WorkspacesAssumption DEF IInv
<1>2. /\ At(w, "hot") /\ PassFrame /\ UNCHANGED <<hold, pod>> /\ pod \in [Workspaces -> LoosePods]
  BY <1>1 DEF HotMounts, KeepUsers, KeepStore, PassFrame, WorkspaceTypes
<1>3. \/ \E S \in SUBSET Worktrees : DropHelper(w, S) /\ End(w)
      \/ End(w) /\ UNCHANGED helper
      \/ /\ \E t \in Mounted(pass[w].spec) : helper' = [helper EXCEPT ![w][t] =
                [phase |-> "starting", mode |-> pass[w].spec.mounts[t], deleting |-> FALSE]]
         /\ End(w)
      \/ /\ GoTo(w, "retain") /\ UNCHANGED helper
         /\ \A t \in Worktrees : Live(w, t) => ~Mismatched(w, t)
  <2> DEFINE orphans == {t \in Worktrees : helper[w][t].phase = "cleaner"}
             broken == {t \in Worktrees : helper[w][t].phase \in {"failed", "cleaning"}}
             wrong == {t \in Worktrees : helper[w][t].phase \in {"starting", "ready", "cleaned"} /\ Mismatched(w, t)}
             missing == {t \in Mounted(pass[w].spec) : helper[w][t].phase = "absent"}
  <2>1. CASE orphans # {}
    BY <2>1 DEF HotMounts
  <2>2. CASE orphans = {} /\ broken \cup wrong # {}
    BY <2>2 DEF HotMounts
  <2>3. CASE orphans \cup broken \cup wrong = {} /\ missing # {}
    <3>1. End(w) /\ \E t \in missing : helper' = [helper EXCEPT ![w][t] =
                [phase |-> "starting", mode |-> pass[w].spec.mounts[t], deleting |-> FALSE]]
      BY <2>3 DEF HotMounts
    <3> QED BY <3>1
  <2>4. CASE orphans \cup broken \cup wrong = {} /\ missing = {}
    <3>1. (GoTo(w, "retain") \/ End(w)) /\ UNCHANGED helper
      BY <2>4 DEF HotMounts
    <3>2. \A t \in Worktrees : Live(w, t) => ~Mismatched(w, t)
      BY <2>4 DEF Live
    <3> QED BY <3>1, <3>2
  <2> QED BY <2>1, <2>2, <2>3, <2>4
<1>4. ASSUME NEW S \in SUBSET Worktrees, DropHelper(w, S), End(w) PROVE IInv'
  BY <1>1, <1>2, <1>4, DropShrinks, SameHolds, EndKeeps
<1>5. CASE End(w) /\ UNCHANGED helper
  BY <1>2, <1>5, EndOnly
<1>6. CASE /\ \E t \in Mounted(pass[w].spec) : helper' = [helper EXCEPT ![w][t] =
                [phase |-> "starting", mode |-> pass[w].spec.mounts[t], deleting |-> FALSE]]
           /\ End(w)
  BY <1>2, <1>6, CreateHelperKeeps
<1>7. CASE /\ GoTo(w, "retain") /\ UNCHANGED helper
           /\ \A t \in Worktrees : Live(w, t) => ~Mismatched(w, t)
  <2>1. PassBecomes(w, "retain", pass[w].spec, pass[w].todo)
    BY <1>1, <1>7, GoToShape DEF PassSteps
  <2>2. WorkspaceTypes'
    BY <1>1, <1>2, <1>7, <2>1 DEF WorkspaceTypes, PassBecomes, PassFrame
  <2>3. WorkspaceSafe(w)'
    <3>1. Covered(w)' /\ Unused(w)' /\ Looping(w)'
      BY <1>1, <1>2, <1>7, <2>1 DEF WorkspaceSafe, Covered, Live, Unused, Looping, At, PassBecomes
    <3>2. AsSpecified(w)'
      BY <1>7, <2>1 DEF AsSpecified, Mismatched, Live, At, PassBecomes
    <3>3. NeverWeakened(w)'
      BY <1>1, <1>2, <1>7, <2>1 DEF WorkspaceSafe, NeverWeakened, Live, Disturbances, PassBecomes, PassFrame
    <3> QED BY <3>1, <3>2, <3>3 DEF WorkspaceSafe
  <2>4. HoldMoves(w)
    BY <1>1, <1>2, SameHolds
  <2> QED BY <1>2, <1>7, <2>1, <2>2, <2>3, <2>4, WorkspaceStep DEF PassBecomes, PassFrame
<1> QED BY <1>3, <1>4, <1>5, <1>6, <1>7

\* Retain gives back what no helper uses, and no more than the helpers' modes.
LEMMA RetainHoldsKeeps ==
    ASSUME IInv, NEW w \in Workspaces, RetainHolds(w), UNCHANGED <<load, execVars>>
    PROVE  IInv'
<1>1. WorkspaceTypes /\ StoreTypes /\ WorkspaceSafe(w) /\ w \in Owners
  BY WorkspacesAssumption DEF IInv
<1>2. At(w, "retain") /\ PassFrame /\ UNCHANGED <<pod, helper>> /\ pod \in [Workspaces -> LoosePods]
  BY <1>1 DEF RetainHolds, KeepUsers, PassFrame, WorkspaceTypes
<1>3. CASE End(w) /\ UNCHANGED hold
  BY <1>2, <1>3, EndOnly
<1>4. CASE hold' = AfterRetain(w, pass[w].spec.mounts) /\ GoTo(w, "ack")
  <2>1. pass[w].spec.mounts \in Mounts
    BY <1>1 DEF WorkspaceTypes, LoosePasses, LooseSpecs
  <2>2. /\ HoldMoves(w)
        /\ \A t \in Worktrees : hold'[t].mode[w] =
                IF hold[t].mode[w] = "none" \/ pass[w].spec.mounts[t] = "write" THEN hold[t].mode[w]
                ELSE pass[w].spec.mounts[t]
    BY <1>1, <1>4, <2>1, RetainMoves
  <2>3. PassBecomes(w, "ack", pass[w].spec, pass[w].todo)
    BY <1>1, <1>4, GoToShape DEF PassSteps
  <2>4. WorkspaceTypes'
    BY <1>1, <1>2, <2>3 DEF WorkspaceTypes, PassBecomes, PassFrame
  <2>5. \A t \in Worktrees : Live(w, t) =>
            pass[w].spec.mounts[t] = helper[w][t].mode /\ helper[w][t].mode \in MountModes
    BY <1>1, <1>2 DEF WorkspaceSafe, AsSpecified, Covered
  <2>6. WorkspaceSafe(w)'
    <3>1. Covered(w)'
      BY <1>1, <1>2, <2>2, <2>5 DEF WorkspaceSafe, Covered, Live, MountModes
    <3>2. Unused(w)' /\ Looping(w)' /\ AsSpecified(w)'
      BY <2>3 DEF PassBecomes, Unused, Looping, AsSpecified, At
    <3>3. NeverWeakened(w)'
      BY <1>1, <1>2, <2>2, <2>3, <2>5
         DEF WorkspaceSafe, NeverWeakened, Live, MountModes, Disturbances, PassBecomes, PassFrame
    <3> QED BY <3>1, <3>2, <3>3 DEF WorkspaceSafe
  <2> QED BY <1>2, <2>2, <2>3, <2>4, <2>6, WorkspaceStep DEF PassBecomes, PassFrame
<1> QED BY <1>3, <1>4 DEF RetainHolds

\* Acknowledging the generation changes the Pod alone.
LEMMA AcknowledgeKeeps ==
    ASSUME IInv, NEW w \in Workspaces, Acknowledge(w), UNCHANGED <<load, execVars>>
    PROVE  IInv'
<1>1. WorkspaceTypes
  BY DEF IInv
<1>2. End(w) /\ UNCHANGED <<hold, helper>> /\ PassFrame
  BY DEF Acknowledge, KeepUsers, KeepStore, PassFrame
<1>3. pod' \in [Workspaces -> LoosePods]
  <2>1. pass[w].spec.gen \in Nat
    BY <1>1 DEF WorkspaceTypes, LoosePasses, LooseSpecs
  <2> QED BY <1>1, <2>1 DEF Acknowledge, WorkspaceTypes, LoosePods
<1> QED BY <1>2, <1>3, EndOnly

\* A deleted Workspace gives its holds back after its helpers and its Pod.
LEMMA FinalizeKeeps ==
    ASSUME IInv, NEW w \in Workspaces, Finalize(w), UNCHANGED <<load, execVars>>
    PROVE  IInv'
<1>1. WorkspaceTypes /\ StoreTypes /\ WorkspaceSafe(w) /\ w \in Owners
  BY WorkspacesAssumption DEF IInv
<1>2. At(w, "idle") /\ UNCHANGED <<active, pass, tree, volume>>
  BY DEF Finalize
<1>3. /\ HelpersShrink(w) /\ HoldMoves(w) /\ pod' \in [Workspaces -> LoosePods]
      /\ \A t \in Worktrees : Live(w, t)' => hold'[t].mode[w] = hold[t].mode[w]
      /\ \/ spec' = spec
         \/ spec' = [spec EXCEPT ![w].desired = "Gone", ![w].mounts = NoMounts]
  <2>1. CASE active[w]
    BY <1>1, <2>1, SameHelpers, SameHolds DEF Finalize, WorkspaceTypes
  <2>2. CASE ~active[w] /\ NoHelpers(w) /\ pod[w].phase = "absent"
    <3>1. /\ ReleaseAll(w) /\ UNCHANGED <<pod, helper>>
          /\ spec' = [spec EXCEPT ![w].desired = "Gone", ![w].mounts = NoMounts]
      BY <2>2 DEF Finalize
    <3>2. \A t \in Worktrees : ~Live(w, t)'
      BY <2>2, <3>1 DEF NoHelpers, Live
    <3>3. pod' \in [Workspaces -> LoosePods]
      BY <1>1, <3>1 DEF WorkspaceTypes
    <3> QED BY <1>1, <3>1, <3>2, <3>3, SameHelpers, ReleaseAllMoves
  <2>3. CASE ~active[w] /\ ~(NoHelpers(w) /\ pod[w].phase = "absent")
    <3>1. UnmountThenStop(w) /\ UNCHANGED spec
      BY <2>3 DEF Finalize
    <3> QED BY <1>1, <3>1, UnmountThenStopShrinks, SameHolds
  <2> QED BY <2>1, <2>2, <2>3
<1>4. /\ spec' \in [Workspaces -> LooseSpecs]
      /\ \A v \in Workspaces \ {w} : spec'[v] = spec[v]
      /\ spec'[w].mounts \in {spec[w].mounts, NoMounts}
  <2>1. NoMounts \in Mounts
    BY DEF NoMounts, Mounts
  <2>2. spec \in [Workspaces -> LooseSpecs] /\ spec[w] \in LooseSpecs
    BY <1>1 DEF WorkspaceTypes
  <2>3. CASE spec' = spec
    BY <2>2, <2>3
  <2>4. CASE spec' = [spec EXCEPT ![w].desired = "Gone", ![w].mounts = NoMounts]
    <3> DEFINE s == [spec[w] EXCEPT !.desired = "Gone", !.mounts = NoMounts]
    <3>1. s \in LooseSpecs /\ s.mounts = NoMounts
      BY <2>1, <2>2 DEF LooseSpecs
    <3>2. spec' = [spec EXCEPT ![w] = s]
      BY <2>2, <2>4
    <3> HIDE DEF s
    <3> QED BY <2>2, <3>1, <3>2
  <2> QED BY <1>3, <2>3, <2>4
<1>5. WorkspaceTypes'
  BY <1>1, <1>2, <1>3, <1>4 DEF WorkspaceTypes, HelpersShrink
<1>6. WorkspaceSafe(w)'
  BY <1>1, <1>2, <1>3, <1>4, QuietSafe DEF At
<1> QED BY <1>2, <1>3, <1>4, <1>5, <1>6, WorkspaceStep DEF HelpersShrink

-----------------------------------------------------------------------------
(* Users, executions, the kubelet and faults.                              *)

\* Outside a pass no helper appears, and no hold changes.
LEMMA BackgroundKeeps ==
    ASSUME IInv, NEW w \in Workspaces, HelpersShrink(w), WorkspaceTypes',
           UNCHANGED <<hold, spec, pass, tree, volume, load, execVars>>
    PROVE  IInv'
<1>1. StoreTypes /\ WorkspaceSafe(w) /\ w \in Owners
  BY WorkspacesAssumption DEF IInv
<1>2. HoldMoves(w)
  BY <1>1, SameHolds
<1>3. WorkspaceSafe(w)'
  <2>1. Covered(w)'
    BY <1>1 DEF WorkspaceSafe, Covered, HelpersShrink
  <2>2. Unused(w)' /\ Looping(w)'
    BY <1>1 DEF WorkspaceSafe, Unused, Looping, At, Mounted, HelpersShrink
  <2>3. AsSpecified(w)'
    BY <1>1 DEF WorkspaceSafe, AsSpecified, At, Mounted, HelpersShrink
  <2>4. NeverWeakened(w)'
    BY <1>1 DEF WorkspaceSafe, NeverWeakened, Disturbances, HelpersShrink
  <2> QED BY <2>1, <2>2, <2>3, <2>4 DEF WorkspaceSafe
<1> QED BY <1>2, <1>3, WorkspaceStep DEF HelpersShrink

\* The Pod, the executions and the Environment change on their own.
LEMMA PodAloneKeeps ==
    ASSUME IInv, NEW w \in Workspaces, pod' \in [Workspaces -> LoosePods],
           active' \in [Workspaces -> BOOLEAN],
           UNCHANGED <<hold, spec, pass, helper, tree, volume, load, execVars>>
    PROVE  IInv'
<1>1. WorkspaceTypes
  BY DEF IInv
<1>2. HelpersShrink(w)
  BY <1>1, SameHelpers
<1>3. WorkspaceTypes'
  BY <1>1 DEF WorkspaceTypes
<1> QED BY <1>2, <1>3, BackgroundKeeps

\* One helper changes its phase and is not more alive than before.
LEMMA SetHelperKeeps ==
    ASSUME IInv, NEW w \in Workspaces, NEW t \in Worktrees, NEW h \in Helpers, SetHelper(w, t, h),
           h.phase \in {"starting", "ready", "failed", "cleaning"} =>
                Live(w, t) /\ h.mode = helper[w][t].mode,
           helper[w][t].phase = "absent" => h.phase = "absent",
           UNCHANGED <<load, execVars>>
    PROVE  IInv'
<1>1. WorkspaceTypes
  BY DEF IInv
<1>2. /\ helper' = [helper EXCEPT ![w][t] = h]
      /\ UNCHANGED <<hold, tree, volume, spec, active, pod, pass>>
  BY DEF SetHelper, KeepStore
<1>3. HelpersShrink(w)
  BY <1>1, <1>2, HelperShrinks
<1>4. WorkspaceTypes'
  BY <1>1, <1>2, <1>3 DEF WorkspaceTypes, HelpersShrink
<1> QED BY <1>2, <1>3, <1>4, BackgroundKeeps

\* Pods and helpers become ready, succeed or go.
LEMMA KubeletKeeps ==
    ASSUME IInv, NEW w \in Workspaces, Kubelet(w), UNCHANGED <<load, execVars>>
    PROVE  IInv'
<1>1. WorkspaceTypes
  BY DEF IInv
<1>2. CASE PodReady(w) \/ PodGone(w)
  <2>1. NoPod \in LoosePods /\ [pod[w] EXCEPT !.phase = "ready"] \in LoosePods
    BY <1>1 DEF NoPod, LoosePods, WorkspaceTypes
  <2>2. /\ \E p \in LoosePods : pod' = [pod EXCEPT ![w] = p]
        /\ UNCHANGED <<hold, spec, active, pass, helper, tree, volume>>
    BY <1>2, <2>1 DEF PodReady, PodGone, SetPod, KeepStore
  <2> QED BY <1>1, <2>2, PodAloneKeeps DEF WorkspaceTypes
<1>3. ASSUME NEW t \in Worktrees, HelperReady(w, t) \/ CleanerSucceeds(w, t) \/ HelperGone(w, t)
      PROVE  IInv'
  <2>1. helper[w][t] \in Helpers
    BY <1>1 DEF WorkspaceTypes
  <2>2. CASE HelperReady(w, t)
    <3> DEFINE h == [helper[w][t] EXCEPT !.phase = "ready"]
    <3>1. h \in Helpers /\ h.phase = "ready" /\ h.mode = helper[w][t].mode
      BY <2>1 DEF Helpers, HelperPhases
    <3>2. helper[w][t].phase = "starting" /\ SetHelper(w, t, h)
      BY <2>2 DEF HelperReady
    <3> HIDE DEF h
    <3> QED BY <3>1, <3>2, SetHelperKeeps DEF Live
  <2>3. CASE CleanerSucceeds(w, t)
    <3> DEFINE h == [helper[w][t] EXCEPT !.phase = "cleaned"]
    <3>1. h \in Helpers /\ h.phase = "cleaned"
      BY <2>1 DEF Helpers, HelperPhases
    <3>2. helper[w][t].phase = "cleaning" /\ SetHelper(w, t, h)
      BY <2>3 DEF CleanerSucceeds
    <3> HIDE DEF h
    <3> QED BY <3>1, <3>2, SetHelperKeeps
  <2>4. CASE HelperGone(w, t)
    <3> DEFINE h == IF helper[w][t].phase = "cleaned" THEN [NoHelper EXCEPT !.phase = "cleaner"] ELSE NoHelper
    <3>1. h \in Helpers /\ h.phase = IF helper[w][t].phase = "cleaned" THEN "cleaner" ELSE "absent"
      BY DEF NoHelper, Helpers, HelperPhases
    <3>2. SetHelper(w, t, h)
      BY <2>4 DEF HelperGone
    <3> HIDE DEF h
    <3> QED BY <3>1, <3>2, SetHelperKeeps
  <2> QED BY <1>3, <2>2, <2>3, <2>4
<1> QED BY <1>2, <1>3 DEF Kubelet

\* An edit may ask for less than a hold only when the helper is not writing.
LEMMA EditKeeps ==
    ASSUME IInv, NEW w \in Workspaces, NEW s \in LooseSpecs, Edit(w, s), UNCHANGED <<load, execVars>>,
           "downgrade" \notin Disturbances =>
                \A t \in Worktrees : s.mounts[t] = "read" =>
                    \/ spec[w].mounts[t] = "read"
                    \/ hold[t].mode[w] # "write" /\ pass[w].spec.mounts[t] # "write"
    PROVE  IInv'
<1>1. WorkspaceTypes /\ StoreTypes /\ WorkspaceSafe(w) /\ w \in Owners
  BY WorkspacesAssumption DEF IInv
<1>2. /\ UNCHANGED <<hold, tree, volume, active, pod, helper, pass>>
      /\ spec' = [spec EXCEPT ![w] = [s EXCEPT !.gen = @ + 1]]
  BY DEF Edit, KeepStore
<1>3. [s EXCEPT !.gen = @ + 1] \in LooseSpecs /\ [s EXCEPT !.gen = @ + 1].mounts = s.mounts
  BY DEF LooseSpecs
<1>4. /\ spec' \in [Workspaces -> LooseSpecs]
      /\ \A v \in Workspaces \ {w} : spec'[v] = spec[v]
      /\ spec'[w].mounts = s.mounts
  BY <1>1, <1>2, <1>3 DEF WorkspaceTypes
<1>5. WorkspaceTypes' /\ HoldMoves(w)
  BY <1>1, <1>2, <1>4, SameHolds DEF WorkspaceTypes
<1>6. WorkspaceSafe(w)'
  <2>1. Covered(w)' /\ Unused(w)' /\ Looping(w)'
    BY <1>1, <1>2 DEF WorkspaceSafe, Covered, Unused, Looping, At, Live, Mounted, NoHelpers
  <2>2. AsSpecified(w)'
    BY <1>1, <1>2 DEF WorkspaceSafe, AsSpecified, At, Live, Mounted
  <2>3. NeverWeakened(w)'
    BY <1>1, <1>2, <1>4 DEF WorkspaceSafe, NeverWeakened, Live, Disturbances
  <2> QED BY <2>1, <2>2, <2>3 DEF WorkspaceSafe
<1> QED BY <1>2, <1>4, <1>5, <1>6, WorkspaceStep

\* Edits of mounts, topology and desired state, and executions that come and go.
LEMMA UsersKeep ==
    ASSUME IInv, NEW w \in Workspaces, Users(w), UNCHANGED <<load, execVars>>
    PROVE  IInv'
<1>1. WorkspaceTypes /\ StoreTypes /\ load.worktrees \subseteq Worktrees
  BY WorktreesAssumption DEF IInv, StoreTypes
<1>2. spec[w] \in LooseSpecs
  BY <1>1 DEF WorkspaceTypes
<1>3. ASSUME NEW t \in load.worktrees, NEW m \in {"none", "read", "write"}, EditMount(w, t, m)
      PROVE  IInv'
  <2> DEFINE s == [spec[w] EXCEPT !.mounts[t] = m]
  <2>1. /\ s \in LooseSpecs
        /\ \A u \in Worktrees : s.mounts[u] = IF u = t THEN m ELSE spec[w].mounts[u]
    BY <1>1, <1>2 DEF LooseSpecs, Mounts
  <2>2. /\ Edit(w, s)
        /\ m = "read" => \/ "downgrade" \in Disturbances
                         \/ hold[t].mode[w] # "write" /\ pass[w].spec.mounts[t] # "write"
    BY <1>3 DEF EditMount
  <2> HIDE DEF s
  <2> QED BY <2>1, <2>2, EditKeeps
<1>4. CASE EditTopology(w)
  <2> DEFINE s == [spec[w] EXCEPT !.topology = @ + 1]
  <2>1. s \in LooseSpecs /\ s.mounts = spec[w].mounts
    BY <1>2 DEF LooseSpecs
  <2>2. Edit(w, s)
    BY <1>4 DEF EditTopology
  <2> HIDE DEF s
  <2> QED BY <2>1, <2>2, EditKeeps
<1>5. ASSUME NEW d \in {"Running", "Suspended", "Deleted"}, SetDesired(w, d)
      PROVE  IInv'
  <2> DEFINE s == [spec[w] EXCEPT !.desired = d]
  <2>1. s \in LooseSpecs /\ s.mounts = spec[w].mounts
    BY <1>2 DEF LooseSpecs
  <2>2. Edit(w, s)
    BY <1>5 DEF SetDesired
  <2> HIDE DEF s
  <2> QED BY <2>1, <2>2, EditKeeps
<1>6. CASE ExecutionStarts(w) \/ ExecutionsEnd(w) \/ DependencyVanishes(w)
  <2>1. UNCHANGED <<hold, spec, pass, helper, tree, volume, pod>>
    BY <1>6 DEF ExecutionStarts, ExecutionsEnd, DependencyVanishes, KeepStore
  <2>2. active' \in [Workspaces -> BOOLEAN]
    BY <1>1, <1>6 DEF ExecutionStarts, ExecutionsEnd, DependencyVanishes, WorkspaceTypes
  <2>3. pod' \in [Workspaces -> LoosePods]
    BY <1>1, <2>1 DEF WorkspaceTypes
  <2> QED BY <2>1, <2>2, <2>3, PodAloneKeeps
<1> QED BY <1>3, <1>4, <1>5, <1>6 DEF Users

\* Failing calls and Pods and helpers that die.
LEMMA FaultsKeep ==
    ASSUME IInv, NEW w \in Workspaces, Faults(w), UNCHANGED <<load, execVars>>
    PROVE  IInv'
<1>1. WorkspaceTypes
  BY DEF IInv
<1>2. CASE PassFails(w)
  <2>1. /\ End(w) /\ UNCHANGED <<hold, helper>> /\ PassFrame
        /\ pod' \in [Workspaces -> LoosePods]
    BY <1>1, <1>2 DEF PassFails, KeepStore, PassFrame, WorkspaceTypes
  <2> QED BY <2>1, EndOnly
<1>3. CASE PodRejected(w)
  BY <1>3, PodRejectedKeeps
<1>4. CASE PodExits(w) \/ PodLost(w)
  <2>1. NoPod \in LoosePods /\ [pod[w] EXCEPT !.phase = "terminal"] \in LoosePods
    BY <1>1 DEF NoPod, LoosePods, WorkspaceTypes
  <2>2. /\ \E p \in LoosePods : pod' = [pod EXCEPT ![w] = p]
        /\ UNCHANGED <<hold, spec, active, pass, helper, tree, volume>>
    BY <1>4, <2>1 DEF PodExits, PodLost, SetPod, KeepStore
  <2> QED BY <1>1, <2>2, PodAloneKeeps DEF WorkspaceTypes
<1>5. ASSUME NEW t \in Worktrees, HelperFails(w, t) PROVE IInv'
  <2> DEFINE h == [helper[w][t] EXCEPT !.phase = "failed"]
  <2>1. h \in Helpers /\ h.phase = "failed" /\ h.mode = helper[w][t].mode
    <3>1. helper[w][t] \in Helpers
      BY <1>1 DEF WorkspaceTypes
    <3> QED BY <3>1 DEF Helpers, HelperPhases
  <2>2. RunsOn(w, t) /\ SetHelper(w, t, h)
    BY <1>5 DEF HelperFails
  <2> HIDE DEF h
  <2> QED BY <2>1, <2>2, SetHelperKeeps DEF RunsOn, Live
<1> QED BY <1>2, <1>3, <1>4, <1>5 DEF Faults

\* Every step of the Workspace controller and of what surrounds it.
LEMMA WorkspaceNextKeeps ==
    ASSUME IInv, WorkspaceNext, UNCHANGED <<load, execVars>>
    PROVE  IInv'
<1>1. PICK w \in Workspaces : PassStep(w) \/ Kubelet(w) \/ Users(w) \/ Faults(w)
  BY DEF WorkspaceNext
<1>2. CASE PassStep(w)
  BY <1>2, BeginPassKeeps, ResolveKeeps, AdmitMountKeeps, CreatePodKeeps, VerifyClaimKeeps, TopologyKeeps,
     ReadmitKeeps, HotMountsKeeps, RetainHoldsKeeps, AcknowledgeKeeps, FinalizeKeeps DEF PassStep
<1> QED BY <1>1, <1>2, KubeletKeeps, UsersKeep, FaultsKeep

-----------------------------------------------------------------------------
(* The WorktreeExec controller and its Jobs.                               *)

\* A step of exec e: the state of the other execs, and their holds, stay.
ExecMoves(e) ==
    /\ ExecTypes' /\ HoldMoves(e)
    /\ target' = target
    /\ \A f \in Execs \ {e} : /\ exec'[f] = exec[f] /\ job'[f] = job[f] /\ jobPod'[f] = jobPod[f]
                              /\ execPass'[f] = execPass[f] /\ starts'[f] = starts[f]

\* What a step of e must show: it is safe itself.
LEMMA ExecStepKeeps ==
    ASSUME IInv, NEW e \in Execs, ExecMoves(e), ExecSafe(e)',
           UNCHANGED <<load, tree, volume, workspaceVars>>
    PROVE  IInv'
<1>1. e \in Owners
  BY ExecsAssumption
<1>2. StoreTypes' /\ WorkspaceTypes' /\ ExecTypes'
  BY DEF IInv, StoreTypes, WorkspaceTypes, ExecMoves, HoldMoves, workspaceVars
<1>3. HoldsExclusive' /\ VolumeClosed'
  BY <1>1, HoldMovesKeeps DEF IInv, ExecMoves
<1>4. ASSUME NEW w \in Workspaces PROVE WorkspaceSafe(w)'
  <2>1. e \in Owners \ {w} /\ WorkspaceSafe(w)
    BY <1>1, KindsAssumption DEF IInv
  <2> QED BY <2>1, OthersSafe DEF ExecMoves, workspaceVars
<1>5. ASSUME NEW f \in Execs, f # e PROVE ExecSafe(f)'
  <2>1. f \in Owners /\ target[f] \in Worktrees /\ ExecSafe(f)
    BY ExecsAssumption DEF IInv, ExecTypes
  <2>2. /\ hold'[target[f]].mode[f] = hold[target[f]].mode[f] /\ target'[f] = target[f]
        /\ exec'[f] = exec[f] /\ job'[f] = job[f] /\ jobPod'[f] = jobPod[f]
        /\ execPass'[f] = execPass[f] /\ starts'[f] = starts[f]
    BY <1>5, <2>1 DEF ExecMoves, HoldMoves
  <2> QED BY <2>1, <2>2 DEF ExecSafe, Orderly, Disturbances
<1> QED BY <1>2, <1>3, <1>4, <1>5 DEF IInv

\* What a step of e does to its object, Job, Pod, pass and count, given what
\* becomes of its hold: the five parts of the state of an exec.
ExecBecomes(e, x, j, p, step, n) ==
    /\ exec' = [exec EXCEPT ![e] = x] /\ job' = [job EXCEPT ![e] = j]
    /\ jobPod' = [jobPod EXCEPT ![e] = p] /\ execPass' = [execPass EXCEPT ![e] = step]
    /\ starts' = [starts EXCEPT ![e] = n]

\* A step of e, field by field.
LEMMA ExecShape ==
    ASSUME IInv, NEW e \in Execs, NEW x \in ExecStates, NEW j \in JobStates, NEW p \in PodStates,
           NEW step \in {"idle", "recheck", "record", "create", "stop", "finish"}, NEW n \in Nat,
           ExecBecomes(e, x, j, p, step, n), HoldMoves(e), target' = target, seen' \in [Execs -> Views]
    PROVE  /\ ExecMoves(e)
           /\ exec'[e] = x /\ job'[e] = j /\ jobPod'[e] = p /\ execPass'[e] = step /\ starts'[e] = n
<1>1. ExecTypes
  BY DEF IInv
<1>2. ExecTypes'
  BY <1>1 DEF ExecTypes, ExecBecomes
<1> QED BY <1>1, <1>2 DEF ExecMoves, ExecTypes, ExecBecomes

\* The same, with the facts about e that make it safe.
LEMMA ExecBecomesKeeps ==
    ASSUME IInv, NEW e \in Execs, NEW x \in ExecStates, NEW j \in JobStates, NEW p \in PodStates,
           NEW step \in {"idle", "recheck", "record", "create", "stop", "finish"}, NEW n \in Nat,
           ExecBecomes(e, x, j, p, step, n), HoldMoves(e),
           seen' \in [Execs -> Views], UNCHANGED <<load, tree, volume, target, workspaceVars>>,
           "lag" \notin Disturbances => Orderly(x, j, p, step, n, hold'[target[e]].mode[e])
    PROVE  IInv'
<1>1. /\ ExecMoves(e) /\ target' = target
      /\ exec'[e] = x /\ job'[e] = j /\ jobPod'[e] = p /\ execPass'[e] = step /\ starts'[e] = n
  BY ExecShape
<1>2. ExecSafe(e)'
  BY <1>1 DEF ExecSafe, Orderly, Disturbances
<1> QED BY <1>1, <1>2, ExecStepKeeps

\* The same parts, unchanged.
LEMMA ExecNow ==
    ASSUME IInv, NEW e \in Execs
    PROVE  /\ exec[e] \in ExecStates /\ job[e] \in JobStates /\ jobPod[e] \in PodStates
           /\ execPass[e] \in {"idle", "recheck", "record", "create", "stop", "finish"} /\ starts[e] \in Nat
           /\ seen \in [Execs -> Views] /\ target[e] \in Worktrees /\ e \in Owners
           /\ exec = [exec EXCEPT ![e] = exec[e]] /\ job = [job EXCEPT ![e] = job[e]]
           /\ jobPod = [jobPod EXCEPT ![e] = jobPod[e]] /\ execPass = [execPass EXCEPT ![e] = execPass[e]]
           /\ starts = [starts EXCEPT ![e] = starts[e]]
BY ExecsAssumption DEF IInv, ExecTypes

\* Without lag a pass reads what is there.
LEMMA ExecFresh ==
    ASSUME IInv, NEW e \in Execs, "lag" \notin Disturbances
    PROVE  /\ Orderly(exec[e], job[e], jobPod[e], execPass[e], starts[e], hold[target[e]].mode[e])
           /\ View(e).exec = exec[e] /\ View(e).job = job[e] /\ View(e).pod = jobPod[e]
BY DEF IInv, ExecSafe, View, Current

\* SetExec writes the phase and the record of the Job, or nothing.
LEMMA SetExecShape ==
    ASSUME IInv, NEW e \in Execs, NEW p \in {"pending", "stopping", "done"}, NEW r \in BOOLEAN, SetExec(e, p, r)
    PROVE  \E x \in ExecStates :
                /\ exec' = [exec EXCEPT ![e] = x]
                /\ IF View(e).exec.phase = "done" \/ exec[e].phase = "deleted" THEN x = exec[e]
                   ELSE x.phase = p /\ (x.recorded <=> r)
<1>1. exec[e] \in ExecStates /\ exec = [exec EXCEPT ![e] = exec[e]]
  BY ExecNow
<1>2. CASE View(e).exec.phase = "done" \/ exec[e].phase = "deleted"
  BY <1>1, <1>2 DEF SetExec
<1>3. CASE ~(View(e).exec.phase = "done" \/ exec[e].phase = "deleted")
  <2> DEFINE x == [phase |-> p, recorded |-> r]
  <2>1. x \in ExecStates /\ x.phase = p /\ (x.recorded <=> r)
    BY DEF ExecStates
  <2>2. exec' = [exec EXCEPT ![e] = x]
    BY <1>3 DEF SetExec
  <2> HIDE DEF x
  <2> QED BY <1>3, <2>1, <2>2
<1> QED BY <1>2, <1>3

\* Release of the writer, and its admission.
LEMMA WriterMoves ==
    ASSUME IInv, NEW e \in Execs
    PROVE  /\ ReleaseWriter(e) => HoldMoves(e)
           /\ hold' = AfterAdmit(target[e], e, "write") =>
                HoldMoves(e) /\ (Acquires(e) => hold'[target[e]].mode[e] = "write")
           /\ hold' = hold => HoldMoves(e) /\ hold'[target[e]].mode[e] = hold[target[e]].mode[e]
<1>1. StoreTypes /\ target[e] \in Worktrees /\ e \in Owners /\ "write" \in MountModes
  BY ExecNow DEF IInv, MountModes
<1>2. ReleaseWriter(e) => HoldMoves(e)
  BY <1>1, ReleaseMoves DEF ReleaseWriter
<1>3. ASSUME hold' = AfterAdmit(target[e], e, "write")
      PROVE  HoldMoves(e) /\ (Acquires(e) => hold'[target[e]].mode[e] = "write")
  <2>1. HoldMoves(e) /\ hold'[target[e]].mode[e] =
            IF MayMount(target[e], e, "write") THEN "write" ELSE hold[target[e]].mode[e]
    BY <1>1, <1>3, AdmitMoves
  <2> QED BY <2>1 DEF Acquires, StillHeld, Held
<1>4. hold' = hold => HoldMoves(e)
  BY <1>1, SameHolds
<1> QED BY <1>2, <1>3, <1>4

\* What a step of a pass leaves alone.
ExecFrame == UNCHANGED <<load, tree, volume, target, seen, starts, workspaceVars>>

\* A terminal exec has no command left to protect.
LEMMA ReleaseDoneKeeps ==
    ASSUME IInv, NEW e \in Execs, ReleaseDone(e), execPass[e] = "idle", ExecFrame
    PROVE  IInv'
<1>1. /\ ExecBecomes(e, exec[e], job[e], jobPod[e], execPass[e], starts[e])
      /\ HoldMoves(e)
  BY ExecNow, WriterMoves DEF ReleaseDone, ExecBecomes, ExecFrame
<1>2. ASSUME "lag" \notin Disturbances
      PROVE  Orderly(exec[e], job[e], jobPod[e], execPass[e], starts[e], hold'[target[e]].mode[e])
  BY <1>2, ExecFresh DEF Orderly, Scheduling, ReleaseDone
<1> QED BY <1>1, <1>2, ExecNow, ExecBecomesKeeps DEF ExecFrame

\* The Job is stopped, its end observed, or the hold of its command confirmed.
LEMMA ObserveJobKeeps ==
    ASSUME IInv, NEW e \in Execs, ObserveJob(e), execPass[e] = "idle", ExecFrame
    PROVE  IInv'
<1> DEFINE deletes == job' = [job EXCEPT ![e] = IF @ = "absent" THEN @ ELSE "deleting"]
<1>1. /\ jobPod' = jobPod
      /\ View(e).exec.phase \in {"pending", "stopping"} /\ View(e).job # "absent"
      /\ \/ deletes /\ ExecGoTo(e, "stop") /\ UNCHANGED <<hold, exec>>
         \/ UNCHANGED <<hold, exec, job, execPass>>
         \/ /\ View(e).job = "finished"
            /\ ReleaseWriter(e) /\ ExecGoTo(e, "finish") /\ UNCHANGED <<exec, job>>
         \/ /\ View(e).job # "finished" /\ Acquires(e)
            /\ hold' = AfterAdmit(target[e], e, "write")
            /\ SetExec(e, "pending", TRUE) /\ UNCHANGED <<job, execPass>>
  BY DEF ObserveJob
<1> USE DEF ExecFrame
<1>2. CASE deletes /\ ExecGoTo(e, "stop") /\ UNCHANGED <<hold, exec>>
  <2> DEFINE j == IF job[e] = "absent" THEN job[e] ELSE "deleting"
  <2>1. j \in JobStates /\ ExecBecomes(e, exec[e], j, jobPod[e], "stop", starts[e]) /\ HoldMoves(e)
    BY <1>1, <1>2, ExecNow, WriterMoves DEF ExecBecomes, ExecGoTo, JobStates
  <2>2. ASSUME "lag" \notin Disturbances
        PROVE  Orderly(exec[e], j, jobPod[e], "stop", starts[e], hold'[target[e]].mode[e])
    BY <1>1, <1>2, <2>2, ExecFresh DEF Orderly, Scheduling, Pending
  <2> HIDE DEF j
  <2> QED BY <2>1, <2>2, ExecNow, ExecBecomesKeeps
<1>3. CASE UNCHANGED <<hold, exec, job, execPass>>
  <2>1. ExecBecomes(e, exec[e], job[e], jobPod[e], execPass[e], starts[e]) /\ HoldMoves(e)
    BY <1>1, <1>3, ExecNow, WriterMoves DEF ExecBecomes
  <2>2. ASSUME "lag" \notin Disturbances
        PROVE  Orderly(exec[e], job[e], jobPod[e], execPass[e], starts[e], hold'[target[e]].mode[e])
    BY <1>3, <2>2, ExecFresh
  <2> QED BY <2>1, <2>2, ExecNow, ExecBecomesKeeps
<1>4. CASE /\ View(e).job = "finished"
           /\ ReleaseWriter(e) /\ ExecGoTo(e, "finish") /\ UNCHANGED <<exec, job>>
  <2>1. ExecBecomes(e, exec[e], job[e], jobPod[e], "finish", starts[e]) /\ HoldMoves(e)
    BY <1>1, <1>4, ExecNow, WriterMoves DEF ExecBecomes, ExecGoTo
  <2>2. ASSUME "lag" \notin Disturbances
        PROVE  Orderly(exec[e], job[e], jobPod[e], "finish", starts[e], hold'[target[e]].mode[e])
    BY <1>4, <2>2, ExecFresh DEF Orderly, Scheduling, Pending, Runs
  <2> QED BY <2>1, <2>2, ExecNow, ExecBecomesKeeps
<1>5. CASE /\ View(e).job # "finished" /\ Acquires(e)
           /\ hold' = AfterAdmit(target[e], e, "write")
           /\ SetExec(e, "pending", TRUE) /\ UNCHANGED <<job, execPass>>
  <2>1. PICK x \in ExecStates :
            /\ exec' = [exec EXCEPT ![e] = x]
            /\ IF View(e).exec.phase = "done" \/ exec[e].phase = "deleted" THEN x = exec[e]
               ELSE x.phase = "pending" /\ (x.recorded <=> TRUE)
    BY <1>5, SetExecShape
  <2>2. /\ ExecBecomes(e, x, job[e], jobPod[e], execPass[e], starts[e]) /\ HoldMoves(e)
        /\ hold'[target[e]].mode[e] = "write"
    BY <1>1, <1>5, <2>1, ExecNow, WriterMoves DEF ExecBecomes
  <2>3. ASSUME "lag" \notin Disturbances
        PROVE  Orderly(x, job[e], jobPod[e], execPass[e], starts[e], hold'[target[e]].mode[e])
    BY <1>1, <2>1, <2>2, <2>3, ExecFresh DEF Orderly, Scheduling, Pending, Acquires
  <2> QED BY <2>2, <2>3, ExecNow, ExecBecomesKeeps
<1> QED BY <1>1, <1>2, <1>3, <1>4, <1>5

\* A failure, or a result, is recorded after its cause.
LEMMA RecordKeeps ==
    ASSUME IInv, NEW e \in Execs, RecordStopping(e) \/ RecordResult(e), ExecFrame
    PROVE  IInv'
<1>1. PICK p \in {"stopping", "done"} : /\ SetExec(e, p, TRUE) /\ ExecGoTo(e, "idle")
                                        /\ p = "done" => execPass[e] = "finish"
                                        /\ p = "stopping" => execPass[e] = "stop"
                                        /\ UNCHANGED <<hold, job, jobPod>>
  BY DEF RecordStopping, RecordResult
<1>2. PICK x \in ExecStates :
            /\ exec' = [exec EXCEPT ![e] = x]
            /\ IF View(e).exec.phase = "done" \/ exec[e].phase = "deleted" THEN x = exec[e]
               ELSE x.phase = p /\ (x.recorded <=> TRUE)
  <2>1. p \in {"pending", "stopping", "done"} /\ TRUE \in BOOLEAN /\ SetExec(e, p, TRUE)
    BY <1>1
  <2> QED BY <2>1, SetExecShape, Zenon
<1>3. ExecBecomes(e, x, job[e], jobPod[e], "idle", starts[e]) /\ HoldMoves(e)
  BY <1>1, <1>2, ExecNow, WriterMoves DEF ExecBecomes, ExecGoTo, ExecFrame
<1>4. ASSUME "lag" \notin Disturbances
      PROVE  Orderly(x, job[e], jobPod[e], "idle", starts[e], hold'[target[e]].mode[e])
  BY <1>1, <1>2, <1>4, ExecFresh DEF Orderly, Scheduling, Pending
<1> QED BY <1>3, <1>4, ExecNow, ExecBecomesKeeps DEF ExecFrame

\* The hold of a lost Job goes after its Pod has been seen to be gone.
LEMMA LoseJobKeeps ==
    ASSUME IInv, NEW e \in Execs, LoseJob(e), execPass[e] = "idle", ExecFrame
    PROVE  IInv'
<1>1. job' = job /\ View(e).exec.phase \in {"pending", "stopping"} /\ View(e).job = "absent"
  BY DEF LoseJob
<1> USE DEF ExecFrame
<1>2. CASE PodsGone(View(e))
  <2>1. /\ View(e).pod = "absent" /\ ReleaseWriter(e)
        /\ ExecBecomes(e, exec[e], job[e], jobPod[e], "finish", starts[e]) /\ HoldMoves(e)
    BY <1>1, <1>2, ExecNow, WriterMoves DEF LoseJob, ExecBecomes, ExecGoTo, PodsGone
  <2>2. ASSUME "lag" \notin Disturbances
        PROVE  Orderly(exec[e], job[e], jobPod[e], "finish", starts[e], hold'[target[e]].mode[e])
    BY <1>1, <2>1, <2>2, ExecFresh DEF Orderly, Scheduling, Pending, Runs
  <2> QED BY <2>1, <2>2, ExecNow, ExecBecomesKeeps
<1>3. CASE ~PodsGone(View(e))
  <2> DEFINE p == IF jobPod[e] = "running" THEN "stopping"
                  ELSE IF jobPod[e] = "stopped" THEN "absent" ELSE jobPod[e]
  <2>1. /\ jobPod' = [jobPod EXCEPT ![e] = p] /\ SetExec(e, "stopping", TRUE)
        /\ UNCHANGED <<hold, execPass>>
    BY <1>3 DEF LoseJob
  <2>2. PICK x \in ExecStates :
            /\ exec' = [exec EXCEPT ![e] = x]
            /\ IF View(e).exec.phase = "done" \/ exec[e].phase = "deleted" THEN x = exec[e]
               ELSE x.phase = "stopping" /\ (x.recorded <=> TRUE)
    BY <2>1, SetExecShape
  <2>3. /\ p \in PodStates /\ ExecBecomes(e, x, job[e], p, execPass[e], starts[e]) /\ HoldMoves(e)
    BY <1>1, <2>1, <2>2, ExecNow, WriterMoves DEF ExecBecomes, PodStates
  <2>4. ASSUME "lag" \notin Disturbances
        PROVE  Orderly(x, job[e], p, execPass[e], starts[e], hold'[target[e]].mode[e])
    BY <1>1, <2>1, <2>2, <2>4, ExecFresh DEF Orderly, Scheduling, Pending, Runs
  <2> HIDE DEF p
  <2> QED BY <2>3, <2>4, ExecNow, ExecBecomesKeeps
<1> QED BY <1>2, <1>3

\* A command is scheduled under the write hold, and only if it never was.
LEMMA AdmitWriterKeeps ==
    ASSUME IInv, NEW e \in Execs, AdmitWriter(e), execPass[e] = "idle", View(e).exec.phase # "deleted", ExecFrame
    PROVE  IInv'
<1>1. /\ UNCHANGED <<job, jobPod>>
      /\ View(e).exec.phase \in {"pending", "stopping"} /\ ~View(e).exec.recorded /\ View(e).job = "absent"
      /\ \/ \E p \in {"done", "pending"} : SetExec(e, p, FALSE) /\ UNCHANGED <<hold, execPass>>
         \/ /\ Acquires(e) /\ hold' = AfterAdmit(target[e], e, "write")
            /\ ExecGoTo(e, "recheck") /\ UNCHANGED exec
  BY DEF AdmitWriter, Unscheduled
<1> USE DEF ExecFrame
<1>2. ASSUME NEW p \in {"done", "pending"}, SetExec(e, p, FALSE), UNCHANGED <<hold, execPass>>
      PROVE  IInv'
  <2>1. PICK x \in ExecStates :
            /\ exec' = [exec EXCEPT ![e] = x]
            /\ IF View(e).exec.phase = "done" \/ exec[e].phase = "deleted" THEN x = exec[e]
               ELSE x.phase = p /\ (x.recorded <=> FALSE)
    <3>1. p \in {"pending", "stopping", "done"} /\ FALSE \in BOOLEAN /\ SetExec(e, p, FALSE)
      BY <1>2
    <3> QED BY <3>1, SetExecShape, Zenon
  <2>2. ExecBecomes(e, x, job[e], jobPod[e], execPass[e], starts[e]) /\ HoldMoves(e)
    BY <1>1, <1>2, <2>1, ExecNow, WriterMoves DEF ExecBecomes
  <2>3. ASSUME "lag" \notin Disturbances
        PROVE  Orderly(x, job[e], jobPod[e], execPass[e], starts[e], hold'[target[e]].mode[e])
    BY <1>1, <1>2, <2>1, <2>3, ExecFresh DEF Orderly, Scheduling, Pending, Runs
  <2> QED BY <2>2, <2>3, ExecNow, ExecBecomesKeeps
<1>3. CASE /\ Acquires(e) /\ hold' = AfterAdmit(target[e], e, "write")
           /\ ExecGoTo(e, "recheck") /\ UNCHANGED exec
  <2>1. /\ ExecBecomes(e, exec[e], job[e], jobPod[e], "recheck", starts[e]) /\ HoldMoves(e)
        /\ hold'[target[e]].mode[e] = "write"
    BY <1>1, <1>3, ExecNow, WriterMoves DEF ExecBecomes, ExecGoTo
  <2>2. ASSUME "lag" \notin Disturbances
        PROVE  Orderly(exec[e], job[e], jobPod[e], "recheck", starts[e], hold'[target[e]].mode[e])
    BY <1>1, <2>1, <2>2, ExecFresh DEF Orderly, Scheduling, Pending, Runs
  <2> QED BY <2>1, <2>2, ExecNow, ExecBecomesKeeps
<1> QED BY <1>1, <1>2, <1>3

\* Storage that closes after admission ends the exec before there is a Job.
LEMMA RecheckKeeps ==
    ASSUME IInv, NEW e \in Execs, Recheck(e), ExecFrame
    PROVE  IInv'
<1>1. execPass[e] = "recheck" /\ UNCHANGED <<job, jobPod>>
  BY DEF Recheck
<1> USE DEF ExecFrame
<1>2. CASE ReleaseWriter(e) /\ SetExec(e, "done", FALSE) /\ ExecGoTo(e, "idle")
  <2>1. PICK x \in ExecStates :
            /\ exec' = [exec EXCEPT ![e] = x]
            /\ IF View(e).exec.phase = "done" \/ exec[e].phase = "deleted" THEN x = exec[e]
               ELSE x.phase = "done" /\ (x.recorded <=> FALSE)
    BY <1>2, SetExecShape
  <2>2. ExecBecomes(e, x, job[e], jobPod[e], "idle", starts[e]) /\ HoldMoves(e)
    BY <1>1, <1>2, <2>1, ExecNow, WriterMoves DEF ExecBecomes, ExecGoTo
  <2>3. ASSUME "lag" \notin Disturbances
        PROVE  Orderly(x, job[e], jobPod[e], "idle", starts[e], hold'[target[e]].mode[e])
    BY <1>1, <2>1, <2>3, ExecFresh DEF Orderly, Scheduling, Pending, Runs
  <2> QED BY <2>2, <2>3, ExecNow, ExecBecomesKeeps
<1>3. CASE ExecGoTo(e, "record") /\ UNCHANGED <<hold, exec>>
  <2>1. ExecBecomes(e, exec[e], job[e], jobPod[e], "record", starts[e]) /\ HoldMoves(e)
    BY <1>1, <1>3, ExecNow, WriterMoves DEF ExecBecomes, ExecGoTo
  <2>2. ASSUME "lag" \notin Disturbances
        PROVE  Orderly(exec[e], job[e], jobPod[e], "record", starts[e], hold'[target[e]].mode[e])
    BY <1>1, <1>3, <2>2, ExecFresh DEF Orderly, Scheduling, Pending, Runs
  <2> QED BY <2>1, <2>2, ExecNow, ExecBecomesKeeps
<1> QED BY <1>2, <1>3 DEF Recheck

\* The Job is recorded before it is created.
LEMMA RecordJobKeeps ==
    ASSUME IInv, NEW e \in Execs, RecordJob(e), ExecFrame
    PROVE  IInv'
<1>1. execPass[e] = "record" /\ UNCHANGED <<job, jobPod>>
  BY DEF RecordJob
<1> USE DEF ExecFrame
<1>2. CASE ReleaseWriter(e) /\ ExecGoTo(e, "idle") /\ UNCHANGED exec
  <2>1. ExecBecomes(e, exec[e], job[e], jobPod[e], "idle", starts[e]) /\ HoldMoves(e)
    BY <1>1, <1>2, ExecNow, WriterMoves DEF ExecBecomes, ExecGoTo
  <2>2. ASSUME "lag" \notin Disturbances
        PROVE  Orderly(exec[e], job[e], jobPod[e], "idle", starts[e], hold'[target[e]].mode[e])
    BY <1>1, <2>2, ExecFresh DEF Orderly, Scheduling, Pending, Runs
  <2> QED BY <2>1, <2>2, ExecNow, ExecBecomesKeeps
<1>3. CASE SetExec(e, "pending", TRUE) /\ ExecGoTo(e, "create") /\ UNCHANGED hold
  <2>1. PICK x \in ExecStates :
            /\ exec' = [exec EXCEPT ![e] = x]
            /\ IF View(e).exec.phase = "done" \/ exec[e].phase = "deleted" THEN x = exec[e]
               ELSE x.phase = "pending" /\ (x.recorded <=> TRUE)
    BY <1>3, SetExecShape
  <2>2. ExecBecomes(e, x, job[e], jobPod[e], "create", starts[e]) /\ HoldMoves(e)
    BY <1>1, <1>3, <2>1, ExecNow, WriterMoves DEF ExecBecomes, ExecGoTo
  <2>3. ASSUME "lag" \notin Disturbances
        PROVE  Orderly(x, job[e], jobPod[e], "create", starts[e], hold'[target[e]].mode[e])
    BY <1>1, <1>3, <2>1, <2>3, ExecFresh DEF Orderly, Scheduling, Pending, Runs
  <2> QED BY <2>2, <2>3, ExecNow, ExecBecomesKeeps
<1> QED BY <1>2, <1>3 DEF RecordJob

\* The Job is created once it is recorded.
LEMMA CreateJobKeeps ==
    ASSUME IInv, NEW e \in Execs, CreateJob(e), ExecFrame
    PROVE  IInv'
<1> DEFINE j == IF job[e] = "absent" THEN "created" ELSE job[e]
<1>1. /\ execPass[e] = "create" /\ UNCHANGED <<hold, exec, jobPod>> /\ j \in JobStates
      /\ ExecBecomes(e, exec[e], j, jobPod[e], "idle", starts[e]) /\ HoldMoves(e)
  BY ExecNow, WriterMoves DEF CreateJob, ExecBecomes, ExecGoTo, ExecFrame, JobStates
<1>2. ASSUME "lag" \notin Disturbances
      PROVE  Orderly(exec[e], j, jobPod[e], "idle", starts[e], hold'[target[e]].mode[e])
  BY <1>1, <1>2, ExecFresh DEF Orderly, Scheduling, Pending, Runs
<1> HIDE DEF j
<1> QED BY <1>1, <1>2, ExecNow, ExecBecomesKeeps DEF ExecFrame

\* A pass that fails gives the hold back only before the Job is recorded.
LEMMA ExecPassFailsKeeps ==
    ASSUME IInv, NEW e \in Execs, ExecPassFails(e), UNCHANGED <<load, workspaceVars>>
    PROVE  IInv'
<1>1. /\ ExecBecomes(e, exec[e], job[e], jobPod[e], "idle", starts[e])
      /\ UNCHANGED <<tree, volume, target, seen>>
  BY ExecNow DEF ExecPassFails, ExecBecomes, ExecGoTo
<1>2. \/ execPass[e] = "record" /\ ReleaseWriter(e)
      \/ hold' = hold
  BY DEF ExecPassFails
<1>3. HoldMoves(e)
  BY <1>2, WriterMoves
<1>4. ASSUME "lag" \notin Disturbances
      PROVE  Orderly(exec[e], job[e], jobPod[e], "idle", starts[e], hold'[target[e]].mode[e])
  BY <1>2, <1>4, ExecFresh DEF Orderly, Scheduling, Pending, Runs
<1> QED BY <1>1, <1>3, <1>4, ExecNow, ExecBecomesKeeps

\* The Job controller and users change the Job and its Pod.
LEMMA SetPodsKeeps ==
    ASSUME IInv, NEW e \in Execs, NEW j \in JobStates, NEW p \in PodStates, SetPods(e, j, p), NEW n \in Nat,
           starts' = [starts EXCEPT ![e] = n],
           UNCHANGED <<load, storeVars, target, exec, seen, execPass, workspaceVars>>,
           "lag" \notin Disturbances => Orderly(exec[e], j, p, execPass[e], n, hold[target[e]].mode[e])
    PROVE  IInv'
<1>1. ExecBecomes(e, exec[e], j, p, execPass[e], n) /\ HoldMoves(e) /\ UNCHANGED <<hold, tree, volume>>
  BY ExecNow, WriterMoves DEF SetPods, ExecBecomes, storeVars
<1> QED BY <1>1, ExecNow, ExecBecomesKeeps, SMTT(30)

\* The Job controller, the garbage collector and users who delete Jobs.
LEMMA JobControllerKeeps ==
    ASSUME IInv, NEW e \in Execs, JobController(e) \/ DropJob(e),
           UNCHANGED <<load, storeVars, target, exec, seen, execPass, workspaceVars>>
    PROVE  IInv'
<1> USE DEF JobStates, PodStates, Orderly, Scheduling, Pending, Runs
<1>1. CASE StartCommand(e)
  <2>1. job[e] = "created" /\ SetPods(e, "active", "running") /\ starts' = [starts EXCEPT ![e] = starts[e] + 1]
    BY <1>1 DEF StartCommand
  <2>2. starts[e] + 1 \in Nat
    BY ExecNow
  <2>3. "lag" \notin Disturbances =>
            Orderly(exec[e], "active", "running", execPass[e], starts[e] + 1, hold[target[e]].mode[e])
    BY <2>1, ExecFresh, ExecNow
  <2> HIDE DEF Orderly
  <2> QED BY <2>1, <2>2, <2>3, SetPodsKeeps
<1>2. ASSUME NEW j \in JobStates, NEW p \in PodStates, SetPods(e, j, p), UNCHANGED starts,
             "lag" \notin Disturbances => Orderly(exec[e], j, p, execPass[e], starts[e], hold[target[e]].mode[e])
      PROVE  IInv'
  <2>1. starts' = [starts EXCEPT ![e] = starts[e]] /\ starts[e] \in Nat
    BY <1>2, ExecNow
  <2> HIDE DEF Orderly, JobStates, PodStates
  <2> QED BY <1>2, <2>1, SetPodsKeeps
<1>3. CASE CommandEnds(e)
  <2>1. jobPod[e] = "running" /\ SetPods(e, job[e], "stopped") /\ UNCHANGED starts
    BY <1>3 DEF CommandEnds
  <2>2. "lag" \notin Disturbances =>
            Orderly(exec[e], job[e], "stopped", execPass[e], starts[e], hold[target[e]].mode[e])
    BY <2>1, ExecFresh, ExecNow
  <2> HIDE DEF Orderly
  <2> QED BY <1>2, <2>1, <2>2, ExecNow
<1>4. CASE JobFinishes(e)
  <2>1. /\ job[e] = "active" /\ jobPod[e] \in {"stopped", "absent"}
        /\ SetPods(e, "finished", jobPod[e]) /\ UNCHANGED starts
    BY <1>4 DEF JobFinishes
  <2>2. "lag" \notin Disturbances =>
            Orderly(exec[e], "finished", jobPod[e], execPass[e], starts[e], hold[target[e]].mode[e])
    BY <2>1, ExecFresh, ExecNow
  <2> HIDE DEF Orderly
  <2> QED BY <1>2, <2>1, <2>2, ExecNow
<1>5. CASE CollectPod(e)
  <2> DEFINE p == IF jobPod[e] = "running" THEN "stopping" ELSE "absent"
  <2>1. /\ job[e] \in {"absent", "deleting"} /\ jobPod[e] # "absent"
        /\ SetPods(e, job[e], p) /\ UNCHANGED starts
    BY <1>5 DEF CollectPod
  <2>2. "lag" \notin Disturbances =>
            Orderly(exec[e], job[e], p, execPass[e], starts[e], hold[target[e]].mode[e])
    BY <2>1, ExecFresh, ExecNow
  <2>3. p \in PodStates
    OBVIOUS
  <2> HIDE DEF Orderly, p
  <2> QED BY <1>2, <2>1, <2>2, <2>3, ExecNow
<1>6. CASE PodStops(e)
  <2>1. jobPod[e] = "stopping" /\ SetPods(e, job[e], "absent") /\ UNCHANGED starts
    BY <1>6 DEF PodStops
  <2>2. "lag" \notin Disturbances =>
            Orderly(exec[e], job[e], "absent", execPass[e], starts[e], hold[target[e]].mode[e])
    BY <2>1, ExecFresh, ExecNow
  <2> HIDE DEF Orderly
  <2> QED BY <1>2, <2>1, <2>2, ExecNow
<1>7. CASE RemoveJob(e)
  <2>1. /\ job[e] = "deleting" /\ jobPod[e] = "absent"
        /\ SetPods(e, "absent", "absent") /\ UNCHANGED starts
    BY <1>7 DEF RemoveJob
  <2>2. "lag" \notin Disturbances =>
            Orderly(exec[e], "absent", "absent", execPass[e], starts[e], hold[target[e]].mode[e])
    BY <2>1, ExecFresh, ExecNow
  <2> HIDE DEF Orderly
  <2> QED BY <1>2, <2>1, <2>2
<1>8. CASE CollectJob(e) \/ DropJob(e)
  <2>1. /\ job[e] \notin {"absent", "deleting"}
        /\ SetPods(e, "absent", jobPod[e]) /\ UNCHANGED starts
    BY <1>8 DEF CollectJob, DropJob
  <2>2. "lag" \notin Disturbances =>
            Orderly(exec[e], "absent", jobPod[e], execPass[e], starts[e], hold[target[e]].mode[e])
    BY <2>1, ExecFresh, ExecNow
  <2> HIDE DEF Orderly
  <2> QED BY <1>2, <2>1, <2>2, ExecNow
<1> QED BY <1>1, <1>3, <1>4, <1>5, <1>6, <1>7, <1>8 DEF JobController

\* A deleted exec keeps its Job and its pass for a while, and starts no other.
LEMMA DeleteExecKeeps ==
    ASSUME IInv, NEW e \in Execs, DeleteExec(e), UNCHANGED <<load, storeVars, target, seen, execPass, workspaceVars>>
    PROVE  IInv'
<1> DEFINE x == [exec[e] EXCEPT !.phase = "deleted"]
<1>1. exec[e] \in ExecStates
  BY ExecNow
<1>2. x \in ExecStates /\ x.phase = "deleted" /\ (x.recorded <=> exec[e].recorded)
  BY <1>1 DEF ExecStates
<1>3. /\ "deleteExec" \in Disturbances /\ UNCHANGED <<hold, tree, volume>>
      /\ ExecBecomes(e, x, job[e], jobPod[e], execPass[e], starts[e])
  BY ExecNow DEF DeleteExec, ExecBecomes, storeVars
<1> HIDE DEF x
<1>4. HoldMoves(e)
  BY <1>3, WriterMoves
<1>5. ASSUME "lag" \notin Disturbances
      PROVE  Orderly(x, job[e], jobPod[e], execPass[e], starts[e], hold'[target[e]].mode[e])
  BY <1>2, <1>3, <1>5, ExecFresh DEF Orderly, Scheduling, Pending
<1> QED BY <1>2, <1>3, <1>4, <1>5, ExecNow, ExecBecomesKeeps

\* An informer that catches up: with lag nothing is promised about the exec.
LEMMA SyncKeeps ==
    ASSUME IInv, NEW e \in Execs, Sync(e),
           UNCHANGED <<load, storeVars, target, exec, job, jobPod, execPass, starts, workspaceVars>>
    PROVE  IInv'
<1>1. /\ ExecBecomes(e, exec[e], job[e], jobPod[e], execPass[e], starts[e]) /\ HoldMoves(e)
      /\ UNCHANGED <<hold, tree, volume>> /\ "lag" \in Disturbances
  BY ExecNow, WriterMoves DEF Sync, ExecBecomes, storeVars
<1>2. seen' \in [Execs -> Views]
  <2>1. seen[e] \in Views /\ exec[e] \in ExecStates /\ job[e] \in JobStates /\ jobPod[e] \in PodStates
    BY ExecNow
  <2>2. PICK part \in {"exec", "job", "pod"} : seen' = [seen EXCEPT ![e] = [seen[e] EXCEPT ![part] = Current(e)[part]]]
    BY DEF Sync
  <2>3. [seen[e] EXCEPT ![part] = Current(e)[part]] \in Views
    BY <2>1 DEF Views, Current
  <2> QED BY <2>2, <2>3, ExecNow
<1> QED BY <1>1, <1>2, ExecNow, ExecBecomesKeeps

\* The hold of an exec that is gone is swept.
LEMMA SweepKeeps ==
    ASSUME IInv, NEW e \in Execs, Sweep(e), UNCHANGED load
    PROVE  IInv'
<1>1. /\ exec[e].phase = "deleted" /\ ReleaseWriter(e)
      /\ UNCHANGED <<tree, volume, target, seen, workspaceVars>>
      /\ ExecBecomes(e, exec[e], job[e], jobPod[e], execPass[e], starts[e])
  BY ExecNow DEF Sweep, SweepExec, KeepStoreHolds, execVars, ExecBecomes
<1>2. HoldMoves(e)
  BY <1>1, WriterMoves
<1>3. ASSUME "lag" \notin Disturbances
      PROVE  Orderly(exec[e], job[e], jobPod[e], execPass[e], starts[e], hold'[target[e]].mode[e])
  BY <1>1, <1>3, ExecFresh DEF Orderly
<1> QED BY <1>1, <1>2, <1>3, ExecNow, ExecBecomesKeeps

\* Every step of the WorktreeExec controller and of what surrounds it.
LEMMA ExecNextKeeps ==
    ASSUME IInv, ExecNext, UNCHANGED <<load, workspaceVars>>
    PROVE  IInv'
<1>1. PICK e \in Execs :
        \/ ExecStep(e)
        \/ (JobController(e) \/ DropJob(e)) /\ UNCHANGED <<storeVars, target, exec, seen, execPass>>
        \/ DeleteExec(e) /\ UNCHANGED <<storeVars, target, seen, execPass>>
        \/ Sync(e) /\ UNCHANGED <<storeVars, target, exec, job, jobPod, execPass, starts>>
        \/ ExecPassFails(e)
  BY DEF ExecNext
<1>2. CASE ExecStep(e)
  <2>1. ExecFrame
    BY <1>2 DEF ExecStep, KeepStoreHolds, ExecFrame
  <2>2. CASE Reconcile(e)
    BY <2>1, <2>2, ReleaseDoneKeeps, ObserveJobKeeps, LoseJobKeeps, AdmitWriterKeeps DEF Reconcile
  <2> QED BY <1>2, <2>1, <2>2, RecheckKeeps, RecordJobKeeps, CreateJobKeeps, RecordKeeps DEF ExecStep
<1> QED BY <1>1, <1>2, JobControllerKeeps, DeleteExecKeeps, SyncKeeps, ExecPassFailsKeeps

-----------------------------------------------------------------------------
(* The Worktree controller and the storage.                                *)

\* Steps that leave the holders alone.
LEMMA StoreStepKeeps ==
    ASSUME IInv, hold' \in [Worktrees -> HoldStates],
           \A t \in Worktrees, o \in Owners : hold'[t].mode[o] = hold[t].mode[o],
           StoreTypes', VolumeClosed', UNCHANGED <<load, workspaceVars, execVars>>
    PROVE  IInv'
<1>1. WorkspaceTypes' /\ ExecTypes'
  BY DEF IInv, WorkspaceTypes, ExecTypes, workspaceVars, execVars
<1>2. HoldsExclusive'
  BY DEF IInv, HoldsExclusive
<1>3. ASSUME NEW w \in Workspaces PROVE WorkspaceSafe(w)'
  <2>1. WorkspaceSafe(w) /\ \A t \in Worktrees : hold'[t].mode[w] = hold[t].mode[w]
    BY WorkspacesAssumption DEF IInv
  <2>2. Covered(w)' /\ Unused(w)' /\ Looping(w)'
    BY <2>1 DEF WorkspaceSafe, Covered, Unused, Looping, At, Live, Mounted, NoHelpers, workspaceVars
  <2>3. AsSpecified(w)'
    BY <2>1 DEF WorkspaceSafe, AsSpecified, At, Live, Mounted, workspaceVars
  <2>4. NeverWeakened(w)'
    BY <2>1 DEF WorkspaceSafe, NeverWeakened, Live, Disturbances, workspaceVars
  <2> QED BY <2>2, <2>3, <2>4 DEF WorkspaceSafe
<1>4. ASSUME NEW e \in Execs PROVE ExecSafe(e)'
  <2>1. ExecSafe(e) /\ hold'[target[e]].mode[e] = hold[target[e]].mode[e]
    BY ExecNow DEF IInv
  <2> QED BY <2>1 DEF ExecSafe, Orderly, Disturbances, execVars
<1> QED BY <1>1, <1>2, <1>3, <1>4 DEF IInv

\* The protection goes only from a hold set that is closed and empty.
LEMMA CleanupKeeps ==
    ASSUME IInv, NEW t \in Worktrees, Cleanup(t), UNCHANGED load
    PROVE  IInv'
<1>1. StoreTypes /\ VolumeClosed /\ hold[t] \in HoldStates
  BY DEF IInv, StoreTypes
<1>2. /\ hold' = [hold EXCEPT ![t] = Close(hold[t])]
      /\ UNCHANGED <<workspaceVars, execVars>>
  BY DEF Cleanup, CleanupPass
<1>3. Close(hold[t]) \in HoldStates /\ Close(hold[t]).closed /\ Close(hold[t]).mode = hold[t].mode
  BY <1>1 DEF Close, HoldStates
<1>4. /\ hold' \in [Worktrees -> HoldStates]
      /\ \A u \in Worktrees \ {t} : hold'[u] = hold[u]
      /\ hold'[t].closed /\ hold'[t].mode = hold[t].mode
  BY <1>1, <1>2, <1>3 DEF StoreTypes
<1>5. /\ tree' \in [Worktrees -> {"live", "deleting", "gone"}]
      /\ volume' \in [Worktrees -> {"bound", "deleting", "released", "gone"}]
      /\ \A u \in Worktrees \ {t} : volume'[u] = volume[u]
      /\ volume'[t] = volume[t] \/ Holders(hold[t]) = {}
  BY <1>1 DEF StoreTypes, Cleanup, CleanupPass, CleanupReady
<1>6. StoreTypes'
  BY <1>1, <1>4, <1>5 DEF StoreTypes
<1>7. VolumeClosed'
  <2>1. Holders(hold[t]) = {} => \A o \in Owners : hold[t].mode[o] = "none"
    BY DEF Holders
  <2> QED BY <1>1, <1>4, <1>5, <2>1 DEF VolumeClosed
<1>8. \A u \in Worktrees, o \in Owners : hold'[u].mode[o] = hold[u].mode[o]
  BY <1>4
<1> QED BY <1>2, <1>4, <1>6, <1>7, <1>8, StoreStepKeeps

\* Worktrees and volumes are deleted; a claim goes after its protection.
LEMMA StorageKeeps ==
    ASSUME IInv, NEW t \in Worktrees, Storage(t), UNCHANGED load
    PROVE  IInv'
<1>1. StoreTypes /\ VolumeClosed
  BY DEF IInv
<1>2. hold' = hold /\ UNCHANGED <<workspaceVars, execVars>>
  BY DEF Storage, DeleteWorktree, DeleteVolume, VolumeGone
<1>3. /\ tree' \in [Worktrees -> {"live", "deleting", "gone"}]
      /\ volume' \in [Worktrees -> {"bound", "deleting", "released", "gone"}]
      /\ \A u \in Worktrees : volume'[u] \in {"released", "gone"} => volume[u] \in {"released", "gone"}
  BY <1>1 DEF StoreTypes, Storage, DeleteWorktree, DeleteVolume, VolumeGone
<1>4. StoreTypes' /\ VolumeClosed'
  BY <1>1, <1>2, <1>3 DEF StoreTypes, VolumeClosed
<1> QED BY <1>1, <1>2, <1>4, StoreStepKeeps DEF StoreTypes

-----------------------------------------------------------------------------
(* Theorems.                                                               *)

\* Nothing is held, mounted or scheduled at first.
LEMMA InitSafe == Init => IInv
<1> SUFFICES ASSUME Init PROVE IInv
  OBVIOUS
<1>1. load \in Loads /\ load.worktrees \subseteq Worktrees
  BY WorktreesAssumption DEF Init, StoreInit
<1>2. StoreTypes
  BY <1>1 DEF Init, StoreInit, StoreTypes, HoldStates, EmptySet, MountModes
<1>3. WorkspaceTypes
  <2>1. NoMounts \in Mounts
    BY DEF NoMounts, Mounts
  <2>2. NewSpec \in LooseSpecs /\ \A m \in Mounts : [NewSpec EXCEPT !.mounts = m] \in LooseSpecs
    BY <2>1 DEF NewSpec, LooseSpecs
  <2>3. [NewSpec EXCEPT !.desired = "Gone"] \in LooseSpecs
    BY <2>1 DEF NewSpec, LooseSpecs
  <2>4. spec \in [Workspaces -> LooseSpecs]
    BY <2>2, <2>3 DEF Init, WorkspaceInit
  <2>5. NoPass \in LoosePasses
    BY <2>2 DEF NoPass, LoosePasses, PassSteps
  <2>6. NoPod \in LoosePods /\ NoHelper \in Helpers
    BY DEF NoPod, LoosePods, NoHelper, Helpers, HelperPhases
  <2> QED BY <2>4, <2>5, <2>6 DEF Init, WorkspaceInit, WorkspaceTypes
<1>4. ExecTypes
  <2>1. \A e \in Execs : FirstSeen(e) \in ExecStates
    BY DEF FirstSeen, NewExec, ExecStates
  <2>2. seen \in [Execs -> Views]
    BY <2>1 DEF Init, ExecInit, Views, JobStates, PodStates
  <2> QED BY <1>1, <2>1, <2>2 DEF Init, ExecInit, ExecTypes, JobStates, PodStates
<1>5. \A t \in Worktrees, o \in Owners : hold[t].mode[o] = "none"
  BY DEF Init, StoreInit, EmptySet
<1>6. HoldsExclusive /\ VolumeClosed
  BY <1>5 DEF Init, StoreInit, HoldsExclusive, VolumeClosed
<1>7. ASSUME NEW w \in Workspaces PROVE WorkspaceSafe(w)
  <2>1. \A t \in Worktrees : ~Live(w, t)
    BY DEF Init, WorkspaceInit, Live, NoHelper
  <2>2. pass[w].pc = "idle" /\ pass[w].spec = NewSpec
    BY DEF Init, WorkspaceInit, NoPass
  <2>3. \A t \in Worktrees : NewSpec.mounts[t] = "none"
    BY DEF NewSpec, NoMounts
  <2> QED BY <2>1, <2>2, <2>3
          DEF WorkspaceSafe, Covered, Unused, Looping, AsSpecified, NeverWeakened, At
<1>8. ASSUME NEW e \in Execs PROVE ExecSafe(e)
  <2>1. /\ job[e] = "absent" /\ jobPod[e] = "absent" /\ execPass[e] = "idle" /\ starts[e] = 0
        /\ exec[e] = FirstSeen(e)
    BY DEF Init, ExecInit
  <2> QED BY <2>1 DEF ExecSafe, Orderly, Scheduling, Pending, Runs, FirstSeen, NewExec
<1> QED BY <1>2, <1>3, <1>4, <1>6, <1>7, <1>8 DEF IInv

\* Every step of the system keeps the invariant.
LEMMA NextKeeps ==
    ASSUME IInv, [Next /\ UNCHANGED load]_<<vars, load>>
    PROVE  IInv'
<1>1. CASE UNCHANGED <<vars, load>>
  BY <1>1, SMTT(30) DEF vars, storeVars, workspaceVars, execVars, IInv, StoreTypes, WorkspaceTypes, ExecTypes,
              HoldsExclusive, VolumeClosed, WorkspaceSafe, Covered, Unused, Looping, AsSpecified,
              NeverWeakened, ExecSafe, Orderly, At, Live, Mounted, NoHelpers, Disturbances
<1>2. CASE Next /\ UNCHANGED load
  BY <1>2, WorkspaceNextKeeps, ExecNextKeeps, SweepKeeps, CleanupKeeps, StorageKeeps DEF Next
<1> QED BY <1>1, <1>2

\* The invariant holds in every state the controllers, users and the cluster
\* reach, for every number of owners and Worktrees and every load.
THEOREM HoldsInvariant == Spec => []IInv
<1>1. Init => IInv
  BY InitSafe
<1>2. IInv /\ [Next /\ UNCHANGED load]_<<vars, load>> => IInv'
  BY NextKeeps
<1> QED BY <1>1, <1>2, PTL DEF Spec

\* Whoever may write to a Worktree holds it for writing.
LEMMA WritersHold ==
    ASSUME IInv, Disturbances \cap {"downgrade", "deleteExec", "lag"} = {},
           NEW t \in Worktrees, NEW o \in Writers(t)
    PROVE  o \in Owners /\ hold[t].mode[o] = "write"
<1>0. /\ "downgrade" \notin Disturbances /\ "deleteExec" \notin Disturbances /\ "lag" \notin Disturbances
  OBVIOUS
<1>1. CASE o \in Workspaces /\ Live(o, t) /\ helper[o][t].mode = "write"
  <2>1. NeverWeakened(o) /\ o \in Owners
    BY <1>1, WorkspacesAssumption DEF IInv, WorkspaceSafe
  <2> QED BY <1>0, <1>1, <2>1 DEF NeverWeakened
<1>2. CASE o \in Execs /\ target[o] = t /\ Writing(o)
  <2>1. ExecSafe(o) /\ o \in Owners
    BY <1>2, ExecsAssumption DEF IInv
  <2> QED BY <1>0, <1>2, <2>1 DEF ExecSafe, Orderly, Pending, Runs, Writing
<1> QED BY <1>1, <1>2 DEF Writers

\* One Worktree is written by one running Workspace or WorktreeExec at a time,
\* unless somebody edits a write mount that is held to a read mount, deletes a
\* WorktreeExec, or lets its caches lag.
THEOREM WritersAlone ==
    Spec => [](Disturbances \cap {"downgrade", "deleteExec", "lag"} = {} => OneWriter)
<1>1. ASSUME IInv, Disturbances \cap {"downgrade", "deleteExec", "lag"} = {} PROVE OneWriter
  <2> SUFFICES ASSUME NEW t \in Worktrees PROVE Cardinality(Writers(t)) <= 1
    BY DEF OneWriter
  <2>1. \A o, p \in Writers(t) : o = p
    BY <1>1, WritersHold DEF IInv, HoldsExclusive
  <2>2. CASE Writers(t) = {}
    BY <2>2, FS_EmptySet
  <2>3. CASE Writers(t) # {}
    <3>1. PICK o \in Writers(t) : TRUE
      BY <2>3
    <3>2. Writers(t) = {o}
      BY <2>1, <3>1
    <3>3. Cardinality({o}) = 1
      BY FS_Singleton
    <3> QED BY <3>2, <3>3
  <2> QED BY <2>2, <2>3
<1> QED BY <1>1, HoldsInvariant, PTL

\* What is mounted is held, and holds are given back only after the last
\* consumer stopped, unless a write mount that is held is edited to read.
THEOREM MountedIsHeld == Spec => []("downgrade" \notin Disturbances => ConsumersHeld)
<1>1. ASSUME IInv, "downgrade" \notin Disturbances PROVE ConsumersHeld
  <2>1. ASSUME NEW t \in Worktrees, NEW w \in Workspaces, Live(w, t)
        PROVE  hold[t].mode[w] \in {"write", helper[w][t].mode}
    BY <1>1, <2>1 DEF IInv, WorkspaceSafe, NeverWeakened
  <2>2. ASSUME NEW t \in Worktrees, NEW e \in Execs, target[e] = t, Writing(e), exec[e].phase # "deleted",
               "lag" \notin Disturbances
        PROVE  hold[t].mode[e] = "write"
    <3>1. ExecSafe(e)
      BY <1>1 DEF IInv
    <3> QED BY <2>2, <3>1 DEF ExecSafe, Orderly, Pending, Runs, Writing
  <2> QED BY <2>1, <2>2 DEF ConsumersHeld
<1> QED BY <1>1, HoldsInvariant, PTL

\* The volume loses its protection only when nothing mounts it, and nothing
\* mounts it afterwards, whatever users do to the mounts.
THEOREM VolumeKept == Spec => []VolumeProtected
<1>1. ASSUME IInv PROVE VolumeProtected
  <2> SUFFICES ASSUME NEW t \in Worktrees, Disturbances \cap {"deleteExec", "lag"} = {},
                      volume[t] \in {"released", "gone"}
               PROVE  ~InUse(t) /\ \A w \in Workspaces : ~Live(w, t)
    BY DEF VolumeProtected
  <2>0. "deleteExec" \notin Disturbances /\ "lag" \notin Disturbances
    OBVIOUS
  <2>1. \A o \in Owners : hold[t].mode[o] = "none"
    BY <1>1 DEF IInv, VolumeClosed
  <2>2. ASSUME NEW w \in Workspaces, Live(w, t) PROVE FALSE
    BY <1>1, <2>1, <2>2, WorkspacesAssumption DEF IInv, WorkspaceSafe, Covered
  <2>3. ASSUME NEW e \in Execs, target[e] = t, Writing(e) PROVE FALSE
    <3>1. ExecSafe(e) /\ hold[t].mode[e] = "none"
      BY <1>1, <2>1, ExecsAssumption DEF IInv
    <3> QED BY <2>0, <2>3, <3>1 DEF ExecSafe, Orderly, Pending, Runs, Writing
  <2> QED BY <2>2, <2>3 DEF InUse, RunsOn, Live
<1> QED BY <1>1, HoldsInvariant, PTL

\* A command is started at most once, whatever fails, restarts or is deleted, by
\* a controller whose caches do not lag.
THEOREM CommandsOnce == Spec => []("lag" \notin Disturbances => CommandOnce)
<1>1. ASSUME IInv, "lag" \notin Disturbances PROVE CommandOnce
  BY <1>1, ExecFresh DEF CommandOnce, Orderly
<1> QED BY <1>1, HoldsInvariant, PTL

\* Once a result is recorded the command does not run and will not start.
THEOREM ResultsFinal == Spec => []ResultIsFinal
<1>1. ASSUME IInv PROVE ResultIsFinal
  BY <1>1, ExecFresh DEF ResultIsFinal, Orderly, Pending, Runs, Writing
<1> QED BY <1>1, HoldsInvariant, PTL

=============================================================================
