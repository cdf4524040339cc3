------------------------- MODULE WorktreeRefinement -------------------------
(***************************************************************************)
(* WorktreeSystem implements AccessFence: however Workspaces,              *)
(* WorktreeExecs and the Worktree controller interleave, every Worktree is *)
(* used the way a hold set promises.  HoldSetProofs shows the same of the  *)
(* operations of package holdset, which are single steps here; what is     *)
(* shown is that the controllers keep the discipline under which those     *)
(* operations protect anything.                                            *)
(*                                                                         *)
(* The refinement maps the helper Pods of a Workspace and the Pod of a     *)
(* WorktreeExec to uses.  A step of one owner changes its uses or its      *)
(* holds, never both, and is seen by every Worktree as a stutter or as one *)
(* operation of AccessFence by that owner.                                 *)
(***************************************************************************)
EXTENDS WorktreeProofs

-----------------------------------------------------------------------------
(* One Worktree and one owner.                                             *)

\* The modes in which o uses Worktree t.
Uses(t, o) ==
    IF o \in Workspaces THEN (IF Live(o, t) THEN {helper[o][t].mode} ELSE {})
    ELSE IF o \in Execs /\ target[o] = t /\ Writing(o) THEN {"write"} ELSE {}

\* The refinement mapping, owner by owner, and what it becomes in a step.
LEMMA UsersAreUses == ASSUME NEW t PROVE UsersOf(t) = [o \in Owners |-> Uses(t, o)]
BY Zenon DEF UsersOf, Uses

LEMMA UsersAreUsesNext == ASSUME NEW t \in Worktrees PROVE UsersOf(t)' = [o \in Owners |-> Uses(t, o)']
BY Zenon DEF UsersOf, Uses

FenceStep(t) == [Access(t)!FenceNext]_(Access(t)!fenceVars)

\* A Worktree whose hold set and users stay is left alone.
LEMMA FenceStays ==
    ASSUME NEW t \in Worktrees, hold'[t] = hold[t], \A p \in Owners : Uses(t, p)' = Uses(t, p)
    PROVE  FenceStep(t)
<1>1. UsersOf(t)' = UsersOf(t)
  BY UsersAreUses, UsersAreUsesNext
<1> QED BY <1>1 DEF FenceStep, Access!fenceVars

\* An owner uses it less: Leave.
LEMMA FenceLeft ==
    ASSUME NEW t \in Worktrees, NEW o \in Owners, hold'[t] = hold[t],
           \A p \in Owners \ {o} : Uses(t, p)' = Uses(t, p), Uses(t, o)' \subseteq Uses(t, o)
    PROVE  FenceStep(t)
<1>1. UsersOf(t)' = [UsersOf(t) EXCEPT ![o] = Uses(t, o)']
  BY UsersAreUses, UsersAreUsesNext
<1>2. UsersOf(t)[o] = Uses(t, o)
  BY UsersAreUses
<1>3. Access(t)!Leave(o, Uses(t, o)')
  BY <1>1, <1>2 DEF Access!Leave
<1> QED BY <1>2, <1>3, Zenon DEF FenceStep, Access!FenceNext

\* An owner starts to use it in the mode it holds: Use.
LEMMA FenceUsed ==
    ASSUME NEW t \in Worktrees, NEW o \in Owners, NEW m \in MountModes, hold'[t] = hold[t],
           \A p \in Owners \ {o} : Uses(t, p)' = Uses(t, p),
           hold[t].mode[o] = m, Uses(t, o)' = Uses(t, o) \cup {m}
    PROVE  FenceStep(t)
<1>1. UsersOf(t)' = [UsersOf(t) EXCEPT ![o] = @ \cup {m}]
  BY UsersAreUses, UsersAreUsesNext
<1>2. Access(t)!Use(o, m)
  BY <1>1 DEF Access!Use
<1> QED BY <1>2, Zenon DEF FenceStep, Access!FenceNext

\* The Worktree controller closes it: Fence.
LEMMA FenceClosed ==
    ASSUME NEW t \in Worktrees, hold'[t] = Close(hold[t]), \A p \in Owners : Uses(t, p)' = Uses(t, p)
    PROVE  FenceStep(t)
<1>1. UsersOf(t)' = UsersOf(t)
  BY UsersAreUses, UsersAreUsesNext
<1>2. Access(t)!Fence
  BY <1>1 DEF Access!Fence, Access!Close, Close
<1> QED BY <1>2, Zenon DEF FenceStep, Access!FenceNext

\* No write hold is granted past the fence, to a reader either.
HoldGrants(o) ==
    \A t \in Worktrees :
        hold'[t].mode[o] = "write" /\ hold[t].mode[o] # "write" => ~hold[t].closed

\* What an owner does is covered by what it holds.
UsesHeld(t, o) == \A k \in Uses(t, o) : k \in MountModes /\ hold[t].mode[o] \in {"write", k}

\* Hold sets are records of a fence and the modes of the owners.
LEMMA HoldsEqual ==
    ASSUME NEW t \in Worktrees, NEW o \in Owners, StoreTypes, HoldMoves(o)
    PROVE  /\ hold'[t] = Put(hold[t], o, hold'[t].mode[o])
           /\ hold'[t] = [hold[t] EXCEPT !.mode = [p \in Owners |-> IF p = o THEN hold'[t].mode[o] ELSE hold[t].mode[p]]]
<1>1. PICK B : B = BOOLEAN
  OBVIOUS
<1> DEFINE Sets == [closed : B, mode : [Owners -> MountModes \cup {"none"}]]
<1>2. hold[t] \in Sets /\ hold'[t] \in Sets
  BY <1>1 DEF StoreTypes, HoldMoves, HoldStates
<1>3. hold'[t].closed = hold[t].closed
  BY <1>1, <1>2 DEF HoldMoves
<1>4. hold'[t].mode = [hold[t].mode EXCEPT ![o] = hold'[t].mode[o]]
  BY <1>2 DEF HoldMoves
<1>5. hold'[t].mode = [p \in Owners |-> IF p = o THEN hold'[t].mode[o] ELSE hold[t].mode[p]]
  BY <1>2 DEF HoldMoves
<1>6. hold'[t] = [closed |-> hold[t].closed, mode |-> hold'[t].mode]
  BY <1>2, <1>3
<1> QED BY <1>2, <1>4, <1>5, <1>6 DEF Put

\* A hold is granted, weakened or dropped, and what its owner does stays covered.
LEMMA FenceHeld ==
    ASSUME NEW t \in Worktrees, NEW o \in Owners, StoreTypes, HoldMoves(o), HoldGrants(o),
           \A p \in Owners : Uses(t, p)' = Uses(t, p), UsesHeld(t, o)'
    PROVE  FenceStep(t)
<1> DEFINE a == hold[t].mode[o]
           b == hold'[t].mode[o]
           C == {<<"read", "read">>, <<"write", "write">>, <<"write", "read">>}
<1>1. UsersOf(t)' = UsersOf(t) /\ UsersOf(t)[o] = Uses(t, o)
  BY UsersAreUses, UsersAreUsesNext
<1>2. a \in MountModes \cup {"none"} /\ b \in MountModes \cup {"none"}
  BY DEF StoreTypes, HoldMoves, HoldStates
<1>3. /\ hold'[t] = Put(hold[t], o, b)
      /\ hold'[t] = [hold[t] EXCEPT !.mode = [p \in Owners |-> IF p = o THEN b ELSE hold[t].mode[p]]]
  BY HoldsEqual
<1>4. \A k \in Uses(t, o) : k \in MountModes /\ b \in {"write", k}
  BY DEF UsesHeld
<1>5. b \in MountModes => \A k \in Uses(t, o) : <<b, k>> \in C
  BY <1>4 DEF MountModes
<1>6. CASE a = b
  <2>1. hold'[t] = hold[t]
    BY <1>3, <1>6, <1>2 DEF Put, StoreTypes, HoldStates
  <2> QED BY <2>1, FenceStays
<1>7. CASE b = "none"
  <2>1. Uses(t, o) = {}
    BY <1>4, <1>7 DEF MountModes
  <2>2. hold'[t] = [hold[t] EXCEPT !.mode = [p \in Owners |-> IF p \in {o} THEN "none" ELSE hold[t].mode[p]]]
    BY <1>3, <1>7
  <2>3. Access(t)!Drop({o})
    BY <1>1, <2>1, <2>2 DEF Access!Drop
  <2> QED BY <2>3, Zenon DEF FenceStep, Access!FenceNext
<1>8. CASE b \in MountModes /\ a # b /\ a # "write"
  <2>1. ~hold[t].closed
    BY <1>2, <1>8 DEF HoldMoves, HoldGrants, MountModes
  <2>2. b = "write" => \A p \in Owners \ {o} : hold[t].mode[p] # "write"
    BY <1>8 DEF HoldMoves
  <2>3. Conflicts(hold[t], o, b) = {}
    BY <1>8, <2>2 DEF Conflicts, Holders, WriterExcludesWriter
  <2>4. Access(t)!MayAdmit(hold[t], o, b)
    BY <2>1, <2>3 DEF Access!MayAdmit, Access!Conflicts, Access!Holders, Conflicts, Holders
  <2>5. Access(t)!Enough(o, b)
    BY <1>1, <1>5, <1>8 DEF Access!Enough
  <2>6. Access(t)!Grant(o, b)
    BY <1>1, <1>3, <2>4, <2>5 DEF Access!Grant, Access!Put, Put
  <2> QED BY <1>8, <2>6, Zenon DEF FenceStep, Access!FenceNext
<1>9. CASE b \in MountModes /\ a # b /\ a = "write"
  <2>1. b = "read"
    BY <1>9 DEF MountModes
  <2>2. Access(t)!Enough(o, b)
    BY <1>1, <1>5, <1>9 DEF Access!Enough
  <2>3. o \in Access(t)!Holders(hold[t])
    BY <1>9 DEF Access!Holders
  <2>4. Access(t)!Weaken(o, b)
    BY <1>1, <1>3, <1>9, <2>1, <2>2, <2>3 DEF Access!Weaken, Access!Put, Put
  <2> QED BY <1>9, <2>4, Zenon DEF FenceStep, Access!FenceNext
<1> QED BY <1>2, <1>6, <1>7, <1>8, <1>9

-----------------------------------------------------------------------------
(* What the operations on holds grant.                                     *)

\* A step that leaves the hold sets alone grants nothing.
LEMMA SameGrants == ASSUME hold' = hold, NEW o PROVE HoldGrants(o)
BY DEF HoldGrants

\* MountAccess.Admit looks at the fence for every request.
LEMMA AdmitGrants ==
    ASSUME StoreTypes, NEW t \in Worktrees, NEW o \in Owners, NEW m \in MountModes,
           hold' = AfterAdmit(t, o, m)
    PROVE  HoldGrants(o)
<1>1. /\ \A u \in Worktrees \ {t} : hold'[u] = hold[u]
      /\ hold'[t].mode[o] = IF MayMount(t, o, m) THEN m ELSE hold[t].mode[o]
  BY AdmitMoves
<1>2. MayMount(t, o, m) => ~hold[t].closed
  <2>1. hold[t] \in HoldStates
    BY DEF StoreTypes
  <2>2. hold[t].closed => Fenced(t).closed
    BY <2>1 DEF Fenced, HoldStates
  <2> QED BY <2>2, Zenon DEF MayMount, Admitted, MayAdmit
<1> QED BY <1>1, <1>2 DEF HoldGrants

\* So does the request of a Workspace, which may be refused before it.
LEMMA RequestGrants ==
    ASSUME StoreTypes, NEW w \in Workspaces, NEW t \in Worktrees, NEW m \in MountModes,
           hold' = AfterRequest(w, t, m)
    PROVE  HoldGrants(w)
<1>1. w \in Owners
  BY WorkspacesAssumption
<1> QED BY <1>1, AdmitGrants, SameGrants DEF AfterRequest

\* Release and Retain make no hold stronger.
LEMMA ReleaseGrants ==
    ASSUME StoreTypes, NEW t \in Worktrees, NEW o \in Owners, hold' = AfterRelease(t, o)
    PROVE  HoldGrants(o)
<1>1. hold[t] \in HoldStates
  BY DEF StoreTypes
<1>2. Remove(hold[t], o).mode[o] = "none"
  BY <1>1 DEF Remove, HoldStates
<1> QED BY <1>2 DEF AfterRelease, HoldGrants, StoreTypes

\* Retain weakens a hold or drops it.
LEMMA RetainGrants ==
    ASSUME StoreTypes, NEW o \in Owners, NEW keep \in Mounts, hold' = AfterRetain(o, keep)
    PROVE  HoldGrants(o)
<1>1. \A t \in Worktrees : hold'[t].mode[o] =
            IF hold[t].mode[o] = "none" \/ keep[t] = "write" THEN hold[t].mode[o] ELSE keep[t]
  BY RetainMoves
<1> QED BY <1>1 DEF HoldGrants

\* A Workspace that gives everything back.
LEMMA ReleaseAllGrants ==
    ASSUME StoreTypes, NEW w \in Workspaces, ReleaseAll(w)
    PROVE  HoldGrants(w)
<1>1. w \in Owners /\ KeepNothing \in Mounts
  BY WorkspacesAssumption DEF KeepNothing, Mounts
<1> QED BY <1>1, RetainGrants DEF ReleaseAll

-----------------------------------------------------------------------------
(* The steps of a Workspace: helpers go, holds change, or one helper comes *)
(* under the hold of its mode.                                             *)

Unmounts(w) == hold' = hold /\ HelpersShrink(w)

Holds(w) == helper' = helper /\ HoldMoves(w) /\ HoldGrants(w)

MountsOne(w) ==
    /\ hold' = hold
    /\ \E t \in Worktrees, m \in MountModes :
        /\ hold[t].mode[w] = m /\ helper[w][t].phase = "absent"
        /\ helper' = [helper EXCEPT ![w][t] = [phase |-> "starting", mode |-> m, deleting |-> FALSE]]

WorkspaceMoves(w) == Unmounts(w) \/ Holds(w) \/ MountsOne(w)

\* A pass that only goes on, or ends.
LEMMA SameMoves ==
    ASSUME IInv, NEW w \in Workspaces, hold' = hold, helper' = helper
    PROVE  WorkspaceMoves(w)
BY SameHelpers DEF IInv, WorkspaceMoves, Unmounts

\* Helpers and the Pod are stopped under the holds.
LEMMA UnmountMoves ==
    ASSUME IInv, NEW w \in Workspaces, UnmountThenStop(w)
    PROVE  WorkspaceMoves(w)
BY UnmountThenStopShrinks DEF IInv, WorkspaceMoves, Unmounts

\* Every hold goes at once.
LEMMA ReleaseMove ==
    ASSUME IInv, NEW w \in Workspaces, ReleaseAll(w), helper' = helper
    PROVE  WorkspaceMoves(w)
BY ReleaseAllMoves, ReleaseAllGrants DEF IInv, WorkspaceMoves, Holds

\* One hold is asked for.
LEMMA RequestMove ==
    ASSUME IInv, NEW w \in Workspaces, NEW t \in Worktrees, NEW m \in MountModes,
           hold' = AfterRequest(w, t, m), helper' = helper
    PROVE  WorkspaceMoves(w)
BY RequestMoves, RequestGrants DEF IInv, WorkspaceMoves, Holds

\* The start of a pass: releaseClaims, recovery, suspension, the runtime.
LEMMA PassBegins ==
    ASSUME IInv, NEW w \in Workspaces, BeginPass(w) \/ Resolve(w) \/ Finalize(w)
    PROVE  WorkspaceMoves(w)
<1>1. CASE BeginPass(w)
  <2>1. \/ hold' = hold /\ helper' = helper
        \/ ReleaseAll(w) /\ helper' = helper
        \/ UnmountThenStop(w)
    BY <1>1 DEF BeginPass, UnmountThenStop
  <2> QED BY <2>1, SameMoves, ReleaseMove, UnmountMoves
<1>2. CASE Resolve(w)
  <2> DEFINE Outcome == \/ hold' = hold /\ helper' = helper
                        \/ ReleaseAll(w) /\ helper' = helper
                        \/ UnmountThenStop(w)
  <2>1. Recover(w) \/ Suspend(w) \/ StartRuntime(w) \/ CheckRuntime(w) \/ (hold' = hold /\ helper' = helper)
    BY <1>2 DEF Resolve
  <2>2. Recover(w) => Outcome
    BY DEF Recover
  <2>3. Suspend(w) => Outcome
    BY DEF Suspend
  <2>4. StartRuntime(w) => Outcome
    BY DEF StartRuntime, UnmountThenStop
  <2>5. CheckRuntime(w) => Outcome
    BY Zenon DEF CheckRuntime
  <2>6. hold' = hold /\ helper' = helper => Outcome
    OBVIOUS
  <2> HIDE DEF Outcome
  <2>7. Outcome
    BY <2>1, <2>2, <2>3, <2>4, <2>5, <2>6, Zenon
  <2> QED BY <2>7, SameMoves, ReleaseMove, UnmountMoves DEF Outcome
<1>3. CASE Finalize(w)
  <2>1. \/ hold' = hold /\ helper' = helper
        \/ ReleaseAll(w) /\ helper' = helper
        \/ UnmountThenStop(w)
    BY <1>3 DEF Finalize
  <2> QED BY <2>1, SameMoves, ReleaseMove, UnmountMoves
<1> QED BY <1>1, <1>2, <1>3

\* admitWorktreeMounts and verifyWriteClaims.
LEMMA PassAdmits ==
    ASSUME IInv, NEW w \in Workspaces, AdmitMount(w) \/ Readmit(w) \/ VerifyClaim(w)
    PROVE  WorkspaceMoves(w)
<1> DEFINE t == FirstOf(pass[w].todo)
           m == pass[w].spec.mounts[t]
<1>1. WorkspaceTypes /\ Looping(w)
  BY DEF IInv, WorkspaceSafe
<1>2. CASE AdmitMount(w)
  <2>1. /\ helper' = helper /\ At(w, "admit")
        /\ hold' = AfterRequest(w, t, m) \/ ReleaseAll(w) \/ hold' = hold
    BY <1>2 DEF AdmitMount
  <2>2. t \in Worktrees /\ m \in MountModes
    BY <1>1, <2>1, LoopNext
  <2> QED BY <2>1, <2>2, RequestMove, ReleaseMove, SameMoves
<1>3. CASE Readmit(w)
  <2>1. helper' = helper /\ At(w, "readmit") /\ hold' = AfterRequest(w, t, m)
    BY <1>3 DEF Readmit
  <2>2. t \in Worktrees /\ m \in MountModes
    BY <1>1, <2>1, LoopNext
  <2> QED BY <2>1, <2>2, RequestMove
<1>4. CASE VerifyClaim(w)
  <2>1. /\ At(w, "verify")
        /\ \/ hold' = AfterRequest(w, t, "write") /\ helper' = helper
           \/ UnmountThenStop(w)
           \/ hold' = hold /\ helper' = helper
    BY <1>4 DEF VerifyClaim
  <2>2. t \in Worktrees /\ "write" \in MountModes
    <3>1. pass[w].todo \subseteq Worktrees /\ pass[w].todo # {}
      BY <1>1, <2>1 DEF WorkspaceTypes, LoosePasses, Looping
    <3> QED BY <3>1, FirstOfLeft DEF MountModes
  <2> QED BY <2>1, <2>2, RequestMove, UnmountMoves, SameMoves
<1> QED BY <1>2, <1>3, <1>4

\* reconcileHotMounts creates a helper only where none is, in the mode its pass
\* holds.
LEMMA PassMounts ==
    ASSUME IInv, NEW w \in Workspaces, HotMounts(w)
    PROVE  WorkspaceMoves(w)
<1>1. WorkspaceTypes /\ WorkspaceSafe(w)
  BY DEF IInv
<1>2. At(w, "hot") /\ hold' = hold
  BY DEF HotMounts, KeepStore
<1> DEFINE orphans == {t \in Worktrees : helper[w][t].phase = "cleaner"}
           broken == {t \in Worktrees : helper[w][t].phase \in {"failed", "cleaning"}}
           wrong == {t \in Worktrees : helper[w][t].phase \in {"starting", "ready", "cleaned"} /\ Mismatched(w, t)}
           missing == {t \in Mounted(pass[w].spec) : helper[w][t].phase = "absent"}
<1>3. \/ \E S \in SUBSET Worktrees : DropHelper(w, S)
      \/ helper' = helper
      \/ \E t \in missing : helper' = [helper EXCEPT ![w][t] =
                [phase |-> "starting", mode |-> pass[w].spec.mounts[t], deleting |-> FALSE]]
  <2>1. CASE orphans # {}
    BY <2>1 DEF HotMounts
  <2>2. CASE orphans = {} /\ broken \cup wrong # {}
    BY <2>2 DEF HotMounts
  <2>3. CASE orphans \cup broken \cup wrong = {} /\ missing # {}
    BY <2>3 DEF HotMounts
  <2>4. CASE orphans \cup broken \cup wrong = {} /\ missing = {}
    BY <2>4 DEF HotMounts
  <2> QED BY <2>1, <2>2, <2>3, <2>4
<1>4. ASSUME NEW S \in SUBSET Worktrees, DropHelper(w, S) PROVE WorkspaceMoves(w)
  BY <1>1, <1>2, <1>4, DropShrinks DEF WorkspaceMoves, Unmounts
<1>5. ASSUME NEW t \in missing, helper' = [helper EXCEPT ![w][t] =
                [phase |-> "starting", mode |-> pass[w].spec.mounts[t], deleting |-> FALSE]]
      PROVE  WorkspaceMoves(w)
  <2>1. /\ t \in Worktrees /\ t \in Mounted(pass[w].spec) /\ helper[w][t].phase = "absent"
        /\ pass[w].spec.mounts[t] \in MountModes
    BY <1>1 DEF Mounted, Mounts, MountModes, WorkspaceTypes, LoosePasses, LooseSpecs
  <2>2. hold[t].mode[w] = pass[w].spec.mounts[t]
    BY <1>1, <1>2, <2>1 DEF WorkspaceSafe, AsSpecified
  <2> QED BY <1>2, <1>5, <2>1, <2>2, Zenon DEF WorkspaceMoves, MountsOne
<1> QED BY <1>2, <1>3, <1>4, <1>5, SameMoves

\* releaseOldWorktreeMounts.
LEMMA PassRetains ==
    ASSUME IInv, NEW w \in Workspaces, RetainHolds(w)
    PROVE  WorkspaceMoves(w)
<1>1. /\ StoreTypes /\ w \in Owners /\ helper' = helper
      /\ hold' = hold \/ hold' = AfterRetain(w, pass[w].spec.mounts)
  BY WorkspacesAssumption DEF IInv, RetainHolds
<1>2. pass[w].spec.mounts \in Mounts
  BY DEF IInv, WorkspaceTypes, LoosePasses, LooseSpecs
<1>3. CASE hold' = AfterRetain(w, pass[w].spec.mounts)
  BY <1>1, <1>2, <1>3, RetainMoves, RetainGrants DEF WorkspaceMoves, Holds
<1> QED BY <1>1, <1>3, SameMoves

\* The kubelet and faults change helpers only to less.
LEMMA HelperMoves ==
    ASSUME IInv, NEW w \in Workspaces, NEW t \in Worktrees,
           HelperReady(w, t) \/ CleanerSucceeds(w, t) \/ HelperGone(w, t) \/ HelperFails(w, t)
    PROVE  WorkspaceMoves(w)
<1>1. WorkspaceTypes /\ helper[w][t] \in Helpers
  BY DEF IInv, WorkspaceTypes
<1>2. hold' = hold
  BY DEF HelperReady, CleanerSucceeds, HelperGone, HelperFails, SetHelper, KeepStore
<1>3. ASSUME NEW h \in Helpers, helper' = [helper EXCEPT ![w][t] = h],
             h.phase \in {"starting", "ready", "failed", "cleaning"} =>
                Live(w, t) /\ h.mode = helper[w][t].mode,
             helper[w][t].phase = "absent" => h.phase = "absent"
      PROVE  WorkspaceMoves(w)
  BY <1>1, <1>2, <1>3, HelperShrinks DEF WorkspaceMoves, Unmounts
<1>4. ASSUME NEW p \in {"ready", "cleaned", "failed"}
      PROVE  /\ [helper[w][t] EXCEPT !.phase = p] \in Helpers
             /\ [helper[w][t] EXCEPT !.phase = p].phase = p
             /\ [helper[w][t] EXCEPT !.phase = p].mode = helper[w][t].mode
  BY <1>1 DEF Helpers, HelperPhases
<1>5. CASE HelperReady(w, t) \/ CleanerSucceeds(w, t) \/ HelperFails(w, t)
  <2>1. PICK p \in {"ready", "cleaned", "failed"} :
            /\ helper' = [helper EXCEPT ![w][t] = [helper[w][t] EXCEPT !.phase = p]]
            /\ Live(w, t) /\ helper[w][t].phase # "absent"
    BY <1>5 DEF HelperReady, CleanerSucceeds, HelperFails, SetHelper, RunsOn, Live
  <2> DEFINE h == [helper[w][t] EXCEPT !.phase = p]
  <2>2. h \in Helpers /\ h.mode = helper[w][t].mode /\ helper' = [helper EXCEPT ![w][t] = h]
    BY <1>4, <2>1
  <2> HIDE DEF h
  <2> QED BY <1>3, <2>1, <2>2
<1>6. CASE HelperGone(w, t)
  <2> DEFINE h == IF helper[w][t].phase = "cleaned" THEN [NoHelper EXCEPT !.phase = "cleaner"] ELSE NoHelper
  <2>1. h \in Helpers /\ h.phase = IF helper[w][t].phase = "cleaned" THEN "cleaner" ELSE "absent"
    BY DEF NoHelper, Helpers, HelperPhases
  <2>2. helper' = [helper EXCEPT ![w][t] = h]
    BY <1>6 DEF HelperGone, SetHelper
  <2> HIDE DEF h
  <2> QED BY <1>3, <2>1, <2>2
<1> QED BY <1>5, <1>6

\* Every step of the Workspace controller, of users, the kubelet and of faults.
LEMMA WorkspaceNextMoves ==
    ASSUME IInv, WorkspaceNext
    PROVE  \E w \in Workspaces : WorkspaceMoves(w)
<1>1. PICK w \in Workspaces : PassStep(w) \/ Kubelet(w) \/ Users(w) \/ Faults(w)
  BY DEF WorkspaceNext
<1>2. CASE Acknowledge(w) \/ CreatePod(w)
  BY <1>2, SameMoves DEF Acknowledge, CreatePod, KeepStore
<1>3. CASE Topology(w)
  <2>1. UnmountThenStop(w) \/ UNCHANGED <<hold, helper>>
    BY <1>3 DEF Topology
  <2> QED BY <2>1, UnmountMoves, SameMoves
<1>4. CASE PassStep(w)
  BY <1>2, <1>3, <1>4, PassBegins, PassAdmits, PassMounts, PassRetains, Zenon DEF PassStep
<1>5. CASE Kubelet(w)
  <2>1. CASE PodReady(w) \/ PodGone(w)
    BY <2>1, SameMoves DEF PodReady, PodGone, SetPod, KeepStore
  <2> QED BY <1>5, <2>1, HelperMoves, Zenon DEF Kubelet
<1>6. CASE Users(w)
  <2>1. UNCHANGED <<hold, helper>>
    BY <1>6, Zenon DEF Users, EditMount, EditTopology, SetDesired, Edit, ExecutionStarts, ExecutionsEnd,
                DependencyVanishes, KeepStore
  <2> QED BY <2>1, SameMoves
<1>7. CASE Faults(w)
  <2>1. CASE PassFails(w) \/ PodExits(w) \/ PodLost(w)
    BY <2>1, SameMoves DEF PassFails, PodExits, PodLost, SetPod, KeepStore
  <2>2. CASE PodRejected(w)
    BY <2>2, ReleaseMove DEF PodRejected
  <2> QED BY <1>7, <2>1, <2>2, HelperMoves, Zenon DEF Faults
<1> QED BY <1>1, <1>4, <1>5, <1>6, <1>7

-----------------------------------------------------------------------------
(* What a step of one owner is to a Worktree.                              *)

\* No user edits a write mount that is held to read, or deletes a WorktreeExec,
\* and caches do not lag; a load never changes.
Undisturbed == Disturbances \cap {"downgrade", "deleteExec", "lag"} = {}

\* Whatever uses a Worktree is covered by a hold.
LEMMA UsesAreHeld ==
    ASSUME IInv, Undisturbed, NEW t \in Worktrees, NEW o \in Owners
    PROVE  UsesHeld(t, o)
<1>0. "downgrade" \notin Disturbances /\ "deleteExec" \notin Disturbances /\ "lag" \notin Disturbances
  BY DEF Undisturbed
<1> SUFFICES ASSUME NEW k \in Uses(t, o)
             PROVE  k \in MountModes /\ hold[t].mode[o] \in {"write", k}
  BY DEF UsesHeld
<1>1. CASE o \in Workspaces
  <2>1. Live(o, t) /\ k = helper[o][t].mode
    BY <1>1 DEF Uses
  <2>2. Covered(o) /\ NeverWeakened(o)
    BY <1>1 DEF IInv, WorkspaceSafe
  <2> QED BY <1>0, <2>1, <2>2 DEF Covered, NeverWeakened
<1>2. CASE o \notin Workspaces
  <2>1. o \in Execs /\ target[o] = t /\ Writing(o) /\ k = "write"
    BY <1>2 DEF Uses
  <2>2. ExecSafe(o)
    BY <2>1 DEF IInv
  <2> QED BY <1>0, <2>1, <2>2 DEF ExecSafe, Orderly, Pending, Runs, Writing, MountModes
<1> QED BY <1>1, <1>2

\* Uses of execs stay, and those of a Workspace while its helper does.
LEMMA WorkspaceUses ==
    ASSUME UNCHANGED execVars, NEW t \in Worktrees, NEW p \in Owners,
           p \in Workspaces => helper'[p][t] = helper[p][t]
    PROVE  Uses(t, p)' = Uses(t, p)
BY Zenon DEF Uses, Live, Writing, execVars

\* A step of a Workspace, as one Worktree sees it.
LEMMA WorkspaceFence ==
    ASSUME IInv, NEW w \in Workspaces, WorkspaceMoves(w), UNCHANGED execVars,
           NEW t \in Worktrees, UsesHeld(t, w)'
    PROVE  FenceStep(t)
<1>1. w \in Owners /\ StoreTypes /\ WorkspaceTypes
  BY WorkspacesAssumption DEF IInv
<1>2. CASE Unmounts(w)
  <2>1. \A p \in Owners \ {w} : Uses(t, p)' = Uses(t, p)
    BY <1>2, WorkspaceUses DEF Unmounts, HelpersShrink
  <2>2. Live(w, t)' => Live(w, t) /\ helper'[w][t].mode = helper[w][t].mode
    BY <1>2 DEF Unmounts, HelpersShrink
  <2>3. Uses(t, w)' \subseteq Uses(t, w)
    BY <2>2 DEF Uses
  <2> QED BY <1>1, <1>2, <2>1, <2>3, FenceLeft DEF Unmounts
<1>3. CASE Holds(w)
  <2>1. \A p \in Owners : Uses(t, p)' = Uses(t, p)
    BY <1>3, WorkspaceUses DEF Holds
  <2> QED BY <1>1, <1>3, <2>1, FenceHeld DEF Holds
<1>4. CASE MountsOne(w)
  <2>1. PICK u \in Worktrees, m \in MountModes :
            /\ hold[u].mode[w] = m /\ helper[w][u].phase = "absent"
            /\ helper' = [helper EXCEPT ![w][u] = [phase |-> "starting", mode |-> m, deleting |-> FALSE]]
    BY <1>4, Zenon DEF MountsOne
  <2> DEFINE h == [phase |-> "starting", mode |-> m, deleting |-> FALSE]
  <2>2. h.phase = "starting" /\ h.mode = m /\ helper' = [helper EXCEPT ![w][u] = h]
    BY <2>1
  <2> HIDE DEF h
  <2>3. /\ \A v \in Workspaces \ {w} : helper'[v] = helper[v]
        /\ \A x \in Worktrees \ {u} : helper'[w][x] = helper[w][x]
        /\ helper'[w][u] = h
    BY <1>1, <2>2 DEF WorkspaceTypes
  <2>4. \A p \in Owners \ {w} : Uses(t, p)' = Uses(t, p)
    BY <2>3, WorkspaceUses
  <2>5. CASE t # u
    <3>1. Uses(t, w)' = Uses(t, w)
      BY <1>1, <2>3, <2>5, WorkspaceUses
    <3>2. hold'[t] = hold[t] /\ \A p \in Owners : Uses(t, p)' = Uses(t, p)
      BY <1>4, <2>4, <3>1 DEF MountsOne
    <3> QED BY <3>2, FenceStays
  <2>6. CASE t = u
    <3>1. Uses(t, w) = {}
      BY <2>1, <2>6 DEF Uses, Live
    <3>2. Uses(t, w)' = {m}
      BY <2>2, <2>3, <2>6 DEF Uses, Live
    <3>3. hold'[t] = hold[t] /\ hold[t].mode[w] = m /\ Uses(t, w)' = Uses(t, w) \cup {m}
      BY <1>4, <2>1, <2>6, <3>1, <3>2 DEF MountsOne
    <3> QED BY <1>1, <2>4, <3>3, FenceUsed
  <2> QED BY <2>5, <2>6
<1> QED BY <1>2, <1>3, <1>4 DEF WorkspaceMoves

\* The steps of a WorktreeExec: its Pod changes, or its hold.
Commands(e) ==
    /\ hold' = hold
    /\ \A f \in Execs \ {e} : jobPod'[f] = jobPod[f]
    /\ Writing(e)' => Writing(e) \/ hold[target[e]].mode[e] = "write"

Reserves(e) == jobPod' = jobPod /\ HoldMoves(e) /\ HoldGrants(e)

ExecActs(e) == Commands(e) \/ Reserves(e)

\* Uses of Workspaces stay, and those of an exec while its Pod does.
LEMMA ExecUses ==
    ASSUME UNCHANGED <<workspaceVars, target>>, NEW t \in Worktrees, NEW p \in Owners,
           p \in Execs => (Writing(p)' <=> Writing(p))
    PROVE  Uses(t, p)' = Uses(t, p)
BY DEF Uses, Live, workspaceVars

\* A step of a WorktreeExec, as one Worktree sees it.
LEMMA ExecFence ==
    ASSUME IInv, NEW e \in Execs, ExecActs(e), UNCHANGED <<workspaceVars, target>>,
           NEW t \in Worktrees, UsesHeld(t, e)'
    PROVE  FenceStep(t)
<1>1. e \in Owners /\ StoreTypes /\ e \notin Workspaces
  BY ExecsAssumption, KindsAssumption DEF IInv
<1>2. CASE Commands(e)
  <2>1. \A p \in Owners \ {e} : Uses(t, p)' = Uses(t, p)
    BY <1>2, ExecUses DEF Commands, Writing
  <2>2. CASE Writing(e)' /\ target[e] = t /\ ~Writing(e)
    <3>1. Uses(t, e)' = {"write"} /\ Uses(t, e) = {}
      BY <1>1, <2>2 DEF Uses
    <3>2. hold[t].mode[e] = "write" /\ hold'[t] = hold[t] /\ "write" \in MountModes
      BY <1>2, <2>2 DEF Commands, MountModes
    <3> QED BY <1>1, <2>1, <3>1, <3>2, FenceUsed
  <2>3. CASE ~(Writing(e)' /\ target[e] = t /\ ~Writing(e))
    <3>1. Uses(t, e)' \subseteq Uses(t, e)
      BY <1>1, <2>3 DEF Uses
    <3> QED BY <1>1, <1>2, <2>1, <3>1, FenceLeft DEF Commands
  <2> QED BY <2>2, <2>3
<1>3. CASE Reserves(e)
  <2>1. \A p \in Owners : Uses(t, p)' = Uses(t, p)
    BY <1>3, ExecUses DEF Reserves, Writing
  <2> QED BY <1>1, <1>3, <2>1, FenceHeld DEF Reserves
<1> QED BY <1>2, <1>3 DEF ExecActs

\* The pass of a WorktreeExec admits and releases its writer.
LEMMA ExecReserves ==
    ASSUME IInv, NEW e \in Execs, jobPod' = jobPod,
           \/ hold' = hold \/ ReleaseWriter(e) \/ hold' = AfterAdmit(target[e], e, "write")
    PROVE  ExecActs(e)
<1>1. StoreTypes /\ target[e] \in Worktrees /\ e \in Owners /\ "write" \in MountModes
  BY ExecNow DEF IInv, MountModes
<1>2. HoldMoves(e)
  BY WriterMoves
<1>3. HoldGrants(e)
  BY <1>1, SameGrants, ReleaseGrants, AdmitGrants DEF ReleaseWriter
<1> QED BY <1>2, <1>3 DEF ExecActs, Reserves

\* Every step of the pass of an exec, and its failure.
LEMMA ExecStepActs ==
    ASSUME IInv, NEW e \in Execs, ExecStep(e) \/ ExecPassFails(e)
    PROVE  ExecActs(e)
<1> DEFINE Outcome == /\ jobPod' = jobPod
                      /\ hold' = hold \/ ReleaseWriter(e) \/ hold' = AfterAdmit(target[e], e, "write")
<1>1. ReleaseDone(e) => Outcome
  BY DEF ReleaseDone
<1>2. ObserveJob(e) => Outcome
  BY DEF ObserveJob
<1>3. AdmitWriter(e) => Outcome
  BY DEF AdmitWriter
<1>4. Recheck(e) \/ RecordJob(e) \/ CreateJob(e) => Outcome
  BY Zenon DEF Recheck, RecordJob, CreateJob
<1>5. RecordStopping(e) \/ RecordResult(e) => Outcome
  BY Zenon DEF RecordStopping, RecordResult
<1>6. ExecPassFails(e) => Outcome
  BY Zenon DEF ExecPassFails
<1>7. CASE LoseJob(e)
  <2>1. CASE PodsGone(View(e))
    BY <1>7, <2>1, ExecReserves DEF LoseJob
  <2>2. CASE ~PodsGone(View(e))
    <3>1. /\ hold' = hold
          /\ jobPod' = [jobPod EXCEPT ![e] = IF @ = "running" THEN "stopping"
                                             ELSE IF @ = "stopped" THEN "absent" ELSE @]
      BY <1>7, <2>2 DEF LoseJob
    <3>2. jobPod \in [Execs -> PodStates]
      BY DEF IInv, ExecTypes
    <3>3. \A f \in Execs \ {e} : jobPod'[f] = jobPod[f]
      BY <3>1, <3>2
    <3>4. Writing(e)' => Writing(e)
      BY <3>1, <3>2 DEF Writing
    <3> QED BY <3>1, <3>3, <3>4 DEF ExecActs, Commands
  <2> QED BY <2>1, <2>2
<1>8. Outcome \/ LoseJob(e)
  <2> HIDE DEF Outcome
  <2> QED BY <1>1, <1>2, <1>3, <1>4, <1>5, <1>6, Zenon DEF ExecStep, Reconcile
<1> QED BY <1>7, <1>8, ExecReserves

\* A command starts while its exec holds for writing: the Job was created in a
\* pass that was admitted, and an exec that nobody deletes keeps its hold.
LEMMA JobActs ==
    ASSUME IInv, Undisturbed, NEW e \in Execs, JobController(e) \/ DropJob(e), hold' = hold
    PROVE  ExecActs(e)
<1>0. "deleteExec" \notin Disturbances /\ "lag" \notin Disturbances
  BY DEF Undisturbed
<1>1. PICK j, p : /\ SetPods(e, j, p)
                  /\ p \in {"running", "stopping"} => Writing(e) \/ job[e] = "created"
  BY DEF JobController, StartCommand, CommandEnds, JobFinishes, CollectPod, PodStops, RemoveJob, CollectJob,
         DropJob, Writing
<1>2. jobPod \in [Execs -> PodStates] /\ jobPod' = [jobPod EXCEPT ![e] = p]
  BY <1>1 DEF IInv, ExecTypes, SetPods
<1>3. \A f \in Execs \ {e} : jobPod'[f] = jobPod[f]
  BY <1>2
<1>4. job[e] = "created" => hold[target[e]].mode[e] = "write"
  BY <1>0, ExecFresh DEF Orderly, Pending
<1>5. Writing(e)' => Writing(e) \/ hold[target[e]].mode[e] = "write"
  BY <1>1, <1>2, <1>4 DEF Writing
<1> QED BY <1>3, <1>5 DEF ExecActs, Commands

\* Every step of the WorktreeExec controller and of what surrounds it.
LEMMA ExecNextActs ==
    ASSUME IInv, Undisturbed, ExecNext
    PROVE  target' = target /\ \E e \in Execs : ExecActs(e)
<1>1. PICK e \in Execs :
        \/ ExecStep(e)
        \/ (JobController(e) \/ DropJob(e)) /\ UNCHANGED <<storeVars, target, exec, seen, execPass>>
        \/ DeleteExec(e) /\ UNCHANGED <<storeVars, target, seen, execPass>>
        \/ Sync(e) /\ UNCHANGED <<storeVars, target, exec, job, jobPod, execPass, starts>>
        \/ ExecPassFails(e)
  BY DEF ExecNext
<1>2. target' = target
  BY <1>1 DEF ExecStep, ExecPassFails
<1>3. CASE DeleteExec(e) /\ UNCHANGED <<storeVars, target, seen, execPass>>
  BY <1>3, ExecReserves DEF DeleteExec, storeVars
<1>4. CASE Sync(e) /\ UNCHANGED <<storeVars, target, exec, job, jobPod, execPass, starts>>
  BY <1>4, ExecReserves DEF storeVars
<1>5. CASE (JobController(e) \/ DropJob(e)) /\ UNCHANGED <<storeVars, target, exec, seen, execPass>>
  BY <1>5, JobActs DEF storeVars
<1> QED BY <1>1, <1>2, <1>3, <1>4, <1>5, ExecStepActs

\* Every step of the system is a step, or a stutter, of AccessFence for every
\* Worktree.
LEMMA StepIsFence ==
    ASSUME IInv, Undisturbed, \A t \in Worktrees : \A o \in Owners : UsesHeld(t, o)', Next,
           NEW t \in Worktrees
    PROVE  FenceStep(t)
<1>1. CASE WorkspaceNext /\ UNCHANGED execVars
  <2>1. PICK w \in Workspaces : WorkspaceMoves(w)
    BY <1>1, WorkspaceNextMoves
  <2>2. w \in Owners
    BY WorkspacesAssumption
  <2> QED BY <1>1, <2>1, <2>2, WorkspaceFence
<1>2. CASE ExecNext /\ UNCHANGED workspaceVars
  <2>1. PICK e \in Execs : ExecActs(e) /\ target' = target
    BY <1>2, ExecNextActs
  <2>2. e \in Owners
    BY ExecsAssumption
  <2> QED BY <1>2, <2>1, <2>2, ExecFence
<1>3. ASSUME NEW e \in Execs, Sweep(e) PROVE FenceStep(t)
  <2>1. ReleaseWriter(e) /\ jobPod' = jobPod /\ UNCHANGED <<workspaceVars, target>>
    BY <1>3 DEF Sweep, SweepExec, execVars
  <2>2. e \in Owners
    BY ExecsAssumption
  <2> QED BY <2>1, <2>2, ExecReserves, ExecFence
<1>4. ASSUME NEW u \in Worktrees, Cleanup(u) PROVE FenceStep(t)
  <2>1. UNCHANGED <<workspaceVars, execVars>> /\ hold' = [hold EXCEPT ![u] = Close(hold[u])]
    BY <1>4 DEF Cleanup, CleanupPass
  <2>2. \A p \in Owners : Uses(t, p)' = Uses(t, p)
    BY <2>1, Zenon DEF Uses, Live, Writing, workspaceVars, execVars
  <2>3. hold'[t] = hold[t] \/ hold'[t] = Close(hold[t])
    BY <2>1 DEF IInv, StoreTypes
  <2> QED BY <2>2, <2>3, FenceStays, FenceClosed
<1>5. ASSUME NEW u \in Worktrees, Storage(u) PROVE FenceStep(t)
  <2>1. UNCHANGED <<workspaceVars, execVars>> /\ hold' = hold
    BY <1>5 DEF Storage, DeleteWorktree, DeleteVolume, VolumeGone
  <2>2. \A p \in Owners : Uses(t, p)' = Uses(t, p)
    BY <2>1, Zenon DEF Uses, Live, Writing, workspaceVars, execVars
  <2> QED BY <2>1, <2>2, FenceStays
<1> QED BY <1>1, <1>2, <1>3, <1>4, <1>5 DEF Next

\* At first nobody holds or uses a Worktree.
LEMMA InitIsFence == Init => \A t \in Worktrees : Access(t)!FenceInit
<1> SUFFICES ASSUME Init, NEW t \in Worktrees PROVE Access(t)!FenceInit
  OBVIOUS
<1>1. hold[t] = EmptySet
  BY DEF Init, StoreInit
<1>2. ASSUME NEW o \in Owners PROVE Uses(t, o) = {}
  <2>1. o \in Workspaces => helper[o][t] = NoHelper
    BY DEF Init, WorkspaceInit
  <2>2. o \in Execs => jobPod[o] = "absent"
    BY DEF Init, ExecInit
  <2>3. o \in Workspaces => ~Live(o, t)
    BY <2>1 DEF Live, NoHelper
  <2>4. o \in Execs => ~Writing(o)
    BY <2>2 DEF Writing
  <2> QED BY <2>3, <2>4 DEF Uses
<1>3. UsersOf(t) = [o \in Owners |-> {}]
  BY <1>2, UsersAreUses
<1> QED BY <1>1, <1>3 DEF Access!FenceInit, Access!EmptySet, EmptySet

-----------------------------------------------------------------------------
(* The refinement.                                                         *)

\* The same as a formula about one state.
LEMMA UsesAlwaysHeld == IInv /\ Undisturbed => \A t \in Worktrees : \A o \in Owners : UsesHeld(t, o)
BY UsesAreHeld

\* The controllers use every Worktree the way AccessFence allows, for any number
\* of Workspaces, WorktreeExecs and Worktrees and whatever fails: what mounts it
\* starts under a hold of its mode, a hold is weakened or dropped only when what
\* it covered has stopped, and nothing is granted past the fence.  Left out, as
\* in WritersAlone: a write mount that is held and edited to read, a deleted
\* WorktreeExec, and caches that lag.
THEOREM AccessRefinement == Spec /\ Undisturbed => ImplementsFence
<1> DEFINE Safe == IInv /\ Undisturbed
<1>1. Init => \A t \in Worktrees : Access(t)!FenceInit
  BY InitIsFence
<1>2. Init /\ Undisturbed => Safe
  BY InitSafe
<1>3. Safe /\ [Next /\ UNCHANGED load]_<<vars, load>> => Safe'
  BY NextKeeps DEF Undisturbed, Disturbances
<1>4. (IInv /\ Undisturbed => \A t \in Worktrees : \A o \in Owners : UsesHeld(t, o))'
  BY UsesAlwaysHeld, PTL
<1>5. Safe /\ Safe' /\ [Next /\ UNCHANGED load]_<<vars, load>>
            => [\A t \in Worktrees : [Access(t)!FenceNext]_(Access(t)!fenceVars)]_vars
  <2> SUFFICES ASSUME Safe, Safe', Next, NEW t \in Worktrees
               PROVE  FenceStep(t)
    BY DEF FenceStep
  <2>1. \A u \in Worktrees : \A o \in Owners : UsesHeld(u, o)'
    BY <1>4
  <2> QED BY <2>1, StepIsFence
<1> QED BY <1>1, <1>2, <1>3, <1>5, PTL DEF Spec, ImplementsFence

=============================================================================
