----------------------- MODULE WorktreeBootstrapProofs -----------------------
(***************************************************************************)
(* Proofs about WorktreeBootstrap, for any set of Workspaces, any specs    *)
(* and claims and any number of faults.                                    *)
(*                                                                         *)
(* The argument has three strands.  A Worktree gets one child in its life: *)
(* the pass that may create it has read that none was ever made, and a     *)
(* claim goes away only through a closed fence, after which no pass gets   *)
(* that far.  The child is copied under the reservation taken before the   *)
(* parent was measured.  And the work of the first Pod is undisturbed      *)
(* because a checkout is made in one of two ways that exclude each other:  *)
(* by a Job that is over before anybody may mount, or by the init          *)
(* container of the one Pod that holds the Worktree.                       *)
(***************************************************************************)
EXTENDS WorktreeBootstrap, TLAPS

-----------------------------------------------------------------------------
(* The inductive invariant.                                                *)

\* The checkout has come from a Job that is over, or from no Job.
JobOver == job \in {"succeeded", "absent"}

Mounting(u) == mounting[u].pc # "idle" \/ PodOn(u)

\* One child in the Worktree's life; without one nothing has been recorded, and
\* with its claim gone the fence is closed.
OneChild ==
    /\ volume.id \in {0, 1}
    /\ volume.id = 0 => volume.phase = "none" /\ ~closed /\ ~status.recorded
    /\ volume.id = 1 /\ volume.phase \in {"none", "released"} => closed
    /\ volume.phase # "none" => ClaimMatches

\* Before there is a child nobody works on it.
Untouched ==
    volume.id = 0 =>
        /\ job = "absent" /\ seenJob = "absent" /\ jobPods = 0 /\ worked = 0
        /\ ~IsReady /\ pass.reason # "WorktreeReady"
        /\ \A u \in Users : ~Mounting(u)

\* What the pass read at its start and still relies on.
PassFits ==
    /\ closed => pass.pc \in {"idle", "close", "drain", "usage"}
    /\ At("drain") => closed
    /\ pass.pc \in {"repository", "plan", "create"} => volume.id = 0 /\ ~pass.bound /\ ~pass.ready
    /\ pass.pc \in {"close", "claim", "volume", "observe", "job"} => volume.id = 1
    /\ pass.pc \in {"volume", "observe", "job"} => pass.bound
    /\ pass.pc \in {"claim", "volume"} => (pass.ready <=> IsReady)
    /\ pass.pc \in {"repository", "plan", "create", "observe", "job", "status"} => ~IsReady
    /\ At("claim") /\ IsReady => pass.bound
    /\ pass.bound => volume.phase # "pending"
    /\ At("status") => volume.id = 1 \/ pass.reason \in Waits \ {"Provisioning"}
    /\ pass.reason = "WorktreeReady" => pass.bound

\* The parent is reserved from before it is measured until its copy is Bound.
CloneSafe ==
    /\ pass.pc \in {"plan", "create"} => reserved
    /\ At("create") =>
          /\ source.capacity > 0
          /\ pass.size >= Larger(source.request, source.capacity)
          /\ pass.size >= spec.size
          /\ spec.modes # {} => pass.modes = spec.modes
    /\ volume.phase = "pending" =>
          /\ reserved /\ source.capacity > 0
          /\ volume.size >= Larger(source.request, source.capacity)

\* Whoever says that the checkout is finished speaks of one that is.
CheckoutSafe ==
    /\ job = "succeeded" \/ seenJob = "succeeded" => checkout = "whole"
    /\ pass.reason = "WorktreeReady" \/ IsReady => checkout = "whole"
    /\ \A u \in Users : pod[u].init /\ pod[u].phase = "running" => checkout = "whole"
    /\ IsReady => volume.phase # "pending"

\* A Pod runs under the hold of its user, and initializes only what was left to
\* Workspaces.
UsersSafe ==
    \A u \in Users :
        /\ PodOn(u) => holder = u /\ mounting[u].pc = "idle"
        /\ mounting[u].pc = "create" => holder = u
        /\ mounting[u].pc = "admit" => holder # u
        /\ mounting[u].init \/ pod[u].init => spec.deferred
        /\ pod[u].phase \in {"init", "failing"} => pod[u].init

\* A checkout left to Workspaces never has a Job; any other is mounted only
\* after the Job that made it is over, and no other Job follows.
JobsSafe ==
    /\ spec.deferred => job = "absent" /\ seenJob = "absent" /\ jobPods = 0 /\ ~At("job")
    /\ ~lost => jobPods = IF job = "active" THEN 1 ELSE 0
    /\ seenJob = "succeeded" => JobOver
    /\ (At("status") /\ pass.reason = "WorktreeReady") \/ IsReady => JobOver
    /\ worked # 0 => worked = volume.id
    /\ ~spec.deferred =>
          /\ worked # 0 => JobOver /\ (IsReady \/ closed)
          /\ \A u \in Users : Mounting(u) => JobOver /\ (IsReady \/ closed)

IInv == /\ TypeOK /\ OneChild /\ Untouched /\ PassFits /\ CloneSafe
        /\ CheckoutSafe /\ UsersSafe /\ JobsSafe

-----------------------------------------------------------------------------
(* What the records of a step are, field by field.                         *)

Steps == {"idle", "close", "drain", "repository", "plan", "create", "claim", "volume",
          "observe", "job", "status", "usage"}
PassSet == [pc : Steps, bound : BOOLEAN, ready : BOOLEAN, size : 0..MaxSize,
            modes : SUBSET Modes, reason : Reasons]
VolumeSet == [phase : {"none", "pending", "bound", "deleting", "released"}, id : 0..2,
              size : 0..MaxSize, modes : SUBSET Modes]
StatusSet == [reason : Reasons, volumeReady : BOOLEAN, recorded : BOOLEAN]
PodSet == [phase : {"absent", "init", "failing", "running"}, init : BOOLEAN]
MountingSet == [pc : {"idle", "admit", "create"}, init : BOOLEAN]

\* The pass goes on with what it has read.
PassGoes(step, reason) ==
    /\ pass' \in PassSet
    /\ pass'.pc = step /\ pass'.reason = reason
    /\ pass'.bound = pass.bound /\ pass'.ready = pass.ready
    /\ pass'.size = pass.size /\ pass'.modes = pass.modes

\* GoTo changes the place of the pass and nothing else.
LEMMA GoToIs ==
    ASSUME pass \in PassSet, NEW step \in Steps, GoTo(step)
    PROVE  PassGoes(step, pass.reason)
BY DEF PassSet, PassGoes, GoTo

\* Report sends the pass to the write of its status with a reason.
LEMMA ReportIs ==
    ASSUME pass \in PassSet, NEW reason \in Reasons, Report(reason)
    PROVE  PassGoes("status", reason)
BY DEF PassSet, PassGoes, Report, Steps

\* A pass that is over has read nothing.
LEMMA NoPassIs ==
    /\ NoPass \in PassSet
    /\ NoPass.pc = "idle" /\ NoPass.bound = FALSE /\ NoPass.reason = "none"
<1>1. 0 \in 0..MaxSize
    BY BootstrapAssumption, SMT
<1> QED
    BY <1>1 DEF NoPass, PassSet, Steps, Reasons, Waits

\* The child's claim changes its phase and nothing else.
VolumeGoes(phase) ==
    /\ volume' \in VolumeSet
    /\ volume'.phase = phase /\ volume'.id = volume.id
    /\ volume'.size = volume.size /\ volume'.modes = volume.modes

\* An EXCEPT of the claim's phase is such a change.
LEMMA VolumeGoesTo ==
    ASSUME volume \in VolumeSet,
           NEW phase \in {"none", "pending", "bound", "deleting", "released"},
           volume' = [volume EXCEPT !.phase = phase]
    PROVE  VolumeGoes(phase)
BY DEF VolumeSet, VolumeGoes

\* The types, with the names above.
Types ==
    /\ spec \in Specs
    /\ repo \in [state : {"absent", "waiting", "busy", "ready", "failed"}, size : Sizes]
    /\ source \in SourceSet
    /\ volume \in VolumeSet
    /\ checkout \in {"cloned", "partial", "whole"}
    /\ status \in StatusSet
    /\ reserved \in BOOLEAN /\ closed \in BOOLEAN /\ lost \in BOOLEAN
    /\ holder \in Users \cup {Nobody} /\ usedBy \in Users \cup {Nobody}
    /\ job \in JobStates /\ seenJob \in JobStates /\ jobPods \in 0..2
    /\ pod \in [Users -> PodSet]
    /\ mounting \in [Users -> MountingSet]
    /\ pass \in PassSet
    /\ worked \in 0..2 /\ faults \in 0..MaxFaults

\* TypeOK in those names.
LEMMA TypesAre == TypeOK <=> Types
BY DEF TypeOK, Types, VolumeSet, StatusSet, PodSet, MountingSet, PassSet, Steps

\* The same after a step.
LEMMA TypesAfter == Types' => TypeOK'
BY DEF TypeOK, Types, VolumeSet, StatusSet, PodSet, MountingSet, PassSet, Steps

\* An EXCEPT of one user's Pod, and of the phase of one.
LEMMA PodGoes ==
    ASSUME pod \in [Users -> PodSet], NEW u \in Users, NEW value \in PodSet,
           pod' = [pod EXCEPT ![u] = value]
    PROVE  /\ pod' \in [Users -> PodSet] /\ pod'[u] = value
           /\ \A v \in Users : v # u => pod'[v] = pod[v]
OBVIOUS

\* The phase of one user's Pod changes and nothing else.
LEMMA PhaseGoes ==
    ASSUME pod \in [Users -> PodSet], NEW u \in Users,
           NEW phase \in {"absent", "init", "failing", "running"},
           pod' = [pod EXCEPT ![u].phase = phase]
    PROVE  /\ pod' \in [Users -> PodSet]
           /\ pod'[u].phase = phase /\ pod'[u].init = pod[u].init
           /\ \A v \in Users : v # u => pod'[v] = pod[v]
<1>1. pod[u] \in PodSet
    OBVIOUS
<1> DEFINE value == [pod[u] EXCEPT !.phase = phase]
<1>2. value \in PodSet /\ value.phase = phase /\ value.init = pod[u].init
    BY <1>1 DEF PodSet
<1>3. pod' = [pod EXCEPT ![u] = value]
    OBVIOUS
<1> HIDE DEF value
<1> QED
    BY <1>2, <1>3, PodGoes

\* An EXCEPT of one user's pass, and of the place of one.
LEMMA MountingGoes ==
    ASSUME mounting \in [Users -> MountingSet], NEW u \in Users, NEW value \in MountingSet,
           mounting' = [mounting EXCEPT ![u] = value]
    PROVE  /\ mounting' \in [Users -> MountingSet] /\ mounting'[u] = value
           /\ \A v \in Users : v # u => mounting'[v] = mounting[v]
OBVIOUS

\* The place of one user's pass changes and nothing else.
LEMMA PlaceGoes ==
    ASSUME mounting \in [Users -> MountingSet], NEW u \in Users,
           NEW pc \in {"idle", "admit", "create"},
           mounting' = [mounting EXCEPT ![u].pc = pc]
    PROVE  /\ mounting' \in [Users -> MountingSet]
           /\ mounting'[u].pc = pc /\ mounting'[u].init = mounting[u].init
           /\ \A v \in Users : v # u => mounting'[v] = mounting[v]
<1>1. mounting[u] \in MountingSet
    OBVIOUS
<1> DEFINE value == [mounting[u] EXCEPT !.pc = pc]
<1>2. value \in MountingSet /\ value.pc = pc /\ value.init = mounting[u].init
    BY <1>1 DEF MountingSet
<1>3. mounting' = [mounting EXCEPT ![u] = value]
    OBVIOUS
<1> HIDE DEF value
<1> QED
    BY <1>2, <1>3, MountingGoes

\* A user without a Pod, and one without a pass, have their types.
LEMMA RestIs ==
    /\ NoPod \in PodSet /\ NoPod.phase = "absent" /\ NoPod.init = FALSE
    /\ NoMounting \in MountingSet /\ NoMounting.pc = "idle" /\ NoMounting.init = FALSE
BY DEF NoPod, NoMounting, PodSet, MountingSet

\* An initial state satisfies the invariant.
LEMMA InitHolds == Init => IInv
<1> SUFFICES ASSUME Init PROVE IInv
    OBVIOUS
<1>1. TypeOK
  <2>1. spec \in Specs /\ source \in SourceSet
      BY BootstrapAssumption DEF Init
  <2>2. 0 \in 0..MaxSize /\ 0 \in 0..2 /\ 0 \in 0..MaxFaults
      BY BootstrapAssumption, SMT
  <2>3. volume \in VolumeSet /\ status \in StatusSet
      BY <2>2 DEF Init, VolumeSet, StatusSet, Reasons, Waits
  <2>4. pass \in PassSet
      BY NoPassIs DEF Init
  <2>5. pod \in [Users -> PodSet] /\ mounting \in [Users -> MountingSet]
      BY RestIs DEF Init
  <2> QED
      BY <2>1, <2>2, <2>3, <2>4, <2>5, TypesAre DEF Types, Init, JobStates
<1>2. OneChild
    BY DEF Init, OneChild
<1>3. Untouched
    BY NoPassIs, RestIs DEF Init, Untouched, IsReady, Mounting, PodOn
<1>4. PassFits
    BY NoPassIs DEF Init, PassFits, At, IsReady
<1>5. CloneSafe
    BY NoPassIs DEF Init, CloneSafe, At
<1>6. CheckoutSafe
    BY NoPassIs, RestIs DEF Init, CheckoutSafe, IsReady
<1>7. UsersSafe
    BY RestIs DEF Init, UsersSafe, PodOn
<1>8. JobsSafe
    BY NoPassIs, RestIs DEF Init, JobsSafe, IsReady, At, Mounting, PodOn
<1> QED
    BY <1>1, <1>2, <1>3, <1>4, <1>5, <1>6, <1>7, <1>8 DEF IInv

-----------------------------------------------------------------------------
(* What the longer steps of the pass come to.                              *)

\* Begin goes to the deletion, to the parent or to the claim as what it read says.
LEMMA BeginIs ==
    ASSUME Begin
    PROVE  /\ pass' \in PassSet /\ pass'.reason = "none"
           /\ (pass'.bound <=> volume.phase = "bound") /\ (pass'.ready <=> IsReady)
           /\ pass'.pc \in {"close", "repository", "claim"}
           /\ pass'.pc = "close" => StorageDeleted
           /\ pass'.pc = "repository" => ~StorageDeleted /\ volume.phase = "none"
           /\ pass'.pc = "claim" => ~StorageDeleted /\ volume.phase # "none"
<1> DEFINE place == CASE StorageDeleted -> "close"
                      [] ~StorageDeleted /\ volume.phase = "none" -> "repository"
                      [] OTHER -> "claim"
           isBound == volume.phase = "bound"
<1>1. pass' = [NoPass EXCEPT !.pc = place, !.bound = isBound, !.ready = IsReady]
    BY DEF Begin
<1>2. /\ place \in {"close", "repository", "claim"}
      /\ place = "close" => StorageDeleted
      /\ place = "repository" => ~StorageDeleted /\ volume.phase = "none"
      /\ place = "claim" => ~StorageDeleted /\ volume.phase # "none"
    OBVIOUS
<1>3. isBound \in BOOLEAN /\ IsReady \in BOOLEAN
    BY DEF IsReady
<1>4. PICK B : B = BOOLEAN
    OBVIOUS
<1> HIDE DEF place
<1>5. PICK b, r : b = isBound /\ r = IsReady
    OBVIOUS
<1> HIDE DEF isBound
<1>6. pass' = [pc |-> place, bound |-> b, ready |-> r, size |-> 0, modes |-> {}, reason |-> "none"]
    BY <1>1, <1>5 DEF NoPass
<1>7. 0 \in 0..MaxSize
    BY BootstrapAssumption, SMT
<1>8. pass' \in PassSet
  <2>1. b \in B /\ r \in B
      BY <1>3, <1>4, <1>5
  <2>2. pass' \in [pc : Steps, bound : B, ready : B, size : 0..MaxSize, modes : SUBSET Modes, reason : Reasons]
      BY <1>2, <1>6, <1>7, <2>1 DEF Steps, Reasons, Waits
  <2> QED
      BY <2>2, <1>4 DEF PassSet
<1>9. pass'.bound = isBound /\ pass'.ready = IsReady /\ pass'.pc = place /\ pass'.reason = "none"
    BY <1>5, <1>6
<1>10. pass'.bound = (volume.phase = "bound")
    BY <1>9 DEF isBound
<1> QED
    BY <1>2, <1>8, <1>9, <1>10

\* Only a ready parent lets the pass on, and then it is reserved.
LEMMA RepositoryIs ==
    ASSUME ReadRepository, TypeOK, pass \in PassSet
    PROVE  \/ reserved' = TRUE /\ PassGoes("plan", pass.reason)
           \/ \E reason \in Waits \ {"none", "Provisioning"} : PassGoes("status", reason)
<1>1. repo.state \in {"absent", "waiting", "busy", "ready", "failed"}
    BY DEF TypeOK
<1>2. CASE repo.state = "ready"
  <2>1. reserved' = TRUE /\ GoTo("plan")
      BY <1>2 DEF ReadRepository
  <2> QED
      BY <1>2, <2>1, GoToIs DEF Steps
<1>3. CASE repo.state # "ready"
  <2>1. PICK reason \in {"RepositoryNotFound", "RepositoryFailed", "RepositoryNotReady"} : Report(reason)
      BY <1>1, <1>3 DEF ReadRepository
  <2> QED
      BY <2>1, ReportIs DEF Waits, Reasons
<1> QED
    BY <1>2, <1>3

\* An accepted plan is large enough for the parent and for the spec.
LEMMA PlanCloneIs ==
    ASSUME NEW s \in SourceSet, NEW repoSize \in Sizes, NEW w \in SpecSet
    PROVE  LET plan == PlanClone(s, repoSize, w)
           IN \/ /\ plan.reason = "none" /\ s.capacity > 0
                 /\ plan.size \in 0..MaxSize /\ plan.modes \in SUBSET Modes
                 /\ plan.size >= Larger(s.request, s.capacity) /\ plan.size >= w.size
                 /\ w.modes # {} => plan.modes = w.modes
              \/ plan.reason \in Waits \ {"none", "Provisioning"}
<1> DEFINE minimum == Larger(s.request, s.capacity)
           size == IF w.size # 0 THEN w.size ELSE Larger(repoSize, minimum)
           modes == IF w.modes # {} THEN w.modes ELSE s.modes
           plan == PlanClone(s, repoSize, w)
<1>1. /\ s.request \in 0..MaxSize /\ s.capacity \in 0..MaxSize /\ s.modes \in SUBSET Modes
      /\ w.size \in 0..MaxSize /\ w.modes \in SUBSET Modes /\ repoSize \in 0..MaxSize /\ MaxSize \in Nat
    BY BootstrapAssumption DEF SourceSet, SpecSet, Sizes
<1>2. minimum \in 0..MaxSize /\ size \in 0..MaxSize /\ size >= w.size
    BY <1>1 DEF Larger
<1>3. modes \in SUBSET Modes /\ (w.modes # {} => modes = w.modes)
    BY <1>1
<1>4. plan = CASE ~Observable(s) -> Rejected("CloneSourceNotReady")
               [] Observable(s) /\ ~s.filesystem -> Rejected("CloneStorageInvalid")
               [] Observable(s) /\ s.filesystem /\ size < minimum -> Rejected("CloneSizeTooSmall")
               [] Observable(s) /\ s.filesystem /\ size >= minimum ->
                    IF Writable(modes) THEN [reason |-> "none", size |-> size, modes |-> modes]
                    ELSE Rejected("CloneStorageInvalid")
    BY DEF PlanClone
<1>5. minimum = Larger(s.request, s.capacity)
    OBVIOUS
<1>6. \/ \E reason \in {"CloneSourceNotReady", "CloneStorageInvalid", "CloneSizeTooSmall"} : plan = Rejected(reason)
      \/ plan = [reason |-> "none", size |-> size, modes |-> modes] /\ Observable(s) /\ size >= minimum
  <2> HIDE DEF plan, size, minimum, modes
  <2>1. size < minimum \/ size >= minimum
      BY <1>2
  <2>2. CASE ~Observable(s)
      BY <1>4, <2>2
  <2>3. CASE Observable(s) /\ ~s.filesystem
      BY <1>4, <2>3
  <2>4. CASE Observable(s) /\ s.filesystem /\ size < minimum
      BY <1>4, <2>4, <1>2
  <2>5. CASE Observable(s) /\ s.filesystem /\ size >= minimum
      BY <1>4, <2>5, <1>2
  <2> QED
      BY <2>1, <2>2, <2>3, <2>4, <2>5
<1> HIDE DEF plan, size, minimum, modes
<1>7. \/ /\ plan.reason = "none" /\ s.capacity > 0
         /\ plan.size \in 0..MaxSize /\ plan.modes \in SUBSET Modes
         /\ plan.size >= Larger(s.request, s.capacity) /\ plan.size >= w.size
         /\ w.modes # {} => plan.modes = w.modes
      \/ plan.reason \in Waits \ {"none", "Provisioning"}
  <2>1. CASE \E reason \in {"CloneSourceNotReady", "CloneStorageInvalid", "CloneSizeTooSmall"} : plan = Rejected(reason)
      BY <2>1 DEF Rejected, Waits
  <2>2. CASE plan = [reason |-> "none", size |-> size, modes |-> modes] /\ Observable(s) /\ size >= minimum
    <3>1. plan.reason = "none" /\ plan.size = size /\ plan.modes = modes
        BY <2>2
    <3> QED
        BY <2>2, <3>1, <1>2, <1>3, <1>5 DEF Observable
  <2> QED
      BY <1>6, <2>1, <2>2
<1> QED
    BY <1>7 DEF plan

\* The pass goes on with an accepted plan, or reports why there is none.
LEMMA PlanIs ==
    ASSUME Plan, TypeOK, pass \in PassSet
    PROVE  \/ /\ UNCHANGED reserved /\ pass' \in PassSet /\ pass'.pc = "create" /\ pass'.reason = pass.reason
              /\ pass'.bound = pass.bound /\ pass'.ready = pass.ready
              /\ source.capacity > 0 /\ pass'.size >= Larger(source.request, source.capacity)
              /\ pass'.size >= spec.size /\ (spec.modes # {} => pass'.modes = spec.modes)
           \/ \E reason \in Waits \ {"none", "Provisioning"} : PassGoes("status", reason) /\ reserved' = FALSE
<1> DEFINE plan == PlanClone(source, repo.size, spec)
<1>1. source \in SourceSet /\ repo.size \in Sizes /\ spec \in SpecSet
    BY BootstrapAssumption DEF TypeOK
<1>2. \/ /\ plan.reason = "none" /\ source.capacity > 0
         /\ plan.size \in 0..MaxSize /\ plan.modes \in SUBSET Modes
         /\ plan.size >= Larger(source.request, source.capacity) /\ plan.size >= spec.size
         /\ spec.modes # {} => plan.modes = spec.modes
      \/ plan.reason \in Waits \ {"none", "Provisioning"}
    BY <1>1, PlanCloneIs
<1>3. IF plan.reason = "none" THEN Planned(plan) /\ UNCHANGED reserved
      ELSE Report(plan.reason) /\ reserved' = FALSE
    BY DEF Plan
<1> HIDE DEF plan
<1>4. CASE plan.reason = "none"
  <2>1. Planned(plan) /\ UNCHANGED reserved
      BY <1>3, <1>4
  <2>2. plan.size \in 0..MaxSize /\ plan.modes \in SUBSET Modes
      BY <1>2, <1>4
  <2>3. /\ pass' \in PassSet /\ pass'.pc = "create" /\ pass'.reason = pass.reason
        /\ pass'.bound = pass.bound /\ pass'.ready = pass.ready
        /\ pass'.size = plan.size /\ pass'.modes = plan.modes
      BY <2>1, <2>2 DEF Planned, PassSet, Steps
  <2> QED
      BY <1>2, <1>4, <2>1, <2>3
<1>5. CASE plan.reason # "none"
  <2>1. plan.reason \in Waits \ {"none", "Provisioning"} /\ plan.reason \in Reasons
      BY <1>2, <1>5 DEF Reasons
  <2> QED
      BY <1>3, <1>5, <2>1, ReportIs
<1> QED
    BY <1>4, <1>5

\* The child that a pass creates is the Worktree's first.
LEMMA CreateIs ==
    ASSUME CreateClaim, TypeOK, OneChild, Untouched, PassFits, pass \in PassSet
    PROVE  /\ volume' \in VolumeSet /\ volume'.phase = "pending" /\ volume'.id = 1
           /\ volume'.size = pass.size /\ volume'.modes = pass.modes /\ volume.id = 0 /\ ~closed
           /\ ~status.recorded /\ ~IsReady /\ pass.bound = FALSE
<1>1. volume.id = 0 /\ pass.bound = FALSE
    BY DEF CreateClaim, PassFits, At, PassSet
<1>2. pass.size \in 0..MaxSize /\ pass.modes \in SUBSET Modes
    BY DEF PassSet
<1>3. volume' = [phase |-> "pending", id |-> 1, size |-> pass.size, modes |-> pass.modes]
    BY <1>1 DEF CreateClaim
<1>4. volume' \in VolumeSet
    BY <1>2, <1>3 DEF VolumeSet
<1> QED
    BY <1>1, <1>3, <1>4 DEF OneChild, Untouched

\* A claim that is there matches, so the pass waits or goes on.
LEMMA CheckIs ==
    ASSUME CheckClaim, OneChild, volume.phase # "none", pass \in PassSet
    PROVE  \/ pass.bound /\ reserved' = FALSE /\ PassGoes("volume", pass.reason)
           \/ ~pass.bound /\ reserved' = reserved /\ PassGoes("status", "Provisioning")
<1>1. CASE ClaimMatches /\ pass.bound
    BY <1>1, GoToIs DEF CheckClaim, Steps
<1>2. CASE ClaimMatches /\ ~pass.bound
    BY <1>2, ReportIs DEF CheckClaim, Reasons, Waits
<1>3. CASE ~ClaimMatches
    BY <1>3 DEF OneChild
<1> QED
    BY <1>1, <1>2, <1>3

\* Only a checkout left to Workspaces is looked for in their Pods.
LEMMA VolumeReadyIs ==
    ASSUME SetVolumeReady, pass \in PassSet
    PROVE  /\ pass' \in PassSet /\ pass'.bound = pass.bound /\ pass'.ready = pass.ready
           /\ pass'.reason = pass.reason /\ pass'.pc \in {"usage", "observe", "job"}
           /\ (pass'.pc = "usage" <=> pass.ready)
           /\ pass'.pc = "job" => ~(spec.deferred /\ seenJob = "absent")
<1> DEFINE step == IF pass.ready THEN "usage"
                   ELSE IF spec.deferred /\ seenJob = "absent" THEN "observe" ELSE "job"
<1>1. GoTo(step)
    BY DEF SetVolumeReady
<1>2. pass.ready \in BOOLEAN
    BY DEF PassSet
<1>3. /\ step \in {"usage", "observe", "job"}
      /\ (step = "usage" <=> pass.ready)
      /\ step = "job" => ~(spec.deferred /\ seenJob = "absent")
    BY <1>2
<1> HIDE DEF step
<1>4. PassGoes(step, pass.reason)
    BY <1>1, <1>3, GoToIs DEF Steps
<1> QED
    BY <1>3, <1>4 DEF PassGoes

\* Pods report a finished checkout only when an init container succeeded.
LEMMA ObserveIs ==
    ASSUME ObservePods, pass \in PassSet
    PROVE  \/ PassGoes("status", "WorktreeReady") /\ Initializers({"running"}) # {}
           \/ \E reason \in {"BootstrapFailed", "Initializing", "WaitingForWorkspace"} : PassGoes("status", reason)
<1>1. Report(BootstrapOfPods)
    BY DEF ObservePods
<1>2. \/ BootstrapOfPods = "WorktreeReady" /\ Initializers({"running"}) # {}
      \/ BootstrapOfPods \in {"BootstrapFailed", "Initializing", "WaitingForWorkspace"}
  <2>1. CASE Initializers({"running"}) # {}
      BY <2>1 DEF BootstrapOfPods
  <2>2. CASE Initializers({"running"}) = {} /\ Initializers({"failing"}) # {}
      BY <2>2 DEF BootstrapOfPods
  <2>3. CASE Initializers({"running"}) = {} /\ Initializers({"failing"}) = {}
      BY <2>3 DEF BootstrapOfPods
  <2> QED
      BY <2>1, <2>2, <2>3
<1>3. BootstrapOfPods \in Reasons
    BY <1>2 DEF Reasons
<1>4. PassGoes("status", BootstrapOfPods)
    BY <1>1, <1>3, ReportIs
<1> QED
    BY <1>2, <1>4

\* A Job reports a finished checkout only when it succeeded.
LEMMA ReadJobIs ==
    ASSUME ReadJob, pass \in PassSet
    PROVE  \/ PassGoes("status", "WorktreeReady") /\ seenJob = "succeeded"
           \/ \E reason \in {"BootstrapFailed", "Initializing"} : PassGoes("status", reason)
<1> DEFINE result == CASE seenJob = "failed" -> "BootstrapFailed"
                       [] seenJob = "succeeded" -> "WorktreeReady"
                       [] OTHER -> "Initializing"
<1>1. Report(result)
    BY DEF ReadJob
<1>2. \/ result = "WorktreeReady" /\ seenJob = "succeeded"
      \/ result \in {"BootstrapFailed", "Initializing"}
    OBVIOUS
<1>3. result \in Reasons
    BY <1>2 DEF Reasons
<1> HIDE DEF result
<1>4. PassGoes("status", result)
    BY <1>1, <1>3, ReportIs
<1> QED
    BY <1>2, <1>4

\* The status gets the reason of the pass, and the claim once there is one.
LEMMA SetStatusIs ==
    ASSUME SetStatus, pass \in PassSet, status \in StatusSet
    PROVE  /\ status' \in StatusSet /\ status'.reason = pass.reason
           /\ status'.recorded => status.recorded \/ pass.reason \notin Waits \ {"Provisioning"}
<1> DEFINE recorded == status.recorded \/ pass.reason \notin Waits \ {"Provisioning"}
<1>1. recorded \in BOOLEAN /\ pass.reason \in Reasons
    BY DEF PassSet
<1>2. status' = [status EXCEPT !.reason = pass.reason, !.recorded = recorded]
    BY DEF SetStatus
<1>3. PICK r : r = recorded
    OBVIOUS
<1>4. r => recorded
    BY <1>3
<1> HIDE DEF recorded
<1>5. r \in BOOLEAN
    BY <1>1, <1>3
<1>6. PICK B : B = BOOLEAN
    OBVIOUS
<1>7. status \in [reason : Reasons, volumeReady : B, recorded : B] /\ r \in B
    BY <1>5, <1>6 DEF StatusSet
<1>8. /\ status' \in [reason : Reasons, volumeReady : B, recorded : B]
      /\ status'.reason = pass.reason /\ status'.recorded = r
    BY <1>1, <1>2, <1>3, <1>7
<1>9. status' \in StatusSet
    BY <1>6, <1>8 DEF StatusSet
<1>10. status'.recorded => recorded
    BY <1>4, <1>8
<1> QED
    BY <1>8, <1>9, <1>10 DEF recorded

\* A drained Worktree is reported as deleted or being deleted.
LEMMA DrainIs ==
    ASSUME Drain, status \in StatusSet
    PROVE  /\ status' \in StatusSet /\ status'.reason \in {"VolumeDeleted", "VolumeDeleting"}
           /\ status'.recorded = status.recorded
<1>1. PICK reason \in {"VolumeDeleted", "VolumeDeleting"} :
         status' = [status EXCEPT !.volumeReady = FALSE, !.reason = reason]
    BY DEF Drain
<1>2. reason \in Reasons
    BY DEF Reasons
<1>3. PICK B : B = BOOLEAN
    OBVIOUS
<1>4. status \in [reason : Reasons, volumeReady : B, recorded : B] /\ FALSE \in B
    BY <1>3 DEF StatusSet
<1>5. /\ status' \in [reason : Reasons, volumeReady : B, recorded : B]
      /\ status'.reason = reason /\ status'.recorded = status.recorded
    BY <1>1, <1>2, <1>4
<1> QED
    BY <1>3, <1>5 DEF StatusSet

\* A resolved mount asks for an initializer only where one is allowed.
LEMMA ResolveIs ==
    ASSUME NEW u \in Users, ResolveMount(u), mounting \in [Users -> MountingSet]
    PROVE  /\ mounting' \in [Users -> MountingSet]
           /\ mounting'[u].pc = "admit" /\ (mounting'[u].init => spec.deferred)
           /\ \A v \in Users : v # u => mounting'[v] = mounting[v]
<1> DEFINE value == [pc |-> "admit", init |-> NeedsInitializer]
<1>1. NeedsInitializer \in BOOLEAN /\ (NeedsInitializer => spec.deferred)
    BY DEF NeedsInitializer, IsReady
<1>2. PICK n : n = NeedsInitializer
    OBVIOUS
<1>3. n \in BOOLEAN /\ (n => spec.deferred)
    BY <1>1, <1>2
<1>4. value = [pc |-> "admit", init |-> n]
    BY <1>2
<1>5. mounting' = [mounting EXCEPT ![u] = value]
    BY DEF ResolveMount
<1>6. value \in MountingSet /\ value.pc = "admit" /\ value.init = n
    BY <1>3, <1>4 DEF MountingSet
<1> HIDE DEF value
<1> QED
    BY <1>3, <1>5, <1>6, MountingGoes

\* A mount is admitted into a free Worktree or given up.
LEMMA AdmitIs ==
    ASSUME NEW u \in Users, AdmitMount(u), mounting \in [Users -> MountingSet]
    PROVE  /\ mounting' \in [Users -> MountingSet]
           /\ \A v \in Users : v # u => mounting'[v] = mounting[v]
           /\ \/ /\ mounting'[u].pc = "create" /\ mounting'[u].init = mounting[u].init
                 /\ holder = Nobody /\ holder' = u
              \/ mounting'[u].pc = "idle" /\ mounting'[u].init = FALSE /\ holder' = holder
<1>1. CASE holder = Nobody /\ ~closed
  <2>1. holder' = u /\ mounting' = [mounting EXCEPT ![u].pc = "create"]
      BY <1>1 DEF AdmitMount
  <2> QED
      BY <1>1, <2>1, PlaceGoes
<1>2. CASE ~(holder = Nobody /\ ~closed)
  <2>1. holder' = holder /\ mounting' = [mounting EXCEPT ![u] = NoMounting]
      BY <1>2 DEF AdmitMount
  <2> QED
      BY <1>2, <2>1, MountingGoes, RestIs
<1> QED
    BY <1>1, <1>2

\* A Pod starts with its init container if it has one.
LEMMA CreatePodIs ==
    ASSUME NEW u \in Users, CreatePod(u), pod \in [Users -> PodSet], mounting \in [Users -> MountingSet]
    PROVE  /\ pod' \in [Users -> PodSet] /\ (pod'[u].init => mounting[u].init)
           /\ pod'[u].phase \in {"init", "running"}
           /\ pod'[u].phase = "init" <=> pod'[u].init
           /\ \A v \in Users : v # u => pod'[v] = pod[v]
<1> DEFINE value == [phase |-> IF mounting[u].init THEN "init" ELSE "running", init |-> mounting[u].init]
<1>1. mounting[u].init \in BOOLEAN
    BY DEF MountingSet
<1>2. pod' = [pod EXCEPT ![u] = value]
    BY DEF CreatePod
<1>3. /\ value \in PodSet /\ (value.init => mounting[u].init)
      /\ value.phase \in {"init", "running"} /\ (value.phase = "init" <=> value.init)
  <2>1. CASE mounting[u].init = TRUE
      BY <2>1 DEF PodSet
  <2>2. CASE mounting[u].init = FALSE
      BY <2>2 DEF PodSet
  <2> QED
      BY <1>1, <2>1, <2>2
<1> HIDE DEF value
<1> QED
    BY <1>2, <1>3, PodGoes

\* A Job that vanishes before its Pod has ended is lost.
LEMMA ExpireIs ==
    ASSUME ExpireJob, TypeOK
    PROVE  /\ job' = "absent" /\ job # "absent" /\ lost' \in BOOLEAN
           /\ ~lost' => ~lost /\ job \notin {"created", "active"}
BY DEF ExpireJob, TypeOK

\* What the clone was measured against does not grow under its reservation.
LEMMA SourceIs ==
    ASSUME SourceChanges, TypeOK
    PROVE  /\ source' \in SourceSet /\ source'.request = source.request
           /\ source'.capacity = source.capacity \/ source.capacity = 0 \/ ~reserved
<1>1. PICK B : B = BOOLEAN
    OBVIOUS
<1>2. /\ source \in [bound : B, filesystem : B, request : Sizes, capacity : 0..MaxSize, modes : SUBSET Modes]
      /\ TRUE \in B
    BY <1>1 DEF TypeOK, SourceSet
<1>3. CASE source' = [source EXCEPT !.bound = TRUE]
  <2>1. /\ source' \in [bound : B, filesystem : B, request : Sizes, capacity : 0..MaxSize, modes : SUBSET Modes]
        /\ source'.request = source.request /\ source'.capacity = source.capacity
      BY <1>2, <1>3
  <2> QED
      BY <1>1, <2>1 DEF SourceSet
<1>4. ASSUME NEW c \in Sizes, source' = [source EXCEPT !.capacity = c], source.capacity > 0 => ~reserved
      PROVE  /\ source' \in SourceSet /\ source'.request = source.request
             /\ source.capacity = 0 \/ ~reserved
  <2>1. c \in 0..MaxSize /\ source.capacity \in 0..MaxSize
      BY <1>2, BootstrapAssumption DEF Sizes
  <2>2. /\ source' \in [bound : B, filesystem : B, request : Sizes, capacity : 0..MaxSize, modes : SUBSET Modes]
        /\ source'.request = source.request
      BY <1>2, <1>4, <2>1
  <2>3. source.capacity = 0 \/ ~reserved
      BY <1>4, <2>1, BootstrapAssumption
  <2> QED
      BY <1>1, <2>2, <2>3 DEF SourceSet
<1> QED
    BY <1>3, <1>4 DEF SourceChanges

\* The pass reads the Worktree and its claim.
LEMMA BeginKeeps ==
    ASSUME IInv, Begin PROVE IInv'
<1>1. TypeOK /\ OneChild /\ Untouched /\ PassFits /\ CloneSafe /\ CheckoutSafe /\ UsersSafe /\ JobsSafe
    BY DEF IInv
<1>2. /\ pass \in PassSet /\ volume \in VolumeSet /\ status \in StatusSet
      /\ pod \in [Users -> PodSet] /\ mounting \in [Users -> MountingSet]
    BY <1>1, TypesAre DEF Types
<1>3. At("idle") /\ UNCHANGED <<repo, source, volume, checkout, job, jobPods, seenJob, closed,
                                holder, pod, mounting, worked, spec, faults, lost, status, reserved,
                                usedBy>>
    BY <1>1, <1>2 DEF Begin, objects, users, control
<1>4. /\ pass' \in PassSet /\ pass'.reason = "none"
      /\ (pass'.bound <=> volume.phase = "bound") /\ (pass'.ready <=> IsReady)
      /\ pass'.pc \in {"close", "repository", "claim"}
      /\ pass'.pc = "close" => StorageDeleted
      /\ pass'.pc = "repository" => ~StorageDeleted /\ volume.phase = "none"
      /\ pass'.pc = "claim" => ~StorageDeleted /\ volume.phase # "none"
    BY <1>1, <1>2, <1>3, BeginIs
<1>5. volume.phase \in {"none", "pending", "bound", "deleting", "released"}
    BY <1>1, <1>2, <1>3, <1>4 DEF VolumeSet
<1>6. Types'
    BY <1>1, <1>3, <1>4, <1>5, <1>2, TypesAre DEF Types
<1>7. TypeOK'
    BY <1>6, TypesAfter
<1>8. OneChild'
    BY <1>1, <1>3, <1>4, <1>5 DEF OneChild, ClaimMatches
<1>9. Untouched'
    BY <1>1, <1>3, <1>4, <1>5 DEF Untouched, IsReady, Mounting, PodOn
<1>10. PassFits'
    BY <1>1, <1>3, <1>4, <1>5 DEF PassFits, At, IsReady, StorageDeleted, OneChild, Untouched,
       CheckoutSafe, Waits
<1>11. CloneSafe'
    BY <1>1, <1>3, <1>4, <1>5 DEF CloneSafe, At
<1>12. CheckoutSafe'
    BY <1>1, <1>3, <1>4, <1>5 DEF CheckoutSafe, IsReady
<1>13. UsersSafe'
    BY <1>1, <1>3, <1>4, <1>5 DEF UsersSafe, PodOn
<1>14. JobsSafe'
    BY <1>1, <1>3, <1>4, <1>5 DEF JobsSafe, JobOver, IsReady, At, Mounting, PodOn, OneChild,
       Untouched
<1> QED
    BY <1>7, <1>8, <1>9, <1>10, <1>11, <1>12, <1>13, <1>14 DEF IInv

\* The pass closes the fence.
LEMMA CloseMountsKeeps ==
    ASSUME IInv, CloseMounts PROVE IInv'
<1>1. TypeOK /\ OneChild /\ Untouched /\ PassFits /\ CloneSafe /\ CheckoutSafe /\ UsersSafe /\ JobsSafe
    BY DEF IInv
<1>2. /\ pass \in PassSet /\ volume \in VolumeSet /\ status \in StatusSet
      /\ pod \in [Users -> PodSet] /\ mounting \in [Users -> MountingSet]
    BY <1>1, TypesAre DEF Types
<1>3. PassGoes("drain", pass.reason)
    BY <1>1, <1>2, GoToIs DEF CloseMounts, Steps
<1>4. Types'
    BY <1>1, <1>3, <1>2, TypesAre DEF Types, CloseMounts, objects, users, control, PassGoes
<1>5. TypeOK'
    BY <1>4, TypesAfter
<1>6. OneChild'
    BY <1>1, <1>3 DEF CloseMounts, objects, users, control, PassGoes, OneChild, ClaimMatches,
       PassFits, At
<1>7. Untouched'
    BY <1>1, <1>3 DEF CloseMounts, objects, users, control, PassGoes, Untouched, IsReady,
       Mounting, PodOn
<1>8. PassFits'
    BY <1>1, <1>3 DEF CloseMounts, objects, users, control, PassGoes, PassFits, At, IsReady
<1>9. CloneSafe'
    BY <1>1, <1>3 DEF CloseMounts, objects, users, control, PassGoes, CloneSafe, At
<1>10. CheckoutSafe'
    BY <1>1, <1>3 DEF CloseMounts, objects, users, control, PassGoes, CheckoutSafe, IsReady
<1>11. UsersSafe'
    BY <1>1, <1>3 DEF CloseMounts, objects, users, control, PassGoes, UsersSafe, PodOn
<1>12. JobsSafe'
    BY <1>1, <1>3 DEF CloseMounts, objects, users, control, PassGoes, JobsSafe, JobOver, IsReady,
       At, Mounting, PodOn
<1> QED
    BY <1>5, <1>6, <1>7, <1>8, <1>9, <1>10, <1>11, <1>12 DEF IInv

\* The pass reads the Repository and reserves it.
LEMMA ReadRepositoryKeeps ==
    ASSUME IInv, ReadRepository PROVE IInv'
<1>1. TypeOK /\ OneChild /\ Untouched /\ PassFits /\ CloneSafe /\ CheckoutSafe /\ UsersSafe /\ JobsSafe
    BY DEF IInv
<1>2. /\ pass \in PassSet /\ volume \in VolumeSet /\ status \in StatusSet
      /\ pod \in [Users -> PodSet] /\ mounting \in [Users -> MountingSet]
    BY <1>1, TypesAre DEF Types
<1>3. At("repository") /\ UNCHANGED <<repo, source, volume, checkout, job, jobPods, seenJob, closed,
                                      holder, pod, mounting, worked, spec, faults, lost, status,
                                      usedBy>>
    BY <1>1, <1>2 DEF ReadRepository, objects, users, control
<1>4. reserved' \in BOOLEAN
    BY <1>1, <1>2, <1>3 DEF ReadRepository, TypeOK
<1>5. \/ reserved' = TRUE /\ PassGoes("plan", pass.reason)
      \/ \E reason \in Waits \ {"none", "Provisioning"} : PassGoes("status", reason)
    BY <1>1, <1>2, <1>3, <1>4, RepositoryIs
<1>6. /\ pass' \in PassSet /\ pass'.bound = pass.bound /\ pass'.ready = pass.ready
      /\ \/ pass'.pc = "plan" /\ reserved' = TRUE /\ pass'.reason = pass.reason
         \/ /\ pass'.pc = "status" /\ pass'.reason \in Waits \ {"Provisioning"}
            /\ pass'.reason # "WorktreeReady"
    BY <1>1, <1>2, <1>3, <1>4, <1>5 DEF PassGoes, Waits
<1>7. IsReady = FALSE /\ volume.phase # "pending" /\ volume.id = 0
    BY <1>1, <1>2, <1>3, <1>4, <1>5, <1>6 DEF PassFits, At, OneChild, IsReady
<1>8. Types'
    BY <1>1, <1>3, <1>4, <1>5, <1>6, <1>7, <1>2, TypesAre DEF Types
<1>9. TypeOK'
    BY <1>8, TypesAfter
<1>10. OneChild'
    BY <1>1, <1>3, <1>4, <1>5, <1>6, <1>7 DEF OneChild, ClaimMatches
<1>11. Untouched'
    BY <1>1, <1>3, <1>4, <1>5, <1>6, <1>7 DEF Untouched, IsReady, Mounting, PodOn
<1>12. PassFits'
    BY <1>1, <1>3, <1>4, <1>5, <1>6, <1>7 DEF PassFits, At, IsReady, OneChild, Untouched
<1>13. CloneSafe'
    BY <1>1, <1>3, <1>4, <1>5, <1>6, <1>7 DEF CloneSafe, At
<1>14. CheckoutSafe'
    BY <1>1, <1>3, <1>4, <1>5, <1>6, <1>7 DEF CheckoutSafe, IsReady
<1>15. UsersSafe'
    BY <1>1, <1>3, <1>4, <1>5, <1>6, <1>7 DEF UsersSafe, PodOn
<1>16. JobsSafe'
    BY <1>1, <1>3, <1>4, <1>5, <1>6, <1>7 DEF JobsSafe, JobOver, IsReady, At, Mounting, PodOn
<1> QED
    BY <1>9, <1>10, <1>11, <1>12, <1>13, <1>14, <1>15, <1>16 DEF IInv

\* The pass plans the clone.
LEMMA PlanKeeps ==
    ASSUME IInv, Plan PROVE IInv'
<1>1. TypeOK /\ OneChild /\ Untouched /\ PassFits /\ CloneSafe /\ CheckoutSafe /\ UsersSafe /\ JobsSafe
    BY DEF IInv
<1>2. /\ pass \in PassSet /\ volume \in VolumeSet /\ status \in StatusSet
      /\ pod \in [Users -> PodSet] /\ mounting \in [Users -> MountingSet]
    BY <1>1, TypesAre DEF Types
<1>3. At("plan") /\ UNCHANGED <<repo, source, volume, checkout, job, jobPods, seenJob, closed,
                                holder, pod, mounting, worked, spec, faults, lost, status, usedBy>>
    BY <1>1, <1>2 DEF Plan, objects, users, control
<1>4. reserved' \in BOOLEAN
    BY <1>1, <1>2, <1>3 DEF Plan, TypeOK
<1>5. pass' \in PassSet /\ pass'.bound = pass.bound /\ pass'.ready = pass.ready
    BY <1>1, <1>2, <1>3, <1>4, PlanIs DEF PassGoes
<1>6. \/ /\ reserved' = reserved /\ pass'.pc = "create" /\ pass'.reason = pass.reason
         /\ source.capacity > 0 /\ pass'.size >= Larger(source.request, source.capacity)
         /\ pass'.size >= spec.size /\ (spec.modes # {} => pass'.modes = spec.modes)
      \/ /\ pass'.pc = "status" /\ pass'.reason \in Waits \ {"Provisioning"}
         /\ pass'.reason # "WorktreeReady"
    BY <1>1, <1>2, <1>3, <1>4, <1>5, PlanIs DEF PassGoes, Waits
<1>7. IsReady = FALSE /\ volume.phase # "pending" /\ volume.id = 0
    BY <1>1, <1>2, <1>3, <1>4, <1>5, <1>6 DEF PassFits, At, OneChild, IsReady
<1>8. Types'
    BY <1>1, <1>3, <1>4, <1>5, <1>6, <1>7, <1>2, TypesAre DEF Types
<1>9. TypeOK'
    BY <1>8, TypesAfter
<1>10. OneChild'
    BY <1>1, <1>3, <1>4, <1>5, <1>6, <1>7 DEF OneChild, ClaimMatches
<1>11. Untouched'
    BY <1>1, <1>3, <1>4, <1>5, <1>6, <1>7 DEF Untouched, IsReady, Mounting, PodOn
<1>12. PassFits'
    BY <1>1, <1>3, <1>4, <1>5, <1>6, <1>7 DEF PassFits, At, IsReady
<1>13. CloneSafe'
    BY <1>1, <1>3, <1>4, <1>5, <1>6, <1>7 DEF CloneSafe, At
<1>14. CheckoutSafe'
    BY <1>1, <1>3, <1>4, <1>5, <1>6, <1>7 DEF CheckoutSafe, IsReady
<1>15. UsersSafe'
    BY <1>1, <1>3, <1>4, <1>5, <1>6, <1>7 DEF UsersSafe, PodOn
<1>16. JobsSafe'
    BY <1>1, <1>3, <1>4, <1>5, <1>6, <1>7 DEF JobsSafe, JobOver, IsReady, At, Mounting, PodOn
<1> QED
    BY <1>9, <1>10, <1>11, <1>12, <1>13, <1>14, <1>15, <1>16 DEF IInv

\* The pass creates the child.
LEMMA CreateClaimKeeps ==
    ASSUME IInv, CreateClaim PROVE IInv'
<1>1. TypeOK /\ OneChild /\ Untouched /\ PassFits /\ CloneSafe /\ CheckoutSafe /\ UsersSafe /\ JobsSafe
    BY DEF IInv
<1>2. /\ pass \in PassSet /\ volume \in VolumeSet /\ status \in StatusSet
      /\ pod \in [Users -> PodSet] /\ mounting \in [Users -> MountingSet]
    BY <1>1, TypesAre DEF Types
<1>3. At("create") /\ UNCHANGED <<repo, source, job, jobPods, seenJob, closed, holder, pod,
                                  mounting, worked, spec, faults, lost, status, reserved, usedBy>>
    BY <1>1, <1>2 DEF CreateClaim, objects, users, control
<1>4. PassGoes("claim", pass.reason)
    BY <1>1, <1>2, <1>3, GoToIs DEF CreateClaim, Steps
<1>5. /\ volume' \in VolumeSet /\ volume'.phase = "pending" /\ volume'.id = 1
      /\ volume'.size = pass.size /\ volume'.modes = pass.modes /\ volume.id = 0 /\ ~closed
      /\ ~status.recorded /\ ~IsReady /\ pass.bound = FALSE
    BY <1>1, <1>2, <1>3, <1>4, CreateIs
<1>6. checkout' = "cloned"
    BY <1>1, <1>2, <1>3, <1>4, <1>5 DEF CreateClaim
<1>7. pass.ready = FALSE \/ pass.ready = TRUE
    BY <1>1, <1>2, <1>3, <1>4, <1>5, <1>6 DEF PassSet
<1>8. Types'
    BY <1>1, <1>3, <1>4, <1>5, <1>6, <1>7, <1>2, TypesAre DEF Types, PassGoes, Untouched,
       CloneSafe, At, Mounting, PodOn, IsReady
<1>9. TypeOK'
    BY <1>8, TypesAfter
<1>10. OneChild'
    BY <1>1, <1>3, <1>4, <1>5, <1>6, <1>7 DEF PassGoes, OneChild, ClaimMatches, Untouched,
       CloneSafe, At, Mounting, PodOn, IsReady
<1>11. Untouched'
    BY <1>1, <1>3, <1>4, <1>5, <1>6, <1>7 DEF PassGoes, Untouched, IsReady, Mounting, PodOn,
       Untouched, CloneSafe, At, Mounting, PodOn, IsReady
<1>12. PassFits'
    BY <1>1, <1>3, <1>4, <1>5, <1>6, <1>7 DEF PassGoes, PassFits, At, IsReady, Untouched
<1>13. CloneSafe'
    BY <1>1, <1>3, <1>4, <1>5, <1>6, <1>7 DEF PassGoes, CloneSafe, At, Untouched, CloneSafe, At,
       Mounting, PodOn, IsReady
<1>14. CheckoutSafe'
    BY <1>1, <1>3, <1>4, <1>5, <1>6, <1>7 DEF PassGoes, CheckoutSafe, IsReady, Untouched,
       CloneSafe, At, Mounting, PodOn, IsReady
<1>15. UsersSafe'
    BY <1>1, <1>3, <1>4, <1>5, <1>6, <1>7 DEF PassGoes, UsersSafe, PodOn, Untouched, CloneSafe,
       At, Mounting, PodOn, IsReady
<1>16. JobsSafe'
    BY <1>1, <1>3, <1>4, <1>5, <1>6, <1>7 DEF PassGoes, JobsSafe, JobOver, IsReady, At, Mounting,
       PodOn, Untouched, CloneSafe, At, Mounting, PodOn, IsReady
<1> QED
    BY <1>9, <1>10, <1>11, <1>12, <1>13, <1>14, <1>15, <1>16 DEF IInv

\* The pass checks the child against the spec.
LEMMA CheckClaimKeeps ==
    ASSUME IInv, CheckClaim PROVE IInv'
<1>1. TypeOK /\ OneChild /\ Untouched /\ PassFits /\ CloneSafe /\ CheckoutSafe /\ UsersSafe /\ JobsSafe
    BY DEF IInv
<1>2. /\ pass \in PassSet /\ volume \in VolumeSet /\ status \in StatusSet
      /\ pod \in [Users -> PodSet] /\ mounting \in [Users -> MountingSet]
    BY <1>1, TypesAre DEF Types
<1>3. At("claim") /\ UNCHANGED <<repo, source, volume, checkout, job, jobPods, seenJob, closed,
                                 holder, pod, mounting, worked, spec, faults, lost, status, usedBy>>
    BY <1>1, <1>2 DEF CheckClaim, objects, users, control
<1>4. volume.id = 1 /\ ~closed /\ volume.phase # "none"
    BY <1>1, <1>2, <1>3 DEF PassFits, OneChild, At
<1>5. \/ pass.bound /\ reserved' = FALSE /\ PassGoes("volume", pass.reason)
      \/ ~pass.bound /\ reserved' = reserved /\ PassGoes("status", "Provisioning")
    BY <1>1, <1>2, <1>3, <1>4, CheckIs
<1>6. /\ pass' \in PassSet /\ pass'.bound = pass.bound /\ pass'.ready = pass.ready
      /\ \/ /\ pass.bound /\ reserved' = FALSE
            /\ pass'.pc = "volume" /\ pass'.reason = pass.reason
         \/ /\ ~pass.bound /\ reserved' = reserved
            /\ pass'.pc = "status" /\ pass'.reason = "Provisioning"
    BY <1>1, <1>2, <1>3, <1>4, <1>5 DEF PassGoes
<1>7. Types'
    BY <1>1, <1>3, <1>4, <1>5, <1>6, <1>2, TypesAre DEF Types
<1>8. TypeOK'
    BY <1>7, TypesAfter
<1>9. OneChild'
    BY <1>1, <1>3, <1>4, <1>5, <1>6 DEF OneChild, ClaimMatches
<1>10. Untouched'
    BY <1>1, <1>3, <1>4, <1>5, <1>6 DEF Untouched, IsReady, Mounting, PodOn
<1>11. PassFits'
    BY <1>1, <1>3, <1>4, <1>5, <1>6 DEF PassFits, At, IsReady
<1>12. CloneSafe'
    BY <1>1, <1>3, <1>4, <1>5, <1>6 DEF CloneSafe, At, PassFits
<1>13. CheckoutSafe'
    BY <1>1, <1>3, <1>4, <1>5, <1>6 DEF CheckoutSafe, IsReady
<1>14. UsersSafe'
    BY <1>1, <1>3, <1>4, <1>5, <1>6 DEF UsersSafe, PodOn
<1>15. JobsSafe'
    BY <1>1, <1>3, <1>4, <1>5, <1>6 DEF JobsSafe, JobOver, IsReady, At, Mounting, PodOn
<1> QED
    BY <1>8, <1>9, <1>10, <1>11, <1>12, <1>13, <1>14, <1>15 DEF IInv

\* The pass reports the volume Ready.
LEMMA SetVolumeReadyKeeps ==
    ASSUME IInv, SetVolumeReady PROVE IInv'
<1>1. TypeOK /\ OneChild /\ Untouched /\ PassFits /\ CloneSafe /\ CheckoutSafe /\ UsersSafe /\ JobsSafe
    BY DEF IInv
<1>2. /\ pass \in PassSet /\ volume \in VolumeSet /\ status \in StatusSet
      /\ pod \in [Users -> PodSet] /\ mounting \in [Users -> MountingSet]
    BY <1>1, TypesAre DEF Types
<1>3. At("volume") /\ UNCHANGED <<repo, source, volume, checkout, job, jobPods, seenJob, closed,
                                  holder, pod, mounting, worked, spec, faults, lost, reserved,
                                  usedBy>>
    BY <1>1, <1>2 DEF SetVolumeReady, objects, users, control
<1>4. /\ status' \in StatusSet /\ status'.reason = status.reason
    BY <1>1, <1>2, <1>3 DEF SetVolumeReady, StatusSet
<1>5. /\ pass' \in PassSet /\ pass'.bound = pass.bound /\ pass'.ready = pass.ready
      /\ pass'.reason = pass.reason /\ pass'.pc \in {"usage", "observe", "job"}
      /\ (pass'.pc = "usage" <=> pass.ready)
      /\ pass'.pc = "job" => ~(spec.deferred /\ seenJob = "absent")
    BY <1>1, <1>2, <1>3, <1>4, VolumeReadyIs
<1>6. volume.id = 1 /\ ~closed
    BY <1>1, <1>2, <1>3, <1>4, <1>5 DEF PassFits, OneChild, At
<1>7. Types'
    BY <1>1, <1>3, <1>4, <1>5, <1>6, <1>2, TypesAre DEF Types
<1>8. TypeOK'
    BY <1>7, TypesAfter
<1>9. OneChild'
    BY <1>1, <1>3, <1>4, <1>5, <1>6 DEF OneChild, ClaimMatches
<1>10. Untouched'
    BY <1>1, <1>3, <1>4, <1>5, <1>6 DEF Untouched, IsReady, Mounting, PodOn
<1>11. PassFits'
    BY <1>1, <1>3, <1>4, <1>5, <1>6 DEF PassFits, At, IsReady
<1>12. CloneSafe'
    BY <1>1, <1>3, <1>4, <1>5, <1>6 DEF CloneSafe, At
<1>13. CheckoutSafe'
    BY <1>1, <1>3, <1>4, <1>5, <1>6 DEF CheckoutSafe, IsReady
<1>14. UsersSafe'
    BY <1>1, <1>3, <1>4, <1>5, <1>6 DEF UsersSafe, PodOn
<1>15. JobsSafe'
    BY <1>1, <1>3, <1>4, <1>5, <1>6 DEF JobsSafe, JobOver, IsReady, At, Mounting, PodOn
<1> QED
    BY <1>8, <1>9, <1>10, <1>11, <1>12, <1>13, <1>14, <1>15 DEF IInv

\* The pass reads the Pods that mount the child.
LEMMA ObservePodsKeeps ==
    ASSUME IInv, ObservePods PROVE IInv'
<1>1. TypeOK /\ OneChild /\ Untouched /\ PassFits /\ CloneSafe /\ CheckoutSafe /\ UsersSafe /\ JobsSafe
    BY DEF IInv
<1>2. /\ pass \in PassSet /\ volume \in VolumeSet /\ status \in StatusSet
      /\ pod \in [Users -> PodSet] /\ mounting \in [Users -> MountingSet]
    BY <1>1, TypesAre DEF Types
<1>3. At("observe") /\ UNCHANGED <<repo, source, volume, checkout, job, jobPods, seenJob, closed,
                                   holder, pod, mounting, worked, spec, faults, lost, status,
                                   reserved, usedBy>>
    BY <1>1, <1>2 DEF ObservePods, objects, users, control
<1>4. \/ PassGoes("status", "WorktreeReady") /\ Initializers({"running"}) # {}
      \/ \E reason \in {"BootstrapFailed", "Initializing", "WaitingForWorkspace"} : PassGoes("status", reason)
    BY <1>1, <1>2, <1>3, ObserveIs
<1>5. \/ \E u \in Users : pod[u].init /\ pod[u].phase = "running"
      \/ pass'.reason # "WorktreeReady"
    BY <1>1, <1>2, <1>3, <1>4 DEF PassGoes, Initializers
<1>6. /\ pass' \in PassSet /\ pass'.bound = pass.bound /\ pass'.ready = pass.ready
      /\ pass'.pc = "status"
    BY <1>1, <1>2, <1>3, <1>4, <1>5 DEF PassGoes
<1>7. pass.bound = TRUE /\ IsReady = FALSE /\ volume.id = 1 /\ ~closed
    BY <1>1, <1>2, <1>3, <1>4, <1>5, <1>6 DEF PassFits, At, PassSet, OneChild, IsReady
<1>8. Types'
    BY <1>1, <1>3, <1>4, <1>5, <1>6, <1>7, <1>2, TypesAre DEF Types
<1>9. TypeOK'
    BY <1>8, TypesAfter
<1>10. OneChild'
    BY <1>1, <1>3, <1>4, <1>5, <1>6, <1>7 DEF OneChild, ClaimMatches
<1>11. Untouched'
    BY <1>1, <1>3, <1>4, <1>5, <1>6, <1>7 DEF Untouched, IsReady, Mounting, PodOn
<1>12. PassFits'
    BY <1>1, <1>3, <1>4, <1>5, <1>6, <1>7 DEF PassFits, At, IsReady
<1>13. CloneSafe'
    BY <1>1, <1>3, <1>4, <1>5, <1>6, <1>7 DEF CloneSafe, At
<1>14. CheckoutSafe'
    BY <1>1, <1>3, <1>4, <1>5, <1>6, <1>7 DEF CheckoutSafe, IsReady
<1>15. UsersSafe'
    BY <1>1, <1>3, <1>4, <1>5, <1>6, <1>7 DEF UsersSafe, PodOn
<1>16. JobsSafe'
    BY <1>1, <1>3, <1>4, <1>5, <1>6, <1>7 DEF JobsSafe, JobOver, IsReady, At, Mounting, PodOn,
       PassFits
<1> QED
    BY <1>9, <1>10, <1>11, <1>12, <1>13, <1>14, <1>15, <1>16 DEF IInv

\* The pass creates the bootstrap Job.
LEMMA CreateJobKeeps ==
    ASSUME IInv, CreateJob PROVE IInv'
<1>1. TypeOK /\ OneChild /\ Untouched /\ PassFits /\ CloneSafe /\ CheckoutSafe /\ UsersSafe /\ JobsSafe
    BY DEF IInv
<1>2. /\ pass \in PassSet /\ volume \in VolumeSet /\ status \in StatusSet
      /\ pod \in [Users -> PodSet] /\ mounting \in [Users -> MountingSet]
    BY <1>1, TypesAre DEF Types
<1>3. At("job") /\ UNCHANGED <<repo, source, volume, checkout, jobPods, seenJob, closed, holder,
                               pod, mounting, worked, spec, faults, lost, status, reserved, usedBy>>
    BY <1>1, <1>2 DEF CreateJob, objects, users, control
<1>4. \/ /\ job = "absent" /\ job' = "created" /\ PassGoes("status", "Initializing")
      \/ job' = job /\ pass' = NoPass
    BY <1>1, <1>2, <1>3, ReportIs DEF CreateJob, Reasons, Waits
<1>5. seenJob = "absent" /\ pass' \in PassSet
    BY <1>1, <1>2, <1>3, <1>4, NoPassIs DEF PassGoes, CreateJob
<1>6. \/ /\ job = "absent" /\ job' = "created"
         /\ pass'.pc = "status" /\ pass'.reason = "Initializing" /\ pass'.bound = pass.bound
      \/ job' = job /\ pass'.pc = "idle" /\ pass'.reason = "none" /\ pass'.bound = FALSE
    BY <1>1, <1>2, <1>3, <1>4, <1>5, NoPassIs DEF PassGoes
<1>7. pass.bound = TRUE /\ IsReady = FALSE /\ volume.id = 1 /\ ~closed
    BY <1>1, <1>2, <1>3, <1>4, <1>5, <1>6 DEF PassFits, At, PassSet, OneChild, IsReady
<1>8. job' \in JobStates
    BY <1>1, <1>2, <1>3, <1>4, <1>5, <1>6, <1>7 DEF TypeOK, JobStates
<1>9. Types'
    BY <1>1, <1>3, <1>4, <1>5, <1>6, <1>7, <1>8, <1>2, TypesAre DEF Types
<1>10. TypeOK'
    BY <1>9, TypesAfter
<1>11. OneChild'
    BY <1>1, <1>3, <1>4, <1>5, <1>6, <1>7, <1>8 DEF OneChild, ClaimMatches
<1>12. Untouched'
    BY <1>1, <1>3, <1>4, <1>5, <1>6, <1>7, <1>8 DEF Untouched, IsReady, Mounting, PodOn
<1>13. PassFits'
    BY <1>1, <1>3, <1>4, <1>5, <1>6, <1>7, <1>8 DEF PassFits, At, IsReady, Waits
<1>14. CloneSafe'
    BY <1>1, <1>3, <1>4, <1>5, <1>6, <1>7, <1>8 DEF CloneSafe, At
<1>15. CheckoutSafe'
    BY <1>1, <1>3, <1>4, <1>5, <1>6, <1>7, <1>8 DEF CheckoutSafe, IsReady
<1>16. UsersSafe'
    BY <1>1, <1>3, <1>4, <1>5, <1>6, <1>7, <1>8 DEF UsersSafe, PodOn
<1>17. JobsSafe'
    BY <1>1, <1>3, <1>4, <1>5, <1>6, <1>7, <1>8 DEF JobsSafe, JobOver, IsReady, At, Mounting,
       PodOn, PassFits
<1> QED
    BY <1>10, <1>11, <1>12, <1>13, <1>14, <1>15, <1>16, <1>17 DEF IInv

\* The pass reads the result of the bootstrap Job.
LEMMA ReadJobKeeps ==
    ASSUME IInv, ReadJob PROVE IInv'
<1>1. TypeOK /\ OneChild /\ Untouched /\ PassFits /\ CloneSafe /\ CheckoutSafe /\ UsersSafe /\ JobsSafe
    BY DEF IInv
<1>2. /\ pass \in PassSet /\ volume \in VolumeSet /\ status \in StatusSet
      /\ pod \in [Users -> PodSet] /\ mounting \in [Users -> MountingSet]
    BY <1>1, TypesAre DEF Types
<1>3. At("job") /\ UNCHANGED <<repo, source, volume, checkout, job, jobPods, seenJob, closed,
                               holder, pod, mounting, worked, spec, faults, lost, status, reserved,
                               usedBy>>
    BY <1>1, <1>2 DEF ReadJob, objects, users, control
<1>4. \/ PassGoes("status", "WorktreeReady") /\ seenJob = "succeeded"
      \/ \E reason \in {"BootstrapFailed", "Initializing"} : PassGoes("status", reason)
    BY <1>1, <1>2, <1>3, ReadJobIs
<1>5. /\ pass' \in PassSet /\ pass'.bound = pass.bound /\ pass'.ready = pass.ready
      /\ pass'.pc = "status" /\ (pass'.reason = "WorktreeReady" => seenJob = "succeeded")
    BY <1>1, <1>2, <1>3, <1>4 DEF PassGoes
<1>6. pass.bound = TRUE /\ IsReady = FALSE /\ volume.id = 1 /\ ~closed
    BY <1>1, <1>2, <1>3, <1>4, <1>5 DEF PassFits, At, PassSet, OneChild, IsReady
<1>7. Types'
    BY <1>1, <1>3, <1>4, <1>5, <1>6, <1>2, TypesAre DEF Types
<1>8. TypeOK'
    BY <1>7, TypesAfter
<1>9. OneChild'
    BY <1>1, <1>3, <1>4, <1>5, <1>6 DEF OneChild, ClaimMatches
<1>10. Untouched'
    BY <1>1, <1>3, <1>4, <1>5, <1>6 DEF Untouched, IsReady, Mounting, PodOn
<1>11. PassFits'
    BY <1>1, <1>3, <1>4, <1>5, <1>6 DEF PassFits, At, IsReady
<1>12. CloneSafe'
    BY <1>1, <1>3, <1>4, <1>5, <1>6 DEF CloneSafe, At
<1>13. CheckoutSafe'
    BY <1>1, <1>3, <1>4, <1>5, <1>6 DEF CheckoutSafe, IsReady
<1>14. UsersSafe'
    BY <1>1, <1>3, <1>4, <1>5, <1>6 DEF UsersSafe, PodOn
<1>15. JobsSafe'
    BY <1>1, <1>3, <1>4, <1>5, <1>6 DEF JobsSafe, JobOver, IsReady, At, Mounting, PodOn
<1> QED
    BY <1>8, <1>9, <1>10, <1>11, <1>12, <1>13, <1>14, <1>15 DEF IInv

\* The pass writes the status.
LEMMA SetStatusKeeps ==
    ASSUME IInv, SetStatus PROVE IInv'
<1>1. TypeOK /\ OneChild /\ Untouched /\ PassFits /\ CloneSafe /\ CheckoutSafe /\ UsersSafe /\ JobsSafe
    BY DEF IInv
<1>2. /\ pass \in PassSet /\ volume \in VolumeSet /\ status \in StatusSet
      /\ pod \in [Users -> PodSet] /\ mounting \in [Users -> MountingSet]
    BY <1>1, TypesAre DEF Types
<1>3. At("status") /\ UNCHANGED <<repo, source, volume, checkout, job, jobPods, seenJob, closed,
                                  holder, pod, mounting, worked, spec, faults, lost, reserved,
                                  usedBy>>
    BY <1>1, <1>2 DEF SetStatus, objects, users, control
<1>4. PassGoes("usage", pass.reason)
    BY <1>1, <1>2, <1>3, GoToIs DEF SetStatus, Steps
<1>5. /\ status' \in StatusSet /\ status'.reason = pass.reason
      /\ status'.recorded => status.recorded \/ pass.reason \notin Waits \ {"Provisioning"}
    BY <1>1, <1>2, <1>3, <1>4, SetStatusIs
<1>6. ~closed /\ IsReady = FALSE
    BY <1>1, <1>2, <1>3, <1>4, <1>5 DEF PassFits, At, IsReady
<1>7. Types'
    BY <1>1, <1>3, <1>4, <1>5, <1>6, <1>2, TypesAre DEF Types, PassGoes
<1>8. TypeOK'
    BY <1>7, TypesAfter
<1>9. OneChild'
    BY <1>1, <1>3, <1>4, <1>5, <1>6 DEF PassGoes, OneChild, ClaimMatches, PassFits, At
<1>10. Untouched'
    BY <1>1, <1>3, <1>4, <1>5, <1>6 DEF PassGoes, Untouched, IsReady, Mounting, PodOn
<1>11. PassFits'
    BY <1>1, <1>3, <1>4, <1>5, <1>6 DEF PassGoes, PassFits, At, IsReady
<1>12. CloneSafe'
    BY <1>1, <1>3, <1>4, <1>5, <1>6 DEF PassGoes, CloneSafe, At
<1>13. CheckoutSafe'
    BY <1>1, <1>3, <1>4, <1>5, <1>6 DEF PassGoes, CheckoutSafe, IsReady, PassFits
<1>14. UsersSafe'
    BY <1>1, <1>3, <1>4, <1>5, <1>6 DEF PassGoes, UsersSafe, PodOn
<1>15. JobsSafe'
    BY <1>1, <1>3, <1>4, <1>5, <1>6 DEF PassGoes, JobsSafe, JobOver, IsReady, At, Mounting, PodOn
<1> QED
    BY <1>8, <1>9, <1>10, <1>11, <1>12, <1>13, <1>14, <1>15 DEF IInv

\* The pass publishes who uses the Worktree.
LEMMA PublishUsageKeeps ==
    ASSUME IInv, PublishUsage PROVE IInv'
<1>1. TypeOK /\ OneChild /\ Untouched /\ PassFits /\ CloneSafe /\ CheckoutSafe /\ UsersSafe /\ JobsSafe
    BY DEF IInv
<1>2. /\ pass \in PassSet /\ volume \in VolumeSet /\ status \in StatusSet
      /\ pod \in [Users -> PodSet] /\ mounting \in [Users -> MountingSet]
    BY <1>1, TypesAre DEF Types
<1>3. At("usage") /\ UNCHANGED <<repo, source, volume, checkout, job, jobPods, seenJob, closed,
                                 holder, pod, mounting, worked, spec, faults, lost, status,
                                 reserved>>
    BY <1>1, <1>2 DEF PublishUsage, objects, users, control
<1>4. usedBy' = holder /\ pass' = NoPass
    BY <1>1, <1>2, <1>3 DEF PublishUsage
<1>5. Types'
    BY <1>1, <1>3, <1>4, <1>2, TypesAre, NoPassIs DEF Types
<1>6. TypeOK'
    BY <1>5, TypesAfter
<1>7. OneChild'
    BY <1>1, <1>3, <1>4, NoPassIs DEF OneChild, ClaimMatches
<1>8. Untouched'
    BY <1>1, <1>3, <1>4, NoPassIs DEF Untouched, IsReady, Mounting, PodOn
<1>9. PassFits'
    BY <1>1, <1>3, <1>4, NoPassIs DEF PassFits, At, IsReady
<1>10. CloneSafe'
    BY <1>1, <1>3, <1>4, NoPassIs DEF CloneSafe, At
<1>11. CheckoutSafe'
    BY <1>1, <1>3, <1>4, NoPassIs DEF CheckoutSafe, IsReady
<1>12. UsersSafe'
    BY <1>1, <1>3, <1>4, NoPassIs DEF UsersSafe, PodOn
<1>13. JobsSafe'
    BY <1>1, <1>3, <1>4, NoPassIs DEF JobsSafe, JobOver, IsReady, At, Mounting, PodOn
<1> QED
    BY <1>6, <1>7, <1>8, <1>9, <1>10, <1>11, <1>12, <1>13 DEF IInv

\* The pass fails, and the next one starts from the beginning.
LEMMA PassFailsKeeps ==
    ASSUME IInv, PassFails PROVE IInv'
<1>1. TypeOK /\ OneChild /\ Untouched /\ PassFits /\ CloneSafe /\ CheckoutSafe /\ UsersSafe /\ JobsSafe
    BY DEF IInv
<1>2. /\ pass \in PassSet /\ volume \in VolumeSet /\ status \in StatusSet
      /\ pod \in [Users -> PodSet] /\ mounting \in [Users -> MountingSet]
    BY <1>1, TypesAre DEF Types
<1>3. UNCHANGED <<repo, source, volume, checkout, job, jobPods, seenJob, closed, holder, pod,
                  mounting, worked, spec, lost, status, reserved, usedBy>>
    BY <1>1, <1>2 DEF PassFails, objects, users, control
<1>4. pass' = NoPass /\ faults' \in 0..MaxFaults
    BY <1>1, <1>2, <1>3, BootstrapAssumption DEF PassFails, Fault, TypeOK
<1>5. Types'
    BY <1>1, <1>3, <1>4, <1>2, TypesAre, NoPassIs DEF Types
<1>6. TypeOK'
    BY <1>5, TypesAfter
<1>7. OneChild'
    BY <1>1, <1>3, <1>4, NoPassIs DEF OneChild, ClaimMatches
<1>8. Untouched'
    BY <1>1, <1>3, <1>4, NoPassIs DEF Untouched, IsReady, Mounting, PodOn
<1>9. PassFits'
    BY <1>1, <1>3, <1>4, NoPassIs DEF PassFits, At, IsReady
<1>10. CloneSafe'
    BY <1>1, <1>3, <1>4, NoPassIs DEF CloneSafe, At
<1>11. CheckoutSafe'
    BY <1>1, <1>3, <1>4, NoPassIs DEF CheckoutSafe, IsReady
<1>12. UsersSafe'
    BY <1>1, <1>3, <1>4, NoPassIs DEF UsersSafe, PodOn
<1>13. JobsSafe'
    BY <1>1, <1>3, <1>4, NoPassIs DEF JobsSafe, JobOver, IsReady, At, Mounting, PodOn
<1> QED
    BY <1>6, <1>7, <1>8, <1>9, <1>10, <1>11, <1>12, <1>13 DEF IInv

\* The pass releases a claim that nobody uses any more.
LEMMA DrainKeeps ==
    ASSUME IInv, Drain PROVE IInv'
<1>1. TypeOK /\ OneChild /\ Untouched /\ PassFits /\ CloneSafe /\ CheckoutSafe /\ UsersSafe /\ JobsSafe
    BY DEF IInv
<1>2. /\ pass \in PassSet /\ volume \in VolumeSet /\ status \in StatusSet
      /\ pod \in [Users -> PodSet] /\ mounting \in [Users -> MountingSet]
    BY <1>1, TypesAre DEF Types
<1>3. At("drain") /\ UNCHANGED <<repo, source, checkout, job, jobPods, seenJob, closed, holder, pod,
                                 mounting, worked, spec, faults, lost, usedBy>>
    BY <1>1, <1>2 DEF Drain, objects, users, control
<1>4. PassGoes("usage", pass.reason)
    BY <1>1, <1>2, <1>3, GoToIs DEF Drain, Steps
<1>5. closed = TRUE /\ volume.id = 1
    BY <1>1, <1>2, <1>3, <1>4 DEF PassFits, At, OneChild, TypeOK
<1>6. \/ volume' = volume
      \/ volume.phase = "deleting" /\ VolumeGoes("released")
    BY <1>1, <1>2, <1>3, <1>4, <1>5, VolumeGoesTo DEF Drain
<1>7. volume' \in VolumeSet /\ volume'.id = 1 /\ volume'.size = volume.size /\ volume'.modes = volume.modes
    BY <1>1, <1>2, <1>3, <1>4, <1>5, <1>6 DEF VolumeGoes
<1>8. volume'.phase = volume.phase \/ (volume.phase = "deleting" /\ volume'.phase = "released")
    BY <1>1, <1>2, <1>3, <1>4, <1>5, <1>6, <1>7 DEF VolumeGoes
<1>9. reserved' \in BOOLEAN /\ (reserved' = reserved \/ volume.phase = "none")
    BY <1>1, <1>2, <1>3, <1>4, <1>5, <1>6, <1>7, <1>8 DEF Drain, TypeOK
<1>10. status' \in StatusSet /\ status'.reason \in {"VolumeDeleted", "VolumeDeleting"} /\ status'.recorded = status.recorded
    BY <1>1, <1>2, <1>3, <1>4, <1>5, <1>6, <1>7, <1>8, <1>9, DrainIs
<1>11. Types'
    BY <1>1, <1>3, <1>4, <1>5, <1>6, <1>7, <1>8, <1>9, <1>10, <1>2, TypesAre DEF Types, PassGoes
<1>12. TypeOK'
    BY <1>11, TypesAfter
<1>13. OneChild'
    BY <1>1, <1>3, <1>4, <1>5, <1>6, <1>7, <1>8, <1>9, <1>10 DEF PassGoes, OneChild, ClaimMatches
<1>14. Untouched'
    BY <1>1, <1>3, <1>4, <1>5, <1>6, <1>7, <1>8, <1>9, <1>10 DEF PassGoes, Untouched, IsReady,
       Mounting, PodOn
<1>15. PassFits'
    BY <1>1, <1>3, <1>4, <1>5, <1>6, <1>7, <1>8, <1>9, <1>10 DEF PassGoes, PassFits, At, IsReady
<1>16. CloneSafe'
    BY <1>1, <1>3, <1>4, <1>5, <1>6, <1>7, <1>8, <1>9, <1>10 DEF PassGoes, CloneSafe, At
<1>17. CheckoutSafe'
    BY <1>1, <1>3, <1>4, <1>5, <1>6, <1>7, <1>8, <1>9, <1>10 DEF PassGoes, CheckoutSafe, IsReady
<1>18. UsersSafe'
    BY <1>1, <1>3, <1>4, <1>5, <1>6, <1>7, <1>8, <1>9, <1>10 DEF PassGoes, UsersSafe, PodOn
<1>19. JobsSafe'
    BY <1>1, <1>3, <1>4, <1>5, <1>6, <1>7, <1>8, <1>9, <1>10 DEF PassGoes, JobsSafe, JobOver,
       IsReady, At, Mounting, PodOn
<1> QED
    BY <1>12, <1>13, <1>14, <1>15, <1>16, <1>17, <1>18, <1>19 DEF IInv

\* A Workspace resolves its mount.
LEMMA ResolveMountKeeps ==
    ASSUME IInv, NEW u \in Users, ResolveMount(u) PROVE IInv'
<1>1. TypeOK /\ OneChild /\ Untouched /\ PassFits /\ CloneSafe /\ CheckoutSafe /\ UsersSafe /\ JobsSafe
    BY DEF IInv
<1>2. /\ pass \in PassSet /\ volume \in VolumeSet /\ status \in StatusSet
      /\ pod \in [Users -> PodSet] /\ mounting \in [Users -> MountingSet]
    BY <1>1, TypesAre DEF Types
<1>3. UNCHANGED <<repo, source, volume, checkout, job, jobPods, seenJob, closed, holder, pod,
                  worked, spec, faults, lost, status, reserved, usedBy, pass>>
    BY <1>1, <1>2 DEF ResolveMount, objects, users, control
<1>4. mounting[u].pc = "idle" /\ ~PodOn(u) /\ holder # u /\ status.recorded /\ ~closed
      /\ (spec.deferred \/ IsReady)
    BY <1>1, <1>2, <1>3 DEF ResolveMount, Mountable
<1>5. /\ mounting' \in [Users -> MountingSet]
      /\ mounting'[u].pc = "admit" /\ (mounting'[u].init => spec.deferred)
      /\ \A v \in Users : v # u => mounting'[v] = mounting[v]
    BY <1>1, <1>2, <1>3, <1>4, ResolveIs
<1>6. Types'
    BY <1>1, <1>3, <1>4, <1>5, <1>2, TypesAre DEF Types
<1>7. TypeOK'
    BY <1>6, TypesAfter
<1>8. OneChild'
    BY <1>1, <1>3, <1>4, <1>5 DEF OneChild, ClaimMatches
<1>9. Untouched'
    BY <1>1, <1>3, <1>4, <1>5 DEF Untouched, IsReady, Mounting, PodOn, OneChild
<1>10. PassFits'
    BY <1>1, <1>3, <1>4, <1>5 DEF PassFits, At, IsReady
<1>11. CloneSafe'
    BY <1>1, <1>3, <1>4, <1>5 DEF CloneSafe, At
<1>12. CheckoutSafe'
    BY <1>1, <1>3, <1>4, <1>5 DEF CheckoutSafe, IsReady
<1>13. UsersSafe'
    BY <1>1, <1>3, <1>4, <1>5 DEF UsersSafe, PodOn
<1>14. JobsSafe'
    BY <1>1, <1>3, <1>4, <1>5 DEF JobsSafe, JobOver, IsReady, At, Mounting, PodOn, OneChild
<1> QED
    BY <1>7, <1>8, <1>9, <1>10, <1>11, <1>12, <1>13, <1>14 DEF IInv

\* A Workspace is admitted or turned away.
LEMMA AdmitMountKeeps ==
    ASSUME IInv, NEW u \in Users, AdmitMount(u) PROVE IInv'
<1>1. TypeOK /\ OneChild /\ Untouched /\ PassFits /\ CloneSafe /\ CheckoutSafe /\ UsersSafe /\ JobsSafe
    BY DEF IInv
<1>2. /\ pass \in PassSet /\ volume \in VolumeSet /\ status \in StatusSet
      /\ pod \in [Users -> PodSet] /\ mounting \in [Users -> MountingSet]
    BY <1>1, TypesAre DEF Types
<1>3. UNCHANGED <<repo, source, volume, checkout, job, jobPods, seenJob, closed, pod, worked, spec,
                  faults, lost, status, reserved, usedBy, pass>>
    BY <1>1, <1>2 DEF AdmitMount, objects, users, control
<1>4. mounting[u].pc = "admit" /\ ~PodOn(u)
    BY <1>1, <1>2, <1>3 DEF AdmitMount, UsersSafe
<1>5. /\ mounting' \in [Users -> MountingSet]
      /\ \A v \in Users : v # u => mounting'[v] = mounting[v]
      /\ \/ mounting'[u].pc = "create" /\ mounting'[u].init = mounting[u].init /\ holder = Nobody /\ holder' = u
         \/ mounting'[u].pc = "idle" /\ mounting'[u].init = FALSE /\ holder' = holder
    BY <1>1, <1>2, <1>3, <1>4, AdmitIs
<1>6. holder' \in Users \cup {Nobody}
    BY <1>1, <1>2, <1>3, <1>4, <1>5 DEF TypeOK
<1>7. Types'
    BY <1>1, <1>3, <1>4, <1>5, <1>6, <1>2, TypesAre DEF Types
<1>8. TypeOK'
    BY <1>7, TypesAfter
<1>9. OneChild'
    BY <1>1, <1>3, <1>4, <1>5, <1>6 DEF OneChild, ClaimMatches
<1>10. Untouched'
    BY <1>1, <1>3, <1>4, <1>5, <1>6 DEF Untouched, IsReady, Mounting, PodOn
<1>11. PassFits'
    BY <1>1, <1>3, <1>4, <1>5, <1>6 DEF PassFits, At, IsReady
<1>12. CloneSafe'
    BY <1>1, <1>3, <1>4, <1>5, <1>6 DEF CloneSafe, At
<1>13. CheckoutSafe'
    BY <1>1, <1>3, <1>4, <1>5, <1>6 DEF CheckoutSafe, IsReady
<1>14. UsersSafe'
    BY <1>1, <1>3, <1>4, <1>5, <1>6, BootstrapAssumption DEF UsersSafe, PodOn
<1>15. JobsSafe'
    BY <1>1, <1>3, <1>4, <1>5, <1>6 DEF JobsSafe, JobOver, IsReady, At, Mounting, PodOn
<1> QED
    BY <1>8, <1>9, <1>10, <1>11, <1>12, <1>13, <1>14, <1>15 DEF IInv

\* A Workspace creates its Pod.
LEMMA CreatePodKeeps ==
    ASSUME IInv, NEW u \in Users, CreatePod(u) PROVE IInv'
<1>1. TypeOK /\ OneChild /\ Untouched /\ PassFits /\ CloneSafe /\ CheckoutSafe /\ UsersSafe /\ JobsSafe
    BY DEF IInv
<1>2. /\ pass \in PassSet /\ volume \in VolumeSet /\ status \in StatusSet
      /\ pod \in [Users -> PodSet] /\ mounting \in [Users -> MountingSet]
    BY <1>1, TypesAre DEF Types
<1>3. UNCHANGED <<repo, source, volume, checkout, job, jobPods, seenJob, closed, holder, spec,
                  faults, lost, status, reserved, usedBy, pass>>
    BY <1>1, <1>2 DEF CreatePod, objects, users, control
<1>4. mounting[u].pc = "create" /\ ~PodOn(u) /\ holder = u /\ (mounting[u].init => spec.deferred)
    BY <1>1, <1>2, <1>3 DEF CreatePod, UsersSafe
<1>5. /\ mounting' \in [Users -> MountingSet] /\ mounting'[u].pc = "idle" /\ mounting'[u].init = FALSE
      /\ \A v \in Users : v # u => mounting'[v] = mounting[v]
    BY <1>1, <1>2, <1>3, <1>4, MountingGoes, RestIs DEF CreatePod
<1>6. /\ pod' \in [Users -> PodSet] /\ (pod'[u].init => mounting[u].init)
      /\ pod'[u].phase \in {"init", "running"}
      /\ pod'[u].phase = "init" <=> pod'[u].init
      /\ \A v \in Users : v # u => pod'[v] = pod[v]
    BY <1>1, <1>2, <1>3, <1>4, <1>5, CreatePodIs
<1>7. worked' = worked \/ worked' = volume.id
    BY <1>1, <1>2, <1>3, <1>4, <1>5, <1>6 DEF CreatePod
<1>8. volume.id = 1 /\ worked' \in 0..2
    BY <1>1, <1>2, <1>3, <1>4, <1>5, <1>6, <1>7 DEF Untouched, Mounting, OneChild, TypeOK
<1>9. Types'
    BY <1>1, <1>3, <1>4, <1>5, <1>6, <1>7, <1>8, <1>2, TypesAre DEF Types
<1>10. TypeOK'
    BY <1>9, TypesAfter
<1>11. OneChild'
    BY <1>1, <1>3, <1>4, <1>5, <1>6, <1>7, <1>8 DEF OneChild, ClaimMatches
<1>12. Untouched'
    BY <1>1, <1>3, <1>4, <1>5, <1>6, <1>7, <1>8 DEF Untouched, IsReady, Mounting, PodOn
<1>13. PassFits'
    BY <1>1, <1>3, <1>4, <1>5, <1>6, <1>7, <1>8 DEF PassFits, At, IsReady
<1>14. CloneSafe'
    BY <1>1, <1>3, <1>4, <1>5, <1>6, <1>7, <1>8 DEF CloneSafe, At
<1>15. CheckoutSafe'
    BY <1>1, <1>3, <1>4, <1>5, <1>6, <1>7, <1>8 DEF CheckoutSafe, IsReady
<1>16. UsersSafe'
    BY <1>1, <1>3, <1>4, <1>5, <1>6, <1>7, <1>8 DEF UsersSafe, PodOn
<1>17. JobsSafe'
    BY <1>1, <1>3, <1>4, <1>5, <1>6, <1>7, <1>8 DEF JobsSafe, JobOver, IsReady, At, Mounting,
       PodOn, UsersSafe
<1> QED
    BY <1>10, <1>11, <1>12, <1>13, <1>14, <1>15, <1>16, <1>17 DEF IInv

\* An init container finishes the checkout.
LEMMA InitializedKeeps ==
    ASSUME IInv, NEW u \in Users, Initialized(u) PROVE IInv'
<1>1. TypeOK /\ OneChild /\ Untouched /\ PassFits /\ CloneSafe /\ CheckoutSafe /\ UsersSafe /\ JobsSafe
    BY DEF IInv
<1>2. /\ pass \in PassSet /\ volume \in VolumeSet /\ status \in StatusSet
      /\ pod \in [Users -> PodSet] /\ mounting \in [Users -> MountingSet]
    BY <1>1, TypesAre DEF Types
<1>3. UNCHANGED <<repo, source, volume, job, jobPods, seenJob, closed, holder, mounting, spec,
                  faults, lost, status, reserved, usedBy, pass>>
    BY <1>1, <1>2 DEF Initialized, objects, users, control
<1>4. pod[u].phase = "init" /\ PodOn(u) /\ pod[u].init /\ spec.deferred
    BY <1>1, <1>2, <1>3 DEF Initialized, UsersSafe, PodOn
<1>5. /\ pod' \in [Users -> PodSet] /\ pod'[u].phase = "running" /\ pod'[u].init = pod[u].init
      /\ \A v \in Users : v # u => pod'[v] = pod[v]
    BY <1>1, <1>2, <1>3, <1>4, PhaseGoes DEF Initialized
<1>6. volume.id = 1
    BY <1>1, <1>2, <1>3, <1>4, <1>5 DEF Untouched, Mounting, OneChild
<1>7. checkout' = "whole" /\ worked' = volume.id
    BY <1>1, <1>2, <1>3, <1>4, <1>5, <1>6 DEF Initialized
<1>8. worked' \in 0..2
    BY <1>1, <1>2, <1>3, <1>4, <1>5, <1>6, <1>7
<1>9. Types'
    BY <1>1, <1>3, <1>4, <1>5, <1>6, <1>7, <1>8, <1>2, TypesAre DEF Types
<1>10. TypeOK'
    BY <1>9, TypesAfter
<1>11. OneChild'
    BY <1>1, <1>3, <1>4, <1>5, <1>6, <1>7, <1>8 DEF OneChild, ClaimMatches
<1>12. Untouched'
    BY <1>1, <1>3, <1>4, <1>5, <1>6, <1>7, <1>8 DEF Untouched, IsReady, Mounting, PodOn
<1>13. PassFits'
    BY <1>1, <1>3, <1>4, <1>5, <1>6, <1>7, <1>8 DEF PassFits, At, IsReady
<1>14. CloneSafe'
    BY <1>1, <1>3, <1>4, <1>5, <1>6, <1>7, <1>8 DEF CloneSafe, At
<1>15. CheckoutSafe'
    BY <1>1, <1>3, <1>4, <1>5, <1>6, <1>7, <1>8 DEF CheckoutSafe, IsReady
<1>16. UsersSafe'
    BY <1>1, <1>3, <1>4, <1>5, <1>6, <1>7, <1>8 DEF UsersSafe, PodOn
<1>17. JobsSafe'
    BY <1>1, <1>3, <1>4, <1>5, <1>6, <1>7, <1>8 DEF JobsSafe, JobOver, IsReady, At, Mounting, PodOn
<1> QED
    BY <1>10, <1>11, <1>12, <1>13, <1>14, <1>15, <1>16, <1>17 DEF IInv

\* An init container fails.
LEMMA InitializerFailsKeeps ==
    ASSUME IInv, NEW u \in Users, InitializerFails(u) PROVE IInv'
<1>1. TypeOK /\ OneChild /\ Untouched /\ PassFits /\ CloneSafe /\ CheckoutSafe /\ UsersSafe /\ JobsSafe
    BY DEF IInv
<1>2. /\ pass \in PassSet /\ volume \in VolumeSet /\ status \in StatusSet
      /\ pod \in [Users -> PodSet] /\ mounting \in [Users -> MountingSet]
    BY <1>1, TypesAre DEF Types
<1>3. UNCHANGED <<repo, source, volume, job, jobPods, seenJob, closed, holder, mounting, worked,
                  spec, faults, lost, status, reserved, usedBy, pass>>
    BY <1>1, <1>2 DEF InitializerFails, objects, users, control
<1>4. pod[u].phase = "init" /\ PodOn(u) /\ pod[u].init /\ spec.deferred
    BY <1>1, <1>2, <1>3 DEF InitializerFails, UsersSafe, PodOn
<1>5. /\ pod' \in [Users -> PodSet] /\ pod'[u].phase = "failing" /\ pod'[u].init = pod[u].init
      /\ \A v \in Users : v # u => pod'[v] = pod[v]
    BY <1>1, <1>2, <1>3, <1>4, PhaseGoes DEF InitializerFails
<1>6. volume.id = 1
    BY <1>1, <1>2, <1>3, <1>4, <1>5 DEF Untouched, Mounting, OneChild
<1>7. checkout' \in {"cloned", "partial", "whole"} /\ (checkout = "whole" => checkout' = "whole")
    BY <1>1, <1>2, <1>3, <1>4, <1>5, <1>6 DEF InitializerFails, TypeOK
<1>8. Types'
    BY <1>1, <1>3, <1>4, <1>5, <1>6, <1>7, <1>2, TypesAre DEF Types
<1>9. TypeOK'
    BY <1>8, TypesAfter
<1>10. OneChild'
    BY <1>1, <1>3, <1>4, <1>5, <1>6, <1>7 DEF OneChild, ClaimMatches
<1>11. Untouched'
    BY <1>1, <1>3, <1>4, <1>5, <1>6, <1>7 DEF Untouched, IsReady, Mounting, PodOn
<1>12. PassFits'
    BY <1>1, <1>3, <1>4, <1>5, <1>6, <1>7 DEF PassFits, At, IsReady
<1>13. CloneSafe'
    BY <1>1, <1>3, <1>4, <1>5, <1>6, <1>7 DEF CloneSafe, At
<1>14. CheckoutSafe'
    BY <1>1, <1>3, <1>4, <1>5, <1>6, <1>7 DEF CheckoutSafe, IsReady
<1>15. UsersSafe'
    BY <1>1, <1>3, <1>4, <1>5, <1>6, <1>7 DEF UsersSafe, PodOn
<1>16. JobsSafe'
    BY <1>1, <1>3, <1>4, <1>5, <1>6, <1>7 DEF JobsSafe, JobOver, IsReady, At, Mounting, PodOn
<1> QED
    BY <1>9, <1>10, <1>11, <1>12, <1>13, <1>14, <1>15, <1>16 DEF IInv

\* An init container is restarted.
LEMMA RestartInitializerKeeps ==
    ASSUME IInv, NEW u \in Users, RestartInitializer(u) PROVE IInv'
<1>1. TypeOK /\ OneChild /\ Untouched /\ PassFits /\ CloneSafe /\ CheckoutSafe /\ UsersSafe /\ JobsSafe
    BY DEF IInv
<1>2. /\ pass \in PassSet /\ volume \in VolumeSet /\ status \in StatusSet
      /\ pod \in [Users -> PodSet] /\ mounting \in [Users -> MountingSet]
    BY <1>1, TypesAre DEF Types
<1>3. UNCHANGED <<repo, source, volume, checkout, job, jobPods, seenJob, closed, holder, mounting,
                  worked, spec, faults, lost, status, reserved, usedBy, pass>>
    BY <1>1, <1>2 DEF RestartInitializer, objects, users, control
<1>4. pod[u].phase = "failing" /\ PodOn(u) /\ pod[u].init /\ spec.deferred
    BY <1>1, <1>2, <1>3 DEF RestartInitializer, UsersSafe, PodOn
<1>5. /\ pod' \in [Users -> PodSet] /\ pod'[u].phase = "init" /\ pod'[u].init = pod[u].init
      /\ \A v \in Users : v # u => pod'[v] = pod[v]
    BY <1>1, <1>2, <1>3, <1>4, PhaseGoes DEF RestartInitializer
<1>6. volume.id = 1
    BY <1>1, <1>2, <1>3, <1>4, <1>5 DEF Untouched, Mounting, OneChild
<1>7. Types'
    BY <1>1, <1>3, <1>4, <1>5, <1>6, <1>2, TypesAre DEF Types
<1>8. TypeOK'
    BY <1>7, TypesAfter
<1>9. OneChild'
    BY <1>1, <1>3, <1>4, <1>5, <1>6 DEF OneChild, ClaimMatches
<1>10. Untouched'
    BY <1>1, <1>3, <1>4, <1>5, <1>6 DEF Untouched, IsReady, Mounting, PodOn
<1>11. PassFits'
    BY <1>1, <1>3, <1>4, <1>5, <1>6 DEF PassFits, At, IsReady
<1>12. CloneSafe'
    BY <1>1, <1>3, <1>4, <1>5, <1>6 DEF CloneSafe, At
<1>13. CheckoutSafe'
    BY <1>1, <1>3, <1>4, <1>5, <1>6 DEF CheckoutSafe, IsReady
<1>14. UsersSafe'
    BY <1>1, <1>3, <1>4, <1>5, <1>6 DEF UsersSafe, PodOn
<1>15. JobsSafe'
    BY <1>1, <1>3, <1>4, <1>5, <1>6 DEF JobsSafe, JobOver, IsReady, At, Mounting, PodOn
<1> QED
    BY <1>8, <1>9, <1>10, <1>11, <1>12, <1>13, <1>14, <1>15 DEF IInv

\* A Workspace stops its Pod.
LEMMA StopPodKeeps ==
    ASSUME IInv, NEW u \in Users, StopPod(u) PROVE IInv'
<1>1. TypeOK /\ OneChild /\ Untouched /\ PassFits /\ CloneSafe /\ CheckoutSafe /\ UsersSafe /\ JobsSafe
    BY DEF IInv
<1>2. /\ pass \in PassSet /\ volume \in VolumeSet /\ status \in StatusSet
      /\ pod \in [Users -> PodSet] /\ mounting \in [Users -> MountingSet]
    BY <1>1, TypesAre DEF Types
<1>3. UNCHANGED <<repo, source, volume, checkout, job, jobPods, seenJob, closed, holder, mounting,
                  worked, spec, faults, lost, status, reserved, usedBy, pass>>
    BY <1>1, <1>2 DEF StopPod, objects, users, control
<1>4. PodOn(u)
    BY <1>1, <1>2, <1>3 DEF StopPod
<1>5. /\ pod' \in [Users -> PodSet] /\ pod'[u].phase = "absent" /\ pod'[u].init = FALSE
      /\ \A v \in Users : v # u => pod'[v] = pod[v]
    BY <1>1, <1>2, <1>3, <1>4, PodGoes, RestIs DEF StopPod
<1>6. volume.id = 1
    BY <1>1, <1>2, <1>3, <1>4, <1>5 DEF Untouched, Mounting, OneChild
<1>7. Types'
    BY <1>1, <1>3, <1>4, <1>5, <1>6, <1>2, TypesAre DEF Types
<1>8. TypeOK'
    BY <1>7, TypesAfter
<1>9. OneChild'
    BY <1>1, <1>3, <1>4, <1>5, <1>6 DEF OneChild, ClaimMatches
<1>10. Untouched'
    BY <1>1, <1>3, <1>4, <1>5, <1>6 DEF Untouched, IsReady, Mounting, PodOn
<1>11. PassFits'
    BY <1>1, <1>3, <1>4, <1>5, <1>6 DEF PassFits, At, IsReady
<1>12. CloneSafe'
    BY <1>1, <1>3, <1>4, <1>5, <1>6 DEF CloneSafe, At
<1>13. CheckoutSafe'
    BY <1>1, <1>3, <1>4, <1>5, <1>6 DEF CheckoutSafe, IsReady
<1>14. UsersSafe'
    BY <1>1, <1>3, <1>4, <1>5, <1>6 DEF UsersSafe, PodOn
<1>15. JobsSafe'
    BY <1>1, <1>3, <1>4, <1>5, <1>6 DEF JobsSafe, JobOver, IsReady, At, Mounting, PodOn
<1> QED
    BY <1>8, <1>9, <1>10, <1>11, <1>12, <1>13, <1>14, <1>15 DEF IInv

\* A Workspace gives its hold back.
LEMMA ReleaseMountKeeps ==
    ASSUME IInv, NEW u \in Users, ReleaseMount(u) PROVE IInv'
<1>1. TypeOK /\ OneChild /\ Untouched /\ PassFits /\ CloneSafe /\ CheckoutSafe /\ UsersSafe /\ JobsSafe
    BY DEF IInv
<1>2. /\ pass \in PassSet /\ volume \in VolumeSet /\ status \in StatusSet
      /\ pod \in [Users -> PodSet] /\ mounting \in [Users -> MountingSet]
    BY <1>1, TypesAre DEF Types
<1>3. UNCHANGED <<repo, source, volume, checkout, job, jobPods, seenJob, closed, pod, mounting,
                  worked, spec, faults, lost, status, reserved, usedBy, pass>>
    BY <1>1, <1>2 DEF ReleaseMount, objects, users, control
<1>4. holder = u /\ ~PodOn(u) /\ mounting[u].pc = "idle" /\ holder' = Nobody
    BY <1>1, <1>2, <1>3 DEF ReleaseMount
<1>5. Types'
    BY <1>1, <1>3, <1>4, <1>2, TypesAre DEF Types
<1>6. TypeOK'
    BY <1>5, TypesAfter
<1>7. OneChild'
    BY <1>1, <1>3, <1>4 DEF OneChild, ClaimMatches
<1>8. Untouched'
    BY <1>1, <1>3, <1>4 DEF Untouched, IsReady, Mounting, PodOn
<1>9. PassFits'
    BY <1>1, <1>3, <1>4 DEF PassFits, At, IsReady
<1>10. CloneSafe'
    BY <1>1, <1>3, <1>4 DEF CloneSafe, At
<1>11. CheckoutSafe'
    BY <1>1, <1>3, <1>4 DEF CheckoutSafe, IsReady
<1>12. UsersSafe'
    BY <1>1, <1>3, <1>4, BootstrapAssumption DEF UsersSafe, PodOn
<1>13. JobsSafe'
    BY <1>1, <1>3, <1>4 DEF JobsSafe, JobOver, IsReady, At, Mounting, PodOn
<1> QED
    BY <1>6, <1>7, <1>8, <1>9, <1>10, <1>11, <1>12, <1>13 DEF IInv

\* The Pod of a Job starts.
LEMMA StartJobPodKeeps ==
    ASSUME IInv, StartJobPod PROVE IInv'
<1>1. TypeOK /\ OneChild /\ Untouched /\ PassFits /\ CloneSafe /\ CheckoutSafe /\ UsersSafe /\ JobsSafe
    BY DEF IInv
<1>2. /\ pass \in PassSet /\ volume \in VolumeSet /\ status \in StatusSet
      /\ pod \in [Users -> PodSet] /\ mounting \in [Users -> MountingSet]
    BY <1>1, TypesAre DEF Types
<1>3. UNCHANGED <<repo, source, volume, seenJob, closed, holder, pod, mounting, worked, spec,
                  faults, lost, status, reserved, usedBy, pass>>
    BY <1>1, <1>2 DEF StartJobPod, objects, users, control
<1>4. job = "created" /\ job' = "active" /\ jobPods' = jobPods + 1 /\ jobPods' \in 0..2
    BY <1>1, <1>2, <1>3 DEF StartJobPod, TypeOK
<1>5. checkout' \in {"cloned", "partial", "whole"} /\ (checkout = "whole" => checkout' = "whole")
    BY <1>1, <1>2, <1>3, <1>4 DEF StartJobPod, TypeOK
<1>6. volume.id = 1
    BY <1>1, <1>2, <1>3, <1>4, <1>5 DEF Untouched, OneChild
<1>7. Types'
    BY <1>1, <1>3, <1>4, <1>5, <1>6, <1>2, TypesAre DEF Types, JobStates
<1>8. TypeOK'
    BY <1>7, TypesAfter
<1>9. OneChild'
    BY <1>1, <1>3, <1>4, <1>5, <1>6 DEF OneChild, ClaimMatches
<1>10. Untouched'
    BY <1>1, <1>3, <1>4, <1>5, <1>6 DEF Untouched, IsReady, Mounting, PodOn
<1>11. PassFits'
    BY <1>1, <1>3, <1>4, <1>5, <1>6 DEF PassFits, At, IsReady
<1>12. CloneSafe'
    BY <1>1, <1>3, <1>4, <1>5, <1>6 DEF CloneSafe, At
<1>13. CheckoutSafe'
    BY <1>1, <1>3, <1>4, <1>5, <1>6 DEF CheckoutSafe, IsReady
<1>14. UsersSafe'
    BY <1>1, <1>3, <1>4, <1>5, <1>6 DEF UsersSafe, PodOn
<1>15. JobsSafe'
    BY <1>1, <1>3, <1>4, <1>5, <1>6 DEF JobsSafe, JobOver, IsReady, At, Mounting, PodOn, TypeOK
<1> QED
    BY <1>8, <1>9, <1>10, <1>11, <1>12, <1>13, <1>14, <1>15 DEF IInv

\* The Pod of a Job ends.
LEMMA EndJobPodKeeps ==
    ASSUME IInv, EndJobPod PROVE IInv'
<1>1. TypeOK /\ OneChild /\ Untouched /\ PassFits /\ CloneSafe /\ CheckoutSafe /\ UsersSafe /\ JobsSafe
    BY DEF IInv
<1>2. /\ pass \in PassSet /\ volume \in VolumeSet /\ status \in StatusSet
      /\ pod \in [Users -> PodSet] /\ mounting \in [Users -> MountingSet]
    BY <1>1, TypesAre DEF Types
<1>3. UNCHANGED <<repo, source, volume, seenJob, closed, holder, pod, mounting, worked, spec,
                  faults, lost, status, reserved, usedBy, pass>>
    BY <1>1, <1>2 DEF EndJobPod, objects, users, control
<1>4. jobPods > 0 /\ jobPods' = jobPods - 1 /\ jobPods' \in 0..2
    BY <1>1, <1>2, <1>3 DEF EndJobPod, TypeOK
<1>5. /\ job' = job \/ (job = "active" /\ job' = "failed") \/ (job = "active" /\ job' = "succeeded" /\ checkout' = "whole")
      /\ job = "active" => job' # "active"
      /\ checkout' \in {"cloned", "partial", "whole"} /\ (checkout = "whole" => checkout' = "whole")
    BY <1>1, <1>2, <1>3, <1>4 DEF EndJobPod, TypeOK
<1>6. volume.id = 1
    BY <1>1, <1>2, <1>3, <1>4, <1>5 DEF Untouched, OneChild
<1>7. Types'
    BY <1>1, <1>3, <1>4, <1>5, <1>6, <1>2, TypesAre DEF Types, JobStates
<1>8. TypeOK'
    BY <1>7, TypesAfter
<1>9. OneChild'
    BY <1>1, <1>3, <1>4, <1>5, <1>6 DEF OneChild, ClaimMatches
<1>10. Untouched'
    BY <1>1, <1>3, <1>4, <1>5, <1>6 DEF Untouched, IsReady, Mounting, PodOn
<1>11. PassFits'
    BY <1>1, <1>3, <1>4, <1>5, <1>6 DEF PassFits, At, IsReady
<1>12. CloneSafe'
    BY <1>1, <1>3, <1>4, <1>5, <1>6 DEF CloneSafe, At
<1>13. CheckoutSafe'
    BY <1>1, <1>3, <1>4, <1>5, <1>6 DEF CheckoutSafe, IsReady
<1>14. UsersSafe'
    BY <1>1, <1>3, <1>4, <1>5, <1>6 DEF UsersSafe, PodOn
<1>15. JobsSafe'
    BY <1>1, <1>3, <1>4, <1>5, <1>6 DEF JobsSafe, JobOver, IsReady, At, Mounting, PodOn, TypeOK
<1> QED
    BY <1>8, <1>9, <1>10, <1>11, <1>12, <1>13, <1>14, <1>15 DEF IInv

\* The cache catches up with the Job.
LEMMA SyncJobKeeps ==
    ASSUME IInv, SyncJob PROVE IInv'
<1>1. TypeOK /\ OneChild /\ Untouched /\ PassFits /\ CloneSafe /\ CheckoutSafe /\ UsersSafe /\ JobsSafe
    BY DEF IInv
<1>2. /\ pass \in PassSet /\ volume \in VolumeSet /\ status \in StatusSet
      /\ pod \in [Users -> PodSet] /\ mounting \in [Users -> MountingSet]
    BY <1>1, TypesAre DEF Types
<1>3. UNCHANGED <<repo, source, volume, checkout, job, jobPods, closed, holder, pod, mounting,
                  worked, spec, faults, lost, status, reserved, usedBy, pass>>
    BY <1>1, <1>2 DEF SyncJob, objects, users, control
<1>4. seenJob' = job
    BY <1>1, <1>2, <1>3 DEF SyncJob
<1>5. Types'
    BY <1>1, <1>3, <1>4, <1>2, TypesAre DEF Types
<1>6. TypeOK'
    BY <1>5, TypesAfter
<1>7. OneChild'
    BY <1>1, <1>3, <1>4 DEF OneChild, ClaimMatches
<1>8. Untouched'
    BY <1>1, <1>3, <1>4 DEF Untouched, IsReady, Mounting, PodOn
<1>9. PassFits'
    BY <1>1, <1>3, <1>4 DEF PassFits, At, IsReady
<1>10. CloneSafe'
    BY <1>1, <1>3, <1>4 DEF CloneSafe, At
<1>11. CheckoutSafe'
    BY <1>1, <1>3, <1>4 DEF CheckoutSafe, IsReady
<1>12. UsersSafe'
    BY <1>1, <1>3, <1>4 DEF UsersSafe, PodOn
<1>13. JobsSafe'
    BY <1>1, <1>3, <1>4 DEF JobsSafe, JobOver, IsReady, At, Mounting, PodOn
<1> QED
    BY <1>6, <1>7, <1>8, <1>9, <1>10, <1>11, <1>12, <1>13 DEF IInv

\* A Job is deleted or expires.
LEMMA ExpireJobKeeps ==
    ASSUME IInv, ExpireJob PROVE IInv'
<1>1. TypeOK /\ OneChild /\ Untouched /\ PassFits /\ CloneSafe /\ CheckoutSafe /\ UsersSafe /\ JobsSafe
    BY DEF IInv
<1>2. /\ pass \in PassSet /\ volume \in VolumeSet /\ status \in StatusSet
      /\ pod \in [Users -> PodSet] /\ mounting \in [Users -> MountingSet]
    BY <1>1, TypesAre DEF Types
<1>3. UNCHANGED <<repo, source, volume, checkout, jobPods, seenJob, closed, holder, pod, mounting,
                  worked, spec, status, reserved, usedBy, pass>>
    BY <1>1, <1>2 DEF ExpireJob, objects, users, control
<1>4. job' = "absent" /\ job # "absent" /\ lost' \in BOOLEAN /\ (~lost' => ~lost /\ job \notin {"created", "active"})
    BY <1>1, <1>2, <1>3, ExpireIs
<1>5. faults' \in 0..MaxFaults
    BY <1>1, <1>2, <1>3, <1>4, BootstrapAssumption DEF ExpireJob, Fault, TypeOK
<1>6. Types'
    BY <1>1, <1>3, <1>4, <1>5, <1>2, TypesAre DEF Types, JobStates
<1>7. TypeOK'
    BY <1>6, TypesAfter
<1>8. OneChild'
    BY <1>1, <1>3, <1>4, <1>5 DEF OneChild, ClaimMatches
<1>9. Untouched'
    BY <1>1, <1>3, <1>4, <1>5 DEF Untouched, IsReady, Mounting, PodOn
<1>10. PassFits'
    BY <1>1, <1>3, <1>4, <1>5 DEF PassFits, At, IsReady
<1>11. CloneSafe'
    BY <1>1, <1>3, <1>4, <1>5 DEF CloneSafe, At
<1>12. CheckoutSafe'
    BY <1>1, <1>3, <1>4, <1>5 DEF CheckoutSafe, IsReady
<1>13. UsersSafe'
    BY <1>1, <1>3, <1>4, <1>5 DEF UsersSafe, PodOn
<1>14. JobsSafe'
    BY <1>1, <1>3, <1>4, <1>5 DEF JobsSafe, JobOver, IsReady, At, Mounting, PodOn
<1> QED
    BY <1>7, <1>8, <1>9, <1>10, <1>11, <1>12, <1>13, <1>14 DEF IInv

\* The driver finishes the copy of the claim.
LEMMA ProvisionKeeps ==
    ASSUME IInv, Provision PROVE IInv'
<1>1. TypeOK /\ OneChild /\ Untouched /\ PassFits /\ CloneSafe /\ CheckoutSafe /\ UsersSafe /\ JobsSafe
    BY DEF IInv
<1>2. /\ pass \in PassSet /\ volume \in VolumeSet /\ status \in StatusSet
      /\ pod \in [Users -> PodSet] /\ mounting \in [Users -> MountingSet]
    BY <1>1, TypesAre DEF Types
<1>3. UNCHANGED <<repo, source, checkout, job, jobPods, seenJob, closed, holder, pod, mounting,
                  worked, spec, faults, lost, status, reserved, usedBy, pass>>
    BY <1>1, <1>2 DEF Provision, objects, users, control
<1>4. VolumeGoes("bound")
    BY <1>1, <1>2, <1>3, VolumeGoesTo DEF Provision
<1>5. volume.phase = "pending" /\ volume.id = 1
    BY <1>1, <1>2, <1>3, <1>4 DEF Provision, OneChild
<1>6. Types'
    BY <1>1, <1>3, <1>4, <1>5, <1>2, TypesAre DEF Types, VolumeGoes
<1>7. TypeOK'
    BY <1>6, TypesAfter
<1>8. OneChild'
    BY <1>1, <1>3, <1>4, <1>5 DEF VolumeGoes, OneChild, ClaimMatches
<1>9. Untouched'
    BY <1>1, <1>3, <1>4, <1>5 DEF VolumeGoes, Untouched, IsReady, Mounting, PodOn
<1>10. PassFits'
    BY <1>1, <1>3, <1>4, <1>5 DEF VolumeGoes, PassFits, At, IsReady
<1>11. CloneSafe'
    BY <1>1, <1>3, <1>4, <1>5 DEF VolumeGoes, CloneSafe, At
<1>12. CheckoutSafe'
    BY <1>1, <1>3, <1>4, <1>5 DEF VolumeGoes, CheckoutSafe, IsReady
<1>13. UsersSafe'
    BY <1>1, <1>3, <1>4, <1>5 DEF VolumeGoes, UsersSafe, PodOn
<1>14. JobsSafe'
    BY <1>1, <1>3, <1>4, <1>5 DEF VolumeGoes, JobsSafe, JobOver, IsReady, At, Mounting, PodOn
<1> QED
    BY <1>7, <1>8, <1>9, <1>10, <1>11, <1>12, <1>13, <1>14 DEF IInv

\* Somebody deletes the claim.
LEMMA DeleteClaimKeeps ==
    ASSUME IInv, DeleteClaim PROVE IInv'
<1>1. TypeOK /\ OneChild /\ Untouched /\ PassFits /\ CloneSafe /\ CheckoutSafe /\ UsersSafe /\ JobsSafe
    BY DEF IInv
<1>2. /\ pass \in PassSet /\ volume \in VolumeSet /\ status \in StatusSet
      /\ pod \in [Users -> PodSet] /\ mounting \in [Users -> MountingSet]
    BY <1>1, TypesAre DEF Types
<1>3. UNCHANGED <<repo, source, checkout, job, jobPods, seenJob, closed, holder, pod, mounting,
                  worked, spec, faults, lost, status, reserved, usedBy, pass>>
    BY <1>1, <1>2 DEF DeleteClaim, objects, users, control
<1>4. VolumeGoes("deleting")
    BY <1>1, <1>2, <1>3, VolumeGoesTo DEF DeleteClaim
<1>5. volume.phase \in {"pending", "bound"} /\ volume.id = 1
    BY <1>1, <1>2, <1>3, <1>4 DEF DeleteClaim, OneChild
<1>6. Types'
    BY <1>1, <1>3, <1>4, <1>5, <1>2, TypesAre DEF Types, VolumeGoes
<1>7. TypeOK'
    BY <1>6, TypesAfter
<1>8. OneChild'
    BY <1>1, <1>3, <1>4, <1>5 DEF VolumeGoes, OneChild, ClaimMatches
<1>9. Untouched'
    BY <1>1, <1>3, <1>4, <1>5 DEF VolumeGoes, Untouched, IsReady, Mounting, PodOn
<1>10. PassFits'
    BY <1>1, <1>3, <1>4, <1>5 DEF VolumeGoes, PassFits, At, IsReady
<1>11. CloneSafe'
    BY <1>1, <1>3, <1>4, <1>5 DEF VolumeGoes, CloneSafe, At
<1>12. CheckoutSafe'
    BY <1>1, <1>3, <1>4, <1>5 DEF VolumeGoes, CheckoutSafe, IsReady
<1>13. UsersSafe'
    BY <1>1, <1>3, <1>4, <1>5 DEF VolumeGoes, UsersSafe, PodOn
<1>14. JobsSafe'
    BY <1>1, <1>3, <1>4, <1>5 DEF VolumeGoes, JobsSafe, JobOver, IsReady, At, Mounting, PodOn
<1> QED
    BY <1>7, <1>8, <1>9, <1>10, <1>11, <1>12, <1>13, <1>14 DEF IInv

\* The claim is gone.
LEMMA ClaimGoneKeeps ==
    ASSUME IInv, ClaimGone PROVE IInv'
<1>1. TypeOK /\ OneChild /\ Untouched /\ PassFits /\ CloneSafe /\ CheckoutSafe /\ UsersSafe /\ JobsSafe
    BY DEF IInv
<1>2. /\ pass \in PassSet /\ volume \in VolumeSet /\ status \in StatusSet
      /\ pod \in [Users -> PodSet] /\ mounting \in [Users -> MountingSet]
    BY <1>1, TypesAre DEF Types
<1>3. UNCHANGED <<repo, source, checkout, job, jobPods, seenJob, closed, holder, pod, mounting,
                  worked, spec, faults, lost, status, reserved, usedBy, pass>>
    BY <1>1, <1>2 DEF ClaimGone, objects, users, control
<1>4. VolumeGoes("none")
    BY <1>1, <1>2, <1>3, VolumeGoesTo DEF ClaimGone
<1>5. volume.phase = "released" /\ volume.id = 1
    BY <1>1, <1>2, <1>3, <1>4 DEF ClaimGone, OneChild
<1>6. Types'
    BY <1>1, <1>3, <1>4, <1>5, <1>2, TypesAre DEF Types, VolumeGoes
<1>7. TypeOK'
    BY <1>6, TypesAfter
<1>8. OneChild'
    BY <1>1, <1>3, <1>4, <1>5 DEF VolumeGoes, OneChild, ClaimMatches
<1>9. Untouched'
    BY <1>1, <1>3, <1>4, <1>5 DEF VolumeGoes, Untouched, IsReady, Mounting, PodOn
<1>10. PassFits'
    BY <1>1, <1>3, <1>4, <1>5 DEF VolumeGoes, PassFits, At, IsReady
<1>11. CloneSafe'
    BY <1>1, <1>3, <1>4, <1>5 DEF VolumeGoes, CloneSafe, At
<1>12. CheckoutSafe'
    BY <1>1, <1>3, <1>4, <1>5 DEF VolumeGoes, CheckoutSafe, IsReady
<1>13. UsersSafe'
    BY <1>1, <1>3, <1>4, <1>5 DEF VolumeGoes, UsersSafe, PodOn
<1>14. JobsSafe'
    BY <1>1, <1>3, <1>4, <1>5 DEF VolumeGoes, JobsSafe, JobOver, IsReady, At, Mounting, PodOn
<1> QED
    BY <1>7, <1>8, <1>9, <1>10, <1>11, <1>12, <1>13, <1>14 DEF IInv

\* The Repository changes its state.
LEMMA RepositoryChangesKeeps ==
    ASSUME IInv, RepositoryChanges PROVE IInv'
<1>1. TypeOK /\ OneChild /\ Untouched /\ PassFits /\ CloneSafe /\ CheckoutSafe /\ UsersSafe /\ JobsSafe
    BY DEF IInv
<1>2. /\ pass \in PassSet /\ volume \in VolumeSet /\ status \in StatusSet
      /\ pod \in [Users -> PodSet] /\ mounting \in [Users -> MountingSet]
    BY <1>1, TypesAre DEF Types
<1>3. UNCHANGED <<source, volume, checkout, job, jobPods, seenJob, closed, holder, pod, mounting,
                  worked, spec, faults, lost, status, reserved, usedBy, pass>>
    BY <1>1, <1>2 DEF RepositoryChanges, objects, users, control
<1>4. repo' \in [state : {"absent", "waiting", "busy", "ready", "failed"}, size : Sizes]
    BY <1>1, <1>2, <1>3 DEF RepositoryChanges, TypeOK
<1>5. Types'
    BY <1>1, <1>3, <1>4, <1>2, TypesAre DEF Types
<1>6. TypeOK'
    BY <1>5, TypesAfter
<1>7. OneChild'
    BY <1>1, <1>3, <1>4 DEF OneChild, ClaimMatches
<1>8. Untouched'
    BY <1>1, <1>3, <1>4 DEF Untouched, IsReady, Mounting, PodOn
<1>9. PassFits'
    BY <1>1, <1>3, <1>4 DEF PassFits, At, IsReady
<1>10. CloneSafe'
    BY <1>1, <1>3, <1>4 DEF CloneSafe, At
<1>11. CheckoutSafe'
    BY <1>1, <1>3, <1>4 DEF CheckoutSafe, IsReady
<1>12. UsersSafe'
    BY <1>1, <1>3, <1>4 DEF UsersSafe, PodOn
<1>13. JobsSafe'
    BY <1>1, <1>3, <1>4 DEF JobsSafe, JobOver, IsReady, At, Mounting, PodOn
<1> QED
    BY <1>6, <1>7, <1>8, <1>9, <1>10, <1>11, <1>12, <1>13 DEF IInv

\* The parent's claim is bound or grows.
LEMMA SourceChangesKeeps ==
    ASSUME IInv, SourceChanges PROVE IInv'
<1>1. TypeOK /\ OneChild /\ Untouched /\ PassFits /\ CloneSafe /\ CheckoutSafe /\ UsersSafe /\ JobsSafe
    BY DEF IInv
<1>2. /\ pass \in PassSet /\ volume \in VolumeSet /\ status \in StatusSet
      /\ pod \in [Users -> PodSet] /\ mounting \in [Users -> MountingSet]
    BY <1>1, TypesAre DEF Types
<1>3. UNCHANGED <<repo, volume, checkout, job, jobPods, seenJob, closed, holder, pod, mounting,
                  worked, spec, faults, lost, status, reserved, usedBy, pass>>
    BY <1>1, <1>2 DEF SourceChanges, objects, users, control
<1>4. /\ source' \in SourceSet /\ source'.request = source.request
      /\ source'.capacity = source.capacity \/ source.capacity = 0 \/ ~reserved
    BY <1>1, <1>2, <1>3, SourceIs
<1>5. Types'
    BY <1>1, <1>3, <1>4, <1>2, TypesAre DEF Types
<1>6. TypeOK'
    BY <1>5, TypesAfter
<1>7. OneChild'
    BY <1>1, <1>3, <1>4 DEF OneChild, ClaimMatches
<1>8. Untouched'
    BY <1>1, <1>3, <1>4 DEF Untouched, IsReady, Mounting, PodOn
<1>9. PassFits'
    BY <1>1, <1>3, <1>4 DEF PassFits, At, IsReady
<1>10. CloneSafe'
    BY <1>1, <1>3, <1>4 DEF CloneSafe, At, TypeOK, SourceSet
<1>11. CheckoutSafe'
    BY <1>1, <1>3, <1>4 DEF CheckoutSafe, IsReady
<1>12. UsersSafe'
    BY <1>1, <1>3, <1>4 DEF UsersSafe, PodOn
<1>13. JobsSafe'
    BY <1>1, <1>3, <1>4 DEF JobsSafe, JobOver, IsReady, At, Mounting, PodOn
<1> QED
    BY <1>6, <1>7, <1>8, <1>9, <1>10, <1>11, <1>12, <1>13 DEF IInv

-----------------------------------------------------------------------------
(* The theorems.                                                           *)

\* Every step keeps the invariant.
LEMMA StepKeeps == IInv /\ [Next]_vars => IInv'
<1> SUFFICES ASSUME IInv, [Next]_vars PROVE IInv'
    OBVIOUS
<1>1. CASE PassStep
    BY <1>1, BeginKeeps, CloseMountsKeeps, DrainKeeps, ReadRepositoryKeeps, PlanKeeps, CreateClaimKeeps,
       CheckClaimKeeps, SetVolumeReadyKeeps, ObservePodsKeeps, CreateJobKeeps, ReadJobKeeps, SetStatusKeeps,
       PublishUsageKeeps DEF PassStep
<1>2. ASSUME NEW u \in Users, UserStep(u) PROVE IInv'
    BY <1>2, ResolveMountKeeps, AdmitMountKeeps, CreatePodKeeps, InitializedKeeps, InitializerFailsKeeps,
       RestartInitializerKeeps, StopPodKeeps, ReleaseMountKeeps DEF UserStep
<1>3. CASE PassFails \/ StartJobPod \/ EndJobPod \/ SyncJob \/ ExpireJob
    BY <1>3, PassFailsKeeps, StartJobPodKeeps, EndJobPodKeeps, SyncJobKeeps, ExpireJobKeeps
<1>4. CASE Provision \/ DeleteClaim \/ ClaimGone \/ RepositoryChanges \/ SourceChanges
    BY <1>4, ProvisionKeeps, DeleteClaimKeeps, ClaimGoneKeeps, RepositoryChangesKeeps, SourceChangesKeeps
<1>5. CASE UNCHANGED vars
  <2>1. UNCHANGED <<repo, source, volume, checkout, job, jobPods, seenJob, closed, holder, pod, mounting,
                    worked, spec, faults, lost, status, reserved, usedBy, pass>>
      BY <1>5 DEF vars, objects, users, control
  <2>2. TypeOK'
      BY <2>1 DEF IInv, TypeOK
  <2>3. OneChild' /\ Untouched' /\ PassFits' /\ CloneSafe' /\ CheckoutSafe' /\ UsersSafe' /\ JobsSafe'
      BY <2>1 DEF IInv, OneChild, ClaimMatches, Untouched, PassFits, CloneSafe, CheckoutSafe, UsersSafe,
                  JobsSafe, JobOver, IsReady, At, Mounting, PodOn
  <2> QED
      BY <2>2, <2>3 DEF IInv
<1> QED
    BY <1>1, <1>2, <1>3, <1>4, <1>5 DEF Next

\* The invariant holds in every state of every behaviour, for any Workspaces,
\* specs and claims and any number of faults.
THEOREM BootstrapInvariant == Spec => []IInv
BY InitHolds, StepKeeps, PTL DEF Spec

\* Every variable keeps its type, the counters of children, Pods and faults
\* within their bounds.
THEOREM BootstrapTypes == Spec => []TypeOK
<1>1. IInv => TypeOK
    BY DEF IInv
<1> QED
    BY <1>1, BootstrapInvariant, PTL

\* A child is copied only from a reserved parent into a volume large enough for
\* it, every later pass accepts the claim, and Ready means a finished checkout.
THEOREM ChildrenWhole == Spec => []ChildIsWhole
<1>1. IInv => ChildIsWhole
    BY DEF IInv, ChildIsWhole, OneChild, CloneSafe, CheckoutSafe
<1> QED
    BY <1>1, BootstrapInvariant, PTL

\* After a Workspace's Pod has run on the checkout the child is never replaced,
\* no Job works on it, and no other Pod initializes it while one runs.
THEOREM WorkIsKept == Spec => []WorkUndisturbed
<1>1. IInv => WorkUndisturbed
  <2> SUFFICES ASSUME IInv, worked # 0 PROVE WorkUndisturbed
      BY DEF WorkUndisturbed
  <2>1. volume.id = worked
      BY DEF IInv, JobsSafe
  <2>2. lost \/ jobPods = 0
    <3>1. CASE spec.deferred
        BY <3>1 DEF IInv, JobsSafe
    <3>2. CASE ~spec.deferred
        BY <3>2 DEF IInv, JobsSafe, JobOver
    <3> QED
        BY <3>1, <3>2
  <2>3. ASSUME NEW u \in Users, NEW v \in Users, u # v,
               pod[u].phase = "init", pod[v].phase = "running"
        PROVE FALSE
      BY <2>3 DEF IInv, UsersSafe, PodOn
  <2> QED
      BY <2>1, <2>2, <2>3 DEF WorkUndisturbed
<1> QED
    BY <1>1, BootstrapInvariant, PTL

=============================================================================
