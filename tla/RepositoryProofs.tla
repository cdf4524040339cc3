-------------------------- MODULE RepositoryProofs --------------------------
(***************************************************************************)
(* Proofs about RepositoryParent, for any number of syncs, commands,       *)
(* clones, generations and disruptions.                                    *)
(*                                                                         *)
(* The argument: a writer holds the Lease from its reservation until its   *)
(* Job and Pods are gone, so what a pass established when it was admitted  *)
(* stays true until it uses it.  The one consumer that may run without the *)
(* Lease is the Pod of a bootstrap Job that was lost, and nobody gets past *)
(* Confirm while it runs.                                                  *)
(***************************************************************************)
EXTENDS RepositoryParent, TLAPS

-----------------------------------------------------------------------------
(* The inductive invariant.                                                *)

\* Nobody's Pod uses the parent.
Quiet == \A k \in Jobs : ~Running(k)

Holds(o, mode) == lease.mode[o] = mode

\* A writer is alone on the Lease, and only Worktrees hold it to clone.
HoldsExclusive ==
    /\ \A o, p \in Consumers : Holds(o, "write") => o = p \/ Holds(p, "none")
    /\ \A c \in Clones : ~Holds(c, "write")
    /\ \A o \in Consumers \ Clones : ~Holds(o, "clone")

\* What has been recorded is of a generation the Repository had.
GenerationsSeen ==
    /\ status.gen <= gen
    /\ \A o \in Consumers : pass[o].gen <= gen /\ pass[o].status.gen <= gen
    /\ \A o \in Requests : request[o].gen <= gen
    /\ \A g \in Gens : g > gen => job[g] = "absent"
    /\ claim # "recorded" => /\ status.gen = 0
                             /\ \A o \in Requests : ~request[o].recorded
                             /\ \A g \in Gens : job[g] = "absent"

\* From its admission to the creation of its Job.
Scheduling(o) ==
    \/ At(o, "record") \/ At(o, "create")
    \/ At(o, "parent") /\ pass[o].out = "syncing"

\* A Job that will start a Pod, or has.
Busied(k) == job[k] \in {"created", "active"}

\* A request is recorded before its Job is created, its Job is created once,
\* and it keeps the parent until both Job and Pod are gone.
RequestSafe(o) ==
    /\ pass[o].pc \in {"parent", "abandon"} => o \in Syncs /\ request[o].recorded
    /\ request[o].phase # "pending" => pass[o].pc \in {"idle", "release", "finalize"}
    /\ At(o, "release") => request[o].phase = "done"
    /\ request[o].phase = "released" \/ request[o].life = "gone" => At(o, "idle")
    /\ request[o].phase = "released" => request[o].life # "deleting"
    /\ pass[o].pc \in {"acquire", "confirm", "record"} => ~request[o].recorded
    /\ At(o, "record") => claim = "recorded"
    /\ pass[o].pc \in {"confirm", "record", "create"} \/ Scheduling(o) => Holds(o, "write")
    /\ At(o, "create") \/ (Scheduling(o) /\ At(o, "parent")) => request[o].recorded /\ starts[o] = 0 /\ job[o] = "absent"
    /\ ~request[o].recorded => job[o] = "absent" /\ pods[o] = 0 /\ starts[o] = 0
    /\ job[o] = "created" => starts[o] = 0
    /\ starts[o] <= 1
    /\ request[o].recorded /\ request[o].phase = "pending" /\ request[o].life # "gone" => Holds(o, "write")
    /\ request[o].phase = "pending" /\ request[o].life = "gone" => job[o] = "absent"
    /\ Busied(o) \/ Running(o) => Holds(o, "write")

\* A Worktree holds the parent from its admission until its volume is bound.
CloneSafe(c) ==
    /\ pass[c].pc \in {"idle", "acquire", "confirm", "record", "release", "finalize"}
    /\ pass[c].pc \in {"acquire", "confirm", "record"} => child[c].claim = "none"
    /\ pass[c].pc \in {"release", "finalize"} => child[c].claim # "pending"
    /\ pass[c].pc \in {"confirm", "record"} \/ Pending(c) => Holds(c, "clone")
    /\ At(c, "record") \/ Pending(c) => content # 0

\* The status speaks of an outcome for generation g, which only a writer replaces.
Published(s, g) == s.gen = g /\ s.state \in {"ready", "syncing", "syncFailed"}

\* The bootstrap Job is made and its result published under the Lease; no older
\* Job is active when a newer one is made.
ParentSafe ==
    /\ pass[Parent].pc \in {"idle", "acquire", "confirm", "record", "status", "result", "release"}
    /\ pass[Parent].pc \in {"confirm", "record", "result"} => Holds(Parent, "write")
    /\ pass[Parent].pc \in {"acquire", "confirm", "record", "result", "release"} =>
          \A g \in Gens : job[g] \in {"absent", "succeeded", "failed"}
    /\ pass[Parent].pc \in {"acquire", "confirm", "record", "result"} =>
          claim = "recorded" /\ \A g \in Gens : g > pass[Parent].gen => job[g] = "absent"
    /\ pass[Parent].pc \in {"acquire", "confirm"} =>
          /\ pass[Parent].status.gen <= pass[Parent].gen
          /\ ~Published(pass[Parent].status, pass[Parent].gen)
          /\ pass[Parent].gen = gen => pass[Parent].status = status \/ Published(status, gen)
    /\ pass[Parent].pc \in {"record", "result"} =>
          status.gen <= pass[Parent].gen /\ ~Published(status, pass[Parent].gen)
    /\ At(Parent, "status") =>
          /\ pass[Parent].out \in {"working", "failed"}
          /\ claim # "recorded" \/ (Holds(Parent, "write") /\ ~Published(status, pass[Parent].gen))
    /\ pass[Parent].pc \in {"acquire", "confirm", "record"} =>
          /\ pass[Parent].gen # 0
          /\ pass[Parent].out \in {"working", "ready", "failed"}
          /\ pass[Parent].out = "working" => job[pass[Parent].gen] = "absent"
    /\ At(Parent, "result") => pass[Parent].out \in {"ready", "failed"}

\* An active bootstrap Job belongs to a parent that is reserved and not ready.
BootstrapSafe ==
    \A g \in Gens :
        /\ job[g] # "deleting"
        /\ Busied(g) => /\ Holds(Parent, "write") /\ ~ReadyNow
                        /\ \A h \in Gens : h > g => job[h] = "absent"

\* Pods are alone; a Job about to start its Pod, and a pass about to create a
\* Job or a clone, find nobody there.
PodsAlone ==
    /\ \A j, k \in Jobs : pods[k] <= 1 /\ (Running(j) /\ Running(k) => j = k)
    /\ \A k \in Jobs : job[k] = "created" => Quiet
    /\ \A o \in Requests : Scheduling(o) => Quiet
    /\ \A o \in Clones \cup {Parent} : At(o, "record") => Quiet
    /\ \A c \in Clones : Pending(c) => Quiet

\* A sync runs on a parent that is not ready, reports on the generation it was
\* recorded for, and its success is a checkout of that generation.
SyncSafe(o) ==
    /\ pass[o].pc \in {"acquire", "confirm"} => pass[o].status.gen = pass[o].gen /\ pass[o].gen # 0
    /\ At(o, "record") => status.gen = pass[o].gen /\ pass[o].gen # 0
    /\ At(o, "parent") /\ pass[o].out = "syncing" => status.gen = request[o].gen
    /\ request[o].recorded => request[o].gen # 0
    /\ At(o, "parent") => pass[o].out \in {"syncing", "syncFailed", "ready"}
    /\ At(o, "abandon") => pass[o].out = "syncFailed"
    /\ At(o, "parent") /\ pass[o].out = "ready" =>
          content = request[o].gen /\ Quiet /\ job[o] \in {"succeeded", "absent"}
    /\ job[o] = "succeeded" /\ request[o].phase = "pending" => content = request[o].gen /\ Quiet
    /\ At(o, "create") \/ Busied(o) \/ Running(o) => ~ReadyNow

\* What is published as ready, or about to be, is on the volume.
ContentSafe ==
    /\ ReadyNow => content = gen
    /\ \A k \in Gens : Running(k) => ~ReadyNow
    /\ job[gen] = "succeeded" /\ ~Published(status, gen) => content = gen /\ Holds(Parent, "write") /\ Quiet
    /\ /\ pass[Parent].pc \in {"acquire", "confirm", "record", "result"}
       /\ pass[Parent].out = "ready" /\ pass[Parent].gen = gen
       => content = gen /\ Holds(Parent, "write") /\ Quiet
    /\ /\ pass[Parent].pc \in {"acquire", "confirm", "record", "result"}
       /\ pass[Parent].gen = gen /\ job[gen] = "succeeded"
       => pass[Parent].out = "ready"
    /\ At(Parent, "release") /\ job[gen] = "succeeded" => Published(status, gen)

IInv ==
    /\ TypeOK
    /\ HoldsExclusive
    /\ GenerationsSeen
    /\ \A o \in Requests : RequestSafe(o)
    /\ \A c \in Clones : CloneSafe(c)
    /\ ParentSafe
    /\ BootstrapSafe
    /\ PodsAlone
    /\ \A o \in Syncs : SyncSafe(o)
    /\ ContentSafe

-----------------------------------------------------------------------------
(* What the steps do to a pass and to the Lease.                           *)

Passes == [pc : PassSteps, gen : 0..MaxGen, status : Statuses, out : StorageStates]

\* Consumer o goes on with pass r, and nobody else moves.
Moves(o, r) ==
    /\ r \in Passes
    /\ pass' \in [Consumers -> Passes]
    /\ pass'[o] = r
    /\ \A p \in Consumers : p # o => pass'[p] = pass[p]

\* The pass of o one step on.
Onward(o, step, out) == [pc |-> step, gen |-> pass[o].gen, status |-> pass[o].status, out |-> out]

\* The hold of consumer o becomes mode, and nobody else's changes.
HoldBecomes(o, mode) ==
    /\ lease' \in HoldStates
    /\ lease'.mode[o] = mode
    /\ \A p \in Consumers : p # o => lease'.mode[p] = lease.mode[p]

\* The passes that the steps construct are passes.
LEMMA PassTypes ==
    ASSUME TypeOK, NEW o \in Consumers
    PROVE  /\ NoPass \in Passes
           /\ pass[o] \in Passes
           /\ \A step \in PassSteps, out \in StorageStates :
                [pc |-> step, gen |-> gen, status |-> status, out |-> out] \in Passes
BY ParentAssumption DEF TypeOK, Passes, NoPass, Statuses, PassSteps, StorageStates, Gens

\* A pass that ends leaves the others alone.
LEMMA EndMoves ==
    ASSUME TypeOK, NEW o \in Consumers, End(o)
    PROVE  Moves(o, NoPass)
BY PassTypes DEF TypeOK, End, Moves, Passes

\* A pass that starts remembers the Repository as it is.
LEMMA CaptureMoves ==
    ASSUME TypeOK, NEW o \in Consumers, NEW step \in PassSteps, NEW out \in StorageStates,
           Capture(o, step, out)
    PROVE  Moves(o, [pc |-> step, gen |-> gen, status |-> status, out |-> out])
BY PassTypes DEF TypeOK, Capture, Moves, Passes

\* A pass that goes on keeps what it remembers.
LEMMA GoToMoves ==
    ASSUME TypeOK, NEW o \in Consumers, NEW step \in PassSteps, GoTo(o, step)
    PROVE  Moves(o, Onward(o, step, pass[o].out))
<1>1. Onward(o, step, pass[o].out) = [pass[o] EXCEPT !.pc = step]
  BY PassTypes DEF Passes, Onward
<1>2. Onward(o, step, pass[o].out) \in Passes
  BY PassTypes DEF Passes, Onward
<1> QED BY <1>1, <1>2 DEF TypeOK, GoTo, Moves, Passes

\* A pass that goes on with an outcome keeps the rest.
LEMMA ReportMoves ==
    ASSUME TypeOK, NEW o \in Consumers, NEW step \in PassSteps, NEW out \in StorageStates,
           pass' = [pass EXCEPT ![o].pc = step, ![o].out = out]
    PROVE  Moves(o, Onward(o, step, out))
<1> DEFINE t == [pass[o] EXCEPT !.pc = step]
<1>1. t \in Passes /\ t = Onward(o, step, pass[o].out)
  BY PassTypes DEF Passes, Onward
<1>2. Onward(o, step, out) \in Passes /\ Onward(o, step, out) = [t EXCEPT !.out = out]
  <2> HIDE DEF t
  <2>1. t.pc = step /\ t.gen = pass[o].gen /\ t.status = pass[o].status
    BY <1>1 DEF Onward
  <2> QED BY <1>1, <2>1 DEF Passes, Onward
<1> QED BY <1>2 DEF TypeOK, Moves, Passes

\* A release takes one hold and no other.
LEMMA ReleaseBecomes ==
    ASSUME TypeOK, NEW o \in Consumers, lease' = Remove(lease, o)
    PROVE  HoldBecomes(o, "none")
BY DEF TypeOK, Remove, HoldBecomes, HoldStates

\* An untouched Lease keeps every hold.
LEMMA KeepBecomes ==
    ASSUME TypeOK, NEW o \in Consumers, lease' = lease
    PROVE  HoldBecomes(o, lease.mode[o])
BY DEF TypeOK, HoldBecomes, HoldStates

\* A step of consumer o that only touches its own pass and its own hold keeps
\* the invariant if it keeps what the invariant says of o.
LEMMA OwnStep ==
    ASSUME IInv, NEW o \in Consumers, NEW r, NEW m, Moves(o, r), HoldBecomes(o, m),
           UNCHANGED <<gen, status, content, request, job, pods, starts, child>>,
           claim' \in {"none", "created", "recorded"},
           claim' = "recorded" <=> claim = "recorded",
           disruptions' \in 0..MaxDisruptions,
           HoldsExclusive',
           r.gen <= gen, r.status.gen <= gen,
           o \in Requests => RequestSafe(o)' /\ (Scheduling(o)' => Quiet),
           o \in Syncs => SyncSafe(o)',
           o \in Clones => CloneSafe(o)',
           o = Parent => ParentSafe' /\ BootstrapSafe' /\ ContentSafe',
           o \notin Requests => (At(o, "record")' => Quiet)
    PROVE  IInv'
<1> USE ParentAssumption
<1>1. TypeOK'
  BY DEF IInv, TypeOK, Moves, HoldBecomes, Passes
<1>2. GenerationsSeen'
  BY DEF IInv, GenerationsSeen, Moves
<1>3. \A p \in Requests : RequestSafe(p)'
  BY DEF IInv, RequestSafe, Moves, HoldBecomes, Requests, Consumers, Scheduling, Holds, Busied, Running, At
<1>4. \A d \in Clones : CloneSafe(d)'
  BY DEF IInv, CloneSafe, Moves, HoldBecomes, Consumers, Holds, Pending, At
<1>5. ParentSafe'
  BY DEF IInv, ParentSafe, Moves, HoldBecomes, Consumers, Holds, At
<1>6. BootstrapSafe'
  BY DEF IInv, BootstrapSafe, HoldBecomes, Consumers, Holds, Busied, ReadyNow, Observed
<1>7. PodsAlone'
  BY DEF IInv, PodsAlone, Moves, Consumers, Requests, Scheduling, Quiet, At, Running, Pending
<1>8. \A p \in Syncs : SyncSafe(p)'
  BY DEF IInv, SyncSafe, Moves, Consumers, Requests, At, Quiet, Running, Busied, ReadyNow, Observed
<1>9. ContentSafe'
  BY DEF IInv, ContentSafe, Moves, HoldBecomes, Consumers, Holds, Quiet, Running, ReadyNow, Observed, At
<1> QED BY <1>1, <1>2, <1>3, <1>4, <1>5, <1>6, <1>7, <1>8, <1>9 DEF IInv

-----------------------------------------------------------------------------
(* The access gate.                                                        *)

\* What Gate.Acquire and its admission say about the Lease: an admitted
\* consumer holds it in its own mode, and a writer then holds it alone.
LEMMA ReserveBecomes ==
    ASSUME IInv, NEW o \in Consumers, lease' = Admit(lease, o, ModeOf(o))
    PROVE  /\ HoldBecomes(o, lease'.mode[o])
           /\ lease'.mode[o] \in {lease.mode[o], ModeOf(o)}
           /\ Admitted(lease, o, ModeOf(o)) => lease'.mode[o] = ModeOf(o)
           /\ HoldsExclusive'
<1> USE ParentAssumption
<1>0. ModeOf(o) = IF o \in Clones THEN "clone" ELSE "write"
  BY DEF ModeOf
<1>1. CASE lease' = lease
  <2>1. Admitted(lease, o, ModeOf(o)) => lease.mode[o] = ModeOf(o)
    BY <1>0, <1>1 DEF IInv, TypeOK, Admit, Admitted, Held, MayAdmit, Put, HoldStates, AccessModes
  <2> QED BY <1>1, <2>1, KeepBecomes DEF IInv, HoldsExclusive, Holds
<1>2. CASE lease' # lease
  <2>1. lease' = Put(lease, o, ModeOf(o)) /\ Conflicts(lease, o, ModeOf(o)) = {}
    BY <1>2 DEF Admit, MayAdmit
  <2>2. HoldBecomes(o, ModeOf(o))
    BY <1>0, <2>1 DEF IInv, TypeOK, Put, HoldBecomes, HoldStates, AccessModes
  <2>3. \A p \in Consumers : p # o /\ lease.mode[p] # "none" =>
            lease.mode[p] = "clone" /\ ModeOf(o) = "clone"
    <3> SUFFICES ASSUME NEW p \in Consumers, p # o, lease.mode[p] # "none"
                 PROVE  lease.mode[p] = "clone" /\ ModeOf(o) = "clone"
      OBVIOUS
    <3>1. <<lease.mode[p], ModeOf(o)>> \notin WriterExcludes
      BY <2>1 DEF Conflicts, Holders
    <3>2. lease.mode[p] \in AccessModes /\ ModeOf(o) \in AccessModes
      BY <1>0 DEF IInv, TypeOK, HoldStates, AccessModes
    <3> QED BY <3>1, <3>2 DEF WriterExcludes
  <2>4. HoldsExclusive'
    BY <1>0, <2>2, <2>3 DEF IInv, HoldsExclusive, HoldBecomes, Holds, Consumers, Requests
  <2> QED BY <2>2, <2>4 DEF HoldBecomes
<1> QED BY <1>1, <1>2

\* A release keeps writers alone.
LEMMA ReleaseExclusive ==
    ASSUME IInv, NEW o \in Consumers, HoldBecomes(o, "none")
    PROVE  HoldsExclusive'
BY DEF IInv, HoldsExclusive, HoldBecomes, Holds, Consumers

\* Acquire: the reservation comes before anything that rests on it.
LEMMA ReserveKeeps ==
    ASSUME IInv, NEW o \in Consumers, Reserve(o)
    PROVE  IInv'
<1> USE ParentAssumption
<1> DEFINE m == lease'.mode[o]
<1>1. HoldBecomes(o, m) /\ m \in {lease.mode[o], ModeOf(o)} /\ HoldsExclusive'
  BY ReserveBecomes DEF Reserve
<1>2. PICK r : /\ Moves(o, r)
               /\ \/ r = Onward(o, "confirm", pass[o].out) /\ m = ModeOf(o)
                  \/ r = NoPass
  BY ReserveBecomes, GoToMoves, EndMoves DEF Reserve, IInv, PassSteps
<1>3. r.gen <= gen /\ r.status.gen <= gen /\ r.pc \in {"confirm", "idle"}
  BY <1>2 DEF IInv, TypeOK, GenerationsSeen, Moves, Passes, NoPass, Onward, Statuses, Gens
<1>4. o \in Requests => RequestSafe(o)' /\ ~Scheduling(o)'
  BY <1>1, <1>2, <1>3 DEF IInv, TypeOK, RequestSafe, Reserve, Moves, HoldBecomes, Requests, Consumers, ModeOf,
     Scheduling, Holds, Busied, Running, At, NoPass, Passes, Onward
<1>5. o \in Syncs => SyncSafe(o)'
  BY <1>2, <1>3 DEF IInv, TypeOK, SyncSafe, Reserve, Moves, Requests, Consumers,
     Quiet, Busied, Running, At, NoPass, Passes, Onward, ReadyNow, Observed
<1>6. o \in Clones => CloneSafe(o)'
  BY <1>1, <1>2, <1>3 DEF IInv, TypeOK, CloneSafe, Reserve, Moves, HoldBecomes, Consumers, ModeOf,
     Holds, Pending, At, NoPass, Passes, Onward
<1>7. o = Parent => ParentSafe' /\ BootstrapSafe' /\ ContentSafe'
  <2> SUFFICES ASSUME o = Parent PROVE ParentSafe' /\ BootstrapSafe' /\ ContentSafe'
    OBVIOUS
  <2>1. m \in {lease.mode[Parent], "write"}
    BY <1>1 DEF ModeOf
  <2>2. ParentSafe'
    BY <1>1, <1>2, <1>3, <2>1 DEF IInv, TypeOK, ParentSafe, Reserve, Moves, HoldBecomes, Consumers, ModeOf,
       Holds, At, NoPass, Passes, Onward, Published
  <2>3. BootstrapSafe'
    BY <1>1, <2>1 DEF IInv, BootstrapSafe, Reserve, Holds, Busied, ReadyNow, Observed
  <2>4. ContentSafe'
    BY <1>1, <1>2, <1>3, <2>1 DEF IInv, TypeOK, ContentSafe, Reserve, Moves, Consumers,
       Holds, At, NoPass, Passes, Onward, Published, Quiet, Running, ReadyNow, Observed
  <2> QED BY <2>2, <2>3, <2>4
<1> QED BY <1>1, <1>2, <1>3, <1>4, <1>5, <1>6, <1>7, OwnStep DEF IInv, TypeOK, Reserve, Moves, At

\* A pass that goes on found the Repository as it had read it and nobody
\* running; one that drops its reservation leaves nothing that rested on it.
LEMMA ConfirmKeeps ==
    ASSUME IInv, NEW o \in Consumers, Confirm(o)
    PROVE  IInv'
<1> USE ParentAssumption
<1> DEFINE m == lease'.mode[o]
<1>1. PICK r : /\ Moves(o, r) /\ HoldBecomes(o, m)
               /\ \/ /\ r = NoPass /\ m = "none"
                     /\ ~Unchanged(o) \/ (NeedsReady(o) /\ ~ReadyNow)
                  \/ /\ r = NoPass /\ lease' = lease
                  \/ /\ r = Onward(o, "record", pass[o].out) /\ lease' = lease
                     /\ Unchanged(o) /\ (NeedsReady(o) => ReadyNow) /\ ConsumersStopped(o)
  <2>1. CASE ~Unchanged(o) \/ (NeedsReady(o) /\ ~ReadyNow)
    <3>1. Moves(o, NoPass) /\ HoldBecomes(o, "none")
      BY <2>1, EndMoves, ReleaseBecomes DEF Confirm, ReleaseHold, IInv
    <3> QED BY <2>1, <3>1 DEF HoldBecomes
  <2>2. CASE ~(~Unchanged(o) \/ (NeedsReady(o) /\ ~ReadyNow))
    <3>1. lease' = lease /\ HoldBecomes(o, m)
      BY <2>2, KeepBecomes DEF Confirm, IInv
    <3>2. \/ Moves(o, NoPass)
          \/ ConsumersStopped(o) /\ Moves(o, Onward(o, "record", pass[o].out))
      BY <2>2, EndMoves, GoToMoves DEF Confirm, IInv, PassSteps
    <3> QED BY <2>2, <3>1, <3>2
  <2> QED BY <2>1, <2>2
<1>2. r.gen <= gen /\ r.status.gen <= gen /\ r.pc \in {"record", "idle"}
  BY <1>1 DEF IInv, TypeOK, GenerationsSeen, Moves, Passes, NoPass, Onward, Statuses, Gens
<1>3. HoldsExclusive'
  BY <1>1, ReleaseExclusive DEF IInv, HoldsExclusive, Holds
<1>4. r.pc = "record" => Quiet
  BY <1>1, <1>2 DEF NoPass, ConsumersStopped, Quiet
<1>5. o \in Requests => RequestSafe(o)'
  <2>1. o \in Requests /\ r.pc = "record" => claim = "recorded"
    <3> SUFFICES ASSUME o \in Requests, r.pc = "record" PROVE status.gen # 0
      BY DEF IInv, GenerationsSeen
    <3>1. Unchanged(o) /\ (NeedsReady(o) => ReadyNow)
      BY <1>1 DEF NoPass
    <3> QED BY <3>1 DEF IInv, TypeOK, SyncSafe, Confirm, At, Unchanged, NeedsReady, ReadyNow, Observed, Requests, Gens
  <2> QED BY <1>1, <1>2, <2>1 DEF IInv, TypeOK, RequestSafe, Confirm, Moves, HoldBecomes, Requests, Consumers,
     Scheduling, Holds, Busied, Running, At, NoPass, Onward
<1>6. o \in Syncs => SyncSafe(o)'
  BY <1>1, <1>2 DEF IInv, TypeOK, SyncSafe, Confirm, Moves, Requests, Consumers, Unchanged,
     Quiet, Busied, Running, At, NoPass, Passes, Onward, ReadyNow, Observed
<1>7. o \in Clones => CloneSafe(o)'
  BY <1>1, <1>2 DEF IInv, TypeOK, CloneSafe, Confirm, Moves, HoldBecomes, Consumers, NeedsReady, ContentSafe, Gens,
     Holds, Pending, At, NoPass, Passes, Onward
<1>8. o = Parent => ParentSafe' /\ BootstrapSafe' /\ ContentSafe'
  <2> SUFFICES ASSUME o = Parent PROVE ParentSafe' /\ BootstrapSafe' /\ ContentSafe'
    OBVIOUS
  <2>1. lease' = lease \/ \A g \in Gens : job[g] \in {"absent", "succeeded", "failed"}
    BY DEF IInv, ParentSafe, Confirm, At
  <2>2. ParentSafe'
    BY <1>1, <1>2, <1>4 DEF IInv, TypeOK, ParentSafe, Confirm, Moves, HoldBecomes, Consumers, Unchanged,
       Holds, At, NoPass, Passes, Onward, Published
  <2>3. BootstrapSafe'
    BY <2>1 DEF IInv, BootstrapSafe, Confirm, Holds, Busied, ReadyNow, Observed
  <2>4. ContentSafe'
    <3>1. lease' # lease => job[gen] # "succeeded" \/ Published(status, gen)
      <4> SUFFICES ASSUME ~Unchanged(Parent), ~Published(status, gen) PROVE job[gen] # "succeeded"
        BY <1>1 DEF NeedsReady, Requests
      <4>1. pass[Parent].gen # gen
        BY DEF IInv, ParentSafe, Confirm, At, Unchanged
      <4>2. gen > pass[Parent].gen
        <5>1. pass[Parent].gen \in 0..MaxGen /\ gen \in Nat /\ pass[Parent].gen <= gen
          BY DEF IInv, GenerationsSeen, TypeOK, Consumers, Gens
        <5> QED BY <4>1, <5>1
      <4> QED BY <4>2 DEF IInv, ParentSafe, Confirm, At, TypeOK
    <3>2. r.pc = "record" => lease' = lease /\ r.gen = pass[Parent].gen /\ r.out = pass[Parent].out
      BY <1>1 DEF NoPass, Onward
    <3> QED BY <1>1, <1>2, <3>1, <3>2 DEF IInv, ContentSafe, Confirm, Moves, Consumers,
            Holds, At, Published, Quiet, Running, ReadyNow, Observed
  <2> QED BY <2>2, <2>3, <2>4
<1> QED BY <1>1, <1>2, <1>3, <1>4, <1>5, <1>6, <1>7, <1>8, OwnStep DEF IInv, TypeOK, Confirm, Moves, At, Scheduling

-----------------------------------------------------------------------------
(* RepositorySync and RepositoryExec.                                      *)

\* The pass a request can begin.
BeginsAs(o, r) ==
    \/ r = NoPass
    \/ /\ r = Onward(o, "abandon", "syncFailed")
       /\ o \in Syncs /\ request[o].recorded /\ request[o].phase = "pending"
    \/ r = Onward(o, "finalize", pass[o].out) /\ request[o].life = "deleting"
    \/ r = Onward(o, "release", pass[o].out) /\ request[o].life = "live" /\ request[o].phase = "done"
    \/ /\ r \in {Onward(o, "parent", "ready"), Onward(o, "parent", "syncFailed")}
       /\ r.out = "ready" => job[o] = "succeeded"
       /\ o \in Syncs /\ request[o].life = "live" /\ request[o].phase = "pending"
       /\ IsFinished(o) \/ (job[o] = "absent" /\ request[o].recorded)
    \/ /\ r = Onward(o, "result", pass[o].out)
       /\ request[o].life = "live" /\ request[o].phase = "pending"
    \/ /\ r = [pc |-> "acquire", gen |-> gen, status |-> status, out |-> "unknown"]
       /\ request[o].life = "live" /\ request[o].phase = "pending" /\ ~request[o].recorded
       /\ o \in Syncs => Observed

\* The cases of a request's pass, by what it finds.
LEMMA BeginRequestMoves ==
    ASSUME IInv, NEW o \in Requests, BeginRequest(o)
    PROVE  \E r : Moves(o, r) /\ BeginsAs(o, r)
<1> USE ParentAssumption DEF IInv, BeginsAs
<1>0. o \in Consumers
  BY DEF Consumers
<1>1. CASE request[o].life = "deleting"
  BY <1>0, <1>1, GoToMoves, ReportMoves DEF BeginRequest, Abandon, PassSteps, StorageStates
<1>2. CASE request[o].life = "live" /\ request[o].phase = "done"
  BY <1>0, <1>2, GoToMoves DEF BeginRequest, PassSteps
<1>3. CASE request[o].life = "live" /\ request[o].phase = "pending"
  <2>1. CASE IsFinished(o)
    <3>1. Complete(o)
      BY <1>3, <2>1 DEF BeginRequest, IsFinished
    <3>2. CASE o \in Syncs
      <4>1. PICK out \in IF job[o] = "succeeded" THEN {"ready", "syncFailed"} ELSE {"syncFailed"} : Report(o, out)
        BY <3>1, <3>2 DEF Complete
      <4>2. Moves(o, Onward(o, "parent", out))
        BY <1>0, <4>1, ReportMoves DEF Report, PassSteps, StorageStates
      <4>3. Onward(o, "parent", out).out = out
        BY DEF Onward
      <4> QED BY <1>3, <2>1, <3>2, <4>1, <4>2, <4>3
    <3>3. CASE o \notin Syncs
      BY <1>0, <1>3, <3>1, <3>3, GoToMoves DEF Complete, PassSteps
    <3> QED BY <3>2, <3>3
  <2>2. CASE job[o] = "absent" /\ request[o].recorded
    <3>1. LoseJob(o)
      BY <1>3, <2>2 DEF BeginRequest, IsFinished
    <3>2. CASE o \in Syncs
      <4>1. Moves(o, Onward(o, "parent", "syncFailed"))
        BY <1>0, <3>1, <3>2, ReportMoves DEF LoseJob, Report, PassSteps, StorageStates
      <4> QED BY <1>3, <2>2, <3>2, <4>1 DEF Onward
    <3>3. CASE o \notin Syncs
      BY <1>0, <1>3, <3>1, <3>3, GoToMoves DEF LoseJob, PassSteps
    <3> QED BY <3>2, <3>3
  <2>3. CASE job[o] = "absent" /\ ~request[o].recorded
    <3>1. Schedule(o)
      BY <1>3, <2>3 DEF BeginRequest, IsFinished
    <3>2. \/ End(o)
          \/ GoTo(o, "result")
          \/ Capture(o, "acquire", "unknown") /\ (o \in Syncs => Observed)
      BY <3>1 DEF Schedule, Requests
    <3> QED BY <1>0, <1>3, <2>3, <3>2, EndMoves, GoToMoves, CaptureMoves DEF PassSteps, StorageStates
  <2>4. CASE ~IsFinished(o) /\ job[o] # "absent"
    BY <1>0, <1>3, <2>4, EndMoves DEF BeginRequest
  <2> QED BY <2>1, <2>2, <2>3, <2>4
<1> QED BY <1>1, <1>2, <1>3 DEF BeginRequest, TypeOK, Lives

\* A request that begins a pass promises nothing yet.
LEMMA BeginRequestKeeps ==
    ASSUME IInv, NEW o \in Requests, BeginRequest(o)
    PROVE  IInv'
<1> USE ParentAssumption
<1>0. o \in Consumers /\ o \notin Clones /\ o # Parent
  BY DEF Consumers, Requests
<1>1. PICK r : Moves(o, r) /\ BeginsAs(o, r)
  BY BeginRequestMoves
<1>2. r.gen <= gen /\ r.status.gen <= gen
  BY <1>0, <1>1 DEF IInv, TypeOK, GenerationsSeen, NoPass, Statuses, Gens, BeginsAs, Onward
<1>3. HoldsExclusive' /\ HoldBecomes(o, lease.mode[o])
  BY <1>0, KeepBecomes DEF IInv, BeginRequest, HoldsExclusive, Holds
<1>4. ~Scheduling(o)'
  BY <1>0, <1>1 DEF Scheduling, At, Moves, NoPass, BeginsAs, Onward
<1>5. RequestSafe(o)'
  BY <1>0, <1>1, <1>4 DEF IInv, TypeOK, RequestSafe, BeginRequest, Moves, IsFinished,
     Holds, Busied, Running, At, NoPass, BeginsAs, Onward, Scheduling
<1>6. o \in Syncs => SyncSafe(o)'
  BY <1>0, <1>1 DEF IInv, TypeOK, SyncSafe, BeginRequest, Moves, IsFinished, Gens,
     Quiet, Busied, Running, At, NoPass, BeginsAs, Onward, ReadyNow, Observed
<1> QED BY <1>0, <1>1, <1>2, <1>3, <1>4, <1>5, <1>6, OwnStep DEF IInv, TypeOK, BeginRequest

\* A pass that ends or fails leaves its hold; the next one finds it.
LEMMA PassFailsKeeps ==
    ASSUME IInv, NEW o \in Consumers, PassFails(o)
    PROVE  IInv'
<1> USE ParentAssumption
<1>1. Moves(o, NoPass) /\ HoldBecomes(o, lease.mode[o]) /\ NoPass.pc = "idle"
  BY EndMoves, KeepBecomes DEF IInv, PassFails, NoPass
<1>2. NoPass.gen <= gen /\ NoPass.status.gen <= gen
  BY DEF IInv, TypeOK, NoPass, Gens
<1>3. HoldsExclusive'
  BY DEF IInv, PassFails, HoldsExclusive, Holds
<1>4. disruptions' \in 0..MaxDisruptions
  BY DEF IInv, TypeOK, PassFails, Disrupt
<1>5. o \in Requests => RequestSafe(o)' /\ ~Scheduling(o)'
  BY <1>1 DEF IInv, RequestSafe, PassFails, Moves, Holds, Busied, Running, At, Scheduling
<1>6. o \in Syncs => SyncSafe(o)'
  BY <1>1 DEF IInv, SyncSafe, PassFails, Moves, Quiet, Busied, Running, At, ReadyNow, Observed
<1>7. o \in Clones => CloneSafe(o)'
  BY <1>1 DEF IInv, CloneSafe, PassFails, Moves, Holds, Pending, At
<1>8. o = Parent => ParentSafe' /\ BootstrapSafe' /\ ContentSafe'
  BY <1>1 DEF IInv, ParentSafe, BootstrapSafe, ContentSafe, PassFails, Moves, Holds, At,
     Busied, Published, Quiet, Running, ReadyNow, Observed
<1> QED BY <1>1, <1>2, <1>3, <1>4, <1>5, <1>6, <1>7, <1>8, OwnStep DEF IInv, TypeOK, PassFails, Moves, At

-----------------------------------------------------------------------------
(* Worktrees.                                                              *)

\* A Worktree that begins a pass promises nothing yet.
LEMMA BeginCloneKeeps ==
    ASSUME IInv, NEW c \in Clones, BeginClone(c)
    PROVE  IInv'
<1> USE ParentAssumption
<1>0. c \in Consumers /\ c \notin Requests /\ c # Parent
  BY DEF Consumers, Requests
<1>1. \/ End(c)
      \/ GoTo(c, "finalize") /\ child[c].claim # "pending"
      \/ GoTo(c, "release") /\ child[c].claim # "pending"
      \/ Capture(c, "acquire", "unknown") /\ child[c].claim = "none"
  BY DEF IInv, TypeOK, BeginClone, Provisioned, Lives
<1>2. PICK r : /\ Moves(c, r)
               /\ \/ r = NoPass
                  \/ r = Onward(c, "finalize", pass[c].out) /\ child[c].claim # "pending"
                  \/ r = Onward(c, "release", pass[c].out) /\ child[c].claim # "pending"
                  \/ /\ r = [pc |-> "acquire", gen |-> gen, status |-> status, out |-> "unknown"]
                     /\ child[c].claim = "none"
  BY <1>0, <1>1, EndMoves, GoToMoves, CaptureMoves DEF IInv, PassSteps, StorageStates
<1>3. r.gen <= gen /\ r.status.gen <= gen /\ r.pc # "record"
  BY <1>0, <1>2 DEF IInv, TypeOK, GenerationsSeen, NoPass, Onward, Statuses, Gens
<1>4. HoldsExclusive' /\ HoldBecomes(c, lease.mode[c])
  BY <1>0, KeepBecomes DEF IInv, BeginClone, HoldsExclusive, Holds
<1>5. CloneSafe(c)'
  BY <1>0, <1>2 DEF IInv, CloneSafe, BeginClone, Moves, Holds, Pending, At, NoPass, Onward
<1> QED BY <1>0, <1>2, <1>3, <1>4, <1>5, OwnStep DEF IInv, TypeOK, BeginClone, Moves, At, Requests

-----------------------------------------------------------------------------
(* The Repository.                                                         *)

\* The Repository gives the parent back after its result is published.
LEMMA ReleaseParentKeeps ==
    ASSUME IInv, ReleaseParent
    PROVE  IInv'
<1> USE ParentAssumption
<1>0. Parent \in Consumers /\ Parent \notin Requests /\ Parent \notin Clones /\ Parent \notin Syncs
  BY DEF Consumers, Requests
<1>1. Moves(Parent, NoPass) /\ HoldBecomes(Parent, "none") /\ NoPass.pc = "idle"
  BY <1>0, EndMoves, ReleaseBecomes DEF IInv, ReleaseParent, ReleaseHold, NoPass
<1>2. NoPass.gen <= gen /\ NoPass.status.gen <= gen
  BY DEF IInv, TypeOK, NoPass, Gens
<1>3. HoldsExclusive'
  BY <1>0, <1>1, ReleaseExclusive
<1>4. ParentSafe' /\ BootstrapSafe'
  BY <1>1 DEF IInv, ParentSafe, BootstrapSafe, ReleaseParent, Moves, At, Busied
<1>5. ContentSafe'
  BY <1>0, <1>1 DEF IInv, ContentSafe, ParentSafe, ReleaseParent, Moves, Holds, At,
     Published, Quiet, Running, ReadyNow, Observed
<1> QED BY <1>0, <1>1, <1>2, <1>3, <1>4, <1>5, OwnStep DEF IInv, TypeOK, ReleaseParent, Moves, At

\* The Repository begins only when no other bootstrap Job is active and no sync
\* owns its status; a parent that is ready is released.
LEMMA BeginParentKeeps ==
    ASSUME IInv, BeginParent
    PROVE  IInv'
<1> USE ParentAssumption
<1>0. Parent \in Consumers /\ Parent \notin Requests /\ Parent \notin Clones /\ Parent \notin Syncs
  BY DEF Consumers, Requests
<1>1. CASE claim = "recorded" /\ ReadyNow
  <2>1. pass' = pass /\ HoldBecomes(Parent, "none") /\ claim' = claim
    BY <1>0, <1>1, ReleaseBecomes DEF IInv, BeginParent
  <2>2. Moves(Parent, pass[Parent])
    BY <1>0, <2>1 DEF IInv, TypeOK, Moves, Passes
  <2>3. pass[Parent].gen <= gen /\ pass[Parent].status.gen <= gen
    BY <1>0 DEF IInv, GenerationsSeen
  <2>4. HoldsExclusive'
    BY <1>0, <2>1, ReleaseExclusive
  <2>5. ParentSafe' /\ BootstrapSafe' /\ ContentSafe'
    BY <1>1, <2>1 DEF IInv, TypeOK, ParentSafe, BootstrapSafe, ContentSafe, BeginParent, At, Holds, Busied,
       Published, Quiet, Running, ReadyNow, Observed
  <2> QED BY <1>0, <1>1, <2>1, <2>2, <2>3, <2>4, <2>5, OwnStep DEF IInv, TypeOK, BeginParent, At
<1>2. CASE ~(claim = "recorded" /\ ReadyNow)
  <2> DEFINE r(pc, out) == [pc |-> pc, gen |-> gen, status |-> status, out |-> out]
  <2>1. /\ lease' = lease /\ HoldBecomes(Parent, lease.mode[Parent])
        /\ claim' \in {"none", "created", "recorded"} /\ (claim' = "recorded" <=> claim = "recorded")
    BY <1>0, <1>2, KeepBecomes DEF IInv, TypeOK, BeginParent
  <2>2. PICK pc \in {"acquire", "status"}, out \in {"working", "ready", "failed"} :
            /\ Moves(Parent, r(pc, out))
            /\ pc = "acquire" => claim = "recorded" /\ (IsFinished(gen) \/ job[gen] = "absent")
            /\ pc = "acquire" /\ out = "ready" => job[gen] = "succeeded"
            /\ pc = "acquire" /\ out = "working" => job[gen] = "absent"
            /\ pc = "acquire" /\ out = "failed" => job[gen] = "failed"
            /\ pc = "status" => out = "working"
            /\ pc = "status" /\ claim = "recorded" => Busied(gen)
    <3>1. CASE claim # "recorded"
      <4>1. Capture(Parent, "status", "working")
        BY <3>1 DEF BeginParent
      <4>2. Moves(Parent, r("status", "working"))
        BY <1>0, <4>1, CaptureMoves DEF IInv, PassSteps, StorageStates
      <4> QED BY <3>1, <4>2
    <3>2. CASE claim = "recorded"
      <4>1. \/ job[gen] = "absent" /\ Capture(Parent, "acquire", "working")
            \/ job[gen] = "succeeded" /\ Capture(Parent, "acquire", "ready")
            \/ job[gen] = "failed" /\ Capture(Parent, "acquire", "failed")
            \/ job[gen] \notin {"absent", "succeeded", "failed"} /\ Capture(Parent, "status", "working")
        BY <1>2, <3>2 DEF BeginParent
      <4>2. Busied(gen) \/ job[gen] \in {"absent", "succeeded", "failed"}
        BY DEF IInv, TypeOK, BootstrapSafe, Busied, Jobs
      <4>3. \/ job[gen] = "absent" /\ Moves(Parent, r("acquire", "working"))
            \/ job[gen] = "succeeded" /\ Moves(Parent, r("acquire", "ready"))
            \/ job[gen] = "failed" /\ Moves(Parent, r("acquire", "failed"))
            \/ Busied(gen) /\ Moves(Parent, r("status", "working"))
        BY <1>0, <4>1, <4>2, CaptureMoves DEF IInv, PassSteps, StorageStates
      <4> QED BY <3>2, <4>3 DEF IsFinished
    <3> QED BY <3>1, <3>2
  <2>3. r(pc, out).gen <= gen /\ r(pc, out).status.gen <= gen /\ r(pc, out).pc # "record"
    BY DEF IInv, TypeOK, GenerationsSeen, Gens
  <2>4. HoldsExclusive'
    BY <2>1 DEF IInv, HoldsExclusive, Holds
  <2>5. /\ pass'[Parent].pc = pc /\ pass'[Parent].gen = gen /\ pass'[Parent].status = status
        /\ pass'[Parent].out = out
    BY <2>2 DEF Moves
  <2>6. /\ gen \in Gens
        /\ \A g \in Gens : g # gen => job[g] \in {"absent", "succeeded", "failed"}
        /\ \A g \in Gens : g > gen => job[g] = "absent"
        /\ status.gen <= gen
        /\ ~(status.gen = gen /\ status.state \in {"syncing", "syncFailed"})
    BY DEF IInv, TypeOK, GenerationsSeen, BeginParent, PreviousRuns, IsFinished, SyncOwnsStatus, Observed
  <2>7. ParentSafe'
    <3>1. ~Published(status, gen)
      BY <1>2, <2>2, <2>6 DEF IInv, GenerationsSeen, TypeOK, Published, ReadyNow, Observed, Gens
    <3>2. pc = "status" /\ claim = "recorded" => Holds(Parent, "write")
      BY <2>2, <2>6 DEF IInv, BootstrapSafe
    <3> QED BY <2>1, <2>2, <2>5, <2>6, <3>1, <3>2 DEF ParentSafe, BeginParent, Holds, At, IsFinished, Published, Gens
  <2>8. BootstrapSafe'
    BY <2>1 DEF IInv, BootstrapSafe, BeginParent, Holds, Busied, ReadyNow, Observed
  <2>9. ContentSafe'
    BY <1>2, <2>1, <2>2, <2>5, <2>6 DEF IInv, ContentSafe, BeginParent, Holds,
       IsFinished, Published, ReadyNow, Observed, Quiet, Running, At
  <2> QED BY <1>0, <2>1, <2>2, <2>3, <2>4, <2>5, <2>7, <2>8, <2>9, OwnStep DEF IInv, TypeOK, BeginParent, At
<1> QED BY <1>1, <1>2

-----------------------------------------------------------------------------
(* The other steps of requests.                                            *)

RequestObjects == [phase : {"pending", "done", "released"}, recorded : BOOLEAN, gen : 0..MaxGen, life : Lives]

\* Request o becomes q, and no other changes.
RequestBecomes(o, q) ==
    /\ q \in RequestObjects
    /\ request' \in [Requests -> RequestObjects]
    /\ request'[o] = q
    /\ \A p \in Requests : p # o => request'[p] = request[p]

\* The requests that the steps construct are requests.
LEMMA RequestTypes ==
    ASSUME TypeOK, NEW o \in Requests
    PROVE  /\ request[o] \in RequestObjects
           /\ \A phase \in {"pending", "done", "released"} :
                [request[o] EXCEPT !.phase = phase] \in RequestObjects
           /\ \A life \in Lives : [request[o] EXCEPT !.life = life] \in RequestObjects
BY SMTT(30) DEF TypeOK, RequestObjects

\* A new phase changes nothing else of a request.
LEMMA PhaseBecomes ==
    ASSUME TypeOK, NEW o \in Requests, NEW phase \in {"pending", "done", "released"},
           request' = [request EXCEPT ![o].phase = phase]
    PROVE  /\ RequestBecomes(o, request'[o])
           /\ request'[o].recorded <=> request[o].recorded
           /\ request'[o].gen = request[o].gen
           /\ request'[o].phase = phase /\ request'[o].life = request[o].life
BY RequestTypes DEF TypeOK, RequestBecomes, RequestObjects

\* A deletion changes nothing else of a request.
LEMMA LifeBecomes ==
    ASSUME TypeOK, NEW o \in Requests, NEW life \in Lives,
           request' = [request EXCEPT ![o].life = life]
    PROVE  /\ RequestBecomes(o, request'[o])
           /\ request'[o].recorded <=> request[o].recorded
           /\ request'[o].gen = request[o].gen
           /\ request'[o].phase = request[o].phase /\ request'[o].life = life
BY RequestTypes DEF TypeOK, RequestBecomes, RequestObjects

\* Recording the Job changes neither phase nor life of a request.
LEMMA RecordBecomes ==
    ASSUME TypeOK, NEW o \in Requests, NEW g \in 0..MaxGen,
           request' = [request EXCEPT ![o].recorded = TRUE, ![o].gen = g]
    PROVE  /\ RequestBecomes(o, request'[o])
           /\ request'[o].recorded /\ request'[o].gen = g
           /\ request'[o].phase = request[o].phase /\ request'[o].life = request[o].life
<1> DEFINE t == [request[o] EXCEPT !.recorded = TRUE]
           q == [t EXCEPT !.gen = g]
<1>1. t \in RequestObjects /\ t.phase = request[o].phase /\ t.recorded /\ t.life = request[o].life
  BY RequestTypes DEF RequestObjects
<1>2. q \in RequestObjects /\ q.phase = request[o].phase /\ q.recorded /\ q.gen = g /\ q.life = request[o].life
  <2> HIDE DEF t
  <2> QED BY <1>1 DEF RequestObjects
<1>3. request'[o] = q /\ \A p \in Requests : p # o => request'[p] = request[p]
  BY DEF TypeOK
<1>4. request' \in [Requests -> RequestObjects]
  <2> HIDE DEF q
  <2> QED BY <1>2, <1>3 DEF TypeOK, RequestObjects
<1> HIDE DEF q
<1> QED BY <1>2, <1>3, <1>4 DEF RequestBecomes

\* The Job is recorded, under the write hold and with nobody running, before
\* it exists.
LEMMA RecordKeeps ==
    ASSUME IInv, NEW o \in Requests, Record(o)
    PROVE  IInv'
<1> USE ParentAssumption
<1>0. /\ o \in Consumers /\ o \notin Clones /\ o # Parent
      /\ pass[o].gen \in 0..MaxGen /\ pass[o].gen <= gen /\ pass[o].status.gen <= gen
  BY DEF IInv, TypeOK, GenerationsSeen, Consumers, Requests
<1>1. /\ Holds(o, "write") /\ Quiet /\ ~request[o].recorded
      /\ request[o].phase = "pending" /\ request[o].life # "gone"
      /\ job[o] = "absent" /\ pods[o] = 0 /\ starts[o] = 0
  BY DEF IInv, RequestSafe, PodsAlone, Record, At, Scheduling
<1>2. CASE UNCHANGED request /\ GoTo(o, "result")
  <2>1. Moves(o, Onward(o, "result", pass[o].out)) /\ HoldBecomes(o, lease.mode[o])
    BY <1>0, <1>2, GoToMoves, KeepBecomes DEF IInv, Record, PassSteps
  <2>2. HoldsExclusive'
    BY DEF IInv, HoldsExclusive, Record, Holds
  <2>3. RequestSafe(o)' /\ ~Scheduling(o)'
    BY <1>1, <1>2, <2>1 DEF IInv, RequestSafe, Record, Moves, Onward, At, Scheduling, Holds, Busied, Running
  <2>4. o \in Syncs => SyncSafe(o)'
    BY <1>1, <1>2, <2>1 DEF IInv, SyncSafe, Record, Moves, Onward, At, Quiet, Busied, Running, ReadyNow, Observed
  <2> QED BY <1>0, <2>1, <2>2, <2>3, <2>4, <1>2, OwnStep DEF IInv, TypeOK, Record, Moves, At, Onward
<1>3. CASE ~(UNCHANGED request /\ GoTo(o, "result"))
  <2>1. request' = [request EXCEPT ![o].recorded = TRUE, ![o].gen = pass[o].gen]
    BY <1>3 DEF Record
  <2>2. /\ RequestBecomes(o, request'[o])
        /\ request'[o].recorded /\ request'[o].gen = pass[o].gen
        /\ request'[o].phase = request[o].phase /\ request'[o].life = request[o].life
    BY <1>0, <2>1, RecordBecomes DEF IInv
  <2>3. PICK r : /\ Moves(o, r)
                 /\ \/ o \in Syncs /\ r = Onward(o, "parent", "syncing")
                    \/ o \notin Syncs /\ r = Onward(o, "create", pass[o].out)
    BY <1>0, <1>3, ReportMoves, GoToMoves DEF IInv, Record, Report, PassSteps, StorageStates
  <2>4. r.gen <= gen /\ r.status.gen <= gen
    BY <1>0, <2>3 DEF Onward
  <2>5. UNCHANGED <<gen, status, claim, content, lease, job, pods, starts, child, disruptions>>
    BY DEF Record
  <2>6. TypeOK'
    BY <2>2, <2>3, <2>5 DEF IInv, TypeOK, Moves, Passes, RequestBecomes, RequestObjects
  <2>7. HoldsExclusive'
    BY <2>5 DEF IInv, HoldsExclusive, Holds
  <2>8. GenerationsSeen'
    <3>1. claim = "recorded"
      BY <1>1 DEF IInv, RequestSafe, Record
    <3> QED BY <1>0, <2>2, <2>3, <2>4, <2>5, <3>1 DEF IInv, GenerationsSeen, RequestBecomes, Moves
  <2>9. \A p \in Requests : RequestSafe(p)'
    BY <1>0, <1>1, <2>2, <2>3, <2>5 DEF IInv, RequestSafe, RequestBecomes, Moves, Onward, At, Scheduling, Holds,
       Busied, Running, Consumers
  <2>10. (\A d \in Clones : CloneSafe(d))' /\ ParentSafe'
    BY <1>0, <2>3, <2>5 DEF IInv, CloneSafe, ParentSafe, Moves, At, Holds, Pending, Published, Consumers
  <2>11. BootstrapSafe'
    BY <2>5 DEF IInv, BootstrapSafe, Holds, Busied, ReadyNow, Observed
  <2>12. PodsAlone'
    BY <1>0, <1>1, <2>3, <2>5 DEF IInv, PodsAlone, Moves, At, Scheduling, Quiet, Running, Pending, Consumers
  <2>13. \A p \in Syncs : SyncSafe(p)'
    BY <1>0, <1>1, <2>2, <2>3, <2>5 DEF IInv, SyncSafe, RequestBecomes, Moves, Onward, At, Record, Quiet,
       Busied, Running, ReadyNow, Observed, Consumers, Requests
  <2>14. ContentSafe'
    BY <1>0, <2>3, <2>5 DEF IInv, ContentSafe, Moves, At, Holds, Quiet, Running, ReadyNow, Observed, Published, Consumers
  <2> QED BY <2>6, <2>7, <2>8, <2>9, <2>10, <2>11, <2>12, <2>13, <2>14 DEF IInv
<1> QED BY <1>2, <1>3

\* A sync reports while it holds the parent, so no other outcome is on its way;
\* an outcome for an older generation is dropped.
LEMMA SetParentKeeps ==
    ASSUME IInv, NEW o \in Requests, SetParent(o)
    PROVE  IInv'
<1> USE ParentAssumption
<1>1. /\ o \in Consumers /\ o \in Syncs /\ o # Parent /\ o \notin Clones
      /\ request[o].recorded /\ request[o].phase = "pending" /\ request[o].life # "gone"
      /\ Holds(o, "write")
      /\ claim = "recorded" /\ request[o].gen \in Nat /\ request[o].gen <= gen
  BY DEF IInv, TypeOK, RequestSafe, GenerationsSeen, SetParent, At, Consumers, Requests
<1>2. \A p \in Consumers : p # o => ~Holds(p, "write") /\ ~Holds(p, "clone")
  BY <1>1 DEF IInv, HoldsExclusive, Holds
<1>3. PICK r : /\ Moves(o, r)
               /\ \/ At(o, "parent") /\ pass[o].out = "syncing" /\ r = Onward(o, "create", pass[o].out)
                  \/ At(o, "parent") /\ pass[o].out # "syncing" /\ r = Onward(o, "result", pass[o].out)
                  \/ At(o, "abandon") /\ r = Onward(o, "finalize", pass[o].out)
  BY <1>1, GoToMoves DEF IInv, SetParent, PassSteps
<1>4. r.gen <= gen /\ r.status.gen <= gen
  BY <1>1, <1>3 DEF IInv, GenerationsSeen, Onward
<1>5. /\ status' \in Statuses
      /\ request[o].gen = gen => status'.gen = gen /\ status'.state = pass[o].out
      /\ request[o].gen # gen => status' = status
      /\ pass[o].out \in {"syncing", "syncFailed", "ready"}
      /\ pass[o].out = "ready" => content = request[o].gen /\ Quiet
  BY <1>1 DEF IInv, TypeOK, SetParent, SetStorageReady, SyncSafe, Statuses, StorageStates, At, Gens
<1>6. UNCHANGED <<gen, claim, content, lease, request, job, pods, starts, child, disruptions>>
  BY DEF SetParent
<1>7. TypeOK'
  BY <1>1, <1>2, <1>3, <1>4, <1>5, <1>6 DEF IInv, TypeOK, Passes, RequestObjects, Lives, Moves, Onward,
     Consumers, Gens
<1>8. HoldsExclusive'
  BY <1>1, <1>2, <1>3, <1>4, <1>5, <1>6 DEF IInv, HoldsExclusive, Holds, Moves, Onward, Consumers, Gens
<1>9. GenerationsSeen'
  BY <1>1, <1>2, <1>3, <1>4, <1>5, <1>6 DEF IInv, GenerationsSeen, TypeOK, Statuses, Moves, Onward, Consumers,
     Gens
<1>10. \A p \in Requests : RequestSafe(p)'
  BY <1>1, <1>2, <1>3, <1>4, <1>5, <1>6 DEF IInv, RequestSafe, At, Scheduling, Holds, Busied, Running, Moves,
     Onward, Consumers, Gens
<1>11. \A d \in Clones : CloneSafe(d)'
  BY <1>1, <1>2, <1>3, <1>4, <1>5, <1>6 DEF IInv, CloneSafe, At, Holds, Pending, Moves, Onward, Consumers, Gens
<1>12. ParentSafe'
  BY <1>1, <1>2, <1>3, <1>4, <1>5, <1>6 DEF IInv, ParentSafe, At, Holds, Published, TypeOK, Statuses, Moves,
     Onward, Consumers, Gens
<1>13. BootstrapSafe'
  BY <1>1, <1>2, <1>3, <1>4, <1>5, <1>6 DEF IInv, BootstrapSafe, Holds, Busied, ReadyNow, Observed, Moves,
     Onward, Consumers, Gens
<1>14. PodsAlone'
  BY <1>1, <1>2, <1>3, <1>4, <1>5, <1>6 DEF IInv, PodsAlone, At, Scheduling, Quiet, Running, Pending, Moves,
     Onward, Consumers, Gens
<1>15. \A p \in Syncs : SyncSafe(p)'
  <2> SUFFICES ASSUME NEW p \in Syncs PROVE SyncSafe(p)'
    OBVIOUS
  <2>1. CASE p = o
    <3>1. pass[o].out = "syncing" => ~ReadyNow'
      BY <1>1, <1>3, <1>5, <1>6 DEF IInv, SyncSafe, SetParent, At, ReadyNow, Observed
    <3> QED BY <1>1, <1>3, <1>5, <1>6, <2>1, <3>1 DEF IInv, TypeOK, SyncSafe, Moves, Onward, Consumers, Requests, Jobs,
            At, Quiet, Busied, Running, ReadyNow, Observed
  <2>2. CASE p # o
    <3>1. /\ pass'[p] = pass[p] /\ ~Busied(p) /\ ~Running(p)
          /\ pass[p].pc \notin {"confirm", "record", "parent", "create"}
          /\ ~(job[p] = "succeeded" /\ request[p].phase = "pending")
      BY <1>2, <1>3, <2>2 DEF IInv, RequestSafe, Moves, Consumers, Requests, At, Holds, Scheduling
    <3> QED BY <1>6, <2>2, <3>1 DEF IInv, SyncSafe, At, Busied, Running
  <2> QED BY <2>1, <2>2
<1>16. ContentSafe'
  <2>1. ReadyNow' => content = gen /\ \A k \in Gens : ~Running(k)
    BY <1>1, <1>5, <1>6 DEF IInv, ContentSafe, ReadyNow, Observed, Quiet, Jobs
  <2>2. Published(status', gen) <=> Published(status, gen) \/ request[o].gen = gen
    BY <1>1, <1>5 DEF Published
  <2>3. pass'[Parent] = pass[Parent] /\ ~Holds(Parent, "write")
    BY <1>1, <1>2, <1>3 DEF Moves, Consumers
  <2> QED BY <1>6, <2>1, <2>2, <2>3 DEF IInv, ContentSafe, At, Holds, Quiet, Running, Published, ReadyNow, Observed
<1> QED BY <1>7, <1>8, <1>9, <1>10, <1>11, <1>12, <1>13, <1>14, <1>15, <1>16 DEF IInv

\* The Job is created under the hold of the pass that recorded it.
LEMMA CreateJobKeeps ==
    ASSUME IInv, NEW o \in Requests, CreateJob(o)
    PROVE  IInv'
<1> USE ParentAssumption
<1>1. /\ o \in Consumers /\ o # Parent /\ o \notin Clones /\ o \notin Gens /\ o \in Jobs
      /\ job[o] = "absent" /\ starts[o] = 0 /\ request[o].recorded /\ Holds(o, "write") /\ Quiet
      /\ request[o].phase = "pending" /\ request[o].life # "gone"
  BY DEF IInv, RequestSafe, PodsAlone, CreateJob, At, Scheduling, Consumers, Requests, Gens, Jobs
<1>2. Moves(o, NoPass) /\ NoPass.pc = "idle" /\ NoPass.gen <= gen /\ NoPass.status.gen <= gen
  BY <1>1, EndMoves DEF IInv, TypeOK, CreateJob, NoPass, Gens
<1>3. /\ job' \in [Jobs -> {"absent", "created", "active", "succeeded", "failed", "deleting"}]
      /\ job'[o] = "created" /\ \A k \in Jobs : k # o => job'[k] = job[k]
  BY <1>1 DEF IInv, TypeOK, CreateJob
<1>4. UNCHANGED <<gen, status, claim, content, lease, request, pods, starts, child, disruptions>>
  BY DEF CreateJob
<1>5. TypeOK'
  BY <1>1, <1>2, <1>3, <1>4 DEF IInv, TypeOK, Passes, RequestObjects, Lives, Moves, Consumers, Jobs
<1>6. HoldsExclusive'
  BY <1>1, <1>2, <1>3, <1>4 DEF IInv, HoldsExclusive, Holds, Moves, Consumers, Jobs
<1>7. GenerationsSeen'
  BY <1>1, <1>2, <1>3, <1>4 DEF IInv, GenerationsSeen, Moves, Consumers, Jobs
<1>8. \A p \in Requests : RequestSafe(p)'
  BY <1>1, <1>2, <1>3, <1>4 DEF IInv, RequestSafe, At, Scheduling, Holds, Busied, Running, Moves, Consumers,
     Jobs
<1>9. \A d \in Clones : CloneSafe(d)'
  BY <1>1, <1>2, <1>3, <1>4 DEF IInv, CloneSafe, At, Holds, Pending, Moves, Consumers, Jobs
<1>10. ParentSafe'
  <2>1. pass'[Parent] = pass[Parent] /\ pass[Parent].gen \in 0..MaxGen
    BY <1>1, <1>2 DEF IInv, TypeOK, Moves, Consumers
  <2>2. \A g \in Gens : job'[g] = job[g]
    BY <1>1, <1>3 DEF Jobs
  <2>3. pass[Parent].gen # 0 => pass[Parent].gen \in Gens
    BY <2>1 DEF Gens
  <2> QED BY <1>4, <2>1, <2>2, <2>3 DEF IInv, ParentSafe, At, Holds, Published
<1>11. BootstrapSafe'
  BY <1>1, <1>2, <1>3, <1>4 DEF IInv, BootstrapSafe, Holds, Busied, ReadyNow, Observed, TypeOK, Moves,
     Consumers, Jobs
<1>12. PodsAlone'
  BY <1>1, <1>2, <1>3, <1>4 DEF IInv, PodsAlone, At, Scheduling, Quiet, Running, Pending, Moves, Consumers, Jobs
<1>13. \A p \in Syncs : SyncSafe(p)'
  BY <1>1, <1>2, <1>3, <1>4 DEF IInv, SyncSafe, At, Quiet, Busied, Running, ReadyNow, Observed, Requests,
     CreateJob, Moves, Consumers, Jobs
<1>14. ContentSafe'
  BY <1>1, <1>2, <1>3, <1>4 DEF IInv, ContentSafe, At, Holds, Quiet, Running, ReadyNow, Observed, Published,
     TypeOK, Moves, Consumers, Jobs
<1> QED BY <1>5, <1>6, <1>7, <1>8, <1>9, <1>10, <1>11, <1>12, <1>13, <1>14 DEF IInv

\* A result ends the scheduling of a request for good.
LEMMA SetResultKeeps ==
    ASSUME IInv, NEW o \in Requests, SetResult(o)
    PROVE  IInv'
<1> USE ParentAssumption
<1>1. o \in Consumers /\ o # Parent /\ o \notin Clones /\ At(o, "result")
  BY DEF Consumers, Requests, SetResult
<1>2. Moves(o, NoPass) /\ NoPass.pc = "idle" /\ NoPass.gen <= gen /\ NoPass.status.gen <= gen
  BY <1>1, EndMoves DEF IInv, TypeOK, SetResult, NoPass, Gens
<1>3. /\ RequestBecomes(o, request'[o])
      /\ request'[o].recorded <=> request[o].recorded
      /\ request'[o].gen = request[o].gen
      /\ request'[o].phase = "done" /\ request'[o].life = request[o].life
  BY PhaseBecomes DEF IInv, SetResult
<1>4. UNCHANGED <<gen, status, claim, content, lease, job, pods, starts, child, disruptions>>
  BY DEF SetResult
<1>5. TypeOK'
  BY <1>1, <1>2, <1>3, <1>4 DEF IInv, TypeOK, Passes, RequestObjects, Lives, Moves, RequestBecomes, Consumers
<1>6. HoldsExclusive'
  BY <1>1, <1>2, <1>3, <1>4 DEF IInv, HoldsExclusive, Holds, Moves, RequestBecomes, Consumers
<1>7. GenerationsSeen'
  BY <1>1, <1>2, <1>3, <1>4 DEF IInv, GenerationsSeen, Moves, RequestBecomes, Consumers
<1>8. \A p \in Requests : RequestSafe(p)'
  BY <1>1, <1>2, <1>3, <1>4 DEF IInv, RequestSafe, At, Scheduling, Holds, Busied, Running, Moves,
     RequestBecomes, Consumers
<1>9. \A d \in Clones : CloneSafe(d)'
  BY <1>1, <1>2, <1>3, <1>4 DEF IInv, CloneSafe, At, Holds, Pending, Moves, RequestBecomes, Consumers
<1>10. ParentSafe'
  BY <1>1, <1>2, <1>3, <1>4 DEF IInv, ParentSafe, At, Holds, Published, Moves, RequestBecomes, Consumers
<1>11. BootstrapSafe'
  BY <1>1, <1>2, <1>3, <1>4 DEF IInv, BootstrapSafe, Holds, Busied, ReadyNow, Observed, Moves, RequestBecomes,
     Consumers
<1>12. PodsAlone'
  BY <1>1, <1>2, <1>3, <1>4 DEF IInv, PodsAlone, At, Scheduling, Quiet, Running, Pending, Moves, RequestBecomes,
     Consumers
<1>13. \A p \in Syncs : SyncSafe(p)'
  BY <1>1, <1>2, <1>3, <1>4 DEF IInv, SyncSafe, At, Quiet, Busied, Running, ReadyNow, Observed, Requests, Moves,
     RequestBecomes, Consumers
<1>14. ContentSafe'
  BY <1>1, <1>2, <1>3, <1>4 DEF IInv, ContentSafe, At, Holds, Quiet, Running, ReadyNow, Observed, Published,
     Moves, RequestBecomes, Consumers
<1> QED BY <1>5, <1>6, <1>7, <1>8, <1>9, <1>10, <1>11, <1>12, <1>13, <1>14 DEF IInv

\* The reservation of a finished request goes after its Job and Pods.
LEMMA ReleaseOperationKeeps ==
    ASSUME IInv, NEW o \in Requests, ReleaseOperation(o)
    PROVE  IInv'
<1> USE ParentAssumption
<1>1. /\ o \in Consumers /\ o # Parent /\ o \notin Clones
      /\ request[o].phase = "done" /\ request[o].life # "gone"
  BY DEF IInv, RequestSafe, ReleaseOperation, At, Consumers, Requests
<1>2. Moves(o, NoPass) /\ NoPass.pc = "idle" /\ NoPass.gen <= gen /\ NoPass.status.gen <= gen
  BY <1>1, EndMoves DEF IInv, TypeOK, ReleaseOperation, NoPass, Gens
<1>3. CASE ~Stopped(o, FALSE)
  <2>1. UNCHANGED <<lease, request>> /\ HoldBecomes(o, lease.mode[o])
    BY <1>1, <1>3, KeepBecomes DEF IInv, ReleaseOperation
  <2>2. HoldsExclusive'
    BY <2>1 DEF IInv, HoldsExclusive, Holds
  <2>3. RequestSafe(o)' /\ ~Scheduling(o)'
    BY <1>1, <1>2, <2>1 DEF IInv, RequestSafe, ReleaseOperation, Moves, At, Scheduling, Holds, Busied, Running
  <2>4. o \in Syncs => SyncSafe(o)'
    BY <1>2, <2>1 DEF IInv, SyncSafe, ReleaseOperation, Moves, At, Quiet, Busied, Running, ReadyNow, Observed
  <2> QED BY <1>1, <1>2, <2>1, <2>2, <2>3, <2>4, OwnStep DEF IInv, TypeOK, ReleaseOperation
<1>4. CASE Stopped(o, FALSE)
  <2>1. HoldBecomes(o, "none") /\ ~Busied(o) /\ ~Running(o)
    BY <1>1, <1>4, ReleaseBecomes DEF IInv, RequestSafe, ReleaseOperation, ReleaseHold, Stopped, IsFinished, Busied, Running
  <2>2. /\ RequestBecomes(o, request'[o])
        /\ request'[o].recorded <=> request[o].recorded
        /\ request'[o].gen = request[o].gen /\ request'[o].life = request[o].life
        /\ request'[o].phase = IF request[o].life = "live" THEN "released" ELSE "done"
    BY <1>1, <1>4, PhaseBecomes DEF IInv, ReleaseOperation
  <2>3. UNCHANGED <<gen, status, claim, content, job, pods, starts, child, disruptions>>
    BY DEF ReleaseOperation
  <2>4. TypeOK'
    BY <1>1, <1>2, <2>1, <2>2, <2>3 DEF IInv, TypeOK, Passes, RequestObjects, Lives, Moves, HoldBecomes,
       RequestBecomes, Consumers
  <2>5. HoldsExclusive'
    BY <1>1, <2>1, ReleaseExclusive
  <2>6. GenerationsSeen'
    BY <1>1, <1>2, <2>1, <2>2, <2>3 DEF IInv, GenerationsSeen, Moves, HoldBecomes, RequestBecomes, Consumers
  <2>7. \A p \in Requests : RequestSafe(p)'
    BY <1>1, <1>2, <2>1, <2>2, <2>3 DEF IInv, RequestSafe, At, Scheduling, Holds, Busied, Running, Moves,
       HoldBecomes, RequestBecomes, Consumers
  <2>8. \A d \in Clones : CloneSafe(d)'
    BY <1>1, <1>2, <2>1, <2>2, <2>3 DEF IInv, CloneSafe, At, Holds, Pending, Moves, HoldBecomes, RequestBecomes,
       Consumers
  <2>9. ParentSafe'
    BY <1>1, <1>2, <2>1, <2>2, <2>3 DEF IInv, ParentSafe, At, Holds, Published, Moves, HoldBecomes,
       RequestBecomes, Consumers
  <2>10. BootstrapSafe'
    BY <1>1, <1>2, <2>1, <2>2, <2>3 DEF IInv, BootstrapSafe, Holds, Busied, ReadyNow, Observed, Moves,
       HoldBecomes, RequestBecomes, Consumers
  <2>11. PodsAlone'
    BY <1>1, <1>2, <2>1, <2>2, <2>3 DEF IInv, PodsAlone, At, Scheduling, Quiet, Running, Pending, Moves,
       HoldBecomes, RequestBecomes, Consumers
  <2>12. \A p \in Syncs : SyncSafe(p)'
    BY <1>1, <1>2, <2>1, <2>2, <2>3 DEF IInv, SyncSafe, At, Quiet, Busied, Running, ReadyNow, Observed,
       Requests, Moves, HoldBecomes, RequestBecomes, Consumers
  <2>13. ContentSafe'
    BY <1>1, <1>2, <2>1, <2>2, <2>3 DEF IInv, ContentSafe, At, Holds, Quiet, Running, ReadyNow, Observed,
       Published, Moves, HoldBecomes, RequestBecomes, Consumers
  <2> QED BY <2>4, <2>5, <2>6, <2>7, <2>8, <2>9, <2>10, <2>11, <2>12, <2>13 DEF IInv
<1> QED BY <1>3, <1>4

\* A deleted request goes after its Job and Pods.
LEMMA FinalizeOperationKeeps ==
    ASSUME IInv, NEW o \in Requests, FinalizeOperation(o)
    PROVE  IInv'
<1> USE ParentAssumption
<1>1. /\ o \in Consumers /\ o # Parent /\ o \notin Clones /\ o \notin Gens /\ o \in Jobs
      /\ request[o].phase # "released" /\ request[o].life # "gone"
  BY DEF IInv, RequestSafe, FinalizeOperation, At, Consumers, Requests, Gens, Jobs
<1>2. Moves(o, NoPass) /\ NoPass.pc = "idle" /\ NoPass.gen <= gen /\ NoPass.status.gen <= gen
  BY <1>1, EndMoves DEF IInv, TypeOK, FinalizeOperation, NoPass, Gens
<1>3. CASE ~Stopped(o, TRUE)
  <2>1. request[o].recorded /\ UNCHANGED <<gen, status, claim, content, lease, request, pods, starts, child, disruptions>>
    BY <1>3 DEF FinalizeOperation, Stopped
  <2>2. /\ job' \in [Jobs -> {"absent", "created", "active", "succeeded", "failed", "deleting"}]
        /\ job'[o] = IF job[o] = "absent" THEN "absent" ELSE "deleting"
        /\ \A k \in Jobs : k # o => job'[k] = job[k]
    BY <1>1, <1>3 DEF IInv, TypeOK, FinalizeOperation
  <2>3. /\ \A g \in Gens : job'[g] = job[g]
        /\ pass'[Parent] = pass[Parent] /\ pass[Parent].gen \in 0..MaxGen /\ gen \in Gens
        /\ pass[Parent].gen # 0 => pass[Parent].gen \in Gens
    <3>1. \A g \in Gens : job'[g] = job[g]
      BY <1>1, <2>2 DEF Jobs
    <3>2. pass'[Parent] = pass[Parent] /\ pass[Parent].gen \in 0..MaxGen /\ gen \in Gens
      BY <1>1, <1>2 DEF IInv, TypeOK, Moves, Consumers
    <3> QED BY <3>1, <3>2 DEF Gens
  <2>4. TypeOK'
    BY <1>1, <1>2, <2>1, <2>2, <2>3 DEF IInv, TypeOK, Passes, RequestObjects, Lives, Moves, Consumers
  <2>5. HoldsExclusive'
    BY <1>1, <1>2, <2>1, <2>2, <2>3 DEF IInv, HoldsExclusive, Holds, Moves, Consumers
  <2>6. GenerationsSeen'
    BY <1>1, <1>2, <2>1, <2>2, <2>3 DEF IInv, GenerationsSeen, Moves, Consumers
  <2>7. \A p \in Requests : RequestSafe(p)'
    BY <1>1, <1>2, <2>1, <2>2, <2>3 DEF IInv, RequestSafe, At, Scheduling, Holds, Busied, Running, Jobs, Moves,
       Consumers
  <2>8. \A d \in Clones : CloneSafe(d)'
    BY <1>1, <1>2, <2>1, <2>2, <2>3 DEF IInv, CloneSafe, At, Holds, Pending, Moves, Consumers
  <2>9. ParentSafe'
    BY <1>1, <1>2, <2>1, <2>2, <2>3 DEF IInv, ParentSafe, At, Holds, Published, Moves, Consumers
  <2>10. BootstrapSafe'
    BY <1>1, <1>2, <2>1, <2>2, <2>3 DEF IInv, BootstrapSafe, Holds, Busied, ReadyNow, Observed, Moves, Consumers
  <2>11. PodsAlone'
    BY <1>1, <1>2, <2>1, <2>2, <2>3 DEF IInv, PodsAlone, At, Scheduling, Quiet, Running, Pending, Jobs,
       Requests, Moves, Consumers
  <2>12. \A p \in Syncs : SyncSafe(p)'
    BY <1>1, <1>2, <2>1, <2>2, <2>3 DEF IInv, SyncSafe, At, Quiet, Busied, Running, ReadyNow, Observed,
       Requests, Jobs, FinalizeOperation, Moves, Consumers
  <2>13. ContentSafe'
    BY <1>1, <1>2, <2>1, <2>2, <2>3 DEF IInv, ContentSafe, At, Holds, Quiet, Running, ReadyNow, Observed,
       Published, Moves, Consumers
  <2> QED BY <2>4, <2>5, <2>6, <2>7, <2>8, <2>9, <2>10, <2>11, <2>12, <2>13 DEF IInv
<1>4. CASE Stopped(o, TRUE)
  <2>1. HoldBecomes(o, "none") /\ job[o] = "absent" /\ ~Running(o)
    BY <1>1, <1>4, ReleaseBecomes DEF IInv, RequestSafe, FinalizeOperation, ReleaseHold, Stopped, Running
  <2>2. /\ RequestBecomes(o, request'[o])
        /\ request'[o].recorded <=> request[o].recorded
        /\ request'[o].gen = request[o].gen /\ request'[o].life = "gone"
        /\ request'[o].phase = request[o].phase
    BY <1>1, <1>4, LifeBecomes DEF IInv, FinalizeOperation, Lives
  <2>3. UNCHANGED <<gen, status, claim, content, job, pods, starts, child, disruptions>>
    BY <1>4 DEF FinalizeOperation
  <2>4. TypeOK'
    BY <1>1, <1>2, <2>1, <2>2, <2>3 DEF IInv, TypeOK, Passes, RequestObjects, Lives, Moves, HoldBecomes,
       RequestBecomes, Consumers
  <2>5. HoldsExclusive'
    BY <1>1, <2>1, ReleaseExclusive
  <2>6. GenerationsSeen'
    BY <1>1, <1>2, <2>1, <2>2, <2>3 DEF IInv, GenerationsSeen, Moves, HoldBecomes, RequestBecomes, Consumers
  <2>7. \A p \in Requests : RequestSafe(p)'
    BY <1>1, <1>2, <2>1, <2>2, <2>3 DEF IInv, RequestSafe, At, Scheduling, Holds, Busied, Running, Moves,
       HoldBecomes, RequestBecomes, Consumers
  <2>8. \A d \in Clones : CloneSafe(d)'
    BY <1>1, <1>2, <2>1, <2>2, <2>3 DEF IInv, CloneSafe, At, Holds, Pending, Moves, HoldBecomes, RequestBecomes,
       Consumers
  <2>9. ParentSafe'
    BY <1>1, <1>2, <2>1, <2>2, <2>3 DEF IInv, ParentSafe, At, Holds, Published, Moves, HoldBecomes,
       RequestBecomes, Consumers
  <2>10. BootstrapSafe'
    BY <1>1, <1>2, <2>1, <2>2, <2>3 DEF IInv, BootstrapSafe, Holds, Busied, ReadyNow, Observed, Moves,
       HoldBecomes, RequestBecomes, Consumers
  <2>11. PodsAlone'
    BY <1>1, <1>2, <2>1, <2>2, <2>3 DEF IInv, PodsAlone, At, Scheduling, Quiet, Running, Pending, Moves,
       HoldBecomes, RequestBecomes, Consumers
  <2>12. \A p \in Syncs : SyncSafe(p)'
    BY <1>1, <1>2, <2>1, <2>2, <2>3 DEF IInv, SyncSafe, At, Quiet, Busied, Running, ReadyNow, Observed,
       Requests, Moves, HoldBecomes, RequestBecomes, Consumers
  <2>13. ContentSafe'
    BY <1>1, <1>2, <2>1, <2>2, <2>3 DEF IInv, ContentSafe, At, Holds, Quiet, Running, ReadyNow, Observed,
       Published, Moves, HoldBecomes, RequestBecomes, Consumers
  <2> QED BY <2>4, <2>5, <2>6, <2>7, <2>8, <2>9, <2>10, <2>11, <2>12, <2>13 DEF IInv
<1> QED BY <1>3, <1>4

-----------------------------------------------------------------------------
(* The other steps of Worktrees and of the Repository.                     *)

ChildObjects == [claim : {"none", "pending", "bound"}, life : Lives]

\* The volume of Worktree c changes, and no other.
ChildBecomes(c, claimed, life) ==
    /\ child' \in [Clones -> ChildObjects]
    /\ child'[c].claim = claimed /\ child'[c].life = life
    /\ \A d \in Clones : d # c => child'[d] = child[d]

\* A new state of a child volume changes nothing else.
LEMMA ClaimBecomes ==
    ASSUME TypeOK, NEW c \in Clones, NEW claimed \in {"none", "pending", "bound"},
           child' = [child EXCEPT ![c].claim = claimed]
    PROVE  ChildBecomes(c, claimed, child[c].life)
BY DEF TypeOK, ChildBecomes, ChildObjects

\* A deletion changes nothing else of a Worktree.
LEMMA ChildLifeBecomes ==
    ASSUME TypeOK, NEW c \in Clones, NEW life \in Lives,
           child' = [child EXCEPT ![c].life = life]
    PROVE  ChildBecomes(c, child[c].claim, life)
BY DEF TypeOK, ChildBecomes, ChildObjects

\* A clone starts under its hold, from a finished checkout nobody writes.
LEMMA CreateCloneKeeps ==
    ASSUME IInv, NEW c \in Clones, CreateClone(c)
    PROVE  IInv'
<1> USE ParentAssumption
<1>1. /\ c \in Consumers /\ c # Parent /\ c \notin Requests
      /\ child[c].claim = "none" /\ Holds(c, "clone") /\ content # 0 /\ Quiet
  BY DEF IInv, CloneSafe, PodsAlone, CreateClone, At, Consumers, Requests
<1>2. CASE UNCHANGED child /\ GoTo(c, "release")
  <2>1. Moves(c, Onward(c, "release", pass[c].out)) /\ HoldBecomes(c, lease.mode[c])
    BY <1>1, <1>2, GoToMoves, KeepBecomes DEF IInv, CreateClone, PassSteps
  <2>2. HoldsExclusive' /\ pass[c].gen <= gen /\ pass[c].status.gen <= gen
    BY <1>1 DEF IInv, HoldsExclusive, GenerationsSeen, CreateClone, Holds
  <2>3. CloneSafe(c)'
    BY <1>1, <1>2, <2>1 DEF IInv, CloneSafe, CreateClone, Moves, Onward, At, Holds, Pending
  <2> QED BY <1>1, <1>2, <2>1, <2>2, <2>3, OwnStep DEF IInv, TypeOK, CreateClone, Moves, At, Onward, Requests
<1>3. CASE child' = [child EXCEPT ![c].claim = "pending"] /\ End(c)
  <2>1. Moves(c, NoPass) /\ NoPass.pc = "idle" /\ NoPass.gen <= gen /\ NoPass.status.gen <= gen
    BY <1>1, <1>3, EndMoves DEF IInv, TypeOK, CreateClone, NoPass, Gens
  <2>2. ChildBecomes(c, "pending", child[c].life)
    BY <1>3, ClaimBecomes DEF IInv
  <2>3. UNCHANGED <<gen, status, claim, content, lease, request, job, pods, starts, disruptions>>
    BY DEF CreateClone
  <2>4. TypeOK'
    BY <1>1, <2>1, <2>2, <2>3 DEF IInv, TypeOK, Passes, RequestObjects, Lives, ChildObjects, Moves,
       ChildBecomes, Consumers
  <2>5. HoldsExclusive'
    BY <1>1, <2>1, <2>2, <2>3 DEF IInv, HoldsExclusive, Holds, Moves, ChildBecomes, Consumers
  <2>6. GenerationsSeen'
    BY <1>1, <2>1, <2>2, <2>3 DEF IInv, GenerationsSeen, Moves, ChildBecomes, Consumers
  <2>7. \A p \in Requests : RequestSafe(p)'
    BY <1>1, <2>1, <2>2, <2>3 DEF IInv, RequestSafe, At, Scheduling, Holds, Busied, Running, Moves,
       ChildBecomes, Consumers
  <2>8. \A d \in Clones : CloneSafe(d)'
    BY <1>1, <2>1, <2>2, <2>3 DEF IInv, CloneSafe, At, Holds, Pending, Moves, ChildBecomes, Consumers
  <2>9. ParentSafe'
    BY <1>1, <2>1, <2>2, <2>3 DEF IInv, ParentSafe, At, Holds, Published, Moves, ChildBecomes, Consumers
  <2>10. BootstrapSafe'
    BY <1>1, <2>1, <2>2, <2>3 DEF IInv, BootstrapSafe, Holds, Busied, ReadyNow, Observed, Moves, ChildBecomes,
       Consumers
  <2>11. PodsAlone'
    BY <1>1, <2>1, <2>2, <2>3 DEF IInv, PodsAlone, At, Scheduling, Quiet, Running, Pending, Moves, ChildBecomes,
       Consumers
  <2>12. \A p \in Syncs : SyncSafe(p)'
    BY <1>1, <2>1, <2>2, <2>3 DEF IInv, SyncSafe, At, Quiet, Busied, Running, ReadyNow, Observed, Requests,
       Moves, ChildBecomes, Consumers
  <2>13. ContentSafe'
    BY <1>1, <2>1, <2>2, <2>3 DEF IInv, ContentSafe, At, Holds, Quiet, Running, ReadyNow, Observed, Published,
       Moves, ChildBecomes, Consumers
  <2> QED BY <2>4, <2>5, <2>6, <2>7, <2>8, <2>9, <2>10, <2>11, <2>12, <2>13 DEF IInv
<1> QED BY <1>2, <1>3 DEF CreateClone

\* A Worktree releases the parent only when its volume is not being copied.
LEMMA ReleaseCloneKeeps ==
    ASSUME IInv, NEW c \in Clones, ReleaseClone(c)
    PROVE  IInv'
<1> USE ParentAssumption
<1>1. c \in Consumers /\ c # Parent /\ c \notin Requests /\ child[c].claim # "pending" /\ ~At(c, "record")
  BY DEF IInv, CloneSafe, ReleaseClone, At, Consumers, Requests
<1>2. Moves(c, NoPass) /\ NoPass.pc = "idle" /\ NoPass.gen <= gen /\ NoPass.status.gen <= gen
  BY <1>1, EndMoves DEF IInv, TypeOK, ReleaseClone, NoPass, Gens
<1>3. PICK life \in Lives : ChildBecomes(c, child[c].claim, life)
  <2>1. (IF At(c, "finalize") THEN "gone" ELSE child[c].life) \in Lives
    BY DEF IInv, TypeOK, Lives
  <2> QED BY <2>1, ChildLifeBecomes DEF IInv, ReleaseClone
<1>4. HoldBecomes(c, "none")
  BY <1>1, ReleaseBecomes DEF IInv, ReleaseClone, ReleaseHold
<1>5. UNCHANGED <<gen, status, claim, content, request, job, pods, starts, disruptions>>
  BY DEF ReleaseClone
<1>6. TypeOK'
  BY <1>1, <1>2, <1>3, <1>4, <1>5 DEF IInv, TypeOK, Passes, RequestObjects, Lives, ChildObjects, Moves,
     HoldBecomes, ChildBecomes, Consumers
<1>7. HoldsExclusive'
  BY <1>1, <1>4, ReleaseExclusive
<1>8. GenerationsSeen'
  BY <1>1, <1>2, <1>3, <1>4, <1>5 DEF IInv, GenerationsSeen, Moves, HoldBecomes, ChildBecomes, Consumers
<1>9. \A p \in Requests : RequestSafe(p)'
  BY <1>1, <1>2, <1>3, <1>4, <1>5 DEF IInv, RequestSafe, At, Scheduling, Holds, Busied, Running, Moves,
     HoldBecomes, ChildBecomes, Consumers
<1>10. \A d \in Clones : CloneSafe(d)'
  BY <1>1, <1>2, <1>3, <1>4, <1>5 DEF IInv, CloneSafe, At, Holds, Pending, Moves, HoldBecomes, ChildBecomes,
     Consumers
<1>11. ParentSafe'
  BY <1>1, <1>2, <1>3, <1>4, <1>5 DEF IInv, ParentSafe, At, Holds, Published, Moves, HoldBecomes, ChildBecomes,
     Consumers
<1>12. BootstrapSafe'
  BY <1>1, <1>2, <1>3, <1>4, <1>5 DEF IInv, BootstrapSafe, Holds, Busied, ReadyNow, Observed, Moves,
     HoldBecomes, ChildBecomes, Consumers
<1>13. PodsAlone'
  BY <1>1, <1>2, <1>3, <1>4, <1>5 DEF IInv, PodsAlone, At, Scheduling, Quiet, Running, Pending, Moves,
     HoldBecomes, ChildBecomes, Consumers
<1>14. \A p \in Syncs : SyncSafe(p)'
  BY <1>1, <1>2, <1>3, <1>4, <1>5 DEF IInv, SyncSafe, At, Quiet, Busied, Running, ReadyNow, Observed, Requests,
     Moves, HoldBecomes, ChildBecomes, Consumers
<1>15. ContentSafe'
  BY <1>1, <1>2, <1>3, <1>4, <1>5 DEF IInv, ContentSafe, At, Holds, Quiet, Running, ReadyNow, Observed,
     Published, Moves, HoldBecomes, ChildBecomes, Consumers
<1> QED BY <1>6, <1>7, <1>8, <1>9, <1>10, <1>11, <1>12, <1>13, <1>14, <1>15 DEF IInv

\* A copy that ends disturbs nobody.
LEMMA ProvisionKeeps ==
    ASSUME IInv, NEW c \in Clones, Provision(c)
    PROVE  IInv'
<1> USE ParentAssumption
<1>1. ChildBecomes(c, "bound", child[c].life)
  BY ClaimBecomes DEF IInv, Provision
<1>2. UNCHANGED <<gen, status, claim, content, lease, request, job, pods, starts, pass, disruptions>>
  BY DEF Provision
<1>3. TypeOK'
  BY <1>1, <1>2 DEF IInv, TypeOK, Passes, RequestObjects, Lives, ChildObjects, ChildBecomes, Consumers
<1>4. HoldsExclusive'
  BY <1>1, <1>2 DEF IInv, HoldsExclusive, Holds, ChildBecomes, Consumers
<1>5. GenerationsSeen'
  BY <1>1, <1>2 DEF IInv, GenerationsSeen, ChildBecomes, Consumers
<1>6. \A p \in Requests : RequestSafe(p)'
  BY <1>1, <1>2 DEF IInv, RequestSafe, At, Scheduling, Holds, Busied, Running, ChildBecomes, Consumers
<1>7. \A d \in Clones : CloneSafe(d)'
  BY <1>1, <1>2 DEF IInv, CloneSafe, At, Holds, Pending, Provision, ChildBecomes, Consumers
<1>8. ParentSafe'
  BY <1>1, <1>2 DEF IInv, ParentSafe, At, Holds, Published, ChildBecomes, Consumers
<1>9. BootstrapSafe'
  BY <1>1, <1>2 DEF IInv, BootstrapSafe, Holds, Busied, ReadyNow, Observed, ChildBecomes, Consumers
<1>10. PodsAlone'
  BY <1>1, <1>2 DEF IInv, PodsAlone, At, Scheduling, Quiet, Running, Pending, ChildBecomes, Consumers
<1>11. \A p \in Syncs : SyncSafe(p)'
  BY <1>1, <1>2 DEF IInv, SyncSafe, At, Quiet, Busied, Running, ReadyNow, Observed, Requests, ChildBecomes,
     Consumers
<1>12. ContentSafe'
  BY <1>1, <1>2 DEF IInv, ContentSafe, At, Holds, Quiet, Running, ReadyNow, Observed, Published, ChildBecomes,
     Consumers
<1> QED BY <1>3, <1>4, <1>5, <1>6, <1>7, <1>8, <1>9, <1>10, <1>11, <1>12 DEF IInv

\* A deletion stops nothing that is being copied.
LEMMA DeleteWorktreeKeeps ==
    ASSUME IInv, NEW c \in Clones, DeleteWorktree(c)
    PROVE  IInv'
<1> USE ParentAssumption
<1>1. ChildBecomes(c, child[c].claim, "deleting")
  BY ChildLifeBecomes DEF IInv, DeleteWorktree, Lives
<1>2. disruptions' \in 0..MaxDisruptions
  BY DEF IInv, TypeOK, DeleteWorktree, Disrupt
<1>3. UNCHANGED <<gen, status, claim, content, lease, request, job, pods, starts, pass>>
  BY DEF DeleteWorktree
<1>4. TypeOK'
  BY <1>1, <1>2, <1>3 DEF IInv, TypeOK, Passes, RequestObjects, Lives, ChildObjects, ChildBecomes, Consumers
<1>5. HoldsExclusive'
  BY <1>1, <1>2, <1>3 DEF IInv, HoldsExclusive, Holds, ChildBecomes, Consumers
<1>6. GenerationsSeen'
  BY <1>1, <1>2, <1>3 DEF IInv, GenerationsSeen, ChildBecomes, Consumers
<1>7. \A p \in Requests : RequestSafe(p)'
  BY <1>1, <1>2, <1>3 DEF IInv, RequestSafe, At, Scheduling, Holds, Busied, Running, ChildBecomes, Consumers
<1>8. \A d \in Clones : CloneSafe(d)'
  BY <1>1, <1>2, <1>3 DEF IInv, CloneSafe, At, Holds, Pending, ChildBecomes, Consumers
<1>9. ParentSafe'
  BY <1>1, <1>2, <1>3 DEF IInv, ParentSafe, At, Holds, Published, ChildBecomes, Consumers
<1>10. BootstrapSafe'
  BY <1>1, <1>2, <1>3 DEF IInv, BootstrapSafe, Holds, Busied, ReadyNow, Observed, ChildBecomes, Consumers
<1>11. PodsAlone'
  BY <1>1, <1>2, <1>3 DEF IInv, PodsAlone, At, Scheduling, Quiet, Running, Pending, ChildBecomes, Consumers
<1>12. \A p \in Syncs : SyncSafe(p)'
  BY <1>1, <1>2, <1>3 DEF IInv, SyncSafe, At, Quiet, Busied, Running, ReadyNow, Observed, Requests,
     ChildBecomes, Consumers
<1>13. ContentSafe'
  BY <1>1, <1>2, <1>3 DEF IInv, ContentSafe, At, Holds, Quiet, Running, ReadyNow, Observed, Published,
     ChildBecomes, Consumers
<1> QED BY <1>4, <1>5, <1>6, <1>7, <1>8, <1>9, <1>10, <1>11, <1>12, <1>13 DEF IInv

\* The bootstrap Job of a generation is created once it is the newest, under the
\* write hold and with nobody running.
LEMMA BootstrapKeeps ==
    ASSUME IInv, Bootstrap
    PROVE  IInv'
<1> USE ParentAssumption
<1> DEFINE k == pass[Parent].gen
<1>1. /\ Parent \in Consumers /\ Parent \notin Requests /\ Parent \notin Clones /\ Parent \notin Syncs
      /\ k \in Gens /\ k <= gen /\ k \in Jobs /\ pass[Parent].status.gen <= gen
  BY DEF IInv, TypeOK, ParentSafe, GenerationsSeen, Bootstrap, At, Consumers, Requests, Gens, Jobs
<1>2. /\ Holds(Parent, "write") /\ Quiet /\ claim = "recorded"
      /\ status.gen <= k /\ ~Published(status, k)
      /\ \A g \in Gens : job[g] \in {"absent", "succeeded", "failed"} /\ (g > k => job[g] = "absent")
  BY DEF IInv, ParentSafe, PodsAlone, Bootstrap, At
<1>3. CASE UNCHANGED job
  <2>1. PICK pc \in {"status", "result"}, out \in {"working", "ready", "failed"} :
            /\ Moves(Parent, Onward(Parent, pc, out))
            /\ pc = "status" => out \in {"working", "failed"}
            /\ pc = "result" => out = pass[Parent].out /\ out # "working"
    <3>1. pass[Parent].out \in {"working", "ready", "failed"}
      BY DEF IInv, ParentSafe, Bootstrap, At
    <3>2. \/ GoTo(Parent, "status") /\ pass[Parent].out = "working"
          \/ pass' = [pass EXCEPT ![Parent].pc = "status", ![Parent].out = "failed"]
          \/ GoTo(Parent, "result") /\ pass[Parent].out # "working"
      BY DEF Bootstrap
    <3> QED BY <1>1, <3>1, <3>2, GoToMoves, ReportMoves DEF IInv, PassSteps, StorageStates
  <2>2. HoldBecomes(Parent, lease.mode[Parent]) /\ HoldsExclusive'
    BY <1>1, KeepBecomes DEF IInv, Bootstrap, HoldsExclusive, Holds
  <2>3. /\ pass'[Parent].pc = pc /\ pass'[Parent].gen = k /\ pass'[Parent].out = out
        /\ pass'[Parent].status = pass[Parent].status
    BY <2>1 DEF Moves, Onward
  <2>4. ParentSafe'
    BY <1>2, <1>3, <2>1, <2>3 DEF ParentSafe, Bootstrap, At, Holds, Published
  <2>5. BootstrapSafe'
    BY <1>3 DEF IInv, BootstrapSafe, Bootstrap, Holds, Busied, ReadyNow, Observed
  <2>6. ContentSafe'
    BY <1>3, <2>1, <2>3 DEF IInv, ContentSafe, Bootstrap, At, Holds, Quiet, Running, ReadyNow, Observed, Published
  <2> QED BY <1>1, <1>3, <2>1, <2>2, <2>3, <2>4, <2>5, <2>6, OwnStep DEF IInv, TypeOK, Bootstrap, Onward, At
<1>4. CASE job' # job
  <2>1. /\ job' \in [Jobs -> {"absent", "created", "active", "succeeded", "failed", "deleting"}]
        /\ job'[k] = "created" /\ \A j \in Jobs : j # k => job'[j] = job[j]
        /\ pass[Parent].out = "working"
    BY <1>1, <1>4 DEF IInv, TypeOK, Bootstrap
  <2>2. Moves(Parent, Onward(Parent, "status", "working"))
    BY <1>1, <1>4, <2>1, GoToMoves DEF IInv, Bootstrap, PassSteps
  <2>3. UNCHANGED <<gen, status, claim, content, lease, request, pods, starts, child, disruptions>>
    BY DEF Bootstrap
  <2>4. /\ \A o \in Requests : o \in Jobs /\ job'[o] = job[o]
        /\ ~ReadyNow /\ \A g \in Gens : g > gen => g > k
    <3>1. \A o \in Requests : o \in Jobs /\ o # k
      BY <1>1 DEF Jobs, Gens
    <3>2. gen \in Nat /\ k \in Nat /\ k <= gen
      BY <1>1 DEF IInv, TypeOK, Gens
    <3>3. status.gen = gen => k = gen
      BY <1>2, <3>2
    <3>4. ~ReadyNow
      BY <1>2, <3>3 DEF ReadyNow, Observed, Published
    <3>5. \A g \in Gens : g > gen => g > k
      BY <3>2 DEF Gens
    <3> QED BY <2>1, <3>1, <3>4, <3>5
  <2>5. \A g \in Gens : (g # k => job'[g] = job[g]) /\ (g > k => g # k /\ job'[g] = "absent")
    <3>1. \A g \in Gens : g \in Jobs /\ (g > k => g # k)
      BY <1>1 DEF Jobs, Gens
    <3> QED BY <1>2, <2>1, <3>1
  <2>6. TypeOK'
    BY <1>1, <1>2, <2>1, <2>2, <2>3, <2>4, <2>5 DEF IInv, TypeOK, Passes, RequestObjects, Lives, Moves, Onward,
       Consumers
  <2>7. HoldsExclusive'
    BY <1>1, <1>2, <2>1, <2>2, <2>3, <2>4, <2>5 DEF IInv, HoldsExclusive, Holds, Moves, Onward, Consumers
  <2>8. GenerationsSeen'
    BY <1>1, <1>2, <2>1, <2>2, <2>3, <2>4, <2>5 DEF IInv, GenerationsSeen, Jobs, Moves, Onward, Consumers
  <2>9. \A p \in Requests : RequestSafe(p)'
    BY <1>1, <1>2, <2>1, <2>2, <2>3, <2>4, <2>5 DEF IInv, RequestSafe, At, Scheduling, Holds, Busied, Running,
       Moves, Onward, Consumers
  <2>10. \A d \in Clones : CloneSafe(d)'
    BY <1>1, <1>2, <2>1, <2>2, <2>3, <2>4, <2>5 DEF IInv, CloneSafe, At, Holds, Pending, Moves, Onward,
       Consumers
  <2>11. ParentSafe'
    BY <1>1, <1>2, <2>1, <2>2, <2>3, <2>4, <2>5 DEF IInv, ParentSafe, At, Holds, Published, TypeOK, Moves,
       Onward, Consumers
  <2>12. BootstrapSafe'
    BY <1>1, <1>2, <2>1, <2>2, <2>3, <2>4, <2>5 DEF IInv, BootstrapSafe, Holds, Busied, ReadyNow, Observed,
       Jobs, Moves, Onward, Consumers
  <2>13. PodsAlone'
    BY <1>1, <1>2, <2>1, <2>2, <2>3, <2>4, <2>5 DEF IInv, PodsAlone, At, Scheduling, Quiet, Running, Pending,
       Requests, Moves, Onward, Consumers
  <2>14. \A p \in Syncs : SyncSafe(p)'
    BY <1>1, <1>2, <2>1, <2>2, <2>3, <2>4, <2>5 DEF IInv, SyncSafe, At, Quiet, Busied, Running, ReadyNow,
       Observed, Requests, Moves, Onward, Consumers
  <2>15. ContentSafe'
    BY <1>1, <1>2, <2>1, <2>2, <2>3, <2>4, <2>5 DEF IInv, ContentSafe, At, Holds, Quiet, Running, ReadyNow,
       Observed, Published, Jobs, TypeOK, Moves, Onward, Consumers
  <2> QED BY <2>6, <2>7, <2>8, <2>9, <2>10, <2>11, <2>12, <2>13, <2>14, <2>15 DEF IInv
<1> QED BY <1>3, <1>4

\* The Repository publishes a result it may: no sync has one of its own, and
\* a successful bootstrap is of the generation it is published for.
LEMMA SetStatusKeeps ==
    ASSUME IInv, SetStatus
    PROVE  IInv'
<1> USE ParentAssumption
<1> DEFINE g0 == pass[Parent].gen
           out == pass[Parent].out
<1>1. /\ Parent \in Consumers /\ Parent \notin Requests /\ Parent \notin Clones /\ Parent \notin Syncs
      /\ g0 \in 0..MaxGen /\ g0 <= gen /\ gen \in Gens /\ pass[Parent].status.gen <= gen /\ out \in StorageStates
  BY DEF IInv, TypeOK, GenerationsSeen, Consumers, Requests
<1>2. /\ At(Parent, "status") \/ At(Parent, "result")
      /\ At(Parent, "status") => out \in {"working", "failed"}
      /\ At(Parent, "result") => out \in {"ready", "failed"} /\ claim = "recorded"
      /\ At(Parent, "result") => \A g \in Gens : job[g] \in {"absent", "succeeded", "failed"} /\ (g > g0 => job[g] = "absent")
      /\ claim = "recorded" => Holds(Parent, "write") /\ ~Published(status, g0)
  BY DEF IInv, ParentSafe, SetStatus, At
<1>3. PICK r : /\ Moves(Parent, r)
               /\ r.gen <= gen /\ r.status.gen <= gen
               /\ r.pc = IF At(Parent, "status") THEN "idle" ELSE "release"
  <2>1. CASE At(Parent, "status")
    <3>1. Moves(Parent, NoPass)
      BY <1>1, <2>1, EndMoves DEF IInv, SetStatus, At
    <3> QED BY <1>1, <2>1, <3>1 DEF NoPass, Gens
  <2>2. CASE At(Parent, "result")
    <3>1. Moves(Parent, Onward(Parent, "release", out))
      BY <1>1, <2>2, GoToMoves DEF IInv, SetStatus, At, PassSteps
    <3> QED BY <1>1, <2>2, <3>1 DEF Onward, At
  <2> QED BY <1>2, <2>1, <2>2
<1>4. /\ status' \in Statuses
      /\ g0 = gen => status'.gen = gen /\ status'.state = out
      /\ g0 # gen => status' = status
      /\ claim' \in {"none", "created", "recorded"} /\ (claim = "recorded" => claim' = "recorded")
      /\ claim' # "recorded" => status' = status
  BY <1>1 DEF IInv, TypeOK, SetStatus, SetStorageReady, Statuses, Gens
<1>5. UNCHANGED <<gen, content, lease, request, job, pods, starts, child, disruptions>>
  BY DEF SetStatus
<1>6. TypeOK'
  BY <1>1, <1>2, <1>3, <1>4, <1>5 DEF IInv, TypeOK, Passes, RequestObjects, Lives, Moves, Consumers
<1>7. HoldsExclusive'
  BY <1>1, <1>2, <1>3, <1>4, <1>5 DEF IInv, HoldsExclusive, Holds, Moves, Consumers
<1>8. GenerationsSeen'
  BY <1>1, <1>2, <1>3, <1>4, <1>5 DEF IInv, GenerationsSeen, TypeOK, Statuses, Moves, Consumers
<1>9. \A p \in Requests : RequestSafe(p)'
  BY <1>1, <1>2, <1>3, <1>4, <1>5 DEF IInv, RequestSafe, At, Scheduling, Holds, Busied, Running, Moves,
     Consumers
<1>10. \A d \in Clones : CloneSafe(d)'
  BY <1>1, <1>2, <1>3, <1>4, <1>5 DEF IInv, CloneSafe, At, Holds, Pending, Moves, Consumers
<1>11. ParentSafe'
  BY <1>1, <1>2, <1>3, <1>4, <1>5 DEF IInv, ParentSafe, At, Holds, Published, Moves, Consumers
<1>12. BootstrapSafe'
  BY <1>1, <1>2, <1>3, <1>4, <1>5 DEF IInv, BootstrapSafe, Holds, Busied, ReadyNow, Observed, Gens, Moves,
     Consumers
<1>13. PodsAlone'
  BY <1>1, <1>2, <1>3, <1>4, <1>5 DEF IInv, PodsAlone, At, Scheduling, Quiet, Running, Pending, Requests, Moves,
     Consumers
<1>14. \A p \in Syncs : SyncSafe(p)'
  <2> SUFFICES ASSUME NEW p \in Syncs PROVE SyncSafe(p)'
    OBVIOUS
  <2>1. p \in Requests /\ p \in Consumers /\ p # Parent /\ pass'[p] = pass[p]
    BY <1>1, <1>3 DEF Moves, Consumers, Requests
  <2>2. ~Holds(p, "write") \/ ~request[p].recorded
    BY <1>1, <1>2, <2>1 DEF IInv, HoldsExclusive, GenerationsSeen, Holds
  <2>3. ~At(p, "record") /\ ~At(p, "create") /\ ~(At(p, "parent") /\ pass[p].out = "syncing") /\ ~Busied(p) /\ ~Running(p)
    BY <1>1, <1>2, <2>1, <2>2 DEF IInv, RequestSafe, HoldsExclusive, Scheduling, At, Holds, Busied, Running
  <2> QED BY <1>5, <2>1, <2>3 DEF IInv, SyncSafe, At, Quiet, Busied, Running
<1>15. ContentSafe'
  <2>1. ReadyNow' => content = gen /\ \A k \in Gens : ~Running(k)
    <3>1. CASE status' = status
      BY <1>5, <3>1 DEF IInv, ContentSafe, ReadyNow, Observed
    <3>2. CASE status' # status /\ At(Parent, "result") /\ out = "ready"
      BY <1>4, <1>5, <3>2 DEF IInv, ContentSafe, At, Quiet, Jobs
    <3> QED BY <1>2, <1>4, <1>5, <3>1, <3>2 DEF ReadyNow, Observed
  <2>2. job[gen] = "succeeded" /\ ~Published(status', gen) => content = gen /\ Holds(Parent, "write") /\ Quiet
    <3>1. job[gen] = "succeeded" /\ Published(status, gen) => Published(status', gen)
      BY <1>1, <1>2, <1>4 DEF IInv, GenerationsSeen, Published
    <3> QED BY <3>1 DEF IInv, ContentSafe
  <2>3. At(Parent, "result") /\ job[gen] = "succeeded" => Published(status', gen)
    BY <1>1, <1>2, <1>4 DEF IInv, ContentSafe, At, Published, Gens
  <2> QED BY <1>2, <1>3, <1>5, <2>1, <2>2, <2>3 DEF ContentSafe, Moves, At, Holds, Quiet, Running, Published, ReadyNow, Observed
<1> QED BY <1>6, <1>7, <1>8, <1>9, <1>10, <1>11, <1>12, <1>13, <1>14, <1>15 DEF IInv

-----------------------------------------------------------------------------
(* Kubernetes and users.                                                   *)

\* The owner of a Job that starts a Pod, or has, holds the parent to write.
LEMMA BusiedHolds ==
    ASSUME IInv, NEW k \in Jobs, Busied(k)
    PROVE  /\ k \in Requests => Holds(k, "write") /\ \A p \in Consumers : p # k => Holds(p, "none")
           /\ k \in Gens => Holds(Parent, "write") /\ \A p \in Consumers : p # Parent => Holds(p, "none")
           /\ k \notin Commands => ~ReadyNow
           /\ k \in Gens <=> k \notin Requests
<1> USE ParentAssumption
<1>1. k \in Gens <=> k \notin Requests
  BY DEF Jobs, Gens
<1>2. k \in Requests => Holds(k, "write")
  BY DEF IInv, RequestSafe
<1>3. k \in Gens => Holds(Parent, "write") /\ ~ReadyNow
  BY DEF IInv, BootstrapSafe
<1>4. k \in Syncs => ~ReadyNow
  BY DEF IInv, SyncSafe
<1> QED BY <1>1, <1>2, <1>3, <1>4 DEF IInv, HoldsExclusive, Consumers, Requests

\* A Job starts its Pod on a parent nobody uses, once.
LEMMA StartPodKeeps ==
    ASSUME IInv, NEW k \in Jobs, StartPod(k)
    PROVE  IInv'
<1> USE ParentAssumption
<1>1. /\ job[k] = "created" /\ Busied(k) /\ Quiet /\ pods[k] = 0
      /\ k \in Requests => starts[k] = 0 /\ request[k].recorded
  <2>1. job[k] = "created" /\ Busied(k) /\ Quiet
    BY DEF IInv, PodsAlone, StartPod, Busied
  <2>2. pods[k] = 0
    BY <2>1 DEF IInv, TypeOK, Quiet, Running
  <2> QED BY <2>1, <2>2 DEF IInv, RequestSafe
<1>2. /\ job' \in [Jobs -> {"absent", "created", "active", "succeeded", "failed", "deleting"}]
      /\ job'[k] = "active" /\ \A j \in Jobs : j # k => job'[j] = job[j]
  BY DEF IInv, TypeOK, StartPod
<1>3. pods' \in [Jobs -> 0..2] /\ pods'[k] = 1 /\ \A j \in Jobs : j # k => pods'[j] = 0
  <2>1. \A j \in Jobs : pods[j] = 0
    BY <1>1 DEF IInv, TypeOK, Quiet, Running
  <2> QED BY <1>1, <2>1 DEF IInv, TypeOK, StartPod
<1>4. /\ starts' \in [Requests -> 0..2]
      /\ \A o \in Requests : starts'[o] = IF o = k THEN 1 ELSE starts[o]
  BY <1>1 DEF IInv, TypeOK, StartPod
<1>5. /\ content' \in 0..MaxGen /\ (k \in Commands => content' = content)
      /\ UNCHANGED <<gen, status, claim, lease, request, child, pass, disruptions>>
  BY DEF IInv, TypeOK, StartPod, Checkout
<1>6. /\ \A o \in Requests : o # k => ~Holds(o, "write")
      /\ \A c \in Clones : ~Holds(c, "clone")
      /\ k \in Requests => ~Holds(Parent, "write")
      /\ k \notin Commands => ~ReadyNow
      /\ \A o \in Requests : o \in Jobs /\ o \notin Gens
  BY <1>1, BusiedHolds DEF Consumers, Requests, Holds, Jobs, Gens
<1>7. \A j \in Jobs : job[j] = "created" => j = k
  <2> SUFFICES ASSUME NEW j \in Jobs, job[j] = "created", j # k PROVE FALSE
    OBVIOUS
  <2>1. j \in Gens /\ k \in Gens
    BY <1>1, BusiedHolds DEF Jobs, Consumers, Busied, Holds
  <2>2. j > k \/ k > j
    BY <2>1 DEF Gens
  <2> QED BY <1>1, <2>1, <2>2 DEF IInv, BootstrapSafe, Busied
<1>8. TypeOK'
  BY <1>1, <1>2, <1>3, <1>4, <1>5, <1>6 DEF IInv, TypeOK, Passes, RequestObjects, Lives, Consumers
<1>9. HoldsExclusive'
  BY <1>1, <1>2, <1>3, <1>4, <1>5, <1>6 DEF IInv, HoldsExclusive, Holds, Consumers
<1>10. GenerationsSeen'
  BY <1>1, <1>2, <1>3, <1>4, <1>5, <1>6 DEF IInv, GenerationsSeen, Jobs, Consumers
<1>11. \A p \in Requests : RequestSafe(p)'
  BY <1>1, <1>2, <1>3, <1>4, <1>5, <1>6 DEF IInv, RequestSafe, At, Scheduling, Holds, Busied, Running, Consumers
<1>12. \A d \in Clones : CloneSafe(d)'
  BY <1>1, <1>2, <1>3, <1>4, <1>5, <1>6 DEF IInv, CloneSafe, At, Holds, Pending, Consumers
<1>13. ParentSafe'
  <2>1. pass[Parent].gen # 0 => pass[Parent].gen \in Gens
    BY DEF IInv, TypeOK, Consumers, Gens
  <2> QED BY <1>1, <1>2, <1>5, <2>1 DEF IInv, ParentSafe, At, Holds, Published, Jobs
<1>14. BootstrapSafe'
  BY <1>1, <1>2, <1>3, <1>4, <1>5, <1>6 DEF IInv, BootstrapSafe, Holds, Busied, ReadyNow, Observed, Jobs,
     Consumers
<1>15. PodsAlone'
  <2>1. \A o \in Requests : ~Scheduling(o)
    BY <1>1, <1>6 DEF IInv, RequestSafe, Scheduling, At
  <2>2. \A c \in Clones : ~At(c, "record") /\ ~Pending(c)
    BY <1>6 DEF IInv, CloneSafe, At
  <2>3. ~At(Parent, "record")
    BY <1>1, <1>6 DEF IInv, ParentSafe, At, Jobs
  <2>4. \A j \in Jobs : job'[j] # "created"
    BY <1>2, <1>7
  <2>5. \A i, j \in Jobs : pods'[j] <= 1 /\ (Running(i)' /\ Running(j)' => i = j)
    BY <1>3 DEF Running
  <2> QED BY <1>5, <2>1, <2>2, <2>3, <2>4, <2>5 DEF PodsAlone, Scheduling, At, Pending
<1>16. \A p \in Syncs : SyncSafe(p)'
  <2> SUFFICES ASSUME NEW p \in Syncs PROVE SyncSafe(p)'
    OBVIOUS
  <2>1. p \in Requests /\ p \in Jobs
    BY DEF Requests, Jobs
  <2>2. ~(job[p] = "succeeded" /\ request[p].phase = "pending")
    BY <1>1, <1>6, <2>1 DEF IInv, RequestSafe
  <2>3. ~(At(p, "parent") /\ pass[p].out = "ready")
    BY <1>1, <1>6, <2>1 DEF IInv, RequestSafe, SyncSafe, At
  <2>4. At(p, "create") \/ Busied(p)' \/ Running(p)' => ~ReadyNow
    BY <1>1, <1>2, <1>3, <1>6, <2>1 DEF IInv, SyncSafe, Busied, Running, Requests
  <2> QED BY <1>2, <1>5, <2>1, <2>2, <2>3, <2>4 DEF IInv, SyncSafe, At, ReadyNow, Observed
<1>17. ContentSafe'
  <2>1. ReadyNow => content' = gen /\ \A g \in Gens : ~Running(g)'
    <3> SUFFICES ASSUME ReadyNow PROVE content' = gen /\ \A g \in Gens : ~Running(g)'
      OBVIOUS
    <3>1. k \in Commands /\ k \notin Gens /\ content = gen
      BY <1>6 DEF IInv, ContentSafe, Requests
    <3> QED BY <1>3, <1>5, <3>1 DEF Running, Jobs
  <2>2. ~(job'[gen] = "succeeded" /\ ~Published(status, gen))
    <3> SUFFICES ASSUME job[gen] = "succeeded", ~Published(status, gen) PROVE FALSE
      BY <1>2 DEF IInv, TypeOK, Jobs
    <3>1. k \in Gens
      BY <1>6 DEF IInv, ContentSafe, Jobs
    <3>2. gen \in Gens /\ (gen = k \/ gen > k \/ k > gen)
      BY <3>1 DEF IInv, TypeOK, Gens
    <3> QED BY <1>1, <3>1, <3>2 DEF IInv, BootstrapSafe, GenerationsSeen
  <2>3. pass[Parent].pc \in {"acquire", "confirm", "record", "result", "release"} => k \in Requests
    BY <1>1 DEF IInv, ParentSafe, Jobs
  <2>4. job'[gen] = "succeeded" => job[gen] = "succeeded"
    BY <1>2 DEF IInv, TypeOK, Jobs
  <2> QED BY <1>5, <1>6, <2>1, <2>2, <2>3, <2>4 DEF IInv, ContentSafe, At, Holds, Published, ReadyNow, Observed
<1> QED BY <1>8, <1>9, <1>10, <1>11, <1>12, <1>13, <1>14, <1>15, <1>16, <1>17 DEF IInv

\* A Pod that ends leaves a parent nobody writes, and the checkout it made.
LEMMA EndPodKeeps ==
    ASSUME IInv, NEW k \in Jobs, EndPod(k)
    PROVE  IInv'
<1> USE ParentAssumption
<1>1. /\ Running(k) /\ pods[k] = 1 /\ \A j \in Jobs : j # k => pods[j] = 0
      /\ k \in Gens <=> k \notin Requests
  BY DEF IInv, TypeOK, PodsAlone, EndPod, Running, Jobs, Gens
<1>2. pods' \in [Jobs -> 0..2] /\ (\A j \in Jobs : pods'[j] = 0) /\ Quiet'
  <2>1. \A j \in Jobs : pods'[j] = 0
    BY <1>1 DEF IInv, TypeOK, EndPod
  <2> QED BY <2>1 DEF IInv, TypeOK, EndPod, Quiet, Running
<1>3. PICK result \in {"succeeded", "failed"} :
          /\ job' = IF job[k] = "active" THEN [job EXCEPT ![k] = result] ELSE job
          /\ content' = IF Checkout(k) /\ result = "succeeded" THEN CheckedOut(k) ELSE content
  BY DEF EndPod
<1>4. UNCHANGED <<gen, status, claim, lease, request, starts, child, pass, disruptions>>
  BY DEF EndPod
<1>5. /\ job' \in [Jobs -> {"absent", "created", "active", "succeeded", "failed", "deleting"}]
      /\ job'[k] = (IF job[k] = "active" THEN result ELSE job[k])
      /\ \A j \in Jobs : j # k => job'[j] = job[j]
  BY <1>3 DEF IInv, TypeOK
<1>6. /\ content' \in 0..MaxGen
      /\ k \in Commands => content' = content
      /\ k \in Syncs => content' = IF result = "succeeded" THEN request[k].gen ELSE content
      /\ k \in Gens => content' = IF result = "succeeded" THEN k ELSE content
  BY <1>1, <1>3 DEF IInv, TypeOK, Checkout, CheckedOut, Requests, Jobs, Gens
<1>7. /\ k \notin Commands => ~ReadyNow
      /\ \A c \in Clones : ~At(c, "record") /\ ~Pending(c)
      /\ ~Quiet
      /\ \A o \in Requests : o \in Jobs /\ o \notin Gens
  BY <1>1 DEF IInv, PodsAlone, SyncSafe, ContentSafe, Quiet, Running, Requests, Jobs, Gens
<1>8. TypeOK'
  BY <1>1, <1>2, <1>4, <1>5, <1>6, <1>7 DEF IInv, TypeOK, Passes, RequestObjects, Lives, Consumers
<1>9. HoldsExclusive'
  BY <1>1, <1>2, <1>4, <1>5, <1>6, <1>7 DEF IInv, HoldsExclusive, Holds, Consumers
<1>10. GenerationsSeen'
  BY <1>1, <1>2, <1>4, <1>5, <1>6, <1>7 DEF IInv, GenerationsSeen, Jobs, Consumers
<1>11. \A p \in Requests : RequestSafe(p)'
  BY <1>1, <1>2, <1>4, <1>5, <1>6, <1>7 DEF IInv, RequestSafe, At, Scheduling, Holds, Busied, Running, Jobs,
     Consumers
<1>12. \A d \in Clones : CloneSafe(d)'
  BY <1>4, <1>7 DEF IInv, CloneSafe, At, Holds, Pending
<1>13. ParentSafe'
  <2>1. pass[Parent].gen # 0 => pass[Parent].gen \in Gens
    BY DEF IInv, TypeOK, Consumers, Gens
  <2> QED BY <1>4, <1>5, <2>1 DEF IInv, ParentSafe, At, Holds, Published, Jobs
<1>14. BootstrapSafe'
  BY <1>1, <1>2, <1>4, <1>5, <1>6, <1>7 DEF IInv, BootstrapSafe, Holds, Busied, ReadyNow, Observed, Jobs,
     Consumers
<1>15. PodsAlone'
  BY <1>1, <1>2, <1>4, <1>5, <1>6, <1>7 DEF IInv, PodsAlone, At, Scheduling, Quiet, Running, Pending, Requests,
     Consumers
<1>16. \A p \in Syncs : SyncSafe(p)'
  BY <1>1, <1>2, <1>4, <1>5, <1>6, <1>7 DEF IInv, SyncSafe, At, Quiet, Busied, Running, ReadyNow, Observed,
     Requests, Jobs, RequestSafe, Consumers
<1>17. ContentSafe'
  <2>1. ReadyNow => content' = gen
    BY <1>6, <1>7 DEF IInv, ContentSafe, Requests
  <2>2. \A g \in Gens : ~Running(g)'
    BY <1>2 DEF Quiet, Jobs
  <2>3. job'[gen] = "succeeded" /\ ~Published(status, gen) => content' = gen /\ Holds(Parent, "write")
    <3> SUFFICES ASSUME job'[gen] = "succeeded", ~Published(status, gen) PROVE content' = gen /\ Holds(Parent, "write")
      OBVIOUS
    <3>1. gen \in Gens /\ gen \in Jobs
      BY DEF IInv, TypeOK, Jobs
    <3>2. job[gen] # "succeeded"
      BY <1>7 DEF IInv, ContentSafe
    <3>3. k = gen /\ job[k] = "active" /\ result = "succeeded"
      BY <1>5, <3>1, <3>2
    <3> QED BY <1>6, <3>1, <3>3 DEF IInv, BootstrapSafe, Busied
  <2>4. pass[Parent].pc \in {"acquire", "confirm", "record", "result", "release"} => job'[gen] = job[gen]
    <3> QED BY <1>5 DEF IInv, TypeOK, ParentSafe, Jobs
  <2> QED BY <1>2, <1>4, <1>7, <2>1, <2>2, <2>3, <2>4 DEF IInv, ContentSafe, At, Holds, Published, ReadyNow, Observed
<1> QED BY <1>8, <1>9, <1>10, <1>11, <1>12, <1>13, <1>14, <1>15, <1>16, <1>17 DEF IInv

\* A Job that is gone leaves nothing to start, whoever removed it.
LEMMA JobGoes ==
    ASSUME IInv, NEW k \in Jobs, job' = [job EXCEPT ![k] = "absent"],
           disruptions' \in 0..MaxDisruptions,
           UNCHANGED <<gen, status, claim, content, lease, request, pods, starts, child, pass>>
    PROVE  IInv'
<1> USE ParentAssumption
<1>1. /\ job' \in [Jobs -> {"absent", "created", "active", "succeeded", "failed", "deleting"}]
      /\ job'[k] = "absent" /\ \A j \in Jobs : j # k => job'[j] = job[j]
  BY DEF IInv, TypeOK
<1>2. pass[Parent].gen # 0 => pass[Parent].gen \in Jobs
  BY DEF IInv, TypeOK, Consumers, Jobs, Gens
<1>3. gen \in Jobs /\ \A o \in Requests : o \in Jobs
  BY DEF IInv, TypeOK, Jobs
<1>4. TypeOK'
  BY <1>1, <1>2, <1>3 DEF IInv, TypeOK, Passes, RequestObjects, Lives, Jobs
<1>5. HoldsExclusive'
  BY <1>1, <1>2, <1>3 DEF IInv, HoldsExclusive, Holds, Jobs
<1>6. GenerationsSeen'
  BY <1>1, <1>2, <1>3 DEF IInv, GenerationsSeen, Jobs
<1>7. \A p \in Requests : RequestSafe(p)'
  BY <1>1, <1>2, <1>3 DEF IInv, RequestSafe, At, Scheduling, Holds, Busied, Running, Jobs
<1>8. \A d \in Clones : CloneSafe(d)'
  BY <1>1, <1>2, <1>3 DEF IInv, CloneSafe, At, Holds, Pending, Jobs
<1>9. ParentSafe'
  BY <1>1, <1>2, <1>3 DEF IInv, ParentSafe, At, Holds, Published, Jobs
<1>10. BootstrapSafe'
  BY <1>1, <1>2, <1>3 DEF IInv, BootstrapSafe, Holds, Busied, ReadyNow, Observed, Jobs
<1>11. PodsAlone'
  BY <1>1, <1>2, <1>3 DEF IInv, PodsAlone, At, Scheduling, Quiet, Running, Pending, Jobs
<1>12. \A p \in Syncs : SyncSafe(p)'
  BY <1>1, <1>2, <1>3 DEF IInv, SyncSafe, At, Quiet, Busied, Running, ReadyNow, Observed, Requests, Jobs
<1>13. ContentSafe'
  BY <1>1, <1>2, <1>3 DEF IInv, ContentSafe, At, Holds, Quiet, Running, ReadyNow, Observed, Published, Jobs
<1> QED BY <1>4, <1>5, <1>6, <1>7, <1>8, <1>9, <1>10, <1>11, <1>12, <1>13 DEF IInv

\* Jobs that are removed, expire or are lost.
LEMMA JobsKeep ==
    ASSUME IInv, NEW k \in Jobs, RemoveJob(k) \/ ExpireJob(k) \/ LoseJobObject(k)
    PROVE  IInv'
<1>1. disruptions' \in 0..MaxDisruptions
  BY ParentAssumption DEF IInv, TypeOK, RemoveJob, ExpireJob, LoseJobObject, Disrupt
<1> QED BY <1>1, JobGoes DEF RemoveJob, ExpireJob, LoseJobObject

\* A deletion waits for the finalizer, if there still is one.
LEMMA DeleteRequestKeeps ==
    ASSUME IInv, NEW o \in Requests, DeleteRequest(o)
    PROVE  IInv'
<1> USE ParentAssumption
<1>1. o \in Consumers /\ request[o].life = "live"
  BY DEF Consumers, DeleteRequest
<1>2. /\ RequestBecomes(o, request'[o])
      /\ request'[o].recorded <=> request[o].recorded
      /\ request'[o].gen = request[o].gen /\ request'[o].phase = request[o].phase
      /\ request'[o].life = IF request[o].phase = "released" THEN "gone" ELSE "deleting"
  <2> DEFINE life == IF request[o].phase = "released" THEN "gone" ELSE "deleting"
  <2>1. life \in Lives
    BY DEF Lives
  <2>2. TypeOK /\ request' = [request EXCEPT ![o].life = life]
    BY DEF IInv, DeleteRequest
  <2> HIDE DEF life
  <2>3. /\ RequestBecomes(o, request'[o])
        /\ request'[o].recorded <=> request[o].recorded
        /\ request'[o].gen = request[o].gen
        /\ request'[o].phase = request[o].phase /\ request'[o].life = life
    BY <2>1, <2>2, LifeBecomes
  <2> QED BY <2>3 DEF life
<1>3. disruptions' \in 0..MaxDisruptions
  BY DEF IInv, TypeOK, DeleteRequest, Disrupt
<1>4. UNCHANGED <<gen, status, claim, content, lease, job, pods, starts, child, pass>>
  BY DEF DeleteRequest
<1>5. TypeOK'
  BY <1>1, <1>2, <1>3, <1>4 DEF IInv, TypeOK, Passes, RequestObjects, Lives, RequestBecomes, Consumers
<1>6. HoldsExclusive'
  BY <1>1, <1>2, <1>3, <1>4 DEF IInv, HoldsExclusive, Holds, RequestBecomes, Consumers
<1>7. GenerationsSeen'
  BY <1>1, <1>2, <1>3, <1>4 DEF IInv, GenerationsSeen, RequestBecomes, Consumers
<1>8. \A p \in Requests : RequestSafe(p)'
  BY <1>1, <1>2, <1>3, <1>4 DEF IInv, RequestSafe, At, Scheduling, Holds, Busied, Running, RequestBecomes,
     Consumers
<1>9. \A d \in Clones : CloneSafe(d)'
  BY <1>1, <1>2, <1>3, <1>4 DEF IInv, CloneSafe, At, Holds, Pending, RequestBecomes, Consumers
<1>10. ParentSafe'
  BY <1>1, <1>2, <1>3, <1>4 DEF IInv, ParentSafe, At, Holds, Published, RequestBecomes, Consumers
<1>11. BootstrapSafe'
  BY <1>1, <1>2, <1>3, <1>4 DEF IInv, BootstrapSafe, Holds, Busied, ReadyNow, Observed, RequestBecomes,
     Consumers
<1>12. PodsAlone'
  BY <1>1, <1>2, <1>3, <1>4 DEF IInv, PodsAlone, At, Scheduling, Quiet, Running, Pending, RequestBecomes,
     Consumers
<1>13. \A p \in Syncs : SyncSafe(p)'
  BY <1>1, <1>2, <1>3, <1>4 DEF IInv, SyncSafe, At, Quiet, Busied, Running, ReadyNow, Observed, Requests,
     RequestBecomes, Consumers
<1>14. ContentSafe'
  BY <1>1, <1>2, <1>3, <1>4 DEF IInv, ContentSafe, At, Holds, Quiet, Running, ReadyNow, Observed, Published,
     RequestBecomes, Consumers
<1> QED BY <1>5, <1>6, <1>7, <1>8, <1>9, <1>10, <1>11, <1>12, <1>13, <1>14 DEF IInv

\* A new generation is of no Job yet, and nothing is published for it.
LEMMA EditKeeps ==
    ASSUME IInv, Edit
    PROVE  IInv'
<1> USE ParentAssumption
<1>1. gen \in Nat /\ gen' = gen + 1 /\ gen' \in Gens
  BY DEF IInv, TypeOK, Edit, Gens
<1>2. UNCHANGED <<status, claim, content, lease, request, job, pods, starts, child, pass, disruptions>>
  BY DEF Edit
<1>3. /\ status.gen \in Nat /\ status.gen <= gen /\ ~ReadyNow' /\ job[gen'] = "absent"
      /\ \A o \in Consumers : pass[o].gen \in Nat /\ pass[o].status.gen \in Nat
      /\ \A o \in Requests : request[o].gen \in Nat
      /\ \A g \in Gens : g \in Nat
  BY <1>1, <1>2 DEF IInv, TypeOK, GenerationsSeen, Statuses, Gens, ReadyNow, Observed
<1>4. TypeOK'
  BY <1>1, <1>2, <1>3 DEF IInv, TypeOK, Passes, RequestObjects, Lives, Consumers
<1>5. HoldsExclusive'
  BY <1>1, <1>2, <1>3 DEF IInv, HoldsExclusive, Holds, Consumers
<1>6. GenerationsSeen'
  BY <1>1, <1>2, <1>3 DEF IInv, GenerationsSeen, Consumers
<1>7. \A p \in Requests : RequestSafe(p)'
  BY <1>1, <1>2, <1>3 DEF IInv, RequestSafe, At, Scheduling, Holds, Busied, Running, Consumers
<1>8. \A d \in Clones : CloneSafe(d)'
  BY <1>1, <1>2, <1>3 DEF IInv, CloneSafe, At, Holds, Pending, Consumers
<1>9. ParentSafe'
  BY <1>1, <1>2, <1>3 DEF IInv, ParentSafe, At, Holds, Published, GenerationsSeen, Consumers
<1>10. BootstrapSafe'
  BY <1>1, <1>2, <1>3 DEF IInv, BootstrapSafe, Holds, Busied, ReadyNow, Observed, Consumers
<1>11. PodsAlone'
  BY <1>1, <1>2, <1>3 DEF IInv, PodsAlone, At, Scheduling, Quiet, Running, Pending, Consumers
<1>12. \A p \in Syncs : SyncSafe(p)'
  BY <1>1, <1>2, <1>3 DEF IInv, SyncSafe, At, Quiet, Busied, Running, ReadyNow, Observed, Requests, Consumers
<1>13. ContentSafe'
  <2>1. Parent \in Consumers
    BY DEF Consumers
  <2>2. pass[Parent].gen # gen' /\ ~Published(status, gen') /\ \A k \in Gens : Running(k) => ~ReadyNow'
    BY <1>1, <1>3, <2>1 DEF IInv, GenerationsSeen, Published
  <2> QED BY <1>2, <1>3, <2>2 DEF ContentSafe, At, Running
<1> QED BY <1>4, <1>5, <1>6, <1>7, <1>8, <1>9, <1>10, <1>11, <1>12, <1>13 DEF IInv

-----------------------------------------------------------------------------
(* The theorems.                                                           *)

\* The invariant holds initially.
LEMMA InitIInv ==
    ASSUME Init
    PROVE  IInv
<1> USE ParentAssumption DEF Init
<1>1. TypeOK
  BY DEF TypeOK, Gens, Statuses, StorageStates, HoldStates, EmptySet, AccessModes, Lives, NewRequest, NoPass, PassSteps
<1>2. /\ \A o \in Consumers : pass[o] = NoPass /\ At(o, "idle")
      /\ \A k \in Jobs : ~Running(k) /\ ~Busied(k)
      /\ \A o \in Consumers : Holds(o, "none")
  BY DEF At, Running, Busied, Holds, NoPass, EmptySet
<1>3. HoldsExclusive /\ GenerationsSeen
  BY <1>2 DEF HoldsExclusive, Holds, GenerationsSeen, NoPass, NewRequest, Consumers, Jobs
<1>4. \A o \in Requests : RequestSafe(o) /\ ~Scheduling(o)
  BY <1>2 DEF RequestSafe, Scheduling, At, NewRequest, NoPass, Consumers, Requests, Jobs, Running, Busied
<1>5. \A c \in Clones : CloneSafe(c) /\ ~Pending(c)
  BY <1>2 DEF CloneSafe, At, Pending, NoPass, Consumers
<1>6. ParentSafe /\ BootstrapSafe /\ ContentSafe
  BY <1>2, SMTT(30) DEF ParentSafe, BootstrapSafe, ContentSafe, At, NoPass, Consumers, Jobs, Gens, ReadyNow, Observed, Published
<1>7. PodsAlone
  BY <1>2, <1>4, <1>5 DEF PodsAlone, At, Running, Consumers, NoPass
<1>8. \A o \in Syncs : SyncSafe(o)
  BY <1>2 DEF SyncSafe, At, NewRequest, NoPass, Consumers, Requests, Jobs
<1> QED BY <1>1, <1>3, <1>4, <1>5, <1>6, <1>7, <1>8 DEF IInv

\* Every step keeps the invariant.
LEMMA StepIInv ==
    ASSUME IInv, [Next]_vars
    PROVE  IInv'
<1>1. CASE ParentStep
  BY <1>1, BeginParentKeeps, ReserveKeeps, ConfirmKeeps, BootstrapKeeps, SetStatusKeeps, ReleaseParentKeeps
     DEF ParentStep, Consumers
<1>2. ASSUME NEW o \in Requests, RequestStep(o) \/ DeleteRequest(o) PROVE IInv'
  BY <1>2, BeginRequestKeeps, ReserveKeeps, ConfirmKeeps, RecordKeeps, SetParentKeeps, CreateJobKeeps,
     SetResultKeeps, ReleaseOperationKeeps, FinalizeOperationKeeps, DeleteRequestKeeps
     DEF RequestStep, Consumers
<1>3. ASSUME NEW c \in Clones, CloneStep(c) \/ Provision(c) \/ DeleteWorktree(c) PROVE IInv'
  BY <1>3, BeginCloneKeeps, ReserveKeeps, ConfirmKeeps, CreateCloneKeeps, ReleaseCloneKeeps,
     ProvisionKeeps, DeleteWorktreeKeeps
     DEF CloneStep, Consumers
<1>4. ASSUME NEW k \in Jobs, StartPod(k) \/ EndPod(k) \/ RemoveJob(k) \/ ExpireJob(k) \/ LoseJobObject(k)
      PROVE  IInv'
  BY <1>4, StartPodKeeps, EndPodKeeps, JobsKeep
<1>5. CASE Edit
  BY <1>5, EditKeeps
<1>6. ASSUME NEW o \in Consumers, PassFails(o) PROVE IInv'
  BY <1>6, PassFailsKeeps
<1>7. CASE UNCHANGED vars
  BY <1>7, SMTT(30) DEF vars, IInv, TypeOK, HoldsExclusive, GenerationsSeen, RequestSafe, CloneSafe, ParentSafe, BootstrapSafe,
     PodsAlone, SyncSafe, ContentSafe, At, Holds, Busied, Running, Quiet, Scheduling, Pending, Published, ReadyNow, Observed
<1> QED BY <1>1, <1>2, <1>3, <1>4, <1>5, <1>6, <1>7 DEF Next

\* The inductive invariant holds in every state: what a pass established when it
\* was admitted to the parent is still so when it uses the parent.
THEOREM GateInvariant == Spec => []IInv
<1>1. Init => IInv
  BY InitIInv
<1>2. IInv /\ [Next]_vars => IInv'
  BY StepIInv
<1> QED BY <1>1, <1>2, PTL DEF Spec

\* Every variable has its type.
THEOREM ParentTypes == Spec => []TypeOK
<1>1. IInv => TypeOK
  BY DEF IInv
<1> QED BY <1>1, GateInvariant, PTL

\* Two Pods never write the parent volume together, and none writes it while a
\* Worktree is cloned from it, for any number of requests and disruptions.
THEOREM WritersAlone == Spec => []ParentExclusive
<1>1. IInv => ParentExclusive
  BY DEF IInv, PodsAlone, ParentExclusive, Quiet
<1> QED BY <1>1, GateInvariant, PTL

\* A parent published as ready for the current spec holds a finished checkout of
\* that spec, whatever was edited, lost or retried before.
THEOREM ReadyHasContent == Spec => []ReadyIsWhole
<1>1. IInv => ReadyIsWhole
  BY DEF IInv, ContentSafe, ReadyIsWhole
<1> QED BY <1>1, GateInvariant, PTL

\* A Worktree is never cloned from a parent without a finished checkout.
THEOREM ClonesWhole == Spec => []CloneIsWhole
<1>1. IInv => CloneIsWhole
  BY DEF IInv, CloneSafe, CloneIsWhole
<1> QED BY <1>1, GateInvariant, PTL

\* The Pod of a RepositorySync or RepositoryExec starts at most once.
THEOREM RequestsRunOnce == Spec => []JobOnce
<1>1. IInv => JobOnce
  BY DEF IInv, RequestSafe, JobOnce
<1> QED BY <1>1, GateInvariant, PTL

\* A Pod of a request and a clone use the parent only under a reservation.
THEOREM UsersHold == Spec => []ReservedWhileUsed
<1>1. IInv => ReservedWhileUsed
  BY DEF IInv, RequestSafe, CloneSafe, ReservedWhileUsed, Holds
<1> QED BY <1>1, GateInvariant, PTL

=============================================================================
