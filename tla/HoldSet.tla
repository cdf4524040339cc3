------------------------------- MODULE HoldSet -------------------------------
(***************************************************************************)
(* Package internal/holdset at the granularity of its API requests: every  *)
(* operation is a Load, a change computed on the loaded copy, and a Save   *)
(* that the API server accepts only for the current resourceVersion.       *)
(*                                                                         *)
(* Each owner runs at most one call at a time (controller-runtime never    *)
(* reconciles one key twice at once); so does Keeper, the reconciler of    *)
(* the protected object, which sweeps and closes the set.  The obligations *)
(* the package puts on its callers (consumers are created only with an     *)
(* admission in hand, a hold is released or weakened only after the        *)
(* consumers that need it stopped) are guards of the call actions.         *)
(*                                                                         *)
(* The resourceVersion is not a counter: `fresh' is the set of callers     *)
(* whose loaded copy is still the current object.  Every write empties it. *)
(***************************************************************************)
EXTENDS Naturals, HoldState

CONSTANTS
    Covers,         \* <<m, n>>: holding mode m permits a consumer of mode n
    Keeper,         \* the reconciler of the protected object
    CreatesObject,  \* TRUE: LeaseStore; FALSE: AnnotationStore
    MaxTries        \* attempts of one Update (retry.DefaultBackoff.Steps)

ASSUME CoversAssumption ==
    /\ Covers \subseteq Modes \X Modes
    /\ \A m \in Modes : <<m, m>> \in Covers
    /\ \A m, n, k \in Modes :
         <<m, n>> \in Covers /\ <<n, k>> \in Covers => <<m, k>> \in Covers
    /\ \A m, n, k \in Modes :
         <<m, n>> \in Covers /\ <<n, k>> \in Excludes => <<m, k>> \in Excludes

ASSUME KeeperAssumption == Keeper \notin Owners

ASSUME StoreAssumption == CreatesObject \in BOOLEAN /\ MaxTries \in Nat \ {0}

Callers == Owners \cup {Keeper}

VARIABLES
    exists,     \* the Kubernetes object that carries the set exists
    set,        \* the persisted hold set
    fresh,      \* callers whose loaded resourceVersion is the current one
    call,       \* the call each caller is in
    alive,      \* owners that still exist; a UID is never reused
    consumers,  \* the modes of each owner's running Pods, Jobs or claims
    drained     \* a Close has returned no remaining holder

vars == <<exists, set, fresh, call, alive, consumers, drained>>

Calls == [op : {"none", "acquire", "release", "retain", "close", "sweep"},
          pc : {"idle", "load", "save", "admitted"},
          mode : Modes \cup {NoMode},
          cand : SUBSET Owners,
          next : HoldStates,
          tries : 0 .. MaxTries]

Idle == [op |-> "none", pc |-> "idle", mode |-> NoMode, cand |-> {},
         next |-> EmptySet, tries |-> 0]

TypeOK ==
    /\ exists \in BOOLEAN
    /\ set \in HoldStates
    /\ fresh \subseteq Callers
    /\ call \in [Callers -> Calls]
    /\ alive \subseteq Owners
    /\ consumers \in [Owners -> SUBSET Modes]
    /\ drained \in BOOLEAN

Init ==
    /\ exists = ~CreatesObject
    /\ set = EmptySet
    /\ fresh = {}
    /\ call = [c \in Callers |-> Idle]
    /\ alive = Owners
    /\ consumers = [o \in Owners |-> {}]
    /\ drained = FALSE

-----------------------------------------------------------------------------
(* Starting a call.                                                        *)

Started(op, m, cand) ==
    [Idle EXCEPT !.op = op, !.pc = "load", !.mode = m, !.cand = cand]

Begin(c, op, m, cand) == call' = [call EXCEPT ![c] = Started(op, m, cand)]

IsIdle(c) == call[c].pc = "idle"

Returned(c) == call' = [call EXCEPT ![c] = Idle]

\* Every running consumer of o is permitted by mode m.
Sufficient(o, m) == \A k \in consumers[o] : <<m, k>> \in Covers

CallAcquire(o, m) ==
    /\ IsIdle(o) /\ o \in alive
    /\ Sufficient(o, m)
    /\ Begin(o, "acquire", m, {})
    /\ UNCHANGED <<exists, set, fresh, alive, consumers, drained>>

CallRelease(o) ==
    /\ IsIdle(o) /\ o \in alive
    /\ consumers[o] = {}
    /\ Begin(o, "release", NoMode, {})
    /\ UNCHANGED <<exists, set, fresh, alive, consumers, drained>>

\* Retain weakens a hold to mode m; it never strengthens one.
CallRetain(o, m) ==
    /\ IsIdle(o) /\ o \in alive
    /\ Sufficient(o, m)
    /\ Begin(o, "retain", m, {})
    /\ UNCHANGED <<exists, set, fresh, alive, consumers, drained>>

\* Only the Worktree's set, kept in an annotation, is ever closed.
CallClose ==
    /\ IsIdle(Keeper) /\ ~CreatesObject
    /\ Begin(Keeper, "close", NoMode, {})
    /\ UNCHANGED <<exists, set, fresh, alive, consumers, drained>>

\* Mutant: an owner that is gone makes its hold stale, whatever still runs.
StaleOwner(o) == o \notin alive

\* claimInUse: some consumer runs.  Pods are not attributed to holders, so the
\* Pod of any owner counts.
InUse == \E p \in Owners : consumers[p] # {}

\* What the callers' stale functions report: the owner is gone and nothing
\* uses the object.  The two are read as one step here.  (The code lists the
\* Pods once per sweep, for the first owner that is gone; an owner that starts
\* a Pod and goes between that list and its own turn is left out.)
Stale(o) == o \notin alive /\ ~InUse

\* Mutant: a closed set is not swept.
CallSweepOpen ==
    /\ IsIdle(Keeper) /\ exists /\ ~set.closed
    /\ \E cand \in SUBSET {o \in Holders(set) : Stale(o)} :
         /\ cand # {}
         /\ Begin(Keeper, "sweep", NoMode, cand)
    /\ UNCHANGED <<exists, set, fresh, alive, consumers, drained>>

\* Sweep loads the set and evaluates stale outside the CAS loop, so another
\* owner may use the object again before the Save; a candidate itself stays
\* gone and without consumers.
CallSweep ==
    /\ IsIdle(Keeper) /\ exists
    /\ \E cand \in SUBSET {o \in Holders(set) : Stale(o)} :
         /\ cand # {}
         /\ Begin(Keeper, "sweep", NoMode, cand)
    /\ UNCHANGED <<exists, set, fresh, alive, consumers, drained>>

-----------------------------------------------------------------------------
(* Update: Load, change, Save.                                             *)

\* An absent object loads as the empty set.
Loaded == IF exists THEN set ELSE EmptySet

\* The change function of call k made by caller c, applied to the set s.
Change(c, k, s) ==
    CASE k.op = "acquire" -> Admit(s, c, k.mode)
      [] k.op = "release" -> Remove(s, c)
      [] k.op = "retain"  -> IF s.mode[c] # NoMode /\ <<s.mode[c], k.mode>> \in Covers
                             THEN Put(s, c, k.mode) ELSE s
      [] k.op = "close"   -> Close(s)
      [] k.op = "sweep"   -> [s EXCEPT !.mode = [o \in Owners |->
                                 IF o \in k.cand THEN NoMode ELSE s.mode[o]]]
      [] OTHER            -> s

\* Mutant: Close reports success without looking at the remaining holders.
FinishUndrained(c, s) ==
    LET k == call[c] IN
    /\ IF k.op = "acquire" /\ Admitted(s, c, k.mode)
       THEN call' = [call EXCEPT ![c] = [Idle EXCEPT !.pc = "admitted", !.mode = k.mode]]
       ELSE Returned(c)
    /\ drained' = (drained \/ k.op = "close")

\* The call of c returns having seen or persisted s.
Finish(c, s) ==
    LET k == call[c] IN
    /\ IF k.op = "acquire" /\ Admitted(s, c, k.mode)
       THEN call' = [call EXCEPT ![c] = [Idle EXCEPT !.pc = "admitted", !.mode = k.mode]]
       ELSE Returned(c)
    /\ drained' = (drained \/ (k.op = "close" /\ Holders(s) = {}))

\* Load and change.  A store that cannot create its object changes nothing when
\* the object is absent: Close reports ErrAbsent, an admission is refused.
Load(c) ==
    LET k == call[c]
        next == Change(c, k, Loaded)
    IN
    /\ k.pc = "load"
    /\ \/ /\ ~exists /\ ~CreatesObject
          /\ Returned(c)
          /\ UNCHANGED <<fresh, drained>>
       \/ /\ exists \/ CreatesObject
          /\ next = Loaded
          /\ Finish(c, Loaded)
          /\ UNCHANGED fresh
       \/ /\ exists \/ CreatesObject
          /\ next # Loaded
          /\ call' = [call EXCEPT ![c].pc = "save", ![c].next = next,
                                  ![c].tries = @ + 1]
          /\ fresh' = fresh \cup {c}
          /\ UNCHANGED drained
    /\ UNCHANGED <<exists, set, alive, consumers>>

\* The API server applies c's write.
Written(c) ==
    /\ exists' = TRUE
    /\ set' = call[c].next
    /\ fresh' = {}

\* Mutant: a write without a resourceVersion precondition.
WritableBlind(c) == call[c].pc = "save" /\ (exists \/ CreatesObject)

Writable(c) == call[c].pc = "save" /\ c \in fresh /\ (exists \/ CreatesObject)

Save(c) ==
    /\ Writable(c)
    /\ Written(c)
    /\ Finish(c, call[c].next)
    /\ UNCHANGED <<alive, consumers>>

\* The write is applied but its response is lost: the caller sees an error.
SaveUnknown(c) ==
    /\ Writable(c)
    /\ Written(c)
    /\ Returned(c)
    /\ UNCHANGED <<alive, consumers, drained>>

\* Mutant: one attempt too many.
SaveConflictOnceMore(c) ==
    /\ call[c].pc = "save" /\ c \notin fresh /\ exists
    /\ IF call[c].tries <= MaxTries
       THEN call' = [call EXCEPT ![c].pc = "load", ![c].next = EmptySet]
       ELSE Returned(c)
    /\ UNCHANGED <<exists, set, fresh, alive, consumers, drained>>

\* Conflict or AlreadyExists: retried until the attempts are used up.
SaveConflict(c) ==
    /\ call[c].pc = "save" /\ c \notin fresh /\ exists
    /\ IF call[c].tries < MaxTries
       THEN call' = [call EXCEPT ![c].pc = "load", ![c].next = EmptySet]
       ELSE Returned(c)
    /\ UNCHANGED <<exists, set, fresh, alive, consumers, drained>>

\* Any other failure of a request: the call returns an error with nothing
\* written.  A Save without an object to patch is one of them.
CallFails(c) ==
    /\ call[c].pc \in {"load", "save"}
    /\ Returned(c)
    /\ fresh' = fresh \ {c}
    /\ UNCHANGED <<exists, set, alive, consumers, drained>>

-----------------------------------------------------------------------------
(* Consumers, owners, the object and the controller process.               *)

CreateConsumer(o) ==
    /\ call[o].pc = "admitted"
    /\ consumers' = [consumers EXCEPT ![o] = @ \cup {call[o].mode}]
    /\ Returned(o)
    /\ UNCHANGED <<exists, set, fresh, alive, drained>>

\* The pass ends after admission without having created anything.
Abandon(o) ==
    /\ call[o].pc = "admitted"
    /\ Returned(o)
    /\ UNCHANGED <<exists, set, fresh, alive, consumers, drained>>

StopConsumers(o) ==
    /\ consumers[o] # {}
    /\ \E rest \in SUBSET consumers[o] :
         /\ rest # consumers[o]
         /\ consumers' = [consumers EXCEPT ![o] = rest]
    /\ UNCHANGED <<exists, set, fresh, call, alive, drained>>

\* Finalizers keep an owner until its own reconciler has finished with it; a
\* forced removal may leave its consumers and its hold behind.
OwnerGone(o) ==
    /\ o \in alive /\ IsIdle(o)
    /\ alive' = alive \ {o}
    /\ UNCHANGED <<exists, set, fresh, call, consumers, drained>>

\* A writer of other fields of the annotated object moves its resourceVersion.
OtherWrite ==
    /\ ~CreatesObject /\ exists
    /\ fresh # {}
    /\ fresh' = {}
    /\ UNCHANGED <<exists, set, call, alive, consumers, drained>>

\* Cleanup lets go of the object only after a Close returned no holder.
RemoveObject ==
    /\ drained /\ exists
    /\ exists' = FALSE
    /\ fresh' = {}
    /\ UNCHANGED <<set, call, alive, consumers, drained>>

\* The controller process restarts: every call in flight is forgotten.
Restart ==
    /\ \E c \in Callers : ~IsIdle(c)
    /\ call' = [c \in Callers |-> Idle]
    /\ fresh' = {}
    /\ UNCHANGED <<exists, set, alive, consumers, drained>>

UpdateStep(c) ==
    Load(c) \/ Save(c) \/ SaveUnknown(c) \/ SaveConflict(c) \/ CallFails(c)

OwnerStep(o) ==
    \/ \E m \in Modes : CallAcquire(o, m) \/ CallRetain(o, m)
    \/ CallRelease(o) \/ CreateConsumer(o) \/ Abandon(o)
    \/ StopConsumers(o) \/ OwnerGone(o)

Next ==
    \/ \E c \in Callers : UpdateStep(c)
    \/ \E o \in Owners : OwnerStep(o)
    \/ CallClose \/ CallSweep \/ OtherWrite \/ RemoveObject \/ Restart

Spec == Init /\ [][Next]_vars

-----------------------------------------------------------------------------
(* Properties.                                                             *)

\* Mutual exclusion of consumers: however admission, release, sweep and
\* restarts interleave, two owners never run consumers whose modes exclude
\* each other (holdset.go: "admission and the deletion fence serialize on the
\* same write").
ExclusiveAccess ==
    \A o, p \in Owners : o # p =>
        \A k \in consumers[o], n \in consumers[p] : <<k, n>> \notin Excludes

\* No running consumer is ever without a recorded hold that permits it: not
\* after a lost response, a sweep evaluated earlier, or a retried release.
ConsumersCovered ==
    \A o \in Owners : \A k \in consumers[o] :
        set.mode[o] # NoMode /\ <<set.mode[o], k>> \in Covers

\* Once a Close has returned no holder, nothing uses the object or has
\* permission to start: deletion of the storage may proceed.
DrainedIsQuiet ==
    drained => \A o \in Owners : consumers[o] = {} /\ call[o].pc # "admitted"

\* Closing is irreversible, and no step after it adds a holder or strengthens
\* a hold; releasing the last holder does not reopen the set.
FenceHolds ==
    [][set.closed =>
         /\ set'.closed
         /\ \A o \in Owners :
              \/ set'.mode[o] \in {set.mode[o], NoMode}
              \/ set.mode[o] # NoMode /\ <<set.mode[o], set'.mode[o]>> \in Covers]_vars

\* The parts of the inductive invariant behind these properties.

\* No two holders of the persisted set exclude each other.
HoldsCompatible ==
    \A o, p \in Owners : o # p /\ set.mode[o] # NoMode /\ set.mode[p] # NoMode
        => <<set.mode[o], set.mode[p]>> \notin Excludes

\* A save that the API server would accept was computed from the current set.
FreshIsCurrent ==
    \A c \in fresh : call[c].pc = "save" /\ call[c].next = Change(c, call[c], Loaded)

\* What an owner's call in flight relies on stays true until it returns.
OwnerCallsSafe ==
    \A o \in Owners :
        /\ call[o].op \in {"none", "acquire", "release", "retain"}
        /\ call[o].op \in {"acquire", "retain"} =>
             call[o].mode \in Modes /\ Sufficient(o, call[o].mode)
        /\ call[o].op = "release" => consumers[o] = {}
        /\ call[o].pc = "admitted" =>
             call[o].mode \in Modes /\ set.mode[o] = call[o].mode
        /\ o \notin alive => call[o].pc = "idle"

\* An owner that is gone and has no consumers of its own; unlike Stale this
\* stays true once it is.
LeftBehind(o) == o \notin alive /\ consumers[o] = {}

\* A hold chosen by the sweeper protects nothing until it is removed, although
\* the object may be in use again.
KeeperCallSafe ==
    /\ call[Keeper].op \in {"none", "close", "sweep"}
    /\ call[Keeper].op = "close" => ~CreatesObject
    /\ call[Keeper].pc # "admitted"
    /\ \A o \in call[Keeper].cand : LeftBehind(o)

\* A call about to load has an attempt left.
AttemptLeft == \A c \in Callers : call[c].pc = "load" => call[c].tries < MaxTries

\* An absent object has no holders, and only a closed, empty set is drained.
AbsentIsEmpty ==
    /\ ~exists => Holders(set) = {}
    /\ CreatesObject => ~set.closed
    /\ drained => set.closed /\ Holders(set) = {}

IInv ==
    /\ TypeOK
    /\ HoldsCompatible
    /\ ConsumersCovered
    /\ FreshIsCurrent
    /\ OwnerCallsSafe
    /\ KeeperCallSafe
    /\ AttemptLeft
    /\ AbsentIsEmpty

\* The call-level protocol implements the atomic hold set.
Abstract == INSTANCE AccessFence WITH hold <- set, users <- consumers
ImplementsFence == Abstract!FenceSpec

\* Fairness: every pass of the keeper begins with a sweep and a failed pass is
\* requeued, so the sweep is called again and again; the API server does not
\* fail every request for ever, and with the client's backoff contention on
\* one object does not last for ever.  Nothing is assumed of the owners or of
\* their consumers.
Fairness ==
    /\ SF_vars(CallSweep)
    /\ SF_vars(call[Keeper].op = "sweep" /\ Load(Keeper))
    /\ SF_vars(call[Keeper].op = "sweep" /\ Save(Keeper))
    /\ WF_vars(UpdateStep(Keeper))

FairSpec == Spec /\ Fairness

\* A hold left behind by an owner that is gone (a write whose response was
\* lost, a forced deletion) is eventually removed once the object stays unused.
\* While any Pod uses it every hold is kept: a reader that never stops keeps
\* the hold of a writer that is gone.
LeftHoldsSwept ==
    <>[]~InUse => \A o \in Owners : o \notin alive ~> set.mode[o] = NoMode

=============================================================================
