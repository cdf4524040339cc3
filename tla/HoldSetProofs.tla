---------------------------- MODULE HoldSetProofs ----------------------------
(***************************************************************************)
(* Proofs about HoldSet, for every set of owners, every access policy that *)
(* satisfies the assumptions, both stores and every number of attempts.    *)
(***************************************************************************)
EXTENDS HoldSet, TLAPS

-----------------------------------------------------------------------------
(* The operators on hold sets.                                             *)

\* The empty set, and the results of Remove, Put, Close and Admit, are hold
\* sets (holdset.go, State).
LEMMA HoldStateTypes ==
    /\ EmptySet \in HoldStates
    /\ \A s \in HoldStates : Close(s) \in HoldStates
    /\ \A s \in HoldStates, o \in Owners : Remove(s, o) \in HoldStates
    /\ \A s \in HoldStates, o \in Owners, m \in Modes : Put(s, o, m) \in HoldStates
    /\ \A s \in HoldStates, o \in Owners, m \in Modes : Admit(s, o, m) \in HoldStates
BY DEF EmptySet, HoldStates, Close, Remove, Put, Admit

\* Removing the sweep's candidates leaves a hold set (holdset.go, Sweep).
LEMMA SweepType ==
    ASSUME NEW c, NEW k, NEW s \in HoldStates, k.op = "sweep"
    PROVE  /\ Change(c, k, s) \in HoldStates
           /\ Change(c, k, s).closed = s.closed
           /\ \A o \in Owners : Change(c, k, s).mode[o] =
                                  IF o \in k.cand THEN NoMode ELSE s.mode[o]
BY DEF Change, HoldStates

\* What Close computes (holdset.go, Close).
LEMMA CloseShape ==
    ASSUME NEW c, NEW k, NEW s \in HoldStates, k.op = "close"
    PROVE  /\ Change(c, k, s) \in HoldStates
           /\ Change(c, k, s).closed
           /\ Change(c, k, s).mode = s.mode
BY DEF Change, HoldStates, Close

\* An owner's call changes its own entry only, never the fence.
LEMMA OwnerShape ==
    ASSUME NEW c \in Owners, NEW k, NEW s \in HoldStates,
           k.op \in {"acquire", "release", "retain"},
           k.op \in {"acquire", "retain"} => k.mode \in Modes
    PROVE  /\ Change(c, k, s) \in HoldStates
           /\ Change(c, k, s).closed = s.closed
           /\ \A o \in Owners \ {c} : Change(c, k, s).mode[o] = s.mode[o]
           /\ Change(c, k, s).mode[c] \in {s.mode[c], k.mode, NoMode}
<1>1. CASE k.op = "acquire"
  <2>1. Change(c, k, s) = Admit(s, c, k.mode)
    BY <1>1 DEF Change
  <2> QED BY <1>1, <2>1 DEF Admit, Put, HoldStates
<1>2. CASE k.op = "release"
  <2>1. Change(c, k, s) = Remove(s, c)
    BY <1>2 DEF Change
  <2> QED BY <1>2, <2>1 DEF Remove, HoldStates
<1>3. CASE k.op = "retain"
  <2>1. Change(c, k, s) = IF s.mode[c] # NoMode /\ <<s.mode[c], k.mode>> \in Covers
                          THEN Put(s, c, k.mode) ELSE s
    BY <1>3 DEF Change
  <2> QED BY <1>3, <2>1 DEF Put, HoldStates
<1> QED BY <1>1, <1>2, <1>3

\* When an owner's call leaves it with a mode other than the one it had, an
\* acquire was admitted, a release removed it or a retain weakened it.
LEMMA OwnerChange ==
    ASSUME NEW c \in Owners, NEW k, NEW s \in HoldStates,
           k.op \in {"acquire", "release", "retain"},
           k.op \in {"acquire", "retain"} => k.mode \in Modes,
           Change(c, k, s).mode[c] # s.mode[c]
    PROVE  \/ /\ k.op = "acquire" /\ MayAdmit(s, c, k.mode)
              /\ Change(c, k, s).mode[c] = k.mode
           \/ /\ k.op = "release"
              /\ Change(c, k, s).mode[c] = NoMode
           \/ /\ k.op = "retain"
              /\ s.mode[c] # NoMode /\ <<s.mode[c], k.mode>> \in Covers
              /\ Change(c, k, s).mode[c] = k.mode
<1>1. CASE k.op = "acquire"
  <2>1. Change(c, k, s) = Admit(s, c, k.mode)
    BY <1>1 DEF Change
  <2> QED BY <1>1, <2>1 DEF Admit, Put, HoldStates
<1>2. CASE k.op = "release"
  <2>1. Change(c, k, s) = Remove(s, c)
    BY <1>2 DEF Change
  <2> QED BY <1>2, <2>1 DEF Remove, HoldStates
<1>3. CASE k.op = "retain"
  <2>1. Change(c, k, s) = IF s.mode[c] # NoMode /\ <<s.mode[c], k.mode>> \in Covers
                          THEN Put(s, c, k.mode) ELSE s
    BY <1>3 DEF Change
  <2> QED BY <1>3, <2>1 DEF Put, HoldStates
<1> QED BY <1>1, <1>2, <1>3

-----------------------------------------------------------------------------
(* A write that the API server accepts.                                    *)

\* An absent object that a store may create loads as the persisted, empty set.
LEMMA LoadedIsSet ==
    ASSUME IInv, exists \/ CreatesObject
    PROVE  Loaded = set
<1>1. CASE exists
  BY <1>1 DEF Loaded
<1>2. CASE ~exists
  <2>1. /\ \A o \in Owners : set.mode[o] = NoMode
        /\ set.closed = FALSE
    BY <1>2 DEF IInv, AbsentIsEmpty, Holders, TypeOK, HoldStates
  <2>2. set.mode = [o \in Owners |-> NoMode]
    BY <2>1 DEF IInv, TypeOK, HoldStates
  <2>3. set = EmptySet
    BY <2>1, <2>2 DEF IInv, TypeOK, HoldStates, EmptySet
  <2> QED BY <1>2, <2>3 DEF Loaded
<1> QED BY <1>1, <1>2

\* A save accepted for the current resourceVersion replaces the set by the
\* change of that very set (store.go, Save; holdset.go, Update).
LEMMA WriteIsChange ==
    ASSUME IInv, NEW c \in Callers, Writable(c)
    PROVE  /\ Loaded = set
           /\ call[c].next = Change(c, call[c], set)
<1>1. Loaded = set
  BY LoadedIsSet DEF Writable
<1>2. call[c].next = Change(c, call[c], Loaded)
  BY DEF IInv, FreshIsCurrent, Writable
<1> QED BY <1>1, <1>2

\* The kinds of call a caller can be saving.
LEMMA SavingCall ==
    ASSUME IInv, NEW c \in Callers
    PROVE  \/ /\ c \in Owners
              /\ call[c].op \in {"none", "acquire", "release", "retain"}
              /\ call[c].op \in {"acquire", "retain"} =>
                   call[c].mode \in Modes /\ Sufficient(c, call[c].mode)
              /\ call[c].op = "release" => consumers[c] = {}
           \/ c = Keeper /\ call[c].op \in {"none", "close", "sweep"}
BY DEF IInv, OwnerCallsSafe, KeeperCallSafe, Callers

\* The effect of an accepted write, with s the set before and t after it:
\* the holds stay compatible, every consumer stays covered, the holds of other
\* callers' admissions stay, and a closed set stays closed and gains no holder.
LEMMA WriteSafe ==
    ASSUME IInv, NEW c \in Callers, NEW t, t = Change(c, call[c], set)
    PROVE  /\ t \in HoldStates
           /\ \A o, p \in Owners :
                o # p /\ t.mode[o] # NoMode /\ t.mode[p] # NoMode
                  => <<t.mode[o], t.mode[p]>> \notin Excludes
           /\ \A o \in Owners : \A k \in consumers[o] :
                t.mode[o] # NoMode /\ <<t.mode[o], k>> \in Covers
           /\ \A o \in Owners \ {c} : call[o].pc = "admitted" => t.mode[o] = set.mode[o]
           /\ set.closed => t.closed
           /\ t.closed # set.closed => call[c].op = "close"
           /\ set.closed => Holders(t) \subseteq Holders(set)
<1> USE NoModeAssumption
<1>s. set \in HoldStates
  BY DEF IInv, TypeOK
<1>0. CASE call[c].op = "none"
  <2>1. t = set
    BY <1>0 DEF Change
  <2> QED BY <2>1 DEF IInv, TypeOK, HoldsCompatible, ConsumersCovered
<1>1. CASE call[c].op = "close"
  <2>1. /\ t \in HoldStates
        /\ t.closed
        /\ t.mode = set.mode
    BY <1>1, <1>s, CloseShape
  <2> QED BY <1>1, <2>1 DEF IInv, HoldsCompatible, ConsumersCovered, Holders
<1>2. CASE call[c].op = "sweep"
  <2>0. c = Keeper
    BY <1>2, SavingCall
  <2>1. /\ t \in HoldStates
        /\ t.closed = set.closed
        /\ \A o \in Owners : t.mode[o] = IF o \in call[c].cand THEN NoMode ELSE set.mode[o]
    BY <1>2, <1>s, SweepType
  <2>2. \A o \in call[c].cand : o \notin alive /\ consumers[o] = {}
    BY <2>0 DEF IInv, KeeperCallSafe, LeftBehind
  <2>3. \A o \in Owners : o \in call[c].cand => call[o].pc # "admitted"
    BY <2>2 DEF IInv, OwnerCallsSafe
  <2> QED BY <2>1, <2>2, <2>3 DEF IInv, HoldsCompatible, ConsumersCovered, Holders
<1>3. CASE call[c].op \in {"acquire", "release", "retain"}
  <2>0. /\ c \in Owners
        /\ call[c].op \in {"acquire", "retain"} =>
             call[c].mode \in Modes /\ Sufficient(c, call[c].mode)
        /\ call[c].op = "release" => consumers[c] = {}
    BY <1>3, SavingCall
  <2>1. /\ t \in HoldStates
        /\ t.closed = set.closed
        /\ \A o \in Owners \ {c} : t.mode[o] = set.mode[o]
    BY <1>3, <2>0, <1>s, OwnerShape
  <2>2. CASE t.mode[c] = set.mode[c]
    <3>1. \A o \in Owners : t.mode[o] = set.mode[o]
      BY <2>1, <2>2
    <3> QED BY <3>1, <2>1 DEF IInv, HoldsCompatible, ConsumersCovered, Holders
  <2>3. CASE t.mode[c] # set.mode[c]
    <3>0. \/ /\ call[c].op = "acquire" /\ MayAdmit(set, c, call[c].mode)
             /\ t.mode[c] = call[c].mode
          \/ /\ call[c].op = "release"
             /\ t.mode[c] = NoMode
          \/ /\ call[c].op = "retain"
             /\ set.mode[c] # NoMode /\ <<set.mode[c], call[c].mode>> \in Covers
             /\ t.mode[c] = call[c].mode
      BY <1>3, <2>0, <2>3, <1>s, OwnerChange
    <3>1. \A p \in Owners \ {c} :
            t.mode[c] # NoMode /\ set.mode[p] # NoMode
              => <<set.mode[p], t.mode[c]>> \notin Excludes
      <4>1. CASE call[c].op = "acquire"
        BY <4>1, <3>0 DEF MayAdmit, Conflicts, Holders
      <4>2. CASE call[c].op = "release"
        BY <4>2, <3>0
      <4>3. CASE call[c].op = "retain"
        <5> SUFFICES ASSUME NEW p \in Owners \ {c}, set.mode[p] # NoMode,
                            <<set.mode[p], t.mode[c]>> \in Excludes
                     PROVE  FALSE
          OBVIOUS
        <5>1. /\ set.mode[c] \in Modes /\ set.mode[p] \in Modes
              /\ t.mode[c] \in Modes
              /\ <<set.mode[c], t.mode[c]>> \in Covers
          BY <4>3, <3>0, <2>0, <1>s DEF HoldStates
        <5>2. <<set.mode[c], set.mode[p]>> \in Excludes
          BY <5>1, CoversAssumption, ExcludesAssumption
        <5> QED BY <5>1, <5>2, <2>0 DEF IInv, HoldsCompatible
      <4> QED BY <1>3, <4>1, <4>2, <4>3
    <3>2. \A o, p \in Owners :
            o # p /\ t.mode[o] # NoMode /\ t.mode[p] # NoMode
              => <<t.mode[o], t.mode[p]>> \notin Excludes
      <4> SUFFICES ASSUME NEW o \in Owners, NEW p \in Owners, o # p,
                          t.mode[o] # NoMode, t.mode[p] # NoMode,
                          <<t.mode[o], t.mode[p]>> \in Excludes
                   PROVE  FALSE
        OBVIOUS
      <4>1. <<t.mode[p], t.mode[o]>> \in Excludes
        BY <2>1, ExcludesAssumption DEF HoldStates
      <4>2. CASE o = c
        BY <4>1, <4>2, <3>1, <2>1
      <4>3. CASE p = c
        BY <4>3, <3>1, <2>1
      <4>4. CASE o # c /\ p # c
        BY <4>4, <2>1 DEF IInv, HoldsCompatible
      <4> QED BY <4>2, <4>3, <4>4
    <3>3. \A k \in consumers[c] : t.mode[c] # NoMode /\ <<t.mode[c], k>> \in Covers
      BY <3>0, <2>0 DEF Sufficient
    <3>4. \A o \in Owners : \A k \in consumers[o] :
            t.mode[o] # NoMode /\ <<t.mode[o], k>> \in Covers
      BY <3>3, <2>1 DEF IInv, ConsumersCovered
    <3>5. set.closed => Holders(t) \subseteq Holders(set)
      BY <3>0, <2>1 DEF MayAdmit, Holders
    <3> QED BY <2>1, <3>2, <3>4, <3>5
  <2> QED BY <2>2, <2>3
<1> QED BY <1>0, <1>1, <1>2, <1>3, SavingCall

-----------------------------------------------------------------------------
(* The inductive invariant.                                                *)

\* Calls are well typed while they move through Update.
LEMMA IdleType == Idle \in Calls
BY HoldStateTypes, StoreAssumption DEF Idle, Calls

\* The invariant holds initially.
LEMMA InitIInv == Init => IInv
<1> SUFFICES ASSUME Init PROVE IInv
  OBVIOUS
<1> USE NoModeAssumption, KeeperAssumption
<1>1. TypeOK
  BY IdleType, HoldStateTypes, StoreAssumption DEF Init, TypeOK, Callers
<1>2. HoldsCompatible /\ ConsumersCovered
  BY DEF Init, EmptySet, HoldsCompatible, ConsumersCovered
<1>3. FreshIsCurrent
  BY DEF Init, FreshIsCurrent
<1>4. OwnerCallsSafe /\ KeeperCallSafe /\ AttemptLeft
  BY DEF Init, OwnerCallsSafe, KeeperCallSafe, AttemptLeft, Callers, Idle
<1>5. AbsentIsEmpty
  BY DEF Init, AbsentIsEmpty, Holders, EmptySet
<1> QED BY <1>1, <1>2, <1>3, <1>4, <1>5 DEF IInv

\* What the invariant says of one caller's call r.
CallSafe(c, r) ==
    /\ c \in Owners =>
         /\ r.op \in {"none", "acquire", "release", "retain"}
         /\ r.op \in {"acquire", "retain"} => r.mode \in Modes /\ Sufficient(c, r.mode)
         /\ r.op = "release" => consumers[c] = {}
         /\ r.pc = "admitted" => r.mode \in Modes /\ set.mode[c] = r.mode
         /\ c \notin alive => r.pc = "idle"
    /\ c = Keeper =>
         /\ r.op \in {"none", "close", "sweep"}
         /\ r.op = "close" => ~CreatesObject
         /\ r.pc # "admitted"
         /\ \A o \in r.cand : LeftBehind(o)
    /\ r.pc = "load" => r.tries < MaxTries

\* The two formulations agree.
LEMMA CallsSafe ==
    OwnerCallsSafe /\ KeeperCallSafe /\ AttemptLeft <=> \A c \in Callers : CallSafe(c, call[c])
BY KeeperAssumption DEF OwnerCallsSafe, KeeperCallSafe, AttemptLeft, CallSafe, Callers

\* An acquire is only ever reported admitted for the mode the set records
\* (holdset.go, State.Admit).
LEMMA AdmittedHolds ==
    ASSUME NEW s \in HoldStates, NEW o \in Owners, NEW m \in Modes,
           Admitted(Admit(s, o, m), o, m)
    PROVE  Admit(s, o, m).mode[o] = m
BY DEF Admitted, Admit, Held, MayAdmit, Put, HoldStates

\* A change depends on the operation and its arguments only.
LEMMA ChangeDepends ==
    ASSUME NEW c, NEW k, NEW r, NEW s,
           r.op = k.op, r.mode = k.mode, r.cand = k.cand
    PROVE  Change(c, r, s) = Change(c, k, s)
BY DEF Change

\* A step that moves only the call of c keeps the invariant, when the new
\* call is safe.  The hold set may have been found closed and empty.
LEMMA CallMoves ==
    ASSUME IInv, NEW c \in Callers, NEW r \in Calls,
           call' = [call EXCEPT ![c] = r],
           UNCHANGED <<exists, set, alive, consumers>>,
           fresh' \subseteq fresh \cup {c},
           c \in fresh' => r.pc = "save" /\ r.next = Change(c, r, Loaded),
           drained' \in BOOLEAN,
           drained' => drained \/ (set.closed /\ Holders(set) = {}),
           CallSafe(c, r)
    PROVE  IInv'
<1>0. /\ call \in [Callers -> Calls]
      /\ \A e \in Callers \ {c} : call'[e] = call[e]
      /\ call'[c] = r
  BY DEF IInv, TypeOK
<1>1. TypeOK'
  BY DEF IInv, TypeOK
<1>2. HoldsCompatible' /\ ConsumersCovered'
  BY DEF IInv, HoldsCompatible, ConsumersCovered
<1>3. FreshIsCurrent'
  <2> SUFFICES ASSUME NEW e \in fresh'
               PROVE  call'[e].pc = "save" /\ call'[e].next = Change(e, call'[e], Loaded')
    BY DEF FreshIsCurrent, Change
  <2>1. Loaded' = Loaded
    BY DEF Loaded
  <2>2. CASE e = c
    BY <1>0, <2>1, <2>2
  <2>3. CASE e # c
    <3>1. e \in fresh /\ e \in Callers
      BY <2>3 DEF IInv, TypeOK
    <3>2. call'[e] = call[e]
      BY <1>0, <2>3, <3>1
    <3> QED BY <2>1, <3>1, <3>2 DEF IInv, FreshIsCurrent
  <2> QED BY <2>2, <2>3
<1>4. OwnerCallsSafe' /\ KeeperCallSafe' /\ AttemptLeft'
  <2>1. \A e \in Callers : CallSafe(e, call[e])
    BY CallsSafe DEF IInv
  <2>2. \A e \in Callers : CallSafe(e, call'[e])
    BY <1>0, <2>1
  <2>3. \A e \in Callers : CallSafe(e, call[e])'
    BY <2>2 DEF CallSafe, Sufficient, LeftBehind
  <2> QED BY <2>3, KeeperAssumption
          DEF CallSafe, OwnerCallsSafe, KeeperCallSafe, AttemptLeft, Callers,
              Sufficient, LeftBehind
<1>5. AbsentIsEmpty'
  BY DEF IInv, AbsentIsEmpty, Holders
<1> QED BY <1>1, <1>2, <1>3, <1>4, <1>5 DEF IInv

\* A write that was applied, whether its caller learns of it or not, keeps
\* the invariant; r is what becomes of the call.
LEMMA WriteMoves ==
    ASSUME IInv, NEW c \in Callers, NEW r \in Calls, Writable(c), Written(c),
           call' = [call EXCEPT ![c] = r],
           UNCHANGED <<alive, consumers>>,
           drained' \in BOOLEAN,
           drained' => drained \/ (call[c].op = "close" /\ Holders(call[c].next) = {}),
           r.op = "none", r.cand = {},
           r.pc = "admitted" =>
             /\ c \in Owners /\ r.mode \in Modes
             /\ call[c].next.mode[c] = r.mode,
           r.pc \in {"idle", "admitted"}
    PROVE  IInv'
<1> DEFINE t == call[c].next
<1>0. t = Change(c, call[c], set) /\ set' = t /\ fresh' = {} /\ exists'
  BY WriteIsChange DEF Written
<1>1. /\ t \in HoldStates
      /\ \A o, p \in Owners :
           o # p /\ t.mode[o] # NoMode /\ t.mode[p] # NoMode
             => <<t.mode[o], t.mode[p]>> \notin Excludes
      /\ \A o \in Owners : \A k \in consumers[o] :
           t.mode[o] # NoMode /\ <<t.mode[o], k>> \in Covers
      /\ \A o \in Owners \ {c} : call[o].pc = "admitted" => t.mode[o] = set.mode[o]
      /\ set.closed => t.closed
      /\ t.closed # set.closed => call[c].op = "close"
      /\ set.closed => Holders(t) \subseteq Holders(set)
  BY <1>0, WriteSafe
<1>2. /\ call \in [Callers -> Calls]
      /\ \A e \in Callers \ {c} : call'[e] = call[e]
      /\ call'[c] = r
  BY DEF IInv, TypeOK
<1>3. TypeOK'
  BY <1>0, <1>1, <1>2 DEF IInv, TypeOK, Written
<1>4. HoldsCompatible' /\ ConsumersCovered'
  BY <1>0, <1>1 DEF HoldsCompatible, ConsumersCovered
<1>5. FreshIsCurrent'
  BY <1>0 DEF FreshIsCurrent
<1>6. OwnerCallsSafe'
  <2> SUFFICES ASSUME NEW o \in Owners
               PROVE  /\ call'[o].op \in {"none", "acquire", "release", "retain"}
                      /\ call'[o].op \in {"acquire", "retain"} =>
                           call'[o].mode \in Modes /\ Sufficient(o, call'[o].mode)
                      /\ call'[o].op = "release" => consumers[o] = {}
                      /\ call'[o].pc = "admitted" =>
                           call'[o].mode \in Modes /\ t.mode[o] = call'[o].mode
                      /\ o \notin alive => call'[o].pc = "idle"
    BY <1>0 DEF OwnerCallsSafe, Sufficient
  <2>1. CASE o = c
    BY <1>2, <2>1 DEF IInv, OwnerCallsSafe, Writable
  <2>2. CASE o # c
    <3>1. call'[o] = call[o]
      BY <1>2, <2>2 DEF Callers
    <3> QED BY <1>1, <2>2, <3>1 DEF IInv, OwnerCallsSafe
  <2> QED BY <2>1, <2>2
<1>7. KeeperCallSafe'
  <2>1. CASE c = Keeper
    BY <1>2, <2>1, KeeperAssumption DEF KeeperCallSafe, Callers
  <2>2. CASE c # Keeper
    <3>1. call'[Keeper] = call[Keeper]
      BY <1>2, <2>2 DEF Callers
    <3> QED BY <3>1 DEF IInv, KeeperCallSafe, LeftBehind
  <2> QED BY <2>1, <2>2
<1>a. AttemptLeft'
  BY <1>2 DEF IInv, AttemptLeft
<1>8. AbsentIsEmpty'
  <2>1. call[c].op = "close" => ~CreatesObject
    BY SavingCall DEF IInv, KeeperCallSafe
  <2>2. CreatesObject => ~t.closed
    BY <1>1, <2>1 DEF IInv, AbsentIsEmpty, TypeOK, HoldStates
  <2>3. call[c].op = "close" => t.closed
    BY <1>0, CloseShape DEF IInv, TypeOK
  <2>4. drained' => t.closed /\ Holders(t) = {}
    BY <1>1, <2>3 DEF IInv, AbsentIsEmpty
  <2> QED BY <1>0, <2>2, <2>4 DEF AbsentIsEmpty, Holders
<1> QED BY <1>3, <1>4, <1>5, <1>6, <1>7, <1>8, <1>a DEF IInv

\* Starting a call keeps the invariant.
LEMMA BeginSafe ==
    ASSUME IInv, NEW c \in Callers, IsIdle(c),
           NEW op \in {"acquire", "release", "retain", "close", "sweep"},
           NEW m \in Modes \cup {NoMode}, NEW cand \in SUBSET Owners,
           Begin(c, op, m, cand),
           UNCHANGED <<exists, set, fresh, alive, consumers, drained>>,
           CallSafe(c, Started(op, m, cand))
    PROVE  IInv'
<1> DEFINE r == Started(op, m, cand)
<1>1. r \in Calls
  BY IdleType DEF Calls, Idle, Started
<1>2. c \notin fresh'
  BY DEF IInv, FreshIsCurrent, IsIdle
<1>3. call' = [call EXCEPT ![c] = r]
  BY DEF Begin
<1>4. drained' \in BOOLEAN
  BY DEF IInv, TypeOK
<1> HIDE DEF r
<1> QED BY <1>1, <1>2, <1>3, <1>4, CallMoves DEF r

\* A call that returns keeps the invariant when nothing else changes.
LEMMA ReturnSafe ==
    ASSUME IInv, NEW c \in Callers, Returned(c),
           UNCHANGED <<exists, set, alive, consumers, drained>>,
           fresh' \subseteq fresh \ {c}
    PROVE  IInv'
<1>1. CallSafe(c, Idle)
  BY DEF CallSafe, Idle
<1>2. drained' \in BOOLEAN
  BY DEF IInv, TypeOK
<1> QED BY <1>1, <1>2, IdleType, CallMoves DEF Returned

\* Each of the owner's own calls keeps the invariant.
LEMMA OwnerCallsKeep ==
    ASSUME IInv, NEW o \in Owners,
           CallRelease(o) \/ \E m \in Modes : CallAcquire(o, m) \/ CallRetain(o, m)
    PROVE  IInv'
<1> USE DEF Callers
<1>1. CASE CallRelease(o)
  <2>1. CallSafe(o, Started("release", NoMode, {}))
    BY <1>1, KeeperAssumption, StoreAssumption DEF CallSafe, Idle, Started, CallRelease
  <2> QED BY <1>1, <2>1, BeginSafe DEF CallRelease
<1>2. ASSUME NEW m \in Modes, CallAcquire(o, m) PROVE IInv'
  <2>1. CallSafe(o, Started("acquire", m, {}))
    BY <1>2, KeeperAssumption, StoreAssumption DEF CallSafe, Idle, Started, CallAcquire
  <2> QED BY <1>2, <2>1, BeginSafe DEF CallAcquire
<1>3. ASSUME NEW m \in Modes, CallRetain(o, m) PROVE IInv'
  <2>1. CallSafe(o, Started("retain", m, {}))
    BY <1>3, KeeperAssumption, StoreAssumption DEF CallSafe, Idle, Started, CallRetain
  <2> QED BY <1>3, <2>1, BeginSafe DEF CallRetain
<1> QED BY <1>1, <1>2, <1>3

\* Each of the keeper's calls keeps the invariant.
LEMMA KeeperCallsKeep ==
    ASSUME IInv, CallClose \/ CallSweep
    PROVE  IInv'
<1>0. Keeper \in Callers
  BY DEF Callers
<1>1. CASE CallClose
  <2>1. CallSafe(Keeper, Started("close", NoMode, {}))
    BY <1>1, KeeperAssumption, StoreAssumption DEF CallSafe, Idle, Started, CallClose
  <2> QED BY <1>0, <1>1, <2>1, BeginSafe DEF CallClose
<1>2. CASE CallSweep
  <2>1. PICK cand \in SUBSET {o \in Holders(set) : Stale(o)} :
          Begin(Keeper, "sweep", NoMode, cand)
    BY <1>2 DEF CallSweep
  <2>2. cand \in SUBSET Owners
    BY DEF Holders
  <2>. \A o \in cand : LeftBehind(o)
    BY <2>2 DEF Stale, InUse, LeftBehind
  <2>3. CallSafe(Keeper, Started("sweep", NoMode, cand))
    BY KeeperAssumption, StoreAssumption DEF CallSafe, Idle, Started
  <2> QED BY <1>0, <1>2, <2>1, <2>2, <2>3, BeginSafe DEF CallSweep
<1> QED BY <1>1, <1>2

\* What becomes of a call that returns having seen or persisted s.
LEMMA FinishShape ==
    ASSUME IInv, NEW c \in Callers, Finish(c, Change(c, call[c], set))
    PROVE  \E r \in Calls :
             /\ call' = [call EXCEPT ![c] = r]
             /\ r.op = "none" /\ r.cand = {}
             /\ r.pc \in {"idle", "admitted"}
             /\ r.pc = "admitted" =>
                  /\ c \in Owners /\ r.mode \in Modes
                  /\ Change(c, call[c], set).mode[c] = r.mode
                  /\ call[c].op = "acquire"
<1> DEFINE t == Change(c, call[c], set)
<1>1. CASE call[c].op = "acquire" /\ Admitted(t, c, call[c].mode)
  <2>1. c \in Owners /\ call[c].mode \in Modes
    BY <1>1, SavingCall
  <2>2. t = Admit(set, c, call[c].mode)
    BY <1>1 DEF Change
  <2>3. t.mode[c] = call[c].mode
    BY <1>1, <2>1, <2>2, AdmittedHolds DEF IInv, TypeOK
  <2> DEFINE r == [Idle EXCEPT !.pc = "admitted", !.mode = call[c].mode]
  <2>4. /\ r \in Calls /\ r.op = "none" /\ r.cand = {}
        /\ r.pc = "admitted" /\ r.mode = call[c].mode
    BY <2>1, IdleType DEF Idle, Calls
  <2>5. call' = [call EXCEPT ![c] = r]
    BY <1>1 DEF Finish
  <2> HIDE DEF r, t
  <2>6. Change(c, call[c], set).mode[c] = r.mode
    BY <2>3, <2>4 DEF t
  <2> QED BY <1>1, <2>1, <2>4, <2>5, <2>6
<1>2. CASE ~(call[c].op = "acquire" /\ Admitted(t, c, call[c].mode))
  <2>1. call' = [call EXCEPT ![c] = Idle]
    BY <1>2 DEF Finish, Returned
  <2>2. Idle.op = "none" /\ Idle.cand = {} /\ Idle.pc = "idle"
    BY DEF Idle
  <2> QED BY <2>1, <2>2, IdleType
<1> QED BY <1>1, <1>2

\* Loading and computing the change keeps the invariant: a call that has
\* nothing to write returns, any other becomes a save of the current set.
LEMMA LoadKeeps ==
    ASSUME IInv, NEW c \in Callers, Load(c)
    PROVE  IInv'
<1> DEFINE k == call[c]
           next == Change(c, k, Loaded)
<1>0. c \notin fresh /\ k \in Calls /\ k.pc = "load" /\ CallSafe(c, k)
  BY CallsSafe DEF IInv, FreshIsCurrent, TypeOK, Load
<1>u. UNCHANGED <<exists, set, alive, consumers>>
  BY DEF Load
<1>1. CASE ~exists /\ ~CreatesObject /\ Returned(c) /\ UNCHANGED <<fresh, drained>>
  BY <1>0, <1>1, <1>u, ReturnSafe
<1>l. Loaded \in HoldStates
  BY HoldStateTypes DEF Loaded, IInv, TypeOK
<1>2. CASE /\ exists \/ CreatesObject
           /\ next = Loaded
           /\ Finish(c, Loaded)
           /\ UNCHANGED fresh
  <2>0. Loaded = set
    BY <1>2, LoadedIsSet
  <2>1. Finish(c, Change(c, call[c], set)) /\ Change(c, call[c], set) = set
    BY <1>2, <2>0
  <2>2. PICK r \in Calls :
          /\ call' = [call EXCEPT ![c] = r]
          /\ r.op = "none" /\ r.cand = {}
          /\ r.pc \in {"idle", "admitted"}
          /\ r.pc = "admitted" =>
               /\ c \in Owners /\ r.mode \in Modes
               /\ Change(c, call[c], set).mode[c] = r.mode
               /\ call[c].op = "acquire"
    BY <2>1, FinishShape
  <2>3. CallSafe(c, r)
    BY <1>0, <2>1, <2>2, KeeperAssumption DEF CallSafe
  <2>4. drained' = (drained \/ (k.op = "close" /\ Holders(set) = {}))
    BY <2>1 DEF Finish
  <2>5. k.op = "close" => set.closed
    BY <2>1, CloseShape DEF IInv, TypeOK
  <2>6. drained' \in BOOLEAN
    BY <2>4 DEF IInv, TypeOK
  <2> QED BY <1>0, <1>u, <1>2, <2>2, <2>3, <2>4, <2>5, <2>6, CallMoves
<1>3. CASE /\ exists \/ CreatesObject
           /\ next # Loaded
           /\ call' = [call EXCEPT ![c].pc = "save", ![c].next = next,
                                   ![c].tries = @ + 1]
           /\ fresh' = fresh \cup {c}
           /\ UNCHANGED drained
  <2> DEFINE r == [k EXCEPT !.pc = "save", !.next = next, !.tries = @ + 1]
  <2>1. next \in HoldStates
    <3>1. CASE k.op = "none"
      BY <1>l, <3>1 DEF Change
    <3>2. CASE k.op \in {"acquire", "release", "retain"}
      BY <1>l, <3>2, SavingCall, OwnerShape
    <3>3. CASE k.op = "close"
      BY <1>l, <3>3, CloseShape
    <3>4. CASE k.op = "sweep"
      BY <1>l, <3>4, SweepType
    <3> QED BY <3>1, <3>2, <3>3, <3>4, SavingCall
  <2>2. /\ r.op = k.op /\ r.mode = k.mode /\ r.cand = k.cand
        /\ r.pc = "save" /\ r.next = next
    BY <1>0 DEF Calls
  <2>3. k.tries \in 0 .. MaxTries /\ k.tries < MaxTries
    BY <1>0 DEF Calls, CallSafe
  <2>4. r \in Calls
    <3>1. k.tries + 1 \in 0 .. MaxTries
      BY <2>3, StoreAssumption
    <3> QED BY <1>0, <2>1, <3>1 DEF Calls
  <2>5. CallSafe(c, r)
    <3>1. c \in Owners => c \in alive
      BY <1>0 DEF CallSafe
    <3> QED BY <1>0, <2>2, <3>1 DEF CallSafe
  <2>6. r.next = Change(c, r, Loaded)
    <3>1. Change(c, r, Loaded) = Change(c, k, Loaded)
      BY <2>2, ChangeDepends
    <3> QED BY <2>2, <3>1
  <2>7. call' = [call EXCEPT ![c] = r]
    BY <1>3
  <2>8. drained' \in BOOLEAN
    BY <1>3 DEF IInv, TypeOK
  <2> HIDE DEF r
  <2> QED BY <1>3, <1>u, <2>2, <2>4, <2>5, <2>6, <2>7, <2>8, CallMoves
<1> QED BY <1>1, <1>2, <1>3 DEF Load

\* Saving, failing and retrying keep the invariant.
LEMMA SaveKeeps ==
    ASSUME IInv, NEW c \in Callers,
           Save(c) \/ SaveUnknown(c) \/ SaveConflict(c) \/ CallFails(c)
    PROVE  IInv'
<1>1. CASE Save(c)
  <2>1. call[c].next = Change(c, call[c], set)
    BY <1>1, WriteIsChange DEF Save
  <2>2. PICK r \in Calls :
          /\ call' = [call EXCEPT ![c] = r]
          /\ r.op = "none" /\ r.cand = {}
          /\ r.pc \in {"idle", "admitted"}
          /\ r.pc = "admitted" =>
               /\ c \in Owners /\ r.mode \in Modes
               /\ Change(c, call[c], set).mode[c] = r.mode
               /\ call[c].op = "acquire"
    BY <1>1, <2>1, FinishShape DEF Save
  <2>3. drained' = (drained \/ (call[c].op = "close" /\ Holders(call[c].next) = {}))
    BY <1>1 DEF Save, Finish
  <2>4. drained' \in BOOLEAN
    BY <2>3 DEF IInv, TypeOK
  <2>5. /\ Writable(c) /\ Written(c) /\ UNCHANGED <<alive, consumers>>
        /\ r.pc = "admitted" => call[c].next.mode[c] = r.mode
    BY <1>1, <2>1, <2>2 DEF Save
  <2> QED BY <2>2, <2>3, <2>4, <2>5, WriteMoves
<1>2. CASE SaveUnknown(c)
  <2>1. Idle.op = "none" /\ Idle.cand = {} /\ Idle.pc = "idle"
    BY DEF Idle
  <2>2. /\ Writable(c) /\ Written(c) /\ UNCHANGED <<alive, consumers, drained>>
        /\ call' = [call EXCEPT ![c] = Idle]
    BY <1>2 DEF SaveUnknown, Returned
  <2>3. drained' \in BOOLEAN
    BY <2>2 DEF IInv, TypeOK
  <2> QED BY <2>1, <2>2, <2>3, IdleType, WriteMoves
<1>3. CASE SaveConflict(c)
  <2>1. CASE call[c].tries < MaxTries
    <3> DEFINE r == [call[c] EXCEPT !.pc = "load", !.next = EmptySet]
    <3>0. call[c] \in Calls /\ CallSafe(c, call[c]) /\ call[c].pc = "save"
      BY <1>3, CallsSafe DEF IInv, TypeOK, SaveConflict
    <3>1. r \in Calls
      BY <3>0, HoldStateTypes DEF Calls
    <3>2. CallSafe(c, r)
      <4>1. /\ r.op = call[c].op /\ r.mode = call[c].mode /\ r.cand = call[c].cand
            /\ r.pc = "load" /\ r.tries < MaxTries
        BY <2>1, <3>0 DEF Calls
      <4> QED BY <3>0, <4>1 DEF CallSafe
    <3>3. call' = [call EXCEPT ![c] = r]
      BY <1>3, <2>1 DEF SaveConflict
    <3>4. c \notin fresh' /\ fresh' = fresh /\ UNCHANGED <<exists, set, alive, consumers, drained>>
      BY <1>3 DEF SaveConflict
    <3>5. drained' \in BOOLEAN
      BY <3>4 DEF IInv, TypeOK
    <3> HIDE DEF r
    <3> QED BY <3>1, <3>2, <3>3, <3>4, <3>5, CallMoves
  <2>2. CASE ~(call[c].tries < MaxTries)
    BY <1>3, <2>2, ReturnSafe DEF SaveConflict
  <2> QED BY <2>1, <2>2
<1>4. CASE CallFails(c)
  BY <1>4, ReturnSafe DEF CallFails
<1> QED BY <1>1, <1>2, <1>3, <1>4

\* Consumers and owners come and go without disturbing the invariant.
LEMMA OwnerActsKeep ==
    ASSUME IInv, NEW o \in Owners,
           CreateConsumer(o) \/ Abandon(o) \/ StopConsumers(o) \/ OwnerGone(o)
    PROVE  IInv'
<1> USE DEF Callers
<1>f. call[o].pc = "admitted" \/ call[o].pc = "idle" => o \notin fresh
  BY DEF IInv, FreshIsCurrent
<1>1. CASE Abandon(o)
  BY <1>1, <1>f, ReturnSafe DEF Abandon
<1>2. CASE CreateConsumer(o)
  <2> DEFINE m == call[o].mode
  <2>0. /\ m \in Modes /\ set.mode[o] = m /\ o \in alive
        /\ <<m, m>> \in Covers
    BY <1>2, CoversAssumption DEF IInv, OwnerCallsSafe, CreateConsumer
  <2>1. /\ \A p \in Owners \ {o} : consumers'[p] = consumers[p]
        /\ consumers'[o] = consumers[o] \cup {m}
        /\ \A c \in Callers \ {o} : call'[c] = call[c]
        /\ call'[o] = Idle
        /\ UNCHANGED <<exists, set, fresh, alive, drained>>
        /\ o \notin fresh
    BY <1>2, <1>f DEF CreateConsumer, Returned, IInv, TypeOK
  <2>2. TypeOK'
    BY <1>2, <2>0, IdleType DEF IInv, TypeOK, CreateConsumer, Returned
  <2>3. ConsumersCovered'
    BY <2>0, <2>1, NoModeAssumption DEF IInv, ConsumersCovered
  <2>4. FreshIsCurrent'
    <3>1. \A c \in fresh : call'[c] = call[c]
      BY <2>1 DEF IInv, TypeOK
    <3>2. Loaded' = Loaded
      BY <2>1 DEF Loaded
    <3> QED BY <2>1, <3>1, <3>2 DEF IInv, FreshIsCurrent, Change
  <2>5. OwnerCallsSafe'
    BY <2>1 DEF IInv, OwnerCallsSafe, Idle, Sufficient
  <2>6. KeeperCallSafe'
    <3>1. call'[Keeper] = call[Keeper]
      BY <2>1, KeeperAssumption
    <3> QED BY <2>0, <2>1, <3>1 DEF IInv, KeeperCallSafe, LeftBehind, TypeOK, Calls
  <2>7. AttemptLeft'
    BY <2>1 DEF IInv, AttemptLeft, Idle
  <2>8. HoldsCompatible' /\ AbsentIsEmpty'
    BY <2>1 DEF IInv, HoldsCompatible, AbsentIsEmpty, Holders
  <2> QED BY <2>2, <2>3, <2>4, <2>5, <2>6, <2>7, <2>8 DEF IInv
<1>3. CASE StopConsumers(o)
  <2>1. /\ \A p \in Owners : consumers'[p] \subseteq consumers[p]
        /\ consumers' \in [Owners -> SUBSET Modes]
        /\ UNCHANGED <<exists, set, fresh, call, alive, drained>>
    BY <1>3 DEF StopConsumers, IInv, TypeOK
  <2>2. TypeOK' /\ HoldsCompatible' /\ ConsumersCovered' /\ AttemptLeft' /\ AbsentIsEmpty'
    BY <2>1 DEF IInv, TypeOK, HoldsCompatible, ConsumersCovered, AttemptLeft, AbsentIsEmpty,
                Holders
  <2>3. FreshIsCurrent'
    BY <2>1 DEF IInv, FreshIsCurrent, Loaded, Change
  <2>4. OwnerCallsSafe'
    BY <2>1 DEF IInv, OwnerCallsSafe, Sufficient
  <2>5. KeeperCallSafe'
    BY <2>1 DEF IInv, KeeperCallSafe, LeftBehind, TypeOK, Calls
  <2> QED BY <2>2, <2>3, <2>4, <2>5 DEF IInv
<1>4. CASE OwnerGone(o)
  <2>1. /\ alive' \subseteq alive /\ \A p \in Owners : p \notin alive' => p \notin alive \/ p = o
        /\ call[o].pc = "idle"
        /\ UNCHANGED <<exists, set, fresh, call, consumers, drained>>
    BY <1>4 DEF OwnerGone, IsIdle
  <2>2. TypeOK' /\ HoldsCompatible' /\ ConsumersCovered' /\ AttemptLeft' /\ AbsentIsEmpty'
    BY <2>1 DEF IInv, TypeOK, HoldsCompatible, ConsumersCovered, AttemptLeft, AbsentIsEmpty,
                Holders
  <2>3. FreshIsCurrent'
    BY <2>1 DEF IInv, FreshIsCurrent, Loaded, Change
  <2>4. OwnerCallsSafe'
    BY <2>1 DEF IInv, OwnerCallsSafe, Sufficient
  <2>5. KeeperCallSafe'
    BY <2>1 DEF IInv, KeeperCallSafe, LeftBehind, TypeOK, Calls
  <2> QED BY <2>2, <2>3, <2>4, <2>5 DEF IInv
<1> QED BY <1>1, <1>2, <1>3, <1>4

\* So do the writers of other fields, the removal of a drained object and a
\* restart of the controller.
LEMMA EnvironmentKeeps ==
    ASSUME IInv, OtherWrite \/ RemoveObject \/ Restart
    PROVE  IInv'
<1>1. CASE OtherWrite
  BY <1>1 DEF OtherWrite, IInv, TypeOK, HoldsCompatible, ConsumersCovered, FreshIsCurrent,
              OwnerCallsSafe, KeeperCallSafe, AttemptLeft, AbsentIsEmpty, Holders,
              Sufficient, LeftBehind
<1>2. CASE RemoveObject
  BY <1>2 DEF RemoveObject, IInv, TypeOK, HoldsCompatible, ConsumersCovered, FreshIsCurrent,
              OwnerCallsSafe, KeeperCallSafe, AttemptLeft, AbsentIsEmpty, Holders,
              Sufficient, LeftBehind
<1>3. CASE Restart
  <2>1. \A c \in Callers : call'[c] = Idle
    BY <1>3 DEF Restart
  <2>2. TypeOK' /\ HoldsCompatible' /\ ConsumersCovered' /\ AbsentIsEmpty'
    BY <1>3, IdleType DEF Restart, IInv, TypeOK, HoldsCompatible, ConsumersCovered,
                          AbsentIsEmpty, Holders
  <2>3. FreshIsCurrent'
    BY <1>3 DEF Restart, FreshIsCurrent
  <2>4. OwnerCallsSafe' /\ KeeperCallSafe' /\ AttemptLeft'
    BY <2>1 DEF OwnerCallsSafe, KeeperCallSafe, AttemptLeft, Idle, Callers
  <2> QED BY <2>2, <2>3, <2>4 DEF IInv
<1> QED BY <1>1, <1>2, <1>3

\* Every step keeps the invariant.
LEMMA StepIInv == IInv /\ [Next]_vars => IInv'
<1> SUFFICES ASSUME IInv, [Next]_vars PROVE IInv'
  OBVIOUS
<1>1. ASSUME NEW c \in Callers, UpdateStep(c) PROVE IInv'
  BY <1>1, LoadKeeps, SaveKeeps DEF UpdateStep
<1>2. ASSUME NEW o \in Owners, OwnerStep(o) PROVE IInv'
  BY <1>2, OwnerCallsKeep, OwnerActsKeep DEF OwnerStep
<1>3. CASE CallClose \/ CallSweep
  BY <1>3, KeeperCallsKeep
<1>4. CASE OtherWrite \/ RemoveObject \/ Restart
  BY <1>4, EnvironmentKeeps
<1>5. CASE UNCHANGED vars
  BY <1>5 DEF vars, IInv, TypeOK, HoldsCompatible, ConsumersCovered, FreshIsCurrent,
              OwnerCallsSafe, KeeperCallSafe, AttemptLeft, AbsentIsEmpty, Holders,
              Sufficient, LeftBehind, Loaded, Change
<1> QED BY <1>1, <1>2, <1>3, <1>4, <1>5 DEF Next

\* The invariant holds in every reachable state.
THEOREM Invariance == Spec => []IInv
BY InitIInv, StepIInv, PTL DEF Spec

\* Every reachable state of the hold set protocol is well typed; in particular
\* no call makes more than MaxTries attempts (holdset.go, Update).
THEOREM TypeCorrect == Spec => []TypeOK
<1>1. IInv => TypeOK
  BY DEF IInv
<1> QED BY <1>1, Invariance, PTL

\* Every consumer runs under a recorded hold that permits it, whatever
\* responses were lost and however sweeps and retries were delayed.
THEOREM Covered == Spec => []ConsumersCovered
<1>1. IInv => ConsumersCovered
  BY DEF IInv
<1> QED BY <1>1, Invariance, PTL

\* Two owners never run consumers whose modes exclude each other.
THEOREM Exclusion == Spec => []ExclusiveAccess
<1>1. IInv => ExclusiveAccess
  <2> SUFFICES ASSUME IInv, NEW o \in Owners, NEW p \in Owners, o # p,
                      NEW k \in consumers[o], NEW n \in consumers[p],
                      <<k, n>> \in Excludes
               PROVE  FALSE
    BY DEF ExclusiveAccess
  <2> DEFINE x == set.mode[o]
             y == set.mode[p]
  <2>1. /\ x # NoMode /\ <<x, k>> \in Covers
        /\ y # NoMode /\ <<y, n>> \in Covers
    BY DEF IInv, ConsumersCovered
  <2>2. x \in Modes /\ y \in Modes /\ k \in Modes /\ n \in Modes
    BY <2>1 DEF IInv, TypeOK, HoldStates
  <2>3. <<x, y>> \notin Excludes
    BY <2>1 DEF IInv, HoldsCompatible
  <2> HIDE DEF x, y
  <2>4. <<n, x>> \in Excludes
    BY <2>1, <2>2, CoversAssumption, ExcludesAssumption
  <2>5. <<y, x>> \in Excludes
    BY <2>1, <2>2, <2>4, CoversAssumption
  <2> QED BY <2>2, <2>3, <2>5, ExcludesAssumption
<1> QED BY <1>1, Invariance, PTL

\* After a Close that returned no holder nothing runs and nothing may start.
THEOREM DrainQuiet == Spec => []DrainedIsQuiet
<1>1. IInv => DrainedIsQuiet
  BY NoModeAssumption
     DEF IInv, AbsentIsEmpty, OwnerCallsSafe, ConsumersCovered, Holders, DrainedIsQuiet
<1> QED BY <1>1, Invariance, PTL

-----------------------------------------------------------------------------
(* Action properties and refinement.                                       *)

\* The persisted set changes only by an accepted write of a call's change, and
\* a step that writes it touches no consumer.
LEMMA SetChanges ==
    ASSUME IInv, [Next]_vars
    PROVE  \/ set' = set
           \/ \E c \in Callers : /\ set' = Change(c, call[c], set)
                                 /\ consumers' = consumers
<1>1. ASSUME NEW c \in Callers, UpdateStep(c)
      PROVE  set' = set \/ (set' = Change(c, call[c], set) /\ consumers' = consumers)
  <2>1. CASE Save(c) \/ SaveUnknown(c)
    BY <2>1, WriteIsChange DEF Save, SaveUnknown, Written
  <2>2. CASE Load(c) \/ SaveConflict(c) \/ CallFails(c)
    BY <2>2 DEF Load, SaveConflict, CallFails
  <2> QED BY <1>1, <2>1, <2>2 DEF UpdateStep
<1>2. ASSUME NEW o \in Owners, OwnerStep(o) PROVE set' = set
  BY <1>2 DEF OwnerStep, CallAcquire, CallRetain, CallRelease, CreateConsumer, Abandon,
              StopConsumers, OwnerGone
<1>3. CASE CallClose \/ CallSweep \/ OtherWrite \/ RemoveObject \/ Restart \/ UNCHANGED vars
  BY <1>3 DEF CallClose, CallSweep, OtherWrite, RemoveObject, Restart, vars
<1> QED BY <1>1, <1>2, <1>3 DEF Next

\* The fence is irreversible: after it no step adds a holder or strengthens one.
THEOREM Fenced == Spec => FenceHolds
<1> DEFINE P == set.closed =>
                  /\ set'.closed
                  /\ \A o \in Owners :
                       \/ set'.mode[o] \in {set.mode[o], NoMode}
                       \/ set.mode[o] # NoMode /\ <<set.mode[o], set'.mode[o]>> \in Covers
<1>1. IInv /\ [Next]_vars => P
  <2> SUFFICES ASSUME IInv, [Next]_vars, set.closed
               PROVE  /\ set'.closed
                      /\ \A o \in Owners :
                           \/ set'.mode[o] \in {set.mode[o], NoMode}
                           \/ /\ set.mode[o] # NoMode
                              /\ <<set.mode[o], set'.mode[o]>> \in Covers
    OBVIOUS
  <2>1. CASE set' = set
    BY <2>1
  <2>2. ASSUME NEW c \in Callers, set' = Change(c, call[c], set)
        PROVE  /\ set'.closed
               /\ \A o \in Owners :
                    \/ set'.mode[o] \in {set.mode[o], NoMode}
                    \/ /\ set.mode[o] # NoMode
                       /\ <<set.mode[o], set'.mode[o]>> \in Covers
    <3>s. set \in HoldStates
      BY DEF IInv, TypeOK
    <3>0. set'.closed
      BY <2>2, WriteSafe
    <3>1. CASE call[c].op = "none"
      BY <2>2, <3>0, <3>1 DEF Change
    <3>2. CASE call[c].op = "close"
      BY <2>2, <3>s, <3>0, <3>2, CloseShape
    <3>3. CASE call[c].op = "sweep"
      BY <2>2, <3>s, <3>0, <3>3, SweepType
    <3>4. CASE call[c].op \in {"acquire", "release", "retain"}
      <4>1. c \in Owners /\ (call[c].op \in {"acquire", "retain"} => call[c].mode \in Modes)
        BY <3>4, SavingCall
      <4>2. \A o \in Owners \ {c} : set'.mode[o] = set.mode[o]
        BY <2>2, <3>s, <3>4, <4>1, OwnerShape
      <4>3. \/ set'.mode[c] \in {set.mode[c], NoMode}
            \/ set.mode[c] # NoMode /\ <<set.mode[c], set'.mode[c]>> \in Covers
        <5> SUFFICES ASSUME set'.mode[c] # set.mode[c], set'.mode[c] # NoMode
                     PROVE  set.mode[c] # NoMode /\ <<set.mode[c], set'.mode[c]>> \in Covers
          OBVIOUS
        <5>1. Change(c, call[c], set).mode[c] # set.mode[c]
          BY <2>2
        <5>2. \/ call[c].op = "acquire" /\ MayAdmit(set, c, call[c].mode)
              \/ call[c].op = "release" /\ Change(c, call[c], set).mode[c] = NoMode
              \/ /\ call[c].op = "retain"
                 /\ set.mode[c] # NoMode /\ <<set.mode[c], call[c].mode>> \in Covers
                 /\ Change(c, call[c], set).mode[c] = call[c].mode
          BY <3>s, <3>4, <4>1, <5>1, OwnerChange
        <5> QED BY <2>2, <5>2 DEF MayAdmit
      <4> QED BY <3>0, <4>2, <4>3
    <3> QED BY <3>1, <3>2, <3>3, <3>4, SavingCall
  <2> QED BY <2>1, <2>2, SetChanges
<1>2. [Next]_vars /\ P => [P]_vars
  OBVIOUS
<1>3. FenceHolds <=> [][P]_vars
  BY DEF FenceHolds
<1> HIDE DEF P
<1> QED BY <1>1, <1>2, <1>3, Invariance, PTL DEF Spec

\* Each change of the persisted set is one step of the atomic specification.
LEMMA WriteRefines ==
    ASSUME IInv, NEW c \in Callers, set' = Change(c, call[c], set), consumers' = consumers
    PROVE  [Abstract!FenceNext]_(Abstract!fenceVars)
<1>s. set \in HoldStates
  BY DEF IInv, TypeOK
<1>0. CASE set' = set
  BY <1>0 DEF Abstract!fenceVars
<1>1. CASE call[c].op = "close"
  <2>1. set' = Close(set)
    BY <1>1 DEF Change
  <2>2. Abstract!Fence
    BY <2>1 DEF Abstract!Fence, Abstract!Close, Close
  <2> QED BY <2>2 DEF Abstract!FenceNext
<1>2. CASE call[c].op = "sweep"
  <2>0. c = Keeper
    BY <1>2, SavingCall
  <2>1. /\ call[c].cand \in SUBSET Owners
        /\ \A o \in call[c].cand : consumers[o] = {}
    BY <2>0 DEF IInv, TypeOK, Calls, KeeperCallSafe, LeftBehind
  <2>2. set' = [set EXCEPT !.mode = [o \in Owners |->
                  IF o \in call[c].cand THEN NoMode ELSE set.mode[o]]]
    BY <1>2 DEF Change
  <2>3. Abstract!Drop(call[c].cand)
    BY <2>1, <2>2 DEF Abstract!Drop
  <2> QED BY <2>1, <2>3 DEF Abstract!FenceNext
<1>3. CASE call[c].op = "release"
  <2>0. c \in Owners /\ consumers[c] = {}
    BY <1>3, SavingCall
  <2>1. set' = [set EXCEPT !.mode = [set.mode EXCEPT ![c] = NoMode]]
    BY <1>3 DEF Change, Remove
  <2>2. [set.mode EXCEPT ![c] = NoMode] =
          [o \in Owners |-> IF o \in {c} THEN NoMode ELSE set.mode[o]]
    BY <1>s, <2>0 DEF HoldStates
  <2>3. Abstract!Drop({c})
    BY <2>0, <2>1, <2>2 DEF Abstract!Drop
  <2> QED BY <2>0, <2>3 DEF Abstract!FenceNext
<1>4. CASE call[c].op = "acquire" /\ set' # set
  <2>0. c \in Owners /\ call[c].mode \in Modes /\ Sufficient(c, call[c].mode)
    BY <1>4, SavingCall
  <2>1. set' = Admit(set, c, call[c].mode)
    BY <1>4 DEF Change
  <2>2. set' = Put(set, c, call[c].mode) /\ MayAdmit(set, c, call[c].mode)
    BY <1>4, <2>1 DEF Admit
  <2>3. Abstract!MayAdmit(set, c, call[c].mode)
    BY <2>2 DEF MayAdmit, Conflicts, Holders,
                Abstract!MayAdmit, Abstract!Conflicts, Abstract!Holders
  <2>4. Abstract!Grant(c, call[c].mode)
    BY <2>0, <2>2, <2>3 DEF Abstract!Grant, Abstract!Enough, Sufficient, Abstract!Put, Put
  <2> QED BY <2>0, <2>4 DEF Abstract!FenceNext
<1>5. CASE call[c].op = "retain" /\ set' # set
  <2>0. c \in Owners /\ call[c].mode \in Modes /\ Sufficient(c, call[c].mode)
    BY <1>5, SavingCall
  <2>1. /\ set' = Put(set, c, call[c].mode)
        /\ set.mode[c] # NoMode /\ <<set.mode[c], call[c].mode>> \in Covers
    BY <1>5 DEF Change
  <2>2. Abstract!Weaken(c, call[c].mode)
    BY <2>0, <2>1 DEF Abstract!Weaken, Abstract!Enough, Abstract!Holders, Sufficient,
                      Abstract!Put, Put
  <2> QED BY <2>0, <2>2 DEF Abstract!FenceNext
<1>6. CASE call[c].op = "none"
  BY <1>6, <1>0 DEF Change
<1> QED BY <1>0, <1>1, <1>2, <1>3, <1>4, <1>5, <1>6, SavingCall

\* A step that leaves the set alone only starts or stops consumers.
LEMMA ConsumerRefines ==
    ASSUME IInv, [Next]_vars, set' = set
    PROVE  [Abstract!FenceNext]_(Abstract!fenceVars)
<1>0. CASE consumers' = consumers
  BY <1>0 DEF Abstract!fenceVars
<1>1. ASSUME NEW o \in Owners, CreateConsumer(o)
      PROVE  Abstract!FenceNext
  <2>1. call[o].mode \in Modes /\ set.mode[o] = call[o].mode
    BY <1>1 DEF IInv, OwnerCallsSafe, CreateConsumer
  <2>2. Abstract!Use(o, call[o].mode)
    BY <1>1, <2>1 DEF Abstract!Use, CreateConsumer
  <2> QED BY <2>1, <2>2 DEF Abstract!FenceNext
<1>2. ASSUME NEW o \in Owners, StopConsumers(o)
      PROVE  Abstract!FenceNext
  <2>1. PICK rest \in SUBSET consumers[o] : consumers' = [consumers EXCEPT ![o] = rest]
    BY <1>2 DEF StopConsumers
  <2>2. Abstract!Leave(o, rest)
    BY <2>1 DEF Abstract!Leave
  <2> QED BY <2>1, <2>2 DEF Abstract!FenceNext
<1>3. ASSUME NEW c \in Callers, UpdateStep(c) PROVE consumers' = consumers
  BY <1>3 DEF UpdateStep, Load, Save, SaveUnknown, SaveConflict, CallFails
<1>4. ASSUME NEW o \in Owners, OwnerStep(o)
      PROVE  CreateConsumer(o) \/ StopConsumers(o) \/ consumers' = consumers
  BY <1>4 DEF OwnerStep, CallAcquire, CallRetain, CallRelease, Abandon, OwnerGone
<1>5. CASE CallClose \/ CallSweep \/ OtherWrite \/ RemoveObject \/ Restart \/ UNCHANGED vars
  BY <1>5, <1>0 DEF CallClose, CallSweep, OtherWrite, RemoveObject, Restart, vars
<1> QED BY <1>0, <1>1, <1>2, <1>3, <1>4, <1>5 DEF Next

\* The call-level protocol implements the atomic access fence: components built
\* on holdset may treat each of its operations as one step.
THEOREM Refinement == Spec => ImplementsFence
<1>1. Init => Abstract!FenceInit
  BY DEF Init, Abstract!FenceInit, EmptySet, Abstract!EmptySet
<1>2. IInv /\ [Next]_vars => [Abstract!FenceNext]_(Abstract!fenceVars)
  BY SetChanges, WriteRefines, ConsumerRefines
<1> QED BY <1>1, <1>2, Invariance, PTL DEF Spec, ImplementsFence, Abstract!FenceSpec

=============================================================================
