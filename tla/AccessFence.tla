----------------------------- MODULE AccessFence -----------------------------
(***************************************************************************)
(* What a hold set promises to the rest of rc, with no API requests in     *)
(* sight: an owner uses the protected object only under a hold, holds in   *)
(* modes that exclude one another are never granted together, and after    *)
(* the fence is closed nothing is granted any more.  Every operation is    *)
(* one atomic step.  HoldSet implements this specification.                *)
(***************************************************************************)
EXTENDS HoldState

CONSTANTS Covers    \* <<m, n>>: holding mode m permits a consumer of mode n

VARIABLES hold,     \* the hold set
          users     \* the modes in which each owner uses the object

fenceVars == <<hold, users>>

FenceInit == hold = EmptySet /\ users = [o \in Owners |-> {}]

\* A hold that permits everything its owner is doing.
Enough(o, m) == \A k \in users[o] : <<m, k>> \in Covers

Grant(o, m) ==
    /\ MayAdmit(hold, o, m) /\ Enough(o, m)
    /\ hold' = Put(hold, o, m)
    /\ UNCHANGED users

Weaken(o, m) ==
    /\ o \in Holders(hold) /\ <<hold.mode[o], m>> \in Covers /\ Enough(o, m)
    /\ hold' = Put(hold, o, m)
    /\ UNCHANGED users

Drop(S) ==
    /\ \A o \in S : users[o] = {}
    /\ hold' = [hold EXCEPT !.mode = [o \in Owners |->
                    IF o \in S THEN NoMode ELSE hold.mode[o]]]
    /\ UNCHANGED users

Fence == hold' = Close(hold) /\ UNCHANGED users

Use(o, m) ==
    /\ hold.mode[o] = m
    /\ users' = [users EXCEPT ![o] = @ \cup {m}]
    /\ UNCHANGED hold

Leave(o, rest) ==
    /\ users' = [users EXCEPT ![o] = rest]
    /\ rest \subseteq users[o]
    /\ UNCHANGED hold

FenceNext ==
    \/ \E o \in Owners, m \in Modes : Grant(o, m) \/ Weaken(o, m) \/ Use(o, m)
    \/ \E S \in SUBSET Owners : Drop(S)
    \/ \E o \in Owners : \E rest \in SUBSET users[o] : Leave(o, rest)
    \/ Fence

FenceSpec == FenceInit /\ [][FenceNext]_fenceVars

=============================================================================
