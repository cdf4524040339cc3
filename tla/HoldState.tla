------------------------------ MODULE HoldState ------------------------------
(***************************************************************************)
(* The decoded hold set of package internal/holdset: which owners hold a   *)
(* shared object, in which mode, and the irreversible Closed fence.        *)
(*                                                                         *)
(* An owner stands for one holder key (kind and UID), so it is never       *)
(* reused.  A hold set is a record: `closed' is State.Closed and `mode'    *)
(* maps an owner to the mode it holds, NoMode when it is not in            *)
(* State.Holders.  The Since timestamps and the sorted order of the list   *)
(* decide nothing and are left out.                                        *)
(***************************************************************************)
CONSTANTS
    Owners,     \* holder keys
    Modes,      \* access modes
    NoMode,     \* the mode of an owner that is not a holder
    Excludes    \* <<m, n>>: an existing holder in mode m blocks a candidate
                \* for mode n (the Conflicts policy of the access package)

ASSUME NoModeAssumption == NoMode \notin Modes

ASSUME ExcludesAssumption ==
    /\ Excludes \subseteq Modes \X Modes
    /\ \A m, n \in Modes : <<m, n>> \in Excludes => <<n, m>> \in Excludes

HoldStates == [closed : BOOLEAN, mode : [Owners -> Modes \cup {NoMode}]]

EmptySet == [closed |-> FALSE, mode |-> [o \in Owners |-> NoMode]]

Holders(s) == {o \in Owners : s.mode[o] # NoMode}

\* Mutant: releasing the last holder reopens the set.
RemoveReopens(s, o) ==
    [closed |-> s.closed /\ Holders(s) \ {o} # {},
     mode |-> [s.mode EXCEPT ![o] = NoMode]]

Remove(s, o) == [s EXCEPT !.mode[o] = NoMode]

Put(s, o, m) == [s EXCEPT !.mode[o] = m]

\* The holders other than o that exclude o's candidate mode.
Conflicts(s, o, m) ==
    {p \in Holders(s) \ {o} : <<s.mode[p], m>> \in Excludes}

\* Mutant: a mode change or a new holder ignores the fence.
MayAdmitPastFence(s, o, m) == Conflicts(s, o, m) = {}

\* A Closed set admits no new holder and no mode change.
MayAdmit(s, o, m) == ~s.closed /\ Conflicts(s, o, m) = {}

\* The set after Admit; a holder that already has the mode changes nothing.
Admit(s, o, m) ==
    IF s.mode[o] # m /\ MayAdmit(s, o, m) THEN Put(s, o, m) ELSE s

\* Result.Held: the candidate's key already held the requested mode.
Held(s, o, m) == s.mode[o] = m

\* Result.Admitted: the candidate may create new consumers.  A holder that
\* already has the mode is admitted unless the fence closed since.
Admitted(s, o, m) ==
    IF Held(s, o, m) THEN ~s.closed ELSE MayAdmit(s, o, m)

Close(s) == [s EXCEPT !.closed = TRUE]

=============================================================================
