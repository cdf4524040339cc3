---------------------------- MODULE ProcessTable ----------------------------
(***************************************************************************)
(* What one rc-kube supervisor keeps of its processes, in memory and on    *)
(* the volume, and the steps that change it.  The in-memory table dies     *)
(* with the supervisor; owner.uid and record.json stay.                    *)
(*                                                                         *)
(* A process is asked for by an ID (its name, which may be reused) and a   *)
(* UID (its identity, which may not): (ID, UID) is what makes a repeated   *)
(* start harmless.                                                         *)
(***************************************************************************)
EXTENDS Naturals

CONSTANTS Uids, Ids, IdOf, None

VARIABLES
  table,     \* Supervisor.processes: per ID the process this supervisor owns
  owner,     \* owner.uid: per ID the UID that claimed the directory
  record,    \* record.json: per ID the last recorded state
  launches,  \* per UID, how often a start was settled: by a launch or a recorded failure
  removed    \* per UID, how often the directory it had claimed was pruned

tableVars == <<table, owner, record, launches, removed>>

Ended     == {"Exited", "Stopped"}
Phases    == Ended \cup {"Running"}
Processes == [uid : Uids, phase : Phases, stop : BOOLEAN]
Records   == [uid : Uids, phase : Phases \cup {"Lost"}]

ASSUME IdsAssumption == /\ IdOf \in [Uids -> Ids]
                        /\ None \notin Uids \cup Processes \cup Records

TableTypeOK == /\ table  \in [Ids -> Processes \cup {None}]
               /\ owner  \in [Ids -> Uids \cup {None}]
               /\ record \in [Ids -> Records \cup {None}]

TableInit == /\ table    = [i \in Ids  |-> None]
             /\ owner    = [i \in Ids  |-> None]
             /\ record   = [i \in Ids  |-> None]
             /\ launches = [u \in Uids |-> 0]
             /\ removed  = [u \in Uids |-> 0]

(***************************************************************************)
(* What a start request finds.  A process in the table answers for its own *)
(* UID and refuses any other.  An owner file without a process is a claim  *)
(* of an earlier supervisor: its UID is told "not found", others conflict. *)
(***************************************************************************)
Owns(u)     == table[IdOf[u]] # None /\ table[IdOf[u]].uid = u
\* Mutant: a repeated start of a lost run launches it again.
FreeOrLost(u) == table[IdOf[u]] = None /\ owner[IdOf[u]] \in {None, u}
Free(u)     == table[IdOf[u]] = None /\ owner[IdOf[u]] = None
LostRun(u)  == table[IdOf[u]] = None /\ owner[IdOf[u]] = u
Conflict(u) == ~Owns(u) /\ ~Free(u) /\ ~LostRun(u)

\* A process whose state this supervisor still changes.
Active(i) == table[i] # None /\ table[i].phase = "Running"

Claim(u) == owner' = [owner EXCEPT ![IdOf[u]] = u]

Recorded(u, phase) ==
  record' = [record EXCEPT ![IdOf[u]] = [uid |-> u, phase |-> phase]]

\* The native process exists: it enters the table and its record.
Launch(u) ==
  /\ table' = [table EXCEPT ![IdOf[u]] = [uid |-> u, phase |-> "Running", stop |-> FALSE]]
  /\ launches' = [launches EXCEPT ![u] = @ + 1]
  /\ Recorded(u, "Running")
  /\ UNCHANGED removed

\* A command that cannot start is a process that has already exited.
RecordFailure(u) ==
  /\ table' = [table EXCEPT ![IdOf[u]] = [uid |-> u, phase |-> "Exited", stop |-> FALSE]]
  /\ launches' = [launches EXCEPT ![u] = @ + 1]
  /\ Recorded(u, "Exited")
  /\ UNCHANGED removed

\* An attempt that failed before it had a transcript, or was cancelled,
\* gives the identity back.
Rollback(u) == owner' = [owner EXCEPT ![IdOf[u]] = None]

\* Stop marks a running process before it is signalled.
RequestStop(i) == table' = IF Active(i) THEN [table EXCEPT ![i].stop = TRUE] ELSE table

EndPhase(i) == IF table[i].stop THEN "Stopped" ELSE "Exited"

\* wait: the end of the native process becomes its state and its record.
Finish(i) ==
  /\ table' = [table EXCEPT ![i].phase = EndPhase(i)]
  /\ Recorded(table[i].uid, EndPhase(i))
  /\ UNCHANGED <<owner, launches, removed>>

\* Inspect: a process of this supervisor, or one an earlier supervisor saw
\* end.  Records of lost and unfinished processes are not found.
Found(i) == table[i] # None \/ (record[i] # None /\ record[i].phase \in Ended)
Inspected(i) == IF table[i] # None
                THEN [uid |-> table[i].uid, phase |-> table[i].phase]
                ELSE record[i]

\* A new supervisor: the table is empty and RecoverHistory turns every
\* record that did not end into a lost one.
Restart ==
  /\ table' = [i \in Ids |-> None]
  /\ record' = [i \in Ids |-> IF record[i] # None /\ record[i].phase = "Running"
                              THEN [record[i] EXCEPT !.phase = "Lost"] ELSE record[i]]
  /\ UNCHANGED <<owner, launches, removed>>

(***************************************************************************)
(* pruneHistory removes the whole directory of a process that ended, its   *)
(* claim included: nothing is left that makes a repeated start harmless.   *)
(***************************************************************************)
Prunable(i) == record[i] # None /\ record[i].phase # "Running" /\ ~Active(i)

PruneSet(S) ==
  /\ table'  = [i \in Ids |-> IF i \in S THEN None ELSE table[i]]
  /\ owner'  = [i \in Ids |-> IF i \in S THEN None ELSE owner[i]]
  /\ record' = [i \in Ids |-> IF i \in S THEN None ELSE record[i]]
  /\ removed' = [u \in Uids |-> IF IdOf[u] \in S /\ owner[IdOf[u]] = u
                                THEN removed[u] + 1 ELSE removed[u]]
  /\ UNCHANGED launches
=============================================================================
