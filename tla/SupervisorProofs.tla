-------------------------- MODULE SupervisorProofs --------------------------
(***************************************************************************)
(* Proofs about Supervisor, for any processes, names, connections,         *)
(* clients, queue sizes and loads.                                         *)
(*                                                                         *)
(* The control part rests on three facts.  A launch that was not pruned    *)
(* still owns its name, so that a free name means that every launch of the *)
(* UID was pruned.  A native process that is not over is the running one   *)
(* of its name in the table, so that two processes of one name never live  *)
(* together and the release of one name's links is harmless to all others. *)
(* And from the moment Shutdown reads the table, every running process has *)
(* a stop of its own.                                                      *)
(*                                                                         *)
(* The stream part says where what a client has meets what is on its way   *)
(* to it: its queue continues what it has, and ends where the output ends, *)
(* or where the chunk that is being sent to it begins.                     *)
(***************************************************************************)
EXTENDS Supervisor, FiniteSetTheorems, TLAPS

-----------------------------------------------------------------------------
(* The inductive invariant: control.                                       *)

CallSet == [op : {"idle", "start", "stop", "run"}, uid : Uids \cup {None},
            pc : {"idle", "called", "preparing", "grace", "killed"}]
AttemptSteps == {"transcript", "files", "aliases", "projections", "environment", "command", "native"}
AttemptSet == [uid : Uids, step : AttemptSteps, links : SUBSET Links]
Owners == (SUBSET Ids) \cup {None}

ControlTypes ==
  /\ TableTypeOK /\ launches \in [Uids -> {0, 1}]
  /\ load \in Loads
  /\ serve \in {"serving", "cancelled", "drained", "stopping", "done"}
  /\ mu \in Threads \cup {None} /\ (mu # None => attempt \in AttemptSet)
  /\ calls \in [Threads -> CallSet]
  /\ runs \in 0..Len(ServiceRuns)
  /\ native \in [Uids -> {"none", "alive", "dead", "cleaned", "over"}]
  /\ signal \in [Uids -> {"none", "term", "kill"}]
  /\ held \in [Uids -> SUBSET Links]
  /\ aliases \in [Links -> Owners]

\* The native process of an identity is not over.
Alive(u) == native[u] \in {"alive", "dead", "cleaned"}

\* Who calls what.
CallsSafe ==
  /\ \A t \in Threads : calls[t].op # "idle" => calls[t].uid \in Uids
  /\ \A i \in Ids : calls[i].op \in {"idle", "stop"}
  /\ \A h \in Handlers : calls[h].op \in {"idle", "start", "stop"}

\* A launch whose directory was not pruned still owns its name.
StartsSafe ==
  /\ removed \in [Uids -> Nat]
  /\ \A u \in Uids : launches[u] = 1 /\ removed[u] = 0 => owner[IdOf[u]] = u

\* The start that holds the lock has the name to itself.
AttemptSafe ==
  mu # None =>
    /\ calls[mu].op = "start" /\ calls[mu].uid = attempt.uid
    /\ launches[attempt.uid] = 0 /\ owner[IdOf[attempt.uid]] = attempt.uid
    /\ table[IdOf[attempt.uid]] = None

\* The table and the native processes agree.
TableSafe ==
  /\ \A i \in Ids : table[i] # None => IdOf[table[i].uid] = i /\ launches[table[i].uid] = 1
  /\ \A u \in Uids : Alive(u) => table[IdOf[u]] # None /\ table[IdOf[u]].uid = u /\ table[IdOf[u]].phase = "Running"
  /\ \A i \in Ids : Active(i) => Alive(table[i].uid)

Linked(l, i) == aliases[l] # None /\ i \in aliases[l]

\* Links are owned by every running process that holds them, and by the attempt.
LinksSafe ==
  /\ \A u \in Uids : native[u] \in {"alive", "dead"} => \A l \in held[u] : Linked(l, IdOf[u])
  /\ mu # None => \A l \in attempt.links : Linked(l, IdOf[attempt.uid])

\* How far the end of Serve has come.
ServeSafe ==
  /\ serve \in {"drained", "stopping", "done"} => \A h \in Handlers : calls[h].op = "idle"
  /\ serve \in {"stopping", "done"} =>
       /\ mu = None /\ calls[Service].op = "idle"
       /\ \A i \in Ids : Active(i) => calls[i].op = "stop" /\ calls[i].uid = table[i].uid
  /\ serve = "done" => \A i \in Ids : calls[i].op = "idle"

Control == /\ ControlTypes /\ CallsSafe /\ StartsSafe /\ AttemptSafe
           /\ TableSafe /\ LinksSafe /\ ServeSafe

-----------------------------------------------------------------------------
(* The inductive invariant: streams.                                       *)

Chunks == [from : Nat, to : Nat]
Writes == [chunk : Chunks, to : Seq(Clients)]
Sessions == [state : {"away", "attached", "dropped", "finished", "slow", "left"}, uid : Uids \cup {None},
             queue : Seq(Chunks), at : Nat, told : BOOLEAN, gap : BOOLEAN, typed : Nat, sent : Nat,
             ended : BOOLEAN]

StreamTypes ==
  /\ pipe \in [Uids -> Nat] /\ out \in [Uids -> Nat]
  /\ kept \in [Uids -> Nat] /\ truncated \in [Uids -> BOOLEAN]
  /\ client \in [Clients -> Sessions]
  /\ inputClosed \in [Uids -> Clients \cup {None}]
  /\ copy \in [Uids -> Writes \cup {None}]
  /\ \A c \in Clients : Len(client[c].queue) <= QueueCap

\* The transcript is the output, up to the limit or to a failed Write.
TranscriptSafe ==
  \A u \in Uids : /\ kept[u] <= out[u] /\ kept[u] <= TranscriptMax
                  /\ ~truncated[u] /\ u \notin broken => kept[u] = out[u]

\* After a failed Write nothing is read, and nothing is under way.
BrokenSafe == \A u \in Uids : u \in broken => pipe[u] = 0 /\ copy[u] = None

\* The chunk of u that is still to be sent to c.
Pending(c, u) == copy[u] # None /\ \E n \in 1..Len(copy[u].to) : copy[u].to[n] = c

\* A Write under way: each lossless client that was attached comes once.
CopySafe ==
  \A u \in Uids : copy[u] # None =>
    /\ native[u] \in {"alive", "dead"}
    /\ copy[u].chunk.to = out[u] /\ copy[u].to # <<>>
    /\ \A m, n \in 1..Len(copy[u].to) : m # n => copy[u].to[m] # copy[u].to[n]
    /\ \A n \in 1..Len(copy[u].to) : /\ copy[u].to[n] \in Lossless
                                     /\ client[copy[u].to[n]].state # "away"

\* A queue continues what its client has, chunk by chunk.
Continues(at, queue) ==
  \A n \in 1..Len(queue) : queue[n].from = IF n = 1 THEN at ELSE queue[n - 1].to
EndOf(at, queue) == IF queue = <<>> THEN at ELSE queue[Len(queue)].to

\* What a session s of c has, what is on its way, and what there is.
SessionOf(c, s) ==
  /\ s.state = "away" => s.uid = None
  /\ s.state # "away" => s.uid \in Uids /\ launches[s.uid] = 1
  /\ s.gap => s.told
  /\ s.state = "dropped" => c \notin Lossless
  /\ s.state \in {"attached", "dropped"} /\ ~s.told => Continues(s.at, s.queue)
  /\ s.state = "attached" /\ ~s.told /\ s.uid \notin broken =>
       EndOf(s.at, s.queue) = IF Pending(c, s.uid) THEN copy[s.uid].chunk.from ELSE out[s.uid]
  /\ s.state = "finished" =>
       /\ ~Alive(s.uid)
       /\ c \in Lossless /\ ~s.told /\ s.uid \notin broken => s.at = out[s.uid]

SessionSafe == \A c \in Clients : SessionOf(c, client[c])

\* A session that has sent everything and will not send more.
InputOver(s) == /\ s.sent = s.typed /\ s.state # "away"
                /\ s.ended \/ s.state = "left"

InputSafe == \A u \in Uids : inputClosed[u] # None => InputOver(client[inputClosed[u]])

Streams == StreamTypes /\ TranscriptSafe /\ BrokenSafe /\ CopySafe /\ InputSafe /\ SessionSafe

IInv == Control /\ Streams

-----------------------------------------------------------------------------
(* What a step does to the calls, the table and the links.                 *)

\* The types that most steps need.
LEMMA TypesAre ==
  ASSUME ControlTypes
  PROVE  /\ TableTypeOK /\ calls \in [Threads -> CallSet] /\ aliases \in [Links -> Owners]
         /\ table \in [Ids -> Processes \cup {None}] /\ mu \in Threads \cup {None}
         /\ \A i \in Ids : table[i] # None => table[i].uid \in Uids
         /\ mu # None => attempt.uid \in Uids /\ IdOf[attempt.uid] \in Ids
<1>1. /\ TableTypeOK /\ calls \in [Threads -> CallSet] /\ aliases \in [Links -> Owners]
      /\ table \in [Ids -> Processes \cup {None}] /\ mu \in Threads \cup {None}
    BY DEF ControlTypes, TableTypeOK
<1>2. \A i \in Ids : table[i] # None => table[i].uid \in Uids
    BY <1>1 DEF Processes
<1>3. mu # None => attempt.uid \in Uids /\ IdOf[attempt.uid] \in Ids
    BY IdsAssumption DEF ControlTypes, AttemptSet
<1> QED
    BY <1>1, <1>2, <1>3

\* The threads are of three kinds.
LEMMA ThreadsApart ==
  /\ Service \notin Handlers \cup Ids /\ Handlers \cap Ids = {}
  /\ Threads = Handlers \cup {Service} \cup Ids
BY SupervisorAssumption DEF Threads

\* One thread's call becomes another, the rest stay.
CallBecomes(t, op, uid, pc) ==
  /\ calls' \in [Threads -> CallSet]
  /\ calls'[t].op = op /\ calls'[t].uid = uid /\ calls'[t].pc = pc
  /\ \A s \in Threads : s # t => calls'[s] = calls[s]

\* A call is replaced.
LEMMA CallReplaced ==
  ASSUME calls \in [Threads -> CallSet], NEW t \in Threads, NEW value \in CallSet,
         calls' = [calls EXCEPT ![t] = value]
  PROVE  CallBecomes(t, value.op, value.uid, value.pc)
BY DEF CallBecomes

\* A call begins.
LEMMA CallBegins ==
  ASSUME calls \in [Threads -> CallSet], NEW t \in Threads, NEW u \in Uids,
         NEW op \in {"start", "stop"},
         calls' = [calls EXCEPT ![t] = [op |-> op, uid |-> u, pc |-> "called"]]
  PROVE  CallBecomes(t, op, u, "called")
<1> DEFINE value == [op |-> op, uid |-> u, pc |-> "called"]
<1>1. value \in CallSet /\ value.op = op /\ value.uid = u /\ value.pc = "called"
    BY DEF CallSet
<1>2. calls' = [calls EXCEPT ![t] = value]
    OBVIOUS
<1> HIDE DEF value
<1> QED
    BY <1>1, <1>2, CallReplaced DEF CallBecomes

\* An idle thread.
LEMMA IdleIs == Idle \in CallSet /\ Idle.op = "idle" /\ Idle.uid = None /\ Idle.pc = "idle"
BY DEF Idle, CallSet

\* A call returns.
LEMMA CallReturns ==
  ASSUME calls \in [Threads -> CallSet], NEW t \in Threads, Return(t)
  PROVE  CallBecomes(t, "idle", None, "idle")
BY IdleIs, CallReplaced DEF Return, CallBecomes

\* A call gets to another place.
LEMMA CallGoesOn ==
  ASSUME calls \in [Threads -> CallSet], NEW t \in Threads,
         NEW pc \in {"idle", "called", "preparing", "grace", "killed"},
         calls' = [calls EXCEPT ![t].pc = pc]
  PROVE  CallBecomes(t, calls[t].op, calls[t].uid, pc)
<1> DEFINE value == [calls[t] EXCEPT !.pc = pc]
<1>1. calls[t] \in CallSet
    OBVIOUS
<1>2. value \in CallSet /\ value.op = calls[t].op /\ value.uid = calls[t].uid /\ value.pc = pc
    BY <1>1 DEF CallSet
<1>3. calls' = [calls EXCEPT ![t] = value]
    OBVIOUS
<1> HIDE DEF value
<1> QED
    BY <1>2, <1>3, CallReplaced DEF CallBecomes

\* A call gets to another place, for another life of its process.
LEMMA CallRenamed ==
  ASSUME calls \in [Threads -> CallSet], NEW t \in Threads, NEW u \in Uids,
         calls' = [calls EXCEPT ![t].uid = u, ![t].pc = "preparing"]
  PROVE  CallBecomes(t, calls[t].op, u, "preparing")
<1> DEFINE value == [calls[t] EXCEPT !.uid = u, !.pc = "preparing"]
<1>1. calls[t] \in CallSet
    OBVIOUS
<1>2. value \in CallSet /\ value.op = calls[t].op /\ value.uid = u /\ value.pc = "preparing"
    BY <1>1 DEF CallSet
<1>3. calls' = [calls EXCEPT ![t] = value]
    OBVIOUS
<1> HIDE DEF value
<1> QED
    BY <1>2, <1>3, CallReplaced DEF CallBecomes

\* The answer to a start ends the call, or turns it into the service's run.
LEMMA CallAnswered ==
  ASSUME calls \in [Threads -> CallSet], NEW t \in Threads, NEW ok, Answered(t, ok)
  PROVE  \/ CallBecomes(t, "idle", None, "idle")
         \/ t = Service /\ CallBecomes(t, "run", calls[t].uid, "called")
<1>1. CASE t = Service /\ ok
  <2> DEFINE value == [calls[t] EXCEPT !.op = "run", !.pc = "called"]
  <2>1. calls[t] \in CallSet
      OBVIOUS
  <2>2. value \in CallSet /\ value.op = "run" /\ value.uid = calls[t].uid /\ value.pc = "called"
      BY <2>1 DEF CallSet
  <2>3. calls' = [calls EXCEPT ![t] = value]
      BY <1>1 DEF Answered
  <2> HIDE DEF value
  <2> QED
      BY <1>1, <2>2, <2>3, CallReplaced DEF CallBecomes
<1>2. CASE ~(t = Service /\ ok)
    BY <1>2, IdleIs, CallReplaced DEF Answered, CallBecomes
<1> QED
    BY <1>1, <1>2

\* The entry of one name changes, the rest of the table stays.
TableBecomes(i, u, phase) ==
  /\ table' \in [Ids -> Processes \cup {None}]
  /\ table'[i] # None /\ table'[i].uid = u /\ table'[i].phase = phase
  /\ \A j \in Ids : j # i => table'[j] = table[j]

\* An entry is written.
LEMMA TableWritten ==
  ASSUME table \in [Ids -> Processes \cup {None}], NEW i \in Ids, NEW value \in Processes,
         table' = [table EXCEPT ![i] = value]
  PROVE  TableBecomes(i, value.uid, value.phase)
BY IdsAssumption DEF TableBecomes

\* A process enters the table, as running or as one that has exited.
LEMMA TableEntered ==
  ASSUME table \in [Ids -> Processes \cup {None}], NEW u \in Uids, NEW phase \in Phases,
         table' = [table EXCEPT ![IdOf[u]] = [uid |-> u, phase |-> phase, stop |-> FALSE]]
  PROVE  TableBecomes(IdOf[u], u, phase)
<1> DEFINE value == [uid |-> u, phase |-> phase, stop |-> FALSE]
<1>1. value \in Processes /\ value.uid = u /\ value.phase = phase
    BY DEF Processes
<1>2. IdOf[u] \in Ids
    BY IdsAssumption
<1>3. table' = [table EXCEPT ![IdOf[u]] = value]
    OBVIOUS
<1> HIDE DEF value
<1> QED
    BY <1>1, <1>2, <1>3, TableWritten DEF TableBecomes

\* A record is written.
LEMMA RecordWritten ==
  ASSUME record \in [Ids -> Records \cup {None}], NEW u \in Uids, NEW phase \in Phases, Recorded(u, phase)
  PROVE  record' \in [Ids -> Records \cup {None}]
<1>1. [uid |-> u, phase |-> phase] \in Records
    BY DEF Records
<1> QED
    BY <1>1 DEF Recorded

\* A name's mark in the table that its process was asked to stop.
LEMMA StopMarked ==
  ASSUME table \in [Ids -> Processes \cup {None}], NEW i \in Ids, Active(i), RequestStop(i)
  PROVE  TableBecomes(i, table[i].uid, table[i].phase)
<1> DEFINE value == [table[i] EXCEPT !.stop = TRUE]
<1>1. table[i] \in Processes
    BY DEF Active
<1>2. value \in Processes /\ value.uid = table[i].uid /\ value.phase = table[i].phase
    BY <1>1 DEF Processes
<1>3. table' = [table EXCEPT ![i] = value]
    BY DEF RequestStop
<1> HIDE DEF value
<1> QED
    BY <1>2, <1>3, TableWritten DEF TableBecomes

\* A process that ended is marked so in the table and in its record.
LEMMA ProcessFinished ==
  ASSUME TableTypeOK, NEW i \in Ids, table[i] # None, Finish(i)
  PROVE  /\ \E phase \in Ended : TableBecomes(i, table[i].uid, phase)
         /\ record' \in [Ids -> Records \cup {None}]
<1>1. table[i] \in Processes
    BY DEF TableTypeOK
<1>2. EndPhase(i) \in Ended
    BY DEF EndPhase, Ended
<1> DEFINE value == [table[i] EXCEPT !.phase = EndPhase(i)]
<1>3. value \in Processes /\ value.uid = table[i].uid /\ value.phase = EndPhase(i)
    BY <1>1, <1>2 DEF Processes, Phases
<1>4. table' = [table EXCEPT ![i] = value]
    BY DEF Finish
<1>5. Recorded(table[i].uid, EndPhase(i)) /\ table[i].uid \in Uids /\ EndPhase(i) \in Phases
    BY <1>1, <1>2 DEF Finish, Processes, Phases
<1>6. record' \in [Ids -> Records \cup {None}]
    BY <1>5, RecordWritten DEF TableTypeOK
<1> HIDE DEF value
<1>7. TableBecomes(i, table[i].uid, EndPhase(i))
    BY <1>3, <1>4, TableWritten DEF TableBecomes, TableTypeOK
<1> QED
    BY <1>2, <1>6, <1>7

\* Pruning takes the entries and claims of the names it is given, no others.
LEMMA Pruned ==
  ASSUME TableTypeOK, NEW S, PruneSet(S)
  PROVE  /\ TableTypeOK'
         /\ \A i \in Ids : i \in S => table'[i] = None /\ owner'[i] = None
         /\ \A i \in Ids : i \notin S => table'[i] = table[i] /\ owner'[i] = owner[i]
         /\ launches' = launches
         /\ removed \in [Uids -> Nat] =>
              /\ removed' \in [Uids -> Nat]
              /\ \A u \in Uids : removed'[u] = 0 /\ owner[IdOf[u]] = u => removed[u] = 0 /\ owner'[IdOf[u]] = u
              /\ \A u \in Uids : removed'[u] = 0 => removed[u] = 0
<1>1. /\ TableTypeOK'
      /\ \A i \in Ids : i \in S => table'[i] = None /\ owner'[i] = None
      /\ \A i \in Ids : i \notin S => table'[i] = table[i] /\ owner'[i] = owner[i]
      /\ launches' = launches
    BY DEF TableTypeOK, PruneSet
<1>2. ASSUME removed \in [Uids -> Nat], NEW u \in Uids
      PROVE  /\ removed'[u] \in Nat /\ (removed'[u] = 0 => removed[u] = 0)
             /\ removed'[u] = 0 /\ owner[IdOf[u]] = u => owner'[IdOf[u]] = u
  <2>1. removed'[u] = IF IdOf[u] \in S /\ owner[IdOf[u]] = u THEN removed[u] + 1 ELSE removed[u]
      BY DEF PruneSet
  <2>2. removed[u] \in Nat /\ IdOf[u] \in Ids
      BY <1>2, IdsAssumption
  <2> QED
      BY <1>1, <2>1, <2>2
<1>3. removed \in [Uids -> Nat] => removed' \in [Uids -> Nat]
    BY <1>2 DEF PruneSet
<1> QED
    BY <1>1, <1>2, <1>3

\* Claimed and released links, one by one.
LEMMA LinksClaimed ==
  ASSUME aliases \in [Links -> Owners], NEW i \in Ids, NEW S \in SUBSET Links,
         aliases' = Claimed(i, S)
  PROVE  /\ aliases' \in [Links -> Owners]
         /\ \A l \in S : Linked(l, i)'
         /\ \A l \in Links, j \in Ids : Linked(l, j) => Linked(l, j)'
<1>1. \A l \in Links : aliases'[l] = IF l \notin S THEN aliases[l]
                                    ELSE IF aliases[l] = None THEN {i} ELSE aliases[l] \cup {i}
    BY DEF Claimed
<1>2. ASSUME NEW l \in Links
      PROVE  /\ aliases'[l] \in Owners /\ (l \in S => Linked(l, i)')
             /\ \A j \in Ids : Linked(l, j) => Linked(l, j)'
  <2>1. CASE l \notin S
      BY <1>1, <2>1 DEF Linked
  <2>2. CASE l \in S /\ aliases[l] = None
    <3>1. aliases'[l] = {i} /\ {i} \in SUBSET Ids
        BY <1>1, <2>2
    <3> QED
        BY <2>2, <3>1, SupervisorAssumption DEF Linked, Owners
  <2>3. CASE l \in S /\ aliases[l] # None
    <3>1. aliases[l] \in SUBSET Ids
        BY <2>3 DEF Owners
    <3>2. aliases'[l] = aliases[l] \cup {i} /\ aliases[l] \cup {i} \in SUBSET Ids
        BY <1>1, <2>3, <3>1
    <3> QED
        BY <2>3, <3>2, SupervisorAssumption DEF Linked, Owners
  <2> QED
      BY <2>1, <2>2, <2>3
<1>3. aliases' \in [Links -> Owners]
    BY <1>2 DEF Claimed
<1> QED
    BY <1>2, <1>3

\* A release takes one name's claims, no others.
LEMMA LinksReleased ==
  ASSUME aliases \in [Links -> Owners], NEW i \in Ids, NEW S, aliases' = Released(i, S)
  PROVE  /\ aliases' \in [Links -> Owners]
         /\ \A l \in Links, j \in Ids : j # i /\ Linked(l, j) => Linked(l, j)'
<1>1. \A l \in Links : aliases'[l] = IF l \notin S \/ aliases[l] = None THEN aliases[l]
                                    ELSE IF aliases[l] \ {i} = {} THEN None ELSE aliases[l] \ {i}
    BY DEF Released
<1>2. ASSUME NEW l \in Links
      PROVE  /\ aliases'[l] \in Owners
             /\ \A j \in Ids : j # i /\ Linked(l, j) => Linked(l, j)'
  <2>1. CASE l \notin S \/ aliases[l] = None
      BY <1>1, <2>1 DEF Linked
  <2>2. CASE l \in S /\ aliases[l] # None
    <3>1. aliases[l] \in SUBSET Ids /\ aliases[l] \ {i} \in SUBSET Ids
        BY <2>2 DEF Owners
    <3>2. aliases'[l] = IF aliases[l] \ {i} = {} THEN None ELSE aliases[l] \ {i}
        BY <1>1, <2>2
    <3> QED
        BY <2>2, <3>1, <3>2, SupervisorAssumption DEF Linked, Owners
  <2> QED
      BY <2>1, <2>2
<1>3. aliases' \in [Links -> Owners]
    BY <1>2 DEF Released
<1> QED
    BY <1>2, <1>3

\* The end of an attempt takes no link from another name.
LEMMA AttemptReleased ==
  ASSUME aliases \in [Links -> Owners], attempt \in AttemptSet, IdOf[attempt.uid] \in Ids, ReleaseAttempt
  PROVE  /\ aliases' \in [Links -> Owners]
         /\ \A l \in Links, j \in Ids : j # IdOf[attempt.uid] /\ Linked(l, j) => Linked(l, j)'
<1>1. attempt.uid \in Uids /\ attempt.links \in SUBSET Links
    BY DEF AttemptSet
<1>2. \/ aliases' = Released(IdOf[attempt.uid], attempt.links)
      \/ \E left \in SUBSET Aliased[attempt.uid] : aliases' = Claimed(IdOf[attempt.uid], left)
    BY DEF ReleaseAttempt
<1> QED
    BY <1>1, <1>2, LinksReleased, LinksClaimed, SupervisorAssumption

\* What the service prunes are ended runs of its own.
LEMMA ServicePrunes ==
  ASSUME NEW i \in ServicePruned PROVE ~Active(i)
<1>1. PICK n \in EndedRuns : i = IdOf[ServiceRuns[n]]
    BY DEF ServicePruned
<1>2. Prunable(i)
    BY <1>1 DEF EndedRuns
<1> QED
    BY <1>2 DEF Prunable

\* So a return prunes no running process.
LEMMA ReturnPrunes ==
  ASSUME NEW t \in Threads
  PROVE  LET S == IF t = Service THEN ServicePruned ELSE {}
         IN \A i \in S : ~Active(i)
BY ServicePrunes

\* A stop turns to the process that has the name now.
LEMMA BeginStopCall ==
  ASSUME NEW t \in Threads, BeginStop(t), calls \in [Threads -> CallSet],
         table[IdOf[calls[t].uid]].uid \in Uids, calls[t].op = "stop"
  PROVE  CallBecomes(t, "stop", table[IdOf[calls[t].uid]].uid, "grace")
<1> DEFINE u == table[IdOf[calls[t].uid]].uid
           value == [calls[t] EXCEPT !.uid = u, !.pc = "grace"]
<1>1. calls[t] \in CallSet
    OBVIOUS
<1>2. calls' = [calls EXCEPT ![t] = value]
    BY DEF BeginStop
<1> HIDE DEF u
<1>3. value \in CallSet /\ value.op = "stop" /\ value.uid = u /\ value.pc = "grace"
    BY <1>1 DEF CallSet, u
<1> HIDE DEF value
<1>4. CallBecomes(t, "stop", u, "grace")
    BY <1>2, <1>3, CallReplaced DEF CallBecomes
<1> QED
    BY <1>4 DEF u

\* And signals it.
LEMMA BeginStopSignal ==
  ASSUME NEW t \in Threads, BeginStop(t), signal \in [Uids -> {"none", "term", "kill"}]
  PROVE  signal' \in [Uids -> {"none", "term", "kill"}]
BY DEF BeginStop

\* The service's run becomes its stop.
LEMMA StopRunCall ==
  ASSUME StopRun, calls \in [Threads -> CallSet]
  PROVE  CallBecomes(Service, "stop", calls[Service].uid, calls[Service].pc)
<1> DEFINE value == [calls[Service] EXCEPT !.op = "stop"]
<1>1. Service \in Threads
    BY DEF Threads
<1>2. value \in CallSet /\ value.op = "stop" /\ value.uid = calls[Service].uid /\ value.pc = calls[Service].pc
    BY <1>1 DEF CallSet
<1>3. calls' = [calls EXCEPT ![Service] = value]
    BY DEF StopRun
<1> HIDE DEF value
<1> QED
    BY <1>1, <1>2, <1>3, CallReplaced DEF CallBecomes

\* Every process of the table gets a stop, everybody else keeps its call.
LEMMA ShutdownCalls ==
  ASSUME BeginShutdown, calls \in [Threads -> CallSet],
         \A i \in Ids : table[i] # None => table[i].uid \in Uids
  PROVE  /\ calls' \in [Threads -> CallSet]
         /\ \A i \in Ids : table[i] # None => calls'[i].op = "stop" /\ calls'[i].uid = table[i].uid
         /\ \A t \in Threads : calls'[t] = calls[t] \/ (t \in Ids /\ calls'[t].op = "stop" /\ calls'[t].uid \in Uids)
<1>1. calls' = [t \in Threads |-> IF t \in Ids /\ table[t] # None
                                 THEN [op |-> "stop", uid |-> table[t].uid, pc |-> "called"]
                                 ELSE calls[t]]
    BY DEF BeginShutdown
<1>2. \A t \in Threads : calls'[t] = IF t \in Ids /\ table[t] # None
                                    THEN [op |-> "stop", uid |-> table[t].uid, pc |-> "called"]
                                    ELSE calls[t]
    BY <1>1
<1>3. ASSUME NEW t \in Threads
      PROVE  /\ calls'[t] \in CallSet
             /\ t \in Ids /\ table[t] # None => calls'[t].op = "stop" /\ calls'[t].uid = table[t].uid
             /\ calls'[t] = calls[t] \/ (t \in Ids /\ calls'[t].op = "stop" /\ calls'[t].uid \in Uids)
  <2>1. CASE t \in Ids /\ table[t] # None
    <3> DEFINE value == [op |-> "stop", uid |-> table[t].uid, pc |-> "called"]
    <3>1. value \in CallSet /\ value.op = "stop" /\ value.uid = table[t].uid
        BY <2>1 DEF CallSet
    <3>2. calls'[t] = value
        BY <1>2, <2>1
    <3> HIDE DEF value
    <3> QED
        BY <2>1, <3>1, <3>2
  <2>2. CASE ~(t \in Ids /\ table[t] # None)
      BY <1>2, <2>2
  <2> QED
      BY <2>1, <2>2
<1>4. calls' \in [Threads -> CallSet]
    BY <1>1, <1>3
<1>5. Ids \subseteq Threads
    BY DEF Threads
<1> QED
    BY <1>3, <1>4, <1>5

\* A new supervisor has a table and records again.
LEMMA RestartTable ==
  ASSUME RestartServe, TableTypeOK
  PROVE  TableTypeOK'
<1>1. table' \in [Ids -> Processes \cup {None}] /\ owner' \in [Ids -> Uids \cup {None}]
    BY DEF RestartServe, Restart, TableTypeOK
<1>2. ASSUME NEW i \in Ids PROVE record'[i] \in Records \cup {None}
  <2>1. record'[i] = IF record[i] # None /\ record[i].phase = "Running"
                     THEN [record[i] EXCEPT !.phase = "Lost"] ELSE record[i]
      BY DEF RestartServe, Restart
  <2>2. record[i] \in Records \cup {None}
      BY DEF TableTypeOK
  <2>3. CASE record[i] # None /\ record[i].phase = "Running"
      BY <2>1, <2>2, <2>3 DEF Records, Phases
  <2>4. CASE ~(record[i] # None /\ record[i].phase = "Running")
      BY <2>1, <2>2, <2>4
  <2> QED
      BY <2>3, <2>4
<1>3. record' \in [Ids -> Records \cup {None}]
    BY <1>2 DEF RestartServe, Restart
<1> QED
    BY <1>1, <1>3 DEF TableTypeOK

-----------------------------------------------------------------------------
(* Every step keeps the control part.                                      *)

\* A handler takes a request.
LEMMA RequestKeeps ==
  ASSUME Control, NEW h \in Handlers, NEW op \in {"start", "stop"}, NEW u \in Uids, Request(h, op, u)
  PROVE  Control'
<1>1. /\ ControlTypes /\ CallsSafe /\ StartsSafe /\ AttemptSafe
      /\ TableSafe /\ LinksSafe /\ ServeSafe
    BY DEF Control
<1>2. /\ TableTypeOK /\ calls \in [Threads -> CallSet] /\ aliases \in [Links -> Owners]
      /\ table \in [Ids -> Processes \cup {None}] /\ mu \in Threads \cup {None}
      /\ \A i \in Ids : table[i] # None => table[i].uid \in Uids
      /\ mu # None => attempt.uid \in Uids /\ IdOf[attempt.uid] \in Ids
    BY <1>1, TypesAre
<1>3. UNCHANGED <<table, owner, record, launches, removed, load, serve, restarts, mu, attempt, runs,
                  native, signal, held, aliases>>
    BY DEF Request, tableVars, procVars, callVars, PruneSet, Launch, RecordFailure, Finish,
       Prepared, Restart
<1>4. h \in Threads /\ calls[h].op = "idle" /\ serve = "serving"
    BY <1>1, <1>2, <1>3, IdleIs DEF Request, Cancelled, Threads
<1>5. CallBecomes(h, op, u, "called")
    BY <1>1, <1>2, <1>3, <1>4, CallBegins DEF Request
<1>6. serve = "serving"
    BY <1>4
<1>7. ControlTypes'
    BY <1>1, <1>2, <1>3, <1>4, <1>5, <1>6 DEF CallBecomes, ControlTypes, TableTypeOK
<1>8. CallsSafe'
    BY <1>1, <1>2, <1>3, <1>4, <1>5, <1>6, SupervisorAssumption DEF CallBecomes, CallsSafe, Threads
<1>9. StartsSafe'
    BY <1>1, <1>2, <1>3, <1>4, <1>5, <1>6 DEF CallBecomes, StartsSafe
<1>10. AttemptSafe'
    BY <1>1, <1>2, <1>3, <1>4, <1>5, <1>6 DEF CallBecomes, AttemptSafe
<1>11. TableSafe'
    BY <1>1, <1>2, <1>3, <1>4, <1>5, <1>6 DEF CallBecomes, TableSafe, Alive, Active
<1>12. LinksSafe'
    BY <1>1, <1>2, <1>3, <1>4, <1>5, <1>6 DEF CallBecomes, LinksSafe, Linked
<1>13. ServeSafe'
    BY <1>1, <1>2, <1>3, <1>4, <1>5, <1>6 DEF CallBecomes, ServeSafe, Active
<1> QED
    BY <1>7, <1>8, <1>9, <1>10, <1>11, <1>12, <1>13 DEF Control

\* The service begins a run.
LEMMA BeginRunKeeps ==
  ASSUME Control, BeginRun
  PROVE  Control'
<1>1. /\ ControlTypes /\ CallsSafe /\ StartsSafe /\ AttemptSafe
      /\ TableSafe /\ LinksSafe /\ ServeSafe
    BY DEF Control
<1>2. /\ TableTypeOK /\ calls \in [Threads -> CallSet] /\ aliases \in [Links -> Owners]
      /\ table \in [Ids -> Processes \cup {None}] /\ mu \in Threads \cup {None}
      /\ \A i \in Ids : table[i] # None => table[i].uid \in Uids
      /\ mu # None => attempt.uid \in Uids /\ IdOf[attempt.uid] \in Ids
    BY <1>1, TypesAre
<1>3. UNCHANGED <<table, owner, record, launches, removed, load, serve, restarts, mu, attempt, native,
                  signal, held, aliases>>
    BY DEF BeginRun, tableVars, procVars, callVars, PruneSet, Launch, RecordFailure, Finish,
       Prepared, Restart
<1>4. Service \in Threads /\ calls[Service].op = "idle" /\ serve = "serving"
      /\ runs + 1 \in DOMAIN ServiceRuns /\ runs' = runs + 1
    BY <1>1, <1>2, <1>3, IdleIs, SupervisorAssumption DEF BeginRun, Cancelled, Threads, ControlTypes
<1>5. ServiceRuns[runs + 1] \in Uids /\ runs' \in 0..Len(ServiceRuns)
    BY <1>1, <1>2, <1>3, <1>4, SupervisorAssumption DEF StartsSafe, ControlTypes
<1>6. CallBecomes(Service, "start", ServiceRuns[runs'], "called")
    BY <1>1, <1>2, <1>3, <1>4, <1>5, CallBegins DEF BeginRun
<1>7. ControlTypes'
    BY <1>1, <1>2, <1>3, <1>4, <1>5, <1>6 DEF CallBecomes, ControlTypes, TableTypeOK
<1>8. CallsSafe'
    BY <1>1, <1>3, <1>4, <1>5, <1>6, SupervisorAssumption DEF CallBecomes, CallsSafe, Threads
<1>9. StartsSafe'
    BY <1>1, <1>2, <1>3, <1>4, <1>5, <1>6 DEF CallBecomes, StartsSafe, ControlTypes
<1>10. AttemptSafe'
    BY <1>1, <1>2, <1>3, <1>4, <1>5, <1>6 DEF CallBecomes, AttemptSafe
<1>11. TableSafe'
    BY <1>1, <1>2, <1>3, <1>4, <1>5, <1>6 DEF CallBecomes, TableSafe, Alive, Active
<1>12. LinksSafe'
    BY <1>1, <1>2, <1>3, <1>4, <1>5, <1>6 DEF CallBecomes, LinksSafe, Linked
<1>13. ServeSafe'
    BY <1>1, <1>2, <1>3, <1>4, <1>5, <1>6 DEF CallBecomes, ServeSafe, Active
<1> QED
    BY <1>7, <1>8, <1>9, <1>10, <1>11, <1>12, <1>13 DEF Control

\* A start is answered at once.
LEMMA StartAnsweredKeeps ==
  ASSUME Control, NEW t \in Threads, StartAnswered(t)
  PROVE  Control'
<1>1. /\ ControlTypes /\ CallsSafe /\ StartsSafe /\ AttemptSafe
      /\ TableSafe /\ LinksSafe /\ ServeSafe
    BY DEF Control
<1>2. /\ TableTypeOK /\ calls \in [Threads -> CallSet] /\ aliases \in [Links -> Owners]
      /\ table \in [Ids -> Processes \cup {None}] /\ mu \in Threads \cup {None}
      /\ \A i \in Ids : table[i] # None => table[i].uid \in Uids
      /\ mu # None => attempt.uid \in Uids /\ IdOf[attempt.uid] \in Ids
    BY <1>1, TypesAre
<1>3. UNCHANGED <<table, owner, record, launches, removed, load, serve, restarts, mu, attempt, runs,
                  native, signal, held, aliases>>
    BY DEF StartAnswered, tableVars, procVars, callVars, PruneSet, Launch, RecordFailure, Finish,
       Prepared, Restart
<1>4. calls[t].op = "start" /\ mu = None
    BY <1>1, <1>2, <1>3 DEF StartAnswered, InCall
<1>5. \/ CallBecomes(t, "idle", None, "idle")
      \/ t = Service /\ CallBecomes(t, "run", calls[t].uid, "called")
    BY <1>1, <1>2, <1>3, <1>4, CallAnswered DEF StartAnswered
<1>6. /\ calls' \in [Threads -> CallSet] /\ \A s \in Threads : s # t => calls'[s] = calls[s]
      /\ \/ calls'[t].op = "idle"
         \/ t = Service /\ calls'[t].op = "run" /\ calls'[t].uid = calls[t].uid
    BY <1>1, <1>2, <1>3, <1>4, <1>5 DEF CallBecomes
<1>7. ControlTypes'
    BY <1>1, <1>2, <1>3, <1>4, <1>5, <1>6 DEF ControlTypes, TableTypeOK
<1>8. CallsSafe'
    BY <1>1, <1>2, <1>3, <1>4, <1>5, <1>6, SupervisorAssumption DEF CallsSafe, Threads
<1>9. StartsSafe'
    BY <1>1, <1>2, <1>3, <1>4, <1>5, <1>6 DEF StartsSafe
<1>10. AttemptSafe'
    BY <1>1, <1>2, <1>3, <1>4, <1>5, <1>6 DEF AttemptSafe
<1>11. TableSafe'
    BY <1>1, <1>2, <1>3, <1>4, <1>5, <1>6 DEF TableSafe, Alive, Active
<1>12. LinksSafe'
    BY <1>1, <1>2, <1>3, <1>4, <1>5, <1>6 DEF LinksSafe, Linked
<1>13. ServeSafe'
    BY <1>1, <1>3, <1>4, <1>6, ThreadsApart DEF ServeSafe, Active, CallsSafe
<1> QED
    BY <1>7, <1>8, <1>9, <1>10, <1>11, <1>12, <1>13 DEF Control

\* A start claims the name and takes the lock.
LEMMA BeginStartKeeps ==
  ASSUME Control, NEW t \in Threads, BeginStart(t)
  PROVE  Control'
<1>1. /\ ControlTypes /\ CallsSafe /\ StartsSafe /\ AttemptSafe
      /\ TableSafe /\ LinksSafe /\ ServeSafe
    BY DEF Control
<1>2. /\ TableTypeOK /\ calls \in [Threads -> CallSet] /\ aliases \in [Links -> Owners]
      /\ table \in [Ids -> Processes \cup {None}] /\ mu \in Threads \cup {None}
      /\ \A i \in Ids : table[i] # None => table[i].uid \in Uids
      /\ mu # None => attempt.uid \in Uids /\ IdOf[attempt.uid] \in Ids
    BY <1>1, TypesAre
<1>3. UNCHANGED <<table, record, launches, removed, load, serve, restarts, runs, native, signal, held,
                  aliases>>
    BY DEF BeginStart, tableVars, procVars, callVars, PruneSet, Launch, RecordFailure, Finish,
       Prepared, Restart
<1>4. calls[t].op = "start" /\ calls[t].uid \in Uids /\ mu = None /\ mu' = t /\ t # None /\ serve = "serving"
    BY <1>1, <1>2, <1>3, SupervisorAssumption DEF BeginStart, InCall, Cancelled, CallsSafe
<1>5. PICK u \in Uids :
        /\ Identity[u] = Identity[calls[t].uid] /\ launches[u] = 0 /\ Claim(u)
        /\ attempt' = [uid |-> u, step |-> "transcript", links |-> {}]
        /\ calls' = [calls EXCEPT ![t].uid = u, ![t].pc = "preparing"]
    BY DEF BeginStart, Lives
<1>6. CallBecomes(t, "start", u, "preparing")
    BY <1>2, <1>4, <1>5, CallRenamed
<1>7. IdOf[u] \in Ids /\ table[IdOf[u]] = None /\ owner[IdOf[u]] = None
  <2>1. IdOf[u] = IdOf[calls[t].uid]
      BY <1>4, <1>5, SupervisorAssumption
  <2> QED
      BY <2>1, IdsAssumption DEF BeginStart, Free
<1>8. /\ owner' \in [Ids -> Uids \cup {None}] /\ owner'[IdOf[u]] = u
      /\ \A i \in Ids : i # IdOf[u] => owner'[i] = owner[i]
    BY <1>2, <1>5, <1>7 DEF Claim, TableTypeOK
<1>9. attempt' \in AttemptSet /\ attempt'.uid = u /\ attempt'.links = {}
    BY <1>5 DEF AttemptSet, AttemptSteps
<1>10. ControlTypes'
    BY <1>1, <1>2, <1>3, <1>4, <1>5, <1>6, <1>7, <1>8, <1>9 DEF CallBecomes, ControlTypes,
       TableTypeOK
<1>11. CallsSafe'
    BY <1>1, <1>2, <1>3, <1>4, <1>5, <1>6, <1>7, <1>8, <1>9, SupervisorAssumption, SMTT(60) DEF CallBecomes,
       CallsSafe, Threads
<1>12. StartsSafe'
    BY <1>1, <1>3, <1>5, <1>7, <1>8, IdsAssumption DEF StartsSafe
<1>13. AttemptSafe'
    BY <1>1, <1>2, <1>3, <1>4, <1>5, <1>6, <1>7, <1>8, <1>9 DEF CallBecomes, AttemptSafe
<1>14. TableSafe'
    BY <1>1, <1>2, <1>3, <1>4, <1>5, <1>6, <1>7, <1>8, <1>9 DEF CallBecomes, TableSafe, Alive,
       Active
<1>15. LinksSafe'
    BY <1>1, <1>2, <1>3, <1>4, <1>5, <1>6, <1>7, <1>8, <1>9 DEF CallBecomes, LinksSafe, Linked
<1>16. ServeSafe'
    BY <1>1, <1>2, <1>3, <1>4, <1>5, <1>6, <1>7, <1>8, <1>9 DEF CallBecomes, ServeSafe, Active
<1> QED
    BY <1>10, <1>11, <1>12, <1>13, <1>14, <1>15, <1>16 DEF Control

\* A step of the preparation.
LEMMA PreparedKeeps ==
  ASSUME Control, mu # None, NEW step, NEW next \in AttemptSteps, NEW links \in SUBSET Links, Prepared(step, next, links)
  PROVE  Control'
<1>1. /\ ControlTypes /\ CallsSafe /\ StartsSafe /\ AttemptSafe
      /\ TableSafe /\ LinksSafe /\ ServeSafe
    BY DEF Control
<1>2. /\ TableTypeOK /\ calls \in [Threads -> CallSet] /\ aliases \in [Links -> Owners]
      /\ table \in [Ids -> Processes \cup {None}] /\ mu \in Threads \cup {None}
      /\ \A i \in Ids : table[i] # None => table[i].uid \in Uids
      /\ mu # None => attempt.uid \in Uids /\ IdOf[attempt.uid] \in Ids
    BY <1>1, TypesAre
<1>3. UNCHANGED <<table, owner, record, launches, removed, load, serve, restarts, mu, calls, runs, native,
                  signal, held>>
    BY DEF Prepared, tableVars, procVars, callVars, PruneSet, Launch, RecordFailure, Finish,
       Prepared, Restart
<1>4. attempt \in AttemptSet /\ attempt.uid \in Uids /\ IdOf[attempt.uid] \in Ids
    BY <1>1, <1>2, <1>3, IdsAssumption DEF ControlTypes, AttemptSet
<1>5. attempt' \in AttemptSet /\ attempt'.uid = attempt.uid /\ attempt'.links = attempt.links \cup links
    BY <1>1, <1>2, <1>3, <1>4 DEF Prepared, AttemptSet
<1>6. /\ aliases' \in [Links -> Owners] /\ \A l \in links : Linked(l, IdOf[attempt.uid])'
      /\ \A l \in Links, j \in Ids : Linked(l, j) => Linked(l, j)'
    BY <1>1, <1>2, <1>3, <1>4, <1>5, LinksClaimed DEF Prepared
<1>7. attempt.links \in SUBSET Links /\ held \in [Uids -> SUBSET Links]
    BY <1>1, <1>2, <1>3, <1>4, <1>5, <1>6 DEF AttemptSet, ControlTypes
<1>8. ControlTypes'
    BY <1>1, <1>2, <1>3, <1>4, <1>5, <1>6, <1>7 DEF ControlTypes, TableTypeOK
<1>9. CallsSafe'
    BY <1>1, <1>2, <1>3, <1>4, <1>5, <1>6, <1>7 DEF CallsSafe
<1>10. StartsSafe'
    BY <1>1, <1>2, <1>3, <1>4, <1>5, <1>6, <1>7 DEF StartsSafe
<1>11. AttemptSafe'
    BY <1>1, <1>2, <1>3, <1>4, <1>5, <1>6, <1>7 DEF AttemptSafe
<1>12. TableSafe'
    BY <1>1, <1>2, <1>3, <1>4, <1>5, <1>6, <1>7 DEF TableSafe, Alive, Active
<1>13. LinksSafe'
    BY <1>1, <1>2, <1>3, <1>4, <1>5, <1>6, <1>7, IdsAssumption DEF LinksSafe, Linked
<1>14. ServeSafe'
    BY <1>1, <1>2, <1>3, <1>4, <1>5, <1>6, <1>7 DEF ServeSafe, Active
<1> QED
    BY <1>8, <1>9, <1>10, <1>11, <1>12, <1>13, <1>14 DEF Control

\* A start gives its name back.
LEMMA RollBackStartKeeps ==
  ASSUME Control, NEW t \in Threads, mu = t, RollBackStart(t)
  PROVE  Control'
<1>1. /\ ControlTypes /\ CallsSafe /\ StartsSafe /\ AttemptSafe
      /\ TableSafe /\ LinksSafe /\ ServeSafe
    BY DEF Control
<1>2. /\ TableTypeOK /\ calls \in [Threads -> CallSet] /\ aliases \in [Links -> Owners]
      /\ table \in [Ids -> Processes \cup {None}] /\ mu \in Threads \cup {None}
      /\ \A i \in Ids : table[i] # None => table[i].uid \in Uids
      /\ mu # None => attempt.uid \in Uids /\ IdOf[attempt.uid] \in Ids
    BY <1>1, TypesAre
<1>3. UNCHANGED <<table, record, launches, removed, load, serve, restarts, runs, native, signal, held>>
    BY DEF RollBackStart, tableVars, procVars, callVars, PruneSet, Launch, RecordFailure, Finish,
       Prepared, Restart, EndStart
<1>4. /\ calls[t].op = "start" /\ calls[t].uid = attempt.uid /\ launches[attempt.uid] = 0
      /\ owner[IdOf[attempt.uid]] = attempt.uid /\ table[IdOf[attempt.uid]] = None
      /\ t # None /\ attempt \in AttemptSet /\ attempt.uid \in Uids /\ IdOf[attempt.uid] \in Ids
    BY <1>1, <1>2, <1>3, SupervisorAssumption, IdsAssumption DEF AttemptSafe, ControlTypes,
       AttemptSet
<1>5. serve \in {"serving", "cancelled", "drained"} /\ (serve = "drained" => t \notin Handlers)
    BY <1>1, <1>2, <1>3, <1>4 DEF ServeSafe, ControlTypes
<1>6. \/ CallBecomes(t, "idle", None, "idle")
      \/ t = Service /\ CallBecomes(t, "run", calls[t].uid, "called")
    BY <1>1, <1>2, <1>3, <1>4, <1>5, CallAnswered DEF RollBackStart, EndStart
<1>7. /\ calls' \in [Threads -> CallSet] /\ \A s \in Threads : s # t => calls'[s] = calls[s]
      /\ \/ calls'[t].op = "idle"
         \/ t = Service /\ calls'[t].op = "run" /\ calls'[t].uid = calls[t].uid
    BY <1>1, <1>2, <1>3, <1>4, <1>5, <1>6 DEF CallBecomes
<1>8. mu' = None
    BY <1>1, <1>2, <1>3, <1>4, <1>5, <1>6, <1>7 DEF RollBackStart, EndStart
<1>9. \A u \in Uids : Alive(u) => IdOf[u] # IdOf[attempt.uid]
    BY <1>1, <1>2, <1>3, <1>4, <1>5, <1>6, <1>7, <1>8 DEF TableSafe
<1>10. /\ aliases' \in [Links -> Owners]
      /\ \A l \in Links, j \in Ids : j # IdOf[attempt.uid] /\ Linked(l, j) => Linked(l, j)'
    BY <1>2, <1>4, AttemptReleased DEF RollBackStart
<1>11. /\ owner' \in [Ids -> Uids \cup {None}]
      /\ \A i \in Ids : i # IdOf[attempt.uid] => owner'[i] = owner[i]
    BY <1>1, <1>2, <1>3, <1>4, <1>5, <1>6, <1>7, <1>8, <1>9, <1>10 DEF RollBackStart, Rollback,
       TableTypeOK
<1>12. ControlTypes'
    BY <1>1, <1>2, <1>3, <1>4, <1>5, <1>6, <1>7, <1>8, <1>9, <1>10, <1>11 DEF ControlTypes,
       TableTypeOK
<1>13. CallsSafe'
    BY <1>1, <1>3, <1>4, <1>7, SupervisorAssumption DEF CallsSafe, Threads
<1>14. StartsSafe'
    BY <1>1, <1>3, <1>4, <1>11, IdsAssumption DEF StartsSafe
<1>15. AttemptSafe'
    BY <1>1, <1>2, <1>3, <1>4, <1>5, <1>6, <1>7, <1>8, <1>9, <1>10, <1>11 DEF AttemptSafe
<1>16. TableSafe'
    BY <1>1, <1>2, <1>3, <1>4, <1>5, <1>6, <1>7, <1>8, <1>9, <1>10, <1>11 DEF TableSafe, Alive,
       Active
<1>17. LinksSafe'
    BY <1>1, <1>2, <1>3, <1>4, <1>5, <1>6, <1>7, <1>8, <1>9, <1>10, <1>11, IdsAssumption DEF
       LinksSafe, Linked, ControlTypes, Alive
<1>18. ServeSafe'
    BY <1>1, <1>2, <1>3, <1>4, <1>5, <1>6, <1>7, <1>8, <1>9, <1>10, <1>11, SupervisorAssumption
       DEF ServeSafe, Active, Threads
<1> QED
    BY <1>12, <1>13, <1>14, <1>15, <1>16, <1>17, <1>18 DEF Control

\* A start fails and is recorded as a process that has exited.
LEMMA FailStartKeeps ==
  ASSUME Control, NEW t \in Threads, mu = t, FailStart(t)
  PROVE  Control'
<1>1. /\ ControlTypes /\ CallsSafe /\ StartsSafe /\ AttemptSafe
      /\ TableSafe /\ LinksSafe /\ ServeSafe
    BY DEF Control
<1>2. /\ TableTypeOK /\ calls \in [Threads -> CallSet] /\ aliases \in [Links -> Owners]
      /\ table \in [Ids -> Processes \cup {None}] /\ mu \in Threads \cup {None}
      /\ \A i \in Ids : table[i] # None => table[i].uid \in Uids
      /\ mu # None => attempt.uid \in Uids /\ IdOf[attempt.uid] \in Ids
    BY <1>1, TypesAre
<1>3. UNCHANGED <<owner, removed, load, serve, restarts, runs, signal, held>>
    BY DEF FailStart, tableVars, procVars, callVars, PruneSet, Launch, RecordFailure, Finish,
       Prepared, Restart, EndStart
<1>4. /\ calls[t].op = "start" /\ calls[t].uid = attempt.uid /\ launches[attempt.uid] = 0
      /\ owner[IdOf[attempt.uid]] = attempt.uid /\ table[IdOf[attempt.uid]] = None
      /\ t # None /\ attempt \in AttemptSet /\ attempt.uid \in Uids /\ IdOf[attempt.uid] \in Ids
    BY <1>1, <1>2, <1>3, SupervisorAssumption, IdsAssumption DEF AttemptSafe, ControlTypes,
       AttemptSet
<1>5. serve \in {"serving", "cancelled", "drained"} /\ (serve = "drained" => t \notin Handlers)
    BY <1>1, <1>2, <1>3, <1>4 DEF ServeSafe, ControlTypes
<1>6. \/ CallBecomes(t, "idle", None, "idle")
      \/ t = Service /\ CallBecomes(t, "run", calls[t].uid, "called")
    BY <1>1, <1>2, <1>3, <1>4, <1>5, CallAnswered DEF FailStart, EndStart
<1>7. /\ calls' \in [Threads -> CallSet] /\ \A s \in Threads : s # t => calls'[s] = calls[s]
      /\ \/ calls'[t].op = "idle"
         \/ t = Service /\ calls'[t].op = "run" /\ calls'[t].uid = calls[t].uid
    BY <1>1, <1>2, <1>3, <1>4, <1>5, <1>6 DEF CallBecomes
<1>8. mu' = None
    BY <1>1, <1>2, <1>3, <1>4, <1>5, <1>6, <1>7 DEF FailStart, EndStart
<1>9. \A u \in Uids : Alive(u) => IdOf[u] # IdOf[attempt.uid]
    BY <1>1, <1>2, <1>3, <1>4, <1>5, <1>6, <1>7, <1>8 DEF TableSafe
<1>10. ReleaseAttempt
    BY DEF FailStart
<1>11. /\ aliases' \in [Links -> Owners]
      /\ \A l \in Links, j \in Ids : j # IdOf[attempt.uid] /\ Linked(l, j) => Linked(l, j)'
    BY <1>2, <1>4, <1>10, AttemptReleased
<1>12. TableBecomes(IdOf[attempt.uid], attempt.uid, "Exited")
    BY <1>1, <1>2, <1>3, <1>4, <1>5, <1>6, <1>7, <1>8, <1>9, <1>10, <1>11, TableEntered DEF
       FailStart, RecordFailure, Phases, Ended
<1>13. record' \in [Ids -> Records \cup {None}]
    BY <1>1, <1>2, <1>3, <1>4, <1>5, <1>6, <1>7, <1>8, <1>9, <1>10, <1>11, <1>12, RecordWritten
       DEF FailStart, RecordFailure, TableTypeOK, Phases, Ended
<1>14. /\ launches' \in [Uids -> {0, 1}] /\ launches'[attempt.uid] = 1
      /\ \A u \in Uids : u # attempt.uid => launches'[u] = launches[u]
    BY <1>1, <1>2, <1>3, <1>4, <1>5, <1>6, <1>7, <1>8, <1>9, <1>10, <1>11, <1>12, <1>13 DEF
       FailStart, RecordFailure, ControlTypes
<1>15. /\ native'[attempt.uid] = "over" /\ \A u \in Uids : u # attempt.uid => native'[u] = native[u]
      /\ native' \in [Uids -> {"none", "alive", "dead", "cleaned", "over"}]
    BY <1>1, <1>2, <1>3, <1>4, <1>5, <1>6, <1>7, <1>8, <1>9, <1>10, <1>11, <1>12, <1>13, <1>14 DEF
       FailStart, ControlTypes
<1>16. \A u \in Uids : launches'[u] = 1 => launches[u] = 1 \/ u = attempt.uid
    BY <1>14
<1>17. ControlTypes'
    BY <1>1, <1>2, <1>3, <1>4, <1>5, <1>6, <1>7, <1>8, <1>9, <1>10, <1>11, <1>12, <1>13, <1>14,
       <1>15, <1>16 DEF ControlTypes, TableTypeOK, TableBecomes
<1>18. CallsSafe'
    BY <1>1, <1>3, <1>4, <1>7, SupervisorAssumption DEF CallsSafe, Threads
<1>19. StartsSafe'
    BY <1>1, <1>3, <1>4, <1>16 DEF StartsSafe
<1>20. AttemptSafe'
    BY <1>1, <1>2, <1>3, <1>4, <1>5, <1>6, <1>7, <1>8, <1>9, <1>10, <1>11, <1>12, <1>13, <1>14,
       <1>15, <1>16 DEF AttemptSafe
<1>21. TableSafe'
    BY <1>1, <1>2, <1>4, <1>9, <1>12, <1>14, <1>15, IdsAssumption DEF TableSafe, Alive, Active,
       TableBecomes
<1>22. LinksSafe'
    BY <1>1, <1>2, <1>3, <1>4, <1>5, <1>6, <1>7, <1>8, <1>9, <1>10, <1>11, <1>12, <1>13, <1>14,
       <1>15, <1>16, IdsAssumption DEF LinksSafe, Linked, ControlTypes, Alive
<1>23. ServeSafe'
    BY <1>1, <1>2, <1>3, <1>5, <1>7, <1>8, <1>12, SupervisorAssumption DEF ServeSafe, Active,
       Threads, TableBecomes
<1> QED
    BY <1>17, <1>18, <1>19, <1>20, <1>21, <1>22, <1>23 DEF Control

\* A process is launched.
LEMMA LaunchProcessKeeps ==
  ASSUME Control, NEW t \in Threads, mu = t, LaunchProcess(t)
  PROVE  Control'
<1>1. /\ ControlTypes /\ CallsSafe /\ StartsSafe /\ AttemptSafe
      /\ TableSafe /\ LinksSafe /\ ServeSafe
    BY DEF Control
<1>2. /\ TableTypeOK /\ calls \in [Threads -> CallSet] /\ aliases \in [Links -> Owners]
      /\ table \in [Ids -> Processes \cup {None}] /\ mu \in Threads \cup {None}
      /\ \A i \in Ids : table[i] # None => table[i].uid \in Uids
      /\ mu # None => attempt.uid \in Uids /\ IdOf[attempt.uid] \in Ids
    BY <1>1, TypesAre
<1>3. UNCHANGED <<owner, removed, load, serve, restarts, runs, signal, aliases>>
    BY DEF LaunchProcess, tableVars, procVars, callVars, PruneSet, Launch, RecordFailure, Finish,
       Prepared, Restart, EndStart
<1>4. /\ calls[t].op = "start" /\ calls[t].uid = attempt.uid /\ launches[attempt.uid] = 0
      /\ owner[IdOf[attempt.uid]] = attempt.uid /\ table[IdOf[attempt.uid]] = None
      /\ t # None /\ attempt \in AttemptSet /\ attempt.uid \in Uids /\ IdOf[attempt.uid] \in Ids
    BY <1>1, <1>2, <1>3, SupervisorAssumption, IdsAssumption DEF AttemptSafe, ControlTypes,
       AttemptSet
<1>5. serve \in {"serving", "cancelled", "drained"} /\ (serve = "drained" => t \notin Handlers)
    BY <1>1, <1>2, <1>3, <1>4 DEF ServeSafe, ControlTypes
<1>6. \/ CallBecomes(t, "idle", None, "idle")
      \/ t = Service /\ CallBecomes(t, "run", calls[t].uid, "called")
    BY <1>1, <1>2, <1>3, <1>4, <1>5, CallAnswered DEF LaunchProcess, EndStart
<1>7. /\ calls' \in [Threads -> CallSet] /\ \A s \in Threads : s # t => calls'[s] = calls[s]
      /\ \/ calls'[t].op = "idle"
         \/ t = Service /\ calls'[t].op = "run" /\ calls'[t].uid = calls[t].uid
    BY <1>1, <1>2, <1>3, <1>4, <1>5, <1>6 DEF CallBecomes
<1>8. mu' = None
    BY <1>1, <1>2, <1>3, <1>4, <1>5, <1>6, <1>7 DEF LaunchProcess, EndStart
<1>9. \A u \in Uids : Alive(u) => IdOf[u] # IdOf[attempt.uid]
    BY <1>1, <1>2, <1>3, <1>4, <1>5, <1>6, <1>7, <1>8 DEF TableSafe
<1>10. TableBecomes(IdOf[attempt.uid], attempt.uid, "Running")
    BY <1>1, <1>2, <1>3, <1>4, <1>5, <1>6, <1>7, <1>8, <1>9, TableEntered DEF LaunchProcess,
       Launch, Phases
<1>11. record' \in [Ids -> Records \cup {None}]
    BY <1>1, <1>2, <1>3, <1>4, <1>5, <1>6, <1>7, <1>8, <1>9, <1>10, RecordWritten DEF
       LaunchProcess, Launch, TableTypeOK, Phases
<1>12. /\ launches' \in [Uids -> {0, 1}] /\ launches'[attempt.uid] = 1
      /\ \A u \in Uids : u # attempt.uid => launches'[u] = launches[u]
    BY <1>1, <1>2, <1>3, <1>4, <1>5, <1>6, <1>7, <1>8, <1>9, <1>10, <1>11 DEF LaunchProcess,
       Launch, ControlTypes
<1>13. /\ native'[attempt.uid] = "alive" /\ \A u \in Uids : u # attempt.uid => native'[u] = native[u]
      /\ native' \in [Uids -> {"none", "alive", "dead", "cleaned", "over"}]
    BY <1>1, <1>2, <1>3, <1>4, <1>5, <1>6, <1>7, <1>8, <1>9, <1>10, <1>11, <1>12 DEF
       LaunchProcess, StartNative, ControlTypes
<1>14. /\ held' \in [Uids -> SUBSET Links] /\ held'[attempt.uid] = attempt.links
      /\ \A u \in Uids : u # attempt.uid => held'[u] = held[u]
    BY <1>1, <1>2, <1>3, <1>4, <1>5, <1>6, <1>7, <1>8, <1>9, <1>10, <1>11, <1>12, <1>13 DEF
       LaunchProcess, ControlTypes, AttemptSet
<1>15. \A u \in Uids : launches'[u] = 1 => launches[u] = 1 \/ u = attempt.uid
    BY <1>12
<1>16. ControlTypes'
    BY <1>1, <1>2, <1>3, <1>4, <1>5, <1>6, <1>7, <1>8, <1>9, <1>10, <1>11, <1>12, <1>13, <1>14,
       <1>15 DEF ControlTypes, TableTypeOK, TableBecomes
<1>17. CallsSafe'
    BY <1>1, <1>3, <1>4, <1>7, SupervisorAssumption DEF CallsSafe, Threads
<1>18. StartsSafe'
    BY <1>1, <1>3, <1>4, <1>15 DEF StartsSafe
<1>19. AttemptSafe'
    BY <1>1, <1>2, <1>3, <1>4, <1>5, <1>6, <1>7, <1>8, <1>9, <1>10, <1>11, <1>12, <1>13, <1>14,
       <1>15 DEF AttemptSafe
<1>20. TableSafe'
    BY <1>1, <1>2, <1>4, <1>9, <1>10, <1>12, <1>13, IdsAssumption DEF TableSafe, Alive, Active,
       TableBecomes
<1>21. LinksSafe'
    BY <1>1, <1>2, <1>3, <1>4, <1>5, <1>6, <1>7, <1>8, <1>9, <1>10, <1>11, <1>12, <1>13, <1>14,
       <1>15, IdsAssumption DEF LinksSafe, Linked, ControlTypes, Alive
<1>22. ServeSafe'
    BY <1>1, <1>2, <1>3, <1>5, <1>7, <1>8, <1>10, SupervisorAssumption DEF ServeSafe, Active,
       Threads, TableBecomes
<1> QED
    BY <1>16, <1>17, <1>18, <1>19, <1>20, <1>21, <1>22 DEF Control

\* A native process ends.
LEMMA ProcessEndsKeeps ==
  ASSUME Control, NEW u \in Uids, ProcessEnds(u)
  PROVE  Control'
<1>1. /\ ControlTypes /\ CallsSafe /\ StartsSafe /\ AttemptSafe
      /\ TableSafe /\ LinksSafe /\ ServeSafe
    BY DEF Control
<1>2. /\ TableTypeOK /\ calls \in [Threads -> CallSet] /\ aliases \in [Links -> Owners]
      /\ table \in [Ids -> Processes \cup {None}] /\ mu \in Threads \cup {None}
      /\ \A i \in Ids : table[i] # None => table[i].uid \in Uids
      /\ mu # None => attempt.uid \in Uids /\ IdOf[attempt.uid] \in Ids
    BY <1>1, TypesAre
<1>3. UNCHANGED <<table, owner, record, launches, removed, load, serve, restarts, mu, attempt, calls, runs,
                  signal, held, aliases>>
    BY DEF ProcessEnds, tableVars, procVars, callVars, PruneSet, Launch, RecordFailure, Finish,
       Prepared, Restart
<1>4. /\ native[u] = "alive" /\ native'[u] = "dead" /\ \A v \in Uids : v # u => native'[v] = native[v]
      /\ native' \in [Uids -> {"none", "alive", "dead", "cleaned", "over"}]
    BY <1>1, <1>2, <1>3 DEF ProcessEnds, ControlTypes
<1>5. ControlTypes'
    BY <1>1, <1>2, <1>3, <1>4 DEF ControlTypes, TableTypeOK
<1>6. CallsSafe'
    BY <1>1, <1>2, <1>3, <1>4 DEF CallsSafe
<1>7. StartsSafe'
    BY <1>1, <1>2, <1>3, <1>4 DEF StartsSafe
<1>8. AttemptSafe'
    BY <1>1, <1>2, <1>3, <1>4 DEF AttemptSafe
<1>9. TableSafe'
    BY <1>1, <1>2, <1>3, <1>4 DEF TableSafe, Alive, Active, ControlTypes, Processes
<1>10. LinksSafe'
    BY <1>1, <1>2, <1>3, <1>4 DEF LinksSafe, Linked
<1>11. ServeSafe'
    BY <1>1, <1>2, <1>3, <1>4 DEF ServeSafe, Active
<1> QED
    BY <1>5, <1>6, <1>7, <1>8, <1>9, <1>10, <1>11 DEF Control

\* The links of an ended process are released.
LEMMA CleanUpKeeps ==
  ASSUME Control, NEW u \in Uids, CleanUp(u)
  PROVE  Control'
<1>1. /\ ControlTypes /\ CallsSafe /\ StartsSafe /\ AttemptSafe
      /\ TableSafe /\ LinksSafe /\ ServeSafe
    BY DEF Control
<1>2. /\ TableTypeOK /\ calls \in [Threads -> CallSet] /\ aliases \in [Links -> Owners]
      /\ table \in [Ids -> Processes \cup {None}] /\ mu \in Threads \cup {None}
      /\ \A i \in Ids : table[i] # None => table[i].uid \in Uids
      /\ mu # None => attempt.uid \in Uids /\ IdOf[attempt.uid] \in Ids
    BY <1>1, TypesAre
<1>3. UNCHANGED <<table, owner, record, launches, removed, load, serve, restarts, mu, attempt, calls, runs,
                  signal>>
    BY DEF CleanUp, tableVars, procVars, callVars, PruneSet, Launch, RecordFailure, Finish,
       Prepared, Restart
<1>4. /\ native[u] = "dead" /\ native'[u] = "cleaned" /\ \A v \in Uids : v # u => native'[v] = native[v]
      /\ native' \in [Uids -> {"none", "alive", "dead", "cleaned", "over"}] /\ mu = None
    BY <1>1, <1>2, <1>3 DEF CleanUp, NativeWaited, ControlTypes
<1>5. /\ held' \in [Uids -> SUBSET Links] /\ \A v \in Uids : v # u => held'[v] = held[v]
    BY <1>1, <1>2, <1>3, <1>4 DEF CleanUp, ControlTypes
<1>6. IdOf[u] \in Ids
    BY <1>1, <1>2, <1>3, <1>4, <1>5, IdsAssumption
<1>7. /\ aliases' \in [Links -> Owners]
      /\ \A l \in Links, j \in Ids : j # IdOf[u] /\ Linked(l, j) => Linked(l, j)'
    BY <1>1, <1>2, <1>3, <1>4, <1>5, <1>6, LinksReleased DEF CleanUp
<1>8. \A v \in Uids : v # u /\ Alive(v) => IdOf[v] # IdOf[u]
    BY <1>1, <1>2, <1>3, <1>4, <1>5, <1>6, <1>7 DEF TableSafe, Alive
<1>9. ControlTypes'
    BY <1>1, <1>2, <1>3, <1>4, <1>5, <1>6, <1>7, <1>8 DEF ControlTypes, TableTypeOK
<1>10. CallsSafe'
    BY <1>1, <1>2, <1>3, <1>4, <1>5, <1>6, <1>7, <1>8 DEF CallsSafe
<1>11. StartsSafe'
    BY <1>1, <1>2, <1>3, <1>4, <1>5, <1>6, <1>7, <1>8 DEF StartsSafe
<1>12. AttemptSafe'
    BY <1>1, <1>2, <1>3, <1>4, <1>5, <1>6, <1>7, <1>8 DEF AttemptSafe
<1>13. TableSafe'
    BY <1>1, <1>2, <1>3, <1>4, <1>5, <1>6, <1>7, <1>8 DEF TableSafe, Alive, Active, ControlTypes,
       Processes
<1>14. LinksSafe'
    BY <1>1, <1>2, <1>3, <1>4, <1>5, <1>6, <1>7, <1>8, IdsAssumption DEF LinksSafe, Linked,
       ControlTypes, Alive
<1>15. ServeSafe'
    BY <1>1, <1>2, <1>3, <1>4, <1>5, <1>6, <1>7, <1>8 DEF ServeSafe, Active
<1> QED
    BY <1>9, <1>10, <1>11, <1>12, <1>13, <1>14, <1>15 DEF Control

\* The end of a process enters the table.
LEMMA CloseExitKeeps ==
  ASSUME Control, NEW u \in Uids, CloseExit(u)
  PROVE  Control'
<1>1. /\ ControlTypes /\ CallsSafe /\ StartsSafe /\ AttemptSafe
      /\ TableSafe /\ LinksSafe /\ ServeSafe
    BY DEF Control
<1>2. /\ TableTypeOK /\ calls \in [Threads -> CallSet] /\ aliases \in [Links -> Owners]
      /\ table \in [Ids -> Processes \cup {None}] /\ mu \in Threads \cup {None}
      /\ \A i \in Ids : table[i] # None => table[i].uid \in Uids
      /\ mu # None => attempt.uid \in Uids /\ IdOf[attempt.uid] \in Ids
    BY <1>1, TypesAre
<1>3. UNCHANGED <<owner, launches, removed, load, serve, restarts, mu, attempt, calls, runs, signal, held,
                  aliases>>
    BY DEF CloseExit, tableVars, procVars, callVars, PruneSet, Launch, RecordFailure, Finish,
       Prepared, Restart
<1>4. /\ native[u] = "cleaned" /\ native'[u] = "over" /\ \A v \in Uids : v # u => native'[v] = native[v]
      /\ native' \in [Uids -> {"none", "alive", "dead", "cleaned", "over"}]
    BY <1>1, <1>2, <1>3 DEF CloseExit, ControlTypes
<1>5. IdOf[u] \in Ids /\ table[IdOf[u]] # None /\ table[IdOf[u]].uid = u
    BY <1>1, <1>2, <1>3, <1>4, IdsAssumption DEF TableSafe, Alive
<1>6. /\ \E phase \in Ended : TableBecomes(IdOf[u], u, phase)
      /\ record' \in [Ids -> Records \cup {None}]
    BY <1>1, <1>2, <1>3, <1>4, <1>5, ProcessFinished DEF CloseExit
<1>7. /\ table' \in [Ids -> Processes \cup {None}]
      /\ table'[IdOf[u]] # None /\ table'[IdOf[u]].uid = u /\ table'[IdOf[u]].phase # "Running"
      /\ \A j \in Ids : j # IdOf[u] => table'[j] = table[j]
    BY <1>1, <1>2, <1>3, <1>4, <1>5, <1>6 DEF TableBecomes, Ended
<1>8. \A v \in Uids : v # u /\ Alive(v) => IdOf[v] # IdOf[u]
    BY <1>1, <1>4 DEF TableSafe, Alive
<1>9. ControlTypes'
    BY <1>1, <1>2, <1>3, <1>4, <1>5, <1>6, <1>7, <1>8 DEF ControlTypes, TableTypeOK
<1>10. CallsSafe'
    BY <1>1, <1>2, <1>3, <1>4, <1>5, <1>6, <1>7, <1>8 DEF CallsSafe
<1>11. StartsSafe'
    BY <1>1, <1>2, <1>3, <1>4, <1>5, <1>6, <1>7, <1>8 DEF StartsSafe
<1>12. AttemptSafe'
    BY <1>1, <1>2, <1>3, <1>4, <1>5, <1>6, <1>7, <1>8 DEF AttemptSafe
<1>13. TableSafe'
    BY <1>1, <1>2, <1>4, <1>5, <1>7, <1>8, <1>3, IdsAssumption DEF TableSafe, Alive, Active
<1>14. LinksSafe'
    BY <1>1, <1>2, <1>3, <1>4, <1>5, <1>6, <1>7, <1>8 DEF LinksSafe, Linked
<1>15. ServeSafe'
    BY <1>1, <1>2, <1>3, <1>4, <1>5, <1>6, <1>7, <1>8 DEF ServeSafe, Active
<1> QED
    BY <1>9, <1>10, <1>11, <1>12, <1>13, <1>14, <1>15 DEF Control

\* A call returns; the service prunes its ended runs.
LEMMA ReturnedKeeps ==
  ASSUME Control, NEW t \in Threads, mu = None, calls[t].op \in {"stop", "run"},
         t \in Ids => ~Active(t) \/ serve \notin {"stopping", "done"},
         UNCHANGED <<procVars, load, serve, restarts, mu, attempt, runs>>, Returned(t)
  PROVE  Control'
<1>1. /\ ControlTypes /\ CallsSafe /\ StartsSafe /\ AttemptSafe
      /\ TableSafe /\ LinksSafe /\ ServeSafe
    BY DEF Control
<1>2. /\ TableTypeOK /\ calls \in [Threads -> CallSet] /\ aliases \in [Links -> Owners]
      /\ table \in [Ids -> Processes \cup {None}] /\ mu \in Threads \cup {None}
      /\ \A i \in Ids : table[i] # None => table[i].uid \in Uids
      /\ mu # None => attempt.uid \in Uids /\ IdOf[attempt.uid] \in Ids
    BY <1>1, TypesAre
<1>3. UNCHANGED <<load, serve, restarts, mu, attempt, runs, native, signal, held, aliases>>
    BY DEF Returned, tableVars, procVars, callVars, PruneSet, Launch, RecordFailure, Finish,
       Prepared, Restart
<1>4. CallBecomes(t, "idle", None, "idle")
    BY <1>1, <1>2, <1>3, CallReturns DEF Returned
<1>5. PICK S : PruneSet(S) /\ \A i \in S : ~Active(i)
    BY <1>1, <1>2, <1>3, <1>4, ReturnPrunes DEF Returned
<1>6. /\ TableTypeOK' /\ launches' = launches
      /\ \A i \in Ids : table'[i] = table[i] \/ (table'[i] = None /\ ~Active(i))
    BY <1>1, <1>2, <1>3, <1>4, <1>5, Pruned, IdsAssumption
<1>7. \A u \in Uids : IdOf[u] \in Ids
    BY <1>1, <1>2, <1>3, <1>4, <1>5, <1>6, IdsAssumption
<1>8. ControlTypes'
    BY <1>1, <1>2, <1>3, <1>4, <1>6 DEF CallBecomes, ControlTypes, TableTypeOK
<1>9. CallsSafe'
    BY <1>1, <1>3, <1>4 DEF CallBecomes, CallsSafe, Threads
<1>10. StartsSafe'
    BY <1>1, <1>2, <1>5, <1>6, Pruned DEF StartsSafe
<1>11. AttemptSafe'
    BY <1>1, <1>2, <1>3, <1>4, <1>5, <1>6, <1>7 DEF CallBecomes, AttemptSafe
<1>12. TableSafe'
    BY <1>1, <1>2, <1>3, <1>6, <1>7 DEF CallBecomes, TableSafe, Alive, Active
<1>13. LinksSafe'
    BY <1>1, <1>2, <1>3, <1>4, <1>5, <1>6, <1>7 DEF CallBecomes, LinksSafe, Linked
<1>14. ServeSafe'
    BY <1>1, <1>2, <1>3, <1>4, <1>6, SupervisorAssumption DEF CallBecomes, ServeSafe, Active,
       Threads
<1> QED
    BY <1>8, <1>9, <1>10, <1>11, <1>12, <1>13, <1>14 DEF Control

\* A stop marks a running process.
LEMMA BeginStopKeeps ==
  ASSUME Control, NEW t \in Threads, BeginStop(t)
  PROVE  Control'
<1>1. /\ ControlTypes /\ CallsSafe /\ StartsSafe /\ AttemptSafe
      /\ TableSafe /\ LinksSafe /\ ServeSafe
    BY DEF Control
<1>2. /\ TableTypeOK /\ calls \in [Threads -> CallSet] /\ aliases \in [Links -> Owners]
      /\ table \in [Ids -> Processes \cup {None}] /\ mu \in Threads \cup {None}
      /\ \A i \in Ids : table[i] # None => table[i].uid \in Uids
      /\ mu # None => attempt.uid \in Uids /\ IdOf[attempt.uid] \in Ids
    BY <1>1, TypesAre
<1>3. UNCHANGED <<owner, record, launches, removed, load, serve, restarts, mu, attempt, runs, native, held,
                  aliases>>
    BY DEF BeginStop, tableVars, procVars, callVars, PruneSet, Launch, RecordFailure, Finish,
       Prepared, Restart
<1>4. calls[t].op = "stop" /\ calls[t].uid \in Uids /\ mu = None /\ IdOf[calls[t].uid] \in Ids
    BY <1>1, <1>2, <1>3, IdsAssumption DEF BeginStop, InCall, CallsSafe
<1>5. Active(IdOf[calls[t].uid]) /\ table[IdOf[calls[t].uid]].uid \in Uids
    BY <1>1, <1>2, <1>3, <1>4 DEF BeginStop, Active
<1>6. CallBecomes(t, "stop", table[IdOf[calls[t].uid]].uid, "grace")
    BY <1>1, <1>2, <1>3, <1>4, <1>5, BeginStopCall
<1>7. TableBecomes(IdOf[calls[t].uid], table[IdOf[calls[t].uid]].uid, table[IdOf[calls[t].uid]].phase)
    BY <1>1, <1>2, <1>3, <1>4, <1>5, <1>6, StopMarked DEF BeginStop
<1>8. signal' \in [Uids -> {"none", "term", "kill"}]
    BY <1>1, <1>2, <1>3, <1>4, <1>5, <1>6, <1>7, BeginStopSignal DEF ControlTypes
<1>9. ControlTypes'
    BY <1>1, <1>2, <1>3, <1>4, <1>5, <1>6, <1>7, <1>8 DEF CallBecomes, TableBecomes, ControlTypes,
       TableTypeOK
<1>10. CallsSafe'
    BY <1>1, <1>3, <1>4, <1>5, <1>6, SupervisorAssumption DEF CallBecomes, TableBecomes,
       CallsSafe, Threads
<1>11. StartsSafe'
    BY <1>1, <1>2, <1>3, <1>4, <1>5, <1>6, <1>7, <1>8 DEF CallBecomes, TableBecomes, StartsSafe
<1>12. AttemptSafe'
    BY <1>1, <1>2, <1>3, <1>4, <1>5, <1>6, <1>7, <1>8 DEF CallBecomes, TableBecomes, AttemptSafe
<1>13. TableSafe'
    BY <1>1, <1>2, <1>3, <1>4, <1>5, <1>7, IdsAssumption DEF CallBecomes, TableBecomes, TableSafe,
       Alive, Active
<1>14. LinksSafe'
    BY <1>1, <1>2, <1>3, <1>4, <1>5, <1>6, <1>7, <1>8 DEF CallBecomes, TableBecomes, LinksSafe,
       Linked
<1>15. ServeSafe'
    BY <1>1, <1>2, <1>3, <1>4, <1>5, <1>6, <1>7, SupervisorAssumption DEF CallBecomes,
       TableBecomes, ServeSafe, Active, Threads, CallsSafe, TableSafe
<1> QED
    BY <1>9, <1>10, <1>11, <1>12, <1>13, <1>14, <1>15 DEF Control

\* A grace period ends.
LEMMA GraceExpiresKeeps ==
  ASSUME Control, NEW t \in Threads, GraceExpires(t)
  PROVE  Control'
<1>1. /\ ControlTypes /\ CallsSafe /\ StartsSafe /\ AttemptSafe
      /\ TableSafe /\ LinksSafe /\ ServeSafe
    BY DEF Control
<1>2. /\ TableTypeOK /\ calls \in [Threads -> CallSet] /\ aliases \in [Links -> Owners]
      /\ table \in [Ids -> Processes \cup {None}] /\ mu \in Threads \cup {None}
      /\ \A i \in Ids : table[i] # None => table[i].uid \in Uids
      /\ mu # None => attempt.uid \in Uids /\ IdOf[attempt.uid] \in Ids
    BY <1>1, TypesAre
<1>3. UNCHANGED <<table, owner, record, launches, removed, load, serve, restarts, mu, attempt, runs,
                  native, held, aliases>>
    BY DEF GraceExpires, tableVars, procVars, callVars, PruneSet, Launch, RecordFailure, Finish,
       Prepared, Restart
<1>4. calls[t].op = "stop" /\ calls[t].uid \in Uids
    BY <1>1, <1>2, <1>3 DEF GraceExpires, InCall, CallsSafe
<1>5. CallBecomes(t, "stop", calls[t].uid, "killed")
    BY <1>1, <1>2, <1>3, <1>4, CallGoesOn DEF GraceExpires
<1>6. signal' \in [Uids -> {"none", "term", "kill"}]
    BY <1>1, <1>2, <1>3, <1>4, <1>5 DEF GraceExpires, ControlTypes
<1>7. ControlTypes'
    BY <1>1, <1>2, <1>3, <1>4, <1>5, <1>6 DEF CallBecomes, ControlTypes, TableTypeOK
<1>8. CallsSafe'
    BY <1>1, <1>2, <1>3, <1>4, <1>5, <1>6, SupervisorAssumption DEF CallBecomes, CallsSafe, Threads
<1>9. StartsSafe'
    BY <1>1, <1>2, <1>3, <1>4, <1>5, <1>6 DEF CallBecomes, StartsSafe
<1>10. AttemptSafe'
    BY <1>1, <1>2, <1>3, <1>4, <1>5, <1>6 DEF CallBecomes, AttemptSafe
<1>11. TableSafe'
    BY <1>1, <1>2, <1>3, <1>4, <1>5, <1>6 DEF CallBecomes, TableSafe, Alive, Active
<1>12. LinksSafe'
    BY <1>1, <1>2, <1>3, <1>4, <1>5, <1>6 DEF CallBecomes, LinksSafe, Linked
<1>13. ServeSafe'
    BY <1>1, <1>2, <1>3, <1>4, <1>5, <1>6, SupervisorAssumption DEF CallBecomes, ServeSafe,
       Active, Threads
<1> QED
    BY <1>7, <1>8, <1>9, <1>10, <1>11, <1>12, <1>13 DEF Control

\* The service stops its run.
LEMMA StopRunKeeps ==
  ASSUME Control, StopRun
  PROVE  Control'
<1>1. /\ ControlTypes /\ CallsSafe /\ StartsSafe /\ AttemptSafe
      /\ TableSafe /\ LinksSafe /\ ServeSafe
    BY DEF Control
<1>2. /\ TableTypeOK /\ calls \in [Threads -> CallSet] /\ aliases \in [Links -> Owners]
      /\ table \in [Ids -> Processes \cup {None}] /\ mu \in Threads \cup {None}
      /\ \A i \in Ids : table[i] # None => table[i].uid \in Uids
      /\ mu # None => attempt.uid \in Uids /\ IdOf[attempt.uid] \in Ids
    BY <1>1, TypesAre
<1>3. UNCHANGED <<table, owner, record, launches, removed, load, serve, restarts, mu, attempt, runs,
                  native, signal, held, aliases>>
    BY DEF StopRun, tableVars, procVars, callVars, PruneSet, Launch, RecordFailure, Finish,
       Prepared, Restart
<1>4. Service \in Threads /\ calls[Service].op = "run" /\ calls[Service].uid \in Uids
    BY <1>1, <1>2, <1>3 DEF StopRun, InCall, CallsSafe, Threads
<1>5. CallBecomes(Service, "stop", calls[Service].uid, calls[Service].pc)
    BY <1>1, <1>2, <1>3, <1>4, StopRunCall
<1>6. ControlTypes'
    BY <1>1, <1>2, <1>3, <1>4, <1>5 DEF CallBecomes, ControlTypes, TableTypeOK
<1>7. CallsSafe'
    BY <1>1, <1>2, <1>3, <1>4, <1>5, SupervisorAssumption DEF CallBecomes, CallsSafe, Threads
<1>8. StartsSafe'
    BY <1>1, <1>2, <1>3, <1>4, <1>5 DEF CallBecomes, StartsSafe
<1>9. AttemptSafe'
    BY <1>1, <1>2, <1>3, <1>4, <1>5 DEF CallBecomes, AttemptSafe
<1>10. TableSafe'
    BY <1>1, <1>2, <1>3, <1>4, <1>5 DEF CallBecomes, TableSafe, Alive, Active
<1>11. LinksSafe'
    BY <1>1, <1>2, <1>3, <1>4, <1>5 DEF CallBecomes, LinksSafe, Linked
<1>12. ServeSafe'
    BY <1>1, <1>3, <1>4, <1>5, ThreadsApart DEF CallBecomes, ServeSafe, Active
<1> QED
    BY <1>6, <1>7, <1>8, <1>9, <1>10, <1>11, <1>12 DEF Control

\* The history is pruned.
LEMMA PruneHistoryKeeps ==
  ASSUME Control, PruneHistory
  PROVE  Control'
<1>1. /\ ControlTypes /\ CallsSafe /\ StartsSafe /\ AttemptSafe
      /\ TableSafe /\ LinksSafe /\ ServeSafe
    BY DEF Control
<1>2. /\ TableTypeOK /\ calls \in [Threads -> CallSet] /\ aliases \in [Links -> Owners]
      /\ table \in [Ids -> Processes \cup {None}] /\ mu \in Threads \cup {None}
      /\ \A i \in Ids : table[i] # None => table[i].uid \in Uids
      /\ mu # None => attempt.uid \in Uids /\ IdOf[attempt.uid] \in Ids
    BY <1>1, TypesAre
<1>3. UNCHANGED <<load, serve, restarts, mu, attempt, calls, runs, native, signal, held, aliases>>
    BY DEF PruneHistory, tableVars, procVars, callVars, PruneSet, Launch, RecordFailure, Finish,
       Prepared, Restart
<1>4. mu = None
    BY <1>1, <1>2, <1>3 DEF PruneHistory
<1>5. PICK S : PruneSet(S) /\ \A i \in S : ~Active(i)
    BY <1>1, <1>2, <1>3, <1>4 DEF PruneHistory, Prunable
<1>6. /\ TableTypeOK' /\ launches' = launches
      /\ \A i \in Ids : table'[i] = table[i] \/ (table'[i] = None /\ ~Active(i))
    BY <1>1, <1>2, <1>3, <1>4, <1>5, Pruned, IdsAssumption
<1>7. \A u \in Uids : IdOf[u] \in Ids
    BY <1>1, <1>2, <1>3, <1>4, <1>5, <1>6, IdsAssumption
<1>8. ControlTypes'
    BY <1>1, <1>2, <1>3, <1>4, <1>6 DEF ControlTypes, TableTypeOK
<1>9. CallsSafe'
    BY <1>1, <1>2, <1>3, <1>4, <1>5, <1>6, <1>7 DEF CallsSafe
<1>10. StartsSafe'
    BY <1>1, <1>2, <1>5, <1>6, Pruned DEF StartsSafe
<1>11. AttemptSafe'
    BY <1>1, <1>2, <1>3, <1>4, <1>5, <1>6, <1>7 DEF AttemptSafe
<1>12. TableSafe'
    BY <1>1, <1>2, <1>3, <1>6, <1>7 DEF TableSafe, Alive, Active
<1>13. LinksSafe'
    BY <1>1, <1>2, <1>3, <1>4, <1>5, <1>6, <1>7 DEF LinksSafe, Linked
<1>14. ServeSafe'
    BY <1>1, <1>2, <1>3, <1>4, <1>5, <1>6, <1>7 DEF ServeSafe, Active
<1> QED
    BY <1>8, <1>9, <1>10, <1>11, <1>12, <1>13, <1>14 DEF Control

\* The context of Serve ends.
LEMMA CancelKeeps ==
  ASSUME Control, Cancel
  PROVE  Control'
<1>1. /\ ControlTypes /\ CallsSafe /\ StartsSafe /\ AttemptSafe
      /\ TableSafe /\ LinksSafe /\ ServeSafe
    BY DEF Control
<1>2. /\ TableTypeOK /\ calls \in [Threads -> CallSet] /\ aliases \in [Links -> Owners]
      /\ table \in [Ids -> Processes \cup {None}] /\ mu \in Threads \cup {None}
      /\ \A i \in Ids : table[i] # None => table[i].uid \in Uids
      /\ mu # None => attempt.uid \in Uids /\ IdOf[attempt.uid] \in Ids
    BY <1>1, TypesAre
<1>3. UNCHANGED <<table, owner, record, launches, removed, load, restarts, mu, attempt, calls, runs,
                  native, signal, held, aliases>>
    BY DEF Cancel, tableVars, procVars, callVars, PruneSet, Launch, RecordFailure, Finish,
       Prepared, Restart
<1>4. serve = "serving" /\ serve' = "cancelled"
    BY <1>1, <1>2, <1>3 DEF Cancel
<1>5. ControlTypes'
    BY <1>1, <1>2, <1>3, <1>4 DEF ControlTypes, TableTypeOK
<1>6. CallsSafe'
    BY <1>1, <1>2, <1>3, <1>4 DEF CallsSafe
<1>7. StartsSafe'
    BY <1>1, <1>2, <1>3, <1>4 DEF StartsSafe
<1>8. AttemptSafe'
    BY <1>1, <1>2, <1>3, <1>4 DEF AttemptSafe
<1>9. TableSafe'
    BY <1>1, <1>2, <1>3, <1>4 DEF TableSafe, Alive, Active
<1>10. LinksSafe'
    BY <1>1, <1>2, <1>3, <1>4 DEF LinksSafe, Linked
<1>11. ServeSafe'
    BY <1>1, <1>2, <1>3, <1>4 DEF ServeSafe, Active
<1> QED
    BY <1>5, <1>6, <1>7, <1>8, <1>9, <1>10, <1>11 DEF Control

\* The handlers are gone.
LEMMA WaitForHandlersKeeps ==
  ASSUME Control, WaitForHandlers
  PROVE  Control'
<1>1. /\ ControlTypes /\ CallsSafe /\ StartsSafe /\ AttemptSafe
      /\ TableSafe /\ LinksSafe /\ ServeSafe
    BY DEF Control
<1>2. /\ TableTypeOK /\ calls \in [Threads -> CallSet] /\ aliases \in [Links -> Owners]
      /\ table \in [Ids -> Processes \cup {None}] /\ mu \in Threads \cup {None}
      /\ \A i \in Ids : table[i] # None => table[i].uid \in Uids
      /\ mu # None => attempt.uid \in Uids /\ IdOf[attempt.uid] \in Ids
    BY <1>1, TypesAre
<1>3. UNCHANGED <<table, owner, record, launches, removed, load, restarts, mu, attempt, calls, runs,
                  native, signal, held, aliases>>
    BY DEF WaitForHandlers, tableVars, procVars, callVars, PruneSet, Launch, RecordFailure,
       Finish, Prepared, Restart
<1>4. serve = "cancelled" /\ serve' = "drained" /\ \A h \in Handlers : calls[h].op = "idle"
    BY <1>1, <1>2, <1>3, IdleIs DEF WaitForHandlers, HandlersGone
<1>5. ControlTypes'
    BY <1>1, <1>2, <1>3, <1>4 DEF ControlTypes, TableTypeOK
<1>6. CallsSafe'
    BY <1>1, <1>2, <1>3, <1>4 DEF CallsSafe
<1>7. StartsSafe'
    BY <1>1, <1>2, <1>3, <1>4 DEF StartsSafe
<1>8. AttemptSafe'
    BY <1>1, <1>2, <1>3, <1>4 DEF AttemptSafe
<1>9. TableSafe'
    BY <1>1, <1>2, <1>3, <1>4 DEF TableSafe, Alive, Active
<1>10. LinksSafe'
    BY <1>1, <1>2, <1>3, <1>4 DEF LinksSafe, Linked
<1>11. ServeSafe'
    BY <1>1, <1>2, <1>3, <1>4 DEF ServeSafe, Active
<1> QED
    BY <1>5, <1>6, <1>7, <1>8, <1>9, <1>10, <1>11 DEF Control

\* Shutdown starts a stop for every process of the table.
LEMMA BeginShutdownKeeps ==
  ASSUME Control, BeginShutdown
  PROVE  Control'
<1>1. /\ ControlTypes /\ CallsSafe /\ StartsSafe /\ AttemptSafe
      /\ TableSafe /\ LinksSafe /\ ServeSafe
    BY DEF Control
<1>2. /\ TableTypeOK /\ calls \in [Threads -> CallSet] /\ aliases \in [Links -> Owners]
      /\ table \in [Ids -> Processes \cup {None}] /\ mu \in Threads \cup {None}
      /\ \A i \in Ids : table[i] # None => table[i].uid \in Uids
      /\ mu # None => attempt.uid \in Uids /\ IdOf[attempt.uid] \in Ids
    BY <1>1, TypesAre
<1>3. UNCHANGED <<table, owner, record, launches, removed, load, restarts, mu, attempt, runs, native,
                  signal, held, aliases>>
    BY DEF BeginShutdown, tableVars, procVars, callVars, PruneSet, Launch, RecordFailure, Finish,
       Prepared, Restart
<1>4. serve = "drained" /\ serve' = "stopping" /\ calls[Service].op = "idle" /\ mu = None
    BY <1>1, <1>2, <1>3, IdleIs DEF BeginShutdown
<1>5. /\ calls' \in [Threads -> CallSet]
      /\ \A i \in Ids : table[i] # None => calls'[i].op = "stop" /\ calls'[i].uid = table[i].uid
      /\ \A t \in Threads : calls'[t] = calls[t] \/ (t \in Ids /\ calls'[t].op = "stop" /\ calls'[t].uid \in Uids)
    BY <1>1, <1>2, <1>3, <1>4, ShutdownCalls
<1>6. ControlTypes'
    BY <1>1, <1>2, <1>3, <1>4, <1>5 DEF ControlTypes, TableTypeOK
<1>7. CallsSafe'
    BY <1>1, <1>2, <1>3, <1>4, <1>5, SupervisorAssumption DEF CallsSafe, Threads
<1>8. StartsSafe'
    BY <1>1, <1>2, <1>3, <1>4, <1>5 DEF StartsSafe
<1>9. AttemptSafe'
    BY <1>1, <1>2, <1>3, <1>4, <1>5 DEF AttemptSafe
<1>10. TableSafe'
    BY <1>1, <1>2, <1>3, <1>4, <1>5 DEF TableSafe, Alive, Active
<1>11. LinksSafe'
    BY <1>1, <1>2, <1>3, <1>4, <1>5 DEF LinksSafe, Linked
<1>12. ServeSafe'
    BY <1>1, <1>2, <1>3, <1>4, <1>5, SupervisorAssumption DEF ServeSafe, Active, Threads
<1> QED
    BY <1>6, <1>7, <1>8, <1>9, <1>10, <1>11, <1>12 DEF Control

\* Every stop of Shutdown has returned.
LEMMA EndShutdownKeeps ==
  ASSUME Control, EndShutdown
  PROVE  Control'
<1>1. /\ ControlTypes /\ CallsSafe /\ StartsSafe /\ AttemptSafe
      /\ TableSafe /\ LinksSafe /\ ServeSafe
    BY DEF Control
<1>2. /\ TableTypeOK /\ calls \in [Threads -> CallSet] /\ aliases \in [Links -> Owners]
      /\ table \in [Ids -> Processes \cup {None}] /\ mu \in Threads \cup {None}
      /\ \A i \in Ids : table[i] # None => table[i].uid \in Uids
      /\ mu # None => attempt.uid \in Uids /\ IdOf[attempt.uid] \in Ids
    BY <1>1, TypesAre
<1>3. UNCHANGED <<table, owner, record, launches, removed, load, restarts, mu, attempt, calls, runs,
                  native, signal, held, aliases>>
    BY DEF EndShutdown, tableVars, procVars, callVars, PruneSet, Launch, RecordFailure, Finish,
       Prepared, Restart
<1>4. serve = "stopping" /\ serve' = "done" /\ \A i \in Ids : calls[i].op = "idle"
    BY <1>1, <1>2, <1>3, IdleIs DEF EndShutdown, StopsReturned
<1>5. ControlTypes'
    BY <1>1, <1>2, <1>3, <1>4 DEF ControlTypes, TableTypeOK
<1>6. CallsSafe'
    BY <1>1, <1>2, <1>3, <1>4 DEF CallsSafe
<1>7. StartsSafe'
    BY <1>1, <1>2, <1>3, <1>4 DEF StartsSafe
<1>8. AttemptSafe'
    BY <1>1, <1>2, <1>3, <1>4 DEF AttemptSafe
<1>9. TableSafe'
    BY <1>1, <1>2, <1>3, <1>4 DEF TableSafe, Alive, Active
<1>10. LinksSafe'
    BY <1>1, <1>2, <1>3, <1>4 DEF LinksSafe, Linked
<1>11. ServeSafe'
    BY <1>1, <1>2, <1>3, <1>4 DEF ServeSafe, Active
<1> QED
    BY <1>5, <1>6, <1>7, <1>8, <1>9, <1>10, <1>11 DEF Control

\* The container is restarted.
LEMMA RestartServeKeeps ==
  ASSUME Control, RestartServe
  PROVE  Control'
<1>1. /\ ControlTypes /\ CallsSafe /\ StartsSafe /\ AttemptSafe
      /\ TableSafe /\ LinksSafe /\ ServeSafe
    BY DEF Control
<1>2. /\ TableTypeOK /\ calls \in [Threads -> CallSet] /\ aliases \in [Links -> Owners]
      /\ table \in [Ids -> Processes \cup {None}] /\ mu \in Threads \cup {None}
      /\ \A i \in Ids : table[i] # None => table[i].uid \in Uids
      /\ mu # None => attempt.uid \in Uids /\ IdOf[attempt.uid] \in Ids
    BY <1>1, TypesAre
<1>3. UNCHANGED <<owner, launches, removed, load, runs>>
    BY DEF RestartServe, tableVars, procVars, callVars, PruneSet, Launch, RecordFailure, Finish,
       Prepared, Restart
<1>4. /\ serve' = "serving" /\ mu' = None /\ calls' \in [Threads -> CallSet]
      /\ \A t \in Threads : calls'[t].op = "idle"
    BY <1>1, <1>2, <1>3, IdleIs DEF RestartServe
<1>5. /\ \A i \in Ids : table'[i] = None
      /\ \A u \in Uids : native'[u] = "none"
    BY <1>1, <1>2, <1>3, <1>4 DEF RestartServe, Restart
<1>6. /\ native' \in [Uids -> {"none", "alive", "dead", "cleaned", "over"}]
      /\ signal' \in [Uids -> {"none", "term", "kill"}] /\ held' \in [Uids -> SUBSET Links]
      /\ aliases' \in [Links -> Owners]
    BY <1>1, <1>2, <1>3, <1>4, <1>5 DEF RestartServe, Owners
<1>7. TableTypeOK'
    BY <1>1, <1>2, <1>3, <1>4, <1>5, <1>6, RestartTable
<1>8. ControlTypes'
    BY <1>1, <1>2, <1>3, <1>4, <1>5, <1>6, <1>7 DEF ControlTypes, TableTypeOK
<1>9. CallsSafe'
    BY <1>1, <1>2, <1>3, <1>4, <1>5, <1>6, <1>7 DEF CallsSafe, Threads
<1>10. StartsSafe'
    BY <1>1, <1>2, <1>3, <1>4, <1>5, <1>6, <1>7 DEF StartsSafe
<1>11. AttemptSafe'
    BY <1>1, <1>2, <1>3, <1>4, <1>5, <1>6, <1>7 DEF AttemptSafe
<1>12. TableSafe'
    BY <1>1, <1>2, <1>3, <1>4, <1>5, <1>6, <1>7 DEF TableSafe, Alive, Active
<1>13. LinksSafe'
    BY <1>1, <1>2, <1>3, <1>4, <1>5, <1>6, <1>7 DEF LinksSafe, Linked
<1>14. ServeSafe'
    BY <1>1, <1>2, <1>3, <1>4, <1>5, <1>6, <1>7 DEF ServeSafe, Active
<1> QED
    BY <1>8, <1>9, <1>10, <1>11, <1>12, <1>13, <1>14 DEF Control

\* The initial states satisfy the control part.
LEMMA ControlInit == Init => Control
<1> SUFFICES ASSUME Init PROVE Control
    OBVIOUS
<1>1. ControlTypes
  <2>1. /\ TableTypeOK /\ launches \in [Uids -> {0, 1}] /\ load \in Loads
        /\ serve = "serving" /\ mu = None
      BY DEF Init, TableInit, TableTypeOK
  <2>2. calls \in [Threads -> CallSet]
      BY IdleIs DEF Init
  <2>3. runs \in 0..Len(ServiceRuns)
      BY SupervisorAssumption DEF Init
  <2>4. /\ native \in [Uids -> {"none", "alive", "dead", "cleaned", "over"}]
        /\ signal \in [Uids -> {"none", "term", "kill"}]
        /\ held \in [Uids -> SUBSET Links] /\ aliases \in [Links -> Owners]
      BY DEF Init, Owners
  <2> QED
      BY <2>1, <2>2, <2>3, <2>4 DEF ControlTypes
<1>2. \A t \in Threads : calls[t].op = "idle"
    BY IdleIs DEF Init
<1>3. CallsSafe /\ StartsSafe
  <2>1. (\A u \in Uids : launches[u] = 0) /\ removed \in [Uids -> Nat]
      BY DEF Init, TableInit
  <2> QED
      BY <1>2, <2>1, SupervisorAssumption DEF CallsSafe, StartsSafe, Threads
<1>4. AttemptSafe /\ LinksSafe /\ ServeSafe
    BY DEF Init, AttemptSafe, LinksSafe, ServeSafe
<1>5. TableSafe
    BY DEF Init, TableInit, TableSafe, Alive, Active
<1> QED
    BY <1>1, <1>3, <1>4, <1>5 DEF Control

\* A step that touches neither calls, table nor processes keeps the control part.
LEMMA ControlFrame ==
  ASSUME Control, UNCHANGED <<tableVars, callVars, procVars>> PROVE Control'
<1>1. UNCHANGED <<table, owner, record, launches, removed, load, serve, restarts, mu, attempt, calls, runs,
                  native, signal, held, aliases>>
    BY DEF tableVars, callVars, procVars
<1>2. ControlTypes'
    BY <1>1 DEF Control, ControlTypes, TableTypeOK
<1>3. CallsSafe' /\ StartsSafe' /\ AttemptSafe' /\ TableSafe' /\ LinksSafe' /\ ServeSafe'
    BY <1>1 DEF Control, CallsSafe, StartsSafe, AttemptSafe, TableSafe, Alive, Active, LinksSafe, Linked,
                ServeSafe
<1> QED
    BY <1>2, <1>3 DEF Control

\* The steps of a start.
LEMMA StartStepKeeps ==
  ASSUME Control, NEW t \in Threads, StartStep(t) PROVE Control'
<1>1. mu = t /\ t # None
    BY SupervisorAssumption DEF StartStep
<1>2. attempt.uid \in Uids
    BY <1>1 DEF Control, ControlTypes, AttemptSet
<1>3. CASE OpenTranscript \/ PrepareFiles \/ PrepareAliases \/ PrepareProjection
           \/ PrepareEnvironment \/ PrepareCommand
  <2>1. PICK step, next \in AttemptSteps, links \in SUBSET Links : Prepared(step, next, links)
      BY <1>2, <1>3, SupervisorAssumption DEF OpenTranscript, PrepareFiles, PrepareAliases, PrepareProjection,
         PrepareEnvironment, PrepareCommand, AttemptSteps
  <2> QED
      BY <1>1, <2>1, PreparedKeeps
<1> QED
    BY <1>1, <1>3, LaunchProcessKeeps, FailStartKeeps, RollBackStartKeeps DEF StartStep

\* The returns of a stop and of a run.
LEMMA ReturnsKeep ==
  ASSUME Control, NEW t \in Threads, StopNothing(t) \/ StopReturns(t) \/ (t = Service /\ RunEnds)
  PROVE Control'
<1>1. /\ Returned(t) /\ mu = None /\ calls[t].op \in {"stop", "run"}
      /\ UNCHANGED <<procVars, load, serve, restarts, mu, attempt, runs>>
    BY DEF StopNothing, StopReturns, RunEnds, InCall
<1>2. ASSUME t \in Ids, Active(t), serve \in {"stopping", "done"} PROVE FALSE
  <2>1. calls[t].uid = table[t].uid /\ calls[t].op = "stop" /\ IdOf[table[t].uid] = t /\ Alive(table[t].uid)
      BY <1>2 DEF Control, ServeSafe, TableSafe, Active
  <2>2. t # Service
      BY <1>2, SupervisorAssumption
  <2> QED
      BY <1>2, <2>1, <2>2 DEF StopNothing, StopReturns, Alive
<1> QED
    BY <1>1, <1>2, ReturnedKeeps

\* Every step keeps the control part.
LEMMA ControlKept == Control /\ [Next]_vars => Control'
<1> SUFFICES ASSUME Control, [Next]_vars PROVE Control'
    OBVIOUS
<1>1. ASSUME NEW h \in Handlers, NEW op \in {"start", "stop"}, NEW u \in Uids, Request(h, op, u) PROVE Control'
    BY <1>1, RequestKeeps
<1>2. CASE BeginRun \/ RunEnds \/ StopRun \/ PruneHistory
  <2>1. Service \in Threads
      BY DEF Threads
  <2> QED
      BY <1>2, <2>1, BeginRunKeeps, ReturnsKeep, StopRunKeeps, PruneHistoryKeeps
<1>3. ASSUME NEW t \in Threads,
             StartAnswered(t) \/ BeginStart(t) \/ StartStep(t) \/ BeginStop(t) \/ StopNothing(t)
             \/ GraceExpires(t) \/ StopReturns(t)
      PROVE Control'
    BY <1>3, StartAnsweredKeeps, BeginStartKeeps, StartStepKeeps, BeginStopKeeps, ReturnsKeep, GraceExpiresKeeps
<1>4. ASSUME NEW u \in Uids, ProcessEnds(u) \/ CleanUp(u) \/ CloseExit(u) PROVE Control'
    BY <1>4, ProcessEndsKeeps, CleanUpKeeps, CloseExitKeeps
<1>5. ASSUME NEW u \in Uids, Emit(u) \/ SendNext(u) PROVE Control'
    BY <1>5, ControlFrame DEF Emit, SendNext
<1>6. ASSUME NEW u \in Uids, NEW n \in 1..2, Distribute(u, n) \/ WriteFails(u, n) PROVE Control'
    BY <1>6, ControlFrame DEF Distribute, WriteFails
<1>7. ASSUME NEW c \in Clients, NEW u \in Uids, Attach(c, u) PROVE Control'
    BY <1>7, ControlFrame DEF Attach
<1>8. ASSUME NEW c \in Clients, ClientStep(c) PROVE Control'
    BY <1>8, ControlFrame DEF ClientStep, ReadChunk, SeeExit, SeeDropped, Leave, Type, EndInput, Forward,
                              LoseInput, CloseInput
<1>9. CASE Cancel \/ WaitForHandlers \/ BeginShutdown \/ EndShutdown \/ RestartServe
    BY <1>9, CancelKeeps, WaitForHandlersKeeps, BeginShutdownKeeps, EndShutdownKeeps, RestartServeKeeps
<1>10. CASE UNCHANGED vars
    BY <1>10, ControlFrame DEF vars
<1> QED
    BY <1>1, <1>2, <1>3, <1>4, <1>5, <1>6, <1>7, <1>8, <1>9, <1>10 DEF Next

-----------------------------------------------------------------------------
(* Queues of chunks.                                                       *)

\* A chunk that begins where the queue ends continues it.
LEMMA QueueAppended ==
  ASSUME NEW q \in Seq(Chunks), NEW k \in Chunks, NEW at \in Nat
  PROVE  /\ Append(q, k) \in Seq(Chunks) /\ Len(Append(q, k)) = Len(q) + 1
         /\ EndOf(at, Append(q, k)) = k.to
         /\ Continues(at, q) /\ k.from = EndOf(at, q) => Continues(at, Append(q, k))
<1>1. /\ Append(q, k) \in Seq(Chunks) /\ Len(Append(q, k)) = Len(q) + 1 /\ Len(q) \in Nat
      /\ \A n \in 1..Len(q) : Append(q, k)[n] = q[n]
      /\ Append(q, k)[Len(q) + 1] = k /\ Append(q, k) # <<>>
    OBVIOUS
<1>2. EndOf(at, Append(q, k)) = k.to
    BY <1>1 DEF EndOf
<1>3. ASSUME Continues(at, q), k.from = EndOf(at, q), NEW n \in 1..Len(Append(q, k))
      PROVE Append(q, k)[n].from = IF n = 1 THEN at ELSE Append(q, k)[n - 1].to
  <2>1. CASE n \in 1..Len(q)
    <3>1. n = 1 \/ n - 1 \in 1..Len(q)
        BY <2>1
    <3> QED
        BY <1>1, <1>3, <2>1, <3>1 DEF Continues
  <2>2. CASE n = Len(q) + 1
    <3>1. CASE q = <<>>
        BY <1>1, <1>3, <2>2, <3>1 DEF EndOf
    <3>2. CASE q # <<>>
      <4>1. Len(q) # 0
          BY <3>2
      <4>2. n # 1 /\ n - 1 = Len(q) /\ Len(q) \in 1..Len(q)
          BY <1>1, <2>2, <4>1
      <4> QED
          BY <1>1, <1>3, <2>2, <3>2, <4>2 DEF EndOf
    <3> QED
        BY <3>1, <3>2
  <2> QED
      BY <1>1, <1>3, <2>1, <2>2
<1>4. Continues(at, q) /\ k.from = EndOf(at, q) => Continues(at, Append(q, k))
    BY <1>3 DEF Continues
<1> QED
    BY <1>1, <1>2, <1>4

\* What is left when the first chunk is read continues that chunk.
LEMMA QueueTail ==
  ASSUME NEW q \in Seq(Chunks), q # <<>>, NEW at \in Nat
  PROVE  /\ Tail(q) \in Seq(Chunks) /\ Len(Tail(q)) = Len(q) - 1 /\ Head(q) \in Chunks
         /\ Continues(at, q) => Head(q).from = at /\ Continues(Head(q).to, Tail(q))
         /\ EndOf(Head(q).to, Tail(q)) = EndOf(at, q)
<1>1. /\ Tail(q) \in Seq(Chunks) /\ Len(Tail(q)) = Len(q) - 1 /\ Len(q) \in Nat /\ Len(q) # 0
      /\ \A n \in 1..(Len(q) - 1) : Tail(q)[n] = q[n + 1]
      /\ Head(q) = q[1] /\ q[1] \in Chunks
    OBVIOUS
<1>2. ASSUME Continues(at, q) PROVE Head(q).from = at /\ Continues(Head(q).to, Tail(q))
  <2>1. Head(q).from = at
      BY <1>1, <1>2 DEF Continues
  <2>2. ASSUME NEW n \in 1..Len(Tail(q))
        PROVE Tail(q)[n].from = IF n = 1 THEN Head(q).to ELSE Tail(q)[n - 1].to
    <3>1. /\ n \in 1..(Len(q) - 1) /\ n + 1 \in 1..Len(q) /\ n + 1 # 1 /\ (n + 1) - 1 = n
          /\ n = 1 \/ (n - 1 \in 1..(Len(q) - 1) /\ (n - 1) + 1 = n)
        BY <1>1, <2>2
    <3>2. Tail(q)[n] = q[n + 1] /\ (n = 1 \/ Tail(q)[n - 1] = q[n])
        BY <1>1, <3>1
    <3>3. q[n + 1].from = q[n].to
        BY <1>2, <3>1 DEF Continues
    <3> QED
        BY <1>1, <3>1, <3>2, <3>3
  <2> QED
      BY <2>1, <2>2 DEF Continues
<1> DEFINE rest == Tail(q)
<1>3. /\ rest \in Seq(Chunks) /\ Len(rest) = Len(q) - 1
      /\ \A n \in 1..(Len(q) - 1) : rest[n] = q[n + 1]
    BY <1>1
<1> HIDE DEF rest
<1>4. EndOf(Head(q).to, rest) = EndOf(at, q)
  <2>1. rest = <<>> <=> Len(rest) = 0
      BY <1>3
  <2>2. CASE Len(q) = 1
      BY <1>1, <1>3, <2>1, <2>2 DEF EndOf
  <2>3. CASE Len(q) # 1
    <3>1. rest # <<>> /\ Len(q) - 1 \in 1..(Len(q) - 1) /\ (Len(q) - 1) + 1 = Len(q)
        BY <1>1, <1>3, <2>1, <2>3
    <3> QED
        BY <1>1, <1>3, <3>1 DEF EndOf
  <2> QED
      BY <2>2, <2>3
<1> QED
    BY <1>1, <1>2, <1>4 DEF rest

\* No gap is seen in a queue that continues what the client has.
LEMMA NoGap ==
  ASSUME NEW q \in Seq(Chunks), q # <<>>, NEW at \in Nat, Continues(at, q)
  PROVE  /\ q[1].from = at /\ q[Len(q)] \in Chunks
         /\ ~ \E n \in 1..(Len(q) - 1) : q[n].to # q[n + 1].from
<1>1. Len(q) \in Nat /\ Len(q) # 0 /\ \A n \in 1..Len(q) : q[n] \in Chunks
    OBVIOUS
<1>2. ASSUME NEW n \in 1..(Len(q) - 1) PROVE q[n].to = q[n + 1].from
  <2>1. n + 1 \in 1..Len(q) /\ n + 1 # 1 /\ (n + 1) - 1 = n
      BY <1>1, <1>2
  <2> QED
      BY <2>1 DEF Continues
<1> QED
    BY <1>1, <1>2 DEF Continues

\* The empty queue.
LEMMA QueueEmpty ==
  ASSUME NEW at
  PROVE  <<>> \in Seq(Chunks) /\ Len(<<>>) = 0 /\ Continues(at, <<>>) /\ EndOf(at, <<>>) = at
<1>1. <<>> \in Seq(Chunks) /\ Len(<<>>) = 0 /\ 1..0 = {}
    OBVIOUS
<1> QED
    BY <1>1 DEF Continues, EndOf

\* An order of the lossless clients has each of them once.
LEMMA OrderDistinct ==
  ASSUME NEW S \in SUBSET Clients, NEW q \in Orders(S)
  PROVE  /\ q \in Seq(Clients) /\ \A n \in 1..Len(q) : q[n] \in S
         /\ \A x \in S : \E n \in 1..Len(q) : q[n] = x
         /\ \A m, n \in 1..Len(q) : m # n => q[m] # q[n]
<1>1. IsFiniteSet(S) /\ Cardinality(S) \in Nat
    BY SupervisorAssumption, FS_Subset, FS_CardinalityType
<1>2. q \in [1..Cardinality(S) -> S] /\ \A x \in S : \E n \in 1..Cardinality(S) : q[n] = x
    BY DEF Orders
<1>3. q \in Seq(S) /\ Len(q) = Cardinality(S)
    BY <1>1, <1>2
<1>4. q \in Surjection(1..Cardinality(S), S)
    BY <1>2 DEF Surjection
<1>5. IsFiniteSet(1..Cardinality(S)) /\ Cardinality(1..Cardinality(S)) = Cardinality(S)
    BY <1>1, FS_Interval
<1>6. q \in Injection(1..Cardinality(S), S)
    BY <1>4, <1>5, FS_SurjSameCardinalityImpliesInj
<1>7. \A m, n \in 1..Cardinality(S) : m # n => q[m] # q[n]
    BY <1>6 DEF Injection, IsInjective
<1>8. q \in Seq(Clients)
    BY <1>3
<1> QED
    BY <1>2, <1>3, <1>7, <1>8

-----------------------------------------------------------------------------
(* Sessions.                                                               *)

States == {"away", "attached", "dropped", "finished", "slow", "left"}
SessionsOf(A, U, Q, N, B) == [state : A, uid : U, queue : Q, at : N, told : B, gap : B, typed : N, sent : N,
                              ended : B]

\* The session s of a process becomes t.
SessionIs(t, s, state, queue, at, gap, typed, sent, ended) ==
  /\ t \in Sessions /\ t.state = state /\ t.uid = s.uid /\ t.queue = queue /\ t.at = at
  /\ t.told = s.told /\ t.gap = gap /\ t.typed = typed /\ t.sent = sent /\ t.ended = ended

\* The session moves to another state.
LEMMA SessionMoved ==
  ASSUME NEW s \in Sessions, NEW x \in States, NEW q \in Seq(Chunks)
  PROVE  SessionIs([s EXCEPT !.state = x, !.queue = q], s, x, q, s.at, s.gap, s.typed, s.sent, s.ended)
<1> DEFINE t == [s EXCEPT !.state = x, !.queue = q]
<1>1. PICK A, U, Q, N, B : A = States /\ U = Uids \cup {None} /\ Q = Seq(Chunks) /\ N = Nat /\ B = BOOLEAN
    OBVIOUS
<1>2. Sessions = SessionsOf(A, U, Q, N, B)
    BY <1>1 DEF Sessions, SessionsOf, States
<1>3. s \in SessionsOf(A, U, Q, N, B) /\ x \in A /\ q \in Q
    BY <1>1, <1>2
<1>4. /\ t \in SessionsOf(A, U, Q, N, B) /\ t.state = x /\ t.uid = s.uid
      /\ t.queue = q /\ t.at = s.at /\ t.told = s.told /\ t.gap = s.gap
      /\ t.typed = s.typed /\ t.sent = s.sent /\ t.ended = s.ended
    BY <1>3 DEF SessionsOf
<1> QED
    BY <1>2, <1>4, Zenon DEF SessionIs

\* It is dropped.
LEMMA SessionDropped ==
  ASSUME NEW s \in Sessions, NEW x \in States
  PROVE  SessionIs([s EXCEPT !.state = x], s, x, s.queue, s.at, s.gap, s.typed, s.sent, s.ended)
<1> DEFINE t == [s EXCEPT !.state = x]
<1>1. PICK A, U, Q, N, B : A = States /\ U = Uids \cup {None} /\ Q = Seq(Chunks) /\ N = Nat /\ B = BOOLEAN
    OBVIOUS
<1>2. Sessions = SessionsOf(A, U, Q, N, B)
    BY <1>1 DEF Sessions, SessionsOf, States
<1>3. s \in SessionsOf(A, U, Q, N, B) /\ x \in A
    BY <1>1, <1>2
<1>4. /\ t \in SessionsOf(A, U, Q, N, B) /\ t.state = x /\ t.uid = s.uid
      /\ t.queue = s.queue /\ t.at = s.at /\ t.told = s.told /\ t.gap = s.gap
      /\ t.typed = s.typed /\ t.sent = s.sent /\ t.ended = s.ended
    BY <1>3 DEF SessionsOf
<1> QED
    BY <1>2, <1>4, Zenon DEF SessionIs

\* A chunk is put in its queue.
LEMMA SessionQueued ==
  ASSUME NEW s \in Sessions, NEW q \in Seq(Chunks)
  PROVE  SessionIs([s EXCEPT !.queue = q], s, s.state, q, s.at, s.gap, s.typed, s.sent, s.ended)
<1> DEFINE t == [s EXCEPT !.queue = q]
<1>1. PICK A, U, Q, N, B : A = States /\ U = Uids \cup {None} /\ Q = Seq(Chunks) /\ N = Nat /\ B = BOOLEAN
    OBVIOUS
<1>2. Sessions = SessionsOf(A, U, Q, N, B)
    BY <1>1 DEF Sessions, SessionsOf, States
<1>3. s \in SessionsOf(A, U, Q, N, B) /\ q \in Q
    BY <1>1, <1>2
<1>4. /\ t \in SessionsOf(A, U, Q, N, B) /\ t.state = s.state /\ t.uid = s.uid
      /\ t.queue = q /\ t.at = s.at /\ t.told = s.told /\ t.gap = s.gap
      /\ t.typed = s.typed /\ t.sent = s.sent /\ t.ended = s.ended
    BY <1>3 DEF SessionsOf
<1> QED
    BY <1>2, <1>4, Zenon DEF SessionIs

\* Its client sends a byte.
LEMMA SessionTyped ==
  ASSUME NEW s \in Sessions, NEW n \in Nat
  PROVE  SessionIs([s EXCEPT !.typed = n], s, s.state, s.queue, s.at, s.gap, n, s.sent, s.ended)
<1> DEFINE t == [s EXCEPT !.typed = n]
<1>1. PICK A, U, Q, N, B : A = States /\ U = Uids \cup {None} /\ Q = Seq(Chunks) /\ N = Nat /\ B = BOOLEAN
    OBVIOUS
<1>2. Sessions = SessionsOf(A, U, Q, N, B)
    BY <1>1 DEF Sessions, SessionsOf, States
<1>3. s \in SessionsOf(A, U, Q, N, B) /\ n \in N
    BY <1>1, <1>2
<1>4. /\ t \in SessionsOf(A, U, Q, N, B) /\ t.state = s.state /\ t.uid = s.uid
      /\ t.queue = s.queue /\ t.at = s.at /\ t.told = s.told /\ t.gap = s.gap
      /\ t.typed = n /\ t.sent = s.sent /\ t.ended = s.ended
    BY <1>3 DEF SessionsOf
<1> QED
    BY <1>2, <1>4, Zenon DEF SessionIs

\* A byte is forwarded.
LEMMA SessionSent ==
  ASSUME NEW s \in Sessions, NEW n \in Nat
  PROVE  SessionIs([s EXCEPT !.sent = n], s, s.state, s.queue, s.at, s.gap, s.typed, n, s.ended)
<1> DEFINE t == [s EXCEPT !.sent = n]
<1>1. PICK A, U, Q, N, B : A = States /\ U = Uids \cup {None} /\ Q = Seq(Chunks) /\ N = Nat /\ B = BOOLEAN
    OBVIOUS
<1>2. Sessions = SessionsOf(A, U, Q, N, B)
    BY <1>1 DEF Sessions, SessionsOf, States
<1>3. s \in SessionsOf(A, U, Q, N, B) /\ n \in N
    BY <1>1, <1>2
<1>4. /\ t \in SessionsOf(A, U, Q, N, B) /\ t.state = s.state /\ t.uid = s.uid
      /\ t.queue = s.queue /\ t.at = s.at /\ t.told = s.told /\ t.gap = s.gap
      /\ t.typed = s.typed /\ t.sent = n /\ t.ended = s.ended
    BY <1>3 DEF SessionsOf
<1> QED
    BY <1>2, <1>4, Zenon DEF SessionIs

\* Its client ends the input, or the end is lost.
LEMMA SessionEnded ==
  ASSUME NEW s \in Sessions, NEW b \in BOOLEAN
  PROVE  SessionIs([s EXCEPT !.ended = b], s, s.state, s.queue, s.at, s.gap, s.typed, s.sent, b)
<1> DEFINE t == [s EXCEPT !.ended = b]
<1>1. PICK A, U, Q, N, B : A = States /\ U = Uids \cup {None} /\ Q = Seq(Chunks) /\ N = Nat /\ B = BOOLEAN
    OBVIOUS
<1>2. Sessions = SessionsOf(A, U, Q, N, B)
    BY <1>1 DEF Sessions, SessionsOf, States
<1>3. s \in SessionsOf(A, U, Q, N, B) /\ b \in B
    BY <1>1, <1>2
<1>4. /\ t \in SessionsOf(A, U, Q, N, B) /\ t.state = s.state /\ t.uid = s.uid
      /\ t.queue = s.queue /\ t.at = s.at /\ t.told = s.told /\ t.gap = s.gap
      /\ t.typed = s.typed /\ t.sent = s.sent /\ t.ended = b
    BY <1>3 DEF SessionsOf
<1> QED
    BY <1>2, <1>4, Zenon DEF SessionIs

\* Its client reads.
LEMMA SessionRead ==
  ASSUME NEW s \in Sessions, NEW q \in Seq(Chunks), NEW a \in Nat, NEW b \in BOOLEAN
  PROVE  SessionIs([[s EXCEPT !.at = a, !.gap = b] EXCEPT !.queue = q],
                   s, s.state, q, a, b, s.typed, s.sent, s.ended)
<1> DEFINE t == [[s EXCEPT !.at = a, !.gap = b] EXCEPT !.queue = q]
<1>1. PICK A, U, Q, N, B : A = States /\ U = Uids \cup {None} /\ Q = Seq(Chunks) /\ N = Nat /\ B = BOOLEAN
    OBVIOUS
<1>2. Sessions = SessionsOf(A, U, Q, N, B)
    BY <1>1 DEF Sessions, SessionsOf, States
<1>3. s \in SessionsOf(A, U, Q, N, B) /\ q \in Q /\ a \in N /\ b \in B
    BY <1>1, <1>2
<1>4. /\ t \in SessionsOf(A, U, Q, N, B) /\ t.state = s.state /\ t.uid = s.uid
      /\ t.queue = q /\ t.at = a /\ t.told = s.told /\ t.gap = b
      /\ t.typed = s.typed /\ t.sent = s.sent /\ t.ended = s.ended
    BY <1>3 DEF SessionsOf
<1> QED
    BY <1>2, <1>4, Zenon DEF SessionIs

\* Its client has read everything.
LEMMA SessionDrained ==
  ASSUME NEW s \in Sessions, NEW x \in States, NEW q \in Seq(Chunks), NEW a \in Nat, NEW b \in BOOLEAN
  PROVE  SessionIs([[s EXCEPT !.at = a, !.gap = b] EXCEPT !.state = x, !.queue = q],
                   s, x, q, a, b, s.typed, s.sent, s.ended)
<1> DEFINE t == [[s EXCEPT !.at = a, !.gap = b] EXCEPT !.state = x, !.queue = q]
<1>1. PICK A, U, Q, N, B : A = States /\ U = Uids \cup {None} /\ Q = Seq(Chunks) /\ N = Nat /\ B = BOOLEAN
    OBVIOUS
<1>2. Sessions = SessionsOf(A, U, Q, N, B)
    BY <1>1 DEF Sessions, SessionsOf, States
<1>3. s \in SessionsOf(A, U, Q, N, B) /\ x \in A /\ q \in Q /\ a \in N /\ b \in B
    BY <1>1, <1>2
<1>4. /\ t \in SessionsOf(A, U, Q, N, B) /\ t.state = x /\ t.uid = s.uid
      /\ t.queue = q /\ t.at = a /\ t.told = s.told /\ t.gap = b
      /\ t.typed = s.typed /\ t.sent = s.sent /\ t.ended = s.ended
    BY <1>3 DEF SessionsOf
<1> QED
    BY <1>2, <1>4, Zenon DEF SessionIs

\* Reading leaves the queue to be cut.
LEMMA SessionTaken ==
  ASSUME NEW s \in Sessions, NEW a \in Nat, NEW b \in BOOLEAN
  PROVE  [s EXCEPT !.at = a, !.gap = b].queue = s.queue
<1>1. PICK A, U, Q, N, B : A = States /\ U = Uids \cup {None} /\ Q = Seq(Chunks) /\ N = Nat /\ B = BOOLEAN
    OBVIOUS
<1>2. s \in SessionsOf(A, U, Q, N, B)
    BY <1>1 DEF Sessions, SessionsOf, States
<1> QED
    BY <1>2 DEF SessionsOf

\* Reading nothing changes nothing.
LEMMA SessionSame == ASSUME NEW s \in Sessions PROVE [s EXCEPT !.at = s.at, !.gap = s.gap] = s
<1>1. PICK A, U, Q, N, B : A = States /\ U = Uids \cup {None} /\ Q = Seq(Chunks) /\ N = Nat /\ B = BOOLEAN
    OBVIOUS
<1>2. s \in SessionsOf(A, U, Q, N, B)
    BY <1>1 DEF Sessions, SessionsOf, States
<1> QED
    BY <1>2 DEF SessionsOf

\* The session of a client that attaches.
LEMMA SessionAttached ==
  ASSUME NEW x \in States, NEW u \in Uids, NEW a \in Nat, NEW b \in BOOLEAN, NEW t,
         t = [state |-> x, uid |-> u, queue |-> <<>>, at |-> a, told |-> b, gap |-> FALSE, typed |-> 0,
              sent |-> 0, ended |-> FALSE]
  PROVE  /\ t \in Sessions /\ t.state = x /\ t.uid = u /\ t.queue = <<>> /\ t.at = a
         /\ t.told = b /\ ~t.gap /\ t.typed = 0 /\ t.sent = 0 /\ ~t.ended
<1>1. t \in Sessions
    BY QueueEmpty DEF Sessions, States
<1>2. /\ t.state = x /\ t.uid = u /\ t.queue = <<>> /\ t.at = a
      /\ t.told = b /\ ~t.gap /\ t.typed = 0 /\ t.sent = 0 /\ ~t.ended
    OBVIOUS
<1> QED
    BY <1>1, <1>2

-----------------------------------------------------------------------------
(* Steps that leave the streams alone.                                     *)

\* A step of the control part keeps the streams if no identity is forgotten,
\* a process with a Write under way lives on and an ended one stays so.
LEMMA StreamFrame ==
  ASSUME Streams, UNCHANGED streamVars,
         \A u \in Uids : launches[u] = 1 => launches'[u] = 1 /\ (~Alive(u) => ~Alive(u)'),
         \A u \in Uids : copy[u] # None => native'[u] \in {"alive", "dead"}
  PROVE  Streams'
<1>1. UNCHANGED <<pipe, out, copy, kept, truncated, broken, client, inputClosed>>
    BY DEF streamVars
<1>2. StreamTypes /\ TranscriptSafe /\ BrokenSafe /\ CopySafe /\ InputSafe /\ SessionSafe
    BY DEF Streams
<1>3. StreamTypes' /\ TranscriptSafe' /\ BrokenSafe'
    BY <1>1, <1>2 DEF StreamTypes, TranscriptSafe, BrokenSafe
<1>4. CopySafe'
    BY <1>1, <1>2 DEF CopySafe
<1>5. InputSafe'
    BY <1>1, <1>2 DEF InputSafe
<1>6. ASSUME NEW c \in Clients, NEW s, SessionOf(c, s) PROVE SessionOf(c, s)'
  <2>1. \A u : Pending(c, u)' <=> Pending(c, u)
      BY <1>1 DEF Pending
  <2>2. s.state \in {"finished"} => s.state # "away"
      OBVIOUS
  <2> QED
      BY <1>1, <1>6, <2>1 DEF SessionOf
<1>7. SessionSafe'
    BY <1>1, <1>2, <1>6 DEF SessionSafe
<1> QED
    BY <1>3, <1>4, <1>5, <1>7 DEF Streams

\* One client's session becomes s.
LEMMA ClientChanges ==
  ASSUME Streams, NEW c \in Clients, NEW s \in Sessions, client' = [client EXCEPT ![c] = s],
         Len(s.queue) <= QueueCap, SessionOf(c, s), client[c].state # "away" => s.state # "away",
         InputOver(client[c]) => InputOver(s),
         UNCHANGED <<tableVars, procVars, pipe, out, copy, kept, truncated, broken, inputClosed>>
  PROVE  Streams'
<1>1. UNCHANGED <<launches, native, pipe, out, copy, kept, truncated, broken, inputClosed>>
    BY DEF tableVars, procVars
<1>2. StreamTypes /\ TranscriptSafe /\ BrokenSafe /\ CopySafe /\ InputSafe /\ SessionSafe
    BY DEF Streams
<1>3. /\ client' \in [Clients -> Sessions] /\ client'[c] = s
      /\ \A d \in Clients : d # c => client'[d] = client[d]
    BY <1>2 DEF StreamTypes
<1>4. StreamTypes' /\ TranscriptSafe' /\ BrokenSafe'
    BY <1>1, <1>2, <1>3 DEF StreamTypes, TranscriptSafe, BrokenSafe
<1>5. CopySafe'
    BY <1>1, <1>2, <1>3, SupervisorAssumption DEF CopySafe
<1>6. InputSafe'
    BY <1>1, <1>2, <1>3 DEF InputSafe, StreamTypes
<1>7. ASSUME NEW d \in Clients, NEW r, SessionOf(d, r) PROVE SessionOf(d, r)'
  <2>1. \A u : (Pending(d, u)' <=> Pending(d, u)) /\ (Alive(u)' <=> Alive(u))
      BY <1>1 DEF Pending, Alive
  <2> QED
      BY <1>1, <1>7, <2>1 DEF SessionOf
<1>8. SessionSafe'
    BY <1>2, <1>3, <1>7 DEF SessionSafe
<1> QED
    BY <1>4, <1>5, <1>6, <1>8 DEF Streams

-----------------------------------------------------------------------------
(* What clients do.                                                        *)

\* A client reads one chunk.
LEMMA ReadChunkKeeps == ASSUME Streams, NEW c \in Clients, ReadChunk(c) PROVE Streams'
<1> DEFINE s == client[c]
           k == Head(s.queue)
           b == s.gap \/ k.from # s.at
           t == [[s EXCEPT !.at = k.to, !.gap = b] EXCEPT !.queue = Tail(s.queue)]
<1>1. /\ s \in Sessions /\ s.state \in {"attached", "dropped"} /\ s.queue # <<>> /\ SessionOf(c, s)
      /\ Len(s.queue) <= QueueCap /\ QueueCap \in Nat /\ s.queue \in Seq(Chunks) /\ s.at \in Nat
    BY SupervisorAssumption DEF Streams, StreamTypes, SessionSafe, ReadChunk, Sessions
<1>2. /\ Tail(s.queue) \in Seq(Chunks) /\ Len(Tail(s.queue)) = Len(s.queue) - 1 /\ k \in Chunks
      /\ Continues(s.at, s.queue) => k.from = s.at /\ Continues(k.to, Tail(s.queue))
      /\ EndOf(k.to, Tail(s.queue)) = EndOf(s.at, s.queue)
    BY <1>1, QueueTail
<1>3. k.to \in Nat /\ b \in BOOLEAN
    BY <1>2 DEF Chunks
<1>4. SessionIs(t, s, s.state, Tail(s.queue), k.to, b, s.typed, s.sent, s.ended)
    BY <1>1, <1>2, <1>3, SessionRead
<1>5. Taken(s, <<k>>) = [s EXCEPT !.at = k.to, !.gap = b]
  <2>1. <<k>> # <<>> /\ Len(<<k>>) = 1 /\ <<k>>[1] = k /\ 1..(Len(<<k>>) - 1) = {}
      OBVIOUS
  <2> QED
      BY <2>1, Zenon DEF Taken
<1>6. client' = [client EXCEPT ![c] = t]
  <2>1. client' = [client EXCEPT ![c] = [Taken(s, <<k>>) EXCEPT !.queue = Tail(Taken(s, <<k>>).queue)]]
      BY DEF ReadChunk
  <2>2. Taken(s, <<k>>).queue = s.queue
      BY <1>1, <1>3, <1>5, SessionTaken, ZenonT(40)
  <2> QED
      BY <1>5, <2>1, <2>2, Zenon
<1> HIDE DEF t, s, k, b
<1>7. SessionOf(c, t)
    BY <1>1, <1>2, <1>4 DEF SessionOf, SessionIs, b
<1>8. InputOver(s) => InputOver(t)
    BY <1>1, <1>4 DEF InputOver, SessionIs
<1>9. UNCHANGED <<tableVars, procVars, pipe, out, copy, kept, truncated, broken, inputClosed>>
    BY DEF ReadChunk
<1>10. t \in Sessions /\ Len(t.queue) <= QueueCap /\ t.state # "away"
    BY <1>1, <1>2, <1>4 DEF SessionIs
<1> QED
    BY <1>6, <1>7, <1>8, <1>9, <1>10, ClientChanges DEF s

\* A client sees the exit and drains its queue.
LEMMA SeeExitKeeps == ASSUME Streams, NEW c \in Clients, SeeExit(c) PROVE Streams'
<1> DEFINE s == client[c]
           at == EndOf(s.at, s.queue)
           b == IF s.queue = <<>> THEN s.gap
                ELSE s.gap \/ s.queue[1].from # s.at
                     \/ \E n \in 1..(Len(s.queue) - 1) : s.queue[n].to # s.queue[n + 1].from
           t == [[s EXCEPT !.at = at, !.gap = b] EXCEPT !.state = "finished", !.queue = <<>>]
<1>1. /\ s \in Sessions /\ s.state \in {"attached", "dropped"} /\ SessionOf(c, s)
      /\ QueueCap \in Nat /\ s.queue \in Seq(Chunks) /\ s.at \in Nat
    BY SupervisorAssumption DEF Streams, StreamTypes, SessionSafe, SeeExit, Sessions
<1>2. s.gap \in BOOLEAN
    BY <1>1 DEF Sessions
<1>3. b \in BOOLEAN
    BY <1>2
<1>4. at \in Nat
  <2>1. s.queue # <<>> => s.queue[Len(s.queue)] \in Chunks
      BY <1>1
  <2> QED
      BY <1>1, <2>1 DEF EndOf, Chunks
<1>5. SessionIs(t, s, "finished", <<>>, at, b, s.typed, s.sent, s.ended)
    BY <1>1, <1>3, <1>4, QueueEmpty, SessionDrained, ZenonT(40) DEF States
<1>6. client' = [client EXCEPT ![c] = t]
  <2>1. client' = [client EXCEPT ![c] = [Taken(s, s.queue) EXCEPT !.state = "finished", !.queue = <<>>]]
      BY DEF SeeExit
  <2>2. CASE s.queue = <<>>
    <3>1. [s EXCEPT !.at = s.at, !.gap = s.gap] = s
        BY <1>1, SessionSame
    <3>2. Taken(s, s.queue) = s /\ at = s.at /\ b = s.gap
        BY <2>2, Zenon DEF Taken, EndOf
    <3> QED
        BY <2>1, <3>1, <3>2, Zenon
  <2>3. CASE s.queue # <<>>
    <3>1. Taken(s, s.queue) = [s EXCEPT !.at = at, !.gap = b]
        BY <2>3, Zenon DEF Taken, EndOf
    <3> QED
        BY <2>1, <3>1, Zenon
  <2> QED
      BY <2>2, <2>3
<1>7. ASSUME ~s.told PROVE ~b
  <2>1. ~s.gap /\ Continues(s.at, s.queue)
      BY <1>1, <1>7 DEF SessionOf
  <2> QED
      BY <1>1, <2>1, NoGap
<1>8. native[s.uid] = "over" /\ s.uid \in Uids /\ launches[s.uid] = 1
    BY <1>1 DEF SeeExit, SessionOf
<1>9. copy[s.uid] = None
    BY <1>8 DEF Streams, CopySafe
<1> HIDE DEF t, s, b, at
<1>10. c \in Lossless /\ ~s.told /\ s.uid \notin broken => at = out[s.uid]
    BY <1>1, <1>9 DEF SessionOf, Pending, at
<1>11. SessionOf(c, t)
    BY <1>1, <1>5, <1>7, <1>8, <1>10 DEF SessionOf, SessionIs, Alive
<1>12. InputOver(s) => InputOver(t)
    BY <1>1, <1>5 DEF InputOver, SessionIs
<1>13. UNCHANGED <<tableVars, procVars, pipe, out, copy, kept, truncated, broken, inputClosed>>
    BY DEF SeeExit
<1>14. t \in Sessions /\ Len(t.queue) <= QueueCap /\ t.state # "away"
    BY <1>1, <1>5, QueueEmpty DEF SessionIs
<1> QED
    BY <1>6, <1>11, <1>12, <1>13, <1>14, ClientChanges DEF s

\* A client that fell behind is told, and a connection ends.
LEMMA GoneKeeps == ASSUME Streams, NEW c \in Clients, SeeDropped(c) \/ Leave(c) PROVE Streams'
<1> DEFINE s == client[c]
           x == IF SeeDropped(c) THEN "slow" ELSE "left"
           t == [s EXCEPT !.state = x, !.queue = <<>>]
<1>1. /\ s \in Sessions /\ s.state \in {"attached", "dropped"} /\ SessionOf(c, s)
      /\ QueueCap \in Nat /\ client \in [Clients -> Sessions]
    BY SupervisorAssumption DEF Streams, StreamTypes, SessionSafe, SeeDropped, Leave, Sessions
<1>2. x \in {"slow", "left"} /\ x \in States
    BY DEF States
<1>3. SessionIs(t, s, x, <<>>, s.at, s.gap, s.typed, s.sent, s.ended)
    BY <1>1, <1>2, QueueEmpty, SessionMoved
<1>4. client' = [client EXCEPT ![c].state = x, ![c].queue = <<>>]
    BY DEF SeeDropped, Leave
<1> HIDE DEF x
<1>5. client' = [client EXCEPT ![c] = t]
    BY <1>1, <1>4 DEF Sessions
<1> HIDE DEF t, s
<1>6. SessionOf(c, t)
    BY <1>1, <1>2, <1>3 DEF SessionOf, SessionIs
<1>7. InputOver(s) => InputOver(t)
    BY <1>1, <1>2, <1>3 DEF InputOver, SessionIs
<1>8. UNCHANGED <<tableVars, procVars, pipe, out, copy, kept, truncated, broken, inputClosed>>
    BY DEF SeeDropped, Leave
<1>9. t \in Sessions /\ Len(t.queue) <= QueueCap /\ t.state # "away"
    BY <1>1, <1>2, <1>3, QueueEmpty DEF SessionIs
<1> QED
    BY <1>5, <1>6, <1>7, <1>8, <1>9, ClientChanges DEF s

\* Input: a byte or the end is typed, a byte is forwarded, the end is lost.
LEMMA InputKeeps ==
  ASSUME Streams, NEW c \in Clients, Type(c) \/ EndInput(c) \/ Forward(c) \/ LoseInput(c) PROVE Streams'
<1> DEFINE s == client[c]
<1>1. /\ s \in Sessions /\ SessionOf(c, s) /\ client \in [Clients -> Sessions] /\ Len(s.queue) <= QueueCap
      /\ s.typed \in Nat /\ s.sent \in Nat /\ s.typed + 1 \in Nat /\ s.sent + 1 \in Nat
    BY DEF Streams, StreamTypes, SessionSafe, Sessions
<1>2. UNCHANGED <<tableVars, procVars, pipe, out, copy, kept, truncated, broken, inputClosed>>
    BY DEF Type, EndInput, Forward, LoseInput
<1>3. ASSUME NEW t, NEW typed, NEW sent, NEW ended, client' = [client EXCEPT ![c] = t],
             SessionIs(t, s, s.state, s.queue, s.at, s.gap, typed, sent, ended), InputOver(s) => InputOver(t)
      PROVE Streams'
  <2> HIDE DEF s
  <2>1. SessionOf(c, t)
      BY <1>1, <1>3 DEF SessionOf, SessionIs
  <2>2. t \in Sessions /\ Len(t.queue) <= QueueCap /\ t.state = s.state
      BY <1>1, <1>3 DEF SessionIs
  <2> QED
      BY <1>2, <1>3, <2>1, <2>2, ClientChanges DEF s
<1>4. CASE Type(c)
  <2> DEFINE t == [s EXCEPT !.typed = s.typed + 1]
  <2>1. SessionIs(t, s, s.state, s.queue, s.at, s.gap, s.typed + 1, s.sent, s.ended)
      BY <1>1, SessionTyped
  <2>2. client' = [client EXCEPT ![c] = t] /\ ~s.ended /\ s.state = "attached"
      BY <1>1, <1>4 DEF Type
  <2> HIDE DEF t, s
  <2> QED
      BY <1>3, <2>1, <2>2 DEF InputOver
<1>5. CASE EndInput(c)
  <2> DEFINE t == [s EXCEPT !.ended = TRUE]
  <2>1. SessionIs(t, s, s.state, s.queue, s.at, s.gap, s.typed, s.sent, TRUE)
      BY <1>1, SessionEnded
  <2>2. client' = [client EXCEPT ![c] = t] /\ ~s.ended /\ s.state = "attached"
      BY <1>1, <1>5 DEF EndInput
  <2> HIDE DEF t, s
  <2> QED
      BY <1>3, <2>1, <2>2 DEF InputOver
<1>6. CASE Forward(c)
  <2> DEFINE t == [s EXCEPT !.sent = s.sent + 1]
  <2>1. SessionIs(t, s, s.state, s.queue, s.at, s.gap, s.typed, s.sent + 1, s.ended)
      BY <1>1, SessionSent
  <2>2. client' = [client EXCEPT ![c] = t] /\ s.sent # s.typed
      BY <1>1, <1>6 DEF Forward
  <2> HIDE DEF t, s
  <2> QED
      BY <1>3, <2>1, <2>2 DEF InputOver
<1>7. CASE LoseInput(c)
  <2> DEFINE t == [s EXCEPT !.ended = FALSE]
  <2>1. SessionIs(t, s, s.state, s.queue, s.at, s.gap, s.typed, s.sent, FALSE)
      BY <1>1, SessionEnded
  <2>2. client' = [client EXCEPT ![c] = t] /\ s.state = "left"
      BY <1>1, <1>7 DEF LoseInput
  <2> HIDE DEF t, s
  <2> QED
      BY <1>3, <2>1, <2>2 DEF InputOver, SessionIs
<1> QED
    BY <1>4, <1>5, <1>6, <1>7

\* A client whose input is at its end closes the input of the process.
LEMMA CloseInputKeeps == ASSUME Streams, NEW c \in Clients, CloseInput(c) PROVE Streams'
<1>1. StreamTypes /\ TranscriptSafe /\ BrokenSafe /\ CopySafe /\ InputSafe /\ SessionSafe
    BY DEF Streams
<1>2. UNCHANGED <<launches, native, pipe, out, copy, kept, truncated, broken, client>>
    BY DEF CloseInput, tableVars, procVars
<1>3. client[c].state # "away" /\ InputOver(client[c])
    BY <1>1 DEF CloseInput, InputEnd, InputOver, SessionSafe, SessionOf
<1>4. client[c].uid \in Uids
    BY <1>1, <1>3 DEF SessionSafe, SessionOf
<1>5. /\ inputClosed' \in [Uids -> Clients \cup {None}] /\ inputClosed'[client[c].uid] = c
      /\ \A u \in Uids : u # client[c].uid => inputClosed'[u] = inputClosed[u]
    BY <1>1, <1>4 DEF CloseInput, StreamTypes
<1>6. StreamTypes' /\ TranscriptSafe' /\ BrokenSafe' /\ CopySafe'
    BY <1>1, <1>2, <1>5 DEF StreamTypes, TranscriptSafe, BrokenSafe, CopySafe
<1>7. InputSafe'
  <2>1. \A d \in Clients : InputOver(client[d]) => InputOver(client[d])'
      BY <1>2 DEF InputOver
  <2> QED
      BY <1>1, <1>2, <1>3, <1>5, <2>1 DEF InputSafe, StreamTypes
<1>8. ASSUME NEW d \in Clients, NEW r, SessionOf(d, r) PROVE SessionOf(d, r)'
  <2>1. \A u : (Pending(d, u)' <=> Pending(d, u)) /\ (Alive(u)' <=> Alive(u))
      BY <1>2 DEF Pending, Alive
  <2> QED
      BY <1>2, <1>8, <2>1 DEF SessionOf
<1>9. SessionSafe'
    BY <1>1, <1>2, <1>8 DEF SessionSafe
<1> QED
    BY <1>6, <1>7, <1>9 DEF Streams

\* A client attaches.
LEMMA AttachKeeps ==
  ASSUME Control, Streams, NEW c \in Clients, NEW u \in Uids, Attach(c, u) PROVE Streams'
<1> DEFINE x == IF Active(IdOf[u]) THEN "attached" ELSE "finished"
           t == [Away EXCEPT !.state = x, !.uid = u, !.at = kept[u], !.told = truncated[u]]
<1>1. StreamTypes /\ TranscriptSafe /\ BrokenSafe /\ CopySafe /\ InputSafe /\ SessionSafe
    BY DEF Streams
<1>2. /\ client[c].state = "away" /\ Owns(u) /\ client' = [client EXCEPT ![c] = t]
      /\ UNCHANGED <<tableVars, procVars, pipe, out, copy, kept, truncated, broken, inputClosed>>
    BY DEF Attach, Reached, Replay
<1>3. IdOf[u] \in Ids /\ launches[u] = 1 /\ (~Active(IdOf[u]) => ~Alive(u))
    BY <1>2, IdsAssumption DEF Control, TableSafe, Owns, Active
<1>4. /\ x \in States /\ kept[u] \in Nat /\ truncated[u] \in BOOLEAN
      /\ ~truncated[u] /\ u \notin broken => kept[u] = out[u]
    BY <1>1 DEF StreamTypes, TranscriptSafe, States
<1>5. /\ t \in Sessions /\ t.state = x /\ t.uid = u /\ t.queue = <<>> /\ t.at = kept[u]
      /\ t.told = truncated[u] /\ ~t.gap /\ t.typed = 0 /\ t.sent = 0 /\ ~t.ended
  <2> HIDE DEF x
  <2>1. PICK y \in States, a \in Nat, b \in BOOLEAN : y = x /\ a = kept[u] /\ b = truncated[u]
      BY <1>4, Zenon
  <2>2. t = [Away EXCEPT !.state = y, !.uid = u, !.at = a, !.told = b]
      BY <2>1, Zenon
  <2> HIDE DEF t
  <2>3. PICK no : no = FALSE
      OBVIOUS
  <2>4. Away = [state |-> "away", uid |-> None, queue |-> <<>>, at |-> 0, told |-> no, gap |-> no, typed |-> 0,
                sent |-> 0, ended |-> no]
      BY <2>3, Zenon DEF Away
  <2>5. t = [[state |-> "away", uid |-> None, queue |-> <<>>, at |-> 0, told |-> no, gap |-> no, typed |-> 0,
              sent |-> 0, ended |-> no] EXCEPT !.state = y, !.uid = u, !.at = a, !.told = b]
      BY <2>2, <2>4, Zenon
  <2>6. t = [state |-> y, uid |-> u, queue |-> <<>>, at |-> a, told |-> b, gap |-> no, typed |-> 0,
             sent |-> 0, ended |-> no]
    <3>1. PICK v : v = b
        OBVIOUS
    <3>2. t = [[state |-> "away", uid |-> None, queue |-> <<>>, at |-> 0, told |-> no, gap |-> no, typed |-> 0,
                sent |-> 0, ended |-> no] EXCEPT !.state = y, !.uid = u, !.at = a, !.told = v]
        BY <2>5, <3>1, Zenon
    <3>3. t = [state |-> y, uid |-> u, queue |-> <<>>, at |-> a, told |-> v, gap |-> no, typed |-> 0,
               sent |-> 0, ended |-> no]
        BY <3>2
    <3> QED
        BY <3>1, <3>3, Zenon
  <2>7. t = [state |-> y, uid |-> u, queue |-> <<>>, at |-> a, told |-> b, gap |-> FALSE, typed |-> 0,
             sent |-> 0, ended |-> FALSE]
      BY <2>3, <2>6, Zenon
  <2>8. /\ t \in Sessions /\ t.state = y /\ t.uid = u /\ t.queue = <<>> /\ t.at = a
        /\ t.told = b /\ ~t.gap /\ t.typed = 0 /\ t.sent = 0 /\ ~t.ended
      BY <2>7, SessionAttached
  <2> QED
      BY <2>1, <2>8, Zenon
<1>6. ~Pending(c, u)
    BY <1>1, <1>2 DEF CopySafe, Pending
<1>7. x \in {"attached", "finished"} /\ (x = "finished" => ~Alive(u))
    BY <1>3
<1> HIDE DEF t, x
<1>8. SessionOf(c, t)
    BY <1>3, <1>4, <1>5, <1>6, <1>7, QueueEmpty DEF SessionOf
<1>9. ~InputOver(client[c]) /\ t.state # "away"
    BY <1>2, <1>5, <1>7 DEF InputOver
<1>10. Len(t.queue) <= QueueCap
    BY <1>5, QueueEmpty, SupervisorAssumption
<1> QED
    BY <1>2, <1>5, <1>8, <1>9, <1>10, ClientChanges

-----------------------------------------------------------------------------
(* What the process and the copy of its output do.                         *)

\* A process writes to its pipe.
LEMMA EmitKeeps == ASSUME Streams, NEW u \in Uids, Emit(u) PROVE Streams'
<1>1. StreamTypes /\ TranscriptSafe /\ BrokenSafe /\ CopySafe /\ InputSafe /\ SessionSafe
    BY DEF Streams
<1>2. UNCHANGED <<launches, native, out, copy, kept, truncated, broken, client, inputClosed>>
    BY DEF Emit, tableVars, procVars
<1>3. pipe' \in [Uids -> Nat] /\ u \notin broken /\ \A v \in Uids : v # u => pipe'[v] = pipe[v]
    BY <1>1 DEF Emit, StreamTypes
<1>4. StreamTypes' /\ TranscriptSafe' /\ BrokenSafe' /\ CopySafe' /\ InputSafe'
    BY <1>1, <1>2, <1>3 DEF StreamTypes, TranscriptSafe, BrokenSafe, CopySafe, InputSafe
<1>5. ASSUME NEW d \in Clients, NEW r, SessionOf(d, r) PROVE SessionOf(d, r)'
  <2>1. \A v : (Pending(d, v)' <=> Pending(d, v)) /\ (Alive(v)' <=> Alive(v))
      BY <1>2 DEF Pending, Alive
  <2> QED
      BY <1>2, <1>5, <2>1 DEF SessionOf
<1>6. SessionSafe'
    BY <1>1, <1>2, <1>5 DEF SessionSafe
<1> QED
    BY <1>4, <1>6 DEF Streams

\* What a Write does to the session of one client: nothing to a client that
\* is not attached to it or that is lossless, and else the chunk is queued,
\* or the client dropped.
LEMMA OfferedIs ==
  ASSUME Streams, NEW c \in Clients, NEW u \in Uids, NEW k \in Chunks, k.from = out[u], copy[u] = None,
         u \notin broken, QueueCap \in Nat
  PROVE  LET s == client[c]
             t == Offered(c, u, k) IN
         /\ t \in Sessions /\ Len(t.queue) <= QueueCap /\ (InputOver(s) => InputOver(t))
         /\ s.state # "away" => t.state # "away"
         /\ ~Attached(c, u) \/ c \in Lossless => t = s
         /\ Attached(c, u) /\ c \notin Lossless =>
              /\ t.uid = u /\ t.state \in {"attached", "dropped"} /\ (t.gap => t.told)
              /\ ~t.told => Continues(t.at, t.queue)
              /\ t.state = "attached" /\ ~t.told => EndOf(t.at, t.queue) = k.to
<1> DEFINE s == client[c]
           t == Offered(c, u, k)
<1>1. /\ s \in Sessions /\ SessionOf(c, s) /\ Len(s.queue) <= QueueCap /\ s.queue \in Seq(Chunks)
      /\ s.at \in Nat /\ Len(s.queue) \in Nat
    BY DEF Streams, StreamTypes, SessionSafe, Sessions
<1>2. CASE ~Attached(c, u) \/ c \in Lossless
    BY <1>1, <1>2 DEF Offered
<1>3. CASE Attached(c, u) /\ c \notin Lossless
  <2>1. /\ s.state = "attached" /\ s.uid = u /\ (s.gap => s.told)
        /\ ~s.told => Continues(s.at, s.queue) /\ EndOf(s.at, s.queue) = k.from
      BY <1>1, <1>3 DEF Attached, SessionOf, Pending
  <2>2. CASE Full(c)
    <3>1. t = [s EXCEPT !.state = "dropped"]
        BY <1>3, <2>2 DEF Offered
    <3>2. SessionIs(t, s, "dropped", s.queue, s.at, s.gap, s.typed, s.sent, s.ended)
        BY <1>1, <3>1, SessionDropped DEF States
    <3> HIDE DEF t, s
    <3>3. /\ t \in Sessions /\ Len(t.queue) <= QueueCap /\ (InputOver(s) => InputOver(t))
          /\ t.uid = u /\ t.state = "dropped" /\ (t.gap => t.told)
          /\ ~t.told => Continues(t.at, t.queue)
        BY <1>1, <2>1, <3>2 DEF SessionIs, InputOver
    <3> QED
        BY <1>3, <3>3 DEF t, s
  <2>3. CASE ~Full(c)
    <3>1. t = [s EXCEPT !.queue = Append(s.queue, k)]
        BY <1>3, <2>3 DEF Offered
    <3>2. /\ Append(s.queue, k) \in Seq(Chunks) /\ Len(Append(s.queue, k)) = Len(s.queue) + 1
          /\ EndOf(s.at, Append(s.queue, k)) = k.to
          /\ Continues(s.at, s.queue) /\ k.from = EndOf(s.at, s.queue) => Continues(s.at, Append(s.queue, k))
        BY <1>1, QueueAppended
    <3>3. SessionIs(t, s, s.state, Append(s.queue, k), s.at, s.gap, s.typed, s.sent, s.ended)
        BY <1>1, <3>1, <3>2, SessionQueued
    <3>4. Len(s.queue) + 1 <= QueueCap
        BY <1>1, <2>3 DEF Full
    <3> HIDE DEF t, s
    <3>5. /\ t \in Sessions /\ Len(t.queue) <= QueueCap /\ (InputOver(s) => InputOver(t))
          /\ t.uid = u /\ t.state = "attached" /\ (t.gap => t.told)
          /\ ~t.told => Continues(t.at, t.queue) /\ EndOf(t.at, t.queue) = k.to
        BY <1>1, <2>1, <3>2, <3>3, <3>4 DEF SessionIs, InputOver
    <3> QED
        BY <1>3, <3>5 DEF t, s
  <2> QED
      BY <2>2, <2>3
<1> QED
    BY <1>2, <1>3

\* The transcript grows with the output, up to its limit.
LEMMA TranscriptGrows ==
  ASSUME StreamTypes, TranscriptSafe, NEW u \in Uids, NEW n \in 1..2, Distribute(u, n), u \notin broken
  PROVE  TranscriptSafe' /\ kept' \in [Uids -> Nat] /\ truncated' \in [Uids -> BOOLEAN]
<1>1. /\ kept[u] \in Nat /\ out[u] \in Nat /\ TranscriptMax \in Nat /\ truncated[u] \in BOOLEAN
      /\ kept[u] <= out[u] /\ kept[u] <= TranscriptMax /\ (~truncated[u] => kept[u] = out[u])
    BY SupervisorAssumption DEF StreamTypes, TranscriptSafe
<1>2. /\ out' = [out EXCEPT ![u] = out[u] + n] /\ kept' = [kept EXCEPT ![u] = Kept(u, n)]
      /\ truncated' = [truncated EXCEPT ![u] = truncated[u] \/ TranscriptMax - kept[u] < n]
      /\ broken' = broken
    BY DEF Distribute
<1>3. /\ Kept(u, n) \in Nat /\ Kept(u, n) <= out[u] + n /\ Kept(u, n) <= TranscriptMax
      /\ ~truncated[u] /\ ~(TranscriptMax - kept[u] < n) => Kept(u, n) = out[u] + n
    BY <1>1 DEF Kept
<1>4. /\ out'[u] = out[u] + n /\ kept'[u] = Kept(u, n) /\ kept' \in [Uids -> Nat]
      /\ \A v \in Uids : v # u => out'[v] = out[v] /\ kept'[v] = kept[v]
    BY <1>2, <1>3 DEF StreamTypes
<1>5. /\ truncated' \in [Uids -> BOOLEAN] /\ (truncated'[u] <=> truncated[u] \/ TranscriptMax - kept[u] < n)
      /\ \A v \in Uids : v # u => truncated'[v] = truncated[v]
  <2>1. PICK b \in BOOLEAN : b <=> (truncated[u] \/ TranscriptMax - kept[u] < n)
      OBVIOUS
  <2>2. truncated' = [truncated EXCEPT ![u] = b] /\ truncated \in [Uids -> BOOLEAN]
      BY <1>1, <1>2, <2>1 DEF StreamTypes
  <2> QED
      BY <2>1, <2>2, Zenon
<1> QED
    BY <1>2, <1>3, <1>4, <1>5 DEF TranscriptSafe

\* A chunk is written to the transcript and offered to the clients.
LEMMA DistributeKeeps ==
  ASSUME Streams, NEW u \in Uids, NEW n \in 1..2, Distribute(u, n) PROVE Streams'
<1> DEFINE k == [from |-> out[u], to |-> out[u] + n]
           S == {c \in Lossless : Attached(c, u)}
<1>1. StreamTypes /\ TranscriptSafe /\ BrokenSafe /\ CopySafe /\ InputSafe /\ SessionSafe
    BY DEF Streams
<1>2. /\ UNCHANGED <<launches, native, broken, inputClosed>> /\ native[u] \in {"alive", "dead"} /\ copy[u] = None
      /\ pipe' = [pipe EXCEPT ![u] = pipe[u] - n] /\ pipe[u] >= n
      /\ client' = [c \in Clients |-> Offered(c, u, k)]
      /\ out' = [out EXCEPT ![u] = out[u] + n]
    BY DEF Distribute, Reads, tableVars, procVars
<1>3. k \in Chunks /\ k.from = out[u] /\ k.to = out[u] + n /\ QueueCap \in Nat /\ S \in SUBSET Clients
    BY <1>1, SupervisorAssumption DEF StreamTypes, Chunks
<1>4. PICK q \in Orders(S) : copy' = [copy EXCEPT ![u] = IF q = <<>> THEN None ELSE [chunk |-> k, to |-> q]]
    BY DEF Distribute
<1>5. /\ q \in Seq(Clients) /\ \A m \in 1..Len(q) : q[m] \in S
      /\ \A x \in S : \E m \in 1..Len(q) : q[m] = x
      /\ \A l, m \in 1..Len(q) : l # m => q[l] # q[m]
    BY <1>3, <1>4, OrderDistinct
<1>6. /\ out' \in [Uids -> Nat] /\ out'[u] = k.to /\ \A v \in Uids : v # u => out'[v] = out[v]
      /\ pipe' \in [Uids -> Nat] /\ u \notin broken /\ \A v \in Uids : v # u => pipe'[v] = pipe[v]
    BY <1>1, <1>2, <1>3 DEF StreamTypes, BrokenSafe
<1> DEFINE w == [chunk |-> k, to |-> q]
<1>7. w \in Writes /\ w # None /\ w.chunk = k /\ w.to = q
    BY <1>3, <1>5, SupervisorAssumption DEF Writes, Chunks
<1>8. /\ copy' \in [Uids -> Writes \cup {None}] /\ \A v \in Uids : v # u => copy'[v] = copy[v]
      /\ copy'[u] = IF q = <<>> THEN None ELSE w
    BY <1>1, <1>4, <1>7 DEF StreamTypes
<1> HIDE DEF w, k
<1>9. ASSUME NEW c \in Clients
      PROVE /\ client'[c] \in Sessions /\ Len(client'[c].queue) <= QueueCap
            /\ InputOver(client[c]) => InputOver(client'[c])
            /\ client[c].state # "away" => client'[c].state # "away"
            /\ ~Attached(c, u) \/ c \in Lossless => client'[c] = client[c]
            /\ Attached(c, u) /\ c \notin Lossless =>
                 /\ client'[c].uid = u /\ client'[c].state \in {"attached", "dropped"}
                 /\ client'[c].gap => client'[c].told
                 /\ ~client'[c].told => Continues(client'[c].at, client'[c].queue)
                 /\ client'[c].state = "attached" /\ ~client'[c].told
                      => EndOf(client'[c].at, client'[c].queue) = k.to
  <2>1. client'[c] = Offered(c, u, k)
      BY <1>2
  <2> QED
      BY <1>2, <1>3, <1>6, <2>1, OfferedIs
<1>10. TranscriptSafe' /\ kept' \in [Uids -> Nat] /\ truncated' \in [Uids -> BOOLEAN]
    BY <1>1, <1>6, TranscriptGrows
<1>11. StreamTypes'
  <2>1. client' \in [Clients -> Sessions]
      BY <1>2, <1>9
  <2> QED
      BY <1>1, <1>2, <1>6, <1>8, <1>9, <1>10, <2>1 DEF StreamTypes
<1>12. CopySafe'
  <2>1. ASSUME NEW v \in Uids, v # u, copy[v] # None
        PROVE \A m \in 1..Len(copy[v].to) : /\ copy[v].to[m] \in Lossless
                                            /\ client'[copy[v].to[m]].state # "away"
      BY <1>1, <1>9, <2>1, SupervisorAssumption DEF CopySafe
  <2>2. \A m \in 1..Len(q) : q[m] \in Lossless /\ client'[q[m]].state # "away"
      BY <1>5, <1>9, SupervisorAssumption DEF Attached
  <2>3. ASSUME NEW v \in Uids, v # u, copy'[v] # None
        PROVE /\ native'[v] \in {"alive", "dead"}
              /\ copy'[v].chunk.to = out'[v] /\ copy'[v].to # <<>>
              /\ \A l, m \in 1..Len(copy'[v].to) : l # m => copy'[v].to[l] # copy'[v].to[m]
              /\ \A m \in 1..Len(copy'[v].to) : /\ copy'[v].to[m] \in Lossless
                                                /\ client'[copy'[v].to[m]].state # "away"
    <3>1. copy'[v] = copy[v] /\ out'[v] = out[v] /\ native'[v] = native[v]
        BY <1>2, <1>6, <1>8, <2>3
    <3>2. /\ native[v] \in {"alive", "dead"} /\ copy[v].chunk.to = out[v] /\ copy[v].to # <<>>
          /\ \A l, m \in 1..Len(copy[v].to) : l # m => copy[v].to[l] # copy[v].to[m]
        BY <1>1, <2>3, <3>1 DEF CopySafe
    <3> QED
        BY <2>1, <2>3, <3>1, <3>2
  <2>4. copy'[u] # None =>
           /\ native'[u] \in {"alive", "dead"}
           /\ copy'[u].chunk.to = out'[u] /\ copy'[u].to # <<>>
           /\ \A l, m \in 1..Len(copy'[u].to) : l # m => copy'[u].to[l] # copy'[u].to[m]
           /\ \A m \in 1..Len(copy'[u].to) : /\ copy'[u].to[m] \in Lossless
                                             /\ client'[copy'[u].to[m]].state # "away"
      BY <1>2, <1>5, <1>6, <1>7, <1>8, <2>2, SMTT(30)
  <2> QED
      BY <2>3, <2>4 DEF CopySafe
<1>13. InputSafe' /\ BrokenSafe'
  <2>1. \A d \in Clients : InputOver(client[d])' <=> InputOver(client'[d])
      BY DEF InputOver
  <2>2. InputSafe'
      BY <1>1, <1>2, <1>9, <2>1 DEF InputSafe, StreamTypes
  <2>3. BrokenSafe'
      BY <1>1, <1>2, <1>6, <1>8 DEF BrokenSafe
  <2> QED
      BY <2>2, <2>3
<1>14. ASSUME NEW c \in Clients PROVE SessionOf(c, client[c])'
  <2>1. SessionOf(c, client[c]) /\ (Alive(u) /\ \A v : Alive(v)' <=> Alive(v))
      BY <1>1, <1>2 DEF SessionSafe, Alive
  <2>2. /\ \A v \in Uids : v # u => (Pending(c, v)' <=> Pending(c, v))
        /\ ~Pending(c, u) /\ (Pending(c, u)' <=> c \in S)
    <3>1. \A v \in Uids : v # u => (Pending(c, v)' <=> Pending(c, v))
        BY <1>8 DEF Pending
    <3>2. Pending(c, u)' <=> \E m \in 1..Len(q) : q[m] = c
      <4>1. CASE q = <<>>
          BY <1>8, <4>1 DEF Pending
      <4>2. CASE q # <<>>
          BY <1>7, <1>8, <4>2 DEF Pending
      <4> QED
          BY <4>1, <4>2
    <3> QED
        BY <1>2, <1>5, <3>1, <3>2 DEF Pending
  <2>3. CASE ~Attached(c, u)
    <3>1. client'[c] = client[c]
        BY <1>9, <2>3
    <3>2. client[c].state \in {"attached", "finished"} => client[c].uid \in Uids /\ client[c].uid # u
        BY <2>1, <2>3 DEF SessionOf, Attached
    <3> QED
        BY <1>2, <1>6, <1>8, <2>1, <2>2, <3>1, <3>2 DEF SessionOf
  <2>4. CASE Attached(c, u) /\ c \in Lossless
    <3>1. client'[c] = client[c] /\ client[c].uid = u /\ client[c].state = "attached" /\ Pending(c, u)'
        BY <1>9, <2>2, <2>4 DEF Attached
    <3>2. copy'[u].chunk.from = out[u]
        BY <1>3, <1>7, <1>8, <3>1 DEF Pending
    <3> QED
        BY <1>2, <2>1, <2>2, <3>1, <3>2 DEF SessionOf
  <2>5. CASE Attached(c, u) /\ c \notin Lossless
    <3>1. launches'[u] = 1 /\ ~Pending(c, u)' /\ out'[u] = k.to
        BY <1>2, <1>6, <2>1, <2>2, <2>5 DEF SessionOf, Attached
    <3> QED
        BY <1>9, <2>5, <3>1 DEF SessionOf
  <2> QED
      BY <2>3, <2>4, <2>5
<1>15. SessionSafe'
    BY <1>14 DEF SessionSafe
<1> QED
    BY <1>10, <1>11, <1>12, <1>13, <1>15 DEF Streams

\* A Write fails: the output goes on without the clients and the transcript.
LEMMA WriteFailsKeeps ==
  ASSUME Streams, NEW u \in Uids, NEW n \in 1..2, WriteFails(u, n) PROVE Streams'
<1>1. StreamTypes /\ TranscriptSafe /\ BrokenSafe /\ CopySafe /\ InputSafe /\ SessionSafe
    BY DEF Streams
<1>2. /\ UNCHANGED <<launches, native, copy, truncated, client, inputClosed>>
      /\ copy[u] = None /\ native[u] \in {"alive", "dead"} /\ ~truncated[u]
      /\ pipe' = [pipe EXCEPT ![u] = 0] /\ out' = [out EXCEPT ![u] = out[u] + n]
      /\ broken' = broken \cup {u}
    BY DEF WriteFails, Reads, tableVars, procVars
<1>3. /\ pipe' \in [Uids -> Nat] /\ pipe'[u] = 0 /\ \A v \in Uids : v # u => pipe'[v] = pipe[v]
      /\ out' \in [Uids -> Nat] /\ out'[u] = out[u] + n /\ \A v \in Uids : v # u => out'[v] = out[v]
    BY <1>1, <1>2 DEF StreamTypes
<1>4. PICK k \in kept[u]..Kept(u, n) : k < kept[u] + n /\ kept' = [kept EXCEPT ![u] = k]
    BY DEF WriteFails
<1>5. k \in Nat /\ k <= out[u] + n /\ k <= TranscriptMax
  <2>1. /\ kept[u] \in Nat /\ out[u] \in Nat /\ TranscriptMax \in Nat
        /\ kept[u] <= out[u] /\ kept[u] <= TranscriptMax
      BY <1>1, SupervisorAssumption DEF StreamTypes, TranscriptSafe
  <2>2. Kept(u, n) \in Nat /\ Kept(u, n) <= TranscriptMax
      BY <2>1 DEF Kept
  <2> QED
      BY <1>4, <2>1, <2>2
<1>6. kept' \in [Uids -> Nat] /\ kept'[u] = k /\ \A v \in Uids : v # u => kept'[v] = kept[v]
    BY <1>1, <1>4, <1>5 DEF StreamTypes
<1>7. StreamTypes'
    BY <1>1, <1>2, <1>3, <1>6 DEF StreamTypes
<1>8. TranscriptSafe' /\ BrokenSafe'
    BY <1>1, <1>2, <1>3, <1>5, <1>6 DEF TranscriptSafe, BrokenSafe
<1>9. CopySafe' /\ InputSafe'
    BY <1>1, <1>2, <1>3 DEF CopySafe, InputSafe
<1>10. ASSUME NEW d \in Clients, NEW s, SessionOf(d, s) PROVE SessionOf(d, s)'
  <2>1. \A v : (Pending(d, v)' <=> Pending(d, v)) /\ (Alive(v)' <=> Alive(v))
      BY <1>2 DEF Pending, Alive
  <2> QED
      BY <1>2, <1>3, <1>10, <2>1 DEF SessionOf
<1>11. SessionSafe'
    BY <1>1, <1>2, <1>10 DEF SessionSafe
<1> QED
    BY <1>7, <1>8, <1>9, <1>11 DEF Streams

\* The next client that must not lose it takes the chunk, or has left.
LEMMA SendNextKeeps == ASSUME Streams, NEW u \in Uids, SendNext(u) PROVE Streams'
<1> DEFINE q == copy[u].to
           k == copy[u].chunk
           w == IF Len(q) = 1 THEN None ELSE [copy[u] EXCEPT !.to = Tail(q)]
<1>1. StreamTypes /\ TranscriptSafe /\ BrokenSafe /\ CopySafe /\ InputSafe /\ SessionSafe
    BY DEF Streams
<1>0. PICK c : c = Head(q)
    OBVIOUS
<1> DEFINE s == client[c]
<1>2. /\ UNCHANGED <<launches, native, pipe, out, kept, truncated, broken, inputClosed>> /\ copy[u] # None
      /\ copy' = [copy EXCEPT ![u] = w]
      /\ \/ Attached(c, u) /\ ~Full(c) /\ client' = [client EXCEPT ![c].queue = Append(s.queue, k)]
         \/ ~Attached(c, u) /\ client' = client
    BY <1>0 DEF SendNext, tableVars, procVars
<1>3. /\ copy[u] \in Writes /\ q \in Seq(Clients) /\ k \in Chunks /\ q # <<>> /\ k.to = out[u]
      /\ native[u] \in {"alive", "dead"} /\ QueueCap \in Nat /\ u \notin broken
    BY <1>1, <1>2, SupervisorAssumption DEF StreamTypes, CopySafe, BrokenSafe, Writes
<1>4. /\ \A l, m \in 1..Len(q) : l # m => q[l] # q[m]
      /\ \A m \in 1..Len(q) : q[m] \in Lossless /\ client[q[m]].state # "away"
    BY <1>1, <1>2 DEF CopySafe
<1>5. /\ Len(q) \in Nat /\ Len(q) # 0 /\ c = q[1] /\ Tail(q) \in Seq(Clients) /\ Len(Tail(q)) = Len(q) - 1
      /\ \A m \in 1..(Len(q) - 1) : Tail(q)[m] = q[m + 1]
    BY <1>3, <1>0
<1>6. c \in Clients /\ c \in Lossless
    BY <1>3, <1>4, <1>5
<1>7. /\ w \in Writes \cup {None} /\ (w # None <=> Len(q) # 1)
      /\ w # None => w.chunk = k /\ w.to = Tail(q)
  <2>1. [copy[u] EXCEPT !.to = Tail(q)] \in Writes /\ [copy[u] EXCEPT !.to = Tail(q)] # None
      BY <1>3, <1>5, SupervisorAssumption, ZenonT(40) DEF Writes, Chunks
  <2> QED
      BY <1>3, <2>1 DEF Writes
<1>8. copy' \in [Uids -> Writes \cup {None}] /\ copy'[u] = w /\ \A v \in Uids : v # u => copy'[v] = copy[v]
    BY <1>1, <1>2, <1>7 DEF StreamTypes
<1> DEFINE rest == Tail(q)
<1>9. /\ rest \in Seq(Clients) /\ Len(rest) = Len(q) - 1 /\ \A m \in 1..Len(rest) : rest[m] = q[m + 1]
      /\ w # None => w.chunk = k /\ w.to = rest
    BY <1>5, <1>7
<1> HIDE DEF w, rest
<1>10. /\ w # None => rest # <<>>
       /\ \A l, m \in 1..Len(rest) : l # m => rest[l] # rest[m]
       /\ \A m \in 1..Len(rest) : rest[m] \in Lossless /\ client[rest[m]].state # "away" /\ rest[m] # c
       /\ \A d : d # c => ((\E m \in 1..Len(rest) : rest[m] = d) <=> (\E m \in 1..Len(q) : q[m] = d))
  <2>1. \A m \in 1..Len(rest) : m + 1 \in 1..Len(q) /\ m + 1 # 1
      BY <1>5, <1>9
  <2>2. rest = <<>> <=> Len(rest) = 0
    <3>1. rest \in Seq(Clients)
        BY <1>9
    <3> QED
        BY <3>1
  <2>3. w # None => rest # <<>>
      BY <1>5, <1>7, <1>9, <2>2
  <2>4. \A l, m \in 1..Len(rest) : l # m => rest[l] # rest[m]
    <3>1. \A l, m \in 1..Len(rest) : l # m => l + 1 # m + 1
        BY <1>5, <1>9
    <3> QED
        BY <1>4, <1>9, <2>1, <3>1, SMTT(30)
  <2>5. \A m \in 1..Len(rest) : rest[m] \in Lossless /\ client[rest[m]].state # "away" /\ rest[m] # c
      BY <1>4, <1>5, <1>9, <2>1
  <2>6. ASSUME NEW d, d # c, NEW m \in 1..Len(q), q[m] = d PROVE \E l \in 1..Len(rest) : rest[l] = d
    <3>1. m # 1 /\ m - 1 \in 1..Len(rest) /\ (m - 1) + 1 = m
        BY <1>5, <1>9, <2>6
    <3> QED
        BY <1>9, <2>6, <3>1
  <2>7. ASSUME NEW d, NEW m \in 1..Len(rest), rest[m] = d PROVE \E l \in 1..Len(q) : q[l] = d
      BY <1>9, <2>1, <2>7
  <2> QED
      BY <2>3, <2>4, <2>5, <2>6, <2>7
<1>11. /\ s \in Sessions /\ SessionOf(c, s) /\ s.queue \in Seq(Chunks) /\ s.at \in Nat /\ Len(s.queue) \in Nat
       /\ Len(s.queue) <= QueueCap /\ client \in [Clients -> Sessions]
    BY <1>1, <1>6 DEF StreamTypes, SessionSafe, Sessions
<1>12. Pending(c, u)
    BY <1>2, <1>3, <1>5 DEF Pending
<1> DEFINE t == IF Attached(c, u) THEN [s EXCEPT !.queue = Append(s.queue, k)] ELSE s
<1>13. client' = [client EXCEPT ![c] = t]
    BY <1>2, <1>6, <1>11
<1>14. /\ t \in Sessions /\ Len(t.queue) <= QueueCap /\ (InputOver(s) => InputOver(t)) /\ t.state = s.state
       /\ ~Attached(c, u) => t = s
       /\ Attached(c, u) => /\ t.uid = u /\ t.state = "attached" /\ (t.gap => t.told)
                            /\ ~t.told => Continues(t.at, t.queue) /\ EndOf(t.at, t.queue) = k.to
  <2>1. CASE ~Attached(c, u)
      BY <1>11, <2>1
  <2>2. CASE Attached(c, u)
    <3>1. /\ s.state = "attached" /\ s.uid = u /\ (s.gap => s.told)
          /\ ~s.told => Continues(s.at, s.queue) /\ EndOf(s.at, s.queue) = k.from
        BY <1>3, <1>11, <1>12, <2>2 DEF Attached, SessionOf
    <3>2. /\ Append(s.queue, k) \in Seq(Chunks) /\ Len(Append(s.queue, k)) = Len(s.queue) + 1
          /\ EndOf(s.at, Append(s.queue, k)) = k.to
          /\ Continues(s.at, s.queue) /\ k.from = EndOf(s.at, s.queue) => Continues(s.at, Append(s.queue, k))
        BY <1>3, <1>11, QueueAppended
    <3>3. t = [s EXCEPT !.queue = Append(s.queue, k)]
        BY <2>2
    <3>4. SessionIs(t, s, s.state, Append(s.queue, k), s.at, s.gap, s.typed, s.sent, s.ended)
        BY <1>11, <3>2, <3>3, SessionQueued
    <3>5. Len(s.queue) + 1 <= QueueCap
        BY <1>2, <1>3, <1>11, <2>2 DEF Full
    <3> HIDE DEF t, s, k, q
    <3> QED
        BY <2>2, <3>1, <3>2, <3>4, <3>5 DEF SessionIs, InputOver
  <2> QED
      BY <2>1, <2>2
<1> HIDE DEF t
<1>15. client' \in [Clients -> Sessions] /\ client'[c] = t /\ \A d \in Clients : d # c => client'[d] = client[d]
    BY <1>6, <1>11, <1>13, <1>14
<1> HIDE DEF s, k, q
<1>16. StreamTypes' /\ TranscriptSafe' /\ BrokenSafe'
    BY <1>1, <1>2, <1>3, <1>8, <1>14, <1>15 DEF StreamTypes, TranscriptSafe, BrokenSafe
<1>17. CopySafe'
  <2>1. \A d \in Clients : client[d].state # "away" => client'[d].state # "away"
      BY <1>14, <1>15 DEF s
  <2>2. \A d \in Lossless : d \in Clients
      BY SupervisorAssumption
  <2>3. ASSUME NEW v \in Uids, v # u, copy'[v] # None
        PROVE /\ native'[v] \in {"alive", "dead"}
              /\ copy'[v].chunk.to = out'[v] /\ copy'[v].to # <<>>
              /\ \A l, m \in 1..Len(copy'[v].to) : l # m => copy'[v].to[l] # copy'[v].to[m]
              /\ \A m \in 1..Len(copy'[v].to) : /\ copy'[v].to[m] \in Lossless
                                                /\ client'[copy'[v].to[m]].state # "away"
    <3>1. copy'[v] = copy[v] /\ out'[v] = out[v] /\ native'[v] = native[v]
        BY <1>2, <1>8, <2>3
    <3>2. /\ native[v] \in {"alive", "dead"} /\ copy[v].chunk.to = out[v] /\ copy[v].to # <<>>
          /\ \A l, m \in 1..Len(copy[v].to) : l # m => copy[v].to[l] # copy[v].to[m]
          /\ \A m \in 1..Len(copy[v].to) : copy[v].to[m] \in Lossless /\ client[copy[v].to[m]].state # "away"
        BY <1>1, <2>3, <3>1 DEF CopySafe
    <3> QED
        BY <2>1, <2>2, <3>1, <3>2
  <2>4. copy'[u] # None =>
           /\ native'[u] \in {"alive", "dead"}
           /\ copy'[u].chunk.to = out'[u] /\ copy'[u].to # <<>>
           /\ \A l, m \in 1..Len(copy'[u].to) : l # m => copy'[u].to[l] # copy'[u].to[m]
           /\ \A m \in 1..Len(copy'[u].to) : /\ copy'[u].to[m] \in Lossless
                                             /\ client'[copy'[u].to[m]].state # "away"
      BY <1>2, <1>3, <1>8, <1>9, <1>10, <2>1, <2>2, SMTT(30)
  <2> QED
      BY <2>3, <2>4 DEF CopySafe
<1>18. InputSafe'
  <2>1. \A d \in Clients : InputOver(client[d])' <=> InputOver(client'[d])
      BY DEF InputOver
  <2> QED
      BY <1>1, <1>2, <1>14, <1>15, <2>1 DEF InputSafe, StreamTypes, s
<1>19. ASSUME NEW d \in Clients PROVE SessionOf(d, client[d])'
  <2>1. SessionOf(d, client[d]) /\ (\A v : Alive(v)' <=> Alive(v))
      BY <1>1, <1>2 DEF SessionSafe, Alive
  <2>2. \A v \in Uids : v # u => (Pending(d, v)' <=> Pending(d, v))
      BY <1>8 DEF Pending
  <2>3. CASE d = c
    <3>1. ~Pending(c, u)'
        BY <1>8, <1>9, <1>10 DEF Pending
    <3>2. CASE Attached(c, u)
      <4>1. launches[u] = 1
          BY <2>1, <2>3, <3>2 DEF SessionOf, Attached
      <4> QED
          BY <1>2, <1>3, <1>14, <1>15, <2>3, <3>1, <3>2, <4>1 DEF SessionOf
    <3>3. CASE ~Attached(c, u)
      <4>1. client'[d] = client[d]
          BY <1>14, <1>15, <2>3, <3>3 DEF s
      <4>2. client[d].state = "attached" => client[d].uid # u
          BY <2>3, <3>3 DEF Attached
      <4> QED
          BY <1>2, <1>8, <2>1, <2>2, <4>1, <4>2 DEF SessionOf
    <3> QED
        BY <3>2, <3>3
  <2>4. CASE d # c
    <3>1. Pending(d, u)' <=> Pending(d, u) /\ (w # None)
      <4>1. Pending(d, u)' <=> (w # None) /\ \E m \in 1..Len(rest) : rest[m] = d
          BY <1>8, <1>9 DEF Pending
      <4>2. Pending(d, u) <=> \E m \in 1..Len(q) : q[m] = d
          BY <1>2 DEF Pending, q
      <4> QED
          BY <1>10, <2>4, <4>1, <4>2
    <3>2. Pending(d, u) => w # None /\ copy'[u].chunk = copy[u].chunk
      <4>1. Pending(d, u) => Len(q) # 1
          BY <1>5, <2>4 DEF Pending, q
      <4> QED
          BY <1>7, <1>8, <4>1 DEF k
    <3>3. client'[d] = client[d]
        BY <1>15, <2>4
    <3> QED
        BY <1>2, <1>8, <2>1, <2>2, <3>1, <3>2, <3>3 DEF SessionOf
  <2> QED
      BY <2>3, <2>4
<1>20. SessionSafe'
    BY <1>19 DEF SessionSafe
<1> QED
    BY <1>16, <1>17, <1>18, <1>20 DEF Streams

\* The container is restarted: every connection is gone.
LEMMA RestartStreams == ASSUME Streams, RestartServe PROVE Streams'
<1>1. StreamTypes /\ TranscriptSafe /\ BrokenSafe /\ CopySafe /\ InputSafe /\ SessionSafe
    BY DEF Streams
<1>2. /\ UNCHANGED <<launches, out, kept, truncated, broken, inputClosed>>
      /\ pipe' = [u \in Uids |-> 0] /\ copy' = [u \in Uids |-> None] /\ native' = [u \in Uids |-> "none"]
      /\ client' = [c \in Clients |-> IF client[c].state \in {"attached", "dropped"}
                                      THEN [client[c] EXCEPT !.state = "left", !.queue = <<>>]
                                      ELSE client[c]]
    BY DEF RestartServe, Restart
<1>3. /\ \A u \in Uids : copy'[u] = None /\ ~Alive(u)'
      /\ pipe' \in [Uids -> Nat] /\ copy' \in [Uids -> Writes \cup {None}]
    BY <1>2 DEF Alive
<1>4. ASSUME NEW c \in Clients
      PROVE /\ client'[c] \in Sessions /\ Len(client'[c].queue) <= QueueCap
            /\ InputOver(client[c]) => InputOver(client'[c])
            /\ SessionOf(c, client[c])'
  <2> DEFINE s == client[c]
             t == [s EXCEPT !.state = "left", !.queue = <<>>]
  <2>1. s \in Sessions /\ Len(s.queue) <= QueueCap /\ QueueCap \in Nat /\ SessionOf(c, s)
      BY <1>1, SupervisorAssumption DEF StreamTypes, SessionSafe
  <2>2. CASE s.state \in {"attached", "dropped"}
    <3>1. client'[c] = t
        BY <1>2, <2>2
    <3>2. SessionIs(t, s, "left", <<>>, s.at, s.gap, s.typed, s.sent, s.ended)
        BY <2>1, QueueEmpty, SessionMoved DEF States
    <3> HIDE DEF t, s
    <3>3. /\ client'[c].state = "left" /\ client'[c].uid \in Uids /\ launches'[client'[c].uid] = 1
          /\ client'[c].gap => client'[c].told
        BY <1>2, <2>1, <2>2, <3>1, <3>2 DEF SessionIs, SessionOf
    <3>4. /\ client'[c] \in Sessions /\ Len(client'[c].queue) <= QueueCap
          /\ InputOver(s) => InputOver(client'[c])
        BY <2>1, <2>2, <3>1, <3>2, QueueEmpty DEF SessionIs, InputOver
    <3>5. SessionOf(c, client[c])'
        BY <3>3 DEF SessionOf
    <3> QED
        BY <3>4, <3>5 DEF s
  <2>3. CASE s.state \notin {"attached", "dropped"}
    <3>1. client'[c] = client[c]
        BY <1>2, <2>3
    <3>2. SessionOf(c, client[c])'
        BY <1>2, <1>3, <2>1, <2>3, <3>1 DEF SessionOf
    <3> QED
        BY <2>1, <3>1, <3>2
  <2> QED
      BY <2>2, <2>3
<1>5. StreamTypes'
  <2>1. client' \in [Clients -> Sessions]
      BY <1>2, <1>4
  <2> QED
      BY <1>1, <1>2, <1>3, <1>4, <2>1 DEF StreamTypes
<1>6. TranscriptSafe' /\ BrokenSafe' /\ CopySafe' /\ SessionSafe'
    BY <1>1, <1>2, <1>3, <1>4 DEF TranscriptSafe, BrokenSafe, CopySafe, SessionSafe
<1>7. InputSafe'
  <2>1. \A d \in Clients : InputOver(client[d])' <=> InputOver(client'[d])
      BY DEF InputOver
  <2> QED
      BY <1>1, <1>2, <1>4, <2>1 DEF InputSafe, StreamTypes
<1> QED
    BY <1>5, <1>6, <1>7 DEF Streams

-----------------------------------------------------------------------------
(* The streams in all steps.                                               *)

\* The initial states satisfy the stream part.
LEMMA StreamsInit == Init => Streams
<1> SUFFICES ASSUME Init PROVE Streams
    OBVIOUS
<1>1. Away \in Sessions /\ Away.state = "away" /\ Away.uid = None /\ Away.queue = <<>> /\ ~Away.gap
    BY QueueEmpty DEF Away, Sessions
<1>2. /\ \A u \in Uids : /\ pipe[u] = 0 /\ out[u] = 0 /\ kept[u] = 0 /\ ~truncated[u]
                         /\ copy[u] = None /\ inputClosed[u] = None
      /\ \A c \in Clients : client[c] = Away
    BY DEF Init
<1>3. /\ pipe \in [Uids -> Nat] /\ out \in [Uids -> Nat] /\ kept \in [Uids -> Nat]
      /\ truncated \in [Uids -> BOOLEAN] /\ client \in [Clients -> Sessions]
      /\ inputClosed \in [Uids -> Clients \cup {None}] /\ copy \in [Uids -> Writes \cup {None}]
    BY <1>1 DEF Init
<1>4. StreamTypes
  <2>1. \A c \in Clients : Len(client[c].queue) <= QueueCap
      BY <1>1, <1>2, QueueEmpty, SupervisorAssumption
  <2> QED
      BY <1>3, <2>1 DEF StreamTypes
<1>5. TranscriptSafe /\ BrokenSafe /\ CopySafe /\ InputSafe
    BY <1>2, SupervisorAssumption DEF TranscriptSafe, BrokenSafe, CopySafe, InputSafe
<1>6. SessionSafe
    BY <1>1, <1>2 DEF SessionSafe, SessionOf
<1> QED
    BY <1>4, <1>5, <1>6 DEF Streams

\* A step that touches neither the streams, the processes nor the launches.
LEMMA StreamsSteady ==
  ASSUME Streams, UNCHANGED streamVars, launches' = launches, native' = native PROVE Streams'
<1>1. \A u \in Uids : copy[u] # None => native'[u] \in {"alive", "dead"}
    BY DEF Streams, CopySafe
<1>2. \A u \in Uids : Alive(u)' <=> Alive(u)
    BY DEF Alive
<1> QED
    BY <1>1, <1>2, StreamFrame

\* The steps of a start.
LEMMA StartStreams == ASSUME Control, Streams, NEW t \in Threads, StartStep(t) PROVE Streams'
<1>1. /\ mu = t /\ t # None /\ attempt.uid \in Uids /\ launches[attempt.uid] = 0
      /\ launches \in [Uids -> {0, 1}] /\ native \in [Uids -> {"none", "alive", "dead", "cleaned", "over"}]
    BY SupervisorAssumption DEF StartStep, Control, ControlTypes, AttemptSet, AttemptSafe
<1>2. CASE OpenTranscript \/ PrepareFiles \/ PrepareAliases \/ PrepareProjection
           \/ PrepareEnvironment \/ PrepareCommand \/ RollBackStart(t)
  <2>1. UNCHANGED streamVars /\ launches' = launches /\ native' = native
      BY <1>2 DEF OpenTranscript, PrepareFiles, PrepareAliases, PrepareProjection, PrepareEnvironment,
                  PrepareCommand, Prepared, RollBackStart, tableVars
  <2> QED
      BY <2>1, StreamsSteady
<1>3. CASE LaunchProcess(t) \/ FailStart(t)
  <2>1. /\ UNCHANGED streamVars
        /\ \A u \in Uids : u # attempt.uid => launches'[u] = launches[u] /\ native'[u] = native[u]
      BY <1>1, <1>3 DEF LaunchProcess, Launch, StartNative, FailStart, RecordFailure
  <2>2. native[attempt.uid] \notin {"alive", "dead", "cleaned"}
      BY <1>1, IdsAssumption DEF Control, AttemptSafe, TableSafe, Alive
  <2>3. copy[attempt.uid] = None
      BY <1>1, <2>2 DEF Streams, CopySafe
  <2>4. \A u \in Uids : copy[u] # None => native'[u] \in {"alive", "dead"}
      BY <1>1, <2>1, <2>3 DEF Streams, CopySafe
  <2>5. \A u \in Uids : launches[u] = 1 => launches'[u] = 1 /\ (~Alive(u) => ~Alive(u)')
      BY <1>1, <2>1 DEF Alive
  <2> QED
      BY <2>1, <2>4, <2>5, StreamFrame
<1> QED
    BY <1>2, <1>3 DEF StartStep

\* The end of a process.
LEMMA EndStreams ==
  ASSUME Control, Streams, NEW u \in Uids, ProcessEnds(u) \/ CleanUp(u) \/ CloseExit(u) PROVE Streams'
<1>1. native \in [Uids -> {"none", "alive", "dead", "cleaned", "over"}]
    BY DEF Control, ControlTypes
<1>2. /\ UNCHANGED streamVars /\ launches' = launches
      /\ \A v \in Uids : v # u => native'[v] = native[v]
      /\ \/ native[u] = "alive" /\ native'[u] = "dead"
         \/ native[u] = "dead" /\ native'[u] = "cleaned" /\ copy[u] = None
         \/ native[u] = "cleaned" /\ native'[u] = "over"
    BY <1>1 DEF ProcessEnds, CleanUp, NativeWaited, CopyEnds, CloseExit, Finish, tableVars
<1>3. \A v \in Uids : copy[v] # None => native'[v] \in {"alive", "dead"}
    BY <1>2 DEF Streams, CopySafe
<1>4. \A v \in Uids : launches[v] = 1 => launches'[v] = 1 /\ (~Alive(v) => ~Alive(v)')
    BY <1>2 DEF Alive
<1> QED
    BY <1>2, <1>3, <1>4, StreamFrame

\* Every step keeps the stream part.
LEMMA StreamsKept == Control /\ Streams /\ [Next]_vars => Streams'
<1> SUFFICES ASSUME Control, Streams, [Next]_vars PROVE Streams'
    OBVIOUS
<1>1. ASSUME NEW h \in Handlers, NEW op \in {"start", "stop"}, NEW u \in Uids, Request(h, op, u) PROVE Streams'
    BY <1>1, StreamsSteady DEF Request, tableVars, procVars
<1>2. CASE BeginRun \/ RunEnds \/ StopRun \/ PruneHistory
    BY <1>2, StreamsSteady DEF BeginRun, RunEnds, Returned, PruneSet, StopRun, PruneHistory, tableVars, procVars
<1>3. ASSUME NEW t \in Threads,
             StartAnswered(t) \/ BeginStart(t) \/ BeginStop(t) \/ StopNothing(t) \/ GraceExpires(t) \/ StopReturns(t)
      PROVE Streams'
    BY <1>3, StreamsSteady DEF StartAnswered, BeginStart, BeginStop, StopNothing, GraceExpires, StopReturns,
                               Returned, PruneSet, tableVars, procVars
<1>4. ASSUME NEW t \in Threads, StartStep(t) PROVE Streams'
    BY <1>4, StartStreams
<1>5. ASSUME NEW u \in Uids, ProcessEnds(u) \/ CleanUp(u) \/ CloseExit(u) PROVE Streams'
    BY <1>5, EndStreams
<1>6. ASSUME NEW u \in Uids, Emit(u) \/ SendNext(u) PROVE Streams'
    BY <1>6, EmitKeeps, SendNextKeeps
<1>7. ASSUME NEW u \in Uids, NEW n \in 1..2, Distribute(u, n) \/ WriteFails(u, n) PROVE Streams'
    BY <1>7, DistributeKeeps, WriteFailsKeeps
<1>8. ASSUME NEW c \in Clients, NEW u \in Uids, Attach(c, u) PROVE Streams'
    BY <1>8, AttachKeeps
<1>9. ASSUME NEW c \in Clients, ClientStep(c) PROVE Streams'
    BY <1>9, ReadChunkKeeps, SeeExitKeeps, GoneKeeps, InputKeeps, CloseInputKeeps DEF ClientStep
<1>10. CASE Cancel \/ WaitForHandlers \/ BeginShutdown \/ EndShutdown
    BY <1>10, StreamsSteady DEF Cancel, WaitForHandlers, BeginShutdown, EndShutdown, tableVars, procVars
<1>11. CASE RestartServe
    BY <1>11, RestartStreams
<1>12. CASE UNCHANGED vars
    BY <1>12, StreamsSteady DEF vars, tableVars, procVars
<1> QED
    BY <1>1, <1>2, <1>3, <1>4, <1>5, <1>6, <1>7, <1>8, <1>9, <1>10, <1>11, <1>12 DEF Next

-----------------------------------------------------------------------------
(* Theorems.                                                               *)

\* Both parts hold in every reachable state of the supervisor.
THEOREM SupervisorInvariant == Spec => []IInv
<1>1. Init => IInv
    BY ControlInit, StreamsInit DEF IInv
<1>2. IInv /\ [Next]_vars => IInv'
    BY ControlKept, StreamsKept DEF IInv
<1> QED
    BY <1>1, <1>2, PTL DEF Spec

\* Every variable keeps its type: the transcript never grows past its limit
\* or the output, and no queue past its capacity.
THEOREM SupervisorTypes == Spec => []TypeOK
<1>1. IInv => TypeOK
    BY DEF IInv, Control, ControlTypes, Streams, StreamTypes, TranscriptSafe, TypeOK, CallSet, Owners
<1> QED
    BY <1>1, SupervisorInvariant, PTL

\* However requests are repeated and whenever the container restarts, a UID
\* is launched again only after the directory of its last launch was pruned.
THEOREM StartsOnce == Spec => []AtMostOnce
<1>1. IInv => AtMostOnce
  <2> SUFFICES ASSUME IInv PROVE AtMostOnce
      OBVIOUS
  <2>1. launches \in [Uids -> {0, 1}] /\ removed \in [Uids -> Nat]
      BY DEF IInv, Control, ControlTypes, StartsSafe
  <2>2. ASSUME NEW u \in Uids, NEW v \in Uids, u # v, Identity[u] = Identity[v],
               launches[u] > 0, launches[v] > 0, removed[u] = 0, removed[v] = 0
        PROVE  FALSE
    <3>1. IdOf[u] = IdOf[v]
        BY <2>2, SupervisorAssumption
    <3>2. owner[IdOf[u]] = u /\ owner[IdOf[v]] = v
        BY <2>1, <2>2 DEF IInv, Control, StartsSafe
    <3> QED
        BY <2>2, <3>1, <3>2
  <2>3. \A u \in Uids : launches[u] <= 1 /\ (removed[u] > 0 \/ removed[u] = 0)
      BY <2>1
  <2> QED
      BY <2>2, <2>3 DEF AtMostOnce
<1> QED
    BY <1>1, SupervisorInvariant, PTL

\* No end of another process, nor a late cleanup, takes away the credential
\* links of a process that runs or whose output is still read.
THEOREM LinksStay == Spec => []AliasesLive
<1>1. IInv => AliasesLive
    BY DEF IInv, Control, LinksSafe, Linked, AliasesLive
<1> QED
    BY <1>1, SupervisorInvariant, PTL

\* When Serve has returned no process runs: neither one whose start was under
\* way when the context ended, nor the run of a service.
THEOREM ShutdownStops == Spec => []ShutdownComplete
<1>1. IInv => ShutdownComplete
  <2> SUFFICES ASSUME IInv, serve = "done", NEW u \in Uids PROVE native[u] \in {"none", "over"}
      BY DEF ShutdownComplete
  <2>1. IdOf[u] \in Ids
      BY IdsAssumption
  <2>2. ~Active(IdOf[u])
      BY <2>1 DEF IInv, Control, ServeSafe
  <2>3. ~Alive(u)
      BY <2>2 DEF IInv, Control, TableSafe, Active
  <2> QED
      BY <2>3 DEF IInv, Control, ControlTypes, Alive
<1> QED
    BY <1>1, SupervisorInvariant, PTL

\* Replay and live output join without a gap unless the client was told, a
\* lossless client that was not cut off has everything unless the transcript
\* could not be written, and a process's input is closed only after everything
\* its client sent was written.
THEOREM NothingLost == Spec => []StreamsWhole
<1>1. IInv => OutputWhole
    BY DEF IInv, Streams, SessionSafe, SessionOf, OutputWhole
<1>2. IInv => InputWhole
    BY DEF IInv, Streams, InputSafe, InputOver, InputWhole
<1> QED
    BY <1>1, <1>2, SupervisorInvariant, PTL DEF StreamsWhole

=============================================================================
