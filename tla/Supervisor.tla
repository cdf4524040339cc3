----------------------------- MODULE Supervisor -----------------------------
(***************************************************************************)
(* rc-kube serve: the process supervisor of one Workspace Pod.             *)
(*                                                                         *)
(* Threads are the protocol handlers, the loop that keeps a resident       *)
(* service running, and the goroutines Shutdown starts, one per process.   *)
(* A start holds Supervisor.mu from the check of the identity to the       *)
(* launch; everything else takes the lock for one step.  Each process has  *)
(* a goroutine that copies its output and one that waits for its end.      *)
(*                                                                         *)
(* Attached clients see the output as intervals of positions <<from, to>>, *)
(* so that a gap and a lost tail are visible.                              *)
(*                                                                         *)
(* Pruning forgets a process, and its UID may be started again.  Then it   *)
(* is another process, with its own output and clients: an element of Uids *)
(* is one life of a process, and Identity names the UID by its first life. *)
(***************************************************************************)
EXTENDS ProcessTable, Sequences, FiniteSets

CONSTANTS
  Identity,       \* per life of a process, the UID it has, named by its first life
  Handlers,       \* protocol connections that may be served at once
  Service,        \* the thread of keepServiceRunning
  ServiceRuns,    \* the UIDs of the service's runs, in the order they start
  KeepRuns,       \* serviceRunHistory
  Links,          \* credential links in the file system
  Aliased,        \* per UID, the links of its generic credential directories
  Projected,      \* per UID, the links of its mounts, SSH config, Agent home
  Clients, Lossless, Framed,
  QueueCap,       \* capacity of a client's channel
  TranscriptMax,  \* Supervisor.maxLog
  Loads           \* how much of everything one behaviour exercises

Threads == Handlers \cup {Service} \cup Ids

\* A load: the identities asked for, the connections and clients that take
\* part, whether there is a service, and the bounds of a behaviour.
LoadSet == [uids : SUBSET Uids, handlers : SUBSET Handlers, service : BOOLEAN, clients : SUBSET Clients,
            output : Nat, input : Nat, restarts : Nat]

\* The runs of a service have UIDs of their own, which are not used again,
\* under names with a prefix that no other process has.
ASSUME SupervisorAssumption ==
  /\ None \notin Threads \cup [chunk : [from : Nat, to : Nat], to : Seq(Clients)]
  /\ \A S \in SUBSET Ids : S # None
  /\ Service \notin Handlers \cup Ids /\ Handlers \cap Ids = {}
  /\ Aliased \in [Uids -> SUBSET Links] /\ Projected \in [Uids -> SUBSET Links]
  /\ Lossless \subseteq Clients /\ Framed \subseteq Clients /\ IsFiniteSet(Clients)
  /\ QueueCap \in Nat /\ TranscriptMax \in Nat /\ Loads \subseteq LoadSet
  /\ Identity \in [Uids -> Uids]
  /\ \A u \in Uids : Identity[Identity[u]] = Identity[u] /\ IdOf[Identity[u]] = IdOf[u]
  /\ ServiceRuns \in Seq(Uids)
  /\ \A n \in DOMAIN ServiceRuns, u \in Uids : Identity[u] = Identity[ServiceRuns[n]] => u = ServiceRuns[n]
  /\ \A m, n \in DOMAIN ServiceRuns : m # n => ServiceRuns[m] # ServiceRuns[n]
  /\ \A l \in Loads, n \in DOMAIN ServiceRuns : \A u \in l.uids : IdOf[u] # IdOf[ServiceRuns[n]]

VARIABLES
  load,           \* the load of this behaviour, an element of Loads
  serve,          \* how far Serve has come
  restarts,       \* how often the container was restarted
  mu, attempt,    \* who holds Supervisor.mu to start a process, and its progress
  calls,          \* per thread, the call it is in
  runs,           \* how many runs the service loop has begun
  native, signal, \* per UID, the native process and what it was sent
  held,           \* per UID, supervisedProcess.credentialLinks
  aliases,        \* per link, the owners of Supervisor.aliases, or None
  pipe, out, copy,       \* per UID: bytes in the pipe, bytes read, Write in progress
  kept, truncated,       \* per UID: transcriptLen, and whether the limit was passed
  broken,         \* the UIDs whose output copy ended with a failed Write
  client,         \* per client, its attach session
  inputClosed     \* per UID, who closed the process's input

callVars   == <<load, serve, restarts, mu, attempt, calls, runs>>
procVars   == <<native, signal, held, aliases>>
streamVars == <<pipe, out, copy, kept, truncated, broken, client, inputClosed>>
vars == <<tableVars, callVars, procVars, streamVars>>

Idle    == [op |-> "idle", uid |-> None, pc |-> "idle"]
Away    == [state |-> "away", uid |-> None, queue |-> <<>>, at |-> 0, told |-> FALSE,
            gap |-> FALSE, typed |-> 0, sent |-> 0, ended |-> FALSE]

TypeOK ==
  /\ TableTypeOK
  /\ serve \in {"serving", "cancelled", "drained", "stopping", "done"}
  /\ mu \in Threads \cup {None}
  /\ calls \in [Threads -> [op : {"idle", "start", "stop", "run"}, uid : Uids \cup {None},
                            pc : {"idle", "called", "preparing", "grace", "killed"}]]
  /\ native \in [Uids -> {"none", "alive", "dead", "cleaned", "over"}]
  /\ signal \in [Uids -> {"none", "term", "kill"}]
  /\ aliases \in [Links -> (SUBSET Ids) \cup {None}]
  /\ \A u \in Uids : kept[u] <= out[u] /\ kept[u] <= TranscriptMax
  /\ \A c \in Clients : Len(client[c].queue) <= QueueCap

Init ==
  /\ TableInit
  /\ load \in Loads
  /\ serve = "serving" /\ restarts = 0 /\ mu = None /\ attempt = None /\ runs = 0
  /\ calls   = [t \in Threads |-> Idle]
  /\ native  = [u \in Uids |-> "none"]
  /\ signal  = [u \in Uids |-> "none"]
  /\ held    = [u \in Uids |-> {}]
  /\ aliases = [l \in Links |-> None]
  /\ pipe = [u \in Uids |-> 0] /\ out  = [u \in Uids |-> 0] /\ copy = [u \in Uids |-> None]
  /\ kept = [u \in Uids |-> 0] /\ truncated = [u \in Uids |-> FALSE]
  /\ broken = {}
  /\ client  = [c \in Clients |-> Away]
  /\ inputClosed = [u \in Uids |-> None]

Cancelled == serve # "serving"
InCall(t, op, pc) == calls[t].op = op /\ calls[t].pc = pc
Return(t) == calls' = [calls EXCEPT ![t] = Idle]

-----------------------------------------------------------------------------
(* Credential links shared by processes: the first owner makes the link,   *)
(* the last one removes it.                                                *)

Claimed(i, S) ==
  [l \in Links |-> IF l \notin S THEN aliases[l]
                   ELSE IF aliases[l] = None THEN {i} ELSE aliases[l] \cup {i}]

\* Mutant: the first owner to end removes the link.
ReleasedAll(i, S) == [l \in Links |-> IF l \in S THEN None ELSE aliases[l]]

Released(i, S) ==
  [l \in Links |-> IF l \notin S \/ aliases[l] = None THEN aliases[l]
                   ELSE IF aliases[l] \ {i} = {} THEN None ELSE aliases[l] \ {i}]

-----------------------------------------------------------------------------
(* Start.                                                                  *)

\* A request names a UID; the controller may repeat it at any time.
Request(h, op, u) ==
  /\ ~Cancelled /\ calls[h] = Idle /\ h \in load.handlers /\ u \in load.uids /\ Identity[u] = u
  /\ calls' = [calls EXCEPT ![h] = [op |-> op, uid |-> u, pc |-> "called"]]
  /\ UNCHANGED <<tableVars, procVars, streamVars, load, serve, restarts, mu, attempt, runs>>

\* The loop of a service begins a run under a fresh identity.
BeginRun ==
  /\ ~Cancelled /\ load.service /\ calls[Service] = Idle /\ runs < Len(ServiceRuns)
  /\ runs' = runs + 1
  /\ calls' = [calls EXCEPT ![Service] = [op |-> "start", uid |-> ServiceRuns[runs + 1], pc |-> "called"]]
  /\ UNCHANGED <<tableVars, procVars, streamVars, load, serve, restarts, mu, attempt>>

\* After a start returned with a process, the service waits for its end.
Answered(t, ok) ==
  calls' = [calls EXCEPT ![t] = IF t = Service /\ ok THEN [@ EXCEPT !.op = "run", !.pc = "called"]
                                ELSE Idle]

StartAnswered(t) ==
  /\ InCall(t, "start", "called") /\ mu = None
  /\ Cancelled \/ ~Free(calls[t].uid)
  /\ Answered(t, ~Cancelled /\ Owns(calls[t].uid))
  /\ UNCHANGED <<tableVars, procVars, streamVars, load, serve, restarts, mu, attempt, runs>>

\* The lives a UID has left: how often a behaviour may launch it.
Lives(t, u) == {v \in Uids : /\ Identity[v] = Identity[u] /\ launches[v] = 0
                             /\ t # Service => v \in load.uids}

\* The name is free: claim it and prepare the process under the lock.
BeginStart(t) ==
  /\ InCall(t, "start", "called") /\ mu = None /\ ~Cancelled
  /\ Free(calls[t].uid)
  /\ \E u \in Lives(t, calls[t].uid) :
       /\ Claim(u)
       /\ attempt' = [uid |-> u, step |-> "transcript", links |-> {}]
       /\ calls' = [calls EXCEPT ![t].uid = u, ![t].pc = "preparing"]
  /\ mu' = t
  /\ UNCHANGED <<table, record, launches, removed, procVars, streamVars, load, serve, restarts, runs>>

EndStart(t, ok) == /\ mu' = None /\ attempt' = None /\ Answered(t, ok)

\* prepare checks for cancellation before every operation; the context may
\* end after the last check, and the process is launched all the same.
Prepared(step, next, links) ==
  /\ ~Cancelled /\ attempt.step = step
  /\ attempt' = [attempt EXCEPT !.step = next, !.links = @ \cup links]
  /\ aliases' = Claimed(IdOf[attempt.uid], links)
  /\ UNCHANGED <<tableVars, native, signal, held, streamVars, load, serve, restarts, mu, calls, runs>>

OpenTranscript     == Prepared("transcript", "files", {})
PrepareFiles       == Prepared("files", "aliases", {})
PrepareAliases     == Prepared("aliases", "projections", Aliased[attempt.uid])
PrepareProjection  == Prepared("projections", "environment", Projected[attempt.uid])
PrepareEnvironment == Prepared("environment", "command", {})
PrepareCommand     == Prepared("command", "native", {})  \* and launchLocked's own check

\* What ends an attempt releases its links.  Those that an unfinished
\* prepareCredentialAliases had claimed are not among them, and stay.
ReleaseAttempt ==
  IF attempt.step = "aliases"
  THEN \E left \in SUBSET Aliased[attempt.uid] : aliases' = Claimed(IdOf[attempt.uid], left)
  ELSE aliases' = Released(IdOf[attempt.uid], attempt.links)

\* A cancelled start, and one without a transcript, gives the identity back.
\* So does one whose failure cannot be recorded.
RollBackStart(t) ==
  /\ Rollback(attempt.uid)
  /\ ReleaseAttempt
  /\ EndStart(t, FALSE)
  /\ UNCHANGED <<table, record, launches, removed, native, signal, held, streamVars, load, serve, restarts, runs>>

\* Any other failure is a process that has exited.
FailStart(t) ==
  /\ attempt.step # "transcript"
  /\ RecordFailure(attempt.uid)
  /\ native' = [native EXCEPT ![attempt.uid] = "over"]
  /\ ReleaseAttempt
  /\ EndStart(t, TRUE)
  /\ UNCHANGED <<owner, signal, held, streamVars, load, serve, restarts, runs>>

\* osprocess.Start: the child runs and its process tree is owned.  A child
\* whose tree cannot be claimed is killed and waited for: that start fails.
StartNative(u) == native' = [native EXCEPT ![u] = "alive"]

LaunchProcess(t) ==
  /\ attempt.step = "native"
  /\ Launch(attempt.uid)
  /\ StartNative(attempt.uid)
  /\ held' = [held EXCEPT ![attempt.uid] = attempt.links]
  /\ EndStart(t, TRUE)
  /\ UNCHANGED <<owner, signal, aliases, streamVars, load, serve, restarts, runs>>

StartStep(t) ==
  /\ mu = t
  /\ \/ OpenTranscript \/ PrepareFiles \/ PrepareAliases \/ PrepareProjection
     \/ PrepareEnvironment \/ PrepareCommand
     \/ LaunchProcess(t) \/ FailStart(t) \/ RollBackStart(t)

-----------------------------------------------------------------------------
(* The end of a process.                                                   *)

\* A process ends by itself, when asked to, or when killed.
ProcessEnds(u) ==
  /\ native[u] = "alive"
  /\ native' = [native EXCEPT ![u] = "dead"]
  /\ UNCHANGED <<tableVars, callVars, signal, held, aliases, streamVars>>

\* outputCopy.wait: all that was written has been read and handed over, or a
\* failed Write has ended the copy.  Its delay only runs while the copy waits
\* on an empty pipe, so it loses nothing.
CopyEnds(u) == pipe[u] = 0 /\ copy[u] = None

\* native.Wait returns: the child has ended, and then its output.
NativeWaited(u) == native[u] = "dead" /\ CopyEnds(u)

\* wait, first half: native.Wait has read the output to its end, and the
\* credentials are released under Supervisor.mu.
CleanUp(u) ==
  /\ NativeWaited(u) /\ mu = None
  /\ native' = [native EXCEPT ![u] = "cleaned"]
  /\ aliases' = Released(IdOf[u], held[u])
  /\ held' = [held EXCEPT ![u] = {}]
  /\ UNCHANGED <<tableVars, callVars, signal, streamVars>>

\* wait, second half: the state ends, then exit is closed.
CloseExit(u) ==
  /\ native[u] = "cleaned"
  /\ native' = [native EXCEPT ![u] = "over"]
  /\ Finish(IdOf[u])
  /\ UNCHANGED <<callVars, signal, held, aliases, streamVars>>

\* pruneServiceRuns: of the ended runs, the newest KeepRuns stay.
EndedRuns == {n \in 1..runs : Prunable(IdOf[ServiceRuns[n]])}
ServicePruned ==
  {IdOf[ServiceRuns[n]] : n \in {k \in EndedRuns : Cardinality({j \in EndedRuns : j > k}) >= KeepRuns}}

\* A call that returns; a run of the service prunes its predecessors.
Returned(t) == /\ Return(t)
               /\ PruneSet(IF t = Service THEN ServicePruned ELSE {})

\* Stop marks a running process and asks its tree to end.
BeginStop(t) ==
  /\ InCall(t, "stop", "called") /\ mu = None
  /\ LET i == IdOf[calls[t].uid] IN
     /\ Active(i)
     /\ RequestStop(i)
     /\ calls' = [calls EXCEPT ![t].uid = table[i].uid, ![t].pc = "grace"]
     /\ signal' = [signal EXCEPT ![table[i].uid] = IF @ = "none" THEN "term" ELSE @]
  /\ UNCHANGED <<owner, record, launches, removed, native, held, aliases, streamVars,
                 load, serve, restarts, mu, attempt, runs>>

\* Nothing runs under the name.
StopNothing(t) ==
  /\ InCall(t, "stop", "called") /\ mu = None /\ ~Active(IdOf[calls[t].uid])
  /\ Returned(t)
  /\ UNCHANGED <<procVars, streamVars, load, serve, restarts, mu, attempt, runs>>

\* Mutant: the grace period ends without a kill.
GraceEnds(t) ==
  /\ InCall(t, "stop", "grace")
  /\ calls' = [calls EXCEPT ![t].pc = "killed"]
  /\ UNCHANGED <<tableVars, procVars, streamVars, load, serve, restarts, mu, attempt, runs>>

\* The grace period is over: the tree is killed.
GraceExpires(t) ==
  /\ InCall(t, "stop", "grace")
  /\ calls' = [calls EXCEPT ![t].pc = "killed"]
  /\ signal' = [signal EXCEPT ![calls[t].uid] = "kill"]
  /\ UNCHANGED <<tableVars, native, held, aliases, streamVars, load, serve, restarts, mu, attempt, runs>>

StopReturns(t) ==
  /\ calls[t].op = "stop" /\ calls[t].pc \in {"grace", "killed"}
  /\ native[calls[t].uid] = "over" /\ mu = None
  /\ Returned(t)
  /\ UNCHANGED <<procVars, streamVars, load, serve, restarts, mu, attempt, runs>>

\* A run of the service ended, or was removed from the history.
RunEnds ==
  /\ InCall(Service, "run", "called") /\ mu = None
  /\ native[calls[Service].uid] = "over" \/ ~Owns(calls[Service].uid)
  /\ Returned(Service)
  /\ UNCHANGED <<procVars, streamVars, load, serve, restarts, mu, attempt, runs>>

\* Serve is stopping: the run is stopped.
StopRun ==
  /\ InCall(Service, "run", "called") /\ Cancelled
  /\ calls' = [calls EXCEPT ![Service].op = "stop"]
  /\ UNCHANGED <<tableVars, procVars, streamVars, load, serve, restarts, mu, attempt, runs>>

\* PruneHistory, asked for by the controller: any of the ended processes.
\* One that ended just now may be among them, if there are too many.
PruneHistory ==
  /\ ~Cancelled /\ mu = None
  /\ \E S \in SUBSET {i \in Ids : Prunable(i)} \ {{}} : PruneSet(S)
  /\ UNCHANGED <<callVars, procVars, streamVars>>

-----------------------------------------------------------------------------
(* Output.                                                                 *)

\* The process writes to its pipe, while somebody reads it.
Emit(u) ==
  /\ native[u] = "alive" /\ u \notin broken /\ pipe[u] + out[u] < load.output
  /\ pipe' = [pipe EXCEPT ![u] = @ + 1]
  /\ UNCHANGED <<tableVars, callVars, procVars, out, copy, kept, truncated, broken, client, inputClosed>>

Attached(c, u) == client[c].state = "attached" /\ client[c].uid = u
Full(c)   == Len(client[c].queue) = QueueCap
Orders(S) == {s \in [1..Cardinality(S) -> S] : \A x \in S : \E n \in DOMAIN s : s[n] = x}

\* Mutant: a full queue loses the chunk silently.
OfferAny(c, u, chunk) ==
  IF ~Attached(c, u) \/ Full(c) THEN client[c]
  ELSE [client[c] EXCEPT !.queue = Append(@, chunk)]

\* What distribute does for one client that is not lossless: hand the
\* chunk over, or drop the client that has fallen behind.
Offered(c, u, chunk) ==
  IF ~Attached(c, u) \/ c \in Lossless THEN client[c]
  ELSE IF Full(c) THEN [client[c] EXCEPT !.state = "dropped"]
  ELSE [client[c] EXCEPT !.queue = Append(@, chunk)]

\* What the transcript holds after n more bytes: nothing beyond the limit.
Kept(u, n) == IF truncated[u] THEN kept[u]
              ELSE IF TranscriptMax - kept[u] < n THEN TranscriptMax ELSE kept[u] + n

\* The copy has read n bytes.
Reads(u, n) == copy[u] = None /\ pipe[u] >= n /\ native[u] \in {"alive", "dead"}

\* processOutput.Write, under process.mu: the transcript up to its limit,
\* the clients that may be dropped, and the list of those that may not.
Distribute(u, n) ==
  LET chunk == [from |-> out[u], to |-> out[u] + n] IN
  /\ Reads(u, n)
  /\ pipe' = [pipe EXCEPT ![u] = @ - n]
  /\ out'  = [out EXCEPT ![u] = @ + n]
  /\ kept' = [kept EXCEPT ![u] = Kept(u, n)]
  /\ truncated' = [truncated EXCEPT ![u] = @ \/ TranscriptMax - kept[u] < n]
  /\ client' = [c \in Clients |-> Offered(c, u, chunk)]
  /\ \E queue \in Orders({c \in Lossless : Attached(c, u)}) :
       copy' = [copy EXCEPT ![u] = IF queue = <<>> THEN None ELSE [chunk |-> chunk, to |-> queue]]
  /\ UNCHANGED <<tableVars, callVars, procVars, broken, inputClosed>>

\* The transcript, or the notice that it is cut, cannot be written: Write
\* returns, no client gets the bytes, and the copy closes the pipe.
WriteFails(u, n) ==
  /\ Reads(u, n) /\ ~truncated[u]
  /\ \E k \in kept[u]..Kept(u, n) : k < kept[u] + n /\ kept' = [kept EXCEPT ![u] = k]
  /\ pipe' = [pipe EXCEPT ![u] = 0]
  /\ out'  = [out EXCEPT ![u] = @ + n]
  /\ broken' = broken \cup {u}
  /\ UNCHANGED <<tableVars, callVars, procVars, copy, truncated, client, inputClosed>>

\* processOutput.Write, without the lock: one blocking send at a time, ended
\* by the client taking the chunk or by the client leaving.
SendNext(u) ==
  /\ copy[u] # None
  /\ LET c == Head(copy[u].to) IN
     /\ IF Attached(c, u)
        THEN /\ ~Full(c)
             /\ client' = [client EXCEPT ![c].queue = Append(@, copy[u].chunk)]
        ELSE UNCHANGED client
     /\ copy' = [copy EXCEPT ![u] = IF Len(@.to) = 1 THEN None ELSE [copy[u] EXCEPT !.to = Tail(@)]]
  /\ UNCHANGED <<tableVars, callVars, procVars, pipe, out, kept, truncated, broken, inputClosed>>

-----------------------------------------------------------------------------
(* Attached clients.                                                       *)

\* The process of that name, looked up under Supervisor.mu.
Reached(u) == mu = None /\ Owns(u)

\* readTranscript: what was recorded, without the notice that it is cut.
Replay(u) == kept[u]

\* openAttach: the replay, the state sent with it and the registration come
\* from one locked read.  An ended process only has its replay.
Attach(c, u) ==
  /\ ~Cancelled /\ client[c].state = "away" /\ c \in load.clients
  /\ Reached(u)
  /\ client' = [client EXCEPT ![c] =
       [Away EXCEPT !.state = IF Active(IdOf[u]) THEN "attached" ELSE "finished",
                    !.uid = u, !.at = Replay(u), !.told = truncated[u]]]
  /\ UNCHANGED <<tableVars, callVars, procVars, pipe, out, copy, kept, truncated, broken, inputClosed>>

\* What reading chunks from a queue does to what the client has.
Taken(s, chunks) ==
  IF chunks = <<>> THEN s
  ELSE [s EXCEPT !.at = chunks[Len(chunks)].to,
                 !.gap = @ \/ chunks[1].from # s.at
                           \/ \E n \in 1..(Len(chunks) - 1) : chunks[n].to # chunks[n + 1].from]

\* stream reads one chunk.  A dropped client's channel can still be read:
\* select chooses among the ready cases.
ReadChunk(c) ==
  /\ client[c].state \in {"attached", "dropped"} /\ client[c].queue # <<>>
  /\ client' = [client EXCEPT ![c] = [Taken(client[c], <<Head(client[c].queue)>>) EXCEPT !.queue = Tail(@)]]
  /\ UNCHANGED <<tableVars, callVars, procVars, pipe, out, copy, kept, truncated, broken, inputClosed>>

\* stream sees the closed exit, drains the channel and returns nil.
SeeExit(c) ==
  /\ client[c].state \in {"attached", "dropped"} /\ native[client[c].uid] = "over"
  /\ client' = [client EXCEPT ![c] =
       [Taken(client[c], client[c].queue) EXCEPT !.state = "finished", !.queue = <<>>]]
  /\ UNCHANGED <<tableVars, callVars, procVars, pipe, out, copy, kept, truncated, broken, inputClosed>>

\* stream sees that it was dropped and tells the client.
SeeDropped(c) ==
  /\ client[c].state = "dropped"
  /\ client' = [client EXCEPT ![c].state = "slow", ![c].queue = <<>>]
  /\ UNCHANGED <<tableVars, callVars, procVars, pipe, out, copy, kept, truncated, broken, inputClosed>>

\* The connection ends, by the client or because Serve's context does.
Leave(c) ==
  /\ client[c].state \in {"attached", "dropped"}
  /\ client' = [client EXCEPT ![c].state = "left", ![c].queue = <<>>]
  /\ UNCHANGED <<tableVars, callVars, procVars, pipe, out, copy, kept, truncated, broken, inputClosed>>

(* Input of a client whose end of input closes the process's: bytes and    *)
(* then the end marker, in frames on the one connection.                   *)

Type(c) ==
  /\ client[c].state = "attached" /\ c \in Framed /\ ~client[c].ended
  /\ client[c].typed < load.input
  /\ client' = [client EXCEPT ![c].typed = @ + 1]
  /\ UNCHANGED <<tableVars, callVars, procVars, pipe, out, copy, kept, truncated, broken, inputClosed>>

EndInput(c) ==
  /\ client[c].state = "attached" /\ c \in Framed /\ ~client[c].ended /\ load.input > 0
  /\ client' = [client EXCEPT ![c].ended = TRUE]
  /\ UNCHANGED <<tableVars, callVars, procVars, pipe, out, copy, kept, truncated, broken, inputClosed>>

\* foregroundWriter writes the next byte to the process.
Forward(c) ==
  /\ client[c].sent < client[c].typed /\ client[c].state # "finished"
  /\ inputClosed[client[c].uid] = None
  /\ client' = [client EXCEPT ![c].sent = @ + 1]
  /\ UNCHANGED <<tableVars, callVars, procVars, pipe, out, copy, kept, truncated, broken, inputClosed>>

\* The connection broke: what was under way on it is lost, the marker too.
LoseInput(c) ==
  /\ client[c].state = "left" /\ client[c].ended
  /\ client' = [client EXCEPT ![c].ended = FALSE]
  /\ UNCHANGED <<tableVars, callVars, procVars, pipe, out, copy, kept, truncated, broken, inputClosed>>

\* inputFrameReader reports the end only at the marker.
InputEnd(c) == client[c].ended /\ client[c].sent = client[c].typed

CloseInput(c) ==
  /\ c \in Framed /\ client[c].uid # None /\ InputEnd(c)
  /\ inputClosed[client[c].uid] = None
  /\ inputClosed' = [inputClosed EXCEPT ![client[c].uid] = c]
  /\ UNCHANGED <<tableVars, callVars, procVars, pipe, out, copy, kept, truncated, broken, client>>

-----------------------------------------------------------------------------
(* Serve: its deferred calls run in this order once the context ends.      *)

Cancel ==
  /\ serve = "serving"
  /\ serve' = "cancelled"
  /\ UNCHANGED <<tableVars, procVars, streamVars, load, restarts, mu, attempt, calls, runs>>

HandlersGone == /\ \A h \in Handlers : calls[h] = Idle
                /\ \A c \in Clients : client[c].state \notin {"attached", "dropped"}

WaitForHandlers ==
  /\ serve = "cancelled" /\ HandlersGone
  /\ serve' = "drained"
  /\ UNCHANGED <<tableVars, procVars, streamVars, load, restarts, mu, attempt, calls, runs>>

\* The services have stopped: Shutdown reads the table and stops each
\* process in a goroutine of its own.
BeginShutdown ==
  /\ serve = "drained" /\ calls[Service] = Idle /\ mu = None
  /\ serve' = "stopping"
  /\ calls' = [t \in Threads |-> IF t \in Ids /\ table[t] # None
                                 THEN [op |-> "stop", uid |-> table[t].uid, pc |-> "called"]
                                 ELSE calls[t]]
  /\ UNCHANGED <<tableVars, procVars, streamVars, load, restarts, mu, attempt, runs>>

\* Mutant: Shutdown does not wait for its goroutines.
AnyStops == TRUE
StopsReturned == \A i \in Ids : calls[i] = Idle

EndShutdown ==
  /\ serve = "stopping" /\ StopsReturned
  /\ serve' = "done"
  /\ UNCHANGED <<tableVars, procVars, streamVars, load, restarts, mu, attempt, calls, runs>>

\* The container ends at any moment and is started again: what was in
\* memory is gone, the native processes too.
RestartServe ==
  /\ restarts < load.restarts
  /\ restarts' = restarts + 1
  /\ Restart
  /\ serve' = "serving" /\ mu' = None /\ attempt' = None
  /\ calls'   = [t \in Threads |-> Idle]
  /\ native'  = [u \in Uids |-> "none"]
  /\ signal'  = [u \in Uids |-> "none"]
  /\ held'    = [u \in Uids |-> {}]
  /\ aliases' = [l \in Links |-> None]
  /\ pipe' = [u \in Uids |-> 0] /\ copy' = [u \in Uids |-> None]
  /\ client'  = [c \in Clients |-> IF client[c].state \in {"attached", "dropped"}
                                   THEN [client[c] EXCEPT !.state = "left", !.queue = <<>>]
                                   ELSE client[c]]
  /\ UNCHANGED <<load, runs, out, kept, truncated, broken, inputClosed>>

ClientStep(c) ==
  \/ ReadChunk(c) \/ SeeExit(c) \/ SeeDropped(c) \/ Leave(c)
  \/ Type(c) \/ EndInput(c) \/ Forward(c) \/ LoseInput(c) \/ CloseInput(c)

Next ==
  \/ \E h \in Handlers, op \in {"start", "stop"}, u \in Uids : Request(h, op, u)
  \/ BeginRun \/ RunEnds \/ StopRun \/ PruneHistory
  \/ \E t \in Threads : StartAnswered(t) \/ BeginStart(t) \/ StartStep(t)
                        \/ BeginStop(t) \/ StopNothing(t) \/ GraceExpires(t) \/ StopReturns(t)
  \/ \E u \in Uids : ProcessEnds(u) \/ CleanUp(u) \/ CloseExit(u) \/ Emit(u) \/ SendNext(u)
  \/ \E u \in Uids, n \in 1..2 : Distribute(u, n) \/ WriteFails(u, n)
  \/ \E c \in Clients, u \in Uids : Attach(c, u)
  \/ \E c \in Clients : ClientStep(c)
  \/ Cancel \/ WaitForHandlers \/ BeginShutdown \/ EndShutdown \/ RestartServe

(***************************************************************************)
(* Every step of the supervisor's own goroutines is eventually taken.  A   *)
(* process need not end unless it is killed; a client need neither read    *)
(* nor leave unless Serve closes its connection.                           *)
(***************************************************************************)
Killed(u) == signal[u] = "kill" /\ ProcessEnds(u)
Disconnected(c) == Cancelled /\ Leave(c)

Fairness ==
  /\ \A t \in Threads : /\ WF_vars(StartAnswered(t) \/ BeginStart(t) \/ StartStep(t))
                        /\ WF_vars(BeginStop(t) \/ StopNothing(t) \/ GraceExpires(t))
                        /\ WF_vars(StopReturns(t))
  /\ WF_vars(RunEnds) /\ WF_vars(StopRun)
  /\ \A u \in Uids : /\ WF_vars(Killed(u)) /\ WF_vars(CleanUp(u)) /\ WF_vars(CloseExit(u))
                     /\ WF_vars(SendNext(u)) /\ WF_vars(\E n \in 1..2 : Distribute(u, n) \/ WriteFails(u, n))
  /\ \A c \in Clients : WF_vars(Disconnected(c))
  /\ WF_vars(WaitForHandlers) /\ WF_vars(BeginShutdown) /\ WF_vars(EndShutdown)

Spec == Init /\ [][Next]_vars /\ Fairness

-----------------------------------------------------------------------------
(* Properties.                                                             *)

\* However requests are repeated and whenever the container restarts, a UID
\* is launched again only after the directory of its last launch was pruned:
\* of all its lives at most one is not pruned.
AtMostOnce ==
  /\ \A u \in Uids : launches[u] <= 1
  /\ \A u, v \in Uids : u # v /\ Identity[u] = Identity[v] /\ launches[u] > 0 /\ launches[v] > 0
                         => removed[u] > 0 \/ removed[v] > 0

\* While a process runs, and until its output is read, the credential links
\* it was started with are in place: no other process's end, and no late
\* cleanup of an earlier holder of its name, takes them away.
AliasesLive ==
  \A u \in Uids : native[u] \in {"alive", "dead"} =>
    \A l \in held[u] : aliases[l] # None /\ IdOf[u] \in aliases[l]

\* When Serve returns no process of the supervisor runs, a start that was
\* under way when the context ended and a service's run included.
ShutdownComplete ==
  serve = "done" => \A u \in Uids : native[u] \in {"none", "over"}

\* Replay and live output join without a gap, unless the client was told
\* that the replay is cut; a lossless client that was not cut off has
\* everything to the last byte, unless the transcript could not be written.
OutputWhole ==
  \A c \in Clients :
    /\ client[c].gap => client[c].told
    /\ client[c].state = "finished" /\ (c \in Lossless) /\ ~client[c].told /\ client[c].uid \notin broken
         => client[c].at = out[client[c].uid]

\* A process's input is closed for a client only after everything the
\* client sent was written to it; a broken connection closes nothing.
InputWhole ==
  \A u \in Uids : inputClosed[u] # None =>
    client[inputClosed[u]].sent = client[inputClosed[u]].typed

\* Nothing a client should see, or sent, is lost without notice: output as
\* OutputWhole says, input as InputWhole says.
StreamsWhole == OutputWhole /\ InputWhole

\* Once its context ends Serve returns, whatever the processes ignore and
\* the clients do not read.
ShutdownEnds == (serve = "cancelled") ~> (serve \in {"done", "serving"})
=============================================================================
