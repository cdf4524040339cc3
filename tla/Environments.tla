---------------------------- MODULE Environments ----------------------------
(***************************************************************************)
(* One WorkspaceEnvironment: its committed volume (current), the mutable   *)
(* clone that edit executions use (draft), the editor Pod that mounts the  *)
(* draft, the commit that promotes it, and the home volume a Workspace     *)
(* clones from current.                                                    *)
(*                                                                         *)
(* Three controllers act on it: the Environment controller (pass), the     *)
(* workers of the WorkspaceExec controller (job[e], one per execution) and *)
(* the Workspace controller (homing).  A pass reads the objects it decides *)
(* on one after the other, so each read and each write is a step; a status *)
(* write re-reads the object and fails on a conflict, so it is atomic.     *)
(* The Environment and the executions are read as they are: the caches of  *)
(* the code may be older (the README says what a stale read can do).       *)
(*                                                                         *)
(* A volume claim is named after the revision it was made for, and holds   *)
(* the set of executions whose work is on it.                              *)
(***************************************************************************)
EXTENDS Integers

CONSTANTS Execs,      \* the executions that target the Environment
          MaxCommits, \* how many commits its users ask for at most
          Loads       \* what the users, the cluster and the failures may do

ASSUME EnvironmentsAssumption ==
  /\ MaxCommits \in Nat
  /\ Loads \subseteq [execs : SUBSET Execs, stops : BOOLEAN, home : BOOLEAN, rejects : BOOLEAN,
                     idle : BOOLEAN, commits : 0..MaxCommits, edits : Nat, faults : Nat,
                     losses : Nat]

VARIABLES load, env, claim, sealed, editor, exec, pass, job, ws, home, homing, left

vars == <<load, env, claim, sealed, editor, exec, pass, job, ws, home, homing, left>>

\* Revision 1 is the blank current; each commit adds one and a draft is one ahead.
Claims == 1..(2 + MaxCommits)
NoClaim == 0

ClaimStates == {"absent", "pending", "bound", "going"}
NewClaim == [state |-> "absent", source |-> NoClaim, holds |-> {}]
NoEditor == [exists |-> FALSE, ready |-> FALSE, going |-> FALSE, claim |-> NoClaim]
NewExec == [phase |-> "none", stop |-> FALSE, alive |-> FALSE, drafted |-> FALSE]
Terminal == {"succeeded", "ended"}

Rest == [pc |-> "idle", stale |-> FALSE, revision |-> 0, current |-> NoClaim,
         draft |-> NoClaim, editor |-> FALSE]
NoJob == [pc |-> "idle", current |-> NoClaim, draft |-> NoClaim]
NoHoming == [pc |-> "idle", source |-> NoClaim, revision |-> 0]

Init ==
  /\ load \in Loads
  /\ env = [gen |-> 1, observed |-> 0, ready |-> FALSE, revision |-> 0, current |-> NoClaim,
            draft |-> NoClaim, editor |-> FALSE, commit |-> 0, committed |-> 0]
  /\ claim = [n \in Claims |-> NewClaim]
  /\ sealed = [n \in Claims |-> {}]
  /\ editor = NoEditor
  /\ exec = [e \in Execs |-> NewExec]
  /\ pass = Rest
  /\ job = [e \in Execs |-> NoJob]
  /\ ws = [home |-> FALSE, source |-> 0, waits |-> FALSE]
  /\ home = [state |-> "absent", source |-> NoClaim, tag |-> 0, holds |-> {}]
  /\ homing = NoHoming
  /\ left = [commits |-> load.commits, edits |-> load.edits, faults |-> load.faults,
             losses |-> load.losses]

Active == \E e \in Execs : exec[e].phase \in {"pending", "running"}

\* conditions.ReadyAtGeneration: Ready and the status both speak of this generation.
ReadyAtGeneration == env.ready /\ env.observed = env.gen

-----------------------------------------------------------------------------
(* Users and the cluster.                                                  *)

Create(e) ==
  /\ e \in load.execs
  /\ exec[e].phase = "none"
  /\ exec' = [exec EXCEPT ![e].phase = "pending"]
  /\ UNCHANGED <<load, env, claim, sealed, editor, pass, job, ws, home, homing, left>>

AskToStop(e) ==
  /\ load.stops
  /\ exec[e].phase \in {"pending", "running"}
  /\ ~exec[e].stop
  /\ exec' = [exec EXCEPT ![e].stop = TRUE]
  /\ UNCHANGED <<load, env, claim, sealed, editor, pass, job, ws, home, homing, left>>

\* `rcctl env commit` raises spec.commit, which is a new generation.
RequestCommit ==
  /\ left.commits > 0
  /\ env' = [env EXCEPT !.commit = @ + 1, !.gen = @ + 1]
  /\ left' = [left EXCEPT !.commits = @ - 1]
  /\ UNCHANGED <<load, claim, sealed, editor, exec, pass, job, ws, home, homing>>

\* An edit that leaves platform and storage as they are: a pass reports others
\* as unsupported and waits for the next edit.
EditSpec ==
  /\ left.edits > 0
  /\ env' = [env EXCEPT !.gen = @ + 1]
  /\ left' = [left EXCEPT !.edits = @ - 1]
  /\ UNCHANGED <<load, claim, sealed, editor, exec, pass, job, ws, home, homing>>

\* A Pod is deleted by name: whichever editor has the name now.
Stopping(pod) == [pod EXCEPT !.going = @ \/ pod.exists]

\* The editor is deleted by `rcctl env stop`, which lists no active execution
\* some time before it deletes the Pod, or the Pod is evicted.
LoseEditor ==
  /\ left.losses > 0
  /\ editor.exists /\ ~editor.going
  /\ editor' = Stopping(editor)
  /\ left' = [left EXCEPT !.losses = @ - 1]
  /\ UNCHANGED <<load, env, claim, sealed, exec, pass, job, ws, home, homing>>

EditorReady ==
  /\ editor.exists /\ ~editor.ready /\ ~editor.going
  /\ editor' = [editor EXCEPT !.ready = TRUE]
  /\ UNCHANGED <<load, env, claim, sealed, exec, pass, job, ws, home, homing, left>>

\* A deleted editor ends with the processes in it, and frees its volume.
EditorGone ==
  /\ editor.going
  /\ editor' = NoEditor
  /\ exec' = [e \in Execs |-> [exec[e] EXCEPT !.alive = FALSE]]
  /\ claim' = [n \in Claims |->
                 IF n = editor.claim /\ claim[n].state = "going" THEN NewClaim ELSE claim[n]]
  /\ UNCHANGED <<load, env, sealed, pass, job, ws, home, homing, left>>

Whole(n) == IF n = NoClaim THEN TRUE ELSE claim[n].state = "bound"
Content(n) == IF n = NoClaim THEN {} ELSE claim[n].holds

\* A claim is bound once it holds a copy of its source.
ClaimBinds(n) ==
  /\ claim[n].state = "pending"
  /\ Whole(claim[n].source)
  /\ claim' = [claim EXCEPT ![n].state = "bound", ![n].holds = Content(claim[n].source)]
  /\ UNCHANGED <<load, env, sealed, editor, exec, pass, job, ws, home, homing, left>>

HomeBinds ==
  /\ home.state = "pending"
  /\ Whole(home.source)
  /\ home' = [home EXCEPT !.state = "bound", !.holds = Content(home.source)]
  /\ UNCHANGED <<load, env, claim, sealed, editor, exec, pass, job, ws, homing, left>>

-----------------------------------------------------------------------------
(* The Environment controller: the commit, then the editor, then current.  *)

Step(pc) == pass' = [pass EXCEPT !.pc = pc]
EndPass == pass' = Rest

CommitDue == env.commit > env.committed

\* A commit without a draft waits.  What the pass read here stays what it
\* decides on.
BeginPass ==
  /\ pass.pc = "idle"
  /\ ~(CommitDue /\ env.draft = NoClaim)
  /\ pass' = [pc |-> IF CommitDue THEN "commit" ELSE IF env.editor THEN "editor" ELSE "current",
              stale |-> env.observed < env.gen, revision |-> env.revision,
              current |-> env.current, draft |-> env.draft, editor |-> env.editor]
  /\ UNCHANGED <<load, env, claim, sealed, editor, exec, job, ws, home, homing, left>>

\* reconcileEnvironmentCommit: no execution may be active, then the editor goes.
CheckCommit ==
  /\ pass.pc = "commit"
  /\ IF Active THEN EndPass
     ELSE Step(IF pass.editor THEN "stopping" ELSE "promote")
  /\ UNCHANGED <<load, env, claim, sealed, editor, exec, job, ws, home, homing, left>>

StopEditor ==
  /\ pass.pc = "stopping"
  /\ editor' = Stopping(editor)
  /\ IF editor.exists THEN EndPass ELSE Step("promote")
  /\ UNCHANGED <<load, env, claim, sealed, exec, job, ws, home, homing, left>>

DraftUsable == claim[pass.draft].state = "bound"

PromoteLost ==
  /\ pass.pc = "promote"
  /\ ~DraftUsable
  /\ EndPass
  /\ UNCHANGED <<load, env, claim, sealed, editor, exec, job, ws, home, homing, left>>

Promoted == [env EXCEPT !.observed = env.gen, !.ready = TRUE, !.revision = @ + 1,
                        !.current = pass.draft, !.draft = NoClaim, !.editor = FALSE,
                        !.committed = env.commit]

\* The status write that makes the draft the current revision; sealed keeps
\* what the revision held at that moment.
Promote ==
  /\ pass.pc = "promote"
  /\ DraftUsable
  /\ env' = Promoted
  /\ sealed' = [sealed EXCEPT ![env.revision + 1] = claim[pass.draft].holds]
  /\ Step("delete")
  /\ UNCHANGED <<load, claim, editor, exec, job, ws, home, homing, left>>

\* Mutant: whatever is current when the deletion comes is deleted.
SupersededNow == {env.current}

\* The previous current, read when the pass began, is no longer wanted.
Superseded == {pass.current} \ {NoClaim, pass.draft}

\* A claim that a Pod mounts stays until the Pod is gone.
DeleteOld ==
  /\ pass.pc = "delete"
  /\ claim' = [n \in Claims |->
                 IF n \notin Superseded THEN claim[n]
                 ELSE IF editor.exists /\ editor.claim = n THEN [claim[n] EXCEPT !.state = "going"]
                 ELSE NewClaim]
  /\ EndPass
  /\ UNCHANGED <<load, env, sealed, editor, exec, job, ws, home, homing, left>>

\* reconcileEditorLifecycle of a recorded editor: absent, outdated or idle.
CheckEditor ==
  /\ pass.pc = "editor"
  /\ \/ ~editor.exists /\ Step("clear")
     \/ editor.exists /\ pass.stale /\ Step("replace")
     \/ editor.exists /\ ~pass.stale /\ load.idle /\ Step("idling")
     \/ editor.exists /\ ~pass.stale /\ ~load.idle /\ Step("current")
  /\ UNCHANGED <<load, env, claim, sealed, editor, exec, job, ws, home, homing, left>>

\* Mutant: a lost editor stays recorded.
KeepEditor ==
  /\ pass.pc = "clear"
  /\ EndPass
  /\ UNCHANGED <<load, env, claim, sealed, editor, exec, job, ws, home, homing, left>>

ClearEditor ==
  /\ pass.pc = "clear"
  /\ env' = [env EXCEPT !.editor = FALSE]
  /\ EndPass
  /\ UNCHANGED <<load, claim, sealed, editor, exec, job, ws, home, homing, left>>

CheckReplace ==
  /\ pass.pc = "replace"
  /\ IF Active THEN EndPass ELSE Step("evict")
  /\ UNCHANGED <<load, env, claim, sealed, editor, exec, job, ws, home, homing, left>>

\* The timeout runs from the last completion: before it the pass ends, and
\* without one, or with an active execution, there is nothing to time out.
CheckIdle ==
  /\ pass.pc = "idling"
  /\ IF Active \/ \A e \in Execs : exec[e].phase \notin Terminal THEN Step("current")
     ELSE EndPass \/ Step("evict")
  /\ UNCHANGED <<load, env, claim, sealed, editor, exec, job, ws, home, homing, left>>

EvictEditor ==
  /\ pass.pc = "evict"
  /\ editor' = Stopping(editor)
  /\ EndPass
  /\ UNCHANGED <<load, env, claim, sealed, exec, job, ws, home, homing, left>>

Named == IF pass.current = NoClaim THEN 1 ELSE pass.current

\* A current that was never recorded is created; a recorded one never again.
CreateCurrent ==
  /\ pass.pc = "current"
  /\ claim[Named].state = "absent"
  /\ pass.current = NoClaim
  /\ claim' = [claim EXCEPT ![Named] = [NewClaim EXCEPT !.state = "pending"]]
  /\ Step("report")
  /\ UNCHANGED <<load, env, sealed, editor, exec, job, ws, home, homing, left>>

FindCurrent ==
  /\ pass.pc = "current"
  /\ claim[Named].state # "absent" \/ pass.current # NoClaim
  /\ Step("report")
  /\ UNCHANGED <<load, env, claim, sealed, editor, exec, job, ws, home, homing, left>>

\* setEnvironmentStatus writes the revision and the claim that the pass read.
Report ==
  /\ pass.pc = "report"
  /\ env' = [env EXCEPT !.observed = env.gen, !.revision = IF pass.revision = 0 THEN 1 ELSE pass.revision,
                        !.current = Named, !.ready = claim[Named].state = "bound"]
  /\ EndPass
  /\ UNCHANGED <<load, claim, sealed, editor, exec, job, ws, home, homing, left>>

EnvironmentPass ==
  \/ BeginPass \/ CheckCommit \/ StopEditor \/ PromoteLost \/ Promote \/ DeleteOld
  \/ CheckEditor \/ ClearEditor \/ CheckReplace \/ CheckIdle \/ EvictEditor
  \/ CreateCurrent \/ FindCurrent \/ Report

-----------------------------------------------------------------------------
(* The WorkspaceExec controller: draft, editor, process.                   *)

At(e, pc) == job[e].pc = pc
GoTo(e, pc) == job' = [job EXCEPT ![e].pc = pc]
EndJob(e) == job' = [job EXCEPT ![e] = NoJob]

\* A recorded name is kept; else the claim is named after the next revision.
DraftName == IF env.draft # NoClaim THEN env.draft ELSE env.revision + 1

BeginJob(e) ==
  /\ At(e, "idle")
  /\ exec[e].phase = "pending"
  /\ ~exec[e].stop
  /\ ReadyAtGeneration
  /\ job' = [job EXCEPT ![e] = [pc |-> "draft", current |-> env.current, draft |-> DraftName]]
  /\ UNCHANGED <<load, env, claim, sealed, editor, exec, pass, ws, home, homing, left>>

\* An execution stopped before it started ends without a process.
StopPending(e) ==
  /\ At(e, "idle")
  /\ exec[e].phase = "pending"
  /\ exec[e].stop
  /\ exec' = [exec EXCEPT ![e].phase = "ended"]
  /\ UNCHANGED <<load, env, claim, sealed, editor, pass, job, ws, home, homing, left>>

CreateDraft(e) ==
  /\ At(e, "draft")
  /\ claim[job[e].draft].state = "absent"
  /\ claim' = [claim EXCEPT ![job[e].draft] =
                 [NewClaim EXCEPT !.state = "pending", !.source = job[e].current]]
  /\ GoTo(e, "record")
  /\ UNCHANGED <<load, env, sealed, editor, exec, pass, ws, home, homing, left>>

\* The draft must be a clone of current, and bound.
CheckDraft(e) ==
  /\ At(e, "draft")
  /\ LET d == claim[job[e].draft]
     IN /\ d.state # "absent"
        /\ IF d.state = "bound" /\ d.source = job[e].current THEN GoTo(e, "editor") ELSE EndJob(e)
  /\ UNCHANGED <<load, env, claim, sealed, editor, exec, pass, ws, home, homing, left>>

RecordDraft(e) ==
  /\ At(e, "record")
  /\ env' = [env EXCEPT !.draft = job[e].draft, !.editor = FALSE]
  /\ EndJob(e)
  /\ UNCHANGED <<load, claim, sealed, editor, exec, pass, ws, home, homing, left>>

\* ensureEnvironmentEditor takes any Pod of the editor's name.
EnsureEditor(e) ==
  /\ At(e, "editor")
  /\ \/ /\ ~editor.exists
        /\ editor' = [NoEditor EXCEPT !.exists = TRUE, !.claim = job[e].draft]
        /\ GoTo(e, "starting")
     \/ editor.exists /\ ~editor.ready /\ EndJob(e) /\ UNCHANGED editor
     \/ editor.exists /\ editor.ready /\ GoTo(e, "ready") /\ UNCHANGED editor
  /\ UNCHANGED <<load, env, claim, sealed, exec, pass, ws, home, homing, left>>

RecordEditor(e) ==
  /\ At(e, "starting") \/ At(e, "ready")
  /\ env' = [env EXCEPT !.draft = job[e].draft, !.editor = TRUE]
  /\ IF At(e, "ready") THEN GoTo(e, "start") ELSE EndJob(e)
  /\ UNCHANGED <<load, claim, sealed, editor, exec, pass, ws, home, homing, left>>

\* The process starts in the editor the pass found; without it, it is lost.
StartProcess(e) ==
  /\ At(e, "start")
  /\ exec' = IF editor.exists /\ editor.ready
             THEN [exec EXCEPT ![e].phase = "running", ![e].alive = TRUE]
             ELSE [exec EXCEPT ![e].phase = "ended"]
  /\ EndJob(e)
  /\ UNCHANGED <<load, env, claim, sealed, editor, pass, ws, home, homing, left>>

\* The process leaves its work on the volume the editor mounts, which should
\* be the recorded draft.
ProcessEnds(e) ==
  /\ exec[e].phase = "running"
  /\ exec[e].alive
  /\ exec' = [exec EXCEPT ![e].phase = "succeeded", ![e].alive = FALSE,
                           ![e].drafted = editor.claim = env.draft]
  /\ claim' = [claim EXCEPT ![editor.claim].holds = @ \cup {e}]
  /\ UNCHANGED <<load, env, sealed, editor, pass, job, ws, home, homing, left>>

FindLost(e) ==
  /\ exec[e].phase = "running"
  /\ ~exec[e].alive
  /\ exec' = [exec EXCEPT ![e].phase = "ended"]
  /\ UNCHANGED <<load, env, claim, sealed, editor, pass, job, ws, home, homing, left>>

ExecPass(e) ==
  \/ BeginJob(e) \/ StopPending(e) \/ CreateDraft(e) \/ CheckDraft(e) \/ RecordDraft(e)
  \/ EnsureEditor(e) \/ RecordEditor(e) \/ StartProcess(e) \/ FindLost(e)

-----------------------------------------------------------------------------
(* The Workspace controller: the home that clones current.                 *)

\* resolveWorkspaceBase: the claim is today's, the revision the recorded one.
BeginHoming ==
  /\ load.home
  /\ homing.pc = "idle"
  /\ ~(ws.home /\ ws.source # 0)
  /\ env.ready
  /\ homing' = [pc |-> "home", source |-> env.current,
                revision |-> IF ws.source = 0 THEN env.revision ELSE ws.source]
  /\ UNCHANGED <<load, env, claim, sealed, editor, exec, pass, job, ws, home, left>>

\* A claim that the API server refused is not asked for again at once.
BackingOff == ws.waits

Backoff ==
  /\ homing.pc = "home"
  /\ home.state = "absent"
  /\ BackingOff
  /\ homing' = NoHoming
  /\ UNCHANGED <<load, env, claim, sealed, editor, exec, pass, job, ws, home, left>>

RetryDue ==
  /\ BackingOff
  /\ ws' = [ws EXCEPT !.waits = FALSE]
  /\ UNCHANGED <<load, env, claim, sealed, editor, exec, pass, job, home, homing, left>>

CreateHome ==
  /\ homing.pc = "home"
  /\ home.state = "absent"
  /\ ~BackingOff
  /\ home' = [state |-> "pending", source |-> homing.source, tag |-> homing.revision, holds |-> {}]
  /\ homing' = [homing EXCEPT !.pc = "record"]
  /\ UNCHANGED <<load, env, claim, sealed, editor, exec, pass, job, ws, left>>

\* Mutant: the revision of this pass is recorded for a home of another.
Untagged == homing.revision
Tagged == home.tag

\* A home that exists before any status was written carries its own revision.
FindHome ==
  /\ homing.pc = "home"
  /\ home.state # "absent"
  /\ homing' = [homing EXCEPT !.pc = "record", !.revision = IF ws.source = 0 THEN Tagged ELSE @]
  /\ UNCHANGED <<load, env, claim, sealed, editor, exec, pass, job, ws, home, left>>

RecordHome ==
  /\ homing.pc = "record"
  /\ ws' = [ws EXCEPT !.home = TRUE, !.source = IF @ = 0 THEN homing.revision ELSE @]
  /\ homing' = NoHoming
  /\ UNCHANGED <<load, env, claim, sealed, editor, exec, pass, job, home, left>>

\* The API server refuses the claim: the pass records the image and the
\* revision, but no home, and waits before it asks again.
HomeRejected ==
  /\ load.rejects
  /\ homing.pc = "home"
  /\ home.state = "absent"
  /\ ~BackingOff
  /\ ws' = [ws EXCEPT !.source = IF @ = 0 THEN homing.revision ELSE @, !.waits = TRUE]
  /\ homing' = NoHoming
  /\ UNCHANGED <<load, env, claim, sealed, editor, exec, pass, job, home, left>>

HomePass == BeginHoming \/ Backoff \/ RetryDue \/ CreateHome \/ FindHome \/ RecordHome \/ HomeRejected

-----------------------------------------------------------------------------
\* A call of a pass fails, or the controller restarts in the middle of it.
Fail ==
  /\ left.faults > 0
  /\ left' = [left EXCEPT !.faults = @ - 1]
  /\ \/ pass.pc # "idle" /\ pass' = Rest /\ UNCHANGED <<job, homing>>
     \/ homing.pc # "idle" /\ homing' = NoHoming /\ UNCHANGED <<pass, job>>
     \/ \E e \in Execs : ~At(e, "idle") /\ EndJob(e) /\ UNCHANGED <<pass, homing>>
  /\ UNCHANGED <<load, env, claim, sealed, editor, exec, ws, home>>

Users == RequestCommit \/ EditSpec \/ \E e \in Execs : Create(e) \/ AskToStop(e)

Cluster ==
  \/ LoseEditor \/ EditorReady \/ EditorGone \/ HomeBinds
  \/ \E n \in Claims : ClaimBinds(n)
  \/ \E e \in Execs : ProcessEnds(e)

Next ==
  \/ Users \/ Cluster \/ EnvironmentPass \/ HomePass \/ Fail
  \/ \E e \in Execs : ExecPass(e)

\* Each controller keeps taking its queued work, Pods start and stop, volumes
\* are provisioned and commands end.  Users and failures owe nothing.
Fairness ==
  /\ WF_vars(EnvironmentPass)
  /\ WF_vars(EditorReady) /\ WF_vars(EditorGone)
  /\ \A n \in Claims : WF_vars(ClaimBinds(n))
  /\ \A e \in Execs : WF_vars(ExecPass(e)) /\ WF_vars(ProcessEnds(e))

Spec == Init /\ [][Next]_vars /\ Fairness

-----------------------------------------------------------------------------
(* Properties.                                                             *)

TypeOK ==
  /\ env.revision \in 0..(1 + MaxCommits) /\ env.current \in Claims \cup {NoClaim}
  /\ env.draft \in Claims \cup {NoClaim}
  /\ env.observed <= env.gen /\ env.committed <= env.commit
  /\ \A n \in Claims : claim[n].state \in ClaimStates /\ claim[n].holds \subseteq Execs
  /\ editor.going => editor.exists
  /\ \A e \in Execs : exec[e].phase \in {"none", "pending", "running"} \cup Terminal

Live(n) == n # NoClaim /\ claim[n].state # "absent"

\* Work done on the draft is on a volume the Environment still records,
\* whatever commits, edits, editor replacements and failed passes came after
\* it: no commit drops the draft or deletes the volume it just promoted, and
\* a later draft starts from all of it.  This holds for two executions; a
\* third whose worker is slow (setEnvironmentDraftStatus) can record the name
\* of a draft that was promoted meanwhile over that of a newer draft.
WorkKept ==
  \A e \in Execs : exec[e].drafted =>
    \E n \in {env.current, env.draft} : Live(n) /\ e \in claim[n].holds

\* A Workspace's home holds exactly what its recorded source revision held
\* when it was committed, although the commit of a later revision and a pass
\* that fails between creating and recording the home may come in between.
\* (A revision itself can change where CommitUnmounts fails and a second
\* execution runs in that editor: the run has one execution beside a home.)
HomeIsRevision ==
  (ws.source # 0 /\ home.state = "bound") => home.holds = sealed[ws.source]

\* Once executions have stopped coming, the Environment gets through its
\* commits and edits: it ends Ready for its last generation, unless a commit
\* was asked for when there was no draft to promote.
CommitSettles ==
  <>[]~Active => <>[](ReadyAtGeneration \/ (CommitDue /\ env.draft = NoClaim))

\* docs/design/workspace-runtime.md: a commit stops the editor Pod and waits
\* for the draft to be unmounted before it promotes it.  So no editor ever
\* mounts the current volume.
CommitUnmounts == editor.exists => editor.claim # env.current
=============================================================================
