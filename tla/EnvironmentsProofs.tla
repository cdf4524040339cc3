------------------------ MODULE EnvironmentsProofs ------------------------
(***************************************************************************)
(* Theorems about Environments, for every set of executions and of loads.  *)
(*                                                                         *)
(* TInv     types, the count of commits and revisions, and what a pass     *)
(*          still knows of what it read; inductive in every behaviour.     *)
(* WInv     names, volumes and where the work is; inductive as long as no  *)
(*          worker records a stale draft.                                  *)
(* HInv     a revision keeps what was sealed, and a home is a copy of the  *)
(*          revision in its tag.                                           *)
(* Begun    which executions have workers, and that a commit has seen a    *)
(*          finished one; inductive in every behaviour.                    *)
(* PairInv  two executions: either WInv, and an overtaken worker is alone, *)
(*          or Late, where a stale draft was recorded and is current.      *)
(* OneInv   one execution: nothing is committed while it is under way.     *)
(***************************************************************************)
EXTENDS Environments, TLAPS

-----------------------------------------------------------------------------
(* Types and numbers, for every behaviour.                                 *)

Names == Claims \cup {NoClaim}
Phases == {"none", "pending", "running"} \cup Terminal
PassSteps == {"idle", "commit", "stopping", "promote", "delete", "editor", "clear", "replace",
              "idling", "evict", "current", "report"}
JobSteps == {"idle", "draft", "record", "editor", "starting", "ready", "start"}

EnvSet == [gen : Nat, observed : Nat, ready : BOOLEAN, revision : Nat, current : Names,
           draft : Names, editor : BOOLEAN, commit : Nat, committed : Nat]
ClaimSet == [state : ClaimStates, source : Names, holds : SUBSET Execs]
EditorSet == [exists : BOOLEAN, ready : BOOLEAN, going : BOOLEAN, claim : Names]
ExecSet == [phase : Phases, stop : BOOLEAN, alive : BOOLEAN, drafted : BOOLEAN]
PassSet == [pc : PassSteps, stale : BOOLEAN, revision : Nat, current : Names, draft : Names,
            editor : BOOLEAN]
JobSet == [pc : JobSteps, current : Names, draft : Names]
WsSet == [home : BOOLEAN, source : Nat, waits : BOOLEAN]
HomeSet == [state : {"absent", "pending", "bound"}, source : Names, tag : Nat, holds : SUBSET Execs]
HomingSet == [pc : {"idle", "home", "record"}, source : Names, revision : Nat]
LeftSet == [commits : Nat, edits : Nat, faults : Nat, losses : Nat]

Typed ==
    /\ load \in Loads
    /\ env \in EnvSet
    /\ claim \in [Claims -> ClaimSet]
    /\ sealed \in [Claims -> SUBSET Execs]
    /\ editor \in EditorSet
    /\ exec \in [Execs -> ExecSet]
    /\ pass \in PassSet
    /\ job \in [Execs -> JobSet]
    /\ ws \in WsSet
    /\ home \in HomeSet
    /\ homing \in HomingSet
    /\ left \in LeftSet

\* A commit is asked for, and done, at most as often as the load allows, and
\* each one that is done makes one revision.
Counted ==
    /\ env.observed <= env.gen
    /\ env.committed <= env.commit
    /\ env.commit + left.commits = load.commits
    /\ env.revision <= 1 + env.committed
    /\ env.ready => env.revision >= 1 /\ env.current # NoClaim

Committing == {"commit", "stopping", "promote"}

\* One pass of the Environment controller runs at a time, and nobody else
\* writes the revision and the claim of current.
PassKnows ==
    /\ pass.pc \in Committing => CommitDue /\ pass.draft # NoClaim
    /\ pass.pc \notin {"idle", "delete"} =>
          pass.revision = env.revision /\ pass.current = env.current

\* A worker that has begun has read a Ready Environment.
JobsBegun ==
    /\ \A e \in Execs : ~At(e, "idle") => job[e].draft # NoClaim /\ job[e].current # NoClaim
    /\ editor.going => editor.exists
    /\ editor.exists => editor.claim # NoClaim
    /\ \A e \in Execs : exec[e].alive => editor.exists

TInv == Typed /\ Counted /\ PassKnows /\ JobsBegun
-----------------------------------------------------------------------------
(* What the fields of the records are.                                     *)

LEMMA ClaimNames ==
    /\ Names \subseteq Nat
    /\ Claims \subseteq Nat
    /\ \A n \in Names : n \in Claims <=> n # NoClaim
    /\ \A n \in Nat : n >= 1 /\ n <= 2 + MaxCommits => n \in Claims
    /\ \A n \in Claims : n >= 1
    /\ 1 \in Claims /\ NoClaim \in Names /\ NoClaim \notin Claims /\ NoClaim = 0
    /\ Claims \subseteq Names
BY EnvironmentsAssumption, SMT DEF Names, Claims, NoClaim

LEMMA EnvFields ==
    ASSUME env \in EnvSet
    PROVE  /\ env.gen \in Nat /\ env.observed \in Nat /\ env.revision \in Nat
           /\ env.current \in Names /\ env.draft \in Names
           /\ env.commit \in Nat /\ env.committed \in Nat
           /\ env.ready \in BOOLEAN /\ env.editor \in BOOLEAN
BY SMT DEF EnvSet

LEMMA PassFields ==
    ASSUME pass \in PassSet
    PROVE  /\ pass.pc \in PassSteps /\ pass.revision \in Nat
           /\ pass.current \in Names /\ pass.draft \in Names
BY SMT DEF PassSet

LEMMA JobFields ==
    ASSUME job \in [Execs -> JobSet]
    PROVE  \A e \in Execs : /\ job[e] \in JobSet /\ job[e].pc \in JobSteps
                            /\ job[e].current \in Names /\ job[e].draft \in Names
BY SMT DEF JobSet

LEMMA EditorFields ==
    ASSUME editor \in EditorSet
    PROVE  /\ editor.exists \in BOOLEAN /\ editor.ready \in BOOLEAN
           /\ editor.going \in BOOLEAN /\ editor.claim \in Names
BY SMT DEF EditorSet

LEMMA ClaimFields ==
    ASSUME claim \in [Claims -> ClaimSet]
    PROVE  \A n \in Claims : /\ claim[n] \in ClaimSet /\ claim[n].state \in ClaimStates
                             /\ claim[n].source \in Names /\ claim[n].holds \in SUBSET Execs
BY SMT DEF ClaimSet

LEMMA ExecFields ==
    ASSUME exec \in [Execs -> ExecSet]
    PROVE  \A e \in Execs : /\ exec[e] \in ExecSet /\ exec[e].phase \in Phases
                            /\ exec[e].stop \in BOOLEAN
                            /\ exec[e].alive \in BOOLEAN /\ exec[e].drafted \in BOOLEAN
BY SMT DEF ExecSet

LEMMA LoadFields ==
    ASSUME load \in Loads
    PROVE  /\ load.commits \in 0..MaxCommits /\ load.execs \subseteq Execs
           /\ load.edits \in Nat /\ load.faults \in Nat /\ load.losses \in Nat
           /\ load.rejects \in BOOLEAN
BY EnvironmentsAssumption, SMT

LEMMA LeftFields ==
    ASSUME left \in LeftSet
    PROVE  /\ left.commits \in Nat /\ left.edits \in Nat
           /\ left.faults \in Nat /\ left.losses \in Nat
BY SMT DEF LeftSet

LEMMA HomeFields ==
    ASSUME ws \in WsSet, home \in HomeSet, homing \in HomingSet
    PROVE  /\ ws.home \in BOOLEAN /\ ws.waits \in BOOLEAN /\ ws.source \in Nat
           /\ home.state \in {"absent", "pending", "bound"} /\ home.source \in Names
           /\ home.tag \in Nat
           /\ homing.pc \in {"idle", "home", "record"} /\ homing.source \in Names
           /\ homing.revision \in Nat
BY SMT DEF WsSet, HomeSet, HomingSet

-----------------------------------------------------------------------------
(* What a step leaves in each record, field by field.                      *)

\* The pass goes on with what it has read.
PassGoes(pc) ==
    /\ pass' \in PassSet
    /\ pass'.pc = pc
    /\ pass'.revision = pass.revision /\ pass'.current = pass.current /\ pass'.draft = pass.draft

PassRests == pass' \in PassSet /\ pass'.pc = "idle"

LEMMA StepIs ==
    ASSUME pass \in PassSet, NEW pc \in PassSteps, Step(pc)
    PROVE  PassGoes(pc)
BY SMT DEF PassSet, PassGoes, Step

LEMMA RestIs == Rest \in PassSet /\ Rest.pc = "idle"
BY ClaimNames, SMT DEF Rest, PassSet, PassSteps

LEMMA EndPassIs == EndPass => PassRests
BY RestIs, SMT DEF EndPass, PassRests

\* One worker moves, the others stay where they are.
JobGoes(e, pc) ==
    /\ job' \in [Execs -> JobSet]
    /\ job'[e].pc = pc /\ job'[e].current = job[e].current /\ job'[e].draft = job[e].draft
    /\ \A f \in Execs \ {e} : job'[f] = job[f]

JobEnds(e) ==
    /\ job' \in [Execs -> JobSet]
    /\ job'[e].pc = "idle"
    /\ \A f \in Execs \ {e} : job'[f] = job[f]

LEMMA GoToIs ==
    ASSUME job \in [Execs -> JobSet], NEW e \in Execs, NEW pc \in JobSteps, GoTo(e, pc)
    PROVE  JobGoes(e, pc)
BY SMT DEF JobSet, JobGoes, GoTo

LEMMA EndJobIs ==
    ASSUME job \in [Execs -> JobSet], NEW e \in Execs, EndJob(e)
    PROVE  JobEnds(e)
<1>1. NoJob \in JobSet /\ NoJob.pc = "idle"
    BY ClaimNames, SMT DEF NoJob, JobSet, JobSteps
<1> QED
    BY <1>1, SMT DEF JobEnds, EndJob
\* The records of the Environment and of a claim, with the sets of their fields
\* left open: what is written to one field does not touch the others.
EnvOf(N, C, B) == [gen : N, observed : N, ready : B, revision : N, current : C, draft : C,
                   editor : B, commit : N, committed : N]
ClaimOf(S, C, H) == [state : S, source : C, holds : H]
ExecOf(P, B) == [phase : P, stop : B, alive : B, drafted : B]
RevisionStays ==
    env'.revision = env.revision /\ env'.current = env.current /\ env'.ready = env.ready
CommitsStay ==
    /\ env'.gen = env.gen /\ env'.observed = env.observed
    /\ env'.commit = env.commit /\ env'.committed = env.committed

LEMMA RequestCommitIs ==
    ASSUME env \in EnvSet, RequestCommit
    PROVE  /\ env' \in EnvSet /\ RevisionStays /\ env'.draft = env.draft
           /\ env'.gen = env.gen + 1 /\ env'.observed = env.observed
           /\ env'.commit = env.commit + 1 /\ env'.committed = env.committed
<1>1. env.commit + 1 \in Nat /\ env.gen + 1 \in Nat
    BY EnvFields, SMT
<1>2. PICK N, C, B, k, g : N = Nat /\ C = Names /\ B = BOOLEAN
                       /\ k = env.commit + 1 /\ g = env.gen + 1
    OBVIOUS
<1>3. env \in EnvOf(N, C, B) /\ k \in N /\ g \in N
    BY <1>1, <1>2 DEF EnvOf, EnvSet
<1>4. env' = [env EXCEPT !.commit = k, !.gen = g]
    BY <1>2 DEF RequestCommit
<1>5. /\ env' \in EnvOf(N, C, B)
      /\ env'.gen = g /\ env'.observed = env.observed /\ env'.ready = env.ready
      /\ env'.revision = env.revision
      /\ env'.current = env.current /\ env'.draft = env.draft /\ env'.editor = env.editor
      /\ env'.commit = k /\ env'.committed = env.committed
    BY <1>3, <1>4, ZenonT(40) DEF EnvOf
<1>6. env' \in EnvSet
    BY <1>2, <1>5 DEF EnvOf, EnvSet
<1> QED
    BY <1>2, <1>5, <1>6 DEF RevisionStays, CommitsStay

LEMMA EditSpecIs ==
    ASSUME env \in EnvSet, EditSpec
    PROVE  /\ env' \in EnvSet /\ RevisionStays /\ env'.draft = env.draft
           /\ env'.gen = env.gen + 1 /\ env'.observed = env.observed
           /\ env'.commit = env.commit /\ env'.committed = env.committed
<1>1. env.gen + 1 \in Nat
    BY EnvFields, SMT
<1>2. PICK N, C, B, g : N = Nat /\ C = Names /\ B = BOOLEAN
                       /\ g = env.gen + 1
    OBVIOUS
<1>3. env \in EnvOf(N, C, B) /\ g \in N
    BY <1>1, <1>2 DEF EnvOf, EnvSet
<1>4. env' = [env EXCEPT !.gen = g]
    BY <1>2 DEF EditSpec
<1>5. /\ env' \in EnvOf(N, C, B)
      /\ env'.gen = g /\ env'.observed = env.observed /\ env'.ready = env.ready
      /\ env'.revision = env.revision
      /\ env'.current = env.current /\ env'.draft = env.draft /\ env'.editor = env.editor
      /\ env'.commit = env.commit /\ env'.committed = env.committed
    BY <1>3, <1>4, ZenonT(40) DEF EnvOf
<1>6. env' \in EnvSet
    BY <1>2, <1>5 DEF EnvOf, EnvSet
<1> QED
    BY <1>2, <1>5, <1>6 DEF RevisionStays, CommitsStay

LEMMA ClearEditorIs ==
    ASSUME env \in EnvSet, ClearEditor
    PROVE  env' \in EnvSet /\ RevisionStays /\ CommitsStay /\ env'.draft = env.draft
<1>2. PICK N, C, B, x : N = Nat /\ C = Names /\ B = BOOLEAN
                       /\ x = FALSE
    OBVIOUS
<1>3. env \in EnvOf(N, C, B) /\ x \in B
    BY <1>2 DEF EnvOf, EnvSet
<1>4. env' = [env EXCEPT !.editor = x]
    BY <1>2 DEF ClearEditor
<1>5. /\ env' \in EnvOf(N, C, B)
      /\ env'.gen = env.gen /\ env'.observed = env.observed /\ env'.ready = env.ready
      /\ env'.revision = env.revision
      /\ env'.current = env.current /\ env'.draft = env.draft /\ env'.editor = x
      /\ env'.commit = env.commit /\ env'.committed = env.committed
    BY <1>3, <1>4, ZenonT(40) DEF EnvOf
<1>6. env' \in EnvSet
    BY <1>2, <1>5 DEF EnvOf, EnvSet
<1> QED
    BY <1>2, <1>5, <1>6 DEF RevisionStays, CommitsStay

LEMMA RecordDraftIs ==
    ASSUME env \in EnvSet, job \in [Execs -> JobSet], NEW e \in Execs, RecordDraft(e)
    PROVE  env' \in EnvSet /\ RevisionStays /\ CommitsStay /\ env'.draft = job[e].draft
<1>1. job[e].draft \in Names
    BY JobFields
<1>2. PICK N, C, B, d, x : N = Nat /\ C = Names /\ B = BOOLEAN
                       /\ d = job[e].draft /\ x = FALSE
    OBVIOUS
<1>3. env \in EnvOf(N, C, B) /\ d \in C /\ x \in B
    BY <1>1, <1>2 DEF EnvOf, EnvSet
<1>4. env' = [env EXCEPT !.draft = d, !.editor = x]
    BY <1>2 DEF RecordDraft
<1>5. /\ env' \in EnvOf(N, C, B)
      /\ env'.gen = env.gen /\ env'.observed = env.observed /\ env'.ready = env.ready
      /\ env'.revision = env.revision
      /\ env'.current = env.current /\ env'.draft = d /\ env'.editor = x
      /\ env'.commit = env.commit /\ env'.committed = env.committed
    BY <1>3, <1>4, ZenonT(40) DEF EnvOf
<1>6. env' \in EnvSet
    BY <1>2, <1>5 DEF EnvOf, EnvSet
<1> QED
    BY <1>2, <1>5, <1>6 DEF RevisionStays, CommitsStay

LEMMA RecordEditorIs ==
    ASSUME env \in EnvSet, job \in [Execs -> JobSet], NEW e \in Execs, RecordEditor(e)
    PROVE  env' \in EnvSet /\ RevisionStays /\ CommitsStay /\ env'.draft = job[e].draft
<1>1. job[e].draft \in Names
    BY JobFields
<1>2. PICK N, C, B, d, x : N = Nat /\ C = Names /\ B = BOOLEAN
                       /\ d = job[e].draft /\ x = TRUE
    OBVIOUS
<1>3. env \in EnvOf(N, C, B) /\ d \in C /\ x \in B
    BY <1>1, <1>2 DEF EnvOf, EnvSet
<1>4. env' = [env EXCEPT !.draft = d, !.editor = x]
    BY <1>2 DEF RecordEditor
<1>5. /\ env' \in EnvOf(N, C, B)
      /\ env'.gen = env.gen /\ env'.observed = env.observed /\ env'.ready = env.ready
      /\ env'.revision = env.revision
      /\ env'.current = env.current /\ env'.draft = d /\ env'.editor = x
      /\ env'.commit = env.commit /\ env'.committed = env.committed
    BY <1>3, <1>4, ZenonT(40) DEF EnvOf
<1>6. env' \in EnvSet
    BY <1>2, <1>5 DEF EnvOf, EnvSet
<1> QED
    BY <1>2, <1>5, <1>6 DEF RevisionStays, CommitsStay

LEMMA PromotedIs ==
    ASSUME env \in EnvSet, pass \in PassSet, env' = Promoted
    PROVE  /\ env' \in EnvSet /\ env'.draft = NoClaim /\ env'.ready = TRUE
           /\ env'.revision = env.revision + 1 /\ env'.current = pass.draft
           /\ env'.gen = env.gen /\ env'.observed = env.gen
           /\ env'.commit = env.commit /\ env'.committed = env.commit
<1>1. env.revision + 1 \in Nat /\ env.gen \in Nat /\ env.commit \in Nat /\ pass.draft \in Names
      /\ NoClaim \in Names
    BY EnvFields, PassFields, ClaimNames, SMT
<1>2. PICK N, C, B, o, y, v, c, d, x, m : N = Nat /\ C = Names /\ B = BOOLEAN
                       /\ o = env.gen /\ y = TRUE /\ v = env.revision + 1 /\ c = pass.draft /\ d = NoClaim /\ x = FALSE /\ m = env.commit
    OBVIOUS
<1>3. env \in EnvOf(N, C, B) /\ o \in N /\ y \in B /\ v \in N /\ c \in C /\ d \in C /\ x \in B /\ m \in N
    BY <1>1, <1>2 DEF EnvOf, EnvSet
<1>4. env' = [env EXCEPT !.observed = o, !.ready = y, !.revision = v, !.current = c, !.draft = d, !.editor = x, !.committed = m]
    BY <1>2 DEF Promoted
<1>5. /\ env' \in EnvOf(N, C, B)
      /\ env'.gen = env.gen /\ env'.observed = o /\ env'.ready = y
      /\ env'.revision = v
      /\ env'.current = c /\ env'.draft = d /\ env'.editor = x
      /\ env'.commit = env.commit /\ env'.committed = m
    BY <1>3, <1>4, ZenonT(40) DEF EnvOf
<1>6. env' \in EnvSet
    BY <1>2, <1>5 DEF EnvOf, EnvSet
<1> QED
    BY <1>2, <1>5, <1>6 DEF RevisionStays, CommitsStay

LEMMA ReportIs ==
    ASSUME env \in EnvSet, pass \in PassSet, Report
    PROVE  /\ env' \in EnvSet /\ env'.draft = env.draft
           /\ env'.revision = IF pass.revision = 0 THEN 1 ELSE pass.revision
           /\ env'.current = Named /\ env'.ready = (claim[Named].state = "bound")
           /\ env'.gen = env.gen /\ env'.observed = env.gen
           /\ env'.commit = env.commit /\ env'.committed = env.committed
<1>1. /\ (IF pass.revision = 0 THEN 1 ELSE pass.revision) \in Nat /\ Named \in Names /\ env.gen \in Nat
    BY EnvFields, PassFields, ClaimNames, SMT DEF Named
<1>2. PICK N, C, B, o, v, c, y : N = Nat /\ C = Names /\ B = BOOLEAN
                       /\ o = env.gen /\ v = (IF pass.revision = 0 THEN 1 ELSE pass.revision) /\ c = Named /\ y = (claim[Named].state = "bound")
    OBVIOUS
<1>3. env \in EnvOf(N, C, B) /\ o \in N /\ v \in N /\ c \in C /\ y \in B
    BY <1>1, <1>2 DEF EnvOf, EnvSet
<1>4. env' = [env EXCEPT !.observed = o, !.revision = v, !.current = c, !.ready = y]
    BY <1>2 DEF Report
<1>5. /\ env' \in EnvOf(N, C, B)
      /\ env'.gen = env.gen /\ env'.observed = o /\ env'.ready = y
      /\ env'.revision = v
      /\ env'.current = c /\ env'.draft = env.draft /\ env'.editor = env.editor
      /\ env'.commit = env.commit /\ env'.committed = env.committed
    BY <1>3, <1>4, ZenonT(40) DEF EnvOf
<1>6. env' \in EnvSet
    BY <1>2, <1>5 DEF EnvOf, EnvSet
<1> QED
    BY <1>2, <1>5, <1>6 DEF RevisionStays, CommitsStay
\* One claim is written, the others stay.
ClaimWritten(n, state, source, holds) ==
    /\ claim' \in [Claims -> ClaimSet]
    /\ claim'[n].state = state /\ claim'[n].source = source /\ claim'[n].holds = holds
    /\ \A m \in Claims \ {n} : claim'[m] = claim[m]

LEMMA NewClaimIs ==
    NewClaim \in ClaimSet /\ NewClaim.state = "absent" /\ NewClaim.holds = {}
BY ClaimNames, SMT DEF NewClaim, ClaimSet, ClaimStates

LEMMA RequestedIs ==
    ASSUME NEW s \in Names
    PROVE  LET u == [NewClaim EXCEPT !.state = "pending", !.source = s]
           IN u \in ClaimSet /\ u.state = "pending" /\ u.source = s /\ u.holds = {}
<1>1. PICK S, C, H, b, c : /\ S = ClaimStates /\ C = Names /\ H = SUBSET Execs
                           /\ b = "pending" /\ c = NewClaim
    OBVIOUS
<1> DEFINE u == [c EXCEPT !.state = b, !.source = s]
<1>2. ClaimSet = ClaimOf(S, C, H) /\ b \in S /\ s \in C
    BY <1>1 DEF ClaimOf, ClaimSet, ClaimStates
<1>3. c \in ClaimOf(S, C, H)
    BY <1>1, <1>2, NewClaimIs
<1>4. u \in ClaimOf(S, C, H) /\ u.state = b /\ u.source = s /\ u.holds = c.holds
    BY <1>2, <1>3 DEF ClaimOf
<1> QED
    BY <1>1, <1>2, <1>4, NewClaimIs, Zenon

LEMMA BlankIs ==
    LET u == [NewClaim EXCEPT !.state = "pending"]
    IN u \in ClaimSet /\ u.state = "pending" /\ u.source = NoClaim /\ u.holds = {}
<1>1. [NewClaim EXCEPT !.state = "pending"]
      = [state |-> "pending", source |-> NoClaim, holds |-> {}]
    BY DEF NewClaim
<1>2. {} \in SUBSET Execs /\ "pending" \in ClaimStates /\ NoClaim \in Names
    BY ClaimNames DEF ClaimStates
<1> QED
    BY <1>1, <1>2, SMT DEF ClaimSet

\* Whatever record is put in the place of a claim.
LEMMA ClaimPut ==
    ASSUME claim \in [Claims -> ClaimSet], NEW n \in Claims, NEW u \in ClaimSet,
           claim' = [claim EXCEPT ![n] = u]
    PROVE  ClaimWritten(n, u.state, u.source, u.holds)
BY Zenon DEF ClaimWritten

LEMMA ClaimBindsIs ==
    ASSUME claim \in [Claims -> ClaimSet], NEW n \in Claims, ClaimBinds(n)
    PROVE  /\ claim[n].state = "pending" /\ Whole(claim[n].source)
           /\ ClaimWritten(n, "bound", claim[n].source, Content(claim[n].source))
<1>1. Content(claim[n].source) \in SUBSET Execs
    <2>1. CASE claim[n].source = NoClaim
        BY <2>1 DEF Content
    <2>2. CASE claim[n].source # NoClaim
        <3>1. claim[n].source \in Claims
            BY <2>2, ClaimFields, ClaimNames, Zenon
        <3> QED
            BY <2>2, <3>1, ClaimFields, Zenon DEF Content
    <2> QED
        BY <2>1, <2>2
<1>2. PICK S, C, H, h, b : /\ S = ClaimStates /\ C = Names /\ H = SUBSET Execs
                           /\ h = Content(claim[n].source) /\ b = "bound"
    OBVIOUS
<1> DEFINE u == [claim[n] EXCEPT !.state = b, !.holds = h]
<1>3. ClaimSet = ClaimOf(S, C, H) /\ b \in S /\ h \in H
    BY <1>1, <1>2 DEF ClaimOf, ClaimSet, ClaimStates
<1>4. claim[n] \in ClaimOf(S, C, H)
    BY <1>3
<1>5. u \in ClaimOf(S, C, H) /\ u.state = b /\ u.source = claim[n].source /\ u.holds = h
    BY <1>3, <1>4 DEF ClaimOf
<1>6. claim' = [claim EXCEPT ![n] = u]
    BY <1>2 DEF ClaimBinds
<1>7. ClaimWritten(n, u.state, u.source, u.holds)
    BY <1>3, <1>5, <1>6, ClaimPut, Zenon
<1>8. claim[n].state = "pending" /\ Whole(claim[n].source)
    BY DEF ClaimBinds
<1> QED
    BY <1>2, <1>5, <1>7, <1>8, Zenon

LEMMA CreateCurrentIs ==
    ASSUME claim \in [Claims -> ClaimSet], CreateCurrent
    PROVE  /\ pass.pc = "current" /\ pass.current = NoClaim /\ claim[1].state = "absent"
           /\ ClaimWritten(1, "pending", NoClaim, {})
<1> DEFINE u == [NewClaim EXCEPT !.state = "pending"]
<1>1. claim' = [claim EXCEPT ![1] = u]
    BY DEF CreateCurrent, Named
<1>2. ClaimWritten(1, u.state, u.source, u.holds)
    BY <1>1, BlankIs, ClaimPut, ClaimNames, Zenon
<1>3. pass.pc = "current" /\ pass.current = NoClaim /\ claim[1].state = "absent"
    BY DEF CreateCurrent, Named
<1> QED
    BY <1>2, <1>3, BlankIs, Zenon

LEMMA CreateDraftIs ==
    ASSUME claim \in [Claims -> ClaimSet], job \in [Execs -> JobSet], NEW e \in Execs,
           job[e].draft \in Claims, CreateDraft(e)
    PROVE  /\ claim[job[e].draft].state = "absent"
           /\ ClaimWritten(job[e].draft, "pending", job[e].current, {})
<1> DEFINE u == [NewClaim EXCEPT !.state = "pending", !.source = job[e].current]
<1>1. claim' = [claim EXCEPT ![job[e].draft] = u]
    BY DEF CreateDraft
<1>2. job[e].current \in Names
    BY JobFields
<1>3. u \in ClaimSet /\ u.state = "pending" /\ u.source = job[e].current /\ u.holds = {}
    BY <1>2, RequestedIs, Zenon
<1> HIDE DEF u
<1>4. ClaimWritten(job[e].draft, u.state, u.source, u.holds)
    BY <1>1, <1>3, ClaimPut, Zenon
<1>5. claim[job[e].draft].state = "absent"
    BY DEF CreateDraft
<1> QED
    BY <1>3, <1>4, <1>5, Zenon

LEMMA ProcessEndsIs ==
    ASSUME claim \in [Claims -> ClaimSet], editor.claim \in Claims,
           NEW e \in Execs, ProcessEnds(e)
    PROVE  ClaimWritten(editor.claim, claim[editor.claim].state, claim[editor.claim].source,
                        claim[editor.claim].holds \cup {e})
<1>1. PICK n, S, C, H, h : /\ n = editor.claim /\ S = ClaimStates /\ C = Names
                           /\ H = SUBSET Execs /\ h = claim[editor.claim].holds \cup {e}
    OBVIOUS
<1> DEFINE u == [claim[n] EXCEPT !.holds = h]
<1>2. ClaimSet = ClaimOf(S, C, H)
    BY <1>1 DEF ClaimOf, ClaimSet
<1>3. h \in H
    BY <1>1, ClaimFields
<1>4. claim[n] \in ClaimOf(S, C, H)
    BY <1>1, <1>2
<1>5. u \in ClaimOf(S, C, H) /\ u.state = claim[n].state /\ u.source = claim[n].source /\ u.holds = h
    BY <1>3, <1>4 DEF ClaimOf
<1>6. claim' = [claim EXCEPT ![n] = u]
    BY <1>1 DEF ProcessEnds
<1>7. ClaimWritten(n, u.state, u.source, u.holds)
    BY <1>1, <1>2, <1>5, <1>6, ClaimPut, Zenon
<1> QED
    BY <1>1, <1>5, <1>7, Zenon

LEMMA GoingIs ==
    ASSUME NEW c \in ClaimSet
    PROVE  LET u == [c EXCEPT !.state = "going"]
           IN u \in ClaimSet /\ u.state = "going" /\ u.source = c.source
<1>1. PICK S, C, H, b : S = ClaimStates /\ C = Names /\ H = SUBSET Execs /\ b = "going"
    OBVIOUS
<1> DEFINE u == [c EXCEPT !.state = b]
<1>2. ClaimSet = ClaimOf(S, C, H) /\ b \in S
    BY <1>1 DEF ClaimOf, ClaimSet, ClaimStates
<1>3. c \in ClaimOf(S, C, H)
    BY <1>2
<1>4. u \in ClaimOf(S, C, H) /\ u.state = b /\ u.source = c.source
    BY <1>2, <1>3 DEF ClaimOf
<1> QED
    BY <1>1, <1>2, <1>4, Zenon

\* A deletion leaves every other claim, and of its own at most the name.
LEMMA DeleteOldIs ==
    ASSUME claim \in [Claims -> ClaimSet], DeleteOld
    PROVE  /\ pass.pc = "delete" /\ claim' \in [Claims -> ClaimSet]
           /\ \A n \in Claims : claim'[n] = claim[n] \/
                 /\ n = pass.current /\ n # pass.draft
                 /\ \/ claim'[n].state = "absent"
                    \/ claim'[n].state = "going" /\ claim'[n].source = claim[n].source
                       /\ editor.exists /\ editor.claim = n
<1> DEFINE G(n) == [claim[n] EXCEPT !.state = "going"]
           U(n) == IF n \notin Superseded THEN claim[n]
                   ELSE IF editor.exists /\ editor.claim = n THEN G(n) ELSE NewClaim
<1>1. claim' = [n \in Claims |-> U(n)]
    BY DEF DeleteOld
<1>2. \A n \in Claims : claim[n] \in ClaimSet /\ G(n) \in ClaimSet /\ G(n).state = "going"
                        /\ G(n).source = claim[n].source
    BY ClaimFields, GoingIs, Zenon
<1>3. \A n \in Claims : n \in Superseded => n = pass.current /\ n # pass.draft
    BY DEF Superseded
<1>4. pass.pc = "delete"
    BY DEF DeleteOld
<1> HIDE DEF G
<1>5. \A n \in Claims : /\ U(n) \in ClaimSet
                        /\ U(n) = claim[n] \/
                             /\ n = pass.current /\ n # pass.draft
                             /\ \/ U(n).state = "absent"
                                \/ U(n).state = "going" /\ U(n).source = claim[n].source
                                   /\ editor.exists /\ editor.claim = n
    BY <1>2, <1>3, NewClaimIs, Zenon
<1> HIDE DEF U
<1> QED
    BY <1>1, <1>4, <1>5, Zenon

LEMMA EditorGoneIs ==
    ASSUME claim \in [Claims -> ClaimSet], exec \in [Execs -> ExecSet], EditorGone
    PROVE  /\ editor.going /\ editor' = NoEditor
           /\ claim' \in [Claims -> ClaimSet]
           /\ \A n \in Claims : claim'[n] = claim[n] \/
                                (claim[n].state = "going" /\ claim'[n].state = "absent")
           /\ exec' \in [Execs -> ExecSet]
           /\ \A e \in Execs : /\ exec'[e].phase = exec[e].phase /\ exec'[e].alive = FALSE
                               /\ exec'[e].drafted = exec[e].drafted
<1> DEFINE U(n) == IF n = editor.claim /\ claim[n].state = "going" THEN NewClaim ELSE claim[n]
<1>1. claim' = [n \in Claims |-> U(n)]
    BY DEF EditorGone
<1>2. \A n \in Claims : /\ U(n) \in ClaimSet
                        /\ U(n) = claim[n] \/ (claim[n].state = "going" /\ U(n).state = "absent")
    <2> SUFFICES ASSUME NEW n \in Claims
                 PROVE  /\ U(n) \in ClaimSet
                        /\ U(n) = claim[n] \/ (claim[n].state = "going" /\ U(n).state = "absent")
        OBVIOUS
    <2>1. CASE n = editor.claim /\ claim[n].state = "going"
        BY <2>1, NewClaimIs
    <2>2. CASE ~(n = editor.claim /\ claim[n].state = "going")
        <3>1. U(n) = claim[n]
            BY <2>2, Zenon
        <3> HIDE DEF U
        <3> QED
            BY <3>1, ClaimFields, Zenon
    <2> QED
        BY <2>1, <2>2
<1> HIDE DEF U
<1>3. /\ claim' \in [Claims -> ClaimSet]
      /\ \A n \in Claims : claim'[n] = claim[n] \/
                           (claim[n].state = "going" /\ claim'[n].state = "absent")
    BY <1>1, <1>2, Zenon
<1>4. PICK P, B, x : P = Phases /\ B = BOOLEAN /\ x = FALSE
    OBVIOUS
<1>5. ExecSet = ExecOf(P, B) /\ x \in B
    BY <1>4 DEF ExecSet, ExecOf
<1>6. exec' = [e \in Execs |-> [exec[e] EXCEPT !.alive = x]]
    BY <1>4 DEF EditorGone
<1>7. exec \in [Execs -> ExecOf(P, B)]
    BY <1>5
<1>8. /\ exec' \in [Execs -> ExecOf(P, B)]
      /\ \A e \in Execs : /\ exec'[e].phase = exec[e].phase /\ exec'[e].alive = x
                          /\ exec'[e].drafted = exec[e].drafted
    BY <1>5, <1>6, <1>7 DEF ExecOf
<1>9. editor.going /\ editor' = NoEditor
    BY DEF EditorGone
<1> QED
    BY <1>3, <1>4, <1>5, <1>8, <1>9, Zenon

\* One execution is written, the others stay.
ExecWritten(e, phase, alive, drafted) ==
    /\ exec' \in [Execs -> ExecSet]
    /\ exec'[e].phase = phase /\ exec'[e].alive = alive /\ exec'[e].drafted = drafted
    /\ \A f \in Execs \ {e} : exec'[f] = exec[f]

LEMMA ExecPut ==
    ASSUME exec \in [Execs -> ExecSet], NEW e \in Execs, NEW u \in ExecSet,
           exec' = [exec EXCEPT ![e] = u]
    PROVE  ExecWritten(e, u.phase, u.alive, u.drafted)
BY Zenon DEF ExecWritten

\* An execution gets another phase, and its process with it.
LEMMA PhaseIs ==
    ASSUME exec \in [Execs -> ExecSet], NEW e \in Execs, NEW p \in Phases,
           exec' = [exec EXCEPT ![e].phase = p]
    PROVE  ExecWritten(e, p, exec[e].alive, exec[e].drafted)
<1>1. PICK P, B : P = Phases /\ B = BOOLEAN
    OBVIOUS
<1> DEFINE u == [exec[e] EXCEPT !.phase = p]
<1>2. ExecSet = ExecOf(P, B) /\ p \in P
    BY <1>1 DEF ExecSet, ExecOf
<1>3. exec[e] \in ExecOf(P, B)
    BY <1>2
<1>4. u \in ExecOf(P, B) /\ u.phase = p /\ u.alive = exec[e].alive /\ u.drafted = exec[e].drafted
    BY <1>2, <1>3 DEF ExecOf
<1>5. exec' = [exec EXCEPT ![e] = u]
    OBVIOUS
<1>6. ExecWritten(e, u.phase, u.alive, u.drafted)
    BY <1>2, <1>4, <1>5, ExecPut, Zenon
<1> QED
    BY <1>4, <1>6, Zenon

LEMMA AskToStopIs ==
    ASSUME exec \in [Execs -> ExecSet], NEW e \in Execs, AskToStop(e)
    PROVE  ExecWritten(e, exec[e].phase, exec[e].alive, exec[e].drafted)
<1>1. PICK P, B, x : P = Phases /\ B = BOOLEAN /\ x = TRUE
    OBVIOUS
<1> DEFINE u == [exec[e] EXCEPT !.stop = x]
<1>2. ExecSet = ExecOf(P, B) /\ x \in B
    BY <1>1 DEF ExecSet, ExecOf
<1>3. exec[e] \in ExecOf(P, B)
    BY <1>2
<1>4. /\ u \in ExecOf(P, B)
      /\ u.phase = exec[e].phase /\ u.alive = exec[e].alive /\ u.drafted = exec[e].drafted
    BY <1>2, <1>3 DEF ExecOf
<1>5. exec' = [exec EXCEPT ![e] = u]
    BY <1>1 DEF AskToStop
<1>6. ExecWritten(e, u.phase, u.alive, u.drafted)
    BY <1>2, <1>4, <1>5, ExecPut, Zenon
<1> QED
    BY <1>4, <1>6, Zenon

LEMMA StartedIs ==
    ASSUME exec \in [Execs -> ExecSet], NEW e \in Execs,
           exec' = [exec EXCEPT ![e].phase = "running", ![e].alive = TRUE]
    PROVE  ExecWritten(e, "running", TRUE, exec[e].drafted)
<1>1. PICK P, B, p, x : P = Phases /\ B = BOOLEAN /\ p = "running" /\ x = TRUE
    OBVIOUS
<1> DEFINE u == [exec[e] EXCEPT !.phase = p, !.alive = x]
<1>2. ExecSet = ExecOf(P, B) /\ x \in B /\ p \in P
    BY <1>1 DEF ExecSet, ExecOf, Phases
<1>3. exec[e] \in ExecOf(P, B)
    BY <1>2
<1>4. u \in ExecOf(P, B) /\ u.phase = p /\ u.alive = x /\ u.drafted = exec[e].drafted
    BY <1>2, <1>3 DEF ExecOf
<1>5. exec' = [exec EXCEPT ![e] = u]
    BY <1>1
<1>6. ExecWritten(e, u.phase, u.alive, u.drafted)
    BY <1>2, <1>4, <1>5, ExecPut, Zenon
<1> QED
    BY <1>1, <1>4, <1>6, Zenon

LEMMA EndedIs ==
    ASSUME exec \in [Execs -> ExecSet], NEW e \in Execs, ProcessEnds(e)
    PROVE  ExecWritten(e, "succeeded", FALSE, editor.claim = env.draft)
<1>1. PICK P, B, p, x, d : /\ P = Phases /\ B = BOOLEAN /\ p = "succeeded" /\ x = FALSE
                           /\ d = (editor.claim = env.draft)
    OBVIOUS
<1> DEFINE u == [exec[e] EXCEPT !.phase = p, !.alive = x, !.drafted = d]
<1>2. ExecSet = ExecOf(P, B) /\ x \in B /\ p \in P /\ d \in B
    BY <1>1 DEF ExecSet, ExecOf, Phases, Terminal
<1>3. exec[e] \in ExecOf(P, B)
    BY <1>2
<1>4. u \in ExecOf(P, B) /\ u.phase = p /\ u.alive = x /\ u.drafted = d
    BY <1>2, <1>3 DEF ExecOf
<1>5. exec' = [exec EXCEPT ![e] = u]
    BY <1>1 DEF ProcessEnds
<1>6. ExecWritten(e, u.phase, u.alive, u.drafted)
    BY <1>2, <1>4, <1>5, ExecPut, Zenon
<1> QED
    BY <1>1, <1>4, <1>6, Zenon

EditorOf(B, C) == [exists : B, ready : B, going : B, claim : C]

LEMMA NoEditorIs ==
    NoEditor \in EditorSet /\ NoEditor.exists = FALSE /\ NoEditor.going = FALSE
BY ClaimNames, Zenon DEF NoEditor, EditorSet

\* A stopped editor is the same Pod.
EditorStays == editor'.exists = editor.exists /\ editor'.claim = editor.claim

LEMMA StoppingIs ==
    ASSUME editor \in EditorSet, editor' = Stopping(editor)
    PROVE  /\ editor' \in EditorSet /\ EditorStays
           /\ editor'.going = (editor.going \/ editor.exists)
<1>1. PICK B, C, g : B = BOOLEAN /\ C = Names /\ g = (editor.going \/ editor.exists)
    OBVIOUS
<1>2. EditorSet = EditorOf(B, C) /\ g \in B
    BY <1>1 DEF EditorSet, EditorOf
<1>3. editor \in EditorOf(B, C)
    BY <1>2
<1>4. editor' = [editor EXCEPT !.going = g]
    BY <1>1 DEF Stopping
<1>5. /\ editor' \in EditorOf(B, C) /\ editor'.going = g
      /\ editor'.exists = editor.exists /\ editor'.claim = editor.claim
    BY <1>2, <1>3, <1>4 DEF EditorOf
<1> QED
    BY <1>1, <1>2, <1>5, Zenon DEF EditorStays

LEMMA EditorReadyIs ==
    ASSUME editor \in EditorSet, EditorReady
    PROVE  editor' \in EditorSet /\ EditorStays /\ editor'.going = editor.going
<1>1. PICK B, C, g : B = BOOLEAN /\ C = Names /\ g = TRUE
    OBVIOUS
<1>2. EditorSet = EditorOf(B, C) /\ g \in B
    BY <1>1 DEF EditorSet, EditorOf
<1>3. editor \in EditorOf(B, C)
    BY <1>2
<1>4. editor' = [editor EXCEPT !.ready = g]
    BY <1>1 DEF EditorReady
<1>5. /\ editor' \in EditorOf(B, C) /\ editor'.going = editor.going
      /\ editor'.exists = editor.exists /\ editor'.claim = editor.claim
    BY <1>2, <1>3, <1>4 DEF EditorOf
<1> QED
    BY <1>1, <1>2, <1>5, Zenon DEF EditorStays

\* A worker makes an editor for its draft.
LEMMA EditorMade ==
    ASSUME NEW d \in Names, editor' = [NoEditor EXCEPT !.exists = TRUE, !.claim = d]
    PROVE  editor' \in EditorSet /\ editor'.exists = TRUE /\ editor'.going = FALSE
           /\ editor'.claim = d
<1>1. PICK B, C, x, r : B = BOOLEAN /\ C = Names /\ x = TRUE /\ r = NoEditor
    OBVIOUS
<1>2. EditorSet = EditorOf(B, C) /\ x \in B /\ d \in C
    BY <1>1 DEF EditorSet, EditorOf
<1>3. r \in EditorOf(B, C)
    BY <1>1, <1>2, NoEditorIs
<1>4. editor' = [r EXCEPT !.exists = x, !.claim = d]
    BY <1>1
<1>5. /\ editor' \in EditorOf(B, C) /\ editor'.going = r.going
      /\ editor'.exists = x /\ editor'.claim = d
    BY <1>2, <1>3, <1>4 DEF EditorOf
<1> QED
    BY <1>1, <1>2, <1>5, NoEditorIs, Zenon

\* Either no editor was there and the worker makes one, or the editor stays.
LEMMA EnsureEditorIs ==
    ASSUME editor \in EditorSet, job \in [Execs -> JobSet], NEW e \in Execs, EnsureEditor(e)
    PROVE  /\ At(e, "editor")
           /\ \/ /\ ~editor.exists /\ editor' \in EditorSet
                 /\ editor'.exists = TRUE /\ editor'.going = FALSE /\ editor'.claim = job[e].draft
                 /\ JobGoes(e, "starting")
              \/ editor' = editor /\ (JobEnds(e) \/ JobGoes(e, "ready"))
<1>1. job[e].draft \in Names
    BY JobFields
<1>2. At(e, "editor")
    BY DEF EnsureEditor
<1>3. CASE /\ ~editor.exists
           /\ editor' = [NoEditor EXCEPT !.exists = TRUE, !.claim = job[e].draft]
           /\ GoTo(e, "starting")
    BY <1>1, <1>2, <1>3, EditorMade, GoToIs, Zenon DEF JobSteps
<1>4. CASE EndJob(e) /\ UNCHANGED editor
    BY <1>2, <1>4, EndJobIs, Zenon
<1>5. CASE GoTo(e, "ready") /\ UNCHANGED editor
    BY <1>2, <1>5, GoToIs, Zenon DEF JobSteps
<1> QED
    BY <1>3, <1>4, <1>5, Zenon DEF EnsureEditor

LEMMA BeginJobIs ==
    ASSUME env \in EnvSet, job \in [Execs -> JobSet], NEW e \in Execs, BeginJob(e),
           DraftName \in Names
    PROVE  /\ At(e, "idle") /\ env.ready /\ exec[e].phase = "pending"
           /\ job' \in [Execs -> JobSet]
           /\ job'[e].pc = "draft" /\ job'[e].current = env.current /\ job'[e].draft = DraftName
           /\ \A f \in Execs \ {e} : job'[f] = job[f]
<1>1. PICK u : u = [pc |-> "draft", current |-> env.current, draft |-> DraftName]
    OBVIOUS
<1>2. env.current \in Names /\ "draft" \in JobSteps
    BY EnvFields DEF JobSteps
<1>3. u \in JobSet /\ u.pc = "draft" /\ u.current = env.current /\ u.draft = DraftName
    BY <1>1, <1>2, SMT DEF JobSet
<1>4. job' = [job EXCEPT ![e] = u]
    BY <1>1 DEF BeginJob
<1>5. /\ job' \in [Execs -> JobSet] /\ job'[e] = u
      /\ \A f \in Execs \ {e} : job'[f] = job[f]
    BY <1>3, <1>4, Zenon
<1>6. At(e, "idle") /\ env.ready /\ exec[e].phase = "pending"
    BY DEF BeginJob, ReadyAtGeneration
<1> QED
    BY <1>3, <1>5, <1>6, Zenon

LEMMA CheckDraftIs ==
    ASSUME job \in [Execs -> JobSet], NEW e \in Execs, CheckDraft(e)
    PROVE  At(e, "draft") /\
           (JobEnds(e) \/
              (JobGoes(e, "editor") /\ claim[job[e].draft].state = "bound"
               /\ claim[job[e].draft].source = job[e].current))
<1>1. At(e, "draft")
    BY DEF CheckDraft
<1>2. \/ EndJob(e)
      \/ /\ GoTo(e, "editor") /\ claim[job[e].draft].state = "bound"
         /\ claim[job[e].draft].source = job[e].current
    BY DEF CheckDraft
<1> QED
    BY <1>1, <1>2, EndJobIs, GoToIs, Zenon DEF JobSteps

LEMMA RecordedIs ==
    ASSUME job \in [Execs -> JobSet], NEW e \in Execs, RecordEditor(e)
    PROVE  JobEnds(e) \/ (JobGoes(e, "start") /\ At(e, "ready"))
<1>1. EndJob(e) \/ (GoTo(e, "start") /\ At(e, "ready"))
    BY DEF RecordEditor
<1> QED
    BY <1>1, EndJobIs, GoToIs, Zenon DEF JobSteps

LEMMA StartProcessIs ==
    ASSUME job \in [Execs -> JobSet], exec \in [Execs -> ExecSet], NEW e \in Execs,
           StartProcess(e)
    PROVE  /\ At(e, "start") /\ JobEnds(e)
           /\ \/ ExecWritten(e, "ended", exec[e].alive, exec[e].drafted)
              \/ editor.exists /\ ExecWritten(e, "running", TRUE, exec[e].drafted)
<1>1. At(e, "start") /\ EndJob(e)
    BY DEF StartProcess
<1>2. \/ exec' = [exec EXCEPT ![e].phase = "ended"]
      \/ editor.exists /\ exec' = [exec EXCEPT ![e].phase = "running", ![e].alive = TRUE]
    BY DEF StartProcess
<1>3. "ended" \in Phases
    BY DEF Phases, Terminal
<1>4. JobEnds(e)
    BY <1>1, EndJobIs, Zenon
<1>5. exec' = [exec EXCEPT ![e].phase = "ended"] => ExecWritten(e, "ended", exec[e].alive, exec[e].drafted)
    BY <1>3, PhaseIs, Zenon
<1>6. exec' = [exec EXCEPT ![e].phase = "running", ![e].alive = TRUE]
        => ExecWritten(e, "running", TRUE, exec[e].drafted)
    BY StartedIs, Zenon
<1> QED
    BY <1>1, <1>2, <1>4, <1>5, <1>6, Zenon

\* What is left of the load gets less.
LEMMA LeftLess ==
    ASSUME left \in LeftSet, RequestCommit \/ EditSpec \/ LoseEditor \/ Fail
    PROVE  /\ left' \in LeftSet
           /\ RequestCommit => left'.commits = left.commits - 1
           /\ EditSpec \/ LoseEditor \/ Fail => left'.commits = left.commits
<1>4. ASSUME RequestCommit
      PROVE  left' \in LeftSet /\ left'.commits = left.commits - 1
    BY <1>4, SMT DEF LeftSet, RequestCommit
<1>5. ASSUME EditSpec
      PROVE  left' \in LeftSet /\ left'.commits = left.commits
    BY <1>5, SMT DEF LeftSet, EditSpec
<1>6. ASSUME LoseEditor
      PROVE  left' \in LeftSet /\ left'.commits = left.commits
    BY <1>6, SMT DEF LeftSet, LoseEditor
<1>7. ASSUME Fail
      PROVE  left' \in LeftSet /\ left'.commits = left.commits
    <2>1. left.faults > 0 /\ left' = [left EXCEPT !.faults = left.faults - 1]
        BY <1>7 DEF Fail
    <2> QED
        BY <2>1, SMT DEF LeftSet
<1> QED
    BY <1>4, <1>5, <1>6, <1>7

-----------------------------------------------------------------------------
(* Every step keeps the types and the numbers.                             *)

\* The pass ends, or goes on with what it has read; only a pass that checked
\* the commit promotes it.
PassContinues ==
    \/ PassRests
    \/ \E pc \in PassSteps :
          /\ PassGoes(pc) /\ pc \notin {"idle", "delete"} /\ pass.pc \notin {"idle", "delete"}
          /\ pc \in Committing => pass.pc \in Committing

PassWork == CheckCommit \/ StopEditor \/ PromoteLost \/ DeleteOld \/ CheckEditor \/ ClearEditor
              \/ CheckReplace \/ CheckIdle \/ EvictEditor \/ CreateCurrent \/ FindCurrent \/ Report

LEMMA PassContinuing ==
    ASSUME pass \in PassSet, PassWork
    PROVE  PassContinues
<1> DEFINE Goes(pc) == /\ Step(pc) /\ pc \in PassSteps
                       /\ pc \notin {"idle", "delete"} /\ pass.pc \notin {"idle", "delete"}
                       /\ pc \in Committing => pass.pc \in Committing
<1>1. EndPass => PassContinues
    BY EndPassIs DEF PassContinues
<1>2. ASSUME NEW pc, Goes(pc)
      PROVE  PassContinues
    BY <1>2, StepIs, Zenon DEF PassContinues
<1>3. CASE CheckCommit
    <2>1. EndPass \/ Goes("stopping") \/ Goes("promote")
        BY <1>3 DEF CheckCommit, PassSteps, Committing
    <2> QED
        BY <1>1, <1>2, <2>1
<1>4. CASE StopEditor
    <2>1. EndPass \/ Goes("promote")
        BY <1>4 DEF StopEditor, PassSteps, Committing
    <2> QED
        BY <1>1, <1>2, <2>1
<1>5. CASE CheckEditor
    <2>1. Goes("clear") \/ Goes("replace") \/ Goes("idling") \/ Goes("current")
        BY <1>5 DEF CheckEditor, PassSteps, Committing
    <2> QED
        BY <1>2, <2>1
<1>6. CASE CheckReplace
    <2>1. EndPass \/ Goes("evict")
        BY <1>6 DEF CheckReplace, PassSteps, Committing
    <2> QED
        BY <1>1, <1>2, <2>1
<1>7. CASE CheckIdle
    <2>1. EndPass \/ Goes("evict") \/ Goes("current")
        BY <1>7 DEF CheckIdle, PassSteps, Committing
    <2> QED
        BY <1>1, <1>2, <2>1
<1>8. CASE CreateCurrent \/ FindCurrent
    <2>1. Goes("report")
        BY <1>8 DEF CreateCurrent, FindCurrent, PassSteps, Committing
    <2> QED
        BY <1>2, <2>1
<1>9. CASE PromoteLost \/ DeleteOld \/ ClearEditor \/ EvictEditor \/ Report
    BY <1>1, <1>9 DEF PromoteLost, DeleteOld, ClearEditor, EvictEditor, Report
<1> QED
    BY <1>3, <1>4, <1>5, <1>6, <1>7, <1>8, <1>9 DEF PassWork

LEMMA BeginPassIs ==
    ASSUME env \in EnvSet, BeginPass
    PROVE  /\ pass.pc = "idle" /\ pass' \in PassSet
           /\ pass'.revision = env.revision /\ pass'.current = env.current
           /\ pass'.draft = env.draft
           /\ pass'.pc \in {"commit", "editor", "current"}
           /\ pass'.pc = "commit" => CommitDue /\ env.draft # NoClaim
<1>1. PICK p, st, v, c, d, x, B, C :
          /\ p = IF CommitDue THEN "commit" ELSE IF env.editor THEN "editor" ELSE "current"
          /\ st = (env.observed < env.gen) /\ v = env.revision /\ c = env.current
          /\ d = env.draft /\ x = env.editor /\ B = BOOLEAN /\ C = Names
    OBVIOUS
<1>2. pass' = [pc |-> p, stale |-> st, revision |-> v, current |-> c, draft |-> d, editor |-> x]
    BY <1>1 DEF BeginPass
<1>3. p \in PassSteps /\ st \in B /\ v \in Nat /\ c \in C /\ d \in C /\ x \in B
    <2>1. p \in PassSteps
        BY <1>1 DEF PassSteps
    <2>2. (env.observed < env.gen) \in BOOLEAN
        OBVIOUS
    <2> QED
        BY <1>1, <2>1, <2>2, EnvFields, Zenon
<1>4. /\ pass' \in [pc : PassSteps, stale : B, revision : Nat, current : C, draft : C, editor : B]
      /\ pass'.pc = p /\ pass'.revision = v /\ pass'.current = c /\ pass'.draft = d
    BY <1>2, <1>3, SMT
<1>5. pass' \in PassSet
    BY <1>1, <1>4 DEF PassSet
<1>6. p \in {"commit", "editor", "current"} /\ (p = "commit" => CommitDue)
    BY <1>1
<1>7. pass.pc = "idle" /\ ~(CommitDue /\ env.draft = NoClaim)
    BY DEF BeginPass
<1> QED
    BY <1>1, <1>4, <1>5, <1>6, <1>7, Zenon

LEMMA PassKeeps ==
    ASSUME env \in EnvSet, pass \in PassSet, PassKnows, PassContinues,
           env'.revision = env.revision, env'.current = env.current,
           env'.commit = env.commit, env'.committed = env.committed
    PROVE  pass' \in PassSet /\ PassKnows'
<1>1. CASE PassRests
    BY <1>1 DEF PassRests, PassKnows, Committing
<1>2. ASSUME NEW pc \in PassSteps,
             PassGoes(pc), pc \notin {"idle", "delete"}, pass.pc \notin {"idle", "delete"},
             pc \in Committing => pass.pc \in Committing
      PROVE  pass' \in PassSet /\ PassKnows'
    BY <1>2, Zenon DEF PassGoes, PassKnows, CommitDue
<1> QED
    BY <1>1, <1>2 DEF PassContinues

\* A pass that is not begun, or is only interrupted, does not speak of env.
LEMMA PassWaits ==
    ASSUME pass \in PassSet, env \in EnvSet, env' \in EnvSet, PassKnows, UNCHANGED pass,
           env'.revision = env.revision, env'.current = env.current,
           env'.commit >= env.commit, env'.committed = env.committed
    PROVE  PassKnows'
<1>1. CommitDue => CommitDue'
    BY EnvFields, SMT DEF CommitDue, EnvSet
<1> QED
    BY <1>1, Zenon DEF PassKnows

LEMMA CountedStays ==
    ASSUME Counted, UNCHANGED <<load, env>>, left'.commits = left.commits
    PROVE  Counted'
BY DEF Counted

\* A write of the status that is no commit.
LEMMA CountedKept ==
    ASSUME Counted, UNCHANGED load, left'.commits = left.commits, RevisionStays, CommitsStay
    PROVE  Counted'
BY DEF Counted, RevisionStays, CommitsStay

LEMMA JobsStay ==
    ASSUME JobsBegun, UNCHANGED <<job, editor, exec>>
    PROVE  JobsBegun'
BY DEF JobsBegun, At

\* One worker ends or goes on; a Ready Environment has names for it.
LEMMA JobsKept ==
    ASSUME JobsBegun, UNCHANGED <<editor, exec>>, job \in [Execs -> JobSet], NEW e \in Execs,
           JobEnds(e) \/ (~At(e, "idle") /\ \E pc \in JobSteps : JobGoes(e, pc))
    PROVE  JobsBegun' /\ job' \in [Execs -> JobSet]
BY Zenon DEF JobsBegun, At, JobEnds, JobGoes

LEMMA NextName ==
    ASSUME Typed, Counted, ReadyAtGeneration
    PROVE  DraftName \in Claims /\ env.current \in Claims
<1>1. env.revision >= 1 /\ env.current # NoClaim
    BY DEF Counted, ReadyAtGeneration
<1>2. env.revision + 1 \in Claims
    BY <1>1, EnvFields, LoadFields, LeftFields, ClaimNames, EnvironmentsAssumption, SMT
       DEF Typed, Counted
<1> QED
    BY <1>1, <1>2, EnvFields, ClaimNames, Zenon DEF DraftName, Typed

LEMMA BeginHomingIs ==
    ASSUME env \in EnvSet, ws \in WsSet, BeginHoming
    PROVE  /\ homing' \in HomingSet /\ homing'.pc = "home" /\ homing'.source = env.current
           /\ homing'.revision = IF ws.source = 0 THEN env.revision ELSE ws.source
           /\ UNCHANGED <<ws, home>> /\ env.ready /\ ~(ws.home /\ ws.source # 0)
<1>1. PICK v : v = IF ws.source = 0 THEN env.revision ELSE ws.source
    OBVIOUS
<1>2. v \in Nat /\ env.current \in Names
    BY <1>1, EnvFields, SMT DEF WsSet
<1>3. homing' = [pc |-> "home", source |-> env.current, revision |-> v]
    BY <1>1 DEF BeginHoming
<1>4. /\ homing' \in HomingSet /\ homing'.pc = "home" /\ homing'.source = env.current
      /\ homing'.revision = v
    BY <1>2, <1>3, SMT DEF HomingSet
<1> QED
    BY <1>1, <1>4 DEF BeginHoming

LEMMA NoHomingIs == NoHoming \in HomingSet /\ NoHoming.pc = "idle"
BY ClaimNames, SMT DEF NoHoming, HomingSet

\* The home is asked for, as a clone of the source that the pass has read.
LEMMA CreateHomeIs ==
    ASSUME homing \in HomingSet, CreateHome
    PROVE  /\ home' \in HomeSet /\ home'.state = "pending" /\ home'.source = homing.source
           /\ home'.tag = homing.revision
           /\ homing' \in HomingSet /\ homing'.pc = "record"
           /\ homing'.revision = homing.revision
           /\ UNCHANGED ws /\ homing.pc = "home" /\ home.state = "absent"
<1>1. homing.source \in Names /\ homing.revision \in Nat
    BY SMT DEF HomingSet
<1>2. home' = [state |-> "pending", source |-> homing.source, tag |-> homing.revision, holds |-> {}]
    BY DEF CreateHome
<1>3. {} \in SUBSET Execs
    OBVIOUS
<1>4. /\ home' \in HomeSet /\ home'.state = "pending" /\ home'.source = homing.source
      /\ home'.tag = homing.revision
    BY <1>1, <1>2, <1>3, SMT DEF HomeSet
<1>5. homing' \in HomingSet /\ homing'.pc = "record" /\ homing'.revision = homing.revision
    BY SMT DEF CreateHome, HomingSet
<1> QED
    BY <1>4, <1>5 DEF CreateHome

LEMMA FindHomeIs ==
    ASSUME home \in HomeSet, homing \in HomingSet, FindHome
    PROVE  /\ homing' \in HomingSet /\ homing'.pc = "record"
           /\ homing'.revision = IF ws.source = 0 THEN home.tag ELSE homing.revision
           /\ UNCHANGED <<ws, home>> /\ homing.pc = "home" /\ home.state # "absent"
<1>1. PICK v : v = IF ws.source = 0 THEN home.tag ELSE homing.revision
    OBVIOUS
<1>2. v \in Nat
    BY <1>1, SMT DEF HomeSet, HomingSet
<1>3. homing' = [homing EXCEPT !.pc = "record", !.revision = v]
    BY <1>1 DEF FindHome, Tagged
<1>4. homing' \in HomingSet /\ homing'.pc = "record" /\ homing'.revision = v
    <2>1. PICK P, C, N, b : /\ P = {"idle", "home", "record"} /\ C = Names /\ N = Nat
                            /\ b = "record"
        OBVIOUS
    <2>2. HomingSet = [pc : P, source : C, revision : N] /\ b \in P /\ v \in N
        BY <1>2, <2>1 DEF HomingSet
    <2>3. homing \in [pc : P, source : C, revision : N] /\ b \in P /\ v \in N
        BY <2>2
    <2>4. homing' = [homing EXCEPT !.pc = b, !.revision = v]
        BY <1>3, <2>1
    <2>5. homing' \in [pc : P, source : C, revision : N] /\ homing'.pc = b /\ homing'.revision = v
        BY <2>3, <2>4
    <2> QED
        BY <2>1, <2>2, <2>5
<1> QED
    BY <1>1, <1>4 DEF FindHome

WsOf(B, N) == [home : B, source : N, waits : B]

LEMMA RecordHomeIs ==
    ASSUME ws \in WsSet, homing \in HomingSet, RecordHome
    PROVE  /\ ws' \in WsSet /\ ws'.home = TRUE
           /\ ws'.source = IF ws.source = 0 THEN homing.revision ELSE ws.source
           /\ homing' = NoHoming /\ UNCHANGED home /\ homing.pc = "record"
<1>1. PICK v, x, B, N : /\ v = IF ws.source = 0 THEN homing.revision ELSE ws.source
                        /\ x = TRUE /\ B = BOOLEAN /\ N = Nat
    OBVIOUS
<1>2. v \in N
    BY <1>1, SMT DEF WsSet, HomingSet
<1>3. ws \in WsOf(B, N) /\ x \in B
    BY <1>1 DEF WsSet, WsOf
<1>4. ws' = [ws EXCEPT !.home = x, !.source = v]
    BY <1>1 DEF RecordHome
<1>5. ws' \in WsOf(B, N) /\ ws'.home = x /\ ws'.source = v
    BY <1>2, <1>3, <1>4 DEF WsOf
<1>6. ws' \in WsSet
    BY <1>1, <1>5 DEF WsSet, WsOf
<1> QED
    BY <1>1, <1>5, <1>6 DEF RecordHome

LEMMA HomeRejectedIs ==
    ASSUME ws \in WsSet, homing \in HomingSet, HomeRejected
    PROVE  /\ ws' \in WsSet /\ ws'.home = ws.home
           /\ ws'.source = IF ws.source = 0 THEN homing.revision ELSE ws.source
           /\ homing' = NoHoming /\ UNCHANGED home
           /\ homing.pc = "home" /\ home.state = "absent" /\ load.rejects
<1>1. PICK v, x, B, N : /\ v = IF ws.source = 0 THEN homing.revision ELSE ws.source
                        /\ x = TRUE /\ B = BOOLEAN /\ N = Nat
    OBVIOUS
<1>2. v \in N
    BY <1>1, SMT DEF WsSet, HomingSet
<1>3. ws \in WsOf(B, N) /\ x \in B
    BY <1>1 DEF WsSet, WsOf
<1>4. ws' = [ws EXCEPT !.source = v, !.waits = x]
    BY <1>1 DEF HomeRejected
<1>5. ws' \in WsOf(B, N) /\ ws'.home = ws.home /\ ws'.source = v
    BY <1>2, <1>3, <1>4 DEF WsOf
<1>6. ws' \in WsSet
    BY <1>1, <1>5 DEF WsSet, WsOf
<1> QED
    BY <1>1, <1>5, <1>6 DEF HomeRejected

LEMMA RetryDueIs ==
    ASSUME ws \in WsSet, RetryDue
    PROVE  /\ ws' \in WsSet /\ ws'.home = ws.home /\ ws'.source = ws.source
           /\ UNCHANGED <<home, homing>>
<1>1. PICK x, B, N : x = FALSE /\ B = BOOLEAN /\ N = Nat
    OBVIOUS
<1>2. ws \in WsOf(B, N) /\ x \in B
    BY <1>1 DEF WsSet, WsOf
<1>3. ws' = [ws EXCEPT !.waits = x]
    BY <1>1 DEF RetryDue
<1>4. ws' \in WsOf(B, N) /\ ws'.home = ws.home /\ ws'.source = ws.source
    BY <1>2, <1>3 DEF WsOf
<1>5. ws' \in WsSet
    BY <1>1, <1>4 DEF WsSet, WsOf
<1> QED
    BY <1>4, <1>5 DEF RetryDue

LEMMA HomeBindsIs ==
    ASSUME home \in HomeSet, claim \in [Claims -> ClaimSet], HomeBinds
    PROVE  /\ home' \in HomeSet /\ home'.state = "bound" /\ home'.source = home.source
           /\ home'.tag = home.tag /\ home'.holds = Content(home.source)
           /\ UNCHANGED <<ws, homing>> /\ home.state = "pending" /\ Whole(home.source)
<1>1. Content(home.source) \in SUBSET Execs
    <2>1. home.source \in Names
        BY SMT DEF HomeSet
    <2>2. CASE home.source = NoClaim
        BY <2>2 DEF Content
    <2>3. CASE home.source # NoClaim
        BY <2>1, <2>3, ClaimFields, ClaimNames, Zenon DEF Content
    <2> QED
        BY <2>2, <2>3
<1>2. PICK h, b, S, C, N, H : /\ h = Content(home.source) /\ b = "bound" /\ C = Names /\ N = Nat
                              /\ S = {"absent", "pending", "bound"} /\ H = SUBSET Execs
    OBVIOUS
<1>3. HomeSet = [state : S, source : C, tag : N, holds : H] /\ h \in H /\ b \in S
    BY <1>1, <1>2 DEF HomeSet
<1>4. home' = [home EXCEPT !.state = b, !.holds = h]
    BY <1>2 DEF HomeBinds
<1>5. /\ home' \in [state : S, source : C, tag : N, holds : H] /\ home'.state = b
      /\ home'.source = home.source /\ home'.tag = home.tag /\ home'.holds = h
    <2>1. home \in [state : S, source : C, tag : N, holds : H] /\ h \in H /\ b \in S
        BY <1>3
    <2> QED
        BY <2>1, <1>4
<1> QED
    BY <1>2, <1>3, <1>5 DEF HomeBinds

LEMMA HomesTyped ==
    ASSUME Typed, HomePass \/ HomeBinds
    PROVE  ws' \in WsSet /\ home' \in HomeSet /\ homing' \in HomingSet
<1>1. CASE BeginHoming
    BY <1>1, BeginHomingIs DEF Typed
<1>2. CASE Backoff
    BY <1>2, NoHomingIs DEF Typed, Backoff
<1>3. CASE RetryDue
    BY <1>3, RetryDueIs DEF Typed
<1>4. CASE CreateHome
    BY <1>4, CreateHomeIs DEF Typed
<1>5. CASE FindHome
    BY <1>5, FindHomeIs DEF Typed
<1>6. CASE RecordHome
    BY <1>6, RecordHomeIs, NoHomingIs DEF Typed
<1>7. CASE HomeRejected
    BY <1>7, HomeRejectedIs, NoHomingIs DEF Typed
<1>8. CASE HomeBinds
    BY <1>8, HomeBindsIs DEF Typed
<1> QED
    BY <1>1, <1>2, <1>3, <1>4, <1>5, <1>6, <1>7, <1>8 DEF HomePass

\* A step that leaves the Environment alone leaves its numbers alone.
LEMMA PassStays ==
    ASSUME PassKnows, UNCHANGED <<env, pass>>
    PROVE  PassKnows'
BY DEF PassKnows, CommitDue

LEMMA CreateTypes ==
    ASSUME TInv, NEW e \in Execs, Create(e)
    PROVE  TInv'
<1> USE DEF TInv
<1>0. ExecWritten(e, "pending", exec[e].alive, exec[e].drafted)
    BY PhaseIs, Zenon DEF Typed, Phases, Create
<1>1. Typed'
    BY <1>0, Zenon DEF Typed, ExecWritten, Create
<1>2. Counted'
    BY CountedStays DEF Create
<1>3. PassKnows'
    BY PassStays DEF Create
<1>4. JobsBegun'
    BY <1>0, Zenon DEF JobsBegun, At, ExecWritten, Create
<1> QED
    BY <1>1, <1>2, <1>3, <1>4

LEMMA AskToStopTypes ==
    ASSUME TInv, NEW e \in Execs, AskToStop(e)
    PROVE  TInv'
<1> USE DEF TInv
<1>0. ExecWritten(e, exec[e].phase, exec[e].alive, exec[e].drafted)
    BY AskToStopIs DEF Typed
<1>1. Typed'
    BY <1>0, Zenon DEF Typed, ExecWritten, AskToStop
<1>2. Counted'
    BY CountedStays DEF AskToStop
<1>3. PassKnows'
    BY PassStays DEF AskToStop
<1>4. JobsBegun'
    BY <1>0, Zenon DEF JobsBegun, At, ExecWritten, AskToStop
<1> QED
    BY <1>1, <1>2, <1>3, <1>4

LEMMA StopPendingTypes ==
    ASSUME TInv, NEW e \in Execs, StopPending(e)
    PROVE  TInv'
<1> USE DEF TInv
<1>0. ExecWritten(e, "ended", exec[e].alive, exec[e].drafted)
    BY PhaseIs, Zenon DEF Typed, Phases, Terminal, StopPending
<1>1. Typed'
    BY <1>0, Zenon DEF Typed, ExecWritten, StopPending
<1>2. Counted'
    BY CountedStays DEF StopPending
<1>3. PassKnows'
    BY PassStays DEF StopPending
<1>4. JobsBegun'
    BY <1>0, Zenon DEF JobsBegun, At, ExecWritten, StopPending
<1> QED
    BY <1>1, <1>2, <1>3, <1>4

LEMMA FindLostTypes ==
    ASSUME TInv, NEW e \in Execs, FindLost(e)
    PROVE  TInv'
<1> USE DEF TInv
<1>0. ExecWritten(e, "ended", exec[e].alive, exec[e].drafted)
    BY PhaseIs, Zenon DEF Typed, Phases, Terminal, FindLost
<1>1. Typed'
    BY <1>0, Zenon DEF Typed, ExecWritten, FindLost
<1>2. Counted'
    BY CountedStays DEF FindLost
<1>3. PassKnows'
    BY PassStays DEF FindLost
<1>4. JobsBegun'
    BY <1>0, Zenon DEF JobsBegun, At, ExecWritten, FindLost
<1> QED
    BY <1>1, <1>2, <1>3, <1>4

LEMMA RequestCommitTypes ==
    ASSUME TInv, RequestCommit
    PROVE  TInv'
<1> USE DEF TInv
<1>1. Typed'
    BY RequestCommitIs, LeftLess, Zenon DEF Typed, RequestCommit
<1>2. Counted'
    BY RequestCommitIs, LeftLess, EnvFields, LeftFields, LoadFields, SMT DEF Typed, Counted, RevisionStays, RequestCommit
<1>3. PassKnows'
    BY RequestCommitIs, PassWaits, EnvFields, SMT DEF Typed, RevisionStays, RequestCommit
<1>4. JobsBegun'
    BY JobsStay DEF RequestCommit
<1> QED
    BY <1>1, <1>2, <1>3, <1>4

LEMMA EditSpecTypes ==
    ASSUME TInv, EditSpec
    PROVE  TInv'
<1> USE DEF TInv
<1>1. Typed'
    BY EditSpecIs, LeftLess, Zenon DEF Typed, EditSpec
<1>2. Counted'
    BY EditSpecIs, LeftLess, EnvFields, LeftFields, LoadFields, SMT DEF Typed, Counted, RevisionStays, EditSpec
<1>3. PassKnows'
    BY EditSpecIs, PassWaits, EnvFields, SMT DEF Typed, RevisionStays, EditSpec
<1>4. JobsBegun'
    BY JobsStay DEF EditSpec
<1> QED
    BY <1>1, <1>2, <1>3, <1>4

LEMMA LoseEditorTypes ==
    ASSUME TInv, LoseEditor
    PROVE  TInv'
<1> USE DEF TInv
<1>0. /\ editor' \in EditorSet /\ EditorStays /\ (editor'.going => editor'.exists)
    BY StoppingIs, EditorFields, Zenon DEF Typed, JobsBegun, EditorStays, LoseEditor
<1>1. Typed'
    BY <1>0, LeftLess, Zenon DEF Typed, LoseEditor
<1>2. Counted'
    BY <1>0, LeftLess, CountedStays DEF Typed, LoseEditor
<1>3. PassKnows'
    BY PassStays DEF LoseEditor
<1>4. JobsBegun'
    BY <1>0, EditorFields, Zenon DEF Typed, JobsBegun, At, EditorStays, LoseEditor
<1> QED
    BY <1>1, <1>2, <1>3, <1>4

LEMMA EditorReadyTypes ==
    ASSUME TInv, EditorReady
    PROVE  TInv'
<1> USE DEF TInv
<1>0. /\ editor' \in EditorSet /\ EditorStays /\ (editor'.going => editor'.exists)
    BY EditorReadyIs, EditorFields, Zenon DEF Typed, JobsBegun, EditorStays
<1>1. Typed'
    BY <1>0, Zenon DEF Typed, EditorReady
<1>2. Counted'
    BY CountedStays DEF EditorReady
<1>3. PassKnows'
    BY PassStays DEF EditorReady
<1>4. JobsBegun'
    BY <1>0, EditorFields, Zenon DEF Typed, JobsBegun, At, EditorStays, EditorReady
<1> QED
    BY <1>1, <1>2, <1>3, <1>4

LEMMA CheckCommitTypes ==
    ASSUME TInv, CheckCommit
    PROVE  TInv'
<1> USE DEF TInv
<1>0. pass' \in PassSet /\ PassKnows'
    BY PassContinuing, PassKeeps, Zenon DEF Typed, PassWork, CheckCommit
<1>1. Typed'
    BY <1>0, Zenon DEF Typed, CheckCommit
<1>2. Counted'
    BY CountedStays DEF CheckCommit
<1>3. PassKnows'
    BY <1>0, Zenon
<1>4. JobsBegun'
    BY JobsStay DEF CheckCommit
<1> QED
    BY <1>1, <1>2, <1>3, <1>4

LEMMA PromoteLostTypes ==
    ASSUME TInv, PromoteLost
    PROVE  TInv'
<1> USE DEF TInv
<1>0. pass' \in PassSet /\ PassKnows'
    BY PassContinuing, PassKeeps, Zenon DEF Typed, PassWork, PromoteLost
<1>1. Typed'
    BY <1>0, Zenon DEF Typed, PromoteLost
<1>2. Counted'
    BY CountedStays DEF PromoteLost
<1>3. PassKnows'
    BY <1>0, Zenon
<1>4. JobsBegun'
    BY JobsStay DEF PromoteLost
<1> QED
    BY <1>1, <1>2, <1>3, <1>4

LEMMA CheckEditorTypes ==
    ASSUME TInv, CheckEditor
    PROVE  TInv'
<1> USE DEF TInv
<1>0. pass' \in PassSet /\ PassKnows'
    BY PassContinuing, PassKeeps, Zenon DEF Typed, PassWork, CheckEditor
<1>1. Typed'
    BY <1>0, Zenon DEF Typed, CheckEditor
<1>2. Counted'
    BY CountedStays DEF CheckEditor
<1>3. PassKnows'
    BY <1>0, Zenon
<1>4. JobsBegun'
    BY JobsStay DEF CheckEditor
<1> QED
    BY <1>1, <1>2, <1>3, <1>4

LEMMA CheckReplaceTypes ==
    ASSUME TInv, CheckReplace
    PROVE  TInv'
<1> USE DEF TInv
<1>0. pass' \in PassSet /\ PassKnows'
    BY PassContinuing, PassKeeps, Zenon DEF Typed, PassWork, CheckReplace
<1>1. Typed'
    BY <1>0, Zenon DEF Typed, CheckReplace
<1>2. Counted'
    BY CountedStays DEF CheckReplace
<1>3. PassKnows'
    BY <1>0, Zenon
<1>4. JobsBegun'
    BY JobsStay DEF CheckReplace
<1> QED
    BY <1>1, <1>2, <1>3, <1>4

LEMMA CheckIdleTypes ==
    ASSUME TInv, CheckIdle
    PROVE  TInv'
<1> USE DEF TInv
<1>0. pass' \in PassSet /\ PassKnows'
    BY PassContinuing, PassKeeps, Zenon DEF Typed, PassWork, CheckIdle
<1>1. Typed'
    BY <1>0, Zenon DEF Typed, CheckIdle
<1>2. Counted'
    BY CountedStays DEF CheckIdle
<1>3. PassKnows'
    BY <1>0, Zenon
<1>4. JobsBegun'
    BY JobsStay DEF CheckIdle
<1> QED
    BY <1>1, <1>2, <1>3, <1>4

LEMMA FindCurrentTypes ==
    ASSUME TInv, FindCurrent
    PROVE  TInv'
<1> USE DEF TInv
<1>0. pass' \in PassSet /\ PassKnows'
    BY PassContinuing, PassKeeps, Zenon DEF Typed, PassWork, FindCurrent
<1>1. Typed'
    BY <1>0, Zenon DEF Typed, FindCurrent
<1>2. Counted'
    BY CountedStays DEF FindCurrent
<1>3. PassKnows'
    BY <1>0, Zenon
<1>4. JobsBegun'
    BY JobsStay DEF FindCurrent
<1> QED
    BY <1>1, <1>2, <1>3, <1>4

LEMMA StopEditorTypes ==
    ASSUME TInv, StopEditor
    PROVE  TInv'
<1> USE DEF TInv
<1>0. pass' \in PassSet /\ PassKnows'
    BY PassContinuing, PassKeeps, Zenon DEF Typed, PassWork, StopEditor
<1>1. Typed'
    BY <1>0, StoppingIs, Zenon DEF Typed, StopEditor
<1>2. Counted'
    BY CountedStays DEF StopEditor
<1>3. PassKnows'
    BY <1>0, Zenon
<1>4. JobsBegun'
    BY <1>0, StoppingIs, EditorFields, Zenon DEF Typed, JobsBegun, At, EditorStays, StopEditor
<1> QED
    BY <1>1, <1>2, <1>3, <1>4

LEMMA EvictEditorTypes ==
    ASSUME TInv, EvictEditor
    PROVE  TInv'
<1> USE DEF TInv
<1>0. pass' \in PassSet /\ PassKnows'
    BY PassContinuing, PassKeeps, Zenon DEF Typed, PassWork, EvictEditor
<1>1. Typed'
    BY <1>0, StoppingIs, Zenon DEF Typed, EvictEditor
<1>2. Counted'
    BY CountedStays DEF EvictEditor
<1>3. PassKnows'
    BY <1>0, Zenon
<1>4. JobsBegun'
    BY <1>0, StoppingIs, EditorFields, Zenon DEF Typed, JobsBegun, At, EditorStays, EvictEditor
<1> QED
    BY <1>1, <1>2, <1>3, <1>4

LEMMA ClearEditorTypes ==
    ASSUME TInv, ClearEditor
    PROVE  TInv'
<1> USE DEF TInv
<1>0. pass' \in PassSet /\ PassKnows'
    BY PassContinuing, PassKeeps, ClearEditorIs, Zenon DEF Typed, PassWork, ClearEditor, RevisionStays, CommitsStay
<1>1. Typed'
    BY <1>0, ClearEditorIs, Zenon DEF Typed, ClearEditor
<1>2. Counted'
    BY <1>0, ClearEditorIs, CountedKept DEF Typed, ClearEditor
<1>3. PassKnows'
    BY <1>0, Zenon
<1>4. JobsBegun'
    BY JobsStay DEF ClearEditor
<1> QED
    BY <1>1, <1>2, <1>3, <1>4

LEMMA CreateCurrentTypes ==
    ASSUME TInv, CreateCurrent
    PROVE  TInv'
<1> USE DEF TInv
<1>0. pass' \in PassSet /\ PassKnows'
    BY PassContinuing, PassKeeps, Zenon DEF Typed, PassWork, CreateCurrent
<1>1. Typed'
    BY <1>0, CreateCurrentIs, Zenon DEF Typed, ClaimWritten, CreateCurrent
<1>2. Counted'
    BY CountedStays DEF CreateCurrent
<1>3. PassKnows'
    BY <1>0, Zenon
<1>4. JobsBegun'
    BY JobsStay DEF CreateCurrent
<1> QED
    BY <1>1, <1>2, <1>3, <1>4

LEMMA DeleteOldTypes ==
    ASSUME TInv, DeleteOld
    PROVE  TInv'
<1> USE DEF TInv
<1>0. pass' \in PassSet /\ PassKnows'
    BY PassContinuing, PassKeeps, Zenon DEF Typed, PassWork, DeleteOld
<1>1. Typed'
    BY <1>0, DeleteOldIs, Zenon DEF Typed, DeleteOld
<1>2. Counted'
    BY CountedStays DEF DeleteOld
<1>3. PassKnows'
    BY <1>0, Zenon
<1>4. JobsBegun'
    BY JobsStay DEF DeleteOld
<1> QED
    BY <1>1, <1>2, <1>3, <1>4

LEMMA BeginPassTypes ==
    ASSUME TInv, BeginPass
    PROVE  TInv'
<1> USE DEF TInv
<1>1. Typed'
    BY BeginPassIs, Zenon DEF Typed, BeginPass
<1>2. Counted'
    BY CountedStays DEF BeginPass
<1>3. PassKnows'
    BY BeginPassIs, Zenon DEF Typed, PassKnows, Committing, CommitDue, BeginPass
<1>4. JobsBegun'
    BY JobsStay DEF BeginPass
<1> QED
    BY <1>1, <1>2, <1>3, <1>4

LEMMA CheckDraftTypes ==
    ASSUME TInv, NEW e \in Execs, CheckDraft(e)
    PROVE  TInv'
<1> USE DEF TInv
<1>0. JobsBegun' /\ job' \in [Execs -> JobSet]
    BY CheckDraftIs, JobsKept, Zenon DEF Typed, CheckDraft, At, JobSteps
<1>1. Typed'
    BY <1>0, Zenon DEF Typed, CheckDraft
<1>2. Counted'
    BY CountedStays DEF CheckDraft
<1>3. PassKnows'
    BY PassStays DEF CheckDraft
<1>4. JobsBegun'
    BY <1>0, Zenon
<1> QED
    BY <1>1, <1>2, <1>3, <1>4

LEMMA CreateDraftTypes ==
    ASSUME TInv, NEW e \in Execs, CreateDraft(e)
    PROVE  TInv'
<1> USE DEF TInv
<1>0. JobsBegun' /\ job' \in [Execs -> JobSet] /\ job[e].draft \in Claims
    <2>1. JobGoes(e, "record") /\ ~At(e, "idle")
        BY GoToIs, Zenon DEF Typed, CreateDraft, At, JobSteps
    <2> QED
        BY <2>1, JobsKept, JobFields, ClaimNames, Zenon DEF Typed, JobsBegun, CreateDraft, JobSteps
<1>1. Typed'
    BY <1>0, CreateDraftIs, Zenon DEF Typed, ClaimWritten, CreateDraft
<1>2. Counted'
    BY CountedStays DEF CreateDraft
<1>3. PassKnows'
    BY PassStays DEF CreateDraft
<1>4. JobsBegun'
    BY <1>0, Zenon
<1> QED
    BY <1>1, <1>2, <1>3, <1>4

LEMMA RecordDraftTypes ==
    ASSUME TInv, NEW e \in Execs, RecordDraft(e)
    PROVE  TInv'
<1> USE DEF TInv
<1>0. JobsBegun' /\ job' \in [Execs -> JobSet]
    BY EndJobIs, JobsKept, Zenon DEF Typed, RecordDraft
<1>1. Typed'
    BY <1>0, RecordDraftIs, Zenon DEF Typed, RecordDraft
<1>2. Counted'
    BY <1>0, RecordDraftIs, CountedKept DEF Typed, RecordDraft
<1>3. PassKnows'
    <2>1. /\ env' \in EnvSet /\ env'.revision = env.revision /\ env'.current = env.current
          /\ env'.commit = env.commit /\ env'.committed = env.committed
        BY RecordDraftIs, Zenon DEF Typed, RevisionStays, CommitsStay
    <2>2. env'.commit >= env.commit
        BY <2>1, EnvFields, SMT DEF Typed
    <2> QED
        BY <2>1, <2>2, PassWaits, Zenon DEF Typed, RecordDraft
<1>4. JobsBegun'
    BY <1>0, Zenon
<1> QED
    BY <1>1, <1>2, <1>3, <1>4

LEMMA RecordEditorTypes ==
    ASSUME TInv, NEW e \in Execs, RecordEditor(e)
    PROVE  TInv'
<1> USE DEF TInv
<1>0. JobsBegun' /\ job' \in [Execs -> JobSet]
    BY RecordedIs, JobsKept, Zenon DEF Typed, RecordEditor, At, JobSteps
<1>1. Typed'
    BY <1>0, RecordEditorIs, Zenon DEF Typed, RecordEditor
<1>2. Counted'
    BY <1>0, RecordEditorIs, CountedKept DEF Typed, RecordEditor
<1>3. PassKnows'
    <2>1. /\ env' \in EnvSet /\ env'.revision = env.revision /\ env'.current = env.current
          /\ env'.commit = env.commit /\ env'.committed = env.committed
        BY RecordEditorIs, Zenon DEF Typed, RevisionStays, CommitsStay
    <2>2. env'.commit >= env.commit
        BY <2>1, EnvFields, SMT DEF Typed
    <2> QED
        BY <2>1, <2>2, PassWaits, Zenon DEF Typed, RecordEditor
<1>4. JobsBegun'
    BY <1>0, Zenon
<1> QED
    BY <1>1, <1>2, <1>3, <1>4

LEMMA EnsureEditorTypes ==
    ASSUME TInv, NEW e \in Execs, EnsureEditor(e)
    PROVE  TInv'
<1> USE DEF TInv
<1>0. /\ editor' \in EditorSet /\ job' \in [Execs -> JobSet]
    BY EnsureEditorIs, Zenon DEF Typed, JobGoes, JobEnds
<1>1. Typed'
    BY <1>0, Zenon DEF Typed, EnsureEditor
<1>2. Counted'
    BY CountedStays DEF EnsureEditor
<1>3. PassKnows'
    BY PassStays DEF EnsureEditor
<1>4. JobsBegun'
    <2>1. job \in [Execs -> JobSet] /\ editor \in EditorSet /\ UNCHANGED exec
        BY DEF Typed, EnsureEditor
    <2>2. job[e].draft # NoClaim /\ job[e].current # NoClaim /\ ~At(e, "idle")
        BY <2>1, EnsureEditorIs, Zenon DEF JobsBegun, At
    <2>3. CASE /\ editor'.exists = TRUE /\ editor'.going = FALSE /\ editor'.claim = job[e].draft
               /\ JobGoes(e, "starting")
        BY <2>1, <2>2, <2>3, Zenon DEF JobsBegun, At, JobGoes
    <2>4. CASE editor' = editor /\ (JobEnds(e) \/ JobGoes(e, "ready"))
        BY <2>1, <2>2, <2>4, JobsKept, Zenon DEF JobSteps
    <2> QED
        BY <2>1, <2>3, <2>4, EnsureEditorIs, Zenon
<1> QED
    BY <1>1, <1>2, <1>3, <1>4

LEMMA StartProcessTypes ==
    ASSUME TInv, NEW e \in Execs, StartProcess(e)
    PROVE  TInv'
<1> USE DEF TInv
<1>1. Typed'
    BY StartProcessIs, Zenon DEF Typed, StartProcess, JobEnds, ExecWritten
<1>2. Counted'
    BY CountedStays DEF StartProcess
<1>3. PassKnows'
    BY PassStays DEF StartProcess
<1>4. JobsBegun'
    <2>1. /\ JobEnds(e) /\ UNCHANGED editor
          /\ \/ ExecWritten(e, "ended", exec[e].alive, exec[e].drafted)
             \/ editor.exists /\ ExecWritten(e, "running", TRUE, exec[e].drafted)
        BY StartProcessIs, Zenon DEF Typed, StartProcess
    <2>2. \A f \in Execs : job'[f] = job[f] \/ job'[f].pc = "idle"
        BY <2>1, Zenon DEF JobEnds
    <2>3. \A f \in Execs : exec'[f].alive => editor.exists
        BY <2>1, Zenon DEF ExecWritten, JobsBegun
    <2> QED
        BY <2>1, <2>2, <2>3, Zenon DEF JobsBegun, At
<1> QED
    BY <1>1, <1>2, <1>3, <1>4

LEMMA BeginJobTypes ==
    ASSUME TInv, NEW e \in Execs, BeginJob(e)
    PROVE  TInv'
<1> USE DEF TInv
<1>0. DraftName \in Claims /\ env.current \in Claims /\ DraftName \in Names
    BY NextName, ClaimNames, Zenon DEF BeginJob
<1>1. Typed'
    BY <1>0, BeginJobIs, Zenon DEF Typed, BeginJob
<1>2. Counted'
    BY CountedStays DEF BeginJob
<1>3. PassKnows'
    BY PassStays DEF BeginJob
<1>4. JobsBegun'
    BY <1>0, BeginJobIs, ClaimNames, Zenon DEF Typed, JobsBegun, At, BeginJob
<1> QED
    BY <1>1, <1>2, <1>3, <1>4

LEMMA ProcessEndsTypes ==
    ASSUME TInv, NEW e \in Execs, ProcessEnds(e)
    PROVE  TInv'
<1> USE DEF TInv
<1>0. editor.claim \in Claims
    BY EditorFields, ClaimNames, Zenon DEF Typed, JobsBegun, ProcessEnds
<1>1. Typed'
    BY <1>0, ProcessEndsIs, EndedIs, Zenon DEF Typed, ProcessEnds, ClaimWritten, ExecWritten
<1>2. Counted'
    BY CountedStays DEF ProcessEnds
<1>3. PassKnows'
    BY PassStays DEF ProcessEnds
<1>4. JobsBegun'
    BY <1>0, EndedIs, Zenon DEF Typed, JobsBegun, At, ExecWritten, ProcessEnds
<1> QED
    BY <1>1, <1>2, <1>3, <1>4

LEMMA EditorGoneTypes ==
    ASSUME TInv, EditorGone
    PROVE  TInv'
<1> USE DEF TInv
<1>1. Typed'
    BY EditorGoneIs, NoEditorIs, Zenon DEF Typed, EditorGone
<1>2. Counted'
    BY CountedStays DEF EditorGone
<1>3. PassKnows'
    BY PassStays DEF EditorGone
<1>4. JobsBegun'
    BY EditorGoneIs, NoEditorIs, Zenon DEF Typed, JobsBegun, At, EditorGone
<1> QED
    BY <1>1, <1>2, <1>3, <1>4

LEMMA ClaimBindsTypes ==
    ASSUME TInv, NEW n \in Claims, ClaimBinds(n)
    PROVE  TInv'
<1> USE DEF TInv
<1>1. Typed'
    BY ClaimBindsIs, Zenon DEF Typed, ClaimBinds, ClaimWritten
<1>2. Counted'
    BY CountedStays DEF ClaimBinds
<1>3. PassKnows'
    BY PassStays DEF ClaimBinds
<1>4. JobsBegun'
    BY JobsStay DEF ClaimBinds
<1> QED
    BY <1>1, <1>2, <1>3, <1>4

\* The homes of Workspaces are no concern of the Environment.
LEMMA HomesTypes ==
    ASSUME TInv, HomePass \/ HomeBinds
    PROVE  TInv'
<1> USE DEF TInv
<1>1. UNCHANGED <<load, env, claim, sealed, editor, exec, pass, job, left>>
    BY DEF HomePass, HomeBinds, BeginHoming, Backoff, RetryDue, CreateHome, FindHome, RecordHome,
           HomeRejected
<1>2. Typed'
    BY <1>1, HomesTyped, Zenon DEF Typed
<1> QED
    BY <1>1, <1>2, CountedStays, PassStays, JobsStay, Zenon

LEMMA FailTypes ==
    ASSUME TInv, Fail
    PROVE  TInv'
<1> USE DEF TInv
<1>1. /\ left' \in LeftSet /\ left'.commits = left.commits
      /\ UNCHANGED <<load, env, claim, sealed, editor, exec, ws, home>>
    BY LeftLess DEF Typed, Fail
<1>2. CASE pass' = Rest /\ UNCHANGED <<job, homing>>
    BY <1>1, <1>2, RestIs, CountedStays, JobsStay, Zenon DEF Typed, PassKnows, Committing
<1>3. CASE homing' = NoHoming /\ UNCHANGED <<pass, job>>
    BY <1>1, <1>3, NoHomingIs, CountedStays, PassStays, JobsStay, Zenon DEF Typed
<1>4. ASSUME NEW e \in Execs, EndJob(e), UNCHANGED <<pass, homing>>
      PROVE  TInv'
    BY <1>1, <1>4, EndJobIs, JobsKept, CountedStays, PassStays, Zenon DEF Typed
<1> QED
    BY <1>2, <1>3, <1>4 DEF Fail

\* The draft that a commit promotes is one revision further.
LEMMA PromoteTypes ==
    ASSUME TInv, Promote
    PROVE  TInv' /\ env.revision + 1 \in Claims /\ pass.draft \in Claims
<1> USE DEF TInv
<1>0. CommitDue /\ pass.draft \in Claims
    BY PassFields, ClaimNames, Zenon DEF Typed, PassKnows, Committing, Promote
<1>1. env.revision + 1 \in Claims /\ env.revision <= env.commit
    BY <1>0, EnvFields, LoadFields, LeftFields, ClaimNames, EnvironmentsAssumption, SMT
       DEF Typed, Counted, CommitDue
<1>2. PassGoes("delete")
    BY StepIs, Zenon DEF Typed, Promote, PassSteps
<1>3. env' = Promoted
    BY DEF Promote
<1>4. sealed' \in [Claims -> SUBSET Execs]
    <2>1. claim[pass.draft].holds \in SUBSET Execs
        BY <1>0, ClaimFields, Zenon DEF Typed
    <2>2. sealed' = [sealed EXCEPT ![env.revision + 1] = claim[pass.draft].holds]
        BY DEF Promote
    <2> QED
        BY <1>1, <2>1, <2>2, Zenon DEF Typed
<1>5. Typed'
    BY <1>2, <1>3, <1>4, PromotedIs, Zenon DEF Typed, Promote, PassGoes
<1>6. Counted'
    <2>1. env'.revision >= 1 /\ env'.current # NoClaim
        BY <1>0, <1>3, PromotedIs, EnvFields, ClaimNames, SMT DEF Typed
    <2> QED
        BY <1>1, <1>3, <2>1, PromotedIs, EnvFields, LeftFields, LoadFields, SMT
           DEF Typed, Counted, Promote
<1>7. PassKnows'
    BY <1>2, Zenon DEF PassKnows, PassGoes, Committing
<1>8. JobsBegun'
    BY JobsStay DEF Promote
<1> QED
    BY <1>0, <1>1, <1>5, <1>6, <1>7, <1>8

\* A report writes again what the pass has read.
LEMMA ReportTypes ==
    ASSUME TInv, Report
    PROVE  TInv' /\ (env'.revision = env.revision \/ env.revision = 0)
<1> USE DEF TInv
<1>1. PassRests /\ pass.pc = "report"
    BY EndPassIs DEF Report
<1>2. pass.revision = env.revision /\ pass.current = env.current
    BY <1>1 DEF PassKnows
<1>3. Typed'
    BY <1>1, ReportIs, Zenon DEF Typed, Report, PassRests
<1>4. Named # NoClaim
    BY ClaimNames, PassFields, SMT DEF Named, Typed
<1>5. env'.revision >= 1 /\ env'.revision <= 1 + env'.committed
    BY <1>2, ReportIs, EnvFields, SMT DEF Typed, Counted
<1>6. Counted'
    BY <1>4, <1>5, ReportIs, EnvFields, LeftFields, LoadFields, SMT DEF Typed, Counted, Report
<1>7. PassKnows'
    BY <1>1, Zenon DEF PassKnows, PassRests, Committing
<1>8. JobsBegun'
    BY JobsStay DEF Report
<1>9. env'.revision = env.revision \/ env.revision = 0
    BY <1>2, ReportIs, Zenon DEF Typed
<1> QED
    BY <1>3, <1>6, <1>7, <1>8, <1>9

LEMMA InitTypes == Init => TInv
<1> SUFFICES ASSUME Init
             PROVE  TInv
    OBVIOUS
<1>1. load \in Loads /\ left = [commits |-> load.commits, edits |-> load.edits,
                                faults |-> load.faults, losses |-> load.losses]
    BY DEF Init
<1>2. /\ load.commits \in Nat /\ load.edits \in Nat /\ load.faults \in Nat /\ load.losses \in Nat
    BY <1>1, LoadFields, EnvironmentsAssumption, SMT
<1>3. left \in LeftSet /\ left.commits = load.commits
    BY <1>1, <1>2, SMT DEF LeftSet
<1>4. /\ env \in EnvSet /\ env.gen = 1 /\ env.observed = 0 /\ env.ready = FALSE
      /\ env.revision = 0 /\ env.current = NoClaim /\ env.draft = NoClaim
      /\ env.commit = 0 /\ env.committed = 0
    <2>1. env = [gen |-> 1, observed |-> 0, ready |-> FALSE, revision |-> 0, current |-> NoClaim,
                 draft |-> NoClaim, editor |-> FALSE, commit |-> 0, committed |-> 0]
        BY DEF Init
    <2>2. NoClaim \in Names /\ 0 \in Nat /\ 1 \in Nat
        BY ClaimNames
    <2> QED
        BY <2>1, <2>2, Zenon DEF EnvSet
<1>5. /\ claim \in [Claims -> ClaimSet] /\ sealed \in [Claims -> SUBSET Execs]
      /\ editor = NoEditor /\ editor \in EditorSet
    BY NewClaimIs, NoEditorIs, Zenon DEF Init
<1>6. NewExec \in ExecSet /\ NewExec.alive = FALSE /\ NewExec.drafted = FALSE
      /\ NewExec.phase = "none"
    BY Zenon DEF NewExec, ExecSet, Phases
<1>7. NoJob \in JobSet /\ NoJob.pc = "idle"
    BY ClaimNames, SMT DEF NoJob, JobSet, JobSteps
<1>8. /\ exec \in [Execs -> ExecSet] /\ job \in [Execs -> JobSet]
      /\ \A e \in Execs : exec[e] = NewExec /\ job[e] = NoJob
    BY <1>6, <1>7, Zenon DEF Init
<1>9. ws \in WsSet /\ home \in HomeSet
    <2>1. ws = [home |-> FALSE, source |-> 0, waits |-> FALSE]
          /\ home = [state |-> "absent", source |-> NoClaim, tag |-> 0, holds |-> {}]
        BY DEF Init
    <2>2. NoClaim \in Names /\ 0 \in Nat /\ {} \in SUBSET Execs /\ FALSE \in BOOLEAN
        BY ClaimNames
    <2> QED
        BY <2>1, <2>2, Zenon DEF WsSet, HomeSet
<1>10. pass = Rest /\ homing = NoHoming
    BY DEF Init
<1>11. Typed
    BY <1>1, <1>3, <1>4, <1>5, <1>8, <1>9, <1>10, RestIs, NoHomingIs DEF Typed
<1>12. Counted
    BY <1>2, <1>3, <1>4, SMT DEF Counted
<1>13. PassKnows /\ JobsBegun
    BY <1>5, <1>6, <1>7, <1>8, <1>10, RestIs, NoEditorIs, Zenon DEF PassKnows, JobsBegun, At, Committing
<1> QED
    BY <1>11, <1>12, <1>13 DEF TInv

LEMMA TypesStep == TInv /\ [Next]_vars => TInv'
<1> SUFFICES ASSUME TInv, [Next]_vars
             PROVE  TInv'
    OBVIOUS
<1>1. CASE Users
    BY <1>1, RequestCommitTypes, EditSpecTypes, CreateTypes, AskToStopTypes, Zenon DEF Users
<1>2. CASE Cluster
    BY <1>2, LoseEditorTypes, EditorReadyTypes, EditorGoneTypes, HomesTypes, ClaimBindsTypes,
       ProcessEndsTypes, Zenon DEF Cluster
<1>3. CASE EnvironmentPass
    BY <1>3, BeginPassTypes, CheckCommitTypes, StopEditorTypes, PromoteLostTypes, PromoteTypes,
       DeleteOldTypes, CheckEditorTypes, ClearEditorTypes, CheckReplaceTypes, CheckIdleTypes,
       EvictEditorTypes, CreateCurrentTypes, FindCurrentTypes, ReportTypes, Zenon
       DEF EnvironmentPass
<1>4. CASE HomePass \/ Fail
    BY <1>4, HomesTypes, FailTypes, Zenon
<1>5. ASSUME NEW e \in Execs, ExecPass(e)
      PROVE  TInv'
    BY <1>5, BeginJobTypes, StopPendingTypes, CreateDraftTypes, CheckDraftTypes, RecordDraftTypes,
       EnsureEditorTypes, RecordEditorTypes, StartProcessTypes, FindLostTypes, Zenon DEF ExecPass
<1>6. CASE UNCHANGED vars
    BY <1>6, CountedStays, PassStays, JobsStay, Zenon DEF TInv, Typed, vars
<1> QED
    BY <1>1, <1>2, <1>3, <1>4, <1>5, <1>6 DEF Next

\* The types and the numbers hold in every state, whatever the load: each
\* commit that reconcileEnvironmentCommit carries out was asked for and makes
\* one revision, a pass still knows the revision and the claim of current when
\* it reports them, and no claim is named that Claims does not have.
THEOREM EnvironmentInvariant == Spec => []TInv
BY InitTypes, TypesStep, PTL DEF Spec

\* The type invariant: revisions and claim names stay within the commits that
\* the users may ask for, the status never runs ahead of the spec, and every
\* volume and execution is in a state the controllers know.
THEOREM EnvironmentTypes == Spec => []TypeOK
<1>1. TInv => TypeOK
    <2> SUFFICES ASSUME TInv
                 PROVE  TypeOK
        OBVIOUS
    <2>1. env.revision \in 0..(1 + MaxCommits)
        BY EnvFields, LoadFields, LeftFields, EnvironmentsAssumption, SMT DEF TInv, Typed, Counted
    <2>2. \A n \in Claims : claim[n].state \in ClaimStates /\ claim[n].holds \subseteq Execs
        BY ClaimFields, Zenon DEF TInv, Typed
    <2>3. \A e \in Execs : exec[e].phase \in {"none", "pending", "running"} \cup Terminal
        BY ExecFields, Zenon DEF TInv, Typed, Phases
    <2> QED
        BY <2>1, <2>2, <2>3, EnvFields, Zenon DEF TInv, Typed, Counted, JobsBegun, TypeOK, Names
<1> QED
    BY <1>1, EnvironmentInvariant, PTL

-----------------------------------------------------------------------------
(* Names, volumes and work, as long as no stale draft is recorded.         *)

NextRevision == env.revision + 1

\* The claim of current and that of the draft are named after their revisions.
EnvNames ==
    /\ env.current = env.revision
    /\ env.draft \in {NoClaim, NextRevision}
    /\ env.draft # NoClaim => env.ready

PassNames ==
    /\ pass.pc \in Committing => pass.draft = NextRevision
    /\ pass.pc = "delete" => pass.current + 1 = env.revision

\* A worker's draft is the next revision or, when a commit overtook the worker,
\* one that has been promoted since.
JobNames ==
    \A e \in Execs : ~At(e, "idle") =>
        env.ready /\ job[e].draft <= NextRevision /\ job[e].draft = job[e].current + 1

EditorNames == editor.exists => env.ready /\ editor.claim <= NextRevision

\* Current is whole once it was Ready, each claim is a clone of its
\* predecessor, and only the ones before current go away.
Volumes ==
    /\ env.ready => claim[env.revision].state = "bound"
    /\ \A n \in Claims :
          /\ claim[n].state \in {"pending", "bound"} =>
                /\ n <= NextRevision /\ claim[n].source + 1 = n
                /\ n > 1 => env.ready
          /\ claim[n].state = "going" => n < env.revision

DraftBound == claim[NextRevision].state = "bound"

JobVolumes ==
    \A e \in Execs :
        job[e].pc \in {"editor", "starting", "ready", "start"} /\ job[e].draft = NextRevision
            => DraftBound

EditorVolumes == editor.exists /\ editor.claim = NextRevision => DraftBound

\* Finished work is on the draft, once that is whole, and until then on
\* current, of which the draft will be a copy.
WorkFits ==
    \A e \in Execs : exec[e].drafted =>
        /\ env.ready
        /\ DraftBound => e \in claim[NextRevision].holds
        /\ ~DraftBound \/ env.draft = NoClaim => e \in claim[env.revision].holds

WInv == /\ EnvNames /\ PassNames /\ JobNames /\ EditorNames
        /\ Volumes /\ JobVolumes /\ EditorVolumes /\ WorkFits

\* The name a worker records is the one that it would derive again from the
\* status it writes to.  setEnvironmentDraftStatus does not look.
RecordsFresh(e) == RecordDraft(e) \/ RecordEditor(e) => job[e].draft = DraftName

-----------------------------------------------------------------------------
(* What stays when nothing that a part speaks of is written.               *)

EnvSame == RevisionStays /\ env'.draft = env.draft

LEMMA NextIs ==
    ASSUME TInv
    PROVE  /\ env.revision \in Nat /\ NextRevision \in Claims /\ NextRevision \in Nat
           /\ env.revision >= 1 => env.revision \in Claims
BY EnvFields, LoadFields, LeftFields, ClaimNames, EnvironmentsAssumption, SMT
   DEF TInv, Typed, Counted, NextRevision

LEMMA NextFits == TInv => NextRevision \in Claims
BY NextIs

LEMMA NextSame == RevisionStays => NextRevision' = NextRevision
BY DEF RevisionStays, NextRevision

LEMMA EnvNamesStay ==
    ASSUME EnvNames, EnvSame
    PROVE  EnvNames'
BY NextSame, Zenon DEF EnvNames, EnvSame, RevisionStays

LEMMA PassNamesStay ==
    ASSUME PassNames, RevisionStays, UNCHANGED pass
    PROVE  PassNames'
BY NextSame, Zenon DEF PassNames, RevisionStays

\* A pass that goes on promotes the draft it found.
LEMMA PassNamesKept ==
    ASSUME PassNames, RevisionStays, PassContinues
    PROVE  PassNames'
<1>1. CASE PassRests
    BY <1>1 DEF PassRests, PassNames, Committing
<1>2. ASSUME NEW pc \in PassSteps,
             PassGoes(pc), pc \notin {"idle", "delete"},
             pc \in Committing => pass.pc \in Committing
      PROVE  PassNames'
    BY <1>2, NextSame, Zenon DEF PassGoes, PassNames
<1> QED
    BY <1>1, <1>2 DEF PassContinues

LEMMA JobNamesStay ==
    ASSUME JobNames, RevisionStays, UNCHANGED job
    PROVE  JobNames'
BY NextSame, Zenon DEF JobNames, RevisionStays, At

\* A worker that goes on keeps its names; one that ends has none.
LEMMA JobNamesKept ==
    ASSUME JobNames, RevisionStays, NEW e \in Execs,
           JobEnds(e) \/ (~At(e, "idle") /\ \E pc \in JobSteps : JobGoes(e, pc))
    PROVE  JobNames'
<1>1. \A f \in Execs : ~At(f, "idle")' => /\ ~At(f, "idle") /\ job'[f].draft = job[f].draft
                                          /\ job'[f].current = job[f].current
    BY Zenon DEF JobEnds, JobGoes, At
<1> QED
    BY <1>1, NextSame, Zenon DEF JobNames, RevisionStays

LEMMA EditorNamesStay ==
    ASSUME EditorNames, RevisionStays, EditorStays
    PROVE  EditorNames'
BY NextSame, Zenon DEF EditorNames, RevisionStays, EditorStays

LEMMA VolumesStay ==
    ASSUME Volumes, RevisionStays, UNCHANGED claim
    PROVE  Volumes'
BY NextSame, Zenon DEF Volumes, RevisionStays

\* The draft, once bound, stays bound while the revision stays.
DraftStays == DraftBound => DraftBound'

LEMMA DraftSame ==
    ASSUME RevisionStays, UNCHANGED claim
    PROVE  DraftBound' <=> DraftBound
BY NextSame, Zenon DEF DraftBound

LEMMA JobVolumesStay ==
    ASSUME JobVolumes, RevisionStays, DraftStays, UNCHANGED job
    PROVE  JobVolumes'
BY NextSame, Zenon DEF JobVolumes, DraftStays

LEMMA JobVolumesKept ==
    ASSUME JobVolumes, RevisionStays, DraftStays, NEW e \in Execs,
           \/ JobEnds(e)
           \/ \E pc \in JobSteps : JobGoes(e, pc) /\ At(e, pc)
           \/ JobGoes(e, "record")
           \/ (JobGoes(e, "starting") \/ JobGoes(e, "ready")) /\ At(e, "editor")
           \/ JobGoes(e, "start") /\ At(e, "ready")
           \/ JobGoes(e, "editor") /\ claim[job[e].draft].state = "bound"
    PROVE  JobVolumes'
<1> DEFINE Late(f) == job[f].pc \in {"editor", "starting", "ready", "start"}
<1>1. \A f \in Execs : Late(f)' => /\ job'[f].draft = job[f].draft
                                   /\ Late(f) \/ claim[job[f].draft].state = "bound"
    BY Zenon DEF JobEnds, JobGoes, At
<1>2. \A f \in Execs : Late(f)' /\ job'[f].draft = NextRevision => DraftBound
    BY <1>1, Zenon DEF JobVolumes, DraftBound
<1> QED
    BY <1>2, NextSame, Zenon DEF JobVolumes, DraftStays

LEMMA EditorVolumesStay ==
    ASSUME EditorVolumes, RevisionStays, DraftStays, EditorStays
    PROVE  EditorVolumes'
BY NextSame, Zenon DEF EditorVolumes, DraftStays, EditorStays

\* Work that was counted before is still there, as far as volumes only grow.
LEMMA WorkStays ==
    ASSUME WorkFits, EnvSame, UNCHANGED claim,
           \A e \in Execs : exec'[e].drafted => exec[e].drafted
    PROVE  WorkFits'
BY NextSame, DraftSame, Zenon DEF WorkFits, EnvSame, RevisionStays

-----------------------------------------------------------------------------
(* Every step keeps the names, the volumes and the work.                   *)

\* A pass that only reads.
LEMMA ReadingKeeps ==
    ASSUME WInv, PassContinues, EnvSame, UNCHANGED <<claim, editor, exec, job>>
    PROVE  WInv'
<1> USE DEF WInv
<1>1. RevisionStays /\ DraftStays /\ EditorStays
    BY DraftSame, Zenon DEF EnvSame, DraftStays, EditorStays
<1> QED
    BY <1>1, EnvNamesStay, PassNamesKept, JobNamesStay, EditorNamesStay, VolumesStay,
       JobVolumesStay, EditorVolumesStay, WorkStays, Zenon

LEMMA BeginPassKeeps ==
    ASSUME TInv, WInv, BeginPass
    PROVE  WInv'
<1> USE DEF WInv
<1>1. EnvSame /\ RevisionStays /\ DraftStays /\ EditorStays
         /\ UNCHANGED <<env, claim, editor, exec, job>>
    BY DEF BeginPass, EnvSame, RevisionStays, DraftStays, EditorStays, DraftBound, NextRevision
<1>2. PassNames'
    <2>1. pass'.pc \in Committing => pass'.draft = NextRevision
        BY BeginPassIs, Zenon DEF TInv, Typed, EnvNames, Committing
    <2>2. pass'.pc # "delete"
        BY BeginPassIs DEF TInv, Typed
    <2> QED
        BY <1>1, <2>1, <2>2, NextSame, Zenon DEF PassNames
<1> QED
    BY <1>1, <1>2, EnvNamesStay, JobNamesStay, EditorNamesStay, VolumesStay,
       JobVolumesStay, EditorVolumesStay, WorkStays, Zenon

\* The editor is stopped or gets ready.
LEMMA EditorKeeps ==
    ASSUME WInv, EditorStays, EnvSame, UNCHANGED <<claim, exec, job>>,
           UNCHANGED pass \/ PassContinues
    PROVE  WInv'
<1> USE DEF WInv
<1>1. RevisionStays /\ DraftStays
    BY DraftSame, Zenon DEF EnvSame, DraftStays
<1> QED
    BY <1>1, EnvNamesStay, PassNamesKept, PassNamesStay, JobNamesStay, EditorNamesStay,
       VolumesStay, JobVolumesStay, EditorVolumesStay, WorkStays, Zenon

\* A worker ends, or goes on and leaves everything but its place.
LEMMA WorkerKeeps ==
    ASSUME WInv, JobNames', JobVolumes', EnvSame, UNCHANGED <<claim, editor, pass>>,
           \A e \in Execs : exec'[e].drafted => exec[e].drafted
    PROVE  WInv'
<1> USE DEF WInv
<1>1. RevisionStays /\ DraftStays /\ EditorStays
    BY DraftSame, Zenon DEF EnvSame, DraftStays, EditorStays
<1> QED
    BY <1>1, EnvNamesStay, PassNamesStay, EditorNamesStay, VolumesStay,
       EditorVolumesStay, WorkStays, Zenon

\* Users, and executions that start or end without work.
LEMMA ExecKeeps ==
    ASSUME WInv, EnvSame, UNCHANGED <<claim, editor, pass, job>>,
           \A e \in Execs : exec'[e].drafted => exec[e].drafted
    PROVE  WInv'
<1> USE DEF WInv
<1>1. RevisionStays /\ DraftStays
    BY DraftSame, Zenon DEF EnvSame, DraftStays
<1> QED
    BY <1>1, JobNamesStay, JobVolumesStay, WorkerKeeps, Zenon

\* A claim becomes a copy of its predecessor; the draft so gets all the work.
LEMMA ClaimBindsKeeps ==
    ASSUME TInv, WInv, NEW n \in Claims, ClaimBinds(n)
    PROVE  WInv'
<1> USE DEF WInv
<1>1. EnvSame /\ RevisionStays /\ EditorStays /\ UNCHANGED <<env, editor, exec, pass, job>>
    BY DEF ClaimBinds, EnvSame, RevisionStays, EditorStays
<1>2. /\ claim[n].state = "pending" /\ Whole(claim[n].source)
      /\ ClaimWritten(n, "bound", claim[n].source, Content(claim[n].source))
    BY ClaimBindsIs DEF TInv, Typed
<1>3. env.ready => n # env.revision
    BY <1>2, Zenon DEF Volumes
<1>4. \A m \in Claims : /\ m # n => claim'[m] = claim[m]
                        /\ claim'[m].source = claim[m].source
                        /\ claim'[m].state = claim[m].state \/ (m = n /\ claim'[m].state = "bound")
    BY <1>2, Zenon DEF ClaimWritten
<1>5. env.ready => env.revision \in Claims
    BY NextIs, Zenon DEF TInv, Counted
<1>6. Volumes'
    <2>1. env.ready => claim'[env.revision].state = "bound"
        BY <1>3, <1>4, <1>5, Zenon DEF Volumes
    <2>2. \A m \in Claims : claim'[m].state \in {"pending", "bound"}
                                => claim[m].state \in {"pending", "bound"}
        BY <1>2, <1>4, Zenon
    <2>3. \A m \in Claims : claim'[m].state = "going" => m < env.revision
        BY <1>4, Zenon DEF Volumes
    <2>4. \A m \in Claims : claim'[m].state \in {"pending", "bound"} =>
                                /\ m <= NextRevision /\ claim'[m].source + 1 = m
                                /\ m > 1 => env.ready
        BY <1>4, <2>2, Zenon DEF Volumes
    <2> QED
        BY <1>1, <2>1, <2>3, <2>4, NextSame, Zenon DEF Volumes
<1>7. DraftStays
    BY <1>1, <1>4, NextIs, NextSame, Zenon DEF DraftStays, DraftBound
<1>8. WorkFits'
    <2> SUFFICES ASSUME NEW e \in Execs, exec[e].drafted
                 PROVE  /\ env.ready
                        /\ DraftBound' => e \in claim'[NextRevision].holds
                        /\ ~DraftBound' \/ env.draft = NoClaim => e \in claim'[env.revision].holds
        BY <1>1, NextSame, Zenon DEF WorkFits
    <2>1. /\ env.ready /\ DraftBound => e \in claim[NextRevision].holds
          /\ ~DraftBound \/ env.draft = NoClaim => e \in claim[env.revision].holds
        BY Zenon DEF WorkFits
    <2>2. claim'[env.revision] = claim[env.revision]
        BY <1>3, <1>4, <1>5, <2>1, Zenon DEF WorkFits
    <2>3. CASE n = NextRevision
        <3>1. claim[n].source + 1 = n
            BY <1>2, Zenon DEF Volumes
        <3>2. claim[n].source \in Nat
            BY ClaimFields, ClaimNames DEF TInv, Typed
        <3>3. claim[n].source = env.revision
            BY <2>3, <3>1, <3>2, NextIs, SMT DEF NextRevision
        <3>4. env.revision # NoClaim
            BY <1>5, ClaimNames, Zenon DEF WorkFits
        <3>5. claim'[n].holds = claim[env.revision].holds
            BY <1>2, <3>3, <3>4, Zenon DEF ClaimWritten, Content
        <3>6. ~DraftBound
            BY <1>2, <2>3, Zenon DEF DraftBound
        <3> QED
            BY <2>1, <2>2, <2>3, <3>5, <3>6, Zenon DEF WorkFits
    <2>4. CASE n # NextRevision
        <3>1. claim'[NextRevision] = claim[NextRevision]
            BY <1>4, <2>4, NextIs, Zenon
        <3>2. DraftBound' <=> DraftBound
            BY <1>1, <3>1, NextSame, Zenon DEF DraftBound
        <3> QED
            BY <2>1, <2>2, <3>1, <3>2, Zenon DEF WorkFits
    <2> QED
        BY <2>3, <2>4
<1> QED
    BY <1>1, <1>6, <1>7, <1>8, EnvNamesStay, PassNamesStay, JobNamesStay, EditorNamesStay,
       JobVolumesStay, EditorVolumesStay, Zenon

\* A claim that was absent is asked for: current before there is one, or a draft.
LEMMA RequestKeeps ==
    ASSUME TInv, Volumes, WorkFits, RevisionStays, env'.draft = env.draft, UNCHANGED exec,
           NEW n \in Claims, NEW s \in Nat, claim[n].state = "absent", s + 1 = n,
           n <= NextRevision, n > 1 => env.ready, ClaimWritten(n, "pending", s, {})
    PROVE  Volumes' /\ DraftStays /\ WorkFits'
<1>1. \A m \in Claims : m # n => claim'[m] = claim[m]
    BY Zenon DEF ClaimWritten
<1>2. claim'[n].state = "pending" /\ claim'[n].source = s
    BY Zenon DEF ClaimWritten
<1>3. env.ready => n # env.revision
    BY Zenon DEF Volumes
<1>4. env.ready => env.revision \in Claims
    BY NextIs, Zenon DEF TInv, Counted
<1>5. Volumes'
    <2>1. env.ready => claim'[env.revision].state = "bound"
        BY <1>1, <1>3, <1>4, Zenon DEF Volumes
    <2>2. \A m \in Claims : /\ claim'[m].state \in {"pending", "bound"} =>
                                 /\ m <= NextRevision /\ claim'[m].source + 1 = m
                                 /\ m > 1 => env.ready
                            /\ claim'[m].state = "going" => m < env.revision
        BY <1>1, <1>2, Zenon DEF Volumes
    <2> QED
        BY <2>1, <2>2, NextSame, Zenon DEF Volumes, RevisionStays
<1>6. DraftBound' <=> DraftBound
    BY <1>1, <1>2, NextIs, NextSame, Zenon DEF DraftBound
<1>7. env.ready => claim'[env.revision] = claim[env.revision]
    BY <1>1, <1>3, <1>4, Zenon
<1>8. DraftBound => claim'[NextRevision] = claim[NextRevision]
    BY <1>1, NextIs, Zenon DEF DraftBound
<1>9. WorkFits'
    BY <1>6, <1>7, <1>8, NextSame, Zenon DEF WorkFits, RevisionStays
<1> QED
    BY <1>5, <1>6, <1>9 DEF DraftStays

LEMMA CreateCurrentKeeps ==
    ASSUME TInv, WInv, CreateCurrent
    PROVE  WInv'
<1> USE DEF WInv
<1>1. EnvSame /\ RevisionStays /\ EditorStays /\ UNCHANGED <<env, editor, exec, job>>
    BY DEF CreateCurrent, EnvSame, RevisionStays, EditorStays
<1>2. /\ claim[1].state = "absent" /\ ClaimWritten(1, "pending", NoClaim, {})
    BY CreateCurrentIs DEF TInv, Typed
<1>3. PassContinues
    BY PassContinuing DEF TInv, Typed, PassWork
<1>4. 1 \in Claims /\ 0 \in Nat /\ 0 + 1 = 1 /\ 1 <= NextRevision /\ ~(1 > 1) /\ NoClaim = 0
    BY ClaimNames, NextIs, SMT DEF NextRevision
<1>5. Volumes' /\ DraftStays /\ WorkFits'
    BY <1>1, <1>2, <1>4, RequestKeeps, Zenon DEF EnvSame
<1> QED
    BY <1>1, <1>3, <1>5, EnvNamesStay, PassNamesKept, JobNamesStay, EditorNamesStay,
       JobVolumesStay, EditorVolumesStay, Zenon

LEMMA CreateDraftKeeps ==
    ASSUME TInv, WInv, NEW e \in Execs, CreateDraft(e)
    PROVE  WInv'
<1> USE DEF WInv
<1>1. EnvSame /\ RevisionStays /\ EditorStays /\ UNCHANGED <<env, editor, exec, pass>>
    BY DEF CreateDraft, EnvSame, RevisionStays, EditorStays
<1>2. ~At(e, "idle") /\ JobGoes(e, "record") /\ "record" \in JobSteps
    BY GoToIs, Zenon DEF TInv, Typed, CreateDraft, At, JobSteps
<1>3. job[e].draft \in Claims /\ job[e].current \in Nat
    BY <1>2, JobFields, ClaimNames, Zenon DEF TInv, Typed, JobsBegun
<1>4. claim[job[e].draft].state = "absent"
      /\ ClaimWritten(job[e].draft, "pending", job[e].current, {})
    BY <1>3, CreateDraftIs DEF TInv, Typed
<1>5. env.ready /\ job[e].draft <= NextRevision /\ job[e].current + 1 = job[e].draft
    BY <1>2, Zenon DEF JobNames
<1>6. Volumes' /\ DraftStays /\ WorkFits'
    BY <1>1, <1>3, <1>4, <1>5, RequestKeeps, Zenon DEF EnvSame
<1>7. JobNames' /\ JobVolumes'
    BY <1>1, <1>2, <1>6, JobNamesKept, JobVolumesKept, Zenon
<1> QED
    BY <1>1, <1>6, <1>7, EnvNamesStay, PassNamesStay, EditorNamesStay, EditorVolumesStay, Zenon

\* A claim before current goes away.
LEMMA OldKeeps ==
    ASSUME TInv, Volumes, WorkFits, RevisionStays, env'.draft = env.draft,
           \A e \in Execs : exec'[e].drafted => exec[e].drafted,
           \A n \in Claims : claim'[n] = claim[n] \/
                 (n < env.revision /\ claim'[n].state \in {"absent", "going"})
    PROVE  Volumes' /\ DraftStays /\ WorkFits'
<1>1. ~(NextRevision < env.revision) /\ ~(env.revision < env.revision)
    BY NextIs, SMT DEF NextRevision
<1>2. env.ready => env.revision \in Claims
    BY NextIs, Zenon DEF TInv, Counted
<1>3. claim'[NextRevision] = claim[NextRevision]
    BY <1>1, NextIs, Zenon
<1>4. env.ready => claim'[env.revision] = claim[env.revision]
    BY <1>1, <1>2, Zenon
<1>5. DraftBound' <=> DraftBound
    BY <1>3, NextSame, Zenon DEF DraftBound
<1>6. Volumes'
    <2>1. \A n \in Claims : /\ claim'[n].state \in {"pending", "bound"} => claim'[n] = claim[n]
                            /\ claim'[n].state = "going" => n < env.revision
        BY Zenon DEF Volumes
    <2> QED
        BY <1>4, <2>1, NextSame, Zenon DEF Volumes, RevisionStays
<1>7. WorkFits'
    BY <1>3, <1>4, <1>5, NextSame, Zenon DEF WorkFits, RevisionStays
<1> QED
    BY <1>5, <1>6, <1>7 DEF DraftStays

LEMMA EditorGoneKeeps ==
    ASSUME TInv, WInv, EditorGone
    PROVE  WInv'
<1> USE DEF WInv
<1>1. EnvSame /\ RevisionStays /\ UNCHANGED <<env, pass, job>>
    BY DEF EditorGone, EnvSame, RevisionStays
<1>2. /\ \A n \in Claims : claim'[n] = claim[n] \/
                           (claim[n].state = "going" /\ claim'[n].state = "absent")
      /\ \A e \in Execs : exec'[e].drafted = exec[e].drafted
      /\ editor'.exists = FALSE
    BY EditorGoneIs, NoEditorIs, Zenon DEF TInv, Typed
<1>3. Volumes' /\ DraftStays /\ WorkFits'
    <2>1. \A n \in Claims : claim'[n] = claim[n] \/
                            (n < env.revision /\ claim'[n].state = "absent")
        BY <1>2, Zenon DEF Volumes
    <2> QED
        BY <1>1, <1>2, <2>1, OldKeeps, Zenon DEF EnvSame
<1>4. EditorNames' /\ EditorVolumes'
    BY <1>2, Zenon DEF EditorNames, EditorVolumes
<1> QED
    BY <1>1, <1>3, <1>4, EnvNamesStay, PassNamesStay, JobNamesStay, JobVolumesStay, Zenon

LEMMA DeleteOldKeeps ==
    ASSUME TInv, WInv, DeleteOld
    PROVE  WInv'
<1> USE DEF WInv
<1>1. EnvSame /\ RevisionStays /\ EditorStays /\ UNCHANGED <<env, editor, exec, job>>
    BY DEF DeleteOld, EnvSame, RevisionStays, EditorStays
<1>2. pass.pc = "delete" /\ PassContinues
    BY PassContinuing, DeleteOldIs DEF TInv, Typed, PassWork
<1>3. pass.current < env.revision
    <2>1. pass.current \in Nat /\ env.revision \in Nat
        BY PassFields, EnvFields, ClaimNames, Zenon DEF TInv, Typed
    <2> QED
        BY <1>2, <2>1, SMT DEF PassNames
<1>4. Volumes' /\ DraftStays /\ WorkFits'
    <2>1. \A n \in Claims : claim'[n] = claim[n] \/
             (n < env.revision /\ claim'[n].state \in {"absent", "going"})
        BY <1>3, DeleteOldIs, Zenon DEF TInv, Typed
    <2> QED
        BY <1>1, <2>1, OldKeeps, Zenon DEF EnvSame
<1> QED
    BY <1>1, <1>2, <1>4, EnvNamesStay, PassNamesKept, JobNamesStay, EditorNamesStay,
       JobVolumesStay, EditorVolumesStay, Zenon

\* The work of a process is on the volume its editor mounts; it counts when
\* that is the recorded draft, which is bound.
LEMMA ProcessEndsKeeps ==
    ASSUME TInv, WInv, NEW e \in Execs, ProcessEnds(e)
    PROVE  WInv'
<1> USE DEF WInv
<1>1. EnvSame /\ RevisionStays /\ EditorStays /\ UNCHANGED <<env, editor, pass, job>>
    BY DEF ProcessEnds, EnvSame, RevisionStays, EditorStays
<1>2. editor.exists /\ editor.claim \in Claims
    BY EditorFields, ClaimNames, Zenon DEF TInv, Typed, JobsBegun, ProcessEnds
<1>3. /\ ClaimWritten(editor.claim, claim[editor.claim].state, claim[editor.claim].source,
                      claim[editor.claim].holds \cup {e})
      /\ ExecWritten(e, "succeeded", FALSE, editor.claim = env.draft)
    BY <1>2, ProcessEndsIs, EndedIs, Zenon DEF TInv, Typed
<1>4. \A n \in Claims : /\ claim'[n].state = claim[n].state /\ claim'[n].source = claim[n].source
                        /\ claim[n].holds \subseteq claim'[n].holds
                        /\ n = editor.claim => e \in claim'[n].holds
    BY <1>3, Zenon DEF ClaimWritten
<1>5. env.ready => env.revision \in Claims
    BY NextIs, Zenon DEF TInv, Counted
<1>6. Volumes'
    <2>1. env.ready => claim'[env.revision].state = "bound"
        BY <1>4, <1>5, Zenon DEF Volumes
    <2> QED
        BY <1>1, <1>4, <2>1, NextSame, Zenon DEF Volumes
<1>7. DraftBound' <=> DraftBound
    BY <1>1, <1>4, NextIs, NextSame, Zenon DEF DraftBound
<1>8. WorkFits'
    <2> SUFFICES ASSUME NEW f \in Execs, exec'[f].drafted
                 PROVE  /\ env.ready
                        /\ DraftBound => f \in claim'[NextRevision].holds
                        /\ ~DraftBound \/ env.draft = NoClaim => f \in claim'[env.revision].holds
        BY <1>1, <1>7, NextSame, Zenon DEF WorkFits
    <2>1. CASE f = e
        <3>1. editor.claim = env.draft
            BY <1>3, <2>1, Zenon DEF ExecWritten
        <3>2. env.draft # NoClaim
            BY <1>2, <3>1, ClaimNames, Zenon
        <3>3. env.ready /\ editor.claim = NextRevision
            BY <3>1, <3>2, Zenon DEF EnvNames
        <3>4. DraftBound
            BY <1>2, <3>3, Zenon DEF EditorVolumes
        <3> QED
            BY <1>2, <1>4, <2>1, <3>2, <3>3, <3>4, Zenon
    <2>2. CASE f # e
        <3>1. exec[f].drafted
            BY <1>3, <2>2, Zenon DEF ExecWritten
        <3>2. claim[NextRevision].holds \subseteq claim'[NextRevision].holds
            BY <1>4, NextIs, Zenon
        <3>3. claim[env.revision].holds \subseteq claim'[env.revision].holds
            BY <1>4, <1>5, <3>1, Zenon DEF WorkFits
        <3> QED
            BY <3>1, <3>2, <3>3, Zenon DEF WorkFits
    <2> QED
        BY <2>1, <2>2
<1> QED
    BY <1>1, <1>6, <1>7, <1>8, EnvNamesStay, PassNamesStay, JobNamesStay, EditorNamesStay,
       JobVolumesStay, EditorVolumesStay, Zenon DEF DraftStays

LEMMA BeginJobKeeps ==
    ASSUME TInv, WInv, NEW e \in Execs, BeginJob(e)
    PROVE  WInv'
<1> USE DEF WInv
<1>1. EnvSame /\ RevisionStays /\ DraftStays /\ UNCHANGED <<env, claim, editor, exec, pass>>
    BY DEF BeginJob, EnvSame, RevisionStays, DraftStays, DraftBound, NextRevision
<1>2. DraftName \in Names
    BY NextName, ClaimNames, Zenon DEF TInv, BeginJob
<1>3. /\ env.ready /\ job'[e].pc = "draft"
      /\ job'[e].current = env.current /\ job'[e].draft = DraftName
      /\ \A f \in Execs \ {e} : job'[f] = job[f]
    BY <1>2, BeginJobIs, Zenon DEF TInv, Typed
<1>4. DraftName = NextRevision
    BY Zenon DEF DraftName, EnvNames, NextRevision
<1>5. job'[e].draft <= NextRevision /\ job'[e].draft = job'[e].current + 1
    BY <1>3, <1>4, NextIs, SMT DEF EnvNames, NextRevision
<1>6. JobNames'
    BY <1>1, <1>3, <1>5, NextSame, Zenon DEF JobNames, At
<1>7. JobVolumes'
    BY <1>1, <1>3, NextSame, Zenon DEF JobVolumes, DraftStays
<1> QED
    BY <1>1, <1>6, <1>7, WorkerKeeps, Zenon

LEMMA CheckDraftKeeps ==
    ASSUME TInv, WInv, NEW e \in Execs, CheckDraft(e)
    PROVE  WInv'
<1> USE DEF WInv
<1>1. EnvSame /\ RevisionStays /\ DraftStays /\ UNCHANGED <<env, claim, editor, exec, pass>>
    BY DEF CheckDraft, EnvSame, RevisionStays, DraftStays, DraftBound, NextRevision
<1>2. ~At(e, "idle") /\ (JobEnds(e) \/ (JobGoes(e, "editor") /\ claim[job[e].draft].state = "bound"))
    BY CheckDraftIs, Zenon DEF TInv, Typed, At
<1>3. JobNames' /\ JobVolumes'
    BY <1>1, <1>2, JobNamesKept, JobVolumesKept, Zenon DEF JobSteps
<1> QED
    BY <1>1, <1>3, WorkerKeeps, Zenon

LEMMA StartProcessKeeps ==
    ASSUME TInv, WInv, NEW e \in Execs, StartProcess(e)
    PROVE  WInv'
<1> USE DEF WInv
<1>1. EnvSame /\ RevisionStays /\ DraftStays /\ UNCHANGED <<env, claim, editor, pass>>
    BY DEF StartProcess, EnvSame, RevisionStays, DraftStays, DraftBound, NextRevision
<1>2. /\ JobEnds(e)
      /\ \/ ExecWritten(e, "ended", exec[e].alive, exec[e].drafted)
         \/ editor.exists /\ ExecWritten(e, "running", TRUE, exec[e].drafted)
    BY StartProcessIs, Zenon DEF TInv, Typed
<1>3. \A f \in Execs : exec'[f].drafted => exec[f].drafted
    BY <1>2, Zenon DEF ExecWritten
<1>4. JobNames' /\ JobVolumes'
    BY <1>1, <1>2, JobNamesKept, JobVolumesKept, Zenon
<1> QED
    BY <1>1, <1>3, <1>4, WorkerKeeps, Zenon

LEMMA EnsureEditorKeeps ==
    ASSUME TInv, WInv, NEW e \in Execs, EnsureEditor(e)
    PROVE  WInv'
<1> USE DEF WInv
<1>1. EnvSame /\ RevisionStays /\ DraftStays /\ UNCHANGED <<env, claim, exec, pass>>
    BY DEF EnsureEditor, EnvSame, RevisionStays, DraftStays, DraftBound, NextRevision
<1>2. /\ At(e, "editor") /\ ~At(e, "idle")
      /\ \/ editor'.claim = job[e].draft /\ JobGoes(e, "starting")
         \/ editor' = editor /\ (JobEnds(e) \/ JobGoes(e, "ready"))
    BY EnsureEditorIs, Zenon DEF TInv, Typed, At
<1>3. JobNames' /\ JobVolumes'
    BY <1>1, <1>2, JobNamesKept, JobVolumesKept, Zenon DEF JobSteps
<1>4. EditorNames' /\ EditorVolumes'
    <2>1. CASE editor'.claim = job[e].draft
        <3>1. env.ready /\ job[e].draft <= NextRevision
            BY <1>2, Zenon DEF JobNames
        <3>2. job[e].draft = NextRevision => DraftBound
            BY <1>2, Zenon DEF JobVolumes, At
        <3> QED
            BY <1>1, <2>1, <3>1, <3>2, NextSame, Zenon DEF EditorNames, EditorVolumes, DraftStays
    <2>2. CASE editor' = editor
        BY <1>1, <2>2, EditorNamesStay, EditorVolumesStay, Zenon DEF EditorStays
    <2> QED
        BY <1>2, <2>1, <2>2
<1>5. WorkFits'
    BY <1>1, WorkStays, Zenon
<1> QED
    BY <1>1, <1>3, <1>4, <1>5, EnvNamesStay, PassNamesStay, VolumesStay, Zenon

\* A worker records the draft that is next: this is where freshness is needed.
LEMMA RecordKeeps ==
    ASSUME TInv, WInv, NEW e \in Execs, RecordDraft(e) \/ RecordEditor(e), RecordsFresh(e)
    PROVE  WInv'
<1> USE DEF WInv
<1>1. RevisionStays /\ env'.draft = job[e].draft
    BY RecordDraftIs, RecordEditorIs, Zenon DEF TInv, Typed
<1>2. UNCHANGED <<claim, editor, exec, pass>> /\ ~At(e, "idle")
    BY DEF RecordDraft, RecordEditor, At
<1>3. EditorStays /\ DraftStays /\ (DraftBound' <=> DraftBound)
    BY <1>1, <1>2, DraftSame, Zenon DEF EditorStays, DraftStays
<1>4. env'.draft = NextRevision
    <2>1. DraftName = NextRevision
        BY Zenon DEF DraftName, EnvNames, NextRevision
    <2> QED
        BY <1>1, <2>1, Zenon DEF RecordsFresh
<1>5. EnvNames'
    <2>1. env.ready
        BY <1>2, Zenon DEF JobNames
    <2> QED
        BY <1>1, <1>4, <2>1, NextSame, Zenon DEF EnvNames, RevisionStays
<1>6. JobEnds(e) \/ (JobGoes(e, "start") /\ At(e, "ready"))
    BY EndJobIs, RecordedIs, Zenon DEF TInv, Typed, RecordDraft
<1>7. JobNames' /\ JobVolumes'
    BY <1>1, <1>2, <1>3, <1>6, JobNamesKept, JobVolumesKept, Zenon DEF JobSteps
<1>8. WorkFits'
    <2>1. env'.draft # NoClaim
        BY <1>4, NextIs, ClaimNames, Zenon
    <2> QED
        BY <1>1, <1>2, <1>3, <2>1, NextSame, Zenon DEF WorkFits, RevisionStays
<1> QED
    BY <1>1, <1>2, <1>3, <1>5, <1>7, <1>8, PassNamesStay, EditorNamesStay, VolumesStay,
       EditorVolumesStay, Zenon

\* A commit: the draft, with all the work, is current now, and has no successor.
LEMMA PromoteKeeps ==
    ASSUME TInv, WInv, Promote
    PROVE  WInv'
<1> USE DEF WInv
<1>1. pass.pc = "promote" /\ DraftUsable /\ env' = Promoted
      /\ UNCHANGED <<claim, editor, exec, job>>
    BY DEF Promote
<1>2. pass.draft = NextRevision /\ pass.current = env.revision
    BY <1>1, Zenon DEF PassNames, Committing, TInv, PassKnows, EnvNames
<1>3. /\ env'.revision = NextRevision /\ env'.current = NextRevision
      /\ env'.draft = NoClaim /\ env'.ready = TRUE
    BY <1>1, <1>2, PromotedIs, Zenon DEF TInv, Typed, NextRevision
<1>4. DraftBound
    BY <1>1, <1>2, Zenon DEF DraftBound, DraftUsable
<1>5. TInv'
    BY PromoteTypes
<1>6. /\ NextRevision' \in Claims /\ NextRevision < NextRevision'
      /\ ~(NextRevision' <= NextRevision)
      /\ \A n \in Nat : n <= NextRevision => n <= NextRevision' /\ n # NextRevision'
      /\ \A n \in Nat : n < env.revision => n < env'.revision
    <2>1. NextRevision' = NextRevision + 1 /\ env'.revision = env.revision + 1
        BY <1>3 DEF NextRevision
    <2>2. env.revision \in Nat /\ NextRevision \in Nat
        BY NextIs
    <2>3. (NextRevision \in Claims)'
        BY <1>5, NextFits, PTL
    <2> QED
        BY <2>1, <2>2, <2>3, SMT
<1>7. ~DraftBound'
    BY <1>1, <1>6, Zenon DEF DraftBound, Volumes
<1>8. EnvNames'
    BY <1>3, Zenon DEF EnvNames
<1>9. PassNames'
    <2>1. PassGoes("delete")
        BY StepIs, Zenon DEF TInv, Typed, Promote, PassSteps
    <2>2. pass'.pc = "delete" /\ pass'.current = env.revision
        BY <1>2, <2>1, Zenon DEF PassGoes
    <2> QED
        BY <1>3, <2>2, Zenon DEF PassNames, Committing, NextRevision
<1>10. JobNames' /\ JobVolumes'
    <2>1. \A e \in Execs : job[e].draft \in Nat
        BY JobFields, ClaimNames, Zenon DEF TInv, Typed
    <2>2. \A e \in Execs : ~At(e, "idle") => /\ job[e].draft <= NextRevision'
                                             /\ job[e].draft # NextRevision'
        BY <1>6, <2>1, Zenon DEF JobNames
    <2> QED
        BY <1>1, <1>3, <2>2, Zenon DEF JobNames, JobVolumes, At
<1>11. EditorNames' /\ EditorVolumes'
    <2>1. editor.claim \in Nat
        BY EditorFields, ClaimNames, Zenon DEF TInv, Typed
    <2>2. editor.exists => editor.claim <= NextRevision' /\ editor.claim # NextRevision'
        BY <1>6, <2>1, Zenon DEF EditorNames
    <2> QED
        BY <1>1, <1>3, <2>2, Zenon DEF EditorNames, EditorVolumes
<1>12. Volumes'
    <2>1. \A n \in Claims : /\ n <= NextRevision => n <= NextRevision'
                            /\ n < env.revision => n < env'.revision
        BY <1>6, ClaimNames, Zenon
    <2>2. claim'[env'.revision].state = "bound"
        BY <1>1, <1>3, <1>4, Zenon DEF DraftBound
    <2> QED
        BY <1>1, <1>3, <2>1, <2>2, Zenon DEF Volumes
<1>13. WorkFits'
    BY <1>1, <1>3, <1>4, <1>7, Zenon DEF WorkFits
<1> QED
    BY <1>8, <1>9, <1>10, <1>11, <1>12, <1>13

\* A report names the first revision, or says again what is so already.
LEMMA ReportKeeps ==
    ASSUME TInv, WInv, Report
    PROVE  WInv'
<1> USE DEF WInv
<1>1. UNCHANGED <<claim, editor, exec, job>> /\ PassContinues /\ PassRests
    BY PassContinuing, EndPassIs DEF Report, TInv, Typed, PassWork
<1>2. pass.revision = env.revision /\ pass.current = env.revision
    BY Zenon DEF TInv, PassKnows, EnvNames, Report
<1>3. /\ env'.draft = env.draft /\ env'.current = Named
      /\ env'.ready = (claim[Named].state = "bound")
      /\ env'.revision = IF pass.revision = 0 THEN 1 ELSE pass.revision
    BY ReportIs DEF TInv, Typed
<1>4. env.revision \in Nat /\ NextRevision \in Claims
    BY NextIs
<1>5. PassNames'
    BY <1>1, Zenon DEF PassNames, PassRests, Committing
<1>6. CASE env.revision = 0
    <2>1. Named = 1 /\ env'.revision = 1 /\ env'.current = 1
        BY <1>2, <1>3, <1>6, ClaimNames, Zenon DEF Named
    <2>2. ~env.ready
        BY <1>6, SMT DEF TInv, Counted
    <2>3. env'.draft = NoClaim
        BY <1>3, <2>2, Zenon DEF EnvNames
    <2>4. /\ \A e \in Execs : At(e, "idle") /\ ~exec[e].drafted
          /\ ~editor.exists
        BY <2>2, Zenon DEF JobNames, EditorNames, WorkFits
    <2>5. NextRevision' = 2 /\ NextRevision = 1
        BY <1>6, <2>1, SMT DEF NextRevision
    <2>6. \A n \in Claims : /\ claim[n].state \in {"pending", "bound"} => n <= 2 /\ ~(n > 1)
                            /\ claim[n].state # "going"
        BY <1>6, <2>2, <2>5, ClaimNames, SMT DEF Volumes
    <2>7. EnvNames'
        BY <2>1, <2>3, Zenon DEF EnvNames
    <2>8. Volumes'
        BY <1>1, <1>3, <2>1, <2>5, <2>6, Zenon DEF Volumes
    <2>9. JobNames' /\ JobVolumes' /\ WorkFits'
        BY <1>1, <2>4, Zenon DEF JobNames, JobVolumes, WorkFits, At
    <2>10. EditorNames' /\ EditorVolumes'
        BY <1>1, <2>4, Zenon DEF EditorNames, EditorVolumes
    <2> QED
        BY <1>5, <2>7, <2>8, <2>9, <2>10
<1>7. CASE env.revision # 0
    <2>1. Named = env.revision /\ env'.revision = env.revision /\ env'.current = env.current
        BY <1>2, <1>3, <1>7, ClaimNames, Zenon DEF Named, EnvNames
    <2>2. /\ env.ready => env'.ready
          /\ env'.ready => claim[env.revision].state = "bound"
        BY <1>3, <2>1, Zenon DEF Volumes
    <2>3. NextRevision' = NextRevision
        BY <2>1 DEF NextRevision
    <2>4. DraftBound' <=> DraftBound
        BY <1>1, <2>3, Zenon DEF DraftBound
    <2>5. EnvNames'
        BY <1>3, <2>1, <2>2, <2>3, Zenon DEF EnvNames
    <2>6. Volumes'
        BY <1>1, <2>1, <2>2, <2>3, Zenon DEF Volumes
    <2>7. JobNames' /\ JobVolumes'
        BY <1>1, <2>2, <2>3, <2>4, Zenon DEF JobNames, JobVolumes, At
    <2>8. EditorNames' /\ EditorVolumes'
        BY <1>1, <2>2, <2>3, <2>4, Zenon DEF EditorNames, EditorVolumes
    <2>9. WorkFits'
        BY <1>1, <1>3, <2>1, <2>2, <2>3, <2>4, Zenon DEF WorkFits
    <2> QED
        BY <1>5, <2>5, <2>6, <2>7, <2>8, <2>9
<1> QED
    BY <1>6, <1>7

LEMMA FailKeeps ==
    ASSUME TInv, WInv, Fail
    PROVE  WInv'
<1> USE DEF WInv
<1>1. EnvSame /\ RevisionStays /\ DraftStays /\ EditorStays /\ UNCHANGED <<env, claim, editor, exec>>
    BY DEF Fail, EnvSame, RevisionStays, DraftStays, DraftBound, NextRevision, EditorStays
<1>2. CASE pass' = Rest /\ UNCHANGED job
    <2>1. PassContinues
        BY <1>2, RestIs DEF PassContinues, PassRests
    <2> QED
        BY <1>1, <1>2, <2>1, ReadingKeeps, Zenon
<1>3. CASE UNCHANGED <<pass, job>>
    BY <1>1, <1>3, ExecKeeps, Zenon
<1>4. ASSUME NEW e \in Execs, EndJob(e), UNCHANGED pass
      PROVE  WInv'
    <2>1. JobEnds(e)
        BY <1>4, EndJobIs DEF TInv, Typed
    <2>2. JobNames' /\ JobVolumes'
        BY <1>1, <2>1, JobNamesKept, JobVolumesKept, Zenon
    <2> QED
        BY <1>1, <1>4, <2>2, WorkerKeeps, Zenon
<1> QED
    BY <1>2, <1>3, <1>4 DEF Fail

LEMMA InitNames == Init => WInv
<1> SUFFICES ASSUME Init
             PROVE  WInv
    OBVIOUS
<1>1. /\ env.ready = FALSE /\ env.revision = 0 /\ env.current = NoClaim /\ env.draft = NoClaim
      /\ editor = NoEditor /\ pass = Rest
    BY DEF Init
<1>2. \A e \in Execs : exec[e] = NewExec /\ job[e] = NoJob
    BY Zenon DEF Init
<1>3. \A n \in Claims : claim[n] = NewClaim
    BY Zenon DEF Init
<1>4. NewExec.drafted = FALSE /\ NoJob.pc = "idle"
    BY DEF NewExec, NoJob
<1>5. EnvNames /\ PassNames
    BY <1>1, RestIs, ClaimNames, Zenon DEF EnvNames, PassNames, Committing
<1>6. JobNames /\ JobVolumes /\ WorkFits
    BY <1>2, <1>4, Zenon DEF JobNames, JobVolumes, WorkFits, At
<1>7. EditorNames /\ EditorVolumes
    BY <1>1, NoEditorIs, Zenon DEF EditorNames, EditorVolumes
<1>8. Volumes
    BY <1>1, <1>3, NewClaimIs, Zenon DEF Volumes
<1> QED
    BY <1>5, <1>6, <1>7, <1>8 DEF WInv

\* The steps that leave names, volumes and work alone.
LEMMA QuietKeeps ==
    ASSUME TInv, WInv, UNCHANGED <<env, claim, editor, exec, pass, job>>
    PROVE  WInv'
<1>1. EnvSame
    BY DEF EnvSame, RevisionStays
<1> QED
    BY <1>1, ExecKeeps, Zenon

LEMMA UsersKeep ==
    ASSUME TInv, WInv, Users
    PROVE  WInv'
<1>1. CASE RequestCommit
    <2>1. EnvSame
        BY <1>1, RequestCommitIs DEF TInv, Typed, EnvSame
    <2> QED
        BY <1>1, <2>1, ExecKeeps, Zenon DEF RequestCommit
<1>2. CASE EditSpec
    <2>1. EnvSame
        BY <1>2, EditSpecIs DEF TInv, Typed, EnvSame
    <2> QED
        BY <1>2, <2>1, ExecKeeps, Zenon DEF EditSpec
<1>3. ASSUME NEW e \in Execs, Create(e)
      PROVE  WInv'
    <2>1. EnvSame /\ UNCHANGED <<claim, editor, pass, job>>
        BY <1>3 DEF Create, EnvSame, RevisionStays
    <2>2. ExecWritten(e, "pending", exec[e].alive, exec[e].drafted)
        BY <1>3, PhaseIs, Zenon DEF TInv, Typed, Phases, Create
    <2> QED
        BY <2>1, <2>2, ExecKeeps, Zenon DEF ExecWritten
<1>4. ASSUME NEW e \in Execs, AskToStop(e)
      PROVE  WInv'
    <2>1. EnvSame /\ UNCHANGED <<claim, editor, pass, job>>
        BY <1>4 DEF AskToStop, EnvSame, RevisionStays
    <2>2. ExecWritten(e, exec[e].phase, exec[e].alive, exec[e].drafted)
        BY <1>4, AskToStopIs DEF TInv, Typed
    <2> QED
        BY <2>1, <2>2, ExecKeeps, Zenon DEF ExecWritten
<1> QED
    BY <1>1, <1>2, <1>3, <1>4 DEF Users

LEMMA ClusterKeeps ==
    ASSUME TInv, WInv, Cluster
    PROVE  WInv'
<1>1. CASE LoseEditor
    <2>1. EnvSame /\ EditorStays
        BY <1>1, StoppingIs DEF LoseEditor, TInv, Typed, EnvSame, RevisionStays
    <2> QED
        BY <1>1, <2>1, EditorKeeps, Zenon DEF LoseEditor
<1>2. CASE EditorReady
    <2>1. EnvSame /\ EditorStays
        BY <1>2, EditorReadyIs DEF EditorReady, TInv, Typed, EnvSame, RevisionStays
    <2> QED
        BY <1>2, <2>1, EditorKeeps, Zenon DEF EditorReady
<1>3. CASE HomeBinds
    BY <1>3, QuietKeeps DEF HomeBinds
<1> QED
    BY <1>1, <1>2, <1>3, EditorGoneKeeps, ClaimBindsKeeps, ProcessEndsKeeps, Zenon DEF Cluster

LEMMA EnvironmentPassKeeps ==
    ASSUME TInv, WInv, EnvironmentPass
    PROVE  WInv'
<1>1. CASE CheckCommit \/ PromoteLost \/ CheckEditor \/ CheckReplace \/ CheckIdle \/ FindCurrent
    <2>1. PassContinues
        BY <1>1, PassContinuing DEF TInv, Typed, PassWork
    <2>2. EnvSame /\ UNCHANGED <<claim, editor, exec, job>>
        BY <1>1 DEF CheckCommit, PromoteLost, CheckEditor, CheckReplace, CheckIdle, FindCurrent,
                    EnvSame, RevisionStays
    <2> QED
        BY <2>1, <2>2, ReadingKeeps, Zenon
<1>2. CASE StopEditor \/ EvictEditor
    <2>1. PassContinues
        BY <1>2, PassContinuing DEF TInv, Typed, PassWork
    <2>2. EnvSame /\ EditorStays /\ UNCHANGED <<claim, exec, job>>
        BY <1>2, StoppingIs DEF StopEditor, EvictEditor, TInv, Typed, EnvSame, RevisionStays
    <2> QED
        BY <2>1, <2>2, EditorKeeps, Zenon
<1>3. CASE ClearEditor
    <2>1. PassContinues
        BY <1>3, PassContinuing DEF TInv, Typed, PassWork
    <2>2. EnvSame
        BY <1>3, ClearEditorIs DEF TInv, Typed, EnvSame
    <2> QED
        BY <1>3, <2>1, <2>2, ReadingKeeps, Zenon DEF ClearEditor
<1> QED
    BY <1>1, <1>2, <1>3, BeginPassKeeps, PromoteKeeps, DeleteOldKeeps, CreateCurrentKeeps,
       ReportKeeps, Zenon DEF EnvironmentPass

LEMMA ExecPassKeeps ==
    ASSUME TInv, WInv, NEW e \in Execs, ExecPass(e), RecordsFresh(e)
    PROVE  WInv'
<1>1. CASE StopPending(e) \/ FindLost(e)
    <2>1. EnvSame /\ UNCHANGED <<claim, editor, pass, job>>
        BY <1>1 DEF StopPending, FindLost, EnvSame, RevisionStays
    <2>2. ExecWritten(e, "ended", exec[e].alive, exec[e].drafted)
        BY <1>1, PhaseIs, Zenon DEF TInv, Typed, Phases, Terminal, StopPending, FindLost
    <2> QED
        BY <2>1, <2>2, ExecKeeps, Zenon DEF ExecWritten
<1> QED
    BY <1>1, BeginJobKeeps, CreateDraftKeeps, CheckDraftKeeps, RecordKeeps, EnsureEditorKeeps,
       StartProcessKeeps, Zenon DEF ExecPass

Fresh == \A e \in Execs : RecordsFresh(e)

LEMMA NamesStep == TInv /\ WInv /\ [Next]_vars /\ [Fresh]_vars => WInv'
<1> SUFFICES ASSUME TInv, WInv, [Next]_vars, [Fresh]_vars
             PROVE  WInv'
    OBVIOUS
<1>1. CASE UNCHANGED vars
    BY <1>1, QuietKeeps, Zenon DEF vars
<1>2. CASE HomePass
    <2>1. UNCHANGED <<env, claim, editor, exec, pass, job>>
        BY <1>2 DEF HomePass, BeginHoming, Backoff, RetryDue, CreateHome, FindHome, RecordHome,
                    HomeRejected
    <2> QED
        BY <2>1, QuietKeeps
<1>3. ASSUME NEW e \in Execs, ExecPass(e), Fresh
      PROVE  WInv'
    BY <1>3, ExecPassKeeps, Zenon DEF Fresh
<1> QED
    BY <1>1, <1>2, <1>3, UsersKeep, ClusterKeeps, EnvironmentPassKeeps, FailKeeps, Zenon DEF Next

\* No worker ever records the name of a draft that was promoted since it began.
FreshRecords == [][Fresh]_vars

\* As long as every recorded draft is fresh, whatever the number of executions,
\* commits, edits, lost editors and failed passes: current and the draft are
\* named after their revisions, each claim is a clone of the one before it,
\* only claims older than current go away, and the work of the executions is
\* on the draft or, until that is bound, on current.
THEOREM NamesInvariant == Spec /\ FreshRecords => [](TInv /\ WInv)
<1>1. Init => TInv /\ WInv
    BY InitTypes, InitNames
<1>2. TInv /\ WInv /\ [Next]_vars /\ [Fresh]_vars => (TInv /\ WInv)'
    BY TypesStep, NamesStep
<1> QED
    BY <1>1, <1>2, PTL DEF Spec, FreshRecords

LEMMA WorkIsKept == TInv /\ WInv => WorkKept
<1> SUFFICES ASSUME TInv, WInv, NEW e \in Execs, exec[e].drafted
             PROVE  \E n \in {env.current, env.draft} : Live(n) /\ e \in claim[n].holds
    BY DEF WorkKept
<1> USE DEF WInv
<1>1. env.ready /\ env.revision \in Claims /\ env.current = env.revision
    BY NextIs, Zenon DEF WorkFits, TInv, Counted, EnvNames
<1>2. CASE ~DraftBound \/ env.draft = NoClaim
    <2>1. e \in claim[env.revision].holds /\ claim[env.revision].state = "bound"
        BY <1>1, <1>2, Zenon DEF WorkFits, Volumes
    <2> QED
        BY <1>1, <2>1, ClaimNames, Zenon DEF Live
<1>3. CASE DraftBound /\ env.draft # NoClaim
    <2>1. env.draft = NextRevision
        BY <1>3, Zenon DEF EnvNames
    <2>2. e \in claim[env.draft].holds /\ claim[env.draft].state = "bound"
        BY <1>3, <2>1, Zenon DEF WorkFits, DraftBound
    <2> QED
        BY <1>3, <2>2, Zenon DEF Live
<1> QED
    BY <1>2, <1>3

\* No work is lost for any number of executions, unless setEnvironmentDraftStatus
\* records a stale draft: what an execution left on the draft is on a volume
\* that the status still names.
THEOREM WorkKeptFresh == Spec /\ FreshRecords => []WorkKept
BY NamesInvariant, WorkIsKept, PTL

-----------------------------------------------------------------------------
(* What a revision holds stays what it was, and a home is a copy of it.    *)

\* Everything a worker and its process write is about the draft that the
\* status names, or would name next.
WritesFresh(e) ==
    /\ CreateDraft(e) \/ RecordDraft(e) \/ RecordEditor(e) => job[e].draft = DraftName
    /\ ProcessEnds(e) => editor.claim = DraftName

\* Only the next draft and the first current wait for their copy, and what is
\* bound up to current is what was sealed.
SealedFits ==
    /\ sealed[1] = {}
    /\ \A n \in Claims :
          /\ claim[n].state = "pending" => n = NextRevision \/ n = 1
          /\ claim[n].state = "bound" /\ (n <= env.revision \/ n = 1) => claim[n].holds = sealed[n]

\* A home is tagged with the revision it is a copy of, and the Workspace
\* records that tag.
HomesFit ==
    /\ homing.pc = "home" => /\ homing.source \in 1..env.revision
                             /\ ws.source # 0 => homing.revision = ws.source
    /\ homing.pc = "record" => home.state # "absent" /\ homing.revision = home.tag
    /\ home.state # "absent" => /\ home.source = home.tag
                                /\ home.source \in 1..env.revision
                                /\ ws.source \in {0, home.tag}
    /\ home.state = "bound" => home.holds = sealed[home.tag]

HInv == SealedFits /\ HomesFit

\* The claim a home is cloned from is that of the revision it is tagged with.
HomeMatches == CreateHome => homing.source = homing.revision

LEMMA SealedStays ==
    ASSUME SealedFits, RevisionStays, UNCHANGED <<claim, sealed>>
    PROVE  SealedFits'
BY NextSame, Zenon DEF SealedFits, RevisionStays

LEMMA HomesStay ==
    ASSUME HomesFit, RevisionStays, UNCHANGED <<sealed, ws, home, homing>>
    PROVE  HomesFit'
BY Zenon DEF HomesFit, RevisionStays

\* Steps that write no claim.
LEMMA UnwrittenHomes ==
    ASSUME HInv, RevisionStays, UNCHANGED <<claim, sealed, ws, home, homing>>
    PROVE  HInv'
BY SealedStays, HomesStay, Zenon DEF HInv

\* Steps that take claims away.
LEMMA TakenHomes ==
    ASSUME HInv, RevisionStays, UNCHANGED <<sealed, ws, home, homing>>,
           \A n \in Claims : claim'[n] = claim[n] \/ claim'[n].state \in {"absent", "going"}
    PROVE  HInv'
<1>1. SealedFits'
    <2>1. \A n \in Claims : claim'[n].state \in {"pending", "bound"} => claim'[n] = claim[n]
        BY Zenon
    <2> QED
        BY <2>1, NextSame, Zenon DEF HInv, SealedFits, RevisionStays
<1> QED
    BY <1>1, HomesStay, Zenon DEF HInv

\* Steps that ask for a claim: the first current, or the next draft.
LEMMA AskedHomes ==
    ASSUME HInv, RevisionStays, UNCHANGED <<sealed, ws, home, homing>>,
           NEW n \in Claims, NEW s, n = NextRevision \/ n = 1, ClaimWritten(n, "pending", s, {})
    PROVE  HInv'
<1>1. SealedFits'
    <2>1. \A m \in Claims : m # n => claim'[m] = claim[m]
        BY Zenon DEF ClaimWritten
    <2>2. claim'[n].state = "pending"
        BY Zenon DEF ClaimWritten
    <2> QED
        BY <2>1, <2>2, NextSame, Zenon DEF HInv, SealedFits, RevisionStays
<1> QED
    BY <1>1, HomesStay, Zenon DEF HInv

LEMMA ClaimBindsHomes ==
    ASSUME TInv, WInv, HInv, NEW n \in Claims, ClaimBinds(n)
    PROVE  HInv'
<1> USE DEF HInv
<1>1. RevisionStays /\ UNCHANGED <<env, sealed, ws, home, homing>>
    BY DEF ClaimBinds, RevisionStays
<1>2. /\ claim[n].state = "pending"
      /\ ClaimWritten(n, "bound", claim[n].source, Content(claim[n].source))
    BY ClaimBindsIs DEF TInv, Typed
<1>3. n = NextRevision \/ n = 1
    BY <1>2, Zenon DEF SealedFits
<1>4. n = 1 => claim'[n].holds = {}
    <2> SUFFICES ASSUME n = 1
                 PROVE  claim'[n].holds = {}
        OBVIOUS
    <2>1. claim[n].source + 1 = n /\ claim[n].source \in Nat
        BY <1>2, ClaimFields, ClaimNames, Zenon DEF WInv, Volumes, TInv, Typed
    <2>2. claim[n].source = NoClaim
        BY <2>1, ClaimNames, SMT
    <2> QED
        BY <1>2, <2>2, Zenon DEF ClaimWritten, Content
<1>5. n = NextRevision => ~(n <= env.revision)
    BY NextIs, SMT DEF NextRevision
<1>6. \A m \in Claims : m # n => claim'[m] = claim[m]
    BY <1>2, Zenon DEF ClaimWritten
<1>7. claim'[n].state = "bound"
    BY <1>2, Zenon DEF ClaimWritten
<1>8. SealedFits'
    <2>1. \A m \in Claims :
              /\ claim'[m].state = "pending" => m = NextRevision \/ m = 1
              /\ claim'[m].state = "bound" /\ (m <= env.revision \/ m = 1)
                   => claim'[m].holds = sealed[m]
        BY <1>3, <1>4, <1>5, <1>6, <1>7, Zenon DEF SealedFits
    <2> QED
        BY <1>1, <2>1, NextSame, Zenon DEF SealedFits
<1> QED
    BY <1>1, <1>8, HomesStay, Zenon

\* A process writes to the next draft and to no revision.
LEMMA ProcessEndsHomes ==
    ASSUME TInv, WInv, HInv, NEW e \in Execs, ProcessEnds(e), WritesFresh(e)
    PROVE  HInv'
<1> USE DEF HInv
<1>1. RevisionStays /\ UNCHANGED <<env, sealed, ws, home, homing>>
    BY DEF ProcessEnds, RevisionStays
<1>2. editor.exists /\ editor.claim \in Claims
    BY EditorFields, ClaimNames, Zenon DEF TInv, Typed, JobsBegun, ProcessEnds
<1>3. ClaimWritten(editor.claim, claim[editor.claim].state, claim[editor.claim].source,
                   claim[editor.claim].holds \cup {e})
    BY <1>2, ProcessEndsIs DEF TInv, Typed
<1>4. \A m \in Claims : /\ m # editor.claim => claim'[m] = claim[m]
                        /\ claim'[m].state = claim[m].state
    BY <1>3, Zenon DEF ClaimWritten
<1>5. ~(editor.claim <= env.revision) /\ editor.claim # 1
    <2>1. editor.claim = NextRevision /\ env.ready
        BY <1>2, Zenon DEF WritesFresh, DraftName, NextRevision, WInv, EnvNames, EditorNames
    <2>2. env.revision >= 1
        BY <2>1, Zenon DEF TInv, Counted
    <2> QED
        BY <2>1, <2>2, NextIs, SMT DEF NextRevision
<1>6. SealedFits'
    BY <1>1, <1>4, <1>5, NextSame, Zenon DEF SealedFits
<1> QED
    BY <1>1, <1>6, HomesStay, Zenon

\* A commit seals what the draft holds, and no home knows its revision yet.
LEMMA PromoteHomes ==
    ASSUME TInv, WInv, HInv, Promote
    PROVE  HInv'
<1> USE DEF HInv
<1>1. /\ pass.pc = "promote" /\ DraftUsable /\ env' = Promoted
      /\ UNCHANGED <<claim, editor, ws, home, homing>>
      /\ sealed' = [sealed EXCEPT ![env.revision + 1] = claim[pass.draft].holds]
    BY DEF Promote
<1>2. pass.draft = NextRevision
    BY <1>1, Zenon DEF WInv, PassNames, Committing
<1>3. env'.revision = NextRevision /\ env'.current = NextRevision
    BY <1>1, <1>2, PromotedIs, Zenon DEF TInv, Typed, NextRevision
<1>4. NextRevision \in Claims /\ env.revision \in Nat /\ NextRevision \in Nat
    BY NextIs
<1>5. /\ sealed'[NextRevision] = claim[NextRevision].holds
      /\ \A n \in Claims : n # NextRevision => sealed'[n] = sealed[n]
    BY <1>1, <1>2, <1>4, Zenon DEF TInv, Typed, NextRevision
<1>6. claim[NextRevision].state = "bound"
    BY <1>1, <1>2, Zenon DEF DraftUsable
<1>7. \A n \in Nat : n <= NextRevision /\ n # NextRevision => n <= env.revision
    BY <1>4, SMT DEF NextRevision
<1>9. SealedFits'
    <2>1. sealed'[1] = {}
        BY <1>5, <1>6, ClaimNames, Zenon DEF SealedFits
    <2>2. \A n \in Claims : claim[n].state = "pending" => n = 1
        BY <1>6, Zenon DEF SealedFits
    <2>3. \A n \in Claims : claim[n].state = "bound" /\ (n <= NextRevision \/ n = 1)
                              => claim[n].holds = sealed'[n]
        <3> SUFFICES ASSUME NEW n \in Claims, claim[n].state = "bound", n <= NextRevision \/ n = 1
                     PROVE  claim[n].holds = sealed'[n]
            OBVIOUS
        <3>1. CASE n = NextRevision
            BY <1>5, <3>1
        <3>2. CASE n # NextRevision
            BY <1>5, <1>7, <3>2, ClaimNames, Zenon DEF SealedFits
        <3> QED
            BY <3>1, <3>2
    <2> QED
        BY <1>1, <1>3, <2>1, <2>2, <2>3, Zenon DEF SealedFits
<1>10. HomesFit'
    <2>1. \A n : n \in 1..env.revision => n \in 1..NextRevision /\ n # NextRevision /\ n \in Claims
        <3> SUFFICES ASSUME NEW n \in 1..env.revision
                     PROVE  n \in 1..NextRevision /\ n # NextRevision /\ n \in Claims
            OBVIOUS
        <3>1. NextRevision \in 1..(2 + MaxCommits)
            BY <1>4 DEF Claims
        <3>2. n \in Nat /\ n >= 1 /\ n <= env.revision /\ n \in 1..NextRevision /\ n # NextRevision
            BY <1>4, SMT DEF NextRevision
        <3>3. n <= 2 + MaxCommits
            BY <1>4, <3>1, <3>2, EnvironmentsAssumption, SMT
        <3> QED
            BY <3>2, <3>3, ClaimNames
    <2>2. home.state # "absent" => home.tag \in 1..env.revision
        BY Zenon DEF HomesFit
    <2>3. home.state = "bound" => home.holds = sealed'[home.tag]
        BY <1>5, <2>1, <2>2, Zenon DEF HomesFit
    <2> QED
        BY <1>1, <1>3, <2>1, <2>3, Zenon DEF HomesFit
<1> QED
    BY <1>9, <1>10

LEMMA ReportHomes ==
    ASSUME TInv, WInv, HInv, Report
    PROVE  HInv'
<1> USE DEF HInv
<1>1. UNCHANGED <<claim, sealed, editor, ws, home, homing>>
    BY DEF Report
<1>2. pass.revision = env.revision /\ env.revision \in Nat
    BY NextIs, Zenon DEF TInv, PassKnows, Report
<1>3. env'.revision = IF pass.revision = 0 THEN 1 ELSE pass.revision
    BY ReportIs DEF TInv, Typed
<1>4. CASE env.revision = 0
    <2>1. env'.revision = 1 /\ NextRevision = 1 /\ ~env.ready
        BY <1>2, <1>3, <1>4, SMT DEF NextRevision, TInv, Counted
    <2>3. \A n \in Claims : n <= 1 => n = 1
        BY ClaimNames, SMT
    <2>4. SealedFits'
        BY <1>1, <2>1, <2>3, Zenon DEF SealedFits
    <2>5. \A n : n \notin 1..env.revision
        BY <1>4, SMT
    <2>6. HomesFit'
        BY <1>1, <2>5, Zenon DEF HomesFit
    <2> QED
        BY <2>4, <2>6
<1>5. CASE env.revision # 0
    <2>1. env'.revision = env.revision /\ NextRevision' = NextRevision
        BY <1>2, <1>3, <1>5, Zenon DEF NextRevision
    <2> QED
        BY <1>1, <2>1, Zenon DEF SealedFits, HomesFit
<1> QED
    BY <1>4, <1>5

LEMMA CreateDraftHomes ==
    ASSUME TInv, WInv, HInv, NEW e \in Execs, CreateDraft(e), WritesFresh(e)
    PROVE  HInv'
<1>1. RevisionStays /\ UNCHANGED <<sealed, ws, home, homing>>
    BY DEF CreateDraft, RevisionStays
<1>2. job[e].draft = NextRevision
    BY Zenon DEF DraftName, WInv, EnvNames, NextRevision, WritesFresh
<1>3. job[e].draft \in Claims
    BY <1>2, NextIs
<1>4. ClaimWritten(job[e].draft, "pending", job[e].current, {})
    BY <1>3, CreateDraftIs DEF TInv, Typed
<1> QED
    BY <1>1, <1>2, <1>3, <1>4, AskedHomes, Zenon

LEMMA HomePassHomes ==
    ASSUME TInv, WInv, HInv, HomePass \/ HomeBinds, HomeMatches
    PROVE  HInv'
<1> USE DEF HInv
<1>1. RevisionStays /\ UNCHANGED <<env, claim, sealed>>
    BY DEF HomePass, HomeBinds, BeginHoming, Backoff, RetryDue, CreateHome, FindHome, RecordHome,
           HomeRejected, RevisionStays
<1>2. SealedFits'
    BY <1>1, SealedStays, Zenon
<1>3. env \in EnvSet /\ ws \in WsSet /\ home \in HomeSet /\ homing \in HomingSet
      /\ claim \in [Claims -> ClaimSet]
    BY DEF TInv, Typed
<1>4. CASE BeginHoming
    <2>1. /\ homing'.pc = "home" /\ homing'.source = env.current
          /\ homing'.revision = IF ws.source = 0 THEN env.revision ELSE ws.source
          /\ UNCHANGED <<ws, home>> /\ env.ready
        BY <1>3, <1>4, BeginHomingIs
    <2>2. env.current \in 1..env.revision
        BY <2>1, NextIs, SMT DEF WInv, EnvNames, TInv, Counted
    <2>3. HomesFit'
        BY <1>1, <2>1, <2>2, Zenon DEF HomesFit
    <2> QED
        BY <1>2, <2>3
<1>5. CASE Backoff
    <2>1. homing'.pc = "idle" /\ UNCHANGED <<ws, home>>
        BY <1>5, NoHomingIs DEF Backoff
    <2> QED
        BY <1>1, <1>2, <2>1, Zenon DEF HomesFit
<1>6. CASE RetryDue
    <2>1. ws'.source = ws.source /\ UNCHANGED <<home, homing>>
        BY <1>3, <1>6, RetryDueIs
    <2> QED
        BY <1>1, <1>2, <2>1, Zenon DEF HomesFit
<1>7. CASE CreateHome
    <2>1. /\ home'.state = "pending" /\ home'.source = homing.source
          /\ home'.tag = homing.revision /\ homing'.pc = "record"
          /\ homing'.revision = homing.revision /\ UNCHANGED ws /\ homing.pc = "home"
        BY <1>3, <1>7, CreateHomeIs
    <2>2. homing.source = homing.revision /\ homing.source \in 1..env.revision
        BY <1>7, <2>1, Zenon DEF HomeMatches, HomesFit
    <2>3. HomesFit'
        BY <1>1, <2>1, <2>2, Zenon DEF HomesFit
    <2> QED
        BY <1>2, <2>3
<1>8. CASE FindHome
    <2>1. /\ homing'.pc = "record" /\ UNCHANGED <<ws, home>>
          /\ homing'.revision = IF ws.source = 0 THEN home.tag ELSE homing.revision
          /\ homing.pc = "home" /\ home.state # "absent"
        BY <1>3, <1>8, FindHomeIs
    <2>2. homing'.revision = home.tag
        BY <2>1, Zenon DEF HomesFit
    <2>3. HomesFit'
        BY <1>1, <2>1, <2>2, Zenon DEF HomesFit
    <2> QED
        BY <1>2, <2>3
<1>9. CASE RecordHome
    <2>1. /\ ws'.source = IF ws.source = 0 THEN homing.revision ELSE ws.source
          /\ homing'.pc = "idle" /\ UNCHANGED home /\ homing.pc = "record"
        BY <1>3, <1>9, RecordHomeIs, NoHomingIs
    <2>2. ws'.source \in {0, home.tag}
        BY <2>1, Zenon DEF HomesFit
    <2>3. HomesFit'
        BY <1>1, <2>1, <2>2, Zenon DEF HomesFit
    <2> QED
        BY <1>2, <2>3
<1>10. CASE HomeRejected
    <2>1. homing'.pc = "idle" /\ UNCHANGED home /\ home.state = "absent"
        BY <1>3, <1>10, HomeRejectedIs, NoHomingIs
    <2> QED
        BY <1>1, <1>2, <2>1, Zenon DEF HomesFit
<1>11. CASE HomeBinds
    <2>1. /\ home'.source = home.source /\ home'.tag = home.tag /\ home'.state = "bound"
          /\ home'.holds = Content(home.source) /\ Whole(home.source)
          /\ UNCHANGED <<ws, homing>> /\ home.state = "pending"
        BY <1>3, <1>11, HomeBindsIs
    <2>2. home.source = home.tag /\ home.source \in 1..env.revision
        BY <2>1, Zenon DEF HomesFit
    <2>3. home.source \in Claims /\ home.source # NoClaim /\ home.source <= env.revision
        BY <1>3, <2>2, HomeFields, ClaimNames, NextIs, SMT DEF TInv, Names
    <2>4. home'.holds = sealed[home.tag]
        BY <2>1, <2>2, <2>3, Zenon DEF Whole, Content, SealedFits
    <2>5. HomesFit'
        BY <1>1, <2>1, <2>2, <2>4, Zenon DEF HomesFit
    <2> QED
        BY <1>2, <2>5
<1> QED
    BY <1>4, <1>5, <1>6, <1>7, <1>8, <1>9, <1>10, <1>11 DEF HomePass


LEMMA InitHomes == Init => HInv
<1> SUFFICES ASSUME Init
             PROVE  HInv
    OBVIOUS
<1>1. /\ sealed = [n \in Claims |-> {}] /\ homing = NoHoming
      /\ home.state = "absent"
    BY DEF Init
<1>2. \A n \in Claims : claim[n] = NewClaim
    BY Zenon DEF Init
<1>3. SealedFits
    BY <1>1, <1>2, NewClaimIs, ClaimNames, Zenon DEF SealedFits
<1>4. HomesFit
    BY <1>1, NoHomingIs, Zenon DEF HomesFit
<1> QED
    BY <1>3, <1>4 DEF HInv

\* The steps of the users, the cluster and the Environment controller.
LEMMA OthersHomes ==
    ASSUME TInv, WInv, HInv, Users \/ Cluster \/ EnvironmentPass,
           \A e \in Execs : WritesFresh(e), HomeMatches
    PROVE  HInv'
<1>1. CASE Users
    <2>1. CASE RequestCommit
        <3>1. RevisionStays
            BY <2>1, RequestCommitIs DEF TInv, Typed
        <3> QED
            BY <2>1, <3>1, UnwrittenHomes DEF RequestCommit
    <2>2. CASE EditSpec
        <3>1. RevisionStays
            BY <2>2, EditSpecIs DEF TInv, Typed
        <3> QED
            BY <2>2, <3>1, UnwrittenHomes DEF EditSpec
    <2>3. ASSUME NEW e \in Execs, Create(e) \/ AskToStop(e)
          PROVE  HInv'
        BY <2>3, UnwrittenHomes DEF Create, AskToStop, RevisionStays
    <2> QED
        BY <1>1, <2>1, <2>2, <2>3 DEF Users
<1>2. CASE LoseEditor \/ EditorReady
    BY <1>2, UnwrittenHomes DEF LoseEditor, EditorReady, RevisionStays
<1>3. CASE EditorGone
    <2>1. \A n \in Claims : claim'[n] = claim[n] \/ claim'[n].state \in {"absent", "going"}
        BY <1>3, NewClaimIs, Zenon DEF EditorGone
    <2> QED
        BY <1>3, <2>1, TakenHomes DEF EditorGone, RevisionStays
<1>4. CASE Cluster
    BY <1>2, <1>3, <1>4, HomePassHomes, ClaimBindsHomes, ProcessEndsHomes, Zenon DEF Cluster
<1>5. CASE BeginPass \/ CheckCommit \/ StopEditor \/ PromoteLost \/ CheckEditor \/ CheckReplace
           \/ CheckIdle \/ EvictEditor \/ FindCurrent
    <2>1. UNCHANGED <<env, claim, sealed, ws, home, homing>>
        BY <1>5 DEF BeginPass, CheckCommit, StopEditor, PromoteLost, CheckEditor, CheckReplace,
                    CheckIdle, EvictEditor, FindCurrent
    <2> QED
        BY <2>1, UnwrittenHomes DEF RevisionStays
<1>6. CASE ClearEditor
    <2>1. RevisionStays
        BY <1>6, ClearEditorIs DEF TInv, Typed
    <2> QED
        BY <1>6, <2>1, UnwrittenHomes DEF ClearEditor
<1>7. CASE DeleteOld
    <2>1. \A n \in Claims : claim'[n] = claim[n] \/ claim'[n].state \in {"absent", "going"}
        BY <1>7, DeleteOldIs, Zenon DEF TInv, Typed
    <2> QED
        BY <1>7, <2>1, TakenHomes DEF DeleteOld, RevisionStays
<1>8. CASE CreateCurrent
    <2>1. Named = 1 /\ 1 \in Claims
        BY <1>8, ClaimNames, Zenon DEF CreateCurrent, Named
    <2>2. ClaimWritten(1, "pending", NoClaim, {})
        BY <1>8, <2>1, CreateCurrentIs DEF TInv, Typed
    <2> QED
        BY <1>8, <2>1, <2>2, AskedHomes DEF CreateCurrent, RevisionStays
<1> QED
    BY <1>1, <1>4, <1>5, <1>6, <1>7, <1>8, PromoteHomes, ReportHomes, Zenon DEF EnvironmentPass

LEMMA WorkersHomes ==
    ASSUME TInv, WInv, HInv, NEW e \in Execs, ExecPass(e), WritesFresh(e)
    PROVE  HInv'
<1>1. CASE BeginJob(e) \/ StopPending(e) \/ CheckDraft(e) \/ EnsureEditor(e) \/ StartProcess(e)
           \/ FindLost(e)
    <2>1. UNCHANGED <<env, claim, sealed, ws, home, homing>>
        BY <1>1 DEF BeginJob, StopPending, CheckDraft, EnsureEditor, StartProcess, FindLost
    <2> QED
        BY <2>1, UnwrittenHomes DEF RevisionStays
<1>2. CASE RecordDraft(e) \/ RecordEditor(e)
    <2>1. RevisionStays
        BY <1>2, RecordDraftIs, RecordEditorIs, Zenon DEF TInv, Typed
    <2>2. UNCHANGED <<claim, sealed, ws, home, homing>>
        BY <1>2 DEF RecordDraft, RecordEditor
    <2> QED
        BY <2>1, <2>2, UnwrittenHomes
<1> QED
    BY <1>1, <1>2, CreateDraftHomes, Zenon DEF ExecPass

LEMMA FailHomes ==
    ASSUME HInv, Fail
    PROVE  HInv'
<1>1. UNCHANGED <<env, claim, sealed, ws, home>> /\ (homing' = NoHoming \/ homing' = homing)
    BY DEF Fail
<1>2. CASE homing' = homing
    BY <1>1, <1>2, UnwrittenHomes DEF RevisionStays
<1>3. CASE homing' = NoHoming
    <2>1. HomesFit'
        BY <1>1, <1>3, NoHomingIs, Zenon DEF HInv, HomesFit
    <2> QED
        BY <1>1, <2>1, SealedStays DEF HInv, RevisionStays
<1> QED
    BY <1>1, <1>2, <1>3

WritesAllFresh == \A e \in Execs : WritesFresh(e)

LEMMA HomesStep ==
    TInv /\ WInv /\ HInv /\ [Next]_vars /\ [WritesAllFresh]_vars /\ [HomeMatches]_vars => HInv'
<1> SUFFICES ASSUME TInv, WInv, HInv, [Next]_vars, [WritesAllFresh]_vars, [HomeMatches]_vars
             PROVE  HInv'
    OBVIOUS
<1>1. CASE UNCHANGED vars
    BY <1>1, UnwrittenHomes DEF vars, RevisionStays
<1>2. CASE Next /\ WritesAllFresh /\ HomeMatches
    BY <1>2, OthersHomes, WorkersHomes, HomePassHomes, FailHomes, Zenon DEF Next, WritesAllFresh
<1> QED
    BY <1>1, <1>2

LEMMA HomeIsTagged == HInv => HomeIsRevision
BY Zenon DEF HInv, HomesFit, HomeIsRevision

LEMMA WritesAreRecords == [WritesAllFresh]_vars => [Fresh]_vars
BY Zenon DEF WritesAllFresh, WritesFresh, Fresh, RecordsFresh

FreshWrites == [][WritesAllFresh]_vars
HomesMatch == [][HomeMatches]_vars

\* A Workspace's home holds what the revision it records held when it was
\* committed, for any number of executions and commits, as long as workers and
\* processes write to the draft that the status is about and resolveWorkspaceBase
\* pairs a recorded revision with the claim of that revision.
THEOREM HomeIsRevisionFresh == Spec /\ FreshWrites /\ HomesMatch => []HomeIsRevision
<1>1. Init => TInv /\ WInv /\ HInv
    BY InitTypes, InitNames, InitHomes
<1>2. TInv /\ WInv /\ HInv /\ [Next]_vars /\ [WritesAllFresh]_vars /\ [HomeMatches]_vars
        => (TInv /\ WInv /\ HInv)'
    BY TypesStep, NamesStep, HomesStep, WritesAreRecords
<1> QED
    BY <1>1, <1>2, HomeIsTagged, PTL DEF Spec, FreshWrites, HomesMatch

-----------------------------------------------------------------------------
(* Executions around commits, for every load.                              *)

Started == \E e \in Execs : exec[e].phase # "none"
Done == \E e \in Execs : exec[e].phase \in Terminal

\* Only a pending execution has a worker, a draft is the doing of some
\* execution, and a commit that stops or promotes has seen one finished.
Begun ==
    /\ \A e \in Execs : exec[e].phase # "none" => e \in load.execs
    /\ \A e \in Execs : ~At(e, "idle") => exec[e].phase = "pending"
    /\ env.draft # NoClaim \/ pass.pc = "commit" => Started
    /\ pass.pc \in {"stopping", "promote"} => Done

LEMMA LoadSame == [Next]_vars => load' = load
<1> SUFFICES ASSUME [Next]_vars
             PROVE  load' = load
    OBVIOUS
<1>1. CASE Users
    BY <1>1 DEF Users, RequestCommit, EditSpec, Create, AskToStop
<1>2. CASE Cluster
    BY <1>2 DEF Cluster, LoseEditor, EditorReady, EditorGone, HomeBinds, ClaimBinds, ProcessEnds
<1>3. CASE EnvironmentPass
    BY <1>3 DEF EnvironmentPass, BeginPass, CheckCommit, StopEditor, PromoteLost, Promote, DeleteOld,
                CheckEditor, ClearEditor, CheckReplace, CheckIdle, EvictEditor, CreateCurrent,
                FindCurrent, Report
<1>4. CASE HomePass \/ Fail
    BY <1>4 DEF HomePass, BeginHoming, Backoff, RetryDue, CreateHome, FindHome, RecordHome,
                HomeRejected, Fail
<1>5. ASSUME NEW e \in Execs, ExecPass(e)
      PROVE  load' = load
    BY <1>5 DEF ExecPass, BeginJob, StopPending, CreateDraft, CheckDraft, RecordDraft, EnsureEditor,
                RecordEditor, StartProcess, FindLost
<1>6. CASE UNCHANGED vars
    BY <1>6 DEF vars
<1> QED
    BY <1>1, <1>2, <1>3, <1>4, <1>5, <1>6 DEF Next

\* What moves no execution.
PhasesStay == \A e \in Execs : exec'[e].phase = exec[e].phase
WorkersStay == \A e \in Execs : job'[e].pc # "idle" => job[e].pc # "idle"

\* How a pass gets to a commit and through it.
CommitMoves ==
    /\ pass'.pc = "commit" => pass.pc = "commit" \/ env.draft # NoClaim
    /\ pass'.pc \in {"stopping", "promote"} =>
          pass.pc \in {"stopping", "promote"} \/ (pass.pc = "commit" /\ ~Active)

LEMMA BegunStays ==
    ASSUME TInv, Begun, load' = load, PhasesStay, WorkersStay, CommitMoves,
           env'.draft # NoClaim => env.draft # NoClaim
    PROVE  Begun'
<1>1. (Started' <=> Started) /\ (Done' <=> Done)
    BY Zenon DEF Started, Done, PhasesStay
<1>2. Started /\ ~Active => Done
    BY ExecFields, Zenon DEF Started, Done, Active, TInv, Typed, Phases
<1>3. \A e \in Execs : exec'[e].phase # "none" => e \in load'.execs
    BY Zenon DEF Begun, PhasesStay
<1>4. \A e \in Execs : ~(job'[e].pc = "idle") => exec'[e].phase = "pending"
    BY Zenon DEF Begun, PhasesStay, WorkersStay, At
<1>5. env'.draft # NoClaim \/ pass'.pc = "commit" => Started'
    BY <1>1, Zenon DEF Begun, CommitMoves
<1>6. pass'.pc \in {"stopping", "promote"} => Done'
    BY <1>1, <1>2, Zenon DEF Begun, CommitMoves
<1> QED
    BY <1>3, <1>4, <1>5, <1>6, Zenon DEF Begun, At

\* One execution moves on, and with it, or before it, its worker.
LEMMA BegunMoves ==
    ASSUME Begun, load' = load, UNCHANGED <<env, pass>>, WorkersStay, NEW e \in Execs, NEW p,
           e \in load.execs, exec'[e].phase = p, p # "none", exec[e].phase \notin Terminal,
           p = "pending" \/ job'[e].pc = "idle",
           \A f \in Execs \ {e} : exec'[f] = exec[f]
    PROVE  Begun'
<1>1. \A f \in Execs : f # e => exec'[f].phase = exec[f].phase
    BY Zenon
<1>2. (Started => Started') /\ (Done => Done')
    BY <1>1, Zenon DEF Started, Done
<1>3. \A f \in Execs : exec'[f].phase # "none" => f \in load'.execs
    BY <1>1, Zenon DEF Begun
<1>4. \A f \in Execs : ~(job'[f].pc = "idle") => exec'[f].phase = "pending"
    BY <1>1, Zenon DEF Begun, WorkersStay, At
<1> QED
    BY <1>2, <1>3, <1>4, Zenon DEF Begun, At

LEMMA PassCommits ==
    ASSUME TInv, EnvironmentPass
    PROVE  CommitMoves
<1>1. pass \in PassSet
    BY DEF TInv, Typed
<1>2. CASE BeginPass
    <2>1. /\ pass'.pc \in {"commit", "editor", "current"}
          /\ pass'.pc = "commit" => env.draft # NoClaim
        BY <1>2, BeginPassIs, Zenon DEF TInv, Typed
    <2> QED
        BY <2>1, Zenon DEF CommitMoves
<1>3. CASE EndPass
    <2>1. pass'.pc = "idle"
        BY <1>3, EndPassIs DEF PassRests
    <2> QED
        BY <2>1, Zenon DEF CommitMoves
<1>4. ASSUME NEW pc \in PassSteps, Step(pc), pc # "commit",
             pc \in {"stopping", "promote"} => pass.pc \in {"stopping", "promote"}
                                                \/ (pass.pc = "commit" /\ ~Active)
      PROVE  CommitMoves
    <2>1. pass'.pc = pc
        BY <1>1, <1>4, StepIs DEF PassGoes
    <2> QED
        BY <1>4, <2>1, Zenon DEF CommitMoves
<1>5. CASE CheckCommit \/ StopEditor
    <2>1. \/ EndPass
          \/ Step("promote") /\ (pass.pc = "stopping" \/ (pass.pc = "commit" /\ ~Active))
          \/ Step("stopping") /\ pass.pc = "commit" /\ ~Active
        BY <1>5 DEF CheckCommit, StopEditor
    <2> QED
        BY <1>3, <1>4, <2>1, Zenon DEF PassSteps
<1>6. CASE PromoteLost \/ DeleteOld \/ ClearEditor \/ EvictEditor \/ Report
    BY <1>3, <1>6 DEF PromoteLost, DeleteOld, ClearEditor, EvictEditor, Report
<1>7. CASE Promote \/ CheckEditor \/ CheckReplace \/ CheckIdle \/ CreateCurrent \/ FindCurrent
    <2>1. EndPass \/ \E pc \in {"delete", "clear", "replace", "idling", "evict", "current", "report"} :
                        Step(pc)
        BY <1>7 DEF Promote, CheckEditor, CheckReplace, CheckIdle, CreateCurrent, FindCurrent
    <2> QED
        BY <1>3, <1>4, <2>1, Zenon DEF PassSteps
<1> QED
    BY <1>2, <1>5, <1>6, <1>7 DEF EnvironmentPass

\* No pass of the Environment controller adds a draft.
LEMMA PassDrafts ==
    ASSUME TInv, EnvironmentPass
    PROVE  /\ env'.draft # NoClaim => env'.draft = env.draft
           /\ UNCHANGED <<exec, job>>
<1>1. UNCHANGED <<exec, job>>
    BY DEF EnvironmentPass, BeginPass, CheckCommit, StopEditor, PromoteLost, Promote, DeleteOld,
           CheckEditor, ClearEditor, CheckReplace, CheckIdle, EvictEditor, CreateCurrent,
           FindCurrent, Report
<1>2. CASE Promote
    BY <1>1, <1>2, PromotedIs, Zenon DEF TInv, Typed, Promote
<1>3. CASE ClearEditor \/ Report
    BY <1>1, <1>3, ClearEditorIs, ReportIs, Zenon DEF TInv, Typed
<1>4. CASE UNCHANGED env
    BY <1>1, <1>4
<1> QED
    BY <1>2, <1>3, <1>4 DEF EnvironmentPass, BeginPass, CheckCommit, StopEditor, PromoteLost,
           DeleteOld, CheckEditor, CheckReplace, CheckIdle, EvictEditor, CreateCurrent, FindCurrent

LEMMA BegunStep == TInv /\ Begun /\ [Next]_vars => Begun'
<1> SUFFICES ASSUME TInv, Begun, [Next]_vars
             PROVE  Begun'
    OBVIOUS
<1>1. load' = load
    BY LoadSame
<1>2. UNCHANGED pass => CommitMoves
    BY Zenon DEF CommitMoves
<1>3. UNCHANGED job => WorkersStay
    BY Zenon DEF WorkersStay
<1>4. UNCHANGED exec => PhasesStay
    BY Zenon DEF PhasesStay
<1>5. UNCHANGED <<env, exec, pass, job>> => Begun'
    BY <1>1, <1>2, <1>3, <1>4, BegunStays, Zenon
<1>6. CASE EnvironmentPass
    BY <1>1, <1>3, <1>4, <1>6, PassCommits, PassDrafts, BegunStays, Zenon
<1>7. CASE RequestCommit \/ EditSpec
    <2>1. env'.draft = env.draft
        BY <1>7, RequestCommitIs, EditSpecIs, Zenon DEF TInv, Typed
    <2>2. UNCHANGED <<exec, pass, job>>
        BY <1>7 DEF RequestCommit, EditSpec
    <2> QED
        BY <1>1, <1>2, <1>3, <1>4, <2>1, <2>2, BegunStays, Zenon
<1>8. ASSUME NEW e \in Execs, Create(e)
      PROVE  Begun'
    <2>1. /\ e \in load.execs /\ exec[e].phase = "none" /\ UNCHANGED <<env, pass, job>>
          /\ exec' = [exec EXCEPT ![e].phase = "pending"]
        BY <1>8 DEF Create
    <2>2. ExecWritten(e, "pending", exec[e].alive, exec[e].drafted)
        BY <2>1, PhaseIs, Zenon DEF TInv, Typed, Phases
    <2> QED
        BY <1>1, <1>3, <2>1, <2>2, BegunMoves, Zenon DEF ExecWritten, Terminal
<1>9. ASSUME NEW e \in Execs, AskToStop(e)
      PROVE  Begun'
    <2>1. PhasesStay
        BY <1>9, AskToStopIs, Zenon DEF TInv, Typed, ExecWritten, PhasesStay
    <2> QED
        BY <1>1, <1>2, <1>3, <1>9, <2>1, BegunStays, Zenon DEF AskToStop
<1>10. CASE EditorGone
    <2>1. PhasesStay
        BY <1>10, EditorGoneIs, Zenon DEF TInv, Typed, PhasesStay
    <2> QED
        BY <1>1, <1>2, <1>3, <1>10, <2>1, BegunStays, Zenon DEF EditorGone
<1>11. ASSUME NEW e \in Execs, ProcessEnds(e)
       PROVE  Begun'
    <2>1. exec[e].phase = "running" /\ UNCHANGED <<env, pass, job>>
        BY <1>11 DEF ProcessEnds
    <2>2. ExecWritten(e, "succeeded", FALSE, editor.claim = env.draft)
        BY <1>11, EndedIs DEF TInv, Typed
    <2>3. e \in load.execs /\ job[e].pc = "idle"
        BY <2>1, Zenon DEF Begun, At
    <2> QED
        BY <1>1, <1>3, <2>1, <2>2, <2>3, BegunMoves, Zenon DEF ExecWritten, Terminal
<1>12. CASE LoseEditor \/ EditorReady \/ HomeBinds \/ \E n \in Claims : ClaimBinds(n)
    BY <1>5, <1>12 DEF LoseEditor, EditorReady, HomeBinds, ClaimBinds
<1>13. CASE HomePass
    BY <1>5, <1>13 DEF HomePass, BeginHoming, Backoff, RetryDue, CreateHome, FindHome, RecordHome,
                       HomeRejected
<1>14. CASE Fail
    <2>1. UNCHANGED <<env, exec>>
        BY <1>14 DEF Fail
    <2>2. CASE pass' = Rest /\ UNCHANGED job
        <3>1. CommitMoves
            BY <2>2, RestIs, Zenon DEF CommitMoves
        <3> QED
            BY <1>1, <1>3, <1>4, <2>1, <2>2, <3>1, BegunStays, Zenon
    <2>3. CASE UNCHANGED <<pass, job>>
        BY <1>5, <2>1, <2>3
    <2>4. ASSUME NEW e \in Execs, EndJob(e), UNCHANGED pass
          PROVE  Begun'
        <3>1. WorkersStay
            BY <2>4, EndJobIs, Zenon DEF TInv, Typed, JobEnds, WorkersStay
        <3> QED
            BY <1>1, <1>2, <1>4, <2>1, <2>4, <3>1, BegunStays, Zenon
    <2> QED
        BY <1>14, <2>2, <2>3, <2>4 DEF Fail
<1>15. ASSUME NEW e \in Execs, ExecPass(e)
       PROVE  Begun'
    <2>1. CASE BeginJob(e)
        <3>1. DraftName \in Names
            BY <2>1, NextName, ClaimNames, Zenon DEF TInv, BeginJob
        <3>2. exec[e].phase = "pending" /\ \A f \in Execs \ {e} : job'[f] = job[f]
            BY <2>1, <3>1, BeginJobIs, Zenon DEF TInv, Typed
        <3>3. \A f \in Execs : ~(job'[f].pc = "idle") => exec[f].phase = "pending"
            BY <3>2, Zenon DEF Begun, At
        <3> QED
            BY <1>1, <2>1, <3>3, Zenon DEF Begun, At, BeginJob, Started, Done
    <2>2. CASE StopPending(e) \/ FindLost(e)
        <3>1. /\ exec[e].phase \in {"pending", "running"} /\ UNCHANGED <<env, pass, job>>
              /\ exec' = [exec EXCEPT ![e].phase = "ended"]
            BY <2>2 DEF StopPending, FindLost
        <3>2. ExecWritten(e, "ended", exec[e].alive, exec[e].drafted)
            BY <3>1, PhaseIs, Zenon DEF TInv, Typed, Phases, Terminal
        <3>3. e \in load.execs
            BY <3>1, Zenon DEF Begun
        <3>4. job[e].pc = "idle"
            BY <2>2, Zenon DEF Begun, At, StopPending, FindLost
        <3> QED
            BY <1>1, <1>3, <3>1, <3>2, <3>3, <3>4, BegunMoves, Zenon DEF ExecWritten, Terminal
    <2>3. CASE CreateDraft(e) \/ CheckDraft(e) \/ EnsureEditor(e)
        <3>1. WorkersStay
            <4>1. ~At(e, "idle") /\ \A f \in Execs \ {e} : job'[f] = job[f]
                BY <2>3, GoToIs, CheckDraftIs, EnsureEditorIs, Zenon
                   DEF TInv, Typed, CreateDraft, At, JobSteps, JobGoes, JobEnds
            <4> QED
                BY <4>1, Zenon DEF WorkersStay, At
        <3>2. UNCHANGED <<env, exec, pass>>
            BY <2>3 DEF CreateDraft, CheckDraft, EnsureEditor
        <3> QED
            BY <1>1, <1>2, <1>4, <3>1, <3>2, BegunStays, Zenon
    <2>4. CASE RecordDraft(e) \/ RecordEditor(e)
        <3>1. ~At(e, "idle") /\ UNCHANGED <<exec, pass>>
            BY <2>4 DEF RecordDraft, RecordEditor, At
        <3>2. \A f \in Execs \ {e} : job'[f] = job[f]
            BY <2>4, EndJobIs, RecordedIs, Zenon DEF TInv, Typed, RecordDraft, JobEnds, JobGoes
        <3>3. \A f \in Execs : ~(job'[f].pc = "idle") => exec[f].phase = "pending"
            BY <3>1, <3>2, Zenon DEF Begun, At
        <3>4. Started
            BY <3>1, Zenon DEF Begun, Started
        <3> QED
            BY <1>1, <3>1, <3>3, <3>4, Zenon DEF Begun, At, Started, Done
    <2>5. CASE StartProcess(e)
        <3>1. /\ At(e, "start") /\ JobEnds(e) /\ UNCHANGED <<env, pass>>
              /\ \/ ExecWritten(e, "ended", exec[e].alive, exec[e].drafted)
                 \/ ExecWritten(e, "running", TRUE, exec[e].drafted)
            BY <2>5, StartProcessIs, Zenon DEF TInv, Typed, StartProcess
        <3>2. WorkersStay /\ job'[e].pc = "idle"
            BY <3>1, Zenon DEF WorkersStay, JobEnds, At
        <3>3. exec[e].phase = "pending" /\ e \in load.execs
            BY <3>1, Zenon DEF Begun, At
        <3>4. CASE ExecWritten(e, "ended", exec[e].alive, exec[e].drafted)
            BY <1>1, <3>1, <3>2, <3>3, <3>4, BegunMoves, Zenon DEF ExecWritten, Terminal
        <3>5. CASE ExecWritten(e, "running", TRUE, exec[e].drafted)
            BY <1>1, <3>1, <3>2, <3>3, <3>5, BegunMoves, Zenon DEF ExecWritten, Terminal
        <3> QED
            BY <3>1, <3>4, <3>5
    <2> QED
        BY <1>15, <2>1, <2>2, <2>3, <2>4, <2>5 DEF ExecPass
<1>16. CASE UNCHANGED vars
    BY <1>5, <1>16 DEF vars
<1> QED
    BY <1>6, <1>7, <1>8, <1>9, <1>10, <1>11, <1>12, <1>13, <1>14, <1>15, <1>16, Zenon
       DEF Next, Users, Cluster

LEMMA InitBegun == Init => Begun
<1> SUFFICES ASSUME Init
             PROVE  Begun
    OBVIOUS
<1>1. \A e \in Execs : exec[e] = NewExec /\ job[e] = NoJob
    BY Zenon DEF Init
<1>2. NewExec.phase = "none" /\ NoJob.pc = "idle"
    BY DEF NewExec, NoJob
<1>3. pass = Rest /\ env.draft = NoClaim
    BY DEF Init
<1> QED
    BY <1>1, <1>2, <1>3, RestIs, Zenon DEF Begun, At

-----------------------------------------------------------------------------
(* A worker that a commit overtook.                                        *)

\* It still has the name of a draft that has been promoted since.
Stale(e) == ~At(e, "idle") /\ job[e].draft # NextRevision

\* With two executions the other one had finished before the commit, so
\* nothing has been drafted since and no commit can follow.
Overtaken ==
    \A e \in Execs : Stale(e) =>
        /\ job[e].draft = env.revision
        /\ env.draft = NoClaim /\ pass.pc \notin Committing
        /\ \A f \in load.execs \ {e} : exec[f].phase \in Terminal

Two == \A e, f, g \in load.execs : e = f \/ f = g \/ e = g

FinishedStay == \A e \in Execs : exec[e].phase \in Terminal => exec'[e].phase \in Terminal
DraftsStay ==
    \A e \in Execs : \/ job'[e].pc = "idle" \/ job'[e].draft = NextRevision
                     \/ job[e].pc # "idle" /\ job'[e].draft = job[e].draft

LEMMA OvertakenStays ==
    ASSUME TInv, Overtaken, load' = load, env'.revision = env.revision, env'.draft = env.draft,
           pass'.pc \in Committing => pass.pc \in Committing \/ env.draft # NoClaim,
           FinishedStay, DraftsStay
    PROVE  Overtaken'
<1>1. NextRevision' = NextRevision
    BY DEF NextRevision
<1>2. \A e \in Execs : Stale(e)' => Stale(e) /\ job'[e].draft = job[e].draft
    BY <1>1, Zenon DEF Stale, At, DraftsStay
<1>3. load.execs \subseteq Execs
    BY LoadFields DEF TInv, Typed
<1>4. ASSUME NEW e \in Execs, Stale(e)'
      PROVE  /\ job'[e].draft = env'.revision
             /\ env'.draft = NoClaim /\ pass'.pc \notin Committing
             /\ \A f \in load'.execs \ {e} : exec'[f].phase \in Terminal
    BY <1>2, <1>3, <1>4, Zenon DEF Overtaken, FinishedStay
<1> QED
    BY <1>4, Zenon DEF Overtaken

LEMMA NoneOvertaken ==
    ASSUME \A e \in Execs : ~Stale(e)'
    PROVE  Overtaken'
BY Zenon DEF Overtaken

\* At a commit some execution has finished; the worker of another is overtaken.
LEMMA PromoteOvertakes ==
    ASSUME TInv, WInv, Begun, Overtaken, Two, Promote
    PROVE  Overtaken'
<1>1. pass.pc = "promote" /\ env' = Promoted /\ UNCHANGED <<load, exec, job>>
    BY DEF Promote
<1>2. env'.revision = NextRevision /\ env'.draft = NoClaim
    BY <1>1, PromotedIs, Zenon DEF TInv, Typed, NextRevision
<1>3. pass'.pc \notin Committing
    <2>1. pass'.pc = "delete"
        BY StepIs, Zenon DEF TInv, Typed, Promote, PassSteps, PassGoes
    <2> QED
        BY <2>1, Zenon DEF Committing
<1>4. PICK d \in Execs : exec[d].phase \in Terminal
    BY <1>1, Zenon DEF Begun, Done
<1>5. \A e \in Execs : ~At(e, "idle") => job[e].draft = NextRevision
    BY <1>1, Zenon DEF Overtaken, Stale, Committing
<1>6. ASSUME NEW e \in Execs, ~At(e, "idle"), NEW f \in load.execs \ {e}
      PROVE  exec[f].phase \in Terminal
    <2>1. exec[e].phase = "pending" /\ e \in load.execs /\ d \in load.execs /\ e # d
        BY <1>4, <1>6, Zenon DEF Begun, Terminal
    <2>2. f = d
        BY <1>6, <2>1, Zenon DEF Two
    <2> QED
        BY <1>4, <2>2
<1>7. ASSUME NEW e \in Execs, Stale(e)'
      PROVE  /\ job'[e].draft = env'.revision
             /\ \A f \in load'.execs \ {e} : exec'[f].phase \in Terminal
    BY <1>1, <1>2, <1>5, <1>6, <1>7, Zenon DEF Stale, At
<1> QED
    BY <1>2, <1>3, <1>7, Zenon DEF Overtaken

LEMMA ReportOvertaken ==
    ASSUME TInv, WInv, Overtaken, Report
    PROVE  Overtaken'
<1>1. UNCHANGED <<load, exec, job>>
    BY DEF Report
<1>2. pass.revision = env.revision /\ env.revision \in Nat
    BY NextIs, Zenon DEF TInv, PassKnows, Report
<1>3. /\ env'.revision = IF pass.revision = 0 THEN 1 ELSE pass.revision
      /\ env'.draft = env.draft
    BY ReportIs DEF TInv, Typed
<1>4. CASE env.revision = 0
    <2>1. ~env.ready
        BY <1>4, SMT DEF TInv, Counted
    <2>2. \A e \in Execs : job[e].pc = "idle"
        BY <2>1, Zenon DEF WInv, JobNames, At
    <2> QED
        BY <1>1, <2>2, NoneOvertaken, Zenon DEF Stale, At
<1>5. CASE env.revision # 0
    <2>1. env'.revision = env.revision
        BY <1>2, <1>3, <1>5
    <2>2. FinishedStay /\ DraftsStay
        BY <1>1, Zenon DEF FinishedStay, DraftsStay
    <2>3. pass'.pc \notin Committing
        BY EndPassIs, Zenon DEF Report, PassRests, Committing
    <2> QED
        BY <1>1, <1>3, <2>1, <2>2, <2>3, OvertakenStays, Zenon
<1> QED
    BY <1>4, <1>5

\* Fresh records are made by workers that nobody overtook, and then nobody is.
LEMMA RecordOvertaken ==
    ASSUME TInv, WInv, Begun, Overtaken, NEW e \in Execs, RecordDraft(e) \/ RecordEditor(e),
           RecordsFresh(e)
    PROVE  Overtaken'
<1>1. RevisionStays
    BY RecordDraftIs, RecordEditorIs, Zenon DEF TInv, Typed
<1>2. ~At(e, "idle") /\ job[e].draft = NextRevision
    <2>1. DraftName = NextRevision
        BY Zenon DEF DraftName, WInv, EnvNames, NextRevision
    <2> QED
        BY <2>1, Zenon DEF RecordsFresh, RecordDraft, RecordEditor, At
<1>3. JobEnds(e) \/ (JobGoes(e, "start") /\ At(e, "ready"))
    BY EndJobIs, RecordedIs, Zenon DEF TInv, Typed, RecordDraft
<1>4. exec[e].phase = "pending" /\ e \in load.execs
    BY <1>2, Zenon DEF Begun
<1>5. \A f \in Execs : ~Stale(f)
    BY <1>2, <1>4, Zenon DEF Overtaken, Stale, Terminal
<1>6. \A f \in Execs : ~Stale(f)'
    BY <1>1, <1>2, <1>3, <1>5, NextSame, Zenon DEF Stale, At, JobEnds, JobGoes
<1> QED
    BY <1>6, NoneOvertaken

\* A finished execution stays finished.
LEMMA FinishedStep == TInv /\ Begun /\ [Next]_vars => FinishedStay
<1> SUFFICES ASSUME TInv, Begun, [Next]_vars
             PROVE  FinishedStay
    OBVIOUS
<1>1. UNCHANGED exec => FinishedStay
    BY Zenon DEF FinishedStay
<1>2. ASSUME NEW e \in Execs, exec[e].phase \notin Terminal,
             \A f \in Execs \ {e} : exec'[f] = exec[f]
      PROVE  FinishedStay
    BY <1>2, Zenon DEF FinishedStay
<1>3. ASSUME NEW e \in Execs, Create(e) \/ AskToStop(e)
      PROVE  FinishedStay
    <2>1. exec[e].phase \notin Terminal
        BY <1>3, Zenon DEF Create, AskToStop, Terminal
    <2>2. \A f \in Execs \ {e} : exec'[f] = exec[f]
        BY <1>3, PhaseIs, AskToStopIs, Zenon DEF TInv, Typed, Phases, Create, ExecWritten
    <2> QED
        BY <1>2, <2>1, <2>2
<1>4. CASE EditorGone
    BY <1>4, EditorGoneIs, Zenon DEF TInv, Typed, FinishedStay
<1>5. ASSUME NEW e \in Execs, ProcessEnds(e)
      PROVE  FinishedStay
    BY <1>5, EndedIs, Zenon DEF TInv, Typed, ExecWritten, Terminal, FinishedStay
<1>6. ASSUME NEW e \in Execs, StopPending(e) \/ FindLost(e)
      PROVE  FinishedStay
    <2>1. ExecWritten(e, "ended", exec[e].alive, exec[e].drafted)
        BY <1>6, PhaseIs, Zenon DEF TInv, Typed, Phases, Terminal, StopPending, FindLost
    <2> QED
        BY <2>1, Zenon DEF ExecWritten, Terminal, FinishedStay
<1>7. ASSUME NEW e \in Execs, StartProcess(e)
      PROVE  FinishedStay
    <2>1. At(e, "start") /\ (ExecWritten(e, "ended", exec[e].alive, exec[e].drafted)
                            \/ ExecWritten(e, "running", TRUE, exec[e].drafted))
        BY <1>7, StartProcessIs, Zenon DEF TInv, Typed
    <2>2. exec[e].phase = "pending"
        BY <2>1, Zenon DEF Begun, At
    <2> QED
        BY <1>1, <1>2, <2>1, <2>2, Zenon DEF ExecWritten, Terminal
<1>8. CASE Users \/ Cluster
    BY <1>1, <1>3, <1>4, <1>5, <1>8 DEF Users, Cluster, RequestCommit, EditSpec, LoseEditor,
                                        EditorReady, HomeBinds, ClaimBinds
<1>9. CASE EnvironmentPass
    BY <1>1, <1>9, PassDrafts
<1>10. CASE HomePass \/ Fail \/ UNCHANGED vars
    BY <1>1, <1>10 DEF HomePass, BeginHoming, Backoff, RetryDue, CreateHome, FindHome, RecordHome,
                       HomeRejected, Fail, vars
<1>11. ASSUME NEW e \in Execs, ExecPass(e)
       PROVE  FinishedStay
    BY <1>1, <1>6, <1>7, <1>11 DEF ExecPass, BeginJob, CreateDraft, CheckDraft, RecordDraft,
                                   EnsureEditor, RecordEditor
<1> QED
    BY <1>8, <1>9, <1>10, <1>11 DEF Next

LEMMA OvertakenStep ==
    TInv /\ WInv /\ Begun /\ Two /\ Overtaken /\ [Next]_vars /\ [Fresh]_vars => Overtaken'
<1> SUFFICES ASSUME TInv, WInv, Begun, Two, Overtaken, [Next]_vars, [Fresh]_vars
             PROVE  Overtaken'
    OBVIOUS
<1>1. load' = load
    BY LoadSame
<1>2. FinishedStay
    BY FinishedStep
<1>3. UNCHANGED job => DraftsStay
    BY Zenon DEF DraftsStay
<1>4. UNCHANGED <<env, pass>> /\ DraftsStay => Overtaken'
    BY <1>1, <1>2, OvertakenStays, Zenon
<1>5. UNCHANGED <<env, pass, job>> => Overtaken'
    BY <1>3, <1>4
<1>6. CASE EnvironmentPass
    <2>1. CASE BeginPass
        <3>1. pass'.pc \in Committing => env.draft # NoClaim
            BY <2>1, BeginPassIs, Zenon DEF TInv, Typed, Committing
        <3> QED
            BY <1>1, <1>2, <1>3, <2>1, <3>1, OvertakenStays, Zenon DEF BeginPass
    <2>2. CASE PassWork /\ ~Report
        <3>1. pass'.pc \in Committing => pass.pc \in Committing
            BY <2>2, PassContinuing, Zenon DEF TInv, Typed, PassContinues, PassRests, PassGoes, Committing
        <3>2. env'.revision = env.revision /\ env'.draft = env.draft
            BY <2>2, ClearEditorIs DEF PassWork, CheckCommit, StopEditor, PromoteLost,
               DeleteOld, CheckEditor, CheckReplace, CheckIdle, EvictEditor, CreateCurrent, FindCurrent,
               TInv, Typed, RevisionStays
        <3> QED
            BY <1>1, <1>2, <1>3, <1>6, <3>1, <3>2, PassDrafts, OvertakenStays, Zenon
    <2> QED
        BY <1>6, <2>1, <2>2, PromoteOvertakes, ReportOvertaken, Zenon DEF EnvironmentPass, PassWork
<1>7. CASE RequestCommit \/ EditSpec
    <2>1. env'.revision = env.revision /\ env'.draft = env.draft
        BY <1>7, RequestCommitIs, EditSpecIs, Zenon DEF TInv, Typed, RevisionStays
    <2>2. UNCHANGED <<exec, pass, job>>
        BY <1>7 DEF RequestCommit, EditSpec
    <2> QED
        BY <1>1, <1>2, <1>3, <2>1, <2>2, OvertakenStays, Zenon
<1>8. ASSUME NEW e \in Execs, Create(e) \/ AskToStop(e) \/ ProcessEnds(e)
      PROVE  Overtaken'
    BY <1>5, <1>8 DEF Create, AskToStop, ProcessEnds
<1>9. CASE LoseEditor \/ EditorReady \/ EditorGone \/ HomeBinds \/ \E n \in Claims : ClaimBinds(n)
    BY <1>5, <1>9 DEF LoseEditor, EditorReady, EditorGone, HomeBinds, ClaimBinds
<1>10. CASE HomePass
    BY <1>5, <1>10 DEF HomePass, BeginHoming, Backoff, RetryDue, CreateHome, FindHome, RecordHome,
                       HomeRejected
<1>11. CASE Fail
    <2>1. UNCHANGED <<env, exec>>
        BY <1>11 DEF Fail
    <2>2. CASE pass' = Rest /\ UNCHANGED job
        <3>1. pass'.pc \notin Committing
            BY <2>2, RestIs, Zenon DEF Committing
        <3> QED
            BY <1>1, <1>2, <1>3, <2>1, <2>2, <3>1, OvertakenStays, Zenon
    <2>3. CASE UNCHANGED <<pass, job>>
        BY <1>5, <2>1, <2>3
    <2>4. ASSUME NEW e \in Execs, EndJob(e), UNCHANGED pass
          PROVE  Overtaken'
        <3>1. JobEnds(e)
            BY <2>4, EndJobIs DEF TInv, Typed
        <3>2. DraftsStay
            BY <3>1, Zenon DEF JobEnds, DraftsStay
        <3> QED
            BY <1>2, <1>4, <2>1, <2>4, <3>2, Zenon
    <2> QED
        BY <1>11, <2>2, <2>3, <2>4 DEF Fail
<1>12. ASSUME NEW e \in Execs, ExecPass(e), Fresh
       PROVE  Overtaken'
    <2>1. CASE BeginJob(e)
        <3>1. DraftName \in Names /\ DraftName = NextRevision
            BY <2>1, NextName, ClaimNames, Zenon
               DEF TInv, BeginJob, DraftName, WInv, EnvNames, NextRevision
        <3>2. job'[e].draft = NextRevision /\ \A f \in Execs \ {e} : job'[f] = job[f]
            BY <2>1, <3>1, BeginJobIs, Zenon DEF TInv, Typed
        <3>3. DraftsStay
            BY <3>2, Zenon DEF DraftsStay
        <3> QED
            BY <1>2, <1>4, <2>1, <3>3, Zenon DEF BeginJob
    <2>2. CASE StopPending(e) \/ FindLost(e)
        BY <1>5, <2>2 DEF StopPending, FindLost
    <2>3. CASE CreateDraft(e) \/ CheckDraft(e) \/ EnsureEditor(e)
        <3>1. ~At(e, "idle") /\ (JobEnds(e) \/ \E pc \in JobSteps : JobGoes(e, pc))
            BY <2>3, GoToIs, CheckDraftIs, EnsureEditorIs, Zenon
               DEF TInv, Typed, CreateDraft, At, JobSteps
        <3>2. DraftsStay
            BY <3>1, Zenon DEF JobEnds, JobGoes, DraftsStay, At
        <3>3. UNCHANGED <<env, exec, pass>>
            BY <2>3 DEF CreateDraft, CheckDraft, EnsureEditor
        <3> QED
            BY <1>2, <1>4, <3>2, <3>3, Zenon
    <2>4. CASE RecordDraft(e) \/ RecordEditor(e)
        BY <1>12, <2>4, RecordOvertaken, Zenon DEF Fresh
    <2>5. CASE StartProcess(e)
        <3>1. JobEnds(e)
            BY <2>5, StartProcessIs, Zenon DEF TInv, Typed
        <3>2. DraftsStay
            BY <3>1, Zenon DEF JobEnds, DraftsStay
        <3> QED
            BY <1>4, <2>5, <3>2, Zenon DEF StartProcess
    <2> QED
        BY <1>12, <2>1, <2>2, <2>3, <2>4, <2>5 DEF ExecPass
<1>13. CASE UNCHANGED vars
    BY <1>5, <1>13 DEF vars
<1> QED
    BY <1>6, <1>7, <1>8, <1>9, <1>10, <1>11, <1>12, <1>13, Zenon
       DEF Next, Users, Cluster

-----------------------------------------------------------------------------
(* After an overtaken worker recorded its draft, which is current by now.  *)

LateVolume ==
    /\ env.current \in Claims
    /\ claim[env.current].state = "bound" /\ claim[env.current].source # env.current
    /\ env.draft \in {NoClaim, env.current}

LateExecs ==
    /\ \A e \in load.execs : exec[e].phase # "none"
    /\ env.draft = NoClaim \/ pass.pc \in {"stopping", "promote"} => ~Active

LatePass ==
    /\ pass.pc \in Committing => pass.draft = env.current
    /\ pass.pc = "delete" => pass.current # env.current \/ pass.draft = env.current

\* Current is no clone of itself, so no worker gets past the draft.
LateJobs ==
    \A e \in Execs : \/ At(e, "idle") \/ At(e, "start")
                     \/ At(e, "draft") /\ job[e].draft = env.current /\ job[e].current = env.current

LateWork == \A e \in Execs : exec[e].drafted => e \in claim[env.current].holds

Late == LateVolume /\ LateExecs /\ LatePass /\ LateJobs /\ LateWork

PassLate ==
    /\ pass'.pc \in Committing => pass'.draft = env.current
    /\ pass'.pc = "delete" => pass'.current # env.current \/ pass'.draft = env.current
    /\ pass'.pc \in {"stopping", "promote"} => pass.pc \in {"stopping", "promote"} \/ ~Active

CurrentStays ==
    /\ claim'[env.current].state = claim[env.current].state
    /\ claim'[env.current].source = claim[env.current].source
    /\ claim[env.current].holds \subseteq claim'[env.current].holds

ExecsLate ==
    /\ \A e \in Execs : exec[e].phase # "none" => exec'[e].phase # "none"
    /\ Active' => Active
    /\ \A e \in Execs : exec'[e].drafted => exec[e].drafted \/ e \in claim'[env.current].holds

WorkerLate(e) ==
    \/ job'[e] = job[e] \/ job'[e].pc \in {"idle", "start"}
    \/ job'[e].pc = "draft" /\ job'[e].draft = env.current /\ job'[e].current = env.current

LEMMA LateStays ==
    ASSUME TInv, Late, load' = load, env'.current = env.current,
           env'.draft = env.draft \/ (env'.draft = NoClaim /\ ~Active),
           CurrentStays, ExecsLate, PassLate, \A e \in Execs : WorkerLate(e)
    PROVE  Late'
<1> USE DEF Late
<1>1. load.execs \subseteq Execs
    BY LoadFields DEF TInv, Typed
<1>2. LateVolume'
    BY Zenon DEF LateVolume, CurrentStays
<1>3. LateExecs'
    BY <1>1, Zenon DEF LateExecs, ExecsLate, PassLate
<1>4. LatePass'
    BY Zenon DEF LatePass, PassLate
<1>5. LateJobs'
    BY Zenon DEF LateJobs, WorkerLate, At
<1>6. LateWork'
    BY Zenon DEF LateWork, ExecsLate, CurrentStays
<1> QED
    BY <1>2, <1>3, <1>4, <1>5, <1>6

LEMMA LateFrames ==
    ASSUME Late
    PROVE  /\ UNCHANGED pass => PassLate
           /\ UNCHANGED claim => CurrentStays
           /\ UNCHANGED exec => ExecsLate
           /\ UNCHANGED job => \A e \in Execs : WorkerLate(e)
<1>1. UNCHANGED pass => PassLate
    BY Zenon DEF PassLate, Late, LatePass
<1>2. UNCHANGED claim => CurrentStays
    BY Zenon DEF CurrentStays
<1>3. UNCHANGED exec => ExecsLate
    BY Zenon DEF ExecsLate, Active
<1>4. UNCHANGED job => \A e \in Execs : WorkerLate(e)
    BY Zenon DEF WorkerLate
<1> QED
    BY <1>1, <1>2, <1>3, <1>4

\* A phase that is active now was active before.
LEMMA LateExecMoves ==
    ASSUME Late, NEW e \in Execs, NEW p, p # "none",
           p \in {"pending", "running"} => exec[e].phase \in {"pending", "running"},
           exec'[e].phase = p, exec'[e].drafted = exec[e].drafted,
           \A f \in Execs \ {e} : exec'[f] = exec[f]
    PROVE  ExecsLate
<1>1. \A f \in Execs : f # e => exec'[f] = exec[f]
    BY Zenon
<1>2. Active' => Active
    BY <1>1, Zenon DEF Active
<1> QED
    BY <1>1, <1>2, Zenon DEF ExecsLate

LEMMA PassIsLate ==
    ASSUME TInv, Late, EnvironmentPass
    PROVE  Late'
<1> USE DEF Late
<1>1. UNCHANGED <<exec, job>> /\ load' = load
    BY PassDrafts, LoadSame DEF Next
<1>2. env.current \in Claims /\ env.current # NoClaim
    BY ClaimNames, Zenon DEF LateVolume
<1>3. CASE BeginPass
    <2>1. UNCHANGED <<env, claim>>
        BY <1>3 DEF BeginPass
    <2>2. /\ pass'.draft = env.draft /\ pass'.pc \in {"commit", "editor", "current"}
          /\ pass'.pc = "commit" => env.draft # NoClaim
        BY <1>3, BeginPassIs, Zenon DEF TInv, Typed
    <2>3. PassLate
        BY <2>2, Zenon DEF PassLate, LateVolume, Committing
    <2> QED
        BY <1>1, <2>1, <2>3, LateFrames, LateStays, Zenon
<1>4. CASE Promote
    <2>1. pass.pc = "promote" /\ env' = Promoted /\ UNCHANGED claim /\ Step("delete")
        BY <1>4 DEF Promote
    <2>2. pass.draft = env.current /\ ~Active
        BY <2>1, Zenon DEF LatePass, LateExecs, Committing
    <2>3. env'.current = env.current /\ env'.draft = NoClaim
        BY <2>1, <2>2, PromotedIs, Zenon DEF TInv, Typed
    <2>4. pass'.pc = "delete" /\ pass'.draft = env.current
        BY <2>1, <2>2, StepIs, Zenon DEF TInv, Typed, PassSteps, PassGoes
    <2>5. PassLate
        BY <2>4, Zenon DEF PassLate, Committing
    <2> QED
        BY <1>1, <2>1, <2>2, <2>3, <2>5, LateFrames, LateStays, Zenon
<1>5. CASE PassWork
    <2>1. PassContinues
        BY <1>5, PassContinuing DEF TInv, Typed
    <2>2. PassLate
        <3>1. /\ pass'.pc \in Committing => pass.pc \in Committing /\ pass'.draft = pass.draft
              /\ pass'.pc # "delete"
            BY <2>1, Zenon DEF PassContinues, PassRests, PassGoes, Committing
        <3>2. pass'.pc \in {"stopping", "promote"} => pass.pc \in {"stopping", "promote"} \/ ~Active
            BY PassCommits, Zenon DEF CommitMoves
        <3> QED
            BY <3>1, <3>2, Zenon DEF PassLate, LatePass
    <2>3. env'.current = env.current /\ env'.draft = env.draft
        <3>1. CASE Report
            <4>1. Named = env.current
                BY <1>2, <3>1, Zenon DEF TInv, PassKnows, Report, Named
            <4> QED
                BY <3>1, <4>1, ReportIs DEF TInv, Typed
        <3>2. CASE ClearEditor
            BY <3>2, ClearEditorIs DEF TInv, Typed, RevisionStays
        <3> QED
            BY <1>5, <3>1, <3>2 DEF PassWork, CheckCommit, StopEditor, PromoteLost,
               DeleteOld, CheckEditor, CheckReplace, CheckIdle, EvictEditor, CreateCurrent, FindCurrent
    <2>4. CurrentStays
        <3>1. CASE DeleteOld
            <4>1. claim'[env.current] = claim[env.current]
                BY <1>2, <3>1, DeleteOldIs, Zenon DEF TInv, Typed, LatePass
            <4> QED
                BY <4>1, Zenon DEF CurrentStays
        <3>2. ~CreateCurrent
            BY <1>2, Zenon DEF TInv, PassKnows, CreateCurrent
        <3>3. CASE UNCHANGED claim
            BY <3>3, LateFrames
        <3> QED
            BY <1>5, <3>1, <3>2, <3>3 DEF PassWork, CheckCommit, StopEditor, PromoteLost, CheckEditor,
               ClearEditor, CheckReplace, CheckIdle, EvictEditor, FindCurrent, Report
    <2> QED
        BY <1>1, <2>2, <2>3, <2>4, LateFrames, LateStays, Zenon
<1> QED
    BY <1>3, <1>4, <1>5 DEF EnvironmentPass, PassWork

LEMMA WorkersAreLate ==
    ASSUME TInv, Begun, Late, NEW e \in Execs, ExecPass(e)
    PROVE  Late'
<1> USE DEF Late
<1>1. load' = load
    BY LoadSame DEF Next
<1>2. env.current \in Claims /\ env.current # NoClaim
    BY ClaimNames, Zenon DEF LateVolume
<1>3. CASE BeginJob(e)
    <2>1. exec[e].phase = "pending" /\ UNCHANGED <<env, claim, exec, pass>>
        BY <1>3 DEF BeginJob
    <2>2. Active
        BY <2>1, Zenon DEF Active
    <2>3. DraftName = env.current
        BY <1>2, <2>2, Zenon DEF DraftName, LateVolume, LateExecs
    <2>4. /\ job'[e].pc = "draft" /\ job'[e].current = env.current /\ job'[e].draft = env.current
          /\ \A f \in Execs \ {e} : job'[f] = job[f]
        BY <1>2, <1>3, <2>3, BeginJobIs, ClaimNames, Zenon DEF TInv, Typed
    <2>5. \A f \in Execs : WorkerLate(f)
        BY <2>4, Zenon DEF WorkerLate
    <2> QED
        BY <1>1, <2>1, <2>5, LateFrames, LateStays, Zenon
<1>4. CASE StopPending(e) \/ FindLost(e)
    <2>1. UNCHANGED <<env, claim, pass, job>>
        BY <1>4 DEF StopPending, FindLost
    <2>2. ExecWritten(e, "ended", exec[e].alive, exec[e].drafted)
        BY <1>4, PhaseIs, Zenon DEF TInv, Typed, Phases, Terminal, StopPending, FindLost
    <2>3. ExecsLate
        BY <2>2, LateExecMoves, Zenon DEF ExecWritten
    <2> QED
        BY <1>1, <2>1, <2>3, LateFrames, LateStays, Zenon
<1>5. CASE CheckDraft(e)
    <2>1. UNCHANGED <<env, claim, exec, pass>>
        BY <1>5 DEF CheckDraft
    <2>2. At(e, "draft") /\ (JobEnds(e) \/ claim[job[e].draft].source = job[e].current)
        BY <1>5, CheckDraftIs, Zenon DEF TInv, Typed
    <2>3. JobEnds(e)
        BY <2>2, Zenon DEF LateJobs, LateVolume, At
    <2>4. \A f \in Execs : WorkerLate(f)
        BY <2>3, Zenon DEF WorkerLate, JobEnds
    <2> QED
        BY <1>1, <2>1, <2>4, LateFrames, LateStays, Zenon
<1>6. CASE StartProcess(e)
    <2>1. /\ At(e, "start") /\ JobEnds(e) /\ UNCHANGED <<env, claim, pass>>
          /\ \/ ExecWritten(e, "ended", exec[e].alive, exec[e].drafted)
             \/ ExecWritten(e, "running", TRUE, exec[e].drafted)
        BY <1>6, StartProcessIs, Zenon DEF TInv, Typed, StartProcess
    <2>2. exec[e].phase = "pending"
        BY <2>1, Zenon DEF Begun, At
    <2>3. ExecsLate
        BY <2>1, <2>2, LateFrames, LateExecMoves, Zenon DEF ExecWritten
    <2>4. \A f \in Execs : WorkerLate(f)
        BY <2>1, Zenon DEF WorkerLate, JobEnds
    <2> QED
        BY <1>1, <2>1, <2>3, <2>4, LateFrames, LateStays, Zenon
<1>7. ~CreateDraft(e)
    <2>1. CreateDraft(e) => At(e, "draft") /\ claim[job[e].draft].state = "absent"
        BY DEF CreateDraft
    <2> QED
        BY <2>1, Zenon DEF LateJobs, LateVolume, At
<1>8. ~RecordDraft(e) /\ ~EnsureEditor(e) /\ ~RecordEditor(e)
    BY Zenon DEF LateJobs, RecordDraft, EnsureEditor, RecordEditor, At
<1> QED
    BY <1>3, <1>4, <1>5, <1>6, <1>7, <1>8 DEF ExecPass

LEMMA ClusterIsLate ==
    ASSUME TInv, Late, Users \/ Cluster
    PROVE  Late'
<1> USE DEF Late
<1>1. load' = load
    BY LoadSame DEF Next
<1>2. env.current \in Claims /\ env.current # NoClaim /\ claim[env.current].state = "bound"
    BY ClaimNames, Zenon DEF LateVolume
<1>3. CASE RequestCommit \/ EditSpec
    <2>1. env'.current = env.current /\ env'.draft = env.draft
        BY <1>3, RequestCommitIs, EditSpecIs, Zenon DEF TInv, Typed, RevisionStays
    <2>2. UNCHANGED <<claim, exec, pass, job>>
        BY <1>3 DEF RequestCommit, EditSpec
    <2> QED
        BY <1>1, <2>1, <2>2, LateFrames, LateStays, Zenon
<1>4. ASSUME NEW e \in Execs
      PROVE  ~Create(e)
    BY Zenon DEF Create, LateExecs
<1>5. ASSUME NEW e \in Execs, AskToStop(e)
      PROVE  Late'
    <2>1. ExecWritten(e, exec[e].phase, exec[e].alive, exec[e].drafted)
        BY <1>5, AskToStopIs DEF TInv, Typed
    <2>2. exec[e].phase # "none" /\ UNCHANGED <<env, claim, pass, job>>
        BY <1>5 DEF AskToStop
    <2>3. ExecsLate
        BY <2>1, <2>2, LateExecMoves, Zenon DEF ExecWritten
    <2> QED
        BY <1>1, <2>2, <2>3, LateFrames, LateStays, Zenon
<1>6. CASE LoseEditor \/ EditorReady \/ HomeBinds
    <2>1. UNCHANGED <<env, claim, exec, pass, job>>
        BY <1>6 DEF LoseEditor, EditorReady, HomeBinds
    <2> QED
        BY <1>1, <2>1, LateFrames, LateStays, Zenon
<1>7. CASE EditorGone
    <2>1. UNCHANGED <<env, pass, job>>
        BY <1>7 DEF EditorGone
    <2>2. /\ claim'[env.current] = claim[env.current]
          /\ \A e \in Execs : exec'[e].phase = exec[e].phase /\ exec'[e].drafted = exec[e].drafted
        BY <1>2, <1>7, EditorGoneIs, Zenon DEF TInv, Typed
    <2>3. CurrentStays /\ ExecsLate
        BY <2>2, Zenon DEF CurrentStays, ExecsLate, Active
    <2> QED
        BY <1>1, <2>1, <2>3, LateFrames, LateStays, Zenon
<1>8. ASSUME NEW n \in Claims, ClaimBinds(n)
      PROVE  Late'
    <2>1. UNCHANGED <<env, exec, pass, job>>
        BY <1>8 DEF ClaimBinds
    <2>2. claim'[env.current] = claim[env.current]
        BY <1>2, <1>8, ClaimBindsIs, Zenon DEF TInv, Typed, ClaimWritten
    <2>3. CurrentStays
        BY <2>2, Zenon DEF CurrentStays
    <2> QED
        BY <1>1, <2>1, <2>3, LateFrames, LateStays, Zenon
<1>9. ASSUME NEW e \in Execs, ProcessEnds(e)
      PROVE  Late'
    <2>1. UNCHANGED <<env, pass, job>>
        BY <1>9 DEF ProcessEnds
    <2>2. editor.claim \in Claims
        BY <1>9, EditorFields, ClaimNames, Zenon DEF TInv, Typed, JobsBegun, ProcessEnds
    <2>3. /\ ClaimWritten(editor.claim, claim[editor.claim].state, claim[editor.claim].source,
                          claim[editor.claim].holds \cup {e})
          /\ ExecWritten(e, "succeeded", FALSE, editor.claim = env.draft)
        BY <1>9, <2>2, ProcessEndsIs, EndedIs, Zenon DEF TInv, Typed
    <2>4. CurrentStays
        BY <1>2, <2>3, Zenon DEF ClaimWritten, CurrentStays
    <2>5. exec'[e].drafted => e \in claim'[env.current].holds
        <3>1. editor.claim = env.draft => editor.claim = env.current
            BY <2>2, ClaimNames, Zenon DEF LateVolume
        <3> QED
            BY <2>3, <3>1, Zenon DEF ClaimWritten, ExecWritten
    <2>6. \A f \in Execs : f # e => exec'[f] = exec[f]
        BY <2>3, Zenon DEF ExecWritten
    <2>7. exec'[e].phase = "succeeded"
        BY <2>3, Zenon DEF ExecWritten
    <2>8. ExecsLate
        BY <2>5, <2>6, <2>7, Zenon DEF ExecsLate, Active
    <2> QED
        BY <1>1, <2>1, <2>4, <2>8, LateFrames, LateStays, Zenon
<1> QED
    BY <1>3, <1>4, <1>5, <1>6, <1>7, <1>8, <1>9, Zenon DEF Users, Cluster

LEMMA LateStep == TInv /\ Begun /\ Late /\ [Next]_vars => Late'
<1> SUFFICES ASSUME TInv, Begun, Late, [Next]_vars
             PROVE  Late'
    OBVIOUS
<1>1. load' = load
    BY LoadSame
<1>2. CASE UNCHANGED <<env, claim, exec, pass, job>>
    BY <1>1, <1>2, LateFrames, LateStays, Zenon
<1>3. CASE HomePass
    BY <1>2, <1>3 DEF HomePass, BeginHoming, Backoff, RetryDue, CreateHome, FindHome, RecordHome,
                      HomeRejected
<1>4. CASE Fail
    <2>1. UNCHANGED <<env, claim, exec>>
        BY <1>4 DEF Fail
    <2>2. CASE pass' = Rest /\ UNCHANGED job
        <3>1. PassLate
            BY <2>2, RestIs, Zenon DEF PassLate, Committing
        <3> QED
            BY <1>1, <2>1, <2>2, <3>1, LateFrames, LateStays, Zenon
    <2>3. CASE UNCHANGED <<pass, job>>
        BY <1>2, <2>1, <2>3
    <2>4. ASSUME NEW e \in Execs, EndJob(e), UNCHANGED pass
          PROVE  Late'
        <3>1. JobEnds(e)
            BY <2>4, EndJobIs DEF TInv, Typed
        <3>2. \A f \in Execs : WorkerLate(f)
            BY <3>1, Zenon DEF JobEnds, WorkerLate
        <3> QED
            BY <1>1, <2>1, <2>4, <3>2, LateFrames, LateStays, Zenon
    <2> QED
        BY <1>4, <2>2, <2>3, <2>4 DEF Fail
<1>5. CASE UNCHANGED vars
    BY <1>2, <1>5 DEF vars
<1> QED
    BY <1>3, <1>4, <1>5, PassIsLate, WorkersAreLate, ClusterIsLate, Zenon DEF Next

\* The record of an overtaken worker.
LEMMA StaleRecord ==
    ASSUME TInv, WInv, Begun, Overtaken, NEW e \in Execs, RecordDraft(e) \/ RecordEditor(e),
           ~RecordsFresh(e)
    PROVE  Late'
<1> USE DEF WInv
<1>1. RevisionStays /\ env'.draft = job[e].draft /\ load' = load
    BY RecordDraftIs, RecordEditorIs, LoadSame, Zenon DEF TInv, Typed, Next, ExecPass
<1>2. UNCHANGED <<claim, exec, pass>> /\ ~At(e, "idle")
    BY DEF RecordDraft, RecordEditor, At
<1>3. DraftName = NextRevision
    BY Zenon DEF DraftName, EnvNames, NextRevision
<1>4. Stale(e)
    BY <1>2, <1>3, Zenon DEF Stale, RecordsFresh
<1>5. /\ job[e].draft = env.revision
      /\ env.draft = NoClaim /\ pass.pc \notin Committing
      /\ \A f \in load.execs \ {e} : exec[f].phase \in Terminal
    BY <1>4, Zenon DEF Overtaken
<1>6. env.ready /\ env.revision \in Claims /\ env.current = env.revision
    BY <1>2, NextIs, Zenon DEF JobNames, TInv, Counted, EnvNames
<1>7. exec[e].phase = "pending"
    BY <1>2, Zenon DEF Begun
<1>8. LateVolume'
    <2>1. claim[env.revision].state = "bound" /\ claim[env.revision].source + 1 = env.revision
        BY <1>6, Zenon DEF Volumes
    <2>2. claim[env.revision].source \in Nat /\ env.revision \in Nat
        BY <1>6, ClaimFields, ClaimNames, Zenon DEF TInv, Typed
    <2>3. claim[env.revision].source # env.revision
        BY <2>1, <2>2, SMT
    <2> QED
        BY <1>1, <1>2, <1>5, <1>6, <2>1, <2>3, Zenon DEF LateVolume, RevisionStays
<1>9. LateExecs'
    <2>1. env'.draft # NoClaim
        BY <1>1, <1>5, <1>6, ClaimNames, Zenon
    <2>2. \A f \in load.execs : exec[f].phase # "none"
        BY <1>5, <1>7, Zenon DEF Terminal
    <2> QED
        BY <1>1, <1>2, <1>5, <2>1, <2>2, Zenon DEF LateExecs, Committing
<1>10. LatePass'
    <2>1. pass.pc = "delete" => pass.current # env.current
        <3>1. pass.current \in Nat /\ env.revision \in Nat
            BY PassFields, EnvFields, ClaimNames, Zenon DEF TInv, Typed
        <3> QED
            BY <1>6, <3>1, SMT DEF PassNames
    <2> QED
        BY <1>1, <1>2, <1>5, <2>1, Zenon DEF LatePass, RevisionStays
<1>11. LateJobs'
    <2>1. \A f \in Execs : f # e => job[f].pc = "idle"
        BY <1>5, Zenon DEF Begun, At, Terminal
    <2>2. JobEnds(e) \/ JobGoes(e, "start")
        BY EndJobIs, RecordedIs, Zenon DEF TInv, Typed, RecordDraft
    <2> QED
        BY <2>1, <2>2, Zenon DEF LateJobs, At, JobEnds, JobGoes
<1>12. LateWork'
    BY <1>1, <1>2, <1>5, <1>6, Zenon DEF LateWork, WorkFits, RevisionStays
<1> QED
    BY <1>8, <1>9, <1>10, <1>11, <1>12 DEF Late

-----------------------------------------------------------------------------
(* Two executions.                                                         *)

PairInv == TInv /\ Begun /\ Two /\ ((WInv /\ Overtaken) \/ Late)

LEMMA InitOvertaken == Init => Overtaken
<1> SUFFICES ASSUME Init
             PROVE  Overtaken
    OBVIOUS
<1>1. \A e \in Execs : job[e] = NoJob
    BY Zenon DEF Init
<1>2. NoJob.pc = "idle"
    BY DEF NoJob
<1> QED
    BY <1>1, <1>2, Zenon DEF Overtaken, Stale, At

LEMMA PairStep == PairInv /\ [Next]_vars => PairInv'
<1> SUFFICES ASSUME PairInv, [Next]_vars
             PROVE  PairInv'
    OBVIOUS
<1>1. TInv /\ Begun /\ Two
    BY DEF PairInv
<1>2. TInv' /\ Begun'
    BY <1>1, TypesStep, BegunStep
<1>3. Two'
    BY <1>1, LoadSame, Zenon DEF Two
<1>4. CASE Late
    <2>1. Late'
        BY <1>1, <1>4, LateStep
    <2> QED
        BY <1>2, <1>3, <2>1 DEF PairInv
<1>5. CASE WInv /\ Overtaken /\ [Fresh]_vars
    <2>1. WInv' /\ Overtaken'
        BY <1>1, <1>5, NamesStep, OvertakenStep
    <2> QED
        BY <1>2, <1>3, <2>1 DEF PairInv
<1>6. CASE WInv /\ Overtaken /\ ~Fresh
    <2>1. PICK e \in Execs : ~RecordsFresh(e)
        BY <1>6, Zenon DEF Fresh
    <2>2. RecordDraft(e) \/ RecordEditor(e)
        BY <2>1, Zenon DEF RecordsFresh
    <2>3. Late'
        BY <1>1, <1>6, <2>1, <2>2, StaleRecord
    <2> QED
        BY <1>2, <1>3, <2>3 DEF PairInv
<1> QED
    BY <1>4, <1>5, <1>6 DEF PairInv

LEMMA LateIsKept == Late => WorkKept
<1> SUFFICES ASSUME Late, NEW e \in Execs, exec[e].drafted
             PROVE  \E n \in {env.current, env.draft} : Live(n) /\ e \in claim[n].holds
    BY DEF WorkKept
<1>1. e \in claim[env.current].holds /\ env.current # NoClaim /\ claim[env.current].state = "bound"
    BY ClaimNames, Zenon DEF Late, LateWork, LateVolume
<1> QED
    BY <1>1, Zenon DEF Live

\* With at most two executions no work is lost, in every behaviour, with any
\* number of commits, edits, stops, lost editors and failed passes: a stale
\* draft may be recorded then, but it is current, which has all the work, and
\* no worker and no commit can move away from it.
THEOREM WorkKeptTwo == Spec /\ Two => []WorkKept
<1>1. Init /\ Two => PairInv
    BY InitTypes, InitNames, InitBegun, InitOvertaken DEF PairInv
<1>2. PairInv => WorkKept
    BY WorkIsKept, LateIsKept DEF PairInv
<1> QED
    BY <1>1, <1>2, PairStep, PTL DEF Spec

-----------------------------------------------------------------------------
(* One execution beside a home.                                            *)

One == \A e, f \in load.execs : e = f

\* The API server refuses a home only where nothing is ever committed.
RefusedAlone == load.rejects => load.commits = 0

\* A commit, and so a second revision, needs an execution that finished, and
\* an editor mounts a draft, which is no first revision.
Committed ==
    /\ env.revision >= 2 => Done
    /\ editor.exists => editor.claim >= 2

\* A home is asked for from the claim of the revision that will be recorded.
HomesAsked ==
    /\ ws.source # 0 /\ ~ws.home => load.rejects
    /\ ws.source <= env.revision
    /\ homing.pc = "home" => homing.source = homing.revision

LEMMA RevisionMoves ==
    ASSUME TInv, [Next]_vars
    PROVE  \/ env'.revision = env.revision
           \/ Promote /\ env'.revision = env.revision + 1
           \/ env.revision = 0 /\ env'.revision = 1
<1>1. CASE UNCHANGED env
    BY <1>1
<1>2. CASE RequestCommit \/ EditSpec
    BY <1>2, RequestCommitIs, EditSpecIs, Zenon DEF TInv, Typed, RevisionStays
<1>3. CASE Promote
    BY <1>3, PromotedIs, Zenon DEF TInv, Typed, Promote
<1>4. CASE ClearEditor
    BY <1>4, ClearEditorIs DEF TInv, Typed, RevisionStays
<1>5. CASE Report
    <2>1. pass.revision = env.revision
        BY <1>5, Zenon DEF TInv, PassKnows, Report
    <2> QED
        BY <1>5, <2>1, ReportIs, Zenon DEF TInv, Typed
<1>6. ASSUME NEW e \in Execs, RecordDraft(e) \/ RecordEditor(e)
      PROVE  env'.revision = env.revision
    BY <1>6, RecordDraftIs, RecordEditorIs, Zenon DEF TInv, Typed, RevisionStays
<1>7. CASE Users \/ Cluster
    BY <1>1, <1>2, <1>7 DEF Users, Create, AskToStop, Cluster, LoseEditor, EditorReady, EditorGone,
                            HomeBinds, ClaimBinds, ProcessEnds
<1>8. CASE EnvironmentPass
    BY <1>1, <1>3, <1>4, <1>5, <1>8
       DEF EnvironmentPass, BeginPass, CheckCommit, StopEditor, PromoteLost, DeleteOld, CheckEditor,
           CheckReplace, CheckIdle, EvictEditor, CreateCurrent, FindCurrent
<1>9. CASE HomePass \/ Fail \/ UNCHANGED vars
    BY <1>1, <1>9 DEF HomePass, BeginHoming, Backoff, RetryDue, CreateHome, FindHome, RecordHome,
                      HomeRejected, Fail, vars
<1>10. ASSUME NEW e \in Execs, ExecPass(e)
       PROVE  env'.revision = env.revision
    BY <1>6, <1>10 DEF ExecPass, BeginJob, StopPending, CreateDraft, CheckDraft, EnsureEditor,
                       StartProcess, FindLost
<1> QED
    BY <1>7, <1>8, <1>9, <1>10 DEF Next

\* A worker's draft, and so the volume of the editor it makes, is a second
\* revision or a later one.
LEMMA DraftsFollow ==
    ASSUME TInv, WInv, NEW e \in Execs, ~At(e, "idle")
    PROVE  job[e].draft \in Nat /\ job[e].draft >= 2
<1>1. job[e].current \in Nat /\ job[e].current # 0 /\ job[e].draft = job[e].current + 1
    BY JobFields, ClaimNames, Zenon DEF TInv, Typed, JobsBegun, WInv, JobNames
<1> QED
    BY <1>1, SMT

LEMMA CommittedStep == TInv /\ WInv /\ Begun /\ Committed /\ [Next]_vars => Committed'
<1> SUFFICES ASSUME TInv, WInv, Begun, Committed, [Next]_vars
             PROVE  Committed'
    OBVIOUS
<1>1. Done => Done'
    BY FinishedStep, Zenon DEF Done, FinishedStay
<1>2. env'.revision >= 2 => env.revision >= 2 \/ Promote
    BY RevisionMoves, NextIs, SMT
<1>3. Promote => Done
    BY Zenon DEF Begun, Promote
<1>4. editor'.exists => editor'.claim >= 2
    <2>1. CASE EditorStays
        BY <2>1, Zenon DEF Committed, EditorStays
    <2>2. CASE UNCHANGED editor
        BY <2>1, <2>2 DEF EditorStays
    <2>3. CASE LoseEditor \/ StopEditor \/ EvictEditor \/ EditorReady
        BY <2>1, <2>3, StoppingIs, EditorReadyIs DEF LoseEditor, StopEditor, EvictEditor, TInv, Typed
    <2>4. CASE EditorGone
        BY <2>4, NoEditorIs, Zenon DEF EditorGone
    <2>5. ASSUME NEW e \in Execs, EnsureEditor(e)
          PROVE  editor'.exists => editor'.claim >= 2
        <3>1. ~At(e, "idle") /\ (editor'.claim = job[e].draft \/ editor' = editor)
            BY <2>5, EnsureEditorIs, Zenon DEF TInv, Typed, At
        <3> QED
            BY <2>2, <3>1, DraftsFollow
    <2>6. CASE Users \/ Cluster
        BY <2>2, <2>3, <2>4, <2>6 DEF Users, RequestCommit, EditSpec, Create, AskToStop, Cluster,
                                      HomeBinds, ClaimBinds, ProcessEnds
    <2>7. CASE EnvironmentPass
        BY <2>2, <2>3, <2>7
           DEF EnvironmentPass, BeginPass, CheckCommit, PromoteLost, Promote, DeleteOld, CheckEditor,
               ClearEditor, CheckReplace, CheckIdle, CreateCurrent, FindCurrent, Report
    <2>8. CASE HomePass \/ Fail \/ UNCHANGED vars
        BY <2>2, <2>8 DEF HomePass, BeginHoming, Backoff, RetryDue, CreateHome, FindHome, RecordHome,
                          HomeRejected, Fail, vars
    <2>9. ASSUME NEW e \in Execs, ExecPass(e)
          PROVE  editor'.exists => editor'.claim >= 2
        BY <2>2, <2>5, <2>9 DEF ExecPass, BeginJob, StopPending, CreateDraft, CheckDraft, RecordDraft,
                                RecordEditor, StartProcess, FindLost
    <2> QED
        BY <2>6, <2>7, <2>8, <2>9 DEF Next
<1> QED
    BY <1>1, <1>2, <1>3, <1>4, Zenon DEF Committed

\* While the only execution is under way nothing has been committed, so all
\* that is written is about the second revision.
LEMMA OneIsFresh ==
    ASSUME TInv, WInv, Begun, Committed, One
    PROVE  WritesAllFresh
<1>1. DraftName = NextRevision
    BY Zenon DEF DraftName, WInv, EnvNames, NextRevision
<1>2. ASSUME NEW e \in Execs, exec[e].phase \in {"pending", "running"}, env.ready
      PROVE  NextRevision = 2
    <2>1. ~Done
        BY <1>2, Zenon DEF Done, Begun, One, Terminal
    <2>2. env.revision >= 1 /\ ~(env.revision >= 2) /\ env.revision \in Nat
        BY <1>2, <2>1, NextIs, Zenon DEF Committed, TInv, Counted
    <2> QED
        BY <2>2, SMT DEF NextRevision
<1>3. ASSUME NEW e \in Execs, ~At(e, "idle")
      PROVE  job[e].draft = NextRevision
    <2>1. env.ready /\ job[e].draft <= NextRevision /\ exec[e].phase = "pending"
        BY <1>3, Zenon DEF WInv, JobNames, Begun
    <2>2. NextRevision = 2
        BY <1>2, <2>1, Zenon
    <2> QED
        BY <1>3, <2>1, <2>2, DraftsFollow, SMT
<1>4. ASSUME NEW e \in Execs, ProcessEnds(e)
      PROVE  editor.claim = NextRevision
    <2>1. exec[e].phase = "running" /\ editor.exists
        BY <1>4, Zenon DEF ProcessEnds, TInv, JobsBegun
    <2>2. env.ready /\ editor.claim <= NextRevision /\ editor.claim >= 2 /\ editor.claim \in Nat
        BY <2>1, EditorFields, ClaimNames, Zenon DEF WInv, EditorNames, Committed, TInv, Typed
    <2>3. NextRevision = 2
        BY <1>2, <2>1, <2>2, Zenon
    <2> QED
        BY <2>2, <2>3, SMT
<1>5. \A e \in Execs : CreateDraft(e) \/ RecordDraft(e) \/ RecordEditor(e) => ~At(e, "idle")
    BY Zenon DEF CreateDraft, RecordDraft, RecordEditor, At
<1> QED
    BY <1>1, <1>3, <1>4, <1>5, Zenon DEF WritesAllFresh, WritesFresh

LEMMA HomesAskedStep ==
    TInv /\ WInv /\ HInv /\ RefusedAlone /\ HomesAsked /\ [Next]_vars => HomesAsked'
<1> SUFFICES ASSUME TInv, WInv, HInv, RefusedAlone, HomesAsked, [Next]_vars
             PROVE  HomesAsked'
    OBVIOUS
<1>1. load' = load
    BY LoadSame
<1>2. env \in EnvSet /\ ws \in WsSet /\ home \in HomeSet /\ homing \in HomingSet
    BY DEF TInv, Typed
<1>3. ws.source \in Nat /\ env.revision \in Nat /\ homing.revision \in Nat
    BY <1>2, NextIs, HomeFields
<1>4. \A n \in Nat : n <= env.revision => n <= env'.revision
    BY <1>3, RevisionMoves, SMT
<1>5. ws.source <= env'.revision
    BY <1>3, <1>4, Zenon DEF HomesAsked
<1>6. CASE UNCHANGED <<ws, homing>>
    BY <1>1, <1>5, <1>6, Zenon DEF HomesAsked
<1>7. CASE UNCHANGED ws /\ homing' = NoHoming
    BY <1>1, <1>5, <1>7, NoHomingIs, Zenon DEF HomesAsked
<1>8. CASE BeginHoming
    <2>1. /\ homing'.source = env.current
          /\ homing'.revision = IF ws.source = 0 THEN env.revision ELSE ws.source
          /\ UNCHANGED ws /\ env.ready /\ ~(ws.home /\ ws.source # 0)
        BY <1>2, <1>8, BeginHomingIs, Zenon
    <2>2. ws.source # 0 => ws.source = env.revision
        <3> SUFFICES ASSUME ws.source # 0
                     PROVE  ws.source = env.revision
            OBVIOUS
        <3>1. load.commits = 0
            BY <2>1, Zenon DEF HomesAsked, RefusedAlone
        <3>2. env.revision <= 1
            BY <1>2, <1>3, <3>1, EnvFields, LeftFields, SMT DEF TInv, Typed, Counted
        <3> QED
            BY <1>3, <3>2, SMT DEF HomesAsked
    <2>3. homing'.source = homing'.revision
        BY <2>1, <2>2, Zenon DEF WInv, EnvNames
    <2> QED
        BY <1>1, <1>5, <2>1, <2>3, Zenon DEF HomesAsked
<1>9. CASE RetryDue
    <2>1. ws'.home = ws.home /\ ws'.source = ws.source /\ UNCHANGED homing
        BY <1>2, <1>9, RetryDueIs
    <2> QED
        BY <1>1, <1>5, <2>1, Zenon DEF HomesAsked
<1>10. CASE CreateHome \/ FindHome
    <2>1. homing'.pc = "record" /\ UNCHANGED ws
        BY <1>2, <1>10, CreateHomeIs, FindHomeIs, Zenon
    <2> QED
        BY <1>1, <1>5, <2>1, Zenon DEF HomesAsked
<1>11. CASE RecordHome
    <2>1. /\ ws'.home = TRUE /\ homing'.pc = "idle" /\ homing.pc = "record"
          /\ ws'.source = IF ws.source = 0 THEN homing.revision ELSE ws.source
        BY <1>2, <1>11, RecordHomeIs, NoHomingIs, Zenon
    <2>2. homing.revision \in 1..env.revision
        BY <2>1, Zenon DEF HInv, HomesFit
    <2>3. homing.revision <= env'.revision
        BY <1>3, <1>4, <2>2, SMT
    <2> QED
        BY <1>1, <1>5, <2>1, <2>3, Zenon DEF HomesAsked
<1>12. CASE HomeRejected
    <2>1. /\ load.rejects /\ homing'.pc = "idle" /\ homing.pc = "home"
          /\ ws'.source = IF ws.source = 0 THEN homing.revision ELSE ws.source
        BY <1>2, <1>12, HomeRejectedIs, NoHomingIs, Zenon
    <2>2. homing.revision \in 1..env.revision
        BY <2>1, Zenon DEF HInv, HomesFit, HomesAsked
    <2>3. homing.revision <= env'.revision
        BY <1>3, <1>4, <2>2, SMT
    <2> QED
        BY <1>1, <1>5, <2>1, <2>3, Zenon DEF HomesAsked
<1>13. CASE HomePass
    BY <1>7, <1>8, <1>9, <1>10, <1>11, <1>12, <1>13 DEF HomePass, Backoff
<1>14. CASE Users \/ Cluster
    BY <1>6, <1>14 DEF Users, RequestCommit, EditSpec, Create, AskToStop, Cluster, LoseEditor,
                       EditorReady, EditorGone, HomeBinds, ClaimBinds, ProcessEnds
<1>15. CASE EnvironmentPass
    BY <1>6, <1>15
       DEF EnvironmentPass, BeginPass, CheckCommit, StopEditor, PromoteLost, Promote, DeleteOld,
           CheckEditor, ClearEditor, CheckReplace, CheckIdle, EvictEditor, CreateCurrent,
           FindCurrent, Report
<1>16. CASE Fail \/ UNCHANGED vars
    BY <1>6, <1>7, <1>16 DEF Fail, vars
<1>17. ASSUME NEW e \in Execs, ExecPass(e)
       PROVE  HomesAsked'
    BY <1>6, <1>17 DEF ExecPass, BeginJob, StopPending, CreateDraft, CheckDraft, RecordDraft,
                       EnsureEditor, RecordEditor, StartProcess, FindLost
<1> QED
    BY <1>13, <1>14, <1>15, <1>16, <1>17 DEF Next

OneInv == /\ TInv /\ WInv /\ HInv /\ Begun /\ Committed /\ HomesAsked
          /\ One /\ RefusedAlone

LEMMA InitCommitted == Init => Committed /\ HomesAsked
<1> SUFFICES ASSUME Init
             PROVE  Committed /\ HomesAsked
    OBVIOUS
<1>1. env.revision = 0 /\ editor = NoEditor /\ ws.source = 0 /\ homing = NoHoming
    BY DEF Init
<1>2. ~(env.revision >= 2) /\ ws.source <= env.revision
    BY <1>1, SMT
<1> QED
    BY <1>1, <1>2, NoEditorIs, NoHomingIs, Zenon DEF Committed, HomesAsked

LEMMA OneStep == OneInv /\ [Next]_vars => OneInv'
<1> SUFFICES ASSUME OneInv, [Next]_vars
             PROVE  OneInv'
    OBVIOUS
<1> USE DEF OneInv
<1>1. One' /\ RefusedAlone'
    BY LoadSame, Zenon DEF One, RefusedAlone
<1>2. WritesAllFresh
    BY OneIsFresh
<1>3. [Fresh]_vars
    BY <1>2, WritesAreRecords
<1>4. HomeMatches
    BY Zenon DEF HomeMatches, HomesAsked, CreateHome
<1>5. TInv' /\ WInv' /\ HInv'
    BY <1>2, <1>3, <1>4, TypesStep, NamesStep, HomesStep
<1> QED
    BY <1>1, <1>5, BegunStep, CommittedStep, HomesAskedStep

\* With one execution a Workspace's home holds what its recorded revision held
\* when it was committed, in every behaviour in which the API server does not
\* refuse a home between commits: nothing is written to a volume once
\* reconcileEnvironmentCommit has promoted it, although an editor may mount it.
THEOREM HomeIsRevisionOne == Spec /\ One /\ RefusedAlone => []HomeIsRevision
<1>1. Init /\ One /\ RefusedAlone => OneInv
    BY InitTypes, InitNames, InitHomes, InitBegun, InitCommitted DEF OneInv
<1>2. OneInv => HomeIsRevision
    BY HomeIsTagged DEF OneInv
<1> QED
    BY <1>1, <1>2, OneStep, PTL DEF Spec
=============================================================================
