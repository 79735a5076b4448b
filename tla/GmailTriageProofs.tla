-------------------------- MODULE GmailTriageProofs --------------------------
(***************************************************************************)
(* What a Shadow run of GmailTriage owes the mail it claims, proved for    *)
(* every set of threads, contexts, answers and mailbox changes and all     *)
(* bounds: nothing is acknowledged undecided and "complete" is never a     *)
(* false all-clear; and every step of the composed system is a transaction *)
(* of the store of GmailMirror, so what GmailMirrorProofs proves of the    *)
(* store under any caller holds of it.                                     *)
(*                                                                         *)
(* RunInv is what CompletedIsDecided needs of the run in progress to be    *)
(* inductive: what a run knows about its tickets in each of its phases.    *)
(***************************************************************************)
EXTENDS GmailTriage, GmailMirrorProofs

\* The mailbox has a history id as soon as a full scan has completed.
HistoryKnown ==
    checkpoint.complete \/ checkpoint.mode = "incremental" => checkpoint.hist # 0

\* The run's own state: it has a context once it started, and what it claimed
\* carries a generation the store gave it.
Phases == {"idle", "started", "claimed", "detected", "acking"}
Claims == [thread : Threads, rev : Revisions, gen : Nat \ {0}, seq : Nat,
           err : Errors]
Runs == [phase : Phases, ctx : Contexts \cup {NoContext}, tickets : SUBSET Claims,
         verdict : UNION {[S -> Verdicts] : S \in SUBSET Threads},
         covered : BOOLEAN, age : 0..DeferTicks]

RunType ==
    /\ context \in Contexts
    /\ run \in Runs
    /\ run.phase # "idle" => run.ctx \in Contexts
    /\ decided \subseteq Threads \X LiveRevisions \X Contexts

\* A detection has an answer for every claim that needs one.
Answered ==
    run.phase = "detected" =>
        /\ DOMAIN run.verdict = {k.thread : k \in ToDetect}
        /\ \A t \in DOMAIN run.verdict : run.verdict[t] \in Verdicts

\* A live claim still to be acknowledged is decided, unless it is deferred.
TicketsDecided ==
    run.phase = "acking" =>
        \A k \in run.tickets :
            k.rev \in LiveRevisions =>
                Deferred(k) \/ <<k.thread, k.rev, run.ctx>> \in decided

\* A run that still counts as covered has revalidated every item.
CoveredItems ==
    run.phase = "acking" /\ run.covered => \A t \in Threads : ~Synthetic(item[t])

RunInv == RunType /\ Answered /\ TicketsDecided /\ CoveredItems

TriageInv == MirrorInv /\ HistoryKnown /\ RunInv /\ CompletedIsDecided

-----------------------------------------------------------------------------
(* Rows that are completed *)

\* The store completes no row on its own: only an acknowledgement does.
NoneCompleted ==
    \A t \in Threads, r \in Revisions :
        queue'[t][r].state = "completed" =>
            queue[t][r].state = "completed" /\ queue'[t][r].ctx = queue[t][r].ctx

LEMMA ApplyCompletesNone ==
    ASSUME TypeOK, Apply
    PROVE  NoneCompleted
<1>1. PICK u \in Updates, got \in [Threads -> Outcomes] :
        /\ \A t \in Threads \ Changed(u, got) : Stays(t)
        /\ \E seq \in [Changed(u, got) -> Nat] :
             \A t \in Changed(u, got) : Moves(t, Target(u, got[t]), seq[t])
  BY ApplyCases
<1>2. ASSUME NEW t \in Threads, NEW r \in Revisions,
             queue'[t][r].state = "completed"
      PROVE  queue[t][r].state = "completed" /\ queue'[t][r].ctx = queue[t][r].ctx
  <2>1. queue[t][r] \in Rows
    BY DEF TypeOK
  <2>2. CASE t \in Changed(u, got)
    <3>1. PICK n \in Nat : Moves(t, Target(u, got[t]), n)
      BY <1>1, <2>2
    <3>2. \/ queue'[t][r] = Enqueued(queue[t][r], n)
          \/ queue'[t][r] = Superseded(queue[t][r])
      BY <3>1 DEF Moves
    <3>3. Enqueued(queue[t][r], n).state = "pending"
      BY <2>1, EnqueuedRow
    <3>4. queue'[t][r] = Superseded(queue[t][r])
      BY <1>2, <3>2, <3>3
    <3>5. CASE queue[t][r].state \in Active
      <4>1. Superseded(queue[t][r]).state = "superseded"
        BY <2>1, <3>5 DEF Superseded, Rows
      <4>. QED BY <1>2, <3>4, <4>1
    <3>6. CASE queue[t][r].state \notin Active
      BY <1>2, <3>4, <3>6 DEF Superseded
    <3>. QED BY <3>5, <3>6
  <2>3. CASE t \notin Changed(u, got)
    BY <1>1, <1>2, <2>3 DEF Stays
  <2>. QED BY <2>2, <2>3
<1>. QED BY <1>2 DEF NoneCompleted

LEMMA ClaimCompletesNone ==
    ASSUME TypeOK, Claim
    PROVE  NoneCompleted
<1>1. PICK ctx \in Contexts \cup {NoContext} : ClaimPendingTriage(ctx)
  BY DEF Claim
<1>2. queue' = QueueAfterClaim(ctx)
  BY <1>1 DEF ClaimPendingTriage
<1>3. ASSUME NEW t \in Threads, NEW r \in Revisions,
             queue'[t][r].state = "completed"
      PROVE  queue[t][r].state = "completed" /\ queue'[t][r].ctx = queue[t][r].ctx
  <2>1. queue[t][r] \in Rows
    BY DEF TypeOK
  <2>2. Expired(queue[t][r]) \in Rows
    BY <2>1, ExpiredRow
  <2>3. CASE t \in Chosen(ctx) /\ r = pointer[t].rev
    <3>1. queue'[t][r] = Claimed(Expired(queue[t][r]))
      BY <1>2, <2>3 DEF QueueAfterClaim
    <3>. QED BY <1>3, <2>2, <3>1, ClaimedRow
  <2>4. CASE ~(t \in Chosen(ctx) /\ r = pointer[t].rev)
    <3>1. queue'[t][r] = Expired(queue[t][r])
      BY <1>2, <2>4 DEF QueueAfterClaim
    <3>2. CASE queue[t][r].state = "processing" /\ queue[t][r].lease = 0
      <4>1. Expired(queue[t][r]).state = "deferred"
        BY <2>1, <3>2 DEF Expired, Rows
      <4>. QED BY <1>3, <3>1, <4>1
    <3>3. CASE ~(queue[t][r].state = "processing" /\ queue[t][r].lease = 0)
      BY <1>3, <3>1, <3>3 DEF Expired
    <3>. QED BY <3>2, <3>3
  <2>. QED BY <2>3, <2>4
<1>. QED BY <1>3 DEF NoneCompleted

LEMMA TickCompletesNone ==
    ASSUME TypeOK, Tick
    PROVE  NoneCompleted
<1>1. ASSUME NEW t \in Threads, NEW r \in Revisions
      PROVE  queue'[t][r].state = queue[t][r].state
             /\ queue'[t][r].ctx = queue[t][r].ctx
  <2>1. queue[t][r] \in Rows
    BY DEF TypeOK
  <2>2. queue'[t][r]
          = [queue[t][r] EXCEPT !.lease = Minus1(@), !.avail = Minus1(@)]
    BY DEF Tick
  <2>. QED BY <2>1, <2>2 DEF Rows
<1>. QED BY <1>1 DEF NoneCompleted

-----------------------------------------------------------------------------
(* Every step is a transaction of the store *)

\* What the mailbox sync commits is an update that _save_checkpoint accepts.
LEMMA UnitAllowed ==
    ASSUME TypeOK, HistoryKnown, NEW complete \in BOOLEAN,
           MailboxUnit(complete).hist <= MaxHistory
    PROVE  /\ MailboxUnit(complete) \in Updates
           /\ ValidUpdate(MailboxUnit(complete))
           /\ Marker(MailboxUnit(complete)) # 0
<1> DEFINE u == MailboxUnit(complete)
<1>1. SomeToken \in Tokens /\ SomeToken # NoToken /\ NoToken \in Tokens
  BY TriageAssumption, IdentityAssumption DEF SomeToken
<1>2. /\ checkpoint.gen \in Nat /\ checkpoint.hist \in 0..MaxHistory
      /\ checkpoint.mode \in Modes /\ checkpoint.complete \in BOOLEAN
  BY DEF TypeOK, Checkpoints, Histories
<1>3. MaxHistory \in Nat /\ 1 \in 0..MaxHistory /\ 0 \in 0..MaxHistory
  BY NumberAssumption, TriageAssumption
<1>4. u.mode \in Modes /\ (u.mode = "full" \/ u.mode = "incremental")
  BY <1>2 DEF MailboxUnit, Modes
<1>5. CASE complete
  <2>1. /\ u.token = NoToken /\ u.baseline = 0 /\ u.contHist = 0 /\ u.pending = {}
        /\ u.complete = TRUE /\ u.expected = checkpoint.gen /\ u.reset = FALSE
        /\ u.hist = checkpoint.hist + 1
    BY <1>5 DEF MailboxUnit
  <2>2. u.hist \in 0..MaxHistory /\ u.hist # 0
    BY <1>2, <1>3, <2>1
  <2>3. u \in Updates
    BY <1>1, <1>2, <1>3, <1>4, <2>1, <2>2 DEF MailboxUnit, Updates, Histories
  <2>4. ValidUpdate(u) /\ Marker(u) # 0
    BY <2>1, <2>2 DEF ValidUpdate, Marker
  <2>. QED BY <2>3, <2>4
<1>6. CASE ~complete /\ u.mode = "full"
  <2>1. /\ u.token = SomeToken /\ u.baseline = 1 /\ u.contHist = 0 /\ u.pending = {}
        /\ u.complete = FALSE /\ u.expected = checkpoint.gen /\ u.reset = FALSE
        /\ u.hist = checkpoint.hist
    BY <1>2, <1>6 DEF MailboxUnit
  <2>2. u \in Updates
    BY <1>1, <1>2, <1>3, <1>4, <2>1 DEF MailboxUnit, Updates, Histories
  <2>3. ValidUpdate(u)
    BY <1>6, <2>1 DEF ValidUpdate
  <2>4. Marker(u) # 0
    BY <2>1 DEF Marker
  <2>. QED BY <2>2, <2>3, <2>4
<1>7. CASE ~complete /\ u.mode = "incremental"
  <2>1. /\ u.token = NoToken /\ u.baseline = 0 /\ u.pending = {}
        /\ u.complete = FALSE /\ u.expected = checkpoint.gen /\ u.reset = FALSE
        /\ u.hist = checkpoint.hist /\ u.contHist = checkpoint.hist
    BY <1>2, <1>7 DEF MailboxUnit
  <2>2. checkpoint.hist # 0
    BY <1>7 DEF HistoryKnown, MailboxUnit
  <2>3. u \in Updates
    BY <1>1, <1>2, <1>3, <1>4, <2>1 DEF MailboxUnit, Updates, Histories
  <2>4. ValidUpdate(u)
    BY <1>7, <2>1, <2>2 DEF ValidUpdate
  <2>5. Marker(u) # 0
    BY <2>1, <2>2 DEF Marker
  <2>. QED BY <2>3, <2>4, <2>5
<1>. QED BY <1>4, <1>5, <1>6, <1>7

LEMMA SyncMailboxApplies ==
    ASSUME TypeOK, HistoryKnown, SyncMailbox
    PROVE  Apply
<1>1. PICK complete \in BOOLEAN, got \in [Threads -> Outcomes] :
        /\ MailboxUnit(complete).hist <= MaxHistory
        /\ ApplySyncUnit(MailboxUnit(complete), got, FALSE, MaxParser)
  BY DEF SyncMailbox
<1>2. /\ MailboxUnit(complete) \in Updates /\ ValidUpdate(MailboxUnit(complete))
      /\ Marker(MailboxUnit(complete)) # 0
  BY <1>1, UnitAllowed
<1>3. MaxParser \in Parsers
  BY NumberAssumption, TriageAssumption DEF Parsers
<1>. QED BY <1>1, <1>2, <1>3 DEF Apply

\* An acknowledgement is a finish_triage the store allows, or is ignored.
LEMMA AckFinishes ==
    ASSUME TypeOK, RunType, Ack
    PROVE  Finish \/ UNCHANGED mirrorVars
<1>1. PICK k \in run.tickets :
        \/ UNCHANGED mirrorVars
        \/ FinishTriage(k.thread, k.rev, k.gen, "deferred", NoContext, RetryIn, "other")
        \/ FinishTriage(k.thread, k.rev, k.gen, "completed", run.ctx, 0, "none")
  BY DEF Ack
<1>2. k.thread \in Threads /\ k.rev \in Revisions /\ k.gen \in Nat /\ k.gen # 0
  BY DEF RunType, Runs, Claims
<1>3. ASSUME NEW state \in FinishStates, NEW ctx \in Contexts \cup {NoContext},
             NEW avail \in 0..DeferTicks, NEW err \in FinishErrors,
             FinishTriage(k.thread, k.rev, k.gen, state, ctx, avail, err)
      PROVE  Finish
  <2>1. /\ k.rev \in Revisions /\ pointer[k.thread].rev = k.rev
        /\ queue[k.thread][k.rev].gen = k.gen
    BY <1>3 DEF FinishTriage, Finishable
  <2>2. k.gen \in 1..queue[k.thread][pointer[k.thread].rev].gen
    BY <1>2, <2>1
  <2>3. pointer[k.thread].rev # NoRevision
    BY <2>1, RevisionAssumption
  <2>4. FinishTriage(k.thread, pointer[k.thread].rev, k.gen, state, ctx, avail, err)
    BY <1>3, <2>1
  <2>. QED BY <1>2, <2>2, <2>3, <2>4 DEF Finish, FinishStates, FinishErrors
<1>4. RetryIn \in 0..DeferTicks /\ 0 \in 0..DeferTicks
  BY NumberAssumption DEF RetryIn, RunType, Runs
<1>5. run.ctx \in Contexts
  BY DEF Ack, RunType
<1>6. /\ "deferred" \in FinishStates /\ "completed" \in FinishStates
      /\ "other" \in FinishErrors /\ "none" \in FinishErrors
  BY DEF FinishStates, FinishErrors
<1>7. CASE UNCHANGED mirrorVars
  BY <1>7
<1>8. CASE FinishTriage(k.thread, k.rev, k.gen, "deferred", NoContext, RetryIn, "other")
  BY <1>3, <1>4, <1>6, <1>8
<1>9. CASE FinishTriage(k.thread, k.rev, k.gen, "completed", run.ctx, 0, "none")
  BY <1>3, <1>4, <1>5, <1>6, <1>9
<1>. QED BY <1>1, <1>7, <1>8, <1>9

\* A step of the composed system is a step of the store, or leaves it alone.
LEMMA TriageStepsStore ==
    ASSUME TypeOK, HistoryKnown, RunType, [TriageNext]_triageVars
    PROVE  [Next]_mirrorVars
<1>1. CASE SyncMailbox
  BY <1>1, SyncMailboxApplies DEF Next
<1>2. CASE ClaimWork
  BY <1>2 DEF ClaimWork, RunType, Next, Claim
<1>3. CASE Ack
  BY <1>3, AckFinishes DEF Next
<1>4. CASE TimePasses
  BY <1>4 DEF TimePasses, Next
<1>5. CASE StartRun \/ Detect \/ Persist \/ EndRun \/ Interrupt \/ Upgrade
  BY <1>5 DEF StartRun, Detect, Persist, EndRun, Interrupt, Upgrade
<1>6. CASE UNCHANGED triageVars
  BY <1>6 DEF triageVars, mirrorVars
<1>. QED BY <1>1, <1>2, <1>3, <1>4, <1>5, <1>6 DEF TriageNext, RunStep

-----------------------------------------------------------------------------
(* The invariant of a run *)

LEMMA HistoryStaysKnown ==
    ASSUME TypeOK, HistoryKnown, [TriageNext]_triageVars
    PROVE  HistoryKnown'
<1>1. CASE SyncMailbox
  <2>1. PICK complete \in BOOLEAN :
          \E n : checkpoint' = CheckpointAfter(MailboxUnit(complete), n)
    BY <1>1 DEF SyncMailbox, ApplySyncUnit
  <2>2. /\ checkpoint'.complete = complete
        /\ checkpoint'.mode = IF checkpoint.complete THEN "incremental" ELSE checkpoint.mode
        /\ checkpoint'.hist = checkpoint.hist + (IF complete THEN 1 ELSE 0)
    BY <2>1 DEF CheckpointAfter, MailboxUnit
  <2>3. checkpoint.hist \in Nat
    BY NumberAssumption DEF TypeOK, Checkpoints, Histories
  <2>4. CASE complete
    <3>1. checkpoint'.hist = checkpoint.hist + 1
      BY <2>2, <2>4
    <3>2. checkpoint'.hist # 0
      BY <2>3, <3>1
    <3>. QED BY <3>2 DEF HistoryKnown
  <2>5. CASE ~complete
    <3>1. checkpoint'.hist = checkpoint.hist
      BY <2>2, <2>3, <2>5
    <3>. QED BY <2>2, <2>5, <3>1 DEF HistoryKnown
  <2>. QED BY <2>4, <2>5
<1>2. CASE ClaimWork
  BY <1>2 DEF ClaimWork, ClaimPendingTriage, HistoryKnown
<1>3. CASE Ack
  BY <1>3 DEF Ack, FinishTriage, mirrorVars, HistoryKnown
<1>4. CASE TimePasses
  BY <1>4 DEF TimePasses, Tick, HistoryKnown
<1>5. CASE StartRun \/ Detect \/ Persist \/ EndRun \/ Interrupt \/ Upgrade
  BY <1>5 DEF StartRun, Detect, Persist, EndRun, Interrupt, Upgrade, mirrorVars, HistoryKnown
<1>6. CASE UNCHANGED triageVars
  BY <1>6 DEF triageVars, HistoryKnown
<1>. QED BY <1>1, <1>2, <1>3, <1>4, <1>5, <1>6 DEF TriageNext, RunStep

\* A ticket is a claim of a current revision, with the generation it was given.
LEMMA ClaimedTickets ==
    ASSUME TypeOK, RunType, ClaimWork
    PROVE  run'.tickets \subseteq [thread : Threads, rev : Revisions,
                                   gen : Nat \ {0}, seq : Nat, err : Errors]
<1> SUFFICES ASSUME NEW t \in Chosen(run.ctx)
             PROVE  /\ t \in Threads /\ pointer[t].rev \in Revisions
                    /\ queue'[t][pointer[t].rev].gen \in Nat \ {0}
                    /\ queue[t][pointer[t].rev].seq \in Nat
                    /\ queue'[t][pointer[t].rev].err \in Errors
  <2>1. run'.tickets = {[thread |-> t, rev |-> pointer[t].rev,
                         gen |-> queue'[t][pointer[t].rev].gen,
                         seq |-> queue[t][pointer[t].rev].seq,
                         err |-> queue'[t][pointer[t].rev].err] :
                           t \in Chosen(run.ctx)}
    BY DEF ClaimWork, RunType, Runs
  <2>. QED BY <2>1
<1> DEFINE r == pointer[t].rev
           row == Expired(queue[t][r])
<1>1. t \in Threads /\ r # NoRevision
  BY DEF Chosen, Claimable
<1>2. r \in Revisions
  BY <1>1 DEF TypeOK
<1>3. queue[t][r] \in Rows
  BY <1>1, <1>2 DEF TypeOK
<1>4. row \in Rows
  BY <1>3, ExpiredRow
<1>5. queue'[t][r] = Claimed(row)
  BY <1>1, <1>2 DEF ClaimWork, ClaimPendingTriage, QueueAfterClaim
<1> HIDE DEF r, row
<1>6. row.gen \in Nat /\ row.err \in Errors
  BY <1>4 DEF Rows
<1>7. Claimed(row).gen = row.gen + 1 /\ Claimed(row).err = row.err
  BY <1>4 DEF Claimed, Rows
<1>8. queue'[t][r].gen \in Nat \ {0}
  BY <1>5, <1>6, <1>7
<1>9. queue'[t][r].err \in Errors
  BY <1>5, <1>6, <1>7
<1>10. queue[t][r].seq \in Nat
  BY <1>3 DEF Rows
<1>. QED BY <1>1, <1>2, <1>8, <1>9, <1>10 DEF r

\* The decisions a run commits are about live revisions in its own context.
LEMMA NewlyDecidedType ==
    ASSUME RunType, run.phase # "idle"
    PROVE  NewlyDecided \subseteq Threads \X LiveRevisions \X Contexts
<1>1. \A k \in ToDetect : k.thread \in Threads /\ k.rev \in LiveRevisions
  BY DEF ToDetect, RunType, Runs, Claims
<1>2. run.ctx \in Contexts
  BY DEF RunType
<1>. QED BY <1>1, <1>2 DEF NewlyDecided

LEMMA RunTypeStep ==
    ASSUME TypeOK, RunType, [TriageNext]_triageVars
    PROVE  RunType'
<1>0. IdleRun \in Runs /\ IdleRun.phase = "idle"
  <2>1. 0 \in 0..DeferTicks
    BY NumberAssumption
  <2>2. [t \in {} |-> Uncertain] \in UNION {[S -> Verdicts] : S \in SUBSET Threads}
    <3>1. [t \in {} |-> Uncertain] \in [{} -> Verdicts]
      OBVIOUS
    <3>. QED BY <3>1
  <2>. QED BY <2>1, <2>2 DEF IdleRun, Runs, Phases
<1>1. CASE SyncMailbox \/ UNCHANGED triageVars
  BY <1>1 DEF SyncMailbox, triageVars, opsVars, RunType
<1>2. CASE StartRun
  <2>1. context \in Contexts /\ checkpoint.complete \in BOOLEAN
    BY DEF RunType, TypeOK, Checkpoints
  <2>2. run' = [IdleRun EXCEPT !.phase = "started", !.ctx = context,
                               !.covered = checkpoint.complete]
    BY <1>2 DEF StartRun
  <2> HIDE DEF IdleRun
  <2>3. run' \in Runs /\ run'.ctx = context
    BY <1>0, <2>1, <2>2 DEF Runs, Phases
  <2>. QED BY <1>2, <2>3 DEF StartRun, opsVars, RunType
<1>3. CASE ClaimWork
  <2>1. PICK tickets : run' = [run EXCEPT !.phase = "claimed", !.tickets = tickets]
    BY <1>3 DEF ClaimWork
  <2>2. run'.tickets = tickets
    BY <2>1 DEF RunType, Runs
  <2>3. tickets \in SUBSET Claims
    BY <1>3, <2>2, ClaimedTickets DEF Claims
  <2>4. run' \in Runs /\ run'.ctx = run.ctx
    BY <2>1, <2>3 DEF RunType, Runs, Phases
  <2>. QED BY <1>3, <2>4 DEF ClaimWork, opsVars, RunType
<1>4. CASE Detect
  <2>1. PICK verdict \in [{k.thread : k \in ToDetect} -> Verdicts] :
            run' = [run EXCEPT !.phase = "detected", !.verdict = verdict]
    BY <1>4 DEF Detect
  <2>2. {k.thread : k \in ToDetect} \in SUBSET Threads
    BY DEF ToDetect, RunType, Runs, Claims
  <2>3. verdict \in UNION {[S -> Verdicts] : S \in SUBSET Threads}
    BY <2>1, <2>2
  <2>4. run' \in Runs /\ run'.ctx = run.ctx
    BY <2>1, <2>3 DEF RunType, Runs, Phases
  <2>. QED BY <1>4, <2>4 DEF Detect, opsVars, RunType
<1>5. CASE Persist
  <2>1. CASE UnitCommits
    <3>1. PICK covered \in BOOLEAN :
            run' = [run EXCEPT !.phase = "acking", !.covered = covered]
      BY <1>5, <2>1 DEF Persist
    <3>2. run' \in Runs /\ run'.ctx = run.ctx
      BY <3>1 DEF RunType, Runs, Phases
    <3>3. context' = context /\ decided' = decided \cup NewlyDecided /\ run.phase # "idle"
      BY <1>5, <2>1 DEF Persist
    <3>. QED BY <3>2, <3>3, NewlyDecidedType DEF RunType
  <2>2. CASE ~UnitCommits
    <3>1. run' = IdleRun /\ decided' = decided /\ context' = context
      BY <1>5, <2>2 DEF Persist, opsVars
    <3>. QED BY <1>0, <3>1 DEF RunType
  <2>. QED BY <2>1, <2>2
<1>6. CASE Ack
  <2>1. PICK k \in run.tickets : run' = [run EXCEPT !.tickets = @ \ {k}]
    BY <1>6 DEF Ack
  <2>2. run' \in Runs /\ run'.ctx = run.ctx
    BY <2>1 DEF RunType, Runs
  <2>. QED BY <1>6, <2>2 DEF Ack, opsVars, RunType
<1>7. CASE EndRun \/ Interrupt
  <2>1. run' = IdleRun /\ decided' = decided /\ context' = context
    BY <1>7 DEF EndRun, Interrupt, opsVars
  <2>. QED BY <1>0, <2>1 DEF RunType
<1>8. CASE Upgrade
  BY <1>8 DEF Upgrade, opsVars, RunType
<1>9. CASE TimePasses
  <2>1. PICK age \in 0..DeferTicks : run' = [run EXCEPT !.age = age]
    <3>1. run.age \in 0..DeferTicks
      BY DEF RunType, Runs
    <3>2. CASE run.phase = "idle" \/ run.age = DeferTicks
      BY <1>9, <3>1, <3>2 DEF TimePasses
    <3>3. CASE ~(run.phase = "idle" \/ run.age = DeferTicks)
      <4>1. run.age + 1 \in 0..DeferTicks
        BY <3>1, <3>3, NumberAssumption
      <4>. QED BY <1>9, <3>3, <4>1 DEF TimePasses
    <3>. QED BY <3>2, <3>3
  <2>2. run' \in Runs /\ run'.ctx = run.ctx /\ run'.phase = run.phase
    BY <2>1 DEF RunType, Runs
  <2>. QED BY <1>9, <2>2 DEF TimePasses, opsVars, RunType
<1>. QED BY <1>1, <1>2, <1>3, <1>4, <1>5, <1>6, <1>7, <1>8, <1>9 DEF TriageNext, RunStep

\* The phase that each step of a run leaves it in.
LEMMA PhaseAfter ==
    ASSUME RunType
    PROVE  /\ StartRun => run'.phase = "started"
           /\ ClaimWork => run'.phase = "claimed"
           /\ Detect => run'.phase = "detected"
           /\ Persist => run'.phase \in {"acking", "idle"}
           /\ Ack => run'.phase = "acking"
           /\ EndRun \/ Interrupt => run'.phase = "idle"
<1>1. StartRun => run'.phase = "started"
  BY DEF StartRun, IdleRun
<1>2. ClaimWork => run'.phase = "claimed"
  BY DEF ClaimWork, RunType, Runs
<1>3. Detect => run'.phase = "detected"
  BY DEF Detect, RunType, Runs
<1>4. ASSUME Persist PROVE run'.phase \in {"acking", "idle"}
  <2>1. CASE UnitCommits
    <3>1. PICK covered : run' = [run EXCEPT !.phase = "acking", !.covered = covered]
      BY <1>4, <2>1 DEF Persist
    <3>. QED BY <3>1 DEF RunType, Runs
  <2>2. CASE ~UnitCommits
    BY <1>4, <2>2 DEF Persist, IdleRun
  <2>. QED BY <2>1, <2>2
<1>5. Ack => run'.phase = "acking"
  BY DEF Ack, RunType, Runs
<1>6. EndRun \/ Interrupt => run'.phase = "idle"
  BY DEF EndRun, Interrupt, IdleRun
<1>. QED BY <1>1, <1>2, <1>3, <1>4, <1>5, <1>6

\* A detection answers for every claim it has to, and no one else.
LEMMA AnsweredStep ==
    ASSUME RunType, Answered, [TriageNext]_triageVars
    PROVE  Answered'
<1>1. CASE Detect
  <2>1. PICK verdict \in [{k.thread : k \in ToDetect} -> Verdicts] :
            run' = [run EXCEPT !.phase = "detected", !.verdict = verdict]
    BY <1>1 DEF Detect
  <2>2. /\ run'.verdict = verdict /\ run'.tickets = run.tickets /\ run'.ctx = run.ctx
        /\ decided' = decided
    BY <1>1, <2>1 DEF Detect, opsVars, RunType, Runs
  <2>3. ToDetect' = ToDetect
    BY <2>2 DEF ToDetect, Cached
  <2>. QED BY <2>1, <2>2, <2>3 DEF Answered
<1>2. CASE SyncMailbox \/ Upgrade \/ TimePasses \/ UNCHANGED triageVars
  <2>1. /\ run'.phase = run.phase /\ run'.verdict = run.verdict
        /\ run'.tickets = run.tickets /\ run'.ctx = run.ctx /\ decided' = decided
    BY <1>2 DEF SyncMailbox, Upgrade, TimePasses, triageVars, opsVars,
                 RunType, Runs
  <2>2. ToDetect' = ToDetect
    BY <2>1 DEF ToDetect, Cached
  <2>. QED BY <2>1, <2>2 DEF Answered
<1>3. CASE StartRun \/ ClaimWork \/ Persist \/ Ack \/ EndRun \/ Interrupt
  <2>1. run'.phase # "detected"
    BY <1>3, PhaseAfter
  <2>. QED BY <2>1 DEF Answered
<1>. QED BY <1>1, <1>2, <1>3 DEF TriageNext, RunStep

\* The operational commit decides every live claim that it does not defer.
LEMMA CommitDecides ==
    ASSUME RunType, Answered, run.phase = "detected",
           NEW k \in run.tickets, k.rev \in LiveRevisions
    PROVE  Deferred(k) \/ <<k.thread, k.rev, run.ctx>> \in decided \cup NewlyDecided
<1>1. CASE Cached(k)
  BY <1>1 DEF Cached
<1>2. CASE ~Cached(k)
  <2>1. k \in ToDetect
    BY <1>2 DEF ToDetect
  <2>2. k.thread \in DOMAIN run.verdict
    BY <2>1 DEF Answered
  <2>3. run.verdict[k.thread].disposition \in {"surfaced", "suppressed", "deferred"}
    BY <2>2 DEF Answered, Verdicts
  <2>4. CASE run.verdict[k.thread].disposition = "deferred"
    BY <2>2, <2>4 DEF Deferred, ToDefer
  <2>5. CASE run.verdict[k.thread].disposition \in {"surfaced", "suppressed"}
    BY <2>1, <2>5 DEF NewlyDecided
  <2>. QED BY <2>3, <2>4, <2>5
<1>. QED BY <1>1, <1>2

LEMMA TicketsDecidedStep ==
    ASSUME RunType, Answered, TicketsDecided, [TriageNext]_triageVars
    PROVE  TicketsDecided'
<1>1. CASE Persist
  <2>1. CASE UnitCommits
    <3>1. /\ run.phase = "detected" /\ decided' = decided \cup NewlyDecided
          /\ run'.tickets = run.tickets /\ run'.ctx = run.ctx
          /\ run'.verdict = run.verdict
      BY <1>1, <2>1 DEF Persist, RunType, Runs
    <3>2. ASSUME NEW k \in run.tickets, k.rev \in LiveRevisions
          PROVE  Deferred(k)' \/ <<k.thread, k.rev, run'.ctx>> \in decided'
      <4>1. Deferred(k) \/ <<k.thread, k.rev, run.ctx>> \in decided \cup NewlyDecided
        BY <3>1, <3>2, CommitDecides
      <4>. QED BY <3>1, <4>1 DEF Deferred
    <3>. QED BY <3>1, <3>2 DEF TicketsDecided
  <2>2. CASE ~UnitCommits
    BY <1>1, <2>2 DEF Persist, IdleRun, TicketsDecided
  <2>. QED BY <2>1, <2>2
<1>2. CASE Ack \/ SyncMailbox \/ Upgrade \/ TimePasses \/ UNCHANGED triageVars
  <2>1. /\ run'.phase = run.phase /\ run'.verdict = run.verdict /\ run'.ctx = run.ctx
        /\ run'.tickets \subseteq run.tickets /\ decided' = decided
    <3>1. CASE Ack
      BY <3>1 DEF Ack, opsVars, RunType, Runs
    <3>2. CASE TimePasses
      BY <3>2 DEF TimePasses, opsVars, RunType, Runs
    <3>3. CASE SyncMailbox \/ Upgrade \/ UNCHANGED triageVars
      BY <3>3 DEF SyncMailbox, Upgrade, triageVars, opsVars
    <3>. QED BY <1>2, <3>1, <3>2, <3>3
  <2>2. ASSUME run'.phase = "acking", NEW k \in run'.tickets, k.rev \in LiveRevisions
        PROVE  Deferred(k)' \/ <<k.thread, k.rev, run'.ctx>> \in decided'
    <3>1. Deferred(k) \/ <<k.thread, k.rev, run.ctx>> \in decided
      BY <2>1, <2>2 DEF TicketsDecided
    <3>2. Deferred(k)' <=> Deferred(k)
      BY <2>1 DEF Deferred
    <3>. QED BY <2>1, <3>1, <3>2
  <2>. QED BY <2>2 DEF TicketsDecided
<1>3. CASE StartRun \/ ClaimWork \/ Detect \/ EndRun \/ Interrupt
  <2>1. run'.phase # "acking"
    BY <1>3, PhaseAfter
  <2>. QED BY <2>1 DEF TicketsDecided
<1>. QED BY <1>1, <1>2, <1>3 DEF TriageNext, RunStep

LEMMA CoveredItemsStep ==
    ASSUME RunType, CoveredItems, [TriageNext]_triageVars
    PROVE  CoveredItems'
<1>1. CASE Persist
  <2>1. CASE UnitCommits
    <3>1. /\ item' = ItemAfter
          /\ run'.covered => \A t \in Threads : ~Synthetic(ItemAfter[t])
      BY <1>1, <2>1 DEF Persist, RunType, Runs
    <3>. QED BY <3>1 DEF CoveredItems, Synthetic
  <2>2. CASE ~UnitCommits
    BY <1>1, <2>2 DEF Persist, IdleRun, CoveredItems
  <2>. QED BY <2>1, <2>2
<1>2. CASE Ack \/ SyncMailbox \/ Upgrade \/ TimePasses \/ UNCHANGED triageVars
  <2>1. run'.phase = run.phase /\ run'.covered = run.covered /\ item' = item
    BY <1>2 DEF Ack, SyncMailbox, Upgrade, TimePasses, triageVars, opsVars,
                 RunType, Runs
  <2>. QED BY <2>1 DEF CoveredItems, Synthetic
<1>3. CASE StartRun \/ ClaimWork \/ Detect \/ EndRun \/ Interrupt
  <2>1. run'.phase # "acking"
    BY <1>3, PhaseAfter
  <2>. QED BY <2>1 DEF CoveredItems
<1>. QED BY <1>1, <1>2, <1>3 DEF TriageNext, RunStep

-----------------------------------------------------------------------------
(* Nothing is completed undecided *)

\* An acknowledgement as completed is of a ticket that the commit decided.
LEMMA AckIsDecided ==
    ASSUME TypeOK, RunType, TicketsDecided, CompletedIsDecided, Ack
    PROVE  CompletedIsDecided'
<1>1. decided' = decided /\ run.phase = "acking"
  BY DEF Ack, opsVars
<1>2. PICK k \in run.tickets :
        IF ~Finishable(k.thread, k.rev, k.gen) THEN UNCHANGED mirrorVars
        ELSE IF Deferred(k)
        THEN FinishTriage(k.thread, k.rev, k.gen, "deferred", NoContext, RetryIn, "other")
        ELSE FinishTriage(k.thread, k.rev, k.gen, "completed", run.ctx, 0, "none")
  BY DEF Ack
<1> DEFINE k1 == k.thread
           k2 == k.rev
<1>3. k1 \in Threads /\ k2 \in Revisions
  BY DEF RunType, Runs, Claims
<1>4. CASE UNCHANGED mirrorVars
  BY <1>1, <1>4 DEF mirrorVars, CompletedIsDecided
<1>5. ASSUME NEW state, NEW ctx, NEW avail, NEW err,
             FinishTriage(k1, k2, k.gen, state, ctx, avail, err),
             state = "completed" =>
                ctx = run.ctx /\ (k2 \in LiveRevisions => <<k1, k2, run.ctx>> \in decided)
      PROVE  CompletedIsDecided'
  <2>1. queue' = [queue EXCEPT ![k1][k2] = Finished(@, state, ctx, avail, err)]
    BY <1>5 DEF FinishTriage
  <2>2. ASSUME NEW t \in Threads, NEW r \in LiveRevisions,
               queue'[t][r].state = "completed"
        PROVE  <<t, r, queue'[t][r].ctx>> \in decided
    <3>1. r \in Revisions
      BY DEF Revisions
    <3>2. CASE t = k1 /\ r = k2
      <4>1. queue'[t][r] = Finished(queue[t][r], state, ctx, avail, err)
        BY <2>1, <3>1, <3>2 DEF TypeOK
      <4>2. queue[t][r] \in Rows
        BY <3>1 DEF TypeOK
      <4>3. queue'[t][r].state = state /\ queue'[t][r].ctx = ctx
        BY <4>1, <4>2 DEF Finished, Rows
      <4>. QED BY <1>5, <2>2, <3>2, <4>3
    <3>3. CASE ~(t = k1 /\ r = k2)
      <4>1. queue'[t][r] = queue[t][r]
        BY <1>3, <2>1, <3>1, <3>3 DEF TypeOK
      <4>. QED BY <2>2, <4>1 DEF CompletedIsDecided
    <3>. QED BY <3>2, <3>3
  <2>. QED BY <1>1, <2>2 DEF CompletedIsDecided
<1>6. CASE Deferred(k) /\ FinishTriage(k1, k2, k.gen, "deferred", NoContext, RetryIn, "other")
  BY <1>5, <1>6
<1>7. CASE ~Deferred(k) /\ FinishTriage(k1, k2, k.gen, "completed", run.ctx, 0, "none")
  <2>1. k2 \in LiveRevisions => <<k1, k2, run.ctx>> \in decided
    BY <1>1, <1>7 DEF TicketsDecided
  <2>. QED BY <1>5, <1>7, <2>1
<1>. QED BY <1>2, <1>4, <1>6, <1>7

LEMMA CompletedStep ==
    ASSUME TypeOK, HistoryKnown, RunType, TicketsDecided, CompletedIsDecided,
           [TriageNext]_triageVars
    PROVE  CompletedIsDecided'
<1>1. CASE Ack
  BY <1>1, AckIsDecided
<1>2. CASE SyncMailbox \/ ClaimWork \/ TimePasses
  <2>1. decided' = decided
    BY <1>2 DEF SyncMailbox, ClaimWork, TimePasses, opsVars
  <2>2. Apply \/ Claim \/ Tick
    <3>1. CASE SyncMailbox
      BY <3>1, SyncMailboxApplies
    <3>2. CASE ClaimWork
      BY <3>2 DEF ClaimWork, RunType, Claim
    <3>3. CASE TimePasses
      BY <3>3 DEF TimePasses
    <3>. QED BY <1>2, <3>1, <3>2, <3>3
  <2>3. NoneCompleted
    BY <2>2, ApplyCompletesNone, ClaimCompletesNone, TickCompletesNone
  <2>4. \A r \in LiveRevisions : r \in Revisions
    BY DEF Revisions
  <2>5. ASSUME NEW t \in Threads, NEW r \in LiveRevisions,
               queue'[t][r].state = "completed"
        PROVE  <<t, r, queue'[t][r].ctx>> \in decided
    <3>1. queue[t][r].state = "completed" /\ queue'[t][r].ctx = queue[t][r].ctx
      BY <2>3, <2>4, <2>5 DEF NoneCompleted
    <3>. QED BY <3>1 DEF CompletedIsDecided
  <2>. QED BY <2>1, <2>5 DEF CompletedIsDecided
<1>3. CASE StartRun \/ Detect \/ Persist \/ EndRun \/ Interrupt \/ Upgrade
           \/ UNCHANGED triageVars
  <2>1. queue' = queue
    BY <1>3 DEF StartRun, Detect, Persist, EndRun, Interrupt, Upgrade, mirrorVars,
                triageVars
  <2>2. decided \subseteq decided'
    <3>1. CASE Persist
      <4>1. decided' = decided \cup NewlyDecided \/ decided' = decided
        BY <3>1 DEF Persist, opsVars
      <4>. QED BY <4>1
    <3>2. CASE ~Persist
      BY <1>3, <3>2 DEF StartRun, Detect, EndRun, Interrupt, Upgrade, opsVars, triageVars
    <3>. QED BY <3>1, <3>2
  <2>. QED BY <2>1, <2>2 DEF CompletedIsDecided
<1>. QED BY <1>1, <1>2, <1>3 DEF TriageNext, RunStep

-----------------------------------------------------------------------------
(* The composed system *)

LEMMA InitTriageInv == TriageInit => TriageInv
<1> SUFFICES ASSUME TriageInit PROVE TriageInv
  OBVIOUS
<1>1. MirrorInv
  BY InitMirrorInv DEF TriageInit
<1>2. HistoryKnown
  BY DEF TriageInit, Init, NoCheckpoint, HistoryKnown
<1>3. RunType
  <2>1. 0 \in 0..DeferTicks
    BY NumberAssumption
  <2>2. [t \in {} |-> Uncertain] \in UNION {[S -> Verdicts] : S \in SUBSET Threads}
    <3>1. [t \in {} |-> Uncertain] \in [{} -> Verdicts]
      OBVIOUS
    <3>. QED BY <3>1
  <2>3. IdleRun \in Runs /\ IdleRun.phase = "idle"
    BY <2>1, <2>2 DEF IdleRun, Runs, Phases
  <2>. QED BY <2>3 DEF TriageInit, RunType
<1>4. Answered /\ TicketsDecided /\ CoveredItems
  BY DEF TriageInit, IdleRun, Answered, TicketsDecided, CoveredItems
<1>5. CompletedIsDecided
  <2>1. \A t \in Threads, r \in LiveRevisions : queue[t][r].state = "absent"
    BY DEF TriageInit, Init, AbsentRow, Revisions
  <2>. QED BY <2>1 DEF CompletedIsDecided
<1>. QED BY <1>1, <1>2, <1>3, <1>4, <1>5 DEF TriageInv, RunInv

LEMMA NextTriageInv == TriageInv /\ [TriageNext]_triageVars => TriageInv'
<1> SUFFICES ASSUME TriageInv, [TriageNext]_triageVars PROVE TriageInv'
  OBVIOUS
<1>1. /\ MirrorInv /\ TypeOK /\ HistoryKnown /\ RunType /\ Answered /\ TicketsDecided
      /\ CoveredItems /\ CompletedIsDecided
  BY DEF TriageInv, RunInv, MirrorInv
<1>2. MirrorInv'
  BY <1>1, TriageStepsStore, NextMirrorInv
<1>3. HistoryKnown' /\ RunType'
  BY <1>1, HistoryStaysKnown, RunTypeStep
<1>4. Answered' /\ TicketsDecided' /\ CoveredItems'
  BY <1>1, AnsweredStep, TicketsDecidedStep, CoveredItemsStep
<1>5. CompletedIsDecided'
  BY <1>1, CompletedStep
<1>. QED BY <1>2, <1>3, <1>4, <1>5 DEF TriageInv, RunInv

\* The invariant of the Shadow runs and the mirror they work on, whatever lands,
\* expires, is deferred, upgraded or interrupted meanwhile.
THEOREM TriageInvariant == TriageSpec => []TriageInv
  BY InitTriageInv, NextTriageInv, PTL DEF TriageSpec

\* Mailbox sync and Shadow runs together use the store only by its transactions:
\* the composed system implements the store under any caller.
THEOREM TriageImplementsStore == TriageSpec => Spec
<1>1. TriageInv /\ [TriageNext]_triageVars => [Next]_mirrorVars
  BY TriageStepsStore DEF TriageInv, RunInv, MirrorInv
<1>2. TriageInit => Init
  BY DEF TriageInit
<1>. QED BY <1>1, <1>2, TriageInvariant, PTL DEF TriageSpec, Spec

\* CompletedIsDecided: finish_triage never completes a live revision whose
\* decision persist_shadow_source_unit has not committed before.
THEOREM NothingAcknowledgedUndecided == TriageSpec => []CompletedIsDecided
  BY TriageInvariant, PTL DEF TriageInv

\* A current live revision without outstanding work is decided.
LEMMA NoBacklogIsDecided ==
    ASSUME TriageInv, ~Backlog, NEW t \in Threads, pointer[t].rev \in LiveRevisions
    PROVE  \E c \in Contexts : <<t, pointer[t].rev, c>> \in decided
<1> DEFINE r == pointer[t].rev
<1>1. r \in Revisions /\ r # NoRevision
  BY RevisionAssumption DEF Revisions
<1>2. queue[t][r].state \notin {"absent", "superseded"}
  BY <1>1 DEF TriageInv, MirrorInv, CurrentIsQueued, CurrentQueued
<1>3. queue[t][r].state \notin Active
  BY <1>1 DEF Backlog
<1>4. queue[t][r].state \in RowStates
  BY <1>1 DEF TriageInv, MirrorInv, TypeOK, Rows
<1>5. queue[t][r].state = "completed"
  BY <1>2, <1>3, <1>4 DEF RowStates, Active
<1>6. <<t, r, queue[t][r].ctx>> \in decided
  BY <1>5 DEF TriageInv, CompletedIsDecided
<1>7. queue[t][r].ctx \in Contexts
  BY <1>6 DEF TriageInv, RunInv, RunType
<1>. QED BY <1>6, <1>7

\* What NoFalseAllClear asks of a step.
AllClear ==
    \A t \in Threads :
        /\ ~IsOpen(t)
        /\ item[t] # NoItem => ~Synthetic(item[t])
        /\ pointer[t].rev \in LiveRevisions =>
              \E c \in Contexts : <<t, pointer[t].rev, c>> \in decided

LEMMA ReportIsTrue ==
    ASSUME TriageInv, [TriageNext]_triageVars, report' = "complete",
           report # "complete"
    PROVE  AllClear
<1>1. EndRun
  BY DEF TriageNext, RunStep, SyncMailbox, StartRun, ClaimWork, Detect, Persist, Ack,
         Interrupt, Upgrade, TimePasses, triageVars
<1>2. run.phase = "acking" /\ run.covered /\ ~Backlog
  BY <1>1 DEF EndRun
<1>3. \A t \in Threads : ~IsOpen(t)
  BY <1>2 DEF Backlog
<1>4. \A t \in Threads : ~Synthetic(item[t])
  BY <1>2 DEF TriageInv, RunInv, CoveredItems
<1>5. \A t \in Threads : pointer[t].rev \in LiveRevisions =>
          \E c \in Contexts : <<t, pointer[t].rev, c>> \in decided
  BY <1>2, NoBacklogIsDecided
<1>. QED BY <1>3, <1>4, <1>5 DEF AllClear

\* NoFalseAllClear: when a Shadow run reports Gmail coverage as complete, no mail
\* of the mirror is undecided, quarantined or waiting for revalidation.
THEOREM ReportsAreHonest == TriageSpec => NoFalseAllClear
<1>1. TriageInv /\ [TriageNext]_triageVars
        => [report' = "complete" /\ report # "complete" => AllClear]_triageVars
  BY ReportIsTrue
<1>. QED BY <1>1, TriageInvariant, PTL DEF TriageSpec, NoFalseAllClear, AllClear

=============================================================================
