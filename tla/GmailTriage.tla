----------------------------- MODULE GmailTriage -----------------------------
(***************************************************************************)
(* "Run Shadow" over the Gmail mirror: ShadowTrialRunner._run_gmail and    *)
(* the controller that starts one run at a time (shadow_trial.py,          *)
(* shadow_controller.py), with the operational tables it writes            *)
(* (operational_shadow.py, operational_state.py).                          *)
(*                                                                         *)
(* A run claims current mirror revisions, asks the detector about those    *)
(* not yet decided, commits decisions and observations to ops.sqlite in    *)
(* one transaction, and only then acknowledges each claim in the mirror    *)
(* database, one transaction per item.  The mailbox sync keeps landing     *)
(* units between any two of these steps, leases run out, and the run can   *)
(* be interrupted anywhere.                                                *)
(*                                                                         *)
(* Each thread carries at most one operational item (the code keys items   *)
(* by thread and detector_key; the detector is told to reuse the key of an *)
(* active item).  Items stay active: feedback is not part of this module.  *)
(***************************************************************************)
EXTENDS GmailMirror

CONSTANTS
    Readings,         \* contents a successful model answer may have
    Uncertain,        \* the content of the visible-uncertain fallback
    NoItem, NoObservation,
    Answers,          \* what the detector may do: subset of
                      \*   {"read", "suppress", "fail", "defer"}
    Changes,          \* what the mailbox may do: subset of
                      \*   {"found", "missing", "broken"}
    MaxInterrupts,    \* bound: runs killed before they end
    MaxDeferrals      \* bound: detections the budget defers or that fail

ASSUME TriageAssumption ==
    /\ Contexts \subseteq Nat
    /\ Tokens # {NoToken} /\ MaxHistory # 0 /\ MaxParser # 0
    /\ MaxInterrupts \in Nat
    /\ Uncertain \notin Readings
    /\ Answers \subseteq {"read", "suppress", "fail", "defer"}
    /\ Changes \subseteq {"found", "missing", "broken"}

\* An observation is identified by its derived revision: the provider revision
\* with the detector and policy version, or the tombstone it revalidates.
Interpretations == LiveRevisions \X Contexts
Revalidations == Tombstones \X {NoContext}
ObservationIds == Interpretations \cup Revalidations

\* What an observation says, its source_order and the revision it cites as
\* evidence.  A revalidation repeats the item's content with its notice appended.
Observations == [body : [base : Readings \cup {Uncertain}, notices : Nat],
                 order : Nat, cite : LiveRevisions]
Content(base) == [base |-> base, notices |-> 0]

ASSUME ObservationAssumption ==
    NoItem \notin ObservationIds /\ NoObservation \notin Observations

VARIABLES
    context,    \* GMAIL_DETECTOR_VERSION and the policy version in force
    run,        \* the run in progress
    decided,    \* surfaced and suppressed rows of ops_shadow_decisions
    obs,        \* ops_observations of each thread's item
    item,       \* the item's current_observation_id
    report,     \* coverage status of the last run that ended
    interrupts, deferrals   \* how much of the bounds is used

opsVars == <<decided, obs, item>>
triageVars == <<checkpoint, stored, pointer, queue, quarantine, context, run,
                decided, obs, item, report, interrupts, deferrals>>

Tickets == [thread : Threads, rev : Revisions, gen : Nat, seq : Nat,
            err : Errors]

Verdicts == [disposition : {"surfaced", "suppressed", "deferred"},
             body : Readings \cup {Uncertain}, failed : BOOLEAN]

IdleRun == [phase |-> "idle", ctx |-> NoContext, tickets |-> {},
            verdict |-> [t \in {} |-> Uncertain], covered |-> FALSE, age |-> 0]

TriageTypeOK ==
    /\ TypeOK
    /\ context \in Contexts
    /\ run.phase \in {"idle", "started", "claimed", "detected", "acking"}
    /\ run.ctx \in Contexts \cup {NoContext}
    /\ run.tickets \subseteq Tickets
    /\ DOMAIN run.verdict \subseteq Threads
    /\ \A t \in DOMAIN run.verdict : run.verdict[t] \in Verdicts
    /\ run.covered \in BOOLEAN /\ run.age \in 0..DeferTicks
    /\ decided \subseteq Threads \X LiveRevisions \X Contexts
    /\ obs \in [Threads -> [ObservationIds -> Observations \cup {NoObservation}]]
    /\ item \in [Threads -> ObservationIds \cup {NoItem}]
    /\ report \in {"none", "complete", "partial", "unavailable"}
    /\ interrupts \in 0..MaxInterrupts /\ deferrals \in Nat

TriageInit ==
    /\ Init
    /\ context \in {c \in Contexts : \A d \in Contexts : c <= d}
    /\ run = IdleRun
    /\ decided = {}
    /\ obs = [t \in Threads |-> [i \in ObservationIds |-> NoObservation]]
    /\ item = [t \in Threads |-> NoItem]
    /\ report = "none"
    /\ interrupts = 0 /\ deferrals = 0

-----------------------------------------------------------------------------
(* The mailbox: complete or partial history units land in the mirror *)

\* A thread's historyId never goes back, but the same revision may come back
\* after a transient 404.
Arrivals(t) ==
    {NotFetched}
    \cup {Found(<<"live", n>>, b) : b \in IF "found" \in Changes THEN Bodies ELSE {},
            n \in {m \in 1..MaxRevision :
                    \A k \in 1..MaxRevision :
                       stored[t][<<"live", k>>] # NoBody => k <= m}}
    \cup (IF "missing" \in Changes THEN {Missing} ELSE {})
    \cup (IF "broken" \in Changes THEN {Broken(f) : f \in Faults} ELSE {})

SomeToken == CHOOSE k \in Tokens : k # NoToken

\* Full until a full unit completes, incremental from then on; the history id
\* advances when a unit completes the mailbox.
MailboxUnit(complete) ==
    LET mode == IF checkpoint.complete THEN "incremental" ELSE checkpoint.mode
        partialFull == ~complete /\ mode = "full"
    IN [expected |-> checkpoint.gen,
        hist |-> checkpoint.hist + (IF complete THEN 1 ELSE 0),
        mode |-> mode, complete |-> complete, reset |-> FALSE,
        token |-> IF partialFull THEN SomeToken ELSE NoToken,
        baseline |-> IF partialFull THEN 1 ELSE 0,
        pending |-> {},
        contHist |-> IF ~complete /\ mode = "incremental" THEN checkpoint.hist
                     ELSE 0]

SyncMailbox ==
    \E complete \in BOOLEAN, got \in [Threads -> Outcomes] :
        /\ \A t \in Threads : got[t] \in Arrivals(t)
        /\ MailboxUnit(complete).hist <= MaxHistory
        /\ ApplySyncUnit(MailboxUnit(complete), got, FALSE, MaxParser)
        /\ UNCHANGED <<context, run, opsVars, report, interrupts, deferrals>>

-----------------------------------------------------------------------------
(* A run *)

Synthetic(i) == i \in Revalidations

\* The run starts and reads the checkpoint its report will be about.
StartRun ==
    /\ run.phase = "idle" /\ checkpoint.gen > 0
    /\ run' = [IdleRun EXCEPT !.phase = "started", !.ctx = context,
                              !.covered = checkpoint.complete]
    /\ UNCHANGED <<mirrorVars, context, opsVars, report, interrupts, deferrals>>

\* claim_pending_triage for the run; a ticket is the claimed item as read.
ClaimWork ==
    /\ run.phase = "started"
    /\ ClaimPendingTriage(run.ctx)
    /\ run' = [run EXCEPT
                 !.phase = "claimed",
                 !.tickets = {[thread |-> t, rev |-> pointer[t].rev,
                               gen |-> queue'[t][pointer[t].rev].gen,
                               seq |-> queue[t][pointer[t].rev].seq,
                               err |-> queue'[t][pointer[t].rev].err] :
                                 t \in Chosen(run.ctx)}]
    /\ UNCHANGED <<context, opsVars, report, interrupts, deferrals>>

\* Mutant of Cached: a row whose lease expired is detected again.
CachedUnlessExpired(k) ==
    /\ k.rev \in LiveRevisions /\ k.err = "none"
    /\ <<k.thread, k.rev, run.ctx>> \in decided

\* A claimed live revision that ops.sqlite has already decided, unless its last
\* attempt left an error: its decision is reused.
Cached(k) ==
    /\ k.rev \in LiveRevisions
    /\ k.err \in {"none", "lease expired"}
    /\ <<k.thread, k.rev, run.ctx>> \in decided

ToDetect == {k \in run.tickets : k.rev \in LiveRevisions /\ ~Cached(k)}

Verdict(d, b, f) == [disposition |-> d, body |-> b, failed |-> f]

\* detect_gmail_threads: a model answer; a suppression, which becomes a visible
\* uncertain result when the thread has an active item; a failed call, whose
\* fallback is surfaced with an error; a deferral by the budget.
VerdictsOn(t) ==
    (IF "read" \in Answers
       THEN {Verdict("surfaced", b, FALSE) : b \in Readings} ELSE {})
    \cup (IF "suppress" \in Answers
            THEN {IF item[t] = NoItem THEN Verdict("suppressed", Uncertain, FALSE)
                  ELSE Verdict("surfaced", Uncertain, FALSE)} ELSE {})
    \cup (IF "fail" \in Answers
            THEN {Verdict("surfaced", Uncertain, TRUE)} ELSE {})
    \cup (IF "defer" \in Answers
            THEN {Verdict("deferred", Uncertain, FALSE)} ELSE {})

\* items_to_defer: no usable detection this time.
ToDefer(v) == v.failed \/ v.disposition = "deferred"

Detect ==
    /\ run.phase = "claimed"
    /\ \E verdict \in [{k.thread : k \in ToDetect} -> Verdicts] :
         /\ \A t \in DOMAIN verdict : verdict[t] \in VerdictsOn(t)
         /\ deferrals' = deferrals
                + Cardinality({t \in DOMAIN verdict : ToDefer(verdict[t])})
         /\ deferrals' <= MaxDeferrals
         /\ run' = [run EXCEPT !.phase = "detected", !.verdict = verdict]
    /\ UNCHANGED <<mirrorVars, context, opsVars, report, interrupts>>

\* _retained_gmail_provider_observations: the stored interpretation of this
\* revision, of the highest source order.
Retained(t, rev) ==
    LET stocked == {c \in Contexts : obs[t][<<rev, c>>] # NoObservation}
        best == {c \in stocked : \A d \in stocked :
                    obs[t][<<rev, d>>].order <= obs[t][<<rev, c>>].order}
    IN <<rev, CHOOSE c \in best : \A d \in best : d <= c>>

\* Mutant of Replays: no retained observation is replayed.
ReplaysNever(k) == FALSE

Replays(k) ==
    /\ Cached(k)
    /\ item[k.thread] # NoItem
    /\ Synthetic(item[k.thread])
    /\ obs[k.thread][item[k.thread]].cite = k.rev

\* The claims that bring an observation: a surfaced detection, a tombstone of
\* a thread with an item, a retained observation.
Surfaces(k) == k.thread \in DOMAIN run.verdict
               /\ run.verdict[k.thread].disposition = "surfaced"
Revalidates(k) == k.rev \in Tombstones /\ item[k.thread] # NoItem

ObservationId(k) == IF Revalidates(k) THEN <<k.rev, NoContext>>
                    ELSE IF Surfaces(k) THEN <<k.rev, run.ctx>>
                    ELSE Retained(k.thread, k.rev)

\* Mutant of Observation: a revalidation cites the tombstone as its evidence.
ObservationCitingTombstone(k) ==
    LET current == obs[k.thread][item[k.thread]]
    IN IF Revalidates(k)
       THEN [body |-> [current.body EXCEPT !.notices = @ + 1],
             order |-> k.seq, cite |-> k.rev]
       ELSE IF Surfaces(k)
       THEN [body |-> Content(run.verdict[k.thread].body), order |-> k.seq,
             cite |-> k.rev]
       ELSE obs[k.thread][ObservationId(k)]

Observation(k) ==
    LET current == obs[k.thread][item[k.thread]]
    IN IF Revalidates(k)
       THEN [body |-> [current.body EXCEPT !.notices = @ + 1],
             order |-> k.seq, cite |-> current.cite]
       ELSE IF Surfaces(k)
       THEN [body |-> Content(run.verdict[k.thread].body), order |-> k.seq,
             cite |-> k.rev]
       ELSE obs[k.thread][ObservationId(k)]

Observing == {k \in run.tickets : Surfaces(k) \/ Revalidates(k) \/ Replays(k)}

\* _insert_observation refuses other content under the same identity.
ObservationConflict(k) ==
    LET known == obs[k.thread][ObservationId(k)]
    IN known # NoObservation /\ known.body # Observation(k).body

\* _restores_provider_authority.
RestoresAuthority(k) ==
    /\ Synthetic(item[k.thread]) /\ ~Synthetic(ObservationId(k))
    /\ obs[k.thread][item[k.thread]].cite = Observation(k).cite

\* _reconcile_in_connection: does the observation become the item's current
\* one?  A new one must sort after the current one, a known one is current
\* already or gives back authority that a revalidation took.
BecomesCurrent(k) ==
    LET id == ObservationId(k)
    IN IF item[k.thread] = NoItem THEN TRUE
       ELSE IF obs[k.thread][id] # NoObservation
            THEN id = item[k.thread] \/ RestoresAuthority(k)
            ELSE Observation(k).order > obs[k.thread][item[k.thread]].order

\* persist_shadow_source_unit commits: no observation conflicts, and every
\* handled assessment (one per detected candidate and per revalidation) is
\* about the item's current observation.
UnitCommits ==
    \A k \in Observing :
        /\ ~ObservationConflict(k)
        /\ (Surfaces(k) \/ Revalidates(k)) => BecomesCurrent(k)

TicketOf(t) == CHOOSE k \in run.tickets : k.thread = t
ObservingThreads == {k.thread : k \in Observing}

ItemAfter ==
    [t \in Threads |->
        IF t \in ObservingThreads /\ BecomesCurrent(TicketOf(t))
        THEN ObservationId(TicketOf(t)) ELSE item[t]]

ObsAfter ==
    [t \in Threads |-> [i \in ObservationIds |->
        IF t \in ObservingThreads /\ ObservationId(TicketOf(t)) = i
           /\ obs[t][i] = NoObservation
        THEN Observation(TicketOf(t)) ELSE obs[t][i]]]

\* Mutant of NewlyDecided: suppressions are not recorded.
NewlySurfaced ==
    {<<k.thread, k.rev, run.ctx>> :
        k \in {x \in ToDetect : run.verdict[x.thread].disposition = "surfaced"}}

NewlyDecided ==
    {<<k.thread, k.rev, run.ctx>> :
        k \in {x \in ToDetect : run.verdict[x.thread].disposition
                                    \in {"surfaced", "suppressed"}}}

\* The operational commit; when it is refused the run's Gmail source ends as
\* unavailable and its claims stay leased.
Persist ==
    /\ run.phase = "detected"
    /\ IF UnitCommits
       THEN /\ obs' = ObsAfter
            /\ item' = ItemAfter
            /\ decided' = decided \cup NewlyDecided
            /\ run' = [run EXCEPT !.phase = "acking",
                          !.covered = /\ @
                                      /\ \A t \in DOMAIN run.verdict :
                                            ~ToDefer(run.verdict[t])
                                      /\ \A t \in Threads : ~Synthetic(ItemAfter[t])]
            /\ report' = report
       ELSE /\ run' = IdleRun
            /\ report' = "unavailable"
            /\ UNCHANGED opsVars
    /\ UNCHANGED <<mirrorVars, context, interrupts, deferrals>>

\* retry_at is ten minutes after the run started, however long it took.
RetryIn == DeferTicks - run.age

Deferred(k) == k.thread \in DOMAIN run.verdict /\ ToDefer(run.verdict[k.thread])

\* One acknowledgement; a generation conflict is ignored.
Ack ==
    /\ run.phase = "acking"
    /\ \E k \in run.tickets :
         /\ IF ~Finishable(k.thread, k.rev, k.gen) THEN UNCHANGED mirrorVars
            ELSE IF Deferred(k)
            THEN FinishTriage(k.thread, k.rev, k.gen, "deferred", NoContext,
                              RetryIn, "other")
            ELSE FinishTriage(k.thread, k.rev, k.gen, "completed", run.ctx, 0,
                              "none")
         /\ run' = [run EXCEPT !.tickets = @ \ {k}]
    /\ UNCHANGED <<context, opsVars, report, interrupts, deferrals>>

\* Mutant of Backlog: leases and quarantine are not counted.
BacklogUnleased ==
    \E t \in Threads, r \in Revisions :
        queue[t][r].state \in Active \ {"processing"}

\* triage_counts()["backlog_count"] > 0.
Backlog ==
    \/ \E t \in Threads, r \in Revisions : queue[t][r].state \in Active
    \/ \E t \in Threads : IsOpen(t)

EndRun ==
    /\ run.phase = "acking" /\ run.tickets = {}
    /\ report' = IF run.covered /\ ~Backlog THEN "complete" ELSE "partial"
    /\ run' = IdleRun
    /\ UNCHANGED <<mirrorVars, context, opsVars, interrupts, deferrals>>

\* The process dies, or a step raises: nothing of the run survives but what it
\* committed.
Interrupt ==
    /\ run.phase # "idle" /\ interrupts < MaxInterrupts
    /\ interrupts' = interrupts + 1
    /\ run' = IdleRun
    /\ report' = "unavailable"
    /\ UNCHANGED <<mirrorVars, context, opsVars, deferrals>>

\* A new detector release or policy version comes into force.
Upgrade ==
    /\ context + 1 \in Contexts
    /\ context' = context + 1
    /\ UNCHANGED <<mirrorVars, run, opsVars, report, interrupts, deferrals>>

TimePasses ==
    /\ Tick
    /\ run' = [run EXCEPT !.age = IF run.phase = "idle" \/ @ = DeferTicks
                                  THEN @ ELSE @ + 1]
    /\ UNCHANGED <<context, opsVars, report, interrupts, deferrals>>

RunStep == ClaimWork \/ Detect \/ Persist \/ Ack \/ EndRun

TriageNext == SyncMailbox \/ StartRun \/ RunStep \/ Interrupt \/ Upgrade
              \/ TimePasses

TriageSpec == TriageInit /\ [][TriageNext]_triageVars

\* A started run goes on, time passes, and the owner keeps pressing Run Shadow.
FairTriageSpec == TriageSpec /\ WF_triageVars(RunStep) /\ WF_triageVars(StartRun)
                  /\ WF_triageVars(TimePasses)

-----------------------------------------------------------------------------
(* Properties *)

\* A live revision is acknowledged only once the decision for that very
\* revision, detector and policy is committed: no crash, late acknowledgement
\* or deferral turns undecided mail into completed work.
CompletedIsDecided ==
    \A t \in Threads, r \in LiveRevisions :
        queue[t][r].state = "completed" => <<t, r, queue[t][r].ctx>> \in decided

\* What the operational item says follows what the mirror has acknowledged: an
\* acknowledged current revision of a thread with an item is the item's source,
\* and an acknowledged deletion leaves no authoritative-looking item, whatever
\* decisions were committed late for revisions already superseded.
CompletedIsProjected ==
    \A t \in Threads :
        LET row == CurrentQueued(t)
        IN pointer[t].rev # NoRevision /\ row.state = "completed"
           /\ item[t] # NoItem => item[t][1] = pointer[t].rev

\* "complete" is no false all-clear: at that moment every thread the mirror
\* knows is triaged at its current revision, none waits in quarantine, and no
\* item is still waiting for revalidation, also when mail lands, leases expire
\* or units are retried while the run that reports is working.
NoFalseAllClear ==
    [][report' = "complete" /\ report # "complete" =>
         \A t \in Threads :
            /\ ~IsOpen(t)
            /\ item[t] # NoItem => ~Synthetic(item[t])
            /\ pointer[t].rev \in LiveRevisions =>
                  \E c \in Contexts : <<t, pointer[t].rev, c>> \in decided
      ]_triageVars

\* The detector and the policy are those the mirror was first read with.
FirstContext == \A c \in Contexts : context <= c

\* No claimed deletion has the identity of one that was revalidated before.
DeletionsAreNew ==
    \A k \in run.tickets :
        k.rev \in Tombstones => obs[k.thread][<<k.rev, NoContext>>] = NoObservation

\* Whatever a run claimed can be committed, as long as no model call failed or
\* was deferred, the detector stayed what it was and no claimed deletion was
\* revalidated before: its operational transaction is not refused, so the run
\* ends and its claims are acknowledged, also when mail lands and leases expire
\* while it works and after runs killed at any step.
ClaimedUnitCommits ==
    run.phase = "detected" /\ deferrals = 0 /\ FirstContext /\ DeletionsAreNew
        => UnitCommits

\* A decision is not asked of the model twice: what is committed for a
\* revision, detector and policy is reused by every later claim of it, unless
\* a call failed or was deferred before.
DecisionsAreReused ==
    run.phase = "claimed" /\ deferrals = 0 =>
        \A k \in ToDetect : <<k.thread, k.rev, run.ctx>> \notin decided

\* The run that follows a killed one commits.
RunAgainIsSafe == run.phase = "detected" /\ interrupts > 0 => UnitCommits

\* A thread of the mirror is in the end triaged at the revision it has by then,
\* in spite of runs killed at any step, deferrals and leases to wait for, as
\* long as the detector is not replaced.
EventuallyTriaged ==
    \A t \in Threads :
        pointer[t].rev # NoRevision ~>
            \/ ~FirstContext
            \/ pointer[t].rev # NoRevision /\ CurrentQueued(t).state = "completed"
=============================================================================
