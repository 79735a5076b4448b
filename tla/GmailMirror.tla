----------------------------- MODULE GmailMirror -----------------------------
(***************************************************************************)
(* The durable Gmail mirror of gmail_mirror.py: one account's              *)
(* gmail_mirror.sqlite.  Every action is one BEGIN IMMEDIATE transaction   *)
(* of GmailMirrorStore: apply_sync_unit (a fetched batch is stored, its    *)
(* threads' current pointers move, their triage rows are queued, the sync  *)
(* checkpoint advances), claim_pending_triage and finish_triage.  Who      *)
(* calls them, and with which arguments, is left open here: GmailMirrorSync*)
(* and GmailTriage extend this module and supply the callers.              *)
(*                                                                         *)
(* Timestamps are countdowns: lease, avail and next hold the ticks left    *)
(* before "<= now" becomes true, and Tick lets one unit of time pass.      *)
(* Text columns no decision reads (payload JSON, stored_at, error texts,   *)
(* occurrence and attempt counts) are left out.                            *)
(***************************************************************************)
EXTENDS Integers, FiniteSets, Functions

CONSTANTS
    Threads,          \* provider thread ids
    MaxRevision,      \* a thread's provider revisions are 1..MaxRevision
    Bodies,           \* normalized + raw content, told apart by its SHA-256
    Faults,           \* failure fingerprints of the quarantine
    MirrorFault,      \* the fingerprint of a stage "mirror" failure
    MaxParser,        \* GMAIL_THREAD_PARSER_VERSION is 1..MaxParser, 0 is NULL
    Contexts,         \* (detector_version, policy_version) pairs
    NoRevision, NoBody, NoContext,   \* SQL NULL / no row
    MaxHistory,       \* history ids are 1..MaxHistory, 0 is NULL
    Tokens, NoToken,  \* page tokens, and NULL
    ClaimLimit,       \* LIMIT of claim_pending_triage
    LeaseTicks,       \* lease_seconds, in ticks
    DeferTicks,       \* how far finish_triage may set available_at
    RetryCap,         \* exponent from which the retry delay is its maximum
    RetryDelay,       \* the delay after n retries: min(max, base * 2^n)
    MaxUnits,         \* bound: sync units applied
    MaxRowGen         \* bound: claims stop when a row reaches this generation

ASSUME IdentityAssumption ==
    /\ IsFiniteSet(Threads)
    /\ MirrorFault \in Faults
    /\ NoBody \notin Bodies
    /\ NoContext \notin Contexts
    /\ NoToken \in Tokens

ASSUME NumberAssumption ==
    /\ MaxRevision \in Nat /\ MaxParser \in Nat
    /\ MaxHistory \in Nat
    /\ ClaimLimit \in Nat \ {0} /\ LeaseTicks \in Nat \ {0} /\ DeferTicks \in Nat
    /\ RetryCap \in Nat
    /\ RetryDelay \in [0..RetryCap -> Nat]
    /\ MaxUnits \in Nat /\ MaxRowGen \in Nat

Modes == {"full", "incremental"}
Histories == 0..MaxHistory

\* gmail_mirror_tombstone_revision: the hash of the thread and the marker
\* "mode:history".  The thread is the key it is stored under.
Tombstones == Modes \X (1..MaxHistory)
LiveRevisions == {"live"} \X (1..MaxRevision)
Revisions == LiveRevisions \cup Tombstones

ASSUME RevisionAssumption == NoRevision \notin Revisions

Parsers == 1..MaxParser

RowStates == {"absent", "pending", "processing", "deferred", "failed",
              "completed", "superseded"}
Active == {"pending", "processing", "deferred", "failed"}
Errors == {"none", "lease expired", "other"}

Rows == [state : RowStates, seq : Nat, gen : Nat, lease : Nat, avail : Nat,
         ctx : Contexts \cup {NoContext}, err : Errors]

AbsentRow == [state |-> "absent", seq |-> 0, gen |-> 0, lease |-> 0,
              avail |-> 0, ctx |-> NoContext, err |-> "none"]

\* A quarantine row; a resolved row is never read again, so it equals no row.
Failures == [open : BOOLEAN, retries : 0..RetryCap, next : Nat,
             parser : 0..MaxParser]

NoFailure == [open |-> FALSE, retries |-> 0, next |-> 0, parser |-> 0]

Checkpoints == [gen : Nat, lastSeq : Nat, hist : Histories, mode : Modes,
                complete : BOOLEAN, reset : BOOLEAN, token : Tokens,
                baseline : Histories, pending : SUBSET Threads,
                contHist : Histories]

NoCheckpoint == [gen |-> 0, lastSeq |-> 0, hist |-> 0, mode |-> "full",
                 complete |-> FALSE, reset |-> FALSE, token |-> NoToken,
                 baseline |-> 0, pending |-> {}, contHist |-> 0]

\* A checkpoint update as _save_checkpoint receives it: what the checkpoint
\* becomes, and the generation it was computed from (0: no checkpoint row).
Updates == [expected : Nat, hist : Histories, mode : Modes,
            complete : BOOLEAN, reset : BOOLEAN, token : Tokens,
            baseline : Histories, pending : SUBSET Threads,
            contHist : Histories]

\* What a fetch brought for a thread: nothing, its content, a 404, or content
\* that failed to sanitize or normalize.
Found(r, b) == [kind |-> "found", rev |-> r, body |-> b, fault |-> MirrorFault]
Missing == [kind |-> "missing", rev |-> NoRevision, body |-> NoBody,
            fault |-> MirrorFault]
Broken(f) == [kind |-> "broken", rev |-> NoRevision, body |-> NoBody,
              fault |-> f]
NotFetched == [kind |-> "none", rev |-> NoRevision, body |-> NoBody,
               fault |-> MirrorFault]

Outcomes == {NotFetched, Missing}
            \cup {Found(r, b) : r \in LiveRevisions, b \in Bodies}
            \cup {Broken(f) : f \in Faults}

VARIABLES
    checkpoint,   \* gmail_mirror_sync_state
    stored,       \* gmail_mirror_thread_revisions (live revisions)
    pointer,      \* gmail_mirror_threads: current_revision, current_sequence
    queue,        \* gmail_mirror_triage_queue
    quarantine    \* gmail_mirror_quarantine

mirrorVars == <<checkpoint, stored, pointer, queue, quarantine>>

TypeOK ==
    /\ checkpoint \in Checkpoints
    /\ stored \in [Threads -> [LiveRevisions -> Bodies \cup {NoBody}]]
    /\ pointer \in [Threads -> [rev : Revisions \cup {NoRevision}, seq : Nat]]
    /\ queue \in [Threads -> [Revisions -> Rows]]
    /\ quarantine \in [Threads -> [Faults -> Failures]]

Init ==
    /\ checkpoint = NoCheckpoint
    /\ stored = [t \in Threads |-> [r \in LiveRevisions |-> NoBody]]
    /\ pointer = [t \in Threads |-> [rev |-> NoRevision, seq |-> 0]]
    /\ queue = [t \in Threads |-> [r \in Revisions |-> AbsentRow]]
    /\ quarantine = [t \in Threads |-> [f \in Faults |-> NoFailure]]

-----------------------------------------------------------------------------
(* Checkpoint updates *)

\* GmailMirrorCheckpointUpdate.validated.
ValidUpdate(u) ==
    /\ u.complete => /\ u.hist # 0
                     /\ u.token = NoToken /\ u.baseline = 0 /\ u.contHist = 0
                     /\ u.pending = {}
    /\ u.mode = "full" => /\ u.token # NoToken => u.baseline # 0
                          /\ u.pending = {} /\ u.contHist = 0
    /\ u.mode = "incremental" => u.baseline = 0
    /\ u.pending # {} => u.contHist # 0

\* _checkpoint_marker.  Every update the synchronizer builds has one of the
\* three ids, so the fall-back to the page token or the time is never reached.
Marker(u) == IF u.hist # 0 THEN u.hist
             ELSE IF u.contHist # 0 THEN u.contHist ELSE u.baseline

Tombstone(u) == <<u.mode, Marker(u)>>

-----------------------------------------------------------------------------
(* Quarantine *)

OpenFaults(rows) == {f \in Faults : rows[f].open}

IsOpen(t) == OpenFaults(quarantine[t]) # {}

\* MAX(retry_count) + 1 over the thread's open rows (1 when there is none),
\* saturating where the delay no longer grows.
NextRetryCount(rows) ==
    LET above == {n \in 1..RetryCap :
                      \A f \in OpenFaults(rows) : rows[f].retries < n}
        least == {n \in above : \A m \in above : n <= m}
    IN IF least = {} THEN RetryCap ELSE CHOOSE n \in least : TRUE

\* _quarantine_next_retry_at.
NextRetryAt(n) == RetryDelay[n]

\* _record_quarantine: a retry moves every open row of the thread to the next
\* backoff step; a plain failure keeps the schedule of a row already open.
Recorded(rows, fault, retry, parser) ==
    LET n == NextRetryCount(rows)
        retried == [open |-> TRUE, retries |-> n, next |-> NextRetryAt(n),
                    parser |-> parser]
        fresh == [open |-> TRUE, retries |-> 0, next |-> NextRetryAt(0),
                  parser |-> parser]
    IN [f \in Faults |->
          IF retry THEN IF f = fault \/ rows[f].open THEN retried ELSE rows[f]
          ELSE IF f # fault THEN rows[f]
          ELSE IF rows[f].open THEN [rows[f] EXCEPT !.parser = parser]
          ELSE fresh]

\* _resolve_quarantines.
Resolved == [f \in Faults |-> NoFailure]

\* Mutant of RetryDue: a new parser version waits for next_retry_at as well.
RetryDueBoth(t, parser) ==
    \E f \in OpenFaults(quarantine[t]) :
        quarantine[t][f].next = 0 /\ quarantine[t][f].parser # parser

\* list_due_quarantine_retries: a thread is due when the MIN(next_retry_at) of
\* its open rows has passed or their MAX(last_parser_version) is another parser.
RetryDue(t, parser) ==
    \E f \in OpenFaults(quarantine[t]) :
        \/ quarantine[t][f].next = 0
        \/ /\ \A g \in OpenFaults(quarantine[t]) :
                 quarantine[t][g].parser <= quarantine[t][f].parser
           /\ quarantine[t][f].parser # parser

-----------------------------------------------------------------------------
(* apply_sync_unit *)

\* _assert_revision_content fails: the immutable revision has other content.
Conflicts(t, o) ==
    o.kind = "found" /\ stored[t][o.rev] \notin {NoBody, o.body}

\* The thread's input is committed (its savepoint is released, or it is
\* missing and gets a tombstone).
Lands(t, o) == o.kind = "missing" \/ (o.kind = "found" /\ ~Conflicts(t, o))

Target(u, o) == IF o.kind = "found" THEN o.rev ELSE Tombstone(u)

\* Mutant of Changed: a thread that was deleted stays so.
ChangedUnlessDeleted(u, got) ==
    {t \in Threads : /\ Lands(t, got[t]) /\ pointer[t].rev # Target(u, got[t])
                     /\ pointer[t].rev \notin Tombstones}

\* pointer_changed.
Changed(u, got) ==
    {t \in Threads : Lands(t, got[t]) /\ pointer[t].rev # Target(u, got[t])}

\* The order in which changed threads take sequence numbers: the accepted
\* threads in the order of the input, then the missing ones.
Orders(changed, got) ==
    {p \in Injection(changed, 1..Cardinality(changed)) :
        \A t, x \in changed :
            got[t].kind = "found" /\ got[x].kind = "missing" => p[t] < p[x]}

\* Mutant of Enqueued: an existing row is only given the new sequence.
EnqueuedInPlace(row, seq) ==
    IF row.state = "absent" THEN [AbsentRow EXCEPT !.state = "pending", !.seq = seq]
    ELSE [row EXCEPT !.seq = seq]

\* _enqueue_revision: a new row, or whatever state the row was left in is
\* reactivated with the new sequence.
Enqueued(row, seq) == [AbsentRow EXCEPT !.state = "pending", !.seq = seq,
                                        !.gen = row.gen + 1]

\* Mutant of Superseded: older revisions stay in the queue.
SupersededNever(row) == row

\* _supersede_older_queue_items.
Superseded(row) ==
    IF row.state \in Active
    THEN [row EXCEPT !.state = "superseded", !.gen = @ + 1, !.lease = 0,
                     !.avail = 0]
    ELSE row

QueueAfter(u, got, changed, seq) ==
    [t \in Threads |->
        IF t \notin changed THEN queue[t]
        ELSE [r \in Revisions |-> IF r = Target(u, got[t])
                                  THEN Enqueued(queue[t][r], seq[t])
                                  ELSE Superseded(queue[t][r])]]

PointerAfter(u, got, changed, seq) ==
    [t \in Threads |->
        IF t \in changed THEN [rev |-> Target(u, got[t]), seq |-> seq[t]]
        ELSE pointer[t]]

\* Mutant of StoredAfter: a revision seen again is stored again.
StoredAfterReplacing(got, changed) ==
    [t \in Threads |-> [r \in LiveRevisions |->
        IF got[t].kind = "found" /\ got[t].rev = r
        THEN got[t].body ELSE stored[t][r]]]

StoredAfter(got, changed) ==
    [t \in Threads |-> [r \in LiveRevisions |->
        IF t \in changed /\ got[t].kind = "found" /\ got[t].rev = r
           /\ stored[t][r] = NoBody
        THEN got[t].body ELSE stored[t][r]]]

QuarantineAfter(got, retry, parser) ==
    [t \in Threads |->
        IF Lands(t, got[t]) THEN Resolved
        ELSE IF got[t].kind = "none" THEN quarantine[t]
        ELSE Recorded(quarantine[t], got[t].fault, retry, parser)]

\* Mutant of CheckpointAfter: the sequence is not saved.
CheckpointKeepingSequence(u, lastSeq) ==
    [gen |-> checkpoint.gen + 1, lastSeq |-> checkpoint.lastSeq, hist |-> u.hist,
     mode |-> u.mode, complete |-> u.complete, reset |-> u.reset,
     token |-> u.token, baseline |-> u.baseline, pending |-> u.pending,
     contHist |-> u.contHist]

\* _save_checkpoint.
CheckpointAfter(u, lastSeq) ==
    [gen |-> checkpoint.gen + 1, lastSeq |-> lastSeq, hist |-> u.hist,
     mode |-> u.mode, complete |-> u.complete, reset |-> u.reset,
     token |-> u.token, baseline |-> u.baseline, pending |-> u.pending,
     contHist |-> u.contHist]

\* Mutant of GenerationConflict: units are not compared with the checkpoint.
GenerationIgnored(u) == FALSE

\* The unit is refused with GmailMirrorGenerationConflict: nothing changes.
GenerationConflict(u) == checkpoint.gen # u.expected

ApplySyncUnit(u, got, retry, parser) ==
    /\ ~GenerationConflict(u)
    /\ checkpoint.gen < MaxUnits
    /\ LET changed == Changed(u, got)
       IN \E order \in Orders(changed, got) :
            LET seq == [t \in changed |-> checkpoint.lastSeq + order[t]]
            IN /\ pointer' = PointerAfter(u, got, changed, seq)
               /\ queue' = QueueAfter(u, got, changed, seq)
               /\ stored' = StoredAfter(got, changed)
               /\ quarantine' = QuarantineAfter(got, retry, parser)
               /\ checkpoint' = CheckpointAfter(u,
                        checkpoint.lastSeq + Cardinality(changed))

-----------------------------------------------------------------------------
(* claim_pending_triage, finish_triage and time *)

\* Mutant of Expired: no sweep.
ExpiredNever(row) == row

\* The lease sweep at the head of the claim.
Expired(row) ==
    IF row.state = "processing" /\ row.lease = 0
    THEN [row EXCEPT !.state = "deferred", !.avail = 0, !.gen = @ + 1,
                     !.err = IF @ = "none" THEN "lease expired" ELSE @]
    ELSE row

\* The row of the thread's current revision, as the sweep leaves it.
CurrentRow(t) == Expired(queue[t][pointer[t].rev])

\* The WHERE clause of the candidates; a claim without context never revisits
\* a completed row.
Claimable(ctx) ==
    {t \in Threads :
        /\ pointer[t].rev # NoRevision
        /\ LET row == CurrentRow(t)
           IN \/ row.state \in {"pending", "deferred", "failed"} /\ row.avail = 0
              \/ row.state = "completed" /\ ctx # NoContext /\ row.ctx # ctx}

\* ORDER BY mirror_sequence LIMIT ?
Chosen(ctx) ==
    {t \in Claimable(ctx) :
        Cardinality({x \in Claimable(ctx) : CurrentRow(x).seq < CurrentRow(t).seq})
            < ClaimLimit}

Claimed(row) == [row EXCEPT !.state = "processing", !.gen = @ + 1,
                            !.avail = 0, !.lease = LeaseTicks]

QueueAfterClaim(ctx) ==
    [t \in Threads |-> [r \in Revisions |->
        IF t \in Chosen(ctx) /\ r = pointer[t].rev
        THEN Claimed(Expired(queue[t][r])) ELSE Expired(queue[t][r])]]

ClaimPendingTriage(ctx) ==
    /\ \A t \in Chosen(ctx) : CurrentRow(t).gen < MaxRowGen
    /\ queue' = QueueAfterClaim(ctx)
    /\ UNCHANGED <<checkpoint, stored, pointer, quarantine>>

\* The checks of finish_triage: current revision, generation, state.
Finishable(t, r, expected) ==
    /\ pointer[t].rev = r
    /\ queue[t][r].gen = expected
    /\ queue[t][r].state = "processing"

Finished(row, state, ctx, avail, err) ==
    [row EXCEPT !.state = state, !.gen = @ + 1, !.avail = avail, !.lease = 0,
                !.ctx = ctx, !.err = err]

\* completed needs both versions, deferred an available_at (a later one, or
\* one already due), failed an error.
ValidFinish(state, ctx, avail, err) ==
    \/ state = "completed" /\ ctx # NoContext /\ avail = 0
    \/ state = "deferred"
    \/ state = "failed" /\ avail = 0 /\ err = "other"

FinishTriage(t, r, expected, state, ctx, avail, err) ==
    /\ r \in Revisions
    /\ ValidFinish(state, ctx, avail, err)
    /\ Finishable(t, r, expected)
    /\ queue' = [queue EXCEPT ![t][r] = Finished(@, state, ctx, avail, err)]
    /\ UNCHANGED <<checkpoint, stored, pointer, quarantine>>

Minus1(n) == IF n = 0 THEN 0 ELSE n - 1

\* One tick passes for every lease, available_at and next_retry_at.
Tick ==
    /\ queue' = [t \in Threads |-> [r \in Revisions |->
            [queue[t][r] EXCEPT !.lease = Minus1(@), !.avail = Minus1(@)]]]
    /\ quarantine' = [t \in Threads |-> [f \in Faults |->
            [quarantine[t][f] EXCEPT !.next = Minus1(@)]]]
    /\ UNCHANGED <<checkpoint, stored, pointer>>

-----------------------------------------------------------------------------
(* Properties *)

CurrentQueued(t) == queue[t][pointer[t].rev]

\* Work is only ever outstanding for a thread's current revision: whatever
\* apply_sync_unit moves the pointer to, no older revision keeps an active row
\* (claims read the current revision only, so such a row would stay forever).
ActiveRowIsCurrent ==
    \A t \in Threads, r \in Revisions :
        queue[t][r].state \in Active => pointer[t].rev = r

\* No current revision is lost to triage: it has a row, that row was not
\* superseded, and it carries the sequence of the pointer, also when the
\* pointer comes back to a revision that was completed or superseded before.
CurrentIsQueued ==
    \A t \in Threads :
        pointer[t].rev # NoRevision =>
            /\ CurrentQueued(t).state \notin {"absent", "superseded"}
            /\ CurrentQueued(t).seq = pointer[t].seq

\* Mirror sequences are unique across threads and revisions and never above
\* the checkpoint's: the UNIQUE columns of the schema cannot reject a unit.
SequencesDistinct ==
    /\ \A t, x \in Threads, r, q \in Revisions :
          /\ queue[t][r].seq <= checkpoint.lastSeq
          /\ queue[t][r].seq = queue[x][q].seq /\ queue[t][r].seq # 0
                => t = x /\ r = q
    /\ \A t, x \in Threads :
          /\ pointer[t].seq <= checkpoint.lastSeq
          /\ pointer[t].seq = pointer[x].seq /\ pointer[t].seq # 0 => t = x

\* A current live revision has its content in the mirror.
PointerStored ==
    \A t \in Threads :
        pointer[t].rev \in LiveRevisions => stored[t][pointer[t].rev] # NoBody

\* Stored content never changes, and a pointer that moves takes a sequence that
\* no row had before.
AppendOnly ==
    [][\A t \in Threads :
         /\ \A r \in LiveRevisions :
               stored[t][r] # NoBody => stored'[t][r] = stored[t][r]
         /\ pointer'[t] # pointer[t] => pointer'[t].seq > checkpoint.lastSeq
      ]_mirrorVars

-----------------------------------------------------------------------------
(* The store under any caller *)

Apply ==
    \E u \in Updates, got \in [Threads -> Outcomes], retry \in BOOLEAN,
       parser \in Parsers :
        ValidUpdate(u) /\ Marker(u) # 0 /\ ApplySyncUnit(u, got, retry, parser)

Claim == \E ctx \in Contexts \cup {NoContext} : ClaimPendingTriage(ctx)

Finish ==
    \E t \in {x \in Threads : pointer[x].rev # NoRevision},
       state \in {"completed", "deferred", "failed"},
       ctx \in Contexts \cup {NoContext},
       avail \in 0..DeferTicks, err \in {"none", "other"} :
       \E expected \in 1..queue[t][pointer[t].rev].gen :
        FinishTriage(t, pointer[t].rev, expected, state, ctx, avail, err)

Next == Apply \/ Claim \/ Finish \/ Tick

Spec == Init /\ [][Next]_mirrorVars
=============================================================================
