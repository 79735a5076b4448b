-------------------------- MODULE GmailMirrorProofs --------------------------
(***************************************************************************)
(* What GmailMirror promises its callers, proved for every set of threads, *)
(* contexts and faults and all numbers: type correctness, and the safety   *)
(* invariants and the action property its runs check on small instances.   *)
(*                                                                         *)
(* The proof is by induction on the transactions of the store.  MirrorInv  *)
(* is inductive, and each of its conjuncts is preserved on its own or with *)
(* the type invariant; the lemmas on rows say what the helpers that write  *)
(* gmail_mirror_triage_queue do to a row.                                  *)
(***************************************************************************)
EXTENDS GmailMirror, FiniteSetTheorems, TLAPS

MirrorInv ==
    TypeOK /\ ActiveRowIsCurrent /\ CurrentIsQueued /\ SequencesDistinct
           /\ PointerStored

-----------------------------------------------------------------------------
(* Rows *)

\* A revision that _enqueue_revision queues is pending under the new sequence.
LEMMA EnqueuedRow ==
    ASSUME NEW row \in Rows, NEW seq \in Nat
    PROVE  /\ Enqueued(row, seq) \in Rows
           /\ Enqueued(row, seq).state = "pending"
           /\ Enqueued(row, seq).seq = seq
<1>1. row.gen + 1 \in Nat
  BY DEF Rows
<1>2. Enqueued(row, seq) \in Rows
  BY <1>1 DEF Enqueued, AbsentRow, Rows, RowStates, Errors
<1>3. Enqueued(row, seq).state = "pending" /\ Enqueued(row, seq).seq = seq
  BY DEF Enqueued, AbsentRow
<1>. QED BY <1>2, <1>3

\* _supersede_older_queue_items leaves no active row, and no sequence changed.
LEMMA SupersededRow ==
    ASSUME NEW row \in Rows
    PROVE  /\ Superseded(row) \in Rows
           /\ Superseded(row).state \notin Active
           /\ Superseded(row).seq = row.seq
<1>1. CASE row.state \in Active
  <2>1. row.gen + 1 \in Nat
    BY DEF Rows
  <2>2. Superseded(row) \in Rows
    BY <1>1, <2>1 DEF Superseded, Rows, RowStates
  <2>3. Superseded(row).state \notin Active /\ Superseded(row).seq = row.seq
    BY <1>1 DEF Superseded, Rows, Active
  <2>. QED BY <2>2, <2>3
<1>2. CASE row.state \notin Active
  BY <1>2 DEF Superseded
<1>. QED BY <1>1, <1>2

\* The lease sweep keeps active rows active, current rows queued.
LEMMA ExpiredRow ==
    ASSUME NEW row \in Rows
    PROVE  /\ Expired(row) \in Rows
           /\ Expired(row).state \in Active <=> row.state \in Active
           /\ Expired(row).state \in {"absent", "superseded"}
                 => row.state \in {"absent", "superseded"}
           /\ Expired(row).seq = row.seq
<1>1. Expired(row) \in Rows
  <2>1. row.gen + 1 \in Nat /\ row.err \in Errors
    BY DEF Rows
  <2>2. CASE row.state = "processing" /\ row.lease = 0
    BY <2>1, <2>2 DEF Expired, Rows, RowStates, Errors
  <2>3. CASE ~(row.state = "processing" /\ row.lease = 0)
    BY <2>3 DEF Expired
  <2>. QED BY <2>2, <2>3
<1>2. /\ Expired(row).state \in Active <=> row.state \in Active
      /\ Expired(row).state \in {"absent", "superseded"}
            => row.state \in {"absent", "superseded"}
      /\ Expired(row).seq = row.seq
  BY DEF Expired, Rows, Active
<1>. QED BY <1>1, <1>2

\* A claimed row is in processing and keeps its sequence.
LEMMA ClaimedRow ==
    ASSUME NEW row \in Rows
    PROVE  /\ Claimed(row) \in Rows
           /\ Claimed(row).state = "processing"
           /\ Claimed(row).seq = row.seq
<1>1. row.gen + 1 \in Nat /\ LeaseTicks \in Nat
  BY NumberAssumption DEF Rows
<1>2. Claimed(row) \in Rows
  BY <1>1 DEF Claimed, Rows, RowStates
<1>3. Claimed(row).state = "processing" /\ Claimed(row).seq = row.seq
  BY DEF Claimed, Rows
<1>. QED BY <1>2, <1>3

FinishStates == {"completed", "deferred", "failed"}
FinishErrors == {"none", "other"}

\* A finished row is in the state asked for and keeps its sequence.
LEMMA FinishedRow ==
    ASSUME NEW row \in Rows, NEW state \in FinishStates,
           NEW ctx \in Contexts \cup {NoContext}, NEW avail \in Nat,
           NEW err \in FinishErrors
    PROVE  /\ Finished(row, state, ctx, avail, err) \in Rows
           /\ Finished(row, state, ctx, avail, err).state = state
           /\ Finished(row, state, ctx, avail, err).seq = row.seq
<1>1. row.gen + 1 \in Nat
  BY DEF Rows
<1>2. state \in RowStates /\ err \in Errors
  BY DEF RowStates, Errors, FinishStates, FinishErrors
<1>3. Finished(row, state, ctx, avail, err) \in Rows
  BY <1>1, <1>2 DEF Finished, Rows
<1>4. /\ Finished(row, state, ctx, avail, err).state = state
      /\ Finished(row, state, ctx, avail, err).seq = row.seq
  BY DEF Finished, Rows
<1>. QED BY <1>3, <1>4

\* A tick only shortens the countdowns of a row.
LEMMA TickedRow ==
    ASSUME NEW row \in Rows
    PROVE  LET ticked == [row EXCEPT !.lease = Minus1(@), !.avail = Minus1(@)]
           IN /\ ticked \in Rows
              /\ ticked.state = row.state /\ ticked.seq = row.seq
<1>1. Minus1(row.lease) \in Nat /\ Minus1(row.avail) \in Nat
  BY DEF Minus1, Rows
<1>. QED BY <1>1 DEF Rows

-----------------------------------------------------------------------------
(* What a sync unit writes *)

\* What a fetch brings for a thread that lands: content under one of its live
\* revisions, or nothing but the news that it is gone.
LEMMA OutcomeFields ==
    ASSUME NEW o \in Outcomes
    PROVE  /\ o.fault \in Faults
           /\ o.kind = "found" => o.rev \in LiveRevisions /\ o.body \in Bodies
  BY IdentityAssumption DEF Outcomes, NotFetched, Missing, Found, Broken

\* A thread that lands moves to one of its revisions; by ValidUpdate and its
\* marker, the tombstone of a unit is one.
LEMMA TargetType ==
    ASSUME NEW u \in Updates, Marker(u) # 0, NEW o \in Outcomes
    PROVE  /\ Target(u, o) \in Revisions
           /\ o.kind = "found" => Target(u, o) = o.rev /\ o.rev \in LiveRevisions
           /\ o.kind # "found" => Target(u, o) \in Tombstones
<1>1. Marker(u) \in 1..MaxHistory /\ u.mode \in Modes
  BY NumberAssumption DEF Marker, Updates, Histories
<1>2. Tombstone(u) \in Tombstones
  BY <1>1 DEF Tombstone, Tombstones
<1>. QED BY <1>2, OutcomeFields DEF Target, Revisions

\* Live revisions and tombstones are told apart by their first component.
LEMMA LiveOrGone == LiveRevisions \cap Tombstones = {}
  BY DEF LiveRevisions, Tombstones, Modes

\* The changed threads take distinct sequences, above all earlier ones and not
\* above the checkpoint's new last_sequence.
LEMMA OrdersFacts ==
    ASSUME NEW changed \in SUBSET Threads, NEW got, NEW order \in Orders(changed, got)
    PROVE  /\ Cardinality(changed) \in Nat
           /\ order \in [changed -> 1..Cardinality(changed)]
           /\ \A t, x \in changed : order[t] = order[x] => t = x
<1>1. Cardinality(changed) \in Nat
  BY IdentityAssumption, FS_Subset, FS_CardinalityType
<1>2. order \in Injection(changed, 1..Cardinality(changed))
  BY DEF Orders
<1>. QED BY <1>1, <1>2 DEF Injection, IsInjective

\* The backoff counter stays in its range, so its delay is defined.
LEMMA RetryCounter ==
    ASSUME NEW rows \in [Faults -> Failures]
    PROVE  NextRetryCount(rows) \in 0..RetryCap /\ NextRetryAt(NextRetryCount(rows)) \in Nat
<1>1. NextRetryCount(rows) \in 0..RetryCap
  BY NumberAssumption DEF NextRetryCount
<1>. QED BY <1>1, NumberAssumption DEF NextRetryAt

\* _record_quarantine writes well-formed rows.
LEMMA RecordedType ==
    ASSUME NEW rows \in [Faults -> Failures], NEW fault \in Faults,
           NEW retry \in BOOLEAN, NEW parser \in Parsers
    PROVE  Recorded(rows, fault, retry, parser) \in [Faults -> Failures]
<1> DEFINE n == NextRetryCount(rows)
           retried == [open |-> TRUE, retries |-> n, next |-> NextRetryAt(n),
                       parser |-> parser]
           fresh == [open |-> TRUE, retries |-> 0, next |-> NextRetryAt(0),
                     parser |-> parser]
<1>1. parser \in 0..MaxParser
  BY NumberAssumption DEF Parsers
<1>2. retried \in Failures
  BY <1>1, RetryCounter DEF Failures
<1>3. fresh \in Failures
  BY <1>1, NumberAssumption DEF Failures, NextRetryAt
<1>4. \A f \in Faults : [rows[f] EXCEPT !.parser = parser] \in Failures
  BY <1>1 DEF Failures
<1>. QED BY <1>2, <1>3, <1>4 DEF Recorded

-----------------------------------------------------------------------------
(* apply_sync_unit *)

\* What a committed unit does to a thread: its pointer moves to the target under
\* a new sequence, the target is queued and older work superseded; or nothing.
Moves(t, target, n) ==
    /\ pointer'[t] = [rev |-> target, seq |-> n]
    /\ \A r \in Revisions :
          queue'[t][r] = IF r = target THEN Enqueued(queue[t][r], n)
                         ELSE Superseded(queue[t][r])

Stays(t) == pointer'[t] = pointer[t] /\ queue'[t] = queue[t]

\* A unit moves the threads it changed, under distinct sequences above every
\* earlier one, and no other.
LEMMA ApplyMoves ==
    ASSUME TypeOK, NEW u \in Updates, Marker(u) # 0,
           NEW got \in [Threads -> Outcomes], NEW retry \in BOOLEAN,
           NEW parser \in Parsers, ApplySyncUnit(u, got, retry, parser)
    PROVE  \E seq \in [Changed(u, got) -> Nat] :
             /\ \A t \in Changed(u, got) :
                   /\ Moves(t, Target(u, got[t]), seq[t])
                   /\ checkpoint.lastSeq < seq[t] /\ seq[t] <= checkpoint'.lastSeq
             /\ \A t, x \in Changed(u, got) : seq[t] = seq[x] => t = x
             /\ \A t \in Threads \ Changed(u, got) : Stays(t)
             /\ checkpoint.lastSeq <= checkpoint'.lastSeq
<1> DEFINE changed == Changed(u, got)
<1>1. PICK order \in Orders(changed, got) :
        LET seq == [t \in changed |-> checkpoint.lastSeq + order[t]]
        IN /\ pointer' = PointerAfter(u, got, changed, seq)
           /\ queue' = QueueAfter(u, got, changed, seq)
           /\ checkpoint' = CheckpointAfter(u, checkpoint.lastSeq + Cardinality(changed))
  BY DEF ApplySyncUnit
<1> DEFINE seq == [t \in changed |-> checkpoint.lastSeq + order[t]]
<1>2. changed \in SUBSET Threads
  BY DEF Changed
<1>3. /\ Cardinality(changed) \in Nat /\ order \in [changed -> 1..Cardinality(changed)]
      /\ \A t, x \in changed : order[t] = order[x] => t = x
  <2> HIDE DEF changed
  <2>. QED BY <1>1, <1>2, OrdersFacts
<1>4. checkpoint.lastSeq \in Nat
  BY DEF TypeOK, Checkpoints
<1>5. checkpoint'.lastSeq = checkpoint.lastSeq + Cardinality(changed)
  BY <1>1 DEF CheckpointAfter
<1>6. /\ seq \in [changed -> Nat]
      /\ \A t \in changed : checkpoint.lastSeq < seq[t] /\ seq[t] <= checkpoint'.lastSeq
      /\ \A t, x \in changed : seq[t] = seq[x] => t = x
      /\ checkpoint.lastSeq <= checkpoint'.lastSeq
  <2> HIDE DEF changed
  <2>1. \A t \in changed : order[t] \in Nat /\ 1 <= order[t] /\ order[t] <= Cardinality(changed)
    BY <1>3
  <2>. QED BY <1>3, <1>4, <1>5, <2>1
<1>7. \A t \in changed : Moves(t, Target(u, got[t]), seq[t])
  <2> SUFFICES ASSUME NEW t \in changed PROVE Moves(t, Target(u, got[t]), seq[t])
    OBVIOUS
  <2>1. t \in Threads
    BY <1>2
  <2> HIDE DEF changed, seq
  <2>. QED BY <1>1, <2>1 DEF seq, Moves, PointerAfter, QueueAfter
<1>8. \A t \in Threads \ changed : Stays(t)
  <2> HIDE DEF changed
  <2>. QED BY <1>1 DEF Stays, PointerAfter, QueueAfter
<1>. QED BY <1>6, <1>7, <1>8

\* The callers of apply_sync_unit, with the moves of the unit they commit.
LEMMA ApplyCases ==
    ASSUME TypeOK, Apply
    PROVE  \E u \in Updates, got \in [Threads -> Outcomes] :
             /\ \A t \in Threads : Target(u, got[t]) \in Revisions
             /\ \A t \in Threads \ Changed(u, got) : Stays(t)
             /\ checkpoint.lastSeq <= checkpoint'.lastSeq
             /\ checkpoint'.lastSeq \in Nat
             /\ Changed(u, got) \subseteq Threads
             /\ \E seq \in [Changed(u, got) -> Nat] :
                  /\ \A t, x \in Changed(u, got) : seq[t] = seq[x] => t = x
                  /\ \A t \in Changed(u, got) :
                       /\ Moves(t, Target(u, got[t]), seq[t])
                       /\ checkpoint.lastSeq < seq[t] /\ seq[t] <= checkpoint'.lastSeq
<1>1. PICK u \in Updates, got \in [Threads -> Outcomes], retry \in BOOLEAN,
           parser \in Parsers :
        Marker(u) # 0 /\ ApplySyncUnit(u, got, retry, parser)
  BY DEF Apply
<1>2. \A t \in Threads : Target(u, got[t]) \in Revisions
  BY <1>1, TargetType
<1>3. Changed(u, got) \subseteq Threads
  BY DEF Changed
<1>4. checkpoint'.lastSeq \in Nat
  <2>1. Cardinality(Changed(u, got)) \in Nat
    BY <1>3, IdentityAssumption, FS_Subset, FS_CardinalityType
  <2>. QED BY <1>1, <2>1 DEF ApplySyncUnit, CheckpointAfter, TypeOK, Checkpoints
<1>. QED BY <1>1, <1>2, <1>3, <1>4, ApplyMoves

LEMMA ApplyType ==
    ASSUME TypeOK, Apply
    PROVE  TypeOK'
<1>1. PICK u \in Updates, got \in [Threads -> Outcomes], retry \in BOOLEAN,
           parser \in Parsers :
        Marker(u) # 0 /\ ApplySyncUnit(u, got, retry, parser)
  BY DEF Apply
<1> DEFINE changed == Changed(u, got)
<1>2. changed \subseteq Threads
  BY DEF Changed
<1>3. PICK seq \in [changed -> Nat] :
        /\ \A t \in changed : Moves(t, Target(u, got[t]), seq[t])
        /\ \A t \in Threads \ changed : Stays(t)
  BY <1>1, ApplyMoves
<1>4. \A t \in Threads : Target(u, got[t]) \in Revisions
  BY <1>1, TargetType
<1>5. checkpoint' \in Checkpoints
  <2>1. Cardinality(changed) \in Nat
    BY <1>2, IdentityAssumption, FS_Subset, FS_CardinalityType
  <2>2. checkpoint' = CheckpointAfter(u, checkpoint.lastSeq + Cardinality(changed))
    BY <1>1 DEF ApplySyncUnit
  <2>3. checkpoint.gen + 1 \in Nat /\ checkpoint.lastSeq + Cardinality(changed) \in Nat
    BY <2>1 DEF TypeOK, Checkpoints
  <2>. QED BY <2>2, <2>3 DEF CheckpointAfter, Checkpoints, Updates
<1>6. stored' \in [Threads -> [LiveRevisions -> Bodies \cup {NoBody}]]
  <2>1. stored' = StoredAfter(got, changed)
    BY <1>1 DEF ApplySyncUnit
  <2>. QED BY <2>1, OutcomeFields DEF StoredAfter, TypeOK
<1>7. pointer' \in [Threads -> [rev : Revisions \cup {NoRevision}, seq : Nat]]
  <2>1. DOMAIN pointer' = Threads /\ pointer' = [t \in Threads |-> pointer'[t]]
    BY <1>1 DEF ApplySyncUnit, PointerAfter
  <2>2. ASSUME NEW t \in Threads
        PROVE  pointer'[t] \in [rev : Revisions \cup {NoRevision}, seq : Nat]
    <3> HIDE DEF changed
    <3>1. CASE t \in changed
      <4>1. pointer'[t] = [rev |-> Target(u, got[t]), seq |-> seq[t]]
        BY <1>3, <3>1 DEF Moves
      <4>2. Target(u, got[t]) \in Revisions /\ seq[t] \in Nat
        BY <1>4, <3>1
      <4>. QED BY <4>1, <4>2
    <3>2. CASE t \notin changed
      <4>1. pointer[t] \in [rev : Revisions \cup {NoRevision}, seq : Nat]
        BY DEF TypeOK
      <4>. QED BY <1>3, <3>2, <4>1 DEF Stays
    <3>. QED BY <3>1, <3>2
  <2>. QED BY <2>1, <2>2
<1>8. queue' \in [Threads -> [Revisions -> Rows]]
  <2>1. /\ queue' = [t \in Threads |-> queue'[t]]
        /\ \A t \in changed : queue'[t] = [r \in Revisions |-> queue'[t][r]]
    BY <1>1, <1>2 DEF ApplySyncUnit, QueueAfter
  <2>2. ASSUME NEW t \in changed, NEW r \in Revisions
        PROVE  queue'[t][r] \in Rows
    <3> HIDE DEF changed
    <3>1. queue[t][r] \in Rows /\ seq[t] \in Nat
      BY <1>2 DEF TypeOK
    <3>2. Enqueued(queue[t][r], seq[t]) \in Rows /\ Superseded(queue[t][r]) \in Rows
      BY <3>1, EnqueuedRow, SupersededRow
    <3>. QED BY <1>3, <3>2 DEF Moves
  <2>3. \A t \in Threads \ changed : queue'[t] \in [Revisions -> Rows]
    <3> HIDE DEF changed
    <3>. QED BY <1>3 DEF Stays, TypeOK
  <2>. QED BY <2>1, <2>2, <2>3
<1>9. quarantine' \in [Threads -> [Faults -> Failures]]
  <2>1. quarantine' = QuarantineAfter(got, retry, parser)
    BY <1>1 DEF ApplySyncUnit
  <2>2. Resolved \in [Faults -> Failures]
    BY NumberAssumption DEF Resolved, NoFailure, Failures
  <2>3. \A t \in Threads :
          Recorded(quarantine[t], got[t].fault, retry, parser) \in [Faults -> Failures]
    BY RecordedType, OutcomeFields DEF TypeOK
  <2>. QED BY <2>1, <2>2, <2>3 DEF QuarantineAfter, TypeOK
<1>. QED BY <1>5, <1>6, <1>7, <1>8, <1>9 DEF TypeOK

LEMMA ApplyActive ==
    ASSUME TypeOK, ActiveRowIsCurrent, Apply
    PROVE  ActiveRowIsCurrent'
<1>1. PICK u \in Updates, got \in [Threads -> Outcomes] :
        /\ \A t \in Threads \ Changed(u, got) : Stays(t)
        /\ \E seq \in [Changed(u, got) -> Nat] :
             \A t \in Changed(u, got) : Moves(t, Target(u, got[t]), seq[t])
  BY ApplyCases
<1> SUFFICES ASSUME NEW t \in Threads, NEW r \in Revisions,
                    queue'[t][r].state \in Active
             PROVE  pointer'[t].rev = r
  BY DEF ActiveRowIsCurrent
<1>2. CASE t \in Changed(u, got)
  <2>1. PICK n \in Nat : Moves(t, Target(u, got[t]), n)
    BY <1>1, <1>2
  <2>2. Superseded(queue[t][r]).state \notin Active
    BY SupersededRow DEF TypeOK
  <2>3. pointer'[t].rev = Target(u, got[t])
    BY <2>1 DEF Moves
  <2>4. r = Target(u, got[t])
    BY <2>1, <2>2 DEF Moves
  <2>. QED BY <2>3, <2>4
<1>3. CASE t \notin Changed(u, got)
  BY <1>1, <1>3 DEF Stays, ActiveRowIsCurrent
<1>. QED BY <1>2, <1>3

LEMMA ApplyCurrent ==
    ASSUME TypeOK, CurrentIsQueued, Apply
    PROVE  CurrentIsQueued'
<1>1. PICK u \in Updates, got \in [Threads -> Outcomes] :
        /\ \A t \in Threads : Target(u, got[t]) \in Revisions
        /\ \A t \in Threads \ Changed(u, got) : Stays(t)
        /\ \E seq \in [Changed(u, got) -> Nat] :
             \A t \in Changed(u, got) : Moves(t, Target(u, got[t]), seq[t])
  BY ApplyCases
<1> SUFFICES ASSUME NEW t \in Threads, pointer'[t].rev # NoRevision
             PROVE  /\ queue'[t][pointer'[t].rev].state \notin {"absent", "superseded"}
                    /\ queue'[t][pointer'[t].rev].seq = pointer'[t].seq
  BY DEF CurrentIsQueued, CurrentQueued
<1>2. CASE t \in Changed(u, got)
  <2>1. PICK n \in Nat : Moves(t, Target(u, got[t]), n)
    BY <1>1, <1>2
  <2>2. /\ Enqueued(queue[t][Target(u, got[t])], n).state = "pending"
        /\ Enqueued(queue[t][Target(u, got[t])], n).seq = n
    BY <1>1, EnqueuedRow DEF TypeOK
  <2>. QED BY <1>1, <2>1, <2>2 DEF Moves
<1>3. CASE t \notin Changed(u, got)
  BY <1>1, <1>3 DEF Stays, CurrentIsQueued, CurrentQueued
<1>. QED BY <1>2, <1>3

LEMMA ApplyDistinct ==
    ASSUME TypeOK, SequencesDistinct, Apply
    PROVE  SequencesDistinct'
<1>1. PICK u \in Updates, got \in [Threads -> Outcomes] :
        /\ \A t \in Threads : Target(u, got[t]) \in Revisions
        /\ \A t \in Threads \ Changed(u, got) : Stays(t)
        /\ checkpoint.lastSeq <= checkpoint'.lastSeq
        /\ checkpoint'.lastSeq \in Nat
        /\ Changed(u, got) \subseteq Threads
        /\ \E seq \in [Changed(u, got) -> Nat] :
             /\ \A t, x \in Changed(u, got) : seq[t] = seq[x] => t = x
             /\ \A t \in Changed(u, got) :
                  /\ Moves(t, Target(u, got[t]), seq[t])
                  /\ checkpoint.lastSeq < seq[t] /\ seq[t] <= checkpoint'.lastSeq
  BY ApplyCases
<1> DEFINE changed == Changed(u, got)
           old == checkpoint.lastSeq
           new == checkpoint'.lastSeq
<1>2. PICK seq \in [changed -> Nat] :
        /\ \A t, x \in changed : seq[t] = seq[x] => t = x
        /\ \A t \in changed : /\ Moves(t, Target(u, got[t]), seq[t])
                              /\ old < seq[t] /\ seq[t] <= new
  BY <1>1
<1>3. old \in Nat /\ new \in Nat /\ old <= new
  BY <1>1 DEF TypeOK, Checkpoints
<1>4. \A t \in Threads, r \in Revisions :
        /\ queue[t][r] \in Rows /\ queue[t][r].seq \in Nat
        /\ queue[t][r].seq <= old
  BY DEF TypeOK, Rows, SequencesDistinct
<1>5. \A t \in Threads : pointer[t].seq \in Nat /\ pointer[t].seq <= old
  BY DEF TypeOK, SequencesDistinct
\* A row carries its old sequence, or the new one of its thread.
<1>6. ASSUME NEW t \in Threads, NEW r \in Revisions
      PROVE  \/ queue'[t][r].seq = queue[t][r].seq
             \/ /\ t \in changed /\ r = Target(u, got[t])
                /\ queue'[t][r].seq = seq[t]
  <2>1. CASE t \in changed
    <3>1. seq[t] \in Nat
      BY <2>1
    <3>2. /\ Enqueued(queue[t][r], seq[t]).seq = seq[t]
          /\ Superseded(queue[t][r]).seq = queue[t][r].seq
      BY <1>4, <3>1, EnqueuedRow, SupersededRow
    <3>3. queue'[t][r] = IF r = Target(u, got[t]) THEN Enqueued(queue[t][r], seq[t])
                         ELSE Superseded(queue[t][r])
      BY <1>2, <2>1 DEF Moves
    <3>. QED BY <2>1, <3>2, <3>3
  <2>2. CASE t \notin changed
    BY <1>1, <2>2 DEF Stays
  <2>. QED BY <2>1, <2>2
<1>7. ASSUME NEW t \in Threads
      PROVE  \/ pointer'[t].seq = pointer[t].seq
             \/ t \in changed /\ pointer'[t].seq = seq[t]
  <2>1. CASE t \in changed
    <3>1. Moves(t, Target(u, got[t]), seq[t])
      BY <1>2, <2>1
    <3>2. pointer'[t].seq = seq[t]
      BY <3>1 DEF Moves
    <3>. QED BY <2>1, <3>2
  <2>2. CASE t \notin changed
    BY <1>1, <2>2 DEF Stays
  <2>. QED BY <2>1, <2>2
<1>8. \A t \in changed : seq[t] \in Nat /\ old < seq[t] /\ seq[t] <= new
  BY <1>2
<1> HIDE DEF changed, old, new
<1>9. ASSUME NEW t \in Threads, NEW x \in Threads,
             NEW r \in Revisions, NEW q \in Revisions
      PROVE  /\ queue'[t][r].seq <= new
             /\ queue'[t][r].seq = queue'[x][q].seq /\ queue'[t][r].seq # 0
                   => t = x /\ r = q
  <2>1. queue[t][r].seq = queue[x][q].seq /\ queue[t][r].seq # 0 => t = x /\ r = q
    BY DEF SequencesDistinct
  <2>2. /\ queue[t][r].seq \in Nat /\ queue[t][r].seq <= old
        /\ queue[x][q].seq \in Nat /\ queue[x][q].seq <= old
    BY <1>4
  <2>3. \/ queue'[t][r].seq = queue[t][r].seq
        \/ /\ t \in changed /\ r = Target(u, got[t])
           /\ queue'[t][r].seq = seq[t]
    BY <1>6
  <2>4. \/ queue'[x][q].seq = queue[x][q].seq
        \/ /\ x \in changed /\ q = Target(u, got[x])
           /\ queue'[x][q].seq = seq[x]
    BY <1>6
  <2>. QED BY <1>2, <1>3, <1>8, <2>1, <2>2, <2>3, <2>4
<1>10. ASSUME NEW t \in Threads, NEW x \in Threads
       PROVE  /\ pointer'[t].seq <= new
              /\ pointer'[t].seq = pointer'[x].seq /\ pointer'[t].seq # 0 => t = x
  <2>1. pointer[t].seq = pointer[x].seq /\ pointer[t].seq # 0 => t = x
    BY DEF SequencesDistinct
  <2>. QED BY <1>2, <1>3, <1>5, <1>7, <1>8, <2>1
<1>. QED BY <1>9, <1>10 DEF SequencesDistinct, new

LEMMA ApplyStored ==
    ASSUME TypeOK, PointerStored, Apply
    PROVE  PointerStored'
<1>1. PICK u \in Updates, got \in [Threads -> Outcomes], retry \in BOOLEAN,
           parser \in Parsers :
        Marker(u) # 0 /\ ApplySyncUnit(u, got, retry, parser)
  BY DEF Apply
<1> DEFINE changed == Changed(u, got)
<1>2. /\ \A t \in changed : pointer'[t].rev = Target(u, got[t])
      /\ \A t \in Threads \ changed : pointer'[t] = pointer[t]
  <2>1. \E seq \in [changed -> Nat] :
          /\ \A t \in changed : Moves(t, Target(u, got[t]), seq[t])
          /\ \A t \in Threads \ changed : Stays(t)
    BY <1>1, ApplyMoves
  <2>2. \A t \in changed : \A n \in Nat : Moves(t, Target(u, got[t]), n)
                                 => pointer'[t].rev = Target(u, got[t])
    BY DEF Moves
  <2>. QED BY <2>1, <2>2 DEF Stays
<1>3. stored' = StoredAfter(got, changed)
  BY <1>1 DEF ApplySyncUnit
<1> SUFFICES ASSUME NEW t \in Threads, pointer'[t].rev \in LiveRevisions
             PROVE  stored'[t][pointer'[t].rev] # NoBody
  BY DEF PointerStored
<1>4. CASE t \in changed
  <2>1. got[t] \in Outcomes /\ pointer'[t].rev = Target(u, got[t])
    BY <1>2, <1>4
  <2>2. got[t].kind = "found" /\ pointer'[t].rev = got[t].rev
    BY <1>1, <2>1, TargetType, LiveOrGone
  <2>3. got[t].body # NoBody
    BY <2>1, <2>2, OutcomeFields, IdentityAssumption
  <2>. QED BY <1>3, <1>4, <2>2, <2>3 DEF StoredAfter
<1>5. CASE t \notin changed
  <2>1. pointer'[t].rev = pointer[t].rev
    BY <1>2, <1>5
  <2>. QED BY <1>3, <1>5, <2>1 DEF StoredAfter, PointerStored
<1>. QED BY <1>4, <1>5

-----------------------------------------------------------------------------
(* claim_pending_triage, finish_triage and time *)

\* What these do to the queue: rows keep their sequence, only the row of a
\* current revision may become active, and no row is superseded or forgotten.
Reworks ==
    /\ queue' \in [Threads -> [Revisions -> Rows]]
    /\ \A t \in Threads, r \in Revisions :
          /\ queue'[t][r].seq = queue[t][r].seq
          /\ queue'[t][r].state \in Active
                => queue[t][r].state \in Active \/ pointer[t].rev = r
          /\ queue'[t][r].state \in {"absent", "superseded"}
                => queue[t][r].state \in {"absent", "superseded"}
    /\ UNCHANGED <<checkpoint, stored, pointer>>

LEMMA ClaimReworks ==
    ASSUME TypeOK, Claim
    PROVE  Reworks /\ UNCHANGED quarantine
<1>1. PICK ctx \in Contexts \cup {NoContext} : ClaimPendingTriage(ctx)
  BY DEF Claim
<1>2. queue' = QueueAfterClaim(ctx) /\ UNCHANGED <<checkpoint, stored, pointer, quarantine>>
  BY <1>1 DEF ClaimPendingTriage
<1>3. ASSUME NEW t \in Threads, NEW r \in Revisions
      PROVE  /\ queue'[t][r] \in Rows
             /\ queue'[t][r].seq = queue[t][r].seq
             /\ queue'[t][r].state \in Active
                   => queue[t][r].state \in Active \/ pointer[t].rev = r
             /\ queue'[t][r].state \in {"absent", "superseded"}
                   => queue[t][r].state \in {"absent", "superseded"}
  <2>1. queue[t][r] \in Rows
    BY DEF TypeOK
  <2>2. /\ Expired(queue[t][r]) \in Rows
        /\ Expired(queue[t][r]).seq = queue[t][r].seq
        /\ Expired(queue[t][r]).state \in Active => queue[t][r].state \in Active
        /\ Expired(queue[t][r]).state \in {"absent", "superseded"}
              => queue[t][r].state \in {"absent", "superseded"}
    BY <2>1, ExpiredRow
  <2>3. CASE t \in Chosen(ctx) /\ r = pointer[t].rev
    <3>1. queue'[t][r] = Claimed(Expired(queue[t][r]))
      BY <1>2, <2>3 DEF QueueAfterClaim
    <3>2. /\ queue'[t][r] \in Rows /\ queue'[t][r].state = "processing"
          /\ queue'[t][r].seq = queue[t][r].seq
      BY <2>2, <3>1, ClaimedRow
    <3>. QED BY <2>3, <3>2
  <2>4. CASE ~(t \in Chosen(ctx) /\ r = pointer[t].rev)
    <3>1. queue'[t][r] = Expired(queue[t][r])
      BY <1>2, <2>4 DEF QueueAfterClaim
    <3>. QED BY <2>2, <3>1
  <2>. QED BY <2>3, <2>4
<1>4. queue' \in [Threads -> [Revisions -> Rows]]
  BY <1>2, <1>3 DEF QueueAfterClaim
<1>. QED BY <1>2, <1>3, <1>4 DEF Reworks

LEMMA FinishReworks ==
    ASSUME TypeOK, Finish
    PROVE  Reworks /\ UNCHANGED quarantine
<1>1. PICK t \in Threads, state \in {"completed", "deferred", "failed"},
           ctx \in Contexts \cup {NoContext}, avail \in 0..DeferTicks,
           err \in {"none", "other"} :
        \E expected \in 1..queue[t][pointer[t].rev].gen :
            FinishTriage(t, pointer[t].rev, expected, state, ctx, avail, err)
  BY DEF Finish
<1> DEFINE r == pointer[t].rev
           row == Finished(queue[t][r], state, ctx, avail, err)
<1>2. /\ r \in Revisions
      /\ queue' = [queue EXCEPT ![t][r] = row]
      /\ UNCHANGED <<checkpoint, stored, pointer, quarantine>>
  BY <1>1 DEF FinishTriage
<1>3. queue[t][r].state = "processing"
  BY <1>1 DEF FinishTriage, Finishable
<1>4. row \in Rows /\ row.state = state /\ row.seq = queue[t][r].seq
  <2>1. queue[t][r] \in Rows /\ avail \in Nat
    BY <1>1, <1>2, NumberAssumption DEF TypeOK
  <2>2. /\ state \in FinishStates /\ err \in FinishErrors
        /\ ctx \in Contexts \cup {NoContext}
    BY <1>1 DEF FinishStates, FinishErrors
  <2>3. ASSUME NEW o \in Rows
        PROVE  LET done == Finished(o, state, ctx, avail, err)
               IN done \in Rows /\ done.state = state /\ done.seq = o.seq
    BY <2>1, <2>2, FinishedRow
  <2>. QED BY <2>1, <2>3
<1> HIDE DEF row
<1>5. queue' \in [Threads -> [Revisions -> Rows]]
  BY <1>2, <1>4 DEF TypeOK
<1>6. ASSUME NEW x \in Threads, NEW q \in Revisions
      PROVE  /\ queue'[x][q].seq = queue[x][q].seq
             /\ queue'[x][q].state \in Active
                   => queue[x][q].state \in Active \/ pointer[x].rev = q
             /\ queue'[x][q].state \in {"absent", "superseded"}
                   => queue[x][q].state \in {"absent", "superseded"}
  <2>1. CASE x = t /\ q = r
    BY <1>2, <1>3, <1>4, <2>1 DEF TypeOK
  <2>2. CASE ~(x = t /\ q = r)
    BY <1>2, <2>2 DEF TypeOK
  <2>. QED BY <2>1, <2>2
<1>. QED BY <1>2, <1>5, <1>6 DEF Reworks

LEMMA TickReworks ==
    ASSUME TypeOK, Tick
    PROVE  Reworks /\ quarantine' \in [Threads -> [Faults -> Failures]]
<1>1. ASSUME NEW t \in Threads, NEW r \in Revisions
      PROVE  /\ queue'[t][r] \in Rows
             /\ queue'[t][r].state = queue[t][r].state
             /\ queue'[t][r].seq = queue[t][r].seq
  <2>1. queue[t][r] \in Rows
    BY DEF TypeOK
  <2>2. queue'[t][r]
          = [queue[t][r] EXCEPT !.lease = Minus1(@), !.avail = Minus1(@)]
    BY DEF Tick
  <2>. QED BY <2>1, <2>2, TickedRow
<1>2. queue' \in [Threads -> [Revisions -> Rows]]
  BY <1>1 DEF Tick
<1>3. ASSUME NEW t \in Threads, NEW f \in Faults
      PROVE  [quarantine[t][f] EXCEPT !.next = Minus1(@)] \in Failures
  <2>1. quarantine[t][f] \in Failures
    BY DEF TypeOK
  <2>2. Minus1(quarantine[t][f].next) \in Nat
    BY <2>1 DEF Failures, Minus1
  <2>. QED BY <2>1, <2>2 DEF Failures
<1>4. quarantine' \in [Threads -> [Faults -> Failures]]
  BY <1>3 DEF Tick
<1>5. UNCHANGED <<checkpoint, stored, pointer>>
  BY DEF Tick
<1>. QED BY <1>1, <1>2, <1>4, <1>5 DEF Reworks

\* A step that only reworks rows preserves every invariant.
LEMMA ReworksPreserve ==
    ASSUME MirrorInv, Reworks, quarantine' \in [Threads -> [Faults -> Failures]]
    PROVE  MirrorInv'
<1>1. TypeOK'
  BY DEF MirrorInv, TypeOK, Reworks
<1>2. ActiveRowIsCurrent'
  BY DEF MirrorInv, ActiveRowIsCurrent, Reworks
<1>3. CurrentIsQueued'
  <2> SUFFICES ASSUME NEW t \in Threads, pointer[t].rev # NoRevision
               PROVE  /\ queue'[t][pointer[t].rev].state \notin {"absent", "superseded"}
                      /\ queue'[t][pointer[t].rev].seq = pointer[t].seq
    BY DEF CurrentIsQueued, CurrentQueued, Reworks
  <2>1. pointer[t].rev \in Revisions
    BY DEF MirrorInv, TypeOK
  <2>. QED BY <2>1 DEF MirrorInv, CurrentIsQueued, CurrentQueued, Reworks
<1>4. SequencesDistinct'
  <2>1. \A t \in Threads, r \in Revisions : queue'[t][r].seq = queue[t][r].seq
    BY DEF Reworks
  <2>2. checkpoint' = checkpoint /\ pointer' = pointer
    BY DEF Reworks
  <2>3. SequencesDistinct
    BY DEF MirrorInv
  <2>. QED BY <2>1, <2>2, <2>3 DEF SequencesDistinct
<1>5. PointerStored'
  BY DEF MirrorInv, PointerStored, Reworks
<1>. QED BY <1>1, <1>2, <1>3, <1>4, <1>5 DEF MirrorInv

-----------------------------------------------------------------------------
(* The store *)

LEMMA InitMirrorInv == Init => MirrorInv
<1> SUFFICES ASSUME Init PROVE MirrorInv
  OBVIOUS
<1>1. TypeOK
  <2>1. NoCheckpoint \in Checkpoints
    BY IdentityAssumption, NumberAssumption
       DEF NoCheckpoint, Checkpoints, Modes, Histories
  <2>2. AbsentRow \in Rows
    BY DEF AbsentRow, Rows, RowStates, Errors
  <2>3. NoFailure \in Failures
    BY NumberAssumption DEF NoFailure, Failures
  <2>. QED BY <2>1, <2>2, <2>3 DEF Init, TypeOK
<1>2. ActiveRowIsCurrent
  BY DEF Init, ActiveRowIsCurrent, AbsentRow, Active
<1>3. CurrentIsQueued
  BY DEF Init, CurrentIsQueued
<1>4. SequencesDistinct
  BY DEF Init, SequencesDistinct, AbsentRow, NoCheckpoint
<1>5. PointerStored
  BY RevisionAssumption DEF Init, PointerStored, Revisions
<1>. QED BY <1>1, <1>2, <1>3, <1>4, <1>5 DEF MirrorInv

LEMMA NextMirrorInv == MirrorInv /\ [Next]_mirrorVars => MirrorInv'
<1> SUFFICES ASSUME MirrorInv, [Next]_mirrorVars PROVE MirrorInv'
  OBVIOUS
<1> USE DEF MirrorInv
<1>1. CASE Apply
  BY <1>1, ApplyType, ApplyActive, ApplyCurrent, ApplyDistinct, ApplyStored
<1>2. CASE Claim
  BY <1>2, ClaimReworks, ReworksPreserve DEF TypeOK
<1>3. CASE Finish
  BY <1>3, FinishReworks, ReworksPreserve DEF TypeOK
<1>4. CASE Tick
  BY <1>4, TickReworks, ReworksPreserve
<1>5. CASE UNCHANGED mirrorVars
  BY <1>5 DEF mirrorVars, TypeOK, ActiveRowIsCurrent, CurrentIsQueued, CurrentQueued,
              SequencesDistinct, PointerStored
<1>. QED BY <1>1, <1>2, <1>3, <1>4, <1>5 DEF Next

\* The store's invariant holds whatever its callers do: any batches, claims,
\* acknowledgements, late or repeated, in any order.
THEOREM StoreInvariant == Spec => []MirrorInv
  BY InitMirrorInv, NextMirrorInv, PTL DEF Spec

\* The step that AppendOnly allows.
Appends ==
    \A t \in Threads :
        /\ \A r \in LiveRevisions :
              stored[t][r] # NoBody => stored'[t][r] = stored[t][r]
        /\ pointer'[t] # pointer[t] => pointer'[t].seq > checkpoint.lastSeq

LEMMA ApplyAppends ==
    ASSUME TypeOK, Apply
    PROVE  Appends
<1>1. PICK u \in Updates, got \in [Threads -> Outcomes], retry \in BOOLEAN,
           parser \in Parsers :
        Marker(u) # 0 /\ ApplySyncUnit(u, got, retry, parser)
  BY DEF Apply
<1> DEFINE changed == Changed(u, got)
<1>2. ASSUME NEW t \in Threads, NEW r \in LiveRevisions, stored[t][r] # NoBody
      PROVE  stored'[t][r] = stored[t][r]
  <2>1. stored' = StoredAfter(got, changed)
    BY <1>1 DEF ApplySyncUnit
  <2>. QED BY <1>2, <2>1 DEF StoredAfter
<1>3. ASSUME NEW t \in Threads, pointer'[t] # pointer[t]
      PROVE  pointer'[t].seq > checkpoint.lastSeq
  <2>1. PICK seq \in [changed -> Nat] :
          /\ \A x \in changed : /\ Moves(x, Target(u, got[x]), seq[x])
                                /\ checkpoint.lastSeq < seq[x]
          /\ \A x \in Threads \ changed : Stays(x)
    BY <1>1, ApplyMoves
  <2> HIDE DEF changed
  <2>2. t \in changed
    BY <1>3, <2>1 DEF Stays
  <2>3. Moves(t, Target(u, got[t]), seq[t]) /\ checkpoint.lastSeq < seq[t]
    BY <2>1, <2>2
  <2>4. pointer'[t].seq = seq[t]
    BY <2>3 DEF Moves
  <2>5. checkpoint.lastSeq \in Nat /\ seq[t] \in Nat
    BY <2>1, <2>2 DEF TypeOK, Checkpoints
  <2>. QED BY <2>3, <2>4, <2>5
<1>. QED BY <1>2, <1>3 DEF Appends

LEMMA NextAppends == MirrorInv /\ [Next]_mirrorVars => [Appends]_mirrorVars
<1> SUFFICES ASSUME MirrorInv, [Next]_mirrorVars PROVE [Appends]_mirrorVars
  OBVIOUS
<1>1. CASE Apply
  BY <1>1, ApplyAppends DEF MirrorInv
<1>2. CASE ~Apply
  <2>1. UNCHANGED <<stored, pointer>>
    BY <1>2 DEF Next, Claim, ClaimPendingTriage, Finish, FinishTriage, Tick, mirrorVars
  <2>. QED BY <2>1 DEF Appends
<1>. QED BY <1>1, <1>2

\* TypeOK: the tables of gmail_mirror.sqlite keep the shape the schema and the
\* validations of gmail_mirror.py give them.
THEOREM TypeCorrect == Spec => []TypeOK
  BY StoreInvariant, PTL DEF MirrorInv

\* ActiveRowIsCurrent: apply_sync_unit leaves no active triage row behind when
\* it moves a thread's pointer, so no row waits that no claim can reach.
THEOREM OnlyCurrentWork == Spec => []ActiveRowIsCurrent
  BY StoreInvariant, PTL DEF MirrorInv

\* CurrentIsQueued: a pointer never points at a revision that triage has no row
\* for, or a superseded one, whatever revisions the thread went through before.
THEOREM NothingUnqueued == Spec => []CurrentIsQueued
  BY StoreInvariant, PTL DEF MirrorInv

\* SequencesDistinct: the sequences that apply_sync_unit hands out never collide
\* in the UNIQUE columns, which would roll back every later unit.
THEOREM NoSequenceCollision == Spec => []SequencesDistinct
  BY StoreInvariant, PTL DEF MirrorInv

\* PointerStored: a current live revision can always be read.
THEOREM CurrentContentReadable == Spec => []PointerStored
  BY StoreInvariant, PTL DEF MirrorInv

\* AppendOnly: stored content is never rewritten, and pointers only move forward
\* in the mirror's sequence, the order by which triage rejects stale decisions.
THEOREM StoreAppends == Spec => AppendOnly
<1>1. MirrorInv /\ [Next]_mirrorVars => [Appends]_mirrorVars
  BY NextAppends
<1>. QED BY <1>1, StoreInvariant, PTL DEF Spec, AppendOnly, Appends

=============================================================================
