---------------------------- MODULE GmailItemProofs ----------------------------
(***************************************************************************)
(* What the operational item of a thread shows, proved for every set of    *)
(* threads, contexts, answers and mailbox changes and all bounds: it       *)
(* follows what the mirror acknowledges, what a run claimed can be         *)
(* committed, and a decision is not asked for twice.                       *)
(*                                                                         *)
(* ItemInv relates three orders that the code never compares in one place: *)
(* the mirror's sequences (claims and rows), the source order of           *)
(* observations, and the provider's revisions.                             *)
(***************************************************************************)
EXTENDS GmailTriageProofs, WellFoundedInduction

\* An observation that was stored.
Known(t, i) == obs[t][i] # NoObservation

\* The observation a thread's item shows.
Shown(t) == obs[t][item[t]]

ItemType ==
    /\ obs \in [Threads -> [ObservationIds -> Observations \cup {NoObservation}]]
    /\ item \in [Threads -> ObservationIds \cup {NoItem}]
    /\ \A t \in Threads : item[t] # NoItem => Known(t, item[t])

CountsType ==
    /\ report \in {"none", "complete", "partial", "unavailable"}
    /\ interrupts \in 0..MaxInterrupts /\ deferrals \in Nat

\* A run works with a detector and policy that were in force.
ContextInv == run.phase # "idle" => run.ctx <= context

\* Decisions were made of content the mirror stored, by detectors up to the
\* present one.
DecidedInv ==
    \A t \in Threads, r \in LiveRevisions, c \in Contexts :
        <<t, r, c>> \in decided => c <= context /\ stored[t][r] # NoBody

\* An interpretation cites the revision it reads, and was decided; what any
\* observation cites has one; none sorts after its revision's queue row.
ObsInv ==
    \A t \in Threads, i \in ObservationIds : Known(t, i) =>
        /\ i \in Interpretations => obs[t][i].cite = i[1] /\ <<t, i[1], i[2]>> \in decided
        /\ \E c \in Contexts : Known(t, <<obs[t][i].cite, c>>)
        /\ obs[t][i].order <= queue[t][i[1]].seq

\* An item shows the newest revision decided of its thread.
NewestShown ==
    \A t \in Threads, r \in LiveRevisions, c \in Contexts :
        item[t] # NoItem /\ <<t, r, c>> \in decided => r[2] <= Shown(t).cite[2]

\* A live pointer is at the newest stored revision of its thread.
NewestStored ==
    \A t \in Threads :
        pointer[t].rev \in LiveRevisions =>
            \A r \in LiveRevisions : stored[t][r] # NoBody => r[2] <= pointer[t].rev[2]

\* No row has a later sequence than its thread's pointer.
PointerLast ==
    \A t \in Threads :
        /\ \A r \in Revisions : queue[t][r].seq <= pointer[t].seq
        /\ pointer[t].rev # NoRevision => pointer[t].seq > 0

OneTicket == \A k, m \in run.tickets : k.thread = m.thread => k = m

\* Until it is committed a claim is ahead of what its thread's item shows.
Ahead(k) ==
    /\ pointer[k.thread].rev # NoRevision /\ CurrentQueued(k.thread).state # "completed"
    /\ k.seq <= queue[k.thread][k.rev].seq
    /\ k.rev \in LiveRevisions =>
          /\ stored[k.thread][k.rev] # NoBody
          /\ \A r \in LiveRevisions, c \in Contexts :
                <<k.thread, r, c>> \in decided => r[2] <= k.rev[2]
          /\ item[k.thread] # NoItem => Shown(k.thread).cite[2] <= k.rev[2]
    /\ item[k.thread] # NoItem =>
          /\ Shown(k.thread).order <= k.seq
          /\ Shown(k.thread).order = k.seq => item[k.thread][1] = k.rev

TicketsAhead == run.phase \in {"claimed", "detected"} => \A k \in run.tickets : Ahead(k)

\* Only a thread without an item is suppressed.
SuppressedUnshown ==
    run.phase = "detected" =>
        \A t \in DOMAIN run.verdict :
            run.verdict[t].disposition = "suppressed" => item[t] = NoItem

\* After the commit the item shows what each claim, unless deferred, is about.
TicketsShown ==
    run.phase = "acking" =>
        \A k \in run.tickets :
            Deferred(k) \/ item[k.thread] = NoItem \/ item[k.thread][1] = k.rev

\* Without a failed or deferred detection no error is recorded.
Undeferred ==
    deferrals = 0 =>
        /\ \A t \in Threads, r \in Revisions : queue[t][r].err # "other"
        /\ \A k \in run.tickets : k.err # "other"
        /\ \A t \in DOMAIN run.verdict : ~ToDefer(run.verdict[t])

ItemInv ==
    /\ TriageInv /\ ItemType /\ CountsType /\ ContextInv /\ DecidedInv
    /\ ObsInv /\ NewestShown /\ NewestStored /\ PointerLast /\ OneTicket
    /\ TicketsAhead /\ SuppressedUnshown /\ TicketsShown
    /\ CompletedIsProjected /\ Undeferred

-----------------------------------------------------------------------------
(* Numbers, and the observation a replay brings back *)

LEMMA Least ==
    ASSUME NEW S \in SUBSET Nat, S # {}
    PROVE  \E m \in S : \A x \in S : m <= x
<1> DEFINE R == OpToRel(<, Nat)
<1>1. IsWellFoundedOn(R, Nat)
  BY NatLessThanWellFounded, Zenon
<1>2. \E m \in S : \A x \in S : ~ (<<x, m>> \in R)
  <2> HIDE DEF R
  <2>. QED BY <1>1, WFMin
<1>3. PICK m \in S : \A x \in S : ~(x < m)
  BY <1>2 DEF OpToRel
<1>. QED BY <1>3

LEMMA Greatest ==
    ASSUME NEW S \in SUBSET Nat, S # {}, NEW n \in Nat, \A x \in S : x <= n
    PROVE  \E m \in S : \A x \in S : x <= m
<1> DEFINE T == {n - x : x \in S}
<1>1. \A x \in S : x \in Nat /\ n - x \in Nat
  OBVIOUS
<1>2. T \subseteq Nat /\ T # {}
  BY <1>1
<1>3. PICK k \in T : \A y \in T : k <= y
  BY <1>2, Least
<1>4. PICK m \in S : k = n - m
  OBVIOUS
<1>5. \A x \in S : n - m <= n - x
  BY <1>3, <1>4
<1>. QED BY <1>1, <1>5

\* Interpretations and revalidations are told apart by their revision.
LEMMA InterpretationOrNot ==
    /\ Interpretations \cap Revalidations = {}
    /\ \A i \in ObservationIds : i[1] \in Revisions
    /\ \A i \in Interpretations : i[1] \in LiveRevisions /\ i[2] \in Contexts
                                  /\ i = <<i[1], i[2]>>
    /\ \A i \in Revalidations : i[1] \in Tombstones /\ i = <<i[1], NoContext>>
<1>1. \A i \in Interpretations : i[1] \in LiveRevisions /\ i[2] \in Contexts
                                 /\ i = <<i[1], i[2]>>
  BY DEF Interpretations
<1>2. \A i \in Revalidations : i[1] \in Tombstones /\ i = <<i[1], NoContext>>
  BY DEF Revalidations
<1>3. \A i \in ObservationIds : i[1] \in Revisions
  BY <1>1, <1>2 DEF ObservationIds, Revisions
<1>. QED BY <1>1, <1>2, <1>3, LiveOrGone

LEMMA KnownType ==
    ASSUME ItemType, NEW t \in Threads, NEW i \in ObservationIds, Known(t, i)
    PROVE  /\ obs[t][i] \in Observations /\ obs[t][i].order \in Nat
           /\ obs[t][i].cite \in LiveRevisions
           /\ obs[t][i].body \in [base : Readings \cup {Uncertain}, notices : Nat]
<1>1. obs[t][i] \in Observations
  BY DEF ItemType, Known
<1>. QED BY <1>1 DEF Observations

LEMMA ShownKnown ==
    ASSUME ItemType, NEW t \in Threads, item[t] # NoItem
    PROVE  /\ item[t] \in ObservationIds /\ Known(t, item[t])
           /\ Shown(t) \in Observations /\ Shown(t).order \in Nat
           /\ Shown(t).cite \in LiveRevisions
<1>1. item[t] \in ObservationIds /\ Known(t, item[t])
  BY DEF ItemType
<1>. QED BY <1>1, KnownType DEF Shown

\* A revision that was interpreted has an interpretation of the highest source
\* order: the one that _retained_gmail_provider_observations replays.
LEMMA RetainedKnown ==
    ASSUME TriageInv, ItemType, DecidedInv, ObsInv, NEW t \in Threads,
           NEW r \in LiveRevisions, NEW d \in Contexts, Known(t, <<r, d>>)
    PROVE  /\ Retained(t, r) \in Interpretations /\ Retained(t, r)[1] = r
           /\ Known(t, Retained(t, r))
<1> DEFINE stocked == {c \in Contexts : obs[t][<<r, c>>] # NoObservation}
           orders == {obs[t][<<r, c>>].order : c \in stocked}
           best == {c \in stocked : \A e \in stocked :
                       obs[t][<<r, e>>].order <= obs[t][<<r, c>>].order}
<1>1. \A c \in stocked : <<r, c>> \in ObservationIds /\ <<r, c>> \in Interpretations
                         /\ Known(t, <<r, c>>) /\ r \in Revisions
  BY DEF ObservationIds, Interpretations, Known, Revisions
<1>2. d \in stocked
  BY DEF Known
<1>3. Contexts \subseteq Nat /\ context \in Contexts
  BY TriageAssumption DEF TriageInv, RunInv, RunType
<1>4. \A c \in stocked : c \in Nat /\ c <= context
  <2>1. \A c \in stocked : <<t, r, c>> \in decided
    BY <1>1 DEF ObsInv
  <2>. QED BY <1>3, <2>1 DEF DecidedInv
<1>5. \A c \in stocked : /\ obs[t][<<r, c>>].order \in Nat
                         /\ obs[t][<<r, c>>].order <= queue[t][r].seq
  <2>1. \A c \in stocked : obs[t][<<r, c>>].order \in Nat
    BY <1>1, KnownType
  <2>2. \A c \in stocked : obs[t][<<r, c>>].order <= queue[t][<<r, c>>[1]].seq
    BY <1>1 DEF ObsInv
  <2>. QED BY <2>1, <2>2
<1>6. queue[t][r].seq \in Nat
  BY <1>1, <1>2 DEF TriageInv, MirrorInv, TypeOK, Rows
<1>7. \E c \in stocked : c \in best
  <2>1. orders \in SUBSET Nat /\ orders # {} /\ \A x \in orders : x <= queue[t][r].seq
    BY <1>2, <1>5
  <2>2. PICK m \in orders : \A x \in orders : x <= m
    <3> HIDE DEF orders
    <3>. QED BY <1>6, <2>1, Greatest
  <2>3. PICK c \in stocked : m = obs[t][<<r, c>>].order
    BY <2>2
  <2>4. \A e \in stocked : obs[t][<<r, e>>].order <= m
    BY <2>2
  <2>. QED BY <2>3, <2>4
<1>8. best \in SUBSET Nat /\ best # {} /\ \A c \in best : c <= context
  BY <1>4, <1>7
<1>9. \E c \in best : \A e \in best : e <= c
  <2> HIDE DEF best
  <2>. QED BY <1>3, <1>8, Greatest
<1> DEFINE top == CHOOSE c \in best : \A e \in best : e <= c
<1>10. top \in best
  <2> HIDE DEF best
  <2>. QED BY <1>9
<1>11. Retained(t, r) = <<r, top>>
  BY DEF Retained
<1>12. top \in stocked
  BY <1>10
<1> HIDE DEF top
<1>13. Retained(t, r)[1] = r
  BY <1>11
<1>14. Retained(t, r) \in Interpretations /\ Known(t, Retained(t, r))
  BY <1>1, <1>11, <1>12
<1>. QED BY <1>13, <1>14

-----------------------------------------------------------------------------
(* The store moves forward *)

Forward ==
    /\ \A t \in Threads, r \in Revisions : queue[t][r].seq <= queue'[t][r].seq
    /\ \A t \in Threads, r \in LiveRevisions :
          stored[t][r] # NoBody => stored'[t][r] # NoBody
    /\ \A t \in Threads : pointer[t].rev # NoRevision => pointer'[t].rev # NoRevision

\* No current row becomes completed.
NoneFinished ==
    \A t \in Threads :
        pointer'[t].rev # NoRevision /\ queue'[t][pointer'[t].rev].state = "completed" =>
            /\ pointer'[t].rev = pointer[t].rev
            /\ queue[t][pointer[t].rev].state = "completed"

\* No row gets the error of a deferral.
NoneDeferred ==
    \A t \in Threads, r \in Revisions :
        queue'[t][r].err = "other" => queue[t][r].err = "other"

\* A row that apply_sync_unit writes.
LEMMA MovedRow ==
    ASSUME NEW row \in Rows, NEW n \in Nat, row.seq <= n
    PROVE  /\ row.seq <= Enqueued(row, n).seq /\ row.seq <= Superseded(row).seq
           /\ Enqueued(row, n).err # "other"
           /\ Superseded(row).err = "other" => row.err = "other"
<1>1. row.seq \in Nat
  BY DEF Rows
<1>2. Enqueued(row, n).seq = n /\ Superseded(row).seq = row.seq
  BY EnqueuedRow, SupersededRow
<1>3. Enqueued(row, n).err = "none"
  BY DEF Enqueued, AbsentRow
<1>4. Superseded(row).err = row.err
  BY DEF Superseded, Rows
<1>. QED BY <1>1, <1>2, <1>3, <1>4

LEMMA ApplyForward ==
    ASSUME MirrorInv, Apply
    PROVE  Forward /\ NoneFinished /\ NoneDeferred
<1> USE DEF MirrorInv
<1>1. PICK u \in Updates, got \in [Threads -> Outcomes] :
        /\ \A t \in Threads : Target(u, got[t]) \in Revisions
        /\ \A t \in Threads \ Changed(u, got) : Stays(t)
        /\ \E seq \in [Changed(u, got) -> Nat] :
             \A t \in Changed(u, got) :
               /\ Moves(t, Target(u, got[t]), seq[t])
               /\ checkpoint.lastSeq < seq[t]
  BY ApplyCases
<1>2. ASSUME NEW t \in Threads
      PROVE  /\ \A r \in Revisions :
                  /\ queue[t][r].seq <= queue'[t][r].seq
                  /\ queue'[t][r].err = "other" => queue[t][r].err = "other"
             /\ pointer[t].rev # NoRevision => pointer'[t].rev # NoRevision
             /\ pointer'[t].rev # NoRevision /\ queue'[t][pointer'[t].rev].state = "completed"
                  => /\ pointer'[t].rev = pointer[t].rev
                     /\ queue[t][pointer[t].rev].state = "completed"
  <2>1. \A r \in Revisions : queue[t][r] \in Rows
    BY DEF TypeOK
  <2>2. CASE t \in Changed(u, got)
    <3>1. PICK n \in Nat : /\ Moves(t, Target(u, got[t]), n)
                           /\ checkpoint.lastSeq < n
      BY <1>1, <2>2
    <3>2. ASSUME NEW r \in Revisions
          PROVE  /\ queue[t][r].seq <= queue'[t][r].seq
                 /\ queue'[t][r].err = "other" => queue[t][r].err = "other"
      <4>1. queue[t][r].seq <= checkpoint.lastSeq
        BY DEF SequencesDistinct
      <4>2. queue[t][r].seq <= n
        BY <2>1, <3>1, <4>1 DEF TypeOK, Checkpoints, Rows
      <4>3. \/ queue'[t][r] = Enqueued(queue[t][r], n)
            \/ queue'[t][r] = Superseded(queue[t][r])
        BY <3>1 DEF Moves
      <4>. QED BY <2>1, <4>2, <4>3, MovedRow
    <3>3. pointer'[t].rev = Target(u, got[t]) /\ pointer'[t].rev \in Revisions
      BY <1>1, <3>1 DEF Moves
    <3>4. queue'[t][pointer'[t].rev] = Enqueued(queue[t][pointer'[t].rev], n)
      BY <3>1, <3>3 DEF Moves
    <3>5. queue'[t][pointer'[t].rev].state = "pending"
      BY <2>1, <3>3, <3>4, EnqueuedRow
    <3>. QED BY <3>2, <3>3, <3>5, RevisionAssumption
  <2>3. CASE t \notin Changed(u, got)
    <3>1. pointer'[t] = pointer[t] /\ queue'[t] = queue[t]
      BY <1>1, <2>3 DEF Stays
    <3>2. \A r \in Revisions : queue[t][r].seq <= queue[t][r].seq
      BY <2>1 DEF Rows
    <3>. QED BY <3>1, <3>2
  <2>. QED BY <2>2, <2>3
<1>3. \A t \in Threads, r \in LiveRevisions :
         stored[t][r] # NoBody => stored'[t][r] # NoBody
  BY ApplyAppends DEF Appends
<1>. QED BY <1>2, <1>3 DEF Forward, NoneFinished, NoneDeferred

\* Claims, acknowledgements and time keep sequences, content and pointers.
LEMMA ReworksForward ==
    ASSUME MirrorInv, Reworks
    PROVE  Forward
<1>1. \A t \in Threads, r \in Revisions : queue[t][r].seq <= queue'[t][r].seq
  BY DEF Reworks, MirrorInv, TypeOK, Rows
<1>. QED BY <1>1 DEF Forward, Reworks

LEMMA ClaimForward ==
    ASSUME MirrorInv, Claim
    PROVE  Forward /\ NoneFinished /\ NoneDeferred
<1> USE DEF MirrorInv
<1>1. Reworks
  BY ClaimReworks
<1>2. NoneFinished
  <2>1. NoneCompleted /\ pointer' = pointer
    BY <1>1, ClaimCompletesNone DEF Reworks
  <2>2. \A t \in Threads : pointer[t].rev # NoRevision => pointer[t].rev \in Revisions
    BY DEF TypeOK
  <2>. QED BY <2>1, <2>2 DEF NoneFinished, NoneCompleted
<1>3. NoneDeferred
  <2>1. PICK ctx \in Contexts \cup {NoContext} : queue' = QueueAfterClaim(ctx)
    BY DEF Claim, ClaimPendingTriage
  <2>2. ASSUME NEW t \in Threads, NEW r \in Revisions, queue'[t][r].err = "other"
        PROVE  queue[t][r].err = "other"
    <3>1. queue[t][r] \in Rows /\ Expired(queue[t][r]) \in Rows
      BY ExpiredRow DEF TypeOK
    <3>2. \/ queue'[t][r] = Claimed(Expired(queue[t][r]))
          \/ queue'[t][r] = Expired(queue[t][r])
      BY <2>1 DEF QueueAfterClaim
    <3>3. Claimed(Expired(queue[t][r])).err = Expired(queue[t][r]).err
      BY <3>1 DEF Claimed, Rows
    <3>4. Expired(queue[t][r]).err = "other"
      BY <2>2, <3>2, <3>3
    <3>. QED BY <3>1, <3>4 DEF Expired, Rows
  <2>. QED BY <2>2 DEF NoneDeferred
<1>. QED BY <1>1, <1>2, <1>3, ReworksForward

LEMMA TickForward ==
    ASSUME MirrorInv, Tick
    PROVE  Forward /\ NoneFinished /\ NoneDeferred
<1> USE DEF MirrorInv
<1>1. Reworks
  BY TickReworks
<1>2. NoneFinished
  <2>1. NoneCompleted /\ pointer' = pointer
    BY <1>1, TickCompletesNone DEF Reworks
  <2>2. \A t \in Threads : pointer[t].rev # NoRevision => pointer[t].rev \in Revisions
    BY DEF TypeOK
  <2>. QED BY <2>1, <2>2 DEF NoneFinished, NoneCompleted
<1>3. NoneDeferred
  <2>1. ASSUME NEW t \in Threads, NEW r \in Revisions
        PROVE  queue'[t][r].err = queue[t][r].err
    <3>1. queue[t][r] \in Rows
      BY DEF TypeOK
    <3>2. queue'[t][r]
            = [queue[t][r] EXCEPT !.lease = Minus1(@), !.avail = Minus1(@)]
      BY DEF Tick
    <3>. QED BY <3>1, <3>2 DEF Rows
  <2>. QED BY <2>1 DEF NoneDeferred
<1>. QED BY <1>1, <1>2, <1>3, ReworksForward

\* Whatever is committed to the store, by any caller.
LEMMA StoreForward ==
    ASSUME MirrorInv, [Next]_mirrorVars
    PROVE  Forward
<1>1. CASE Finish
  BY <1>1, FinishReworks, ReworksForward DEF MirrorInv
<1>2. CASE UNCHANGED mirrorVars
  <2>1. \A t \in Threads, r \in Revisions : queue[t][r].seq <= queue[t][r].seq
    BY DEF MirrorInv, TypeOK, Rows
  <2>. QED BY <1>2, <2>1 DEF mirrorVars, Forward
<1>. QED BY <1>1, <1>2, ApplyForward, ClaimForward, TickForward DEF Next

\* No row overtakes its thread's pointer.
LEMMA PointerLastStep ==
    ASSUME MirrorInv, PointerLast, [Next]_mirrorVars
    PROVE  PointerLast'
<1> USE DEF MirrorInv
<1>1. CASE Apply
  <2>1. PICK u \in Updates, got \in [Threads -> Outcomes] :
          /\ \A t \in Threads \ Changed(u, got) : Stays(t)
          /\ \E seq \in [Changed(u, got) -> Nat] :
               \A t \in Changed(u, got) :
                 /\ Moves(t, Target(u, got[t]), seq[t])
                 /\ checkpoint.lastSeq < seq[t]
    BY <1>1, ApplyCases
  <2>2. ASSUME NEW t \in Threads
        PROVE  /\ \A r \in Revisions : queue'[t][r].seq <= pointer'[t].seq
               /\ pointer'[t].rev # NoRevision => pointer'[t].seq > 0
    <3>1. CASE t \in Changed(u, got)
      <4>1. PICK n \in Nat : /\ Moves(t, Target(u, got[t]), n)
                             /\ checkpoint.lastSeq < n
        BY <2>1, <3>1
      <4>2. pointer'[t].seq = n /\ n > 0
        BY <4>1 DEF Moves, TypeOK, Checkpoints
      <4>3. ASSUME NEW r \in Revisions PROVE queue'[t][r].seq <= n
        <5>1. queue[t][r] \in Rows /\ queue[t][r].seq <= checkpoint.lastSeq
          BY DEF TypeOK, SequencesDistinct
        <5>2. \/ queue'[t][r] = Enqueued(queue[t][r], n)
              \/ queue'[t][r] = Superseded(queue[t][r])
          BY <4>1 DEF Moves
        <5>3. queue'[t][r].seq = n \/ queue'[t][r].seq = queue[t][r].seq
          BY <5>1, <5>2, EnqueuedRow, SupersededRow
        <5>4. queue[t][r].seq \in Nat /\ checkpoint.lastSeq \in Nat
          BY <5>1 DEF Rows, TypeOK, Checkpoints
        <5>. QED BY <4>1, <5>1, <5>3, <5>4
      <4>. QED BY <4>2, <4>3
    <3>2. CASE t \notin Changed(u, got)
      BY <2>1, <3>2 DEF Stays, PointerLast
    <3>. QED BY <3>1, <3>2
  <2>. QED BY <2>2 DEF PointerLast
<1>2. CASE Reworks
  BY <1>2 DEF Reworks, PointerLast
<1>3. CASE UNCHANGED mirrorVars
  BY <1>3 DEF mirrorVars, PointerLast
<1>. QED BY <1>1, <1>2, <1>3, ClaimReworks, FinishReworks, TickReworks DEF Next

\* The mailbox never brings a thread back to an older revision.
LEMMA NewestStoredStep ==
    ASSUME MirrorInv, HistoryKnown, RunType, NewestStored, [TriageNext]_triageVars
    PROVE  NewestStored'
<1> USE DEF MirrorInv
<1>1. CASE SyncMailbox
  <2>1. PICK complete \in BOOLEAN, got \in [Threads -> Outcomes] :
          /\ \A t \in Threads : got[t] \in Arrivals(t)
          /\ MailboxUnit(complete).hist <= MaxHistory
          /\ ApplySyncUnit(MailboxUnit(complete), got, FALSE, MaxParser)
    BY <1>1 DEF SyncMailbox
  <2> DEFINE u == MailboxUnit(complete)
             changed == Changed(u, got)
  <2>2. u \in Updates /\ Marker(u) # 0
    BY <2>1, UnitAllowed
  <2>3. MaxParser \in Parsers
    BY NumberAssumption, TriageAssumption DEF Parsers
  <2>4. /\ \A t \in changed : pointer'[t].rev = Target(u, got[t])
        /\ \A t \in Threads \ changed : pointer'[t] = pointer[t]
    <3> HIDE DEF u
    <3>1. \E seq \in [changed -> Nat] :
            /\ \A t \in changed : Moves(t, Target(u, got[t]), seq[t])
            /\ \A t \in Threads \ changed : Stays(t)
      BY <2>1, <2>2, <2>3, ApplyMoves DEF u
    <3>2. \A t \in changed : \A n \in Nat : Moves(t, Target(u, got[t]), n)
                                   => pointer'[t].rev = Target(u, got[t])
      BY DEF Moves
    <3>. QED BY <3>1, <3>2 DEF Stays
  <2>5. stored' = StoredAfter(got, changed)
    BY <2>1 DEF ApplySyncUnit
  <2> HIDE DEF u
  <2>6. ASSUME NEW t \in Threads, pointer'[t].rev \in LiveRevisions,
               NEW r \in LiveRevisions, stored'[t][r] # NoBody
        PROVE  r[2] <= pointer'[t].rev[2]
    <3>1. CASE t \in changed
      <4>1. got[t].kind = "found" /\ pointer'[t].rev = got[t].rev
        BY <2>2, <2>4, <2>6, <3>1, TargetType, LiveOrGone
      <4>2. stored[t][r] # NoBody \/ r = got[t].rev
        BY <2>5, <2>6, <3>1 DEF StoredAfter
      <4>3. PICK n \in {m \in 1..MaxRevision :
                          \A k \in 1..MaxRevision :
                             stored[t][<<"live", k>>] # NoBody => k <= m} :
              got[t].rev = <<"live", n>>
        BY <2>1, <4>1 DEF Arrivals, Found, Missing, Broken, NotFetched
      <4>4. r = <<"live", r[2]>> /\ r[2] \in 1..MaxRevision
        BY DEF LiveRevisions
      <4>5. CASE stored[t][r] # NoBody
        <5>1. r[2] <= n
          BY <4>3, <4>4, <4>5
        <5>. QED BY <4>1, <4>3, <5>1
      <4>6. CASE r = got[t].rev
        <5>1. r[2] \in Nat
          BY <4>4, NumberAssumption
        <5>. QED BY <4>1, <4>6, <5>1
      <4>. QED BY <4>2, <4>5, <4>6
    <3>2. CASE t \notin changed
      <4>1. pointer'[t] = pointer[t] /\ stored'[t][r] = stored[t][r]
        BY <2>4, <2>5, <3>2 DEF StoredAfter
      <4>. QED BY <2>6, <4>1 DEF NewestStored
    <3>. QED BY <3>1, <3>2
  <2>. QED BY <2>6 DEF NewestStored
<1>2. CASE ~SyncMailbox
  <2>1. UNCHANGED <<stored, pointer>>
    BY <1>2 DEF TriageNext, RunStep, StartRun, ClaimWork, ClaimPendingTriage, Detect,
                Persist, Ack, FinishTriage, EndRun, Interrupt, Upgrade, TimePasses, Tick,
                mirrorVars, triageVars
  <2>. QED BY <2>1 DEF NewestStored
<1>. QED BY <1>1, <1>2

-----------------------------------------------------------------------------
(* Steps that leave ops.sqlite alone *)

LEMMA StoreStill ==
    ASSUME MirrorInv, UNCHANGED mirrorVars
    PROVE  Forward /\ NoneFinished /\ NoneDeferred
<1>1. \A t \in Threads, r \in Revisions : queue[t][r].seq <= queue[t][r].seq
  BY DEF MirrorInv, TypeOK, Rows
<1>. QED BY <1>1 DEF mirrorVars, Forward, NoneFinished, NoneDeferred

RunKept ==
    /\ run'.phase = run.phase /\ run'.ctx = run.ctx /\ run'.tickets = run.tickets
    /\ run'.verdict = run.verdict

\* Steps of the mailbox, of time and of releases.
LEMMA WorldKeepsRun ==
    ASSUME TriageInv, SyncMailbox \/ TimePasses \/ Upgrade \/ UNCHANGED triageVars
    PROVE  /\ RunKept /\ UNCHANGED <<opsVars, report, interrupts, deferrals>>
           /\ Forward /\ NoneFinished /\ NoneDeferred
<1> USE DEF TriageInv, RunInv
<1>1. CASE SyncMailbox
  <2>1. Apply
    BY <1>1, SyncMailboxApplies DEF MirrorInv
  <2>. QED BY <1>1, <2>1, ApplyForward DEF SyncMailbox, RunKept
<1>2. CASE TimePasses
  BY <1>2, TickForward DEF TimePasses, RunKept, RunType, Runs
<1>3. CASE Upgrade
  BY <1>3, StoreStill DEF Upgrade, RunKept
<1>4. CASE UNCHANGED triageVars
  <2>1. UNCHANGED mirrorVars
    BY <1>4 DEF triageVars, mirrorVars
  <2>. QED BY <1>4, <2>1, StoreStill DEF triageVars, RunKept, opsVars
<1>. QED BY <1>1, <1>2, <1>3, <1>4

\* Only the commit writes decisions, observations and items.
LEMMA OnlyPersistWrites ==
    ASSUME [TriageNext]_triageVars, ~Persist
    PROVE  UNCHANGED opsVars
  BY DEF TriageNext, RunStep, SyncMailbox, StartRun, ClaimWork, Detect, Ack, EndRun,
         Interrupt, Upgrade, TimePasses, triageVars, opsVars

LEMMA ContextStep ==
    ASSUME TriageInv, ContextInv, [TriageNext]_triageVars
    PROVE  ContextInv' /\ context <= context'
<1> USE DEF TriageInv, RunInv
<1>1. context \in Nat
  BY TriageAssumption DEF RunType
<1>2. CASE Upgrade
  <2>1. context' = context + 1 /\ run' = run
    BY <1>2 DEF Upgrade
  <2>2. run.phase # "idle" => run.ctx \in Nat
    BY TriageAssumption DEF RunType
  <2>. QED BY <1>1, <2>1, <2>2 DEF ContextInv
<1>3. CASE StartRun
  BY <1>1, <1>3 DEF StartRun, IdleRun, ContextInv
<1>4. CASE Persist
  <2>1. run'.phase = "idle" \/ (run'.phase = "acking" /\ run'.ctx = run.ctx)
    <3>1. CASE UnitCommits
      <4>1. PICK covered : run' = [run EXCEPT !.phase = "acking", !.covered = covered]
        BY <1>4, <3>1 DEF Persist
      <4>. QED BY <4>1 DEF RunType, Runs
    <3>2. CASE ~UnitCommits
      BY <1>4, <3>2 DEF Persist, IdleRun
    <3>. QED BY <3>1, <3>2
  <2>. QED BY <1>1, <1>4, <2>1 DEF Persist, ContextInv
<1>5. CASE ClaimWork \/ Detect \/ Ack
  <2>1. run'.ctx = run.ctx /\ run.phase # "idle" /\ context' = context
    BY <1>5 DEF ClaimWork, Detect, Ack, RunType, Runs
  <2>. QED BY <1>1, <2>1 DEF ContextInv
<1>6. CASE EndRun \/ Interrupt
  BY <1>1, <1>6 DEF EndRun, Interrupt, IdleRun, ContextInv
<1>7. CASE SyncMailbox \/ TimePasses \/ UNCHANGED triageVars
  <2>1. context' = context
    BY <1>7 DEF SyncMailbox, TimePasses, triageVars
  <2>. QED BY <1>1, <1>7, <2>1, WorldKeepsRun DEF RunKept, ContextInv
<1>. QED BY <1>2, <1>3, <1>4, <1>5, <1>6, <1>7 DEF TriageNext, RunStep

LEMMA CountsStep ==
    ASSUME TriageInv, CountsType, [TriageNext]_triageVars
    PROVE  CountsType'
<1> USE DEF TriageInv, RunInv
<1>1. CASE Detect
  <2>1. PICK verdict \in [{k.thread : k \in ToDetect} -> Verdicts] :
          deferrals' = deferrals
              + Cardinality({t \in DOMAIN verdict : ToDefer(verdict[t])})
    BY <1>1 DEF Detect
  <2>2. {k.thread : k \in ToDetect} \subseteq Threads
    BY DEF ToDetect, RunType, Runs, Claims
  <2>3. Cardinality({t \in DOMAIN verdict : ToDefer(verdict[t])}) \in Nat
    BY <2>1, <2>2, IdentityAssumption, FS_Subset, FS_CardinalityType
  <2>4. deferrals' \in Nat
    BY <2>1, <2>3 DEF CountsType
  <2>. QED BY <1>1, <2>4 DEF Detect, CountsType
<1>2. CASE Interrupt
  <2>1. interrupts + 1 \in 0..MaxInterrupts
    BY <1>2, TriageAssumption DEF Interrupt, CountsType
  <2>. QED BY <1>2, <2>1 DEF Interrupt, CountsType
<1>3. CASE ~Detect /\ ~Interrupt
  BY <1>3 DEF TriageNext, RunStep, SyncMailbox, StartRun, ClaimWork, Persist, Ack, EndRun,
              Upgrade, TimePasses, triageVars, CountsType
<1>. QED BY <1>1, <1>2, <1>3

\* What is said of observations, decisions and items outlasts every such step.
LEMMA OpsKept ==
    ASSUME TriageInv, ItemType, DecidedInv, ObsInv, NewestShown, Forward,
           TypeOK', UNCHANGED opsVars, context <= context', context' \in Contexts
    PROVE  ItemType' /\ DecidedInv' /\ ObsInv' /\ NewestShown'
<1> USE DEF opsVars
<1>1. ItemType'
  BY DEF ItemType, Known
<1>2. DecidedInv'
  <2>1. context \in Nat /\ context' \in Nat /\ Contexts \subseteq Nat
    BY TriageAssumption DEF TriageInv, RunInv, RunType
  <2>2. ASSUME NEW t \in Threads, NEW r \in LiveRevisions, NEW c \in Contexts,
               <<t, r, c>> \in decided
        PROVE  c <= context' /\ stored'[t][r] # NoBody
    <3>1. c <= context /\ stored[t][r] # NoBody
      BY <2>2 DEF DecidedInv
    <3>2. c \in Nat
      BY <2>1
    <3>3. c <= context'
      BY <2>1, <3>1, <3>2
    <3>. QED BY <3>1, <3>3 DEF Forward
  <2>. QED BY <2>2 DEF DecidedInv
<1>3. ObsInv'
  <2>1. ASSUME NEW t \in Threads, NEW i \in ObservationIds, Known(t, i)
        PROVE  /\ i \in Interpretations
                    => obs[t][i].cite = i[1] /\ <<t, i[1], i[2]>> \in decided
               /\ \E c \in Contexts : obs[t][<<obs[t][i].cite, c>>] # NoObservation
               /\ obs[t][i].order <= queue'[t][i[1]].seq
    <3>1. i[1] \in Revisions
      BY InterpretationOrNot
    <3>2. queue[t][i[1]].seq <= queue'[t][i[1]].seq
      BY <3>1 DEF Forward
    <3>3. /\ i \in Interpretations
               => obs[t][i].cite = i[1] /\ <<t, i[1], i[2]>> \in decided
          /\ \E c \in Contexts : Known(t, <<obs[t][i].cite, c>>)
          /\ obs[t][i].order <= queue[t][i[1]].seq
      BY <2>1 DEF ObsInv
    <3>4. obs[t][i].order \in Nat
      BY <2>1, KnownType
    <3>5. queue[t][i[1]].seq \in Nat
      BY <3>1 DEF TriageInv, MirrorInv, TypeOK, Rows
    <3>6. queue'[t][i[1]].seq \in Nat
      BY <3>1 DEF TypeOK, Rows
    <3>. QED BY <3>2, <3>3, <3>4, <3>5, <3>6 DEF Known
  <2>. QED BY <2>1 DEF ObsInv, Known
<1>4. NewestShown'
  BY DEF NewestShown, Shown
<1>. QED BY <1>1, <1>2, <1>3, <1>4

-----------------------------------------------------------------------------
(* Claims *)

LEMMA NothingClaimed ==
    IdleRun \in Runs /\ IdleRun.tickets = {} /\ DOMAIN IdleRun.verdict = {}
<1>1. 0 \in 0..DeferTicks
  BY NumberAssumption
<1>2. [t \in {} |-> Uncertain] \in UNION {[S -> Verdicts] : S \in SUBSET Threads}
  <2>1. [t \in {} |-> Uncertain] \in [{} -> Verdicts]
    OBVIOUS
  <2>. QED BY <2>1
<1>. QED BY <1>1, <1>2 DEF IdleRun, Runs, Phases

\* A run that starts or ends has no claims.
LEMMA NothingStarted ==
    ASSUME StartRun \/ EndRun \/ Interrupt
    PROVE  run'.tickets = {} /\ DOMAIN run'.verdict = {}
<1>1. \/ run' = IdleRun
      \/ run' = [IdleRun EXCEPT !.phase = "started", !.ctx = context,
                                !.covered = checkpoint.complete]
  BY DEF StartRun, EndRun, Interrupt
<1> HIDE DEF IdleRun
<1>. QED BY <1>1, NothingClaimed DEF Runs

LEMMA TicketsShrink ==
    ASSUME TriageInv, [TriageNext]_triageVars, ~ClaimWork
    PROVE  run'.tickets \subseteq run.tickets
<1> USE DEF TriageInv, RunInv
<1>1. CASE Persist
  <2>1. CASE UnitCommits
    <3>1. PICK covered : run' = [run EXCEPT !.phase = "acking", !.covered = covered]
      BY <1>1, <2>1 DEF Persist
    <3>. QED BY <3>1 DEF RunType, Runs
  <2>2. CASE ~UnitCommits
    BY <1>1, <2>2 DEF Persist, IdleRun
  <2>. QED BY <2>1, <2>2
<1>2. CASE StartRun \/ EndRun \/ Interrupt
  BY <1>2, NothingStarted
<1>3. CASE Detect
  <2>1. PICK verdict : run' = [run EXCEPT !.phase = "detected", !.verdict = verdict]
    BY <1>3 DEF Detect
  <2>. QED BY <2>1 DEF RunType, Runs
<1>5. CASE Ack
  <2>1. PICK k : run' = [run EXCEPT !.tickets = @ \ {k}]
    BY <1>5 DEF Ack
  <2>. QED BY <2>1 DEF RunType, Runs
<1>4. CASE SyncMailbox \/ TimePasses \/ Upgrade \/ UNCHANGED triageVars
  BY <1>4, WorldKeepsRun DEF RunKept
<1>. QED BY <1>1, <1>2, <1>3, <1>4, <1>5 DEF TriageNext, RunStep

\* A claim takes one ticket per chosen thread, of its current revision under the
\* pointer's sequence, and leaves the row in processing.
LEMMA ClaimTakes ==
    ASSUME TriageInv, ClaimWork
    PROVE  /\ run'.tickets = {[thread |-> t, rev |-> pointer[t].rev,
                               gen |-> queue'[t][pointer[t].rev].gen,
                               seq |-> queue[t][pointer[t].rev].seq,
                               err |-> queue'[t][pointer[t].rev].err] :
                                 t \in Chosen(run.ctx)}
           /\ \A k \in run'.tickets :
                /\ k.thread \in Threads /\ k.rev \in Revisions
                /\ k.rev = pointer[k.thread].rev /\ k.seq = pointer[k.thread].seq
                /\ k.seq = queue[k.thread][k.rev].seq
                /\ k.err = queue'[k.thread][k.rev].err
                /\ queue'[k.thread][k.rev].state = "processing"
<1> USE DEF TriageInv, RunInv, MirrorInv
<1>1. run'.tickets = {[thread |-> t, rev |-> pointer[t].rev,
                       gen |-> queue'[t][pointer[t].rev].gen,
                       seq |-> queue[t][pointer[t].rev].seq,
                       err |-> queue'[t][pointer[t].rev].err] :
                         t \in Chosen(run.ctx)}
  BY DEF ClaimWork, RunType, Runs
<1>2. ASSUME NEW t \in Chosen(run.ctx)
      PROVE  /\ t \in Threads /\ pointer[t].rev \in Revisions
             /\ queue[t][pointer[t].rev].seq = pointer[t].seq
             /\ queue'[t][pointer[t].rev].state = "processing"
  <2>1. t \in Threads /\ pointer[t].rev # NoRevision
    BY DEF Chosen, Claimable
  <2>2. pointer[t].rev \in Revisions
    BY <2>1 DEF TypeOK
  <2>3. queue[t][pointer[t].rev].seq = pointer[t].seq
    BY <2>1 DEF CurrentIsQueued, CurrentQueued
  <2>4. queue'[t][pointer[t].rev] = Claimed(Expired(queue[t][pointer[t].rev]))
    BY <2>1, <2>2 DEF ClaimWork, ClaimPendingTriage, QueueAfterClaim
  <2>5. Expired(queue[t][pointer[t].rev]) \in Rows
    BY <2>1, <2>2, ExpiredRow DEF TypeOK
  <2>. QED BY <2>1, <2>2, <2>3, <2>4, <2>5, ClaimedRow
<1>. QED BY <1>1, <1>2

LEMMA OneTicketStep ==
    ASSUME TriageInv, OneTicket, [TriageNext]_triageVars
    PROVE  OneTicket'
<1>1. CASE ClaimWork
  BY <1>1, ClaimTakes DEF OneTicket
<1>2. CASE ~ClaimWork
  BY <1>2, TicketsShrink DEF OneTicket
<1>. QED BY <1>1, <1>2

\* What is claimed is ahead of the item: the pointer is the newest stored revision
\* and no stored observation sorts after it.
LEMMA ClaimAhead ==
    ASSUME TriageInv, ItemType, DecidedInv, ObsInv, NewestStored, PointerLast,
           ClaimWork, NEW k \in run'.tickets
    PROVE  Ahead(k)'
<1> USE DEF TriageInv, RunInv, MirrorInv
<1> DEFINE t == k.thread
           r == k.rev
<1>1. /\ t \in Threads /\ r \in Revisions
      /\ r = pointer[t].rev /\ k.seq = pointer[t].seq /\ k.seq = queue[t][r].seq
      /\ queue'[t][r].state = "processing"
  BY ClaimTakes
<1>2. UNCHANGED <<opsVars, checkpoint, stored, pointer, quarantine>>
  BY DEF ClaimWork, ClaimPendingTriage
<1>3. UNCHANGED <<decided, obs, item>>
  BY <1>2 DEF opsVars
<1> HIDE DEF t, r
<1>4. pointer'[t].rev # NoRevision /\ CurrentQueued(t)'.state # "completed"
  BY <1>1, <1>2, RevisionAssumption DEF CurrentQueued
<1>5. k.seq <= queue'[t][r].seq
  <2>1. Claim
    BY DEF ClaimWork, Claim, RunType
  <2>2. queue[t][r].seq <= queue'[t][r].seq
    BY <1>1, <2>1, ClaimForward DEF Forward
  <2>. QED BY <1>1, <2>2
<1>6. ASSUME item[t] # NoItem
      PROVE  /\ Shown(t).order <= k.seq
             /\ Shown(t).order = k.seq => item[t][1] = r
             /\ r \in LiveRevisions => Shown(t).cite[2] <= r[2]
  <2> DEFINE q == item[t][1]
             n == Shown(t).order
  <2>1. item[t] \in ObservationIds /\ Known(t, item[t]) /\ q \in Revisions
        /\ n \in Nat /\ Shown(t).cite \in LiveRevisions
    BY <1>1, <1>6, ShownKnown, InterpretationOrNot
  <2>2. n <= queue[t][q].seq
    BY <1>1, <2>1 DEF ObsInv, Shown
  <2>3. queue[t][q].seq <= pointer[t].seq
    BY <1>1, <2>1 DEF PointerLast
  <2>4. queue[t][q].seq \in Nat /\ pointer[t].seq \in Nat
    BY <1>1, <2>1 DEF TypeOK, Rows
  <2>5. pointer[t].seq > 0
    BY <1>1, RevisionAssumption DEF PointerLast
  <2>6. n <= k.seq
    BY <1>1, <2>1, <2>2, <2>3, <2>4
  <2>7. ASSUME n = k.seq PROVE q = r
    <3>1. queue[t][q].seq = queue[t][r].seq /\ queue[t][q].seq # 0
      BY <1>1, <2>1, <2>2, <2>3, <2>4, <2>5, <2>7
    <3>. QED BY <1>1, <2>1, <3>1 DEF SequencesDistinct
  <2>8. ASSUME r \in LiveRevisions PROVE Shown(t).cite[2] <= r[2]
    <3>1. PICK c \in Contexts : Known(t, <<Shown(t).cite, c>>)
      BY <1>1, <2>1 DEF ObsInv, Shown
    <3>2. <<Shown(t).cite, c>> \in Interpretations
      BY <2>1 DEF Interpretations
    <3>3. <<t, Shown(t).cite, c>> \in decided
      BY <1>1, <3>1, <3>2 DEF ObsInv, ObservationIds
    <3>4. stored[t][Shown(t).cite] # NoBody
      BY <1>1, <2>1, <3>3 DEF DecidedInv
    <3>. QED BY <1>1, <2>1, <2>8, <3>4 DEF NewestStored
  <2>. QED BY <2>6, <2>7, <2>8
<1>7. ASSUME r \in LiveRevisions
      PROVE  /\ stored[t][r] # NoBody
             /\ \A q \in LiveRevisions, c \in Contexts :
                   <<t, q, c>> \in decided => q[2] <= r[2]
  BY <1>1, <1>7 DEF PointerStored, NewestStored, DecidedInv
<1>. QED BY <1>2, <1>3, <1>4, <1>5, <1>6, <1>7 DEF Ahead, Shown, t, r

\* It stays ahead until the run commits, whatever lands meanwhile.
LEMMA AheadStays ==
    ASSUME TriageInv, TypeOK', Forward, NoneFinished, UNCHANGED opsVars,
           NEW k \in run.tickets, Ahead(k)
    PROVE  Ahead(k)'
<1> USE DEF TriageInv, RunInv, MirrorInv
<1>1. k.thread \in Threads /\ k.rev \in Revisions /\ k.seq \in Nat
  BY DEF RunType, Runs, Claims
<1>2. /\ pointer'[k.thread].rev # NoRevision
      /\ CurrentQueued(k.thread)'.state # "completed"
  BY <1>1 DEF Ahead, Forward, NoneFinished, CurrentQueued
<1>3. k.seq <= queue'[k.thread][k.rev].seq
  <2>1. /\ queue[k.thread][k.rev].seq \in Nat /\ queue'[k.thread][k.rev].seq \in Nat
    BY <1>1 DEF TypeOK, Rows
  <2>. QED BY <1>1, <2>1 DEF Ahead, Forward
<1>4. k.rev \in LiveRevisions => stored'[k.thread][k.rev] # NoBody
  BY <1>1 DEF Ahead, Forward
<1>. QED BY <1>2, <1>3, <1>4 DEF Ahead, Shown, opsVars

LEMMA TicketsAheadStep ==
    ASSUME TriageInv, TypeOK', ItemType, DecidedInv, ObsInv, NewestStored, PointerLast,
           TicketsAhead, [TriageNext]_triageVars
    PROVE  TicketsAhead'
<1> USE DEF TriageInv, RunInv
<1>1. CASE ClaimWork
  BY <1>1, ClaimAhead DEF TicketsAhead
<1>2. CASE Detect
  <2>1. run.phase = "claimed" /\ run'.tickets = run.tickets /\ UNCHANGED opsVars
        /\ UNCHANGED mirrorVars
    BY <1>2 DEF Detect, RunType, Runs
  <2>2. Forward /\ NoneFinished
    BY <2>1, StoreStill
  <2>3. \A k \in run.tickets : Ahead(k)'
    BY <2>1, <2>2, AheadStays DEF TicketsAhead
  <2>. QED BY <2>1, <2>3 DEF TicketsAhead
<1>3. CASE SyncMailbox \/ TimePasses \/ Upgrade \/ UNCHANGED triageVars
  <2>1. RunKept /\ UNCHANGED opsVars /\ Forward /\ NoneFinished
    BY <1>3, WorldKeepsRun
  <2>2. ASSUME run'.phase \in {"claimed", "detected"}, NEW k \in run'.tickets
        PROVE  Ahead(k)'
    <3>1. k \in run.tickets /\ Ahead(k)
      BY <2>1, <2>2 DEF RunKept, TicketsAhead
    <3>. QED BY <2>1, <3>1, AheadStays
  <2>. QED BY <2>2 DEF TicketsAhead
<1>4. CASE StartRun \/ Persist \/ Ack \/ EndRun \/ Interrupt
  <2>1. run'.phase \notin {"claimed", "detected"}
    BY <1>4, PhaseAfter
  <2>. QED BY <2>1 DEF TicketsAhead
<1>. QED BY <1>1, <1>2, <1>3, <1>4 DEF TriageNext, RunStep

LEMMA SuppressedStep ==
    ASSUME TriageInv, SuppressedUnshown, [TriageNext]_triageVars
    PROVE  SuppressedUnshown'
<1> USE DEF TriageInv, RunInv
<1>1. CASE Detect
  <2>1. PICK verdict \in [{k.thread : k \in ToDetect} -> Verdicts] :
          /\ \A t \in DOMAIN verdict : verdict[t] \in VerdictsOn(t)
          /\ run' = [run EXCEPT !.phase = "detected", !.verdict = verdict]
    BY <1>1 DEF Detect
  <2>2. run'.verdict = verdict /\ item' = item
    BY <1>1, <2>1 DEF Detect, opsVars, RunType, Runs
  <2>3. \A t \in DOMAIN verdict :
           verdict[t].disposition = "suppressed" => item[t] = NoItem
    BY <2>1 DEF VerdictsOn, Verdict
  <2>. QED BY <2>2, <2>3 DEF SuppressedUnshown
<1>2. CASE SyncMailbox \/ TimePasses \/ Upgrade \/ UNCHANGED triageVars
  <2>1. RunKept /\ UNCHANGED opsVars
    BY <1>2, WorldKeepsRun
  <2>. QED BY <2>1 DEF RunKept, opsVars, SuppressedUnshown
<1>3. CASE StartRun \/ ClaimWork \/ Persist \/ Ack \/ EndRun \/ Interrupt
  <2>1. run'.phase # "detected"
    BY <1>3, PhaseAfter
  <2>. QED BY <2>1 DEF SuppressedUnshown
<1>. QED BY <1>1, <1>2, <1>3 DEF TriageNext, RunStep

\* Without failed or deferred detections there are no recorded errors.
LEMMA UndeferredStep ==
    ASSUME TriageInv, CountsType, Undeferred, [TriageNext]_triageVars
    PROVE  Undeferred'
<1> USE DEF TriageInv, RunInv, MirrorInv
<1>0. deferrals' = 0 => deferrals = 0
  <2>1. CASE Detect
    <3>1. PICK verdict \in [{k.thread : k \in ToDetect} -> Verdicts] :
            deferrals' = deferrals
                + Cardinality({t \in DOMAIN verdict : ToDefer(verdict[t])})
      BY <2>1 DEF Detect
    <3>2. {k.thread : k \in ToDetect} \subseteq Threads
      BY DEF ToDetect, RunType, Runs, Claims
    <3>3. Cardinality({t \in DOMAIN verdict : ToDefer(verdict[t])}) \in Nat
      BY <3>1, <3>2, IdentityAssumption, FS_Subset, FS_CardinalityType
    <3>. QED BY <3>1, <3>3 DEF CountsType
  <2>2. CASE ~Detect
    BY <2>2 DEF TriageNext, RunStep, SyncMailbox, StartRun, ClaimWork, Persist, Ack,
                EndRun, Interrupt, Upgrade, TimePasses, triageVars
  <2>. QED BY <2>1, <2>2
<1> SUFFICES ASSUME deferrals' = 0, deferrals = 0
             PROVE  /\ \A t \in Threads, r \in Revisions : queue'[t][r].err # "other"
                    /\ \A k \in run'.tickets : k.err # "other"
                    /\ \A t \in DOMAIN run'.verdict : ~ToDefer(run'.verdict[t])
  BY <1>0 DEF Undeferred, ToDefer
<1>1. /\ \A t \in Threads, r \in Revisions : queue[t][r].err # "other"
      /\ \A k \in run.tickets : k.err # "other"
      /\ \A t \in DOMAIN run.verdict : ~ToDefer(run.verdict[t])
  BY DEF Undeferred
<1>2. CASE ClaimWork
  <2>1. Claim
    BY <1>2 DEF ClaimWork, Claim, RunType
  <2>2. \A t \in Threads, r \in Revisions : queue'[t][r].err # "other"
    BY <1>1, <2>1, ClaimForward DEF NoneDeferred
  <2>3. run'.verdict = run.verdict
    BY <1>2 DEF ClaimWork, RunType, Runs
  <2>. QED BY <1>1, <1>2, <2>2, <2>3, ClaimTakes
<1>3. CASE Detect
  <2>1. PICK verdict \in [{k.thread : k \in ToDetect} -> Verdicts] :
          /\ deferrals' = deferrals
                + Cardinality({t \in DOMAIN verdict : ToDefer(verdict[t])})
          /\ run' = [run EXCEPT !.phase = "detected", !.verdict = verdict]
    BY <1>3 DEF Detect
  <2> DEFINE put == {t \in DOMAIN verdict : ToDefer(verdict[t])}
  <2>2. {k.thread : k \in ToDetect} \subseteq Threads
    BY DEF ToDetect, RunType, Runs, Claims
  <2>3. IsFiniteSet(put)
    BY <2>1, <2>2, IdentityAssumption, FS_Subset
  <2>4. Cardinality(put) = 0
    <3>1. Cardinality(put) \in Nat
      BY <2>3, FS_CardinalityType
    <3>. QED BY <2>1, <3>1
  <2>5. put = {}
    <3> HIDE DEF put
    <3>. QED BY <2>3, <2>4, FS_EmptySet
  <2>6. run'.verdict = verdict /\ run'.tickets = run.tickets /\ queue' = queue
    BY <1>3, <2>1 DEF Detect, mirrorVars, RunType, Runs
  <2>. QED BY <1>1, <2>5, <2>6
<1>4. CASE Ack
  <2>1. PICK k \in run.tickets :
          /\ \/ UNCHANGED mirrorVars
             \/ /\ Deferred(k)
                /\ FinishTriage(k.thread, k.rev, k.gen, "deferred", NoContext,
                                RetryIn, "other")
             \/ FinishTriage(k.thread, k.rev, k.gen, "completed", run.ctx, 0, "none")
          /\ run' = [run EXCEPT !.tickets = @ \ {k}]
    BY <1>4 DEF Ack
  <2>2. run'.tickets \subseteq run.tickets /\ run'.verdict = run.verdict
    BY <2>1 DEF RunType, Runs
  <2>3. ~Deferred(k)
    BY <1>1 DEF Deferred
  <2>4. ASSUME NEW t \in Threads, NEW r \in Revisions
        PROVE  queue'[t][r].err # "other"
    <3>1. queue[t][r] \in Rows
      BY DEF TypeOK
    <3>2. CASE UNCHANGED mirrorVars
      BY <1>1, <3>2 DEF mirrorVars
    <3>3. CASE queue' = [queue EXCEPT ![k.thread][k.rev]
                           = Finished(@, "completed", run.ctx, 0, "none")]
      <4>1. CASE t = k.thread /\ r = k.rev
        <5>1. queue'[t][r] = Finished(queue[t][r], "completed", run.ctx, 0, "none")
          BY <3>3, <4>1 DEF TypeOK
        <5>. QED BY <3>1, <5>1 DEF Finished, Rows
      <4>2. CASE ~(t = k.thread /\ r = k.rev)
        <5>1. queue'[t][r] = queue[t][r]
          BY <3>3, <4>2 DEF TypeOK
        <5>. QED BY <1>1, <5>1
      <4>. QED BY <4>1, <4>2
    <3>. QED BY <2>1, <2>3, <3>2, <3>3 DEF FinishTriage
  <2>. QED BY <1>1, <2>2, <2>4
<1>5. CASE Persist
  <2>1. queue' = queue
    BY <1>5 DEF Persist, mirrorVars
  <2>2. \/ run'.tickets = run.tickets /\ run'.verdict = run.verdict
        \/ run' = IdleRun
    <3>1. CASE UnitCommits
      <4>1. PICK covered : run' = [run EXCEPT !.phase = "acking", !.covered = covered]
        BY <1>5, <3>1 DEF Persist
      <4>. QED BY <4>1 DEF RunType, Runs
    <3>2. CASE ~UnitCommits
      BY <1>5, <3>2 DEF Persist
    <3>. QED BY <3>1, <3>2
  <2>3. IdleRun.tickets = {} /\ DOMAIN IdleRun.verdict = {}
    BY DEF IdleRun
  <2>. QED BY <1>1, <2>1, <2>2, <2>3
<1>6. CASE StartRun \/ EndRun \/ Interrupt
  <2>1. queue' = queue
    BY <1>6 DEF StartRun, EndRun, Interrupt, mirrorVars
  <2>2. run'.tickets = {} /\ DOMAIN run'.verdict = {}
    BY <1>6, NothingStarted
  <2>. QED BY <1>1, <2>1, <2>2
<1>7. CASE SyncMailbox \/ TimePasses \/ Upgrade \/ UNCHANGED triageVars
  BY <1>1, <1>7, WorldKeepsRun DEF RunKept, NoneDeferred
<1>. QED BY <1>2, <1>3, <1>4, <1>5, <1>6, <1>7 DEF TriageNext, RunStep

-----------------------------------------------------------------------------
(* Acknowledgements *)

\* Acknowledging leaves what was committed as it is.
LEMMA AckShown ==
    ASSUME TriageInv, TicketsShown, CompletedIsProjected, Ack
    PROVE  TicketsShown' /\ CompletedIsProjected'
<1> USE DEF TriageInv, RunInv, MirrorInv
<1>1. PICK k \in run.tickets :
        /\ \/ UNCHANGED mirrorVars
           \/ /\ Deferred(k)
              /\ FinishTriage(k.thread, k.rev, k.gen, "deferred", NoContext,
                              RetryIn, "other")
           \/ /\ ~Deferred(k)
              /\ FinishTriage(k.thread, k.rev, k.gen, "completed", run.ctx, 0, "none")
        /\ run' = [run EXCEPT !.tickets = @ \ {k}]
  BY DEF Ack
<1>2. /\ run'.tickets \subseteq run.tickets /\ run'.verdict = run.verdict
      /\ run.phase = "acking" /\ item' = item
  BY <1>1 DEF Ack, opsVars, RunType, Runs
<1>3. TicketsShown'
  BY <1>2 DEF TicketsShown, Deferred
<1>4. ASSUME NEW t \in Threads, pointer'[t].rev # NoRevision,
             queue'[t][pointer'[t].rev].state = "completed", item[t] # NoItem
      PROVE  item[t][1] = pointer'[t].rev
  <2>1. pointer' = pointer
    BY <1>1 DEF FinishTriage, mirrorVars
  <2>2. pointer[t].rev \in Revisions
    BY <1>4, <2>1 DEF TypeOK
  <2>3. CASE queue[t][pointer[t].rev].state = "completed"
    BY <1>4, <2>1, <2>3 DEF CompletedIsProjected, CurrentQueued
  <2>4. CASE queue[t][pointer[t].rev].state # "completed"
    <3>1. PICK state, ctx, avail, err :
            /\ FinishTriage(k.thread, k.rev, k.gen, state, ctx, avail, err)
            /\ state = "completed" => ~Deferred(k)
      <4>1. ~(UNCHANGED mirrorVars)
        BY <1>4, <2>1, <2>4 DEF mirrorVars
      <4>. QED BY <1>1, <4>1
    <3>2. /\ pointer[k.thread].rev = k.rev
          /\ queue' = [queue EXCEPT ![k.thread][k.rev]
                                      = Finished(@, state, ctx, avail, err)]
      BY <3>1 DEF FinishTriage, Finishable
    <3>3. t = k.thread /\ pointer[t].rev = k.rev
      <4>1. CASE t # k.thread
        <5>1. queue'[t] = queue[t]
          BY <3>2, <4>1 DEF TypeOK
        <5>. QED BY <1>4, <2>1, <2>4, <5>1
      <4>. QED BY <3>2, <4>1
    <3>4. queue[t][k.rev] \in Rows
      BY <2>2, <3>3 DEF TypeOK
    <3>5. queue'[t][k.rev] = Finished(queue[t][k.rev], state, ctx, avail, err)
      BY <2>2, <3>2, <3>3 DEF TypeOK
    <3>6. state = "completed"
      BY <1>4, <2>1, <3>3, <3>4, <3>5 DEF Finished, Rows
    <3>. QED BY <1>2, <1>4, <2>1, <3>1, <3>3, <3>6 DEF TicketsShown
  <2>. QED BY <2>3, <2>4
<1>. QED BY <1>2, <1>3, <1>4 DEF CompletedIsProjected, CurrentQueued

-----------------------------------------------------------------------------
(* The operational commit *)

\* A claim that was not cached and is not deferred has its answer.
LEMMA ClaimFacts ==
    ASSUME TriageInv, OneTicket, run.phase = "detected", NEW k \in run.tickets
    PROVE  /\ k.thread \in Threads /\ k.rev \in Revisions /\ k.seq \in Nat
           /\ run.ctx \in Contexts
           /\ TicketOf(k.thread) = k
           /\ k.thread \in DOMAIN run.verdict <=> k \in ToDetect
           /\ k.rev \in Tombstones <=> k.rev \notin LiveRevisions
           /\ k \in ToDetect => /\ k.rev \in LiveRevisions
                                /\ run.verdict[k.thread] \in Verdicts
<1> USE DEF TriageInv, RunInv
<1>1. k.thread \in Threads /\ k.rev \in Revisions /\ k.seq \in Nat /\ run.ctx \in Contexts
  BY DEF RunType, Runs, Claims
<1>2. TicketOf(k.thread) = k
  BY DEF TicketOf, OneTicket
<1>3. k.thread \in DOMAIN run.verdict <=> k \in ToDetect
  BY DEF Answered, ToDetect, OneTicket
<1>4. k.rev \in Tombstones <=> k.rev \notin LiveRevisions
  BY <1>1, LiveOrGone DEF Revisions
<1>5. k \in ToDetect => k.rev \in LiveRevisions /\ run.verdict[k.thread] \in Verdicts
  BY <1>3 DEF ToDetect, Answered
<1>. QED BY <1>1, <1>2, <1>3, <1>4, <1>5

\* A surfaced detection brings the interpretation of the claimed revision.
LEMMA SurfacedObservation ==
    ASSUME ItemInv, run.phase = "detected", NEW k \in run.tickets, Surfaces(k)
    PROVE  /\ k \in ToDetect
           /\ k.rev \in LiveRevisions /\ ~Revalidates(k)
           /\ ObservationId(k) = <<k.rev, run.ctx>> /\ ObservationId(k)[1] = k.rev
           /\ ObservationId(k) \in Interpretations
           /\ Observation(k) \in Observations
           /\ Observation(k).cite = k.rev /\ Observation(k).order = k.seq
           /\ <<k.thread, k.rev, run.ctx>> \in NewlyDecided
<1> USE DEF ItemInv
<1>1. /\ k.thread \in Threads /\ k.seq \in Nat /\ run.ctx \in Contexts
      /\ k \in ToDetect /\ k.rev \in LiveRevisions /\ ~Revalidates(k)
      /\ run.verdict[k.thread] \in Verdicts
  BY ClaimFacts DEF Surfaces, Revalidates
<1>2. ObservationId(k) = <<k.rev, run.ctx>> /\ ObservationId(k)[1] = k.rev
  BY <1>1 DEF ObservationId
<1>3. ObservationId(k) \in Interpretations
  BY <1>1, <1>2 DEF Interpretations
<1>4. Observation(k) = [body |-> Content(run.verdict[k.thread].body), order |-> k.seq,
                        cite |-> k.rev]
  BY <1>1 DEF Observation
<1>5. Content(run.verdict[k.thread].body) \in [base : Readings \cup {Uncertain}, notices : Nat]
  BY <1>1 DEF Content, Verdicts
<1>6. Observation(k) \in Observations
  BY <1>1, <1>4, <1>5 DEF Observations
<1>7. <<k.thread, k.rev, run.ctx>> \in NewlyDecided
  BY <1>1 DEF NewlyDecided, Surfaces
<1>. QED BY <1>1, <1>2, <1>3, <1>4, <1>6, <1>7

\* A revalidation cites what the item cited.
LEMMA RevalidatedObservation ==
    ASSUME ItemInv, run.phase = "detected", NEW k \in run.tickets, Revalidates(k)
    PROVE  /\ k.rev \in Tombstones /\ k.rev \notin LiveRevisions /\ k \notin ToDetect
           /\ ObservationId(k) = <<k.rev, NoContext>> /\ ObservationId(k)[1] = k.rev
           /\ ObservationId(k) \in Revalidations
           /\ Observation(k) \in Observations
           /\ Observation(k).cite = Shown(k.thread).cite /\ Observation(k).order = k.seq
<1> USE DEF ItemInv
<1>1. /\ k.thread \in Threads /\ k.seq \in Nat /\ item[k.thread] # NoItem
      /\ k.rev \in Tombstones /\ k.rev \notin LiveRevisions /\ k \notin ToDetect
  BY ClaimFacts DEF Revalidates
<1>2. ObservationId(k) = <<k.rev, NoContext>> /\ ObservationId(k)[1] = k.rev
  BY DEF ObservationId
<1>3. ObservationId(k) \in Revalidations
  BY <1>1, <1>2 DEF Revalidations
<1>4. Observation(k) = [body |-> [Shown(k.thread).body EXCEPT !.notices = @ + 1],
                        order |-> k.seq, cite |-> Shown(k.thread).cite]
  BY DEF Observation, Shown
<1>5. Shown(k.thread) \in Observations
  BY <1>1, ShownKnown
<1>6. [Shown(k.thread).body EXCEPT !.notices = @ + 1]
         \in [base : Readings \cup {Uncertain}, notices : Nat]
  BY <1>5 DEF Observations
<1>7. Observation(k) \in Observations
  BY <1>1, <1>4, <1>5, <1>6 DEF Observations
<1>. QED BY <1>1, <1>2, <1>3, <1>4, <1>7

\* A replay gives back the interpretation of the revision the item cites.
LEMMA ReplayedObservation ==
    ASSUME ItemInv, run.phase = "detected", NEW k \in run.tickets, Replays(k)
    PROVE  /\ k \notin ToDetect /\ ~Revalidates(k) /\ ~Surfaces(k)
           /\ k.rev \in LiveRevisions /\ k.rev = Shown(k.thread).cite
           /\ item[k.thread] # NoItem
           /\ ObservationId(k) \in Interpretations /\ ObservationId(k)[1] = k.rev
           /\ Known(k.thread, ObservationId(k))
           /\ Observation(k) = obs[k.thread][ObservationId(k)]
           /\ Observation(k) \in Observations
           /\ RestoresAuthority(k)
<1> USE DEF ItemInv
<1>1. /\ k.thread \in Threads /\ k.rev \in LiveRevisions /\ item[k.thread] # NoItem
      /\ k.rev = Shown(k.thread).cite /\ Synthetic(item[k.thread])
      /\ Cached(k)
  BY DEF Replays, Cached, Shown, TriageInv, RunInv, RunType, Runs, Claims
<1>2. k \notin ToDetect /\ ~Revalidates(k) /\ ~Surfaces(k)
  BY <1>1, ClaimFacts DEF ToDetect, Revalidates, Surfaces
<1>3. ObservationId(k) = Retained(k.thread, k.rev)
  BY <1>2 DEF ObservationId
<1>4. item[k.thread] \in ObservationIds /\ Known(k.thread, item[k.thread])
  BY <1>1, ShownKnown
<1>5. PICK d \in Contexts : Known(k.thread, <<k.rev, d>>)
  BY <1>1, <1>4 DEF ObsInv, Shown
<1>6. /\ ObservationId(k) \in Interpretations /\ ObservationId(k)[1] = k.rev
      /\ Known(k.thread, ObservationId(k))
  BY <1>1, <1>3, <1>5, RetainedKnown
<1>7. Observation(k) = obs[k.thread][ObservationId(k)]
  BY <1>2 DEF Observation
<1>8. ObservationId(k) \in ObservationIds
  BY <1>6 DEF ObservationIds
<1>9. Observation(k) \in Observations
  BY <1>1, <1>6, <1>7, <1>8, KnownType
<1>10. Observation(k).cite = k.rev
  BY <1>1, <1>6, <1>7, <1>8 DEF ObsInv
<1>11. ~Synthetic(ObservationId(k))
  BY <1>6, InterpretationOrNot DEF Synthetic
<1>12. RestoresAuthority(k)
  BY <1>1, <1>10, <1>11 DEF RestoresAuthority, Shown
<1>. QED BY <1>1, <1>2, <1>6, <1>7, <1>9, <1>12

\* What any claim brings has the identity of its revision.
LEMMA BroughtObservation ==
    ASSUME ItemInv, run.phase = "detected", NEW k \in Observing
    PROVE  /\ k \in run.tickets /\ k.thread \in Threads
           /\ ObservationId(k) \in ObservationIds /\ ObservationId(k)[1] = k.rev
           /\ Observation(k) \in Observations /\ Observation(k) # NoObservation
<1>1. k \in run.tickets /\ k.thread \in Threads
  BY DEF Observing, ItemInv, TriageInv, RunInv, RunType, Runs, Claims
<1>2. /\ ObservationId(k) \in Interpretations \cup Revalidations
      /\ ObservationId(k)[1] = k.rev /\ Observation(k) \in Observations
  <2>1. CASE Surfaces(k)
    BY <1>1, <2>1, SurfacedObservation
  <2>2. CASE Revalidates(k)
    BY <1>1, <2>2, RevalidatedObservation
  <2>3. CASE Replays(k)
    BY <1>1, <2>3, ReplayedObservation
  <2>. QED BY <2>1, <2>2, <2>3 DEF Observing
<1>. QED BY <1>1, <1>2, ObservationAssumption DEF ObservationIds

\* The step that commits.
Commit == Persist /\ UnitCommits

\* What each claim brings becomes the item's current observation; other threads
\* keep what they show.
LEMMA CommitWrites ==
    ASSUME ItemInv, Commit
    PROVE  /\ run.phase = "detected" /\ run'.phase = "acking"
           /\ run'.tickets = run.tickets /\ run'.verdict = run.verdict
           /\ run'.ctx = run.ctx
           /\ UNCHANGED <<mirrorVars, context, report, interrupts, deferrals>>
           /\ decided' = decided \cup NewlyDecided
           /\ \A k \in Observing :
                /\ item'[k.thread] = ObservationId(k)
                /\ \A i \in ObservationIds :
                     obs'[k.thread][i] = IF i = ObservationId(k) /\ ~Known(k.thread, i)
                                         THEN Observation(k) ELSE obs[k.thread][i]
           /\ \A t \in Threads \ ObservingThreads :
                item'[t] = item[t] /\ \A i \in ObservationIds : obs'[t][i] = obs[t][i]
<1> USE DEF ItemInv
<1>1. /\ run.phase = "detected" /\ obs' = ObsAfter /\ item' = ItemAfter
      /\ decided' = decided \cup NewlyDecided
      /\ UNCHANGED <<mirrorVars, context, report, interrupts, deferrals>>
  BY DEF Commit, Persist
<1>2. /\ run'.phase = "acking" /\ run'.tickets = run.tickets
      /\ run'.verdict = run.verdict /\ run'.ctx = run.ctx
  <2>1. PICK covered : run' = [run EXCEPT !.phase = "acking", !.covered = covered]
    BY DEF Commit, Persist
  <2>. QED BY <2>1 DEF TriageInv, RunInv, RunType, Runs
<1>3. ASSUME NEW k \in Observing
      PROVE  /\ item'[k.thread] = ObservationId(k)
             /\ \A i \in ObservationIds :
                  obs'[k.thread][i] = IF i = ObservationId(k) /\ ~Known(k.thread, i)
                                      THEN Observation(k) ELSE obs[k.thread][i]
  <2>1. k \in run.tickets /\ k.thread \in Threads
    BY <1>1, BroughtObservation
  <2>2. TicketOf(k.thread) = k /\ k.thread \in ObservingThreads
    BY <1>1, <2>1, ClaimFacts DEF ObservingThreads
  <2>3. BecomesCurrent(k)
    <3>1. CASE Surfaces(k) \/ Revalidates(k)
      BY <3>1 DEF Commit, UnitCommits
    <3>2. CASE Replays(k)
      BY <1>1, <2>1, <3>2, ReplayedObservation DEF BecomesCurrent, Known
    <3>. QED BY <3>1, <3>2 DEF Observing
  <2>4. item'[k.thread] = ObservationId(k)
    BY <1>1, <2>1, <2>2, <2>3 DEF ItemAfter
  <2>5. ASSUME NEW i \in ObservationIds
        PROVE  obs'[k.thread][i] = IF i = ObservationId(k) /\ ~Known(k.thread, i)
                                   THEN Observation(k) ELSE obs[k.thread][i]
    BY <1>1, <2>1, <2>2 DEF ObsAfter, Known
  <2>. QED BY <2>4, <2>5
<1>4. ASSUME NEW t \in Threads \ ObservingThreads
      PROVE  item'[t] = item[t] /\ \A i \in ObservationIds : obs'[t][i] = obs[t][i]
  BY <1>1, <1>4 DEF ItemAfter, ObsAfter
<1>. QED BY <1>1, <1>2, <1>3, <1>4

\* What the item of a claimed thread cites afterwards: the claimed revision, or
\* for a deletion what it cited before.
LEMMA CommitCites ==
    ASSUME ItemInv, Commit, NEW k \in Observing
    PROVE  /\ k.rev \in LiveRevisions => Shown(k.thread)'.cite = k.rev
           /\ k.rev \notin LiveRevisions =>
                Revalidates(k) /\ Shown(k.thread)'.cite = Shown(k.thread).cite
<1> USE DEF ItemInv
<1> DEFINE t == k.thread
           id == ObservationId(k)
<1>1. /\ run.phase = "detected" /\ item'[t] = id
      /\ \A i \in ObservationIds :
           obs'[t][i] = IF i = id /\ ~Known(t, i) THEN Observation(k) ELSE obs[t][i]
  BY CommitWrites
<1>2. k \in run.tickets /\ t \in Threads /\ id \in ObservationIds /\ id[1] = k.rev
  BY <1>1, BroughtObservation
<1>3. Shown(t)' = IF Known(t, id) THEN obs[t][id] ELSE Observation(k)
  <2> HIDE DEF id
  <2>1. Shown(t)' = obs'[t][item'[t]]
    BY DEF Shown
  <2>. QED BY <1>1, <1>2, <2>1
<1>4. CASE Surfaces(k)
  <2>1. k.rev \in LiveRevisions /\ id \in Interpretations /\ Observation(k).cite = k.rev
    BY <1>1, <1>2, <1>4, SurfacedObservation
  <2>2. Known(t, id) => obs[t][id].cite = k.rev
    BY <1>2, <2>1 DEF ObsInv
  <2>. QED BY <1>3, <2>1, <2>2
<1>5. CASE Revalidates(k)
  <2>1. k.rev \notin LiveRevisions /\ id \in Revalidations
        /\ Observation(k).cite = Shown(t).cite
    BY <1>1, <1>2, <1>5, RevalidatedObservation
  <2>2. Known(t, id) => id = item[t]
    <3>1. BecomesCurrent(k)
      BY <1>5 DEF Commit, UnitCommits
    <3>2. item[t] # NoItem /\ Synthetic(id)
      BY <1>5, <2>1 DEF Revalidates, Synthetic
    <3>. QED BY <3>1, <3>2 DEF BecomesCurrent, RestoresAuthority, Known
  <2>. QED BY <1>3, <1>5, <2>1, <2>2 DEF Shown
<1>6. CASE Replays(k)
  <2>1. k.rev \in LiveRevisions /\ id \in Interpretations /\ Known(t, id)
    BY <1>1, <1>2, <1>6, ReplayedObservation
  <2>2. obs[t][id].cite = k.rev
    BY <1>2, <2>1 DEF ObsInv
  <2>. QED BY <1>3, <2>1, <2>2
<1>. QED BY <1>4, <1>5, <1>6 DEF Observing

LEMMA CommitItemType ==
    ASSUME ItemInv, Commit
    PROVE  ItemType'
<1> USE DEF ItemInv
<1>1. /\ run.phase = "detected" /\ obs' = ObsAfter /\ item' = ItemAfter
  BY DEF Commit, Persist
<1>2. ASSUME NEW t \in Threads
      PROVE  /\ item'[t] \in ObservationIds \cup {NoItem}
             /\ item'[t] # NoItem => obs'[t][item'[t]] # NoObservation
             /\ \A i \in ObservationIds : obs'[t][i] \in Observations \cup {NoObservation}
  <2>1. \A i \in ObservationIds : obs[t][i] \in Observations \cup {NoObservation}
    BY DEF ItemType
  <2>2. CASE t \in ObservingThreads
    <3>1. PICK k \in Observing : k.thread = t
      BY <2>2 DEF ObservingThreads
    <3>2. /\ item'[t] = ObservationId(k)
          /\ \A i \in ObservationIds :
               obs'[t][i] = IF i = ObservationId(k) /\ ~Known(t, i)
                            THEN Observation(k) ELSE obs[t][i]
      BY <3>1, CommitWrites
    <3>3. /\ ObservationId(k) \in ObservationIds
          /\ Observation(k) \in Observations /\ Observation(k) # NoObservation
      BY <1>1, BroughtObservation
    <3>4. obs'[t][ObservationId(k)] # NoObservation
      BY <3>2, <3>3 DEF Known
    <3>. QED BY <2>1, <3>2, <3>3, <3>4
  <2>3. CASE t \notin ObservingThreads
    <3>1. item'[t] = item[t] /\ \A i \in ObservationIds : obs'[t][i] = obs[t][i]
      BY <2>3, CommitWrites
    <3>2. /\ item[t] \in ObservationIds \cup {NoItem}
          /\ item[t] # NoItem => obs[t][item[t]] # NoObservation
      BY DEF ItemType, Known
    <3>. QED BY <2>1, <3>1, <3>2
  <2>. QED BY <2>2, <2>3
<1>3. obs' \in [Threads -> [ObservationIds -> Observations \cup {NoObservation}]]
  <2>1. obs' = [t \in Threads |-> [i \in ObservationIds |-> obs'[t][i]]]
    BY <1>1 DEF ObsAfter
  <2>. QED BY <1>2, <2>1
<1>4. item' \in [Threads -> ObservationIds \cup {NoItem}]
  <2>1. item' = [t \in Threads |-> item'[t]]
    BY <1>1 DEF ItemAfter
  <2>. QED BY <1>2, <2>1
<1>. QED BY <1>2, <1>3, <1>4 DEF ItemType, Known

\* What is newly decided was claimed in the run's context.
LEMMA NewDecision ==
    ASSUME ItemInv, run.phase = "detected", NEW t \in Threads, NEW r, NEW c,
           <<t, r, c>> \in NewlyDecided
    PROVE  \E k \in ToDetect : /\ k \in run.tickets /\ k.thread = t /\ k.rev = r
                               /\ c = run.ctx /\ r \in LiveRevisions
                               /\ Surfaces(k) \/ item[t] = NoItem
<1> USE DEF ItemInv
<1>1. PICK k \in ToDetect :
        /\ k.thread = t /\ k.rev = r /\ c = run.ctx
        /\ run.verdict[k.thread].disposition \in {"surfaced", "suppressed"}
  BY DEF NewlyDecided
<1>2. k \in run.tickets /\ r \in LiveRevisions /\ k.thread \in DOMAIN run.verdict
  BY <1>1, ClaimFacts DEF ToDetect
<1>3. Surfaces(k) \/ item[t] = NoItem
  BY <1>1, <1>2 DEF Surfaces, SuppressedUnshown
<1>. QED BY <1>1, <1>2, <1>3

LEMMA CommitDecidedInv ==
    ASSUME ItemInv, Commit
    PROVE  DecidedInv'
<1> USE DEF ItemInv
<1>1. /\ run.phase = "detected" /\ UNCHANGED <<mirrorVars, context>>
      /\ decided' = decided \cup NewlyDecided
  BY CommitWrites
<1>2. ASSUME NEW t \in Threads, NEW r \in LiveRevisions, NEW c \in Contexts,
             <<t, r, c>> \in decided'
      PROVE  c <= context /\ stored[t][r] # NoBody
  <2>1. CASE <<t, r, c>> \in decided
    BY <2>1 DEF DecidedInv
  <2>2. CASE <<t, r, c>> \in NewlyDecided
    <3>1. PICK k \in run.tickets : k.thread = t /\ k.rev = r /\ c = run.ctx
      BY <1>1, <2>2, NewDecision
    <3>. QED BY <1>1, <3>1 DEF TicketsAhead, Ahead, ContextInv
  <2>. QED BY <1>1, <1>2, <2>1, <2>2
<1>. QED BY <1>1, <1>2 DEF DecidedInv, mirrorVars

LEMMA CommitObsInv ==
    ASSUME ItemInv, Commit
    PROVE  ObsInv'
<1> USE DEF ItemInv
<1>1. /\ run.phase = "detected" /\ UNCHANGED mirrorVars /\ queue' = queue
      /\ decided' = decided \cup NewlyDecided
  BY CommitWrites DEF mirrorVars
<1>2. \A t \in Threads, i \in ObservationIds : Known(t, i) => obs'[t][i] = obs[t][i]
  BY CommitWrites DEF ObservingThreads
<1>3. ASSUME NEW t \in Threads, NEW i \in ObservationIds, obs'[t][i] # NoObservation
      PROVE  /\ i \in Interpretations
                   => obs'[t][i].cite = i[1] /\ <<t, i[1], i[2]>> \in decided'
             /\ \E c \in Contexts : obs'[t][<<obs'[t][i].cite, c>>] # NoObservation
             /\ obs'[t][i].order <= queue[t][i[1]].seq
  <2>1. CASE Known(t, i)
    <3>1. obs'[t][i] = obs[t][i]
      BY <1>2, <2>1
    <3>2. PICK c \in Contexts : Known(t, <<obs[t][i].cite, c>>)
      BY <2>1 DEF ObsInv
    <3>3. <<obs[t][i].cite, c>> \in ObservationIds
      BY <2>1, KnownType DEF ObservationIds, Interpretations
    <3>4. obs'[t][<<obs[t][i].cite, c>>] # NoObservation
      BY <1>2, <3>2, <3>3 DEF Known
    <3>. QED BY <1>1, <2>1, <3>1, <3>4 DEF ObsInv
  <2>2. CASE ~Known(t, i)
    <3>1. PICK k \in Observing : k.thread = t /\ i = ObservationId(k)
      BY <1>3, <2>2, CommitWrites DEF ObservingThreads, Known
    <3>2. obs'[t][i] = Observation(k)
      BY <2>2, <3>1, CommitWrites
    <3>3. k \in run.tickets /\ i[1] = k.rev
      BY <1>1, <3>1, BroughtObservation
    <3>4. k.seq <= queue[t][i[1]].seq
      BY <1>1, <3>1, <3>3 DEF TicketsAhead, Ahead
    <3>5. CASE Surfaces(k)
      <4>1. /\ i = <<k.rev, run.ctx>> /\ Observation(k).cite = k.rev
            /\ Observation(k).order = k.seq /\ <<t, k.rev, run.ctx>> \in NewlyDecided
            /\ run.ctx \in Contexts
        BY <1>1, <3>1, <3>3, <3>5, SurfacedObservation, ClaimFacts
      <4>2. obs'[t][<<obs'[t][i].cite, run.ctx>>] # NoObservation
        BY <1>3, <3>2, <4>1
      <4>3. i[1] = k.rev /\ i[2] = run.ctx
        BY <4>1
      <4>. QED BY <1>1, <3>2, <3>4, <4>1, <4>2, <4>3
    <3>6. CASE Revalidates(k)
      <4>1. /\ i \in Revalidations /\ Observation(k).cite = Shown(t).cite
            /\ Observation(k).order = k.seq
        BY <1>1, <3>1, <3>3, <3>6, RevalidatedObservation
      <4>2. item[t] # NoItem
        BY <3>1, <3>6 DEF Revalidates
      <4>3. item[t] \in ObservationIds /\ Known(t, item[t])
            /\ Shown(t).cite \in LiveRevisions
        BY <4>2, ShownKnown
      <4>4. PICK c \in Contexts : Known(t, <<Shown(t).cite, c>>)
        BY <4>3 DEF ObsInv, Shown
      <4>5. <<Shown(t).cite, c>> \in ObservationIds
        BY <4>3 DEF ObservationIds, Interpretations
      <4>6. obs'[t][<<obs'[t][i].cite, c>>] # NoObservation
        BY <1>2, <3>2, <4>1, <4>4, <4>5 DEF Known
      <4>7. i \notin Interpretations
        BY <4>1, InterpretationOrNot
      <4>. QED BY <3>2, <3>4, <4>1, <4>6, <4>7
    <3>7. CASE Replays(k)
      BY <1>1, <2>2, <3>1, <3>3, <3>7, ReplayedObservation
    <3>. QED BY <3>5, <3>6, <3>7 DEF Observing
  <2>. QED BY <2>1, <2>2
<1>. QED BY <1>1, <1>3 DEF ObsInv, Known

LEMMA CommitNewestShown ==
    ASSUME ItemInv, Commit
    PROVE  NewestShown'
<1> USE DEF ItemInv
<1>1. run.phase = "detected" /\ decided' = decided \cup NewlyDecided
  BY CommitWrites
<1>2. ASSUME NEW t \in Threads, NEW r \in LiveRevisions, NEW c \in Contexts,
             item'[t] # NoItem, <<t, r, c>> \in decided'
      PROVE  r[2] <= Shown(t)'.cite[2]
  <2>1. ASSUME <<t, r, c>> \in NewlyDecided
        PROVE  \E k \in Observing : k.thread = t /\ k.rev = r /\ k \in run.tickets
    <3>1. PICK k \in ToDetect : /\ k \in run.tickets /\ k.thread = t /\ k.rev = r
                                /\ Surfaces(k) \/ item[t] = NoItem
      BY <1>1, <2>1, NewDecision
    <3>2. Surfaces(k)
      <4>1. ASSUME ~Surfaces(k) PROVE FALSE
        <5>1. k \notin Observing
          BY <3>1, <4>1 DEF Observing, Revalidates, Replays
        <5>2. t \notin ObservingThreads
          BY <3>1, <5>1 DEF ObservingThreads, Observing, OneTicket
        <5>3. item'[t] = item[t]
          BY <5>2, CommitWrites
        <5>. QED BY <1>2, <3>1, <4>1, <5>3
      <4>. QED BY <4>1
    <3>. QED BY <3>1, <3>2 DEF Observing
  <2>2. CASE t \in ObservingThreads
    <3>1. PICK k \in Observing : k.thread = t
      BY <2>2 DEF ObservingThreads
    <3>2. k \in run.tickets
      BY DEF Observing
    <3>3. CASE k.rev \in LiveRevisions
      <4>1. Shown(t)'.cite = k.rev
        BY <3>1, <3>3, CommitCites
      <4>2. CASE <<t, r, c>> \in decided
        BY <1>1, <3>1, <3>2, <3>3, <4>1, <4>2 DEF TicketsAhead, Ahead
      <4>3. CASE <<t, r, c>> \in NewlyDecided
        <5>1. k.rev = r
          BY <2>1, <3>1, <3>2, <4>3 DEF OneTicket
        <5>2. r[2] \in Nat
          BY NumberAssumption DEF LiveRevisions
        <5>. QED BY <4>1, <5>1, <5>2
      <4>. QED BY <1>1, <1>2, <4>2, <4>3
    <3>4. CASE k.rev \notin LiveRevisions
      <4>1. Shown(t)'.cite = Shown(t).cite /\ item[t] # NoItem
        BY <3>1, <3>4, CommitCites DEF Revalidates
      <4>2. <<t, r, c>> \in decided
        <5>1. <<t, r, c>> \notin NewlyDecided
          BY <2>1, <3>1, <3>2, <3>4 DEF OneTicket
        <5>. QED BY <1>1, <1>2, <5>1
      <4>. QED BY <4>1, <4>2 DEF NewestShown
    <3>. QED BY <3>3, <3>4
  <2>3. CASE t \notin ObservingThreads
    <3>1. item'[t] = item[t] /\ \A i \in ObservationIds : obs'[t][i] = obs[t][i]
      BY <2>3, CommitWrites
    <3>2. item[t] \in ObservationIds
      BY <1>2, <3>1, ShownKnown
    <3>3. Shown(t)' = Shown(t)
      BY <3>1, <3>2 DEF Shown
    <3>4. <<t, r, c>> \in decided
      <4>1. <<t, r, c>> \notin NewlyDecided
        BY <2>1, <2>3 DEF ObservingThreads
      <4>. QED BY <1>1, <1>2, <4>1
    <3>. QED BY <1>2, <3>1, <3>3, <3>4 DEF NewestShown
  <2>. QED BY <2>2, <2>3
<1>. QED BY <1>2 DEF NewestShown

\* Live revisions are told apart by their history id.
LEMMA SameLive ==
    ASSUME NEW a \in LiveRevisions, NEW b \in LiveRevisions, a[2] <= b[2], b[2] <= a[2]
    PROVE  a = b
<1>1. PICK m \in 1..MaxRevision : a = <<"live", m>>
  BY DEF LiveRevisions
<1>2. PICK n \in 1..MaxRevision : b = <<"live", n>>
  BY DEF LiveRevisions
<1>3. m = n
  BY <1>1, <1>2, NumberAssumption
<1>. QED BY <1>1, <1>2, <1>3

\* After the commit each claim, unless deferred, is what its item shows: it was
\* detected, revalidated or replayed, or the item showed that revision already.
LEMMA CommitShows ==
    ASSUME ItemInv, Commit
    PROVE  TicketsShown'
<1> USE DEF ItemInv
<1>1. /\ run.phase = "detected" /\ run'.tickets = run.tickets
      /\ run'.verdict = run.verdict
  BY CommitWrites
<1>2. ASSUME NEW k \in run.tickets, ~Deferred(k), item'[k.thread] # NoItem
      PROVE  item'[k.thread][1] = k.rev
  <2> DEFINE t == k.thread
  <2>1. t \in Threads /\ (k.rev \in Tombstones <=> k.rev \notin LiveRevisions)
        /\ (t \in DOMAIN run.verdict <=> k \in ToDetect) /\ run.ctx \in Contexts
        /\ (k \in ToDetect => run.verdict[t] \in Verdicts)
    BY <1>1, ClaimFacts
  <2>2. CASE k \in Observing
    <3>1. item'[t] = ObservationId(k)
      BY <2>2, CommitWrites
    <3>. QED BY <1>1, <2>2, <3>1, BroughtObservation
  <2>3. CASE k \notin Observing
    <3>1. t \notin ObservingThreads
      BY <2>3 DEF ObservingThreads, Observing, OneTicket
    <3>2. item'[t] = item[t] /\ item[t] # NoItem
      BY <1>2, <2>1, <3>1, CommitWrites
    <3>3. ~Surfaces(k) /\ ~Revalidates(k) /\ ~Replays(k)
      BY <2>3 DEF Observing
    <3>4. k.rev \in LiveRevisions
      BY <2>1, <3>2, <3>3 DEF Revalidates
    <3>5. k \notin ToDetect
      <4>1. ASSUME k \in ToDetect PROVE FALSE
        <5>1. run.verdict[t].disposition = "suppressed"
          BY <1>2, <2>1, <3>3, <4>1 DEF Surfaces, Deferred, ToDefer, Verdicts
        <5>. QED BY <1>1, <2>1, <3>2, <4>1, <5>1 DEF SuppressedUnshown
      <4>. QED BY <4>1
    <3>6. Cached(k)
      BY <3>4, <3>5 DEF ToDetect
    <3>7. <<t, k.rev, run.ctx>> \in decided
      BY <3>6 DEF Cached
    <3>8. k.rev[2] <= Shown(t).cite[2]
      BY <2>1, <3>2, <3>4, <3>7 DEF NewestShown
    <3>9. Shown(t).cite[2] <= k.rev[2]
      BY <1>1, <3>2, <3>4 DEF TicketsAhead, Ahead
    <3>10. item[t] \in ObservationIds /\ Known(t, item[t]) /\ Shown(t).cite \in LiveRevisions
      BY <2>1, <3>2, ShownKnown
    <3>11. Shown(t).cite = k.rev
      <4> HIDE DEF ItemInv
      <4>. QED BY <3>4, <3>8, <3>9, <3>10, SameLive
    <3>12. ~Synthetic(item[t])
      BY <3>2, <3>3, <3>6, <3>11 DEF Replays, Shown
    <3>13. item[t] \in Interpretations
      BY <3>10, <3>12 DEF Synthetic, ObservationIds
    <3>14. Shown(t).cite = item[t][1]
      BY <2>1, <3>10, <3>13 DEF ObsInv, Shown
    <3>. QED BY <3>2, <3>11, <3>14
  <2>. QED BY <2>2, <2>3
<1>. QED BY <1>1, <1>2 DEF TicketsShown, Deferred

\* A commit changes no item of an acknowledged thread: none is claimed.
LEMMA CommitProjected ==
    ASSUME ItemInv, Commit
    PROVE  CompletedIsProjected'
<1> USE DEF ItemInv
<1>1. run.phase = "detected" /\ pointer' = pointer /\ queue' = queue
  BY CommitWrites DEF mirrorVars
<1>2. ASSUME NEW t \in Threads, pointer[t].rev # NoRevision,
             queue[t][pointer[t].rev].state = "completed", item'[t] # NoItem
      PROVE  item'[t][1] = pointer[t].rev
  <2>1. t \notin ObservingThreads
    BY <1>1, <1>2 DEF ObservingThreads, Observing, TicketsAhead, Ahead, CurrentQueued
  <2>2. item'[t] = item[t]
    BY <2>1, CommitWrites
  <2>. QED BY <1>2, <2>2 DEF CompletedIsProjected, CurrentQueued
<1>. QED BY <1>1, <1>2 DEF CompletedIsProjected, CurrentQueued

-----------------------------------------------------------------------------
(* The composed system *)

LEMMA InitItemInv == TriageInit => ItemInv
<1> SUFFICES ASSUME TriageInit PROVE ItemInv
  OBVIOUS
<1>1. TriageInv
  BY InitTriageInv
<1>2. /\ run.phase = "idle" /\ run.tickets = {} /\ DOMAIN run.verdict = {}
      /\ decided = {} /\ deferrals = 0 /\ interrupts = 0 /\ report = "none"
      /\ obs = [t \in Threads |-> [i \in ObservationIds |-> NoObservation]]
      /\ item = [t \in Threads |-> NoItem]
  BY NothingClaimed DEF TriageInit, IdleRun
<1>3. ItemType /\ CountsType
  BY <1>2, TriageAssumption DEF ItemType, CountsType
<1>4. ContextInv /\ DecidedInv /\ OneTicket /\ TicketsAhead /\ SuppressedUnshown
      /\ TicketsShown
  BY <1>2 DEF ContextInv, DecidedInv, OneTicket, TicketsAhead, SuppressedUnshown,
              TicketsShown
<1>5. ObsInv /\ NewestShown /\ CompletedIsProjected
  BY <1>2 DEF ObsInv, NewestShown, CompletedIsProjected, Known
<1>6. /\ \A t \in Threads : pointer[t] = [rev |-> NoRevision, seq |-> 0]
      /\ \A t \in Threads, r \in Revisions : queue[t][r] = AbsentRow
  BY DEF TriageInit, Init
<1>7. NewestStored /\ PointerLast
  BY <1>6, RevisionAssumption DEF NewestStored, PointerLast, AbsentRow, Revisions
<1>8. Undeferred
  BY <1>2, <1>6 DEF Undeferred, AbsentRow
<1>. QED BY <1>1, <1>3, <1>4, <1>5, <1>7, <1>8 DEF ItemInv

LEMMA NextItemInv == ItemInv /\ [TriageNext]_triageVars => ItemInv'
<1> SUFFICES ASSUME ItemInv, [TriageNext]_triageVars PROVE ItemInv'
  OBVIOUS
<1> USE DEF ItemInv
<1>1. /\ MirrorInv /\ TypeOK /\ HistoryKnown /\ RunType
      /\ MirrorInv' /\ TypeOK' /\ context' \in Contexts /\ TriageInv'
  BY NextTriageInv DEF TriageInv, RunInv, RunType, MirrorInv
<1>2. [Next]_mirrorVars /\ Forward
  BY <1>1, TriageStepsStore, StoreForward
<1>3. CountsType' /\ ContextInv' /\ context <= context' /\ OneTicket' /\ Undeferred'
  BY CountsStep, ContextStep, OneTicketStep, UndeferredStep
<1>4. NewestStored' /\ PointerLast' /\ TicketsAhead' /\ SuppressedUnshown'
  BY <1>1, <1>2, NewestStoredStep, PointerLastStep, TicketsAheadStep, SuppressedStep
<1>5. ItemType' /\ DecidedInv' /\ ObsInv' /\ NewestShown'
  <2>1. CASE Commit
    BY <2>1, CommitItemType, CommitDecidedInv, CommitObsInv, CommitNewestShown
  <2>2. CASE ~Commit
    <3>1. UNCHANGED opsVars
      <4>1. CASE Persist
        BY <2>2, <4>1 DEF Commit, Persist
      <4>2. CASE ~Persist
        BY <4>2, OnlyPersistWrites
      <4>. QED BY <4>1, <4>2
    <3>. QED BY <1>1, <1>2, <1>3, <3>1, OpsKept
  <2>. QED BY <2>1, <2>2
<1>6. TicketsShown' /\ CompletedIsProjected'
  <2>1. CASE Commit
    BY <2>1, CommitShows, CommitProjected
  <2>2. CASE Ack
    BY <2>2, AckShown
  <2>3. CASE Persist /\ ~Commit
    <3>1. run'.phase = "idle" /\ item' = item /\ pointer' = pointer /\ queue' = queue
      BY <2>3 DEF Commit, Persist, IdleRun, opsVars, mirrorVars
    <3>. QED BY <3>1 DEF TicketsShown, CompletedIsProjected, CurrentQueued
  <2>4. CASE SyncMailbox \/ TimePasses \/ Upgrade \/ UNCHANGED triageVars
    <3>1. RunKept /\ UNCHANGED opsVars /\ NoneFinished
      BY <2>4, WorldKeepsRun
    <3>2. TicketsShown'
      BY <3>1 DEF RunKept, opsVars, TicketsShown, Deferred
    <3>3. CompletedIsProjected'
      BY <3>1 DEF opsVars, NoneFinished, CompletedIsProjected, CurrentQueued
    <3>. QED BY <3>2, <3>3
  <2>5. CASE ClaimWork
    <3>1. NoneFinished /\ item' = item
      BY <1>1, <2>5, ClaimForward DEF ClaimWork, Claim, RunType, opsVars
    <3>2. run'.phase # "acking"
      BY <1>1, <2>5, PhaseAfter
    <3>. QED BY <3>1, <3>2 DEF TicketsShown, NoneFinished, CompletedIsProjected, CurrentQueued
  <2>6. CASE StartRun \/ Detect \/ EndRun \/ Interrupt
    <3>1. item' = item /\ pointer' = pointer /\ queue' = queue
      BY <2>6 DEF StartRun, Detect, EndRun, Interrupt, opsVars, mirrorVars
    <3>2. run'.phase # "acking"
      BY <1>1, <2>6, PhaseAfter
    <3>. QED BY <3>1, <3>2 DEF TicketsShown, CompletedIsProjected, CurrentQueued
  <2>. QED BY <2>1, <2>2, <2>3, <2>4, <2>5, <2>6 DEF TriageNext, RunStep
<1>. QED BY <1>1, <1>3, <1>4, <1>5, <1>6

\* The invariant of the items, whatever lands, expires, is deferred, upgraded or
\* interrupted meanwhile.
THEOREM ItemInvariant == TriageSpec => []ItemInv
  BY InitItemInv, NextItemInv, PTL DEF TriageSpec

\* TriageTypeOK: the tables of ops.sqlite and the run keep their shape; above all
\* an item's current_observation_id always names a stored observation.
THEOREM TriageTypeCorrect == TriageSpec => []TriageTypeOK
<1>1. ItemInv => TriageTypeOK
  <2> SUFFICES ASSUME ItemInv PROVE TriageTypeOK
    OBVIOUS
  <2>1. \A k \in Claims : k \in Tickets
    BY DEF Claims, Tickets
  <2>2. /\ run.tickets \subseteq Tickets
        /\ DOMAIN run.verdict \subseteq Threads
        /\ \A t \in DOMAIN run.verdict : run.verdict[t] \in Verdicts
    <3>1. PICK S \in SUBSET Threads : run.verdict \in [S -> Verdicts]
      BY DEF ItemInv, TriageInv, RunInv, RunType, Runs
    <3>2. run.tickets \subseteq Claims
      BY DEF ItemInv, TriageInv, RunInv, RunType, Runs
    <3>. QED BY <2>1, <3>1, <3>2
  <2>3. /\ run.phase \in Phases /\ run.ctx \in Contexts \cup {NoContext}
        /\ run.covered \in BOOLEAN /\ run.age \in 0..DeferTicks
        /\ context \in Contexts /\ decided \subseteq Threads \X LiveRevisions \X Contexts
    BY DEF ItemInv, TriageInv, RunInv, RunType, Runs
  <2>. QED BY <2>2, <2>3 DEF ItemInv, TriageInv, MirrorInv, ItemType, CountsType,
                             TriageTypeOK, Phases
<1>. QED BY <1>1, ItemInvariant, PTL

\* CompletedIsProjected: an acknowledged current revision of a thread with an item
\* is what the item shows, also when a revision is decided late, a decision is
\* reused, or a thread is deleted and comes back.
THEOREM ItemsFollowTheMirror == TriageSpec => []CompletedIsProjected
  BY ItemInvariant, PTL DEF ItemInv

\* A decision is missing for whatever has to be detected.
LEMMA UndecidedIsDetected ==
    ASSUME ItemInv, deferrals = 0, NEW k \in ToDetect
    PROVE  <<k.thread, k.rev, run.ctx>> \notin decided
<1>1. k \in run.tickets /\ k.rev \in LiveRevisions /\ ~Cached(k)
  BY DEF ToDetect
<1>2. k.err \in {"none", "lease expired"}
  BY <1>1 DEF ItemInv, TriageInv, RunInv, RunType, Runs, Claims, Undeferred, Errors
<1>. QED BY <1>1, <1>2 DEF Cached

\* DecisionsAreReused: the model is asked again about a decided revision only
\* after a deferral or a failed call, however often leases expire and runs die.
THEOREM NothingDecidedTwice == TriageSpec => []DecisionsAreReused
<1>1. ItemInv => DecisionsAreReused
  BY UndecidedIsDetected DEF DecisionsAreReused
<1>. QED BY <1>1, ItemInvariant, PTL

\* Nothing that a calm run brings is refused.
LEMMA CalmRunCommits ==
    ASSUME ItemInv, run.phase = "detected", deferrals = 0, FirstContext, DeletionsAreNew
    PROVE  UnitCommits
<1> USE DEF ItemInv
<1>1. \A c \in Contexts : c <= context => c = run.ctx
  <2>1. run.ctx \in Contexts /\ run.ctx <= context /\ context \in Contexts
        /\ Contexts \subseteq Nat
    BY TriageAssumption DEF TriageInv, RunInv, RunType, ContextInv
  <2>2. \A c \in Contexts : context <= c
    BY DEF FirstContext
  <2> DEFINE startCtx == run.ctx
  <2>3. run.ctx = context
    <3>1. startCtx \in Nat /\ context \in Nat
      BY <2>1
    <3>2. context <= startCtx /\ startCtx <= context
      BY <2>1, <2>2
    <3>3. startCtx = context
      <4> HIDE DEF startCtx
      <4>. QED BY <3>1, <3>2
    <3>. QED BY <3>3
  <2>4. ASSUME NEW c \in Contexts, c <= context PROVE c = run.ctx
    <3>1. c \in Nat /\ context \in Nat /\ context <= c
      BY <2>1, <2>2
    <3>. QED BY <2>3, <2>4, <3>1
  <2>. QED BY <2>4
<1>2. \A t \in Threads, i \in Interpretations : Known(t, i) => <<t, i[1], run.ctx>> \in decided
  <2> SUFFICES ASSUME NEW t \in Threads, NEW i \in Interpretations, Known(t, i)
               PROVE  <<t, i[1], run.ctx>> \in decided
    OBVIOUS
  <2>1. i[1] \in LiveRevisions /\ i[2] \in Contexts
    BY InterpretationOrNot
  <2>2. <<t, i[1], i[2]>> \in decided
    BY DEF ObsInv, ObservationIds
  <2>3. i[2] = run.ctx
    BY <1>1, <2>1, <2>2 DEF DecidedInv
  <2>. QED BY <2>2, <2>3
<1> SUFFICES ASSUME NEW k \in Observing
             PROVE  /\ ~ObservationConflict(k)
                    /\ Surfaces(k) \/ Revalidates(k) => BecomesCurrent(k)
  BY DEF UnitCommits
<1>3. k \in run.tickets /\ k.thread \in Threads /\ Ahead(k) /\ k.seq \in Nat
  BY BroughtObservation, ClaimFacts DEF TicketsAhead
<1> DEFINE t == k.thread
           id == ObservationId(k)
<1>4. ASSUME ~Known(t, id), Observation(k).order = k.seq, id[1] = k.rev,
             item[t] # NoItem => item[t][1] # k.rev
      PROVE  ~ObservationConflict(k) /\ BecomesCurrent(k)
  <2>1. ~ObservationConflict(k)
    BY <1>4 DEF ObservationConflict, Known
  <2>2. ASSUME item[t] # NoItem
        PROVE  Observation(k).order > obs[t][item[t]].order
    <3>1. Shown(t).order \in Nat
      BY <1>3, <2>2, ShownKnown
    <3>2. Shown(t).order <= k.seq /\ Shown(t).order # k.seq
      BY <1>4, <2>2, <1>3 DEF Ahead
    <3>. QED BY <1>3, <1>4, <3>1, <3>2 DEF Shown
  <2>. QED BY <1>4, <2>1, <2>2 DEF BecomesCurrent, Known
<1>5. CASE Surfaces(k)
  <2>1. /\ k \in ToDetect /\ k.rev \in LiveRevisions /\ id = <<k.rev, run.ctx>>
        /\ id \in Interpretations /\ id[1] = k.rev /\ Observation(k).order = k.seq
    BY <1>3, <1>5, SurfacedObservation
  <2>2. <<t, k.rev, run.ctx>> \notin decided
    BY <2>1, UndecidedIsDetected
  <2>3. ~Known(t, id)
    BY <1>2, <1>3, <2>1, <2>2
  <2>4. ASSUME item[t] # NoItem, item[t][1] = k.rev PROVE FALSE
    <3>1. item[t] \in ObservationIds /\ Known(t, item[t])
      BY <1>3, <2>4, ShownKnown
    <3>2. item[t] \in Interpretations
      BY <2>1, <2>4, <3>1, InterpretationOrNot, LiveOrGone DEF ObservationIds
    <3>. QED BY <1>2, <1>3, <2>2, <2>4, <3>1, <3>2
  <2>. QED BY <1>4, <2>1, <2>3, <2>4
<1>6. CASE Revalidates(k)
  <2>1. /\ k.rev \in Tombstones /\ id = <<k.rev, NoContext>> /\ id[1] = k.rev
        /\ Observation(k).order = k.seq
    BY <1>3, <1>6, RevalidatedObservation
  <2>2. ~Known(t, id)
    BY <1>3, <2>1 DEF DeletionsAreNew, Known
  <2>3. ASSUME item[t] # NoItem, item[t][1] = k.rev PROVE FALSE
    <3>1. item[t] \in ObservationIds /\ Known(t, item[t])
      BY <1>3, <2>3, ShownKnown
    <3>2. item[t] = <<k.rev, NoContext>>
      BY <2>1, <2>3, <3>1, InterpretationOrNot, LiveOrGone DEF ObservationIds
    <3>. QED BY <2>1, <2>2, <3>1, <3>2
  <2>. QED BY <1>4, <2>1, <2>2, <2>3
<1>7. CASE Replays(k)
  <2>1. Observation(k) = obs[t][id] /\ ~Surfaces(k) /\ ~Revalidates(k)
    BY <1>3, <1>7, ReplayedObservation
  <2>. QED BY <2>1 DEF ObservationConflict
<1>. QED BY <1>5, <1>6, <1>7 DEF Observing

\* ClaimedUnitCommits: persist_shadow_source_unit does not refuse what a run
\* claimed and detected, whatever lands, expires or was killed before, unless a
\* call failed or was deferred, the detector was replaced, or a deletion has the
\* identity of an earlier one.
THEOREM ClaimsCommit == TriageSpec => []ClaimedUnitCommits
<1>1. ItemInv => ClaimedUnitCommits
  BY CalmRunCommits DEF ClaimedUnitCommits
<1>. QED BY <1>1, ItemInvariant, PTL

=============================================================================
