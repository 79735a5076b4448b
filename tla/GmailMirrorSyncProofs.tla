------------------------- MODULE GmailMirrorSyncProofs -------------------------
(***************************************************************************)
(* What a sync promises, proved for every set of threads and syncers,      *)
(* every page size and limit and any number of history records: the type   *)
(* and shape of the synchronizer's state, that no unit it builds is        *)
(* refused by validation, that what is shown was answered by Gmail, that   *)
(* the mirror never goes back, and that a complete checkpoint loses no     *)
(* change. Every commit is a step of the store of GmailMirror, so what     *)
(* that module proves holds here too.                                      *)
(*                                                                         *)
(* The invariant is about four things: the mailbox log, the checkpoint,    *)
(* what the mirror shows (the current revision of each thread, when Gmail  *)
(* gave it, and whether the thread has an open failure) and each syncer's  *)
(* state. Time passes between an answer and its commit, so every fact      *)
(* about an answer names its time. Its parts are operators of exactly      *)
(* those values, so that a step which changes one of them is a lemma about *)
(* values, and the proof that a step preserves the invariant is the choice *)
(* of the lemma.                                                           *)
(***************************************************************************)
EXTENDS GmailMirrorSync, GmailMirrorProofs, WellFoundedInduction

-----------------------------------------------------------------------------
(* The mailbox log *)

LastOf(about) ==
    IF about = {} THEN 0 ELSE CHOOSE h \in about : \A g \in about : g <= h

\* LastChange of the log L.
Last(L, t, n) == LastOf({h \in 1..n : t \in L[h].threads})

\* Gmail has told of thread t; after record n it was deleted, or there; some record
\* after n deletes it.
Known(L, t) == Last(L, t, Len(L)) # 0
Gone(L, t, n) == Last(L, t, n) # 0 /\ L[Last(L, t, n)].kind = "deleted"
Was(L, t, n) == Last(L, t, n) # 0 /\ L[Last(L, t, n)].kind # "deleted"
DeletedAfter(L, t, n) ==
    \E g \in (n + 1)..Len(L) : t \in L[g].threads /\ L[g].kind = "deleted"

\* A bounded set of history ids has a greatest one.
LEMMA Greatest ==
    ASSUME NEW n \in Nat, NEW S \in SUBSET (0..n), S # {}
    PROVE  \E m \in S : \A k \in S : k <= m
<1> DEFINE T == {k..n : k \in S}
           R == StrictSubsetOrdering(0..n)
<1>1. IsWellFoundedOn(R, SUBSET (0..n))
  <2>1. IsFiniteSet(0..n)
    BY FS_Interval
  <2>. QED BY <2>1, FS_StrictSubsetOrderingWellFounded, FS_FiniteSubsetsOfFinite
<1>2. T \subseteq SUBSET (0..n) /\ T # {}
  <2>1. \A k \in S : k..n \in SUBSET (0..n)
    OBVIOUS
  <2>. QED BY <2>1
<1>3. PICK x \in T : \A y \in T : <<y, x>> \notin R
  <2>. HIDE DEF T, R
  <2>. QED BY <1>1, <1>2, WFMin
<1>4. PICK m \in S : x = m..n
  BY <1>3
<1>5. ASSUME NEW k \in S, k > m
      PROVE  FALSE
  <2>1. k..n \subseteq x /\ k..n # x /\ k..n \in T
    BY <1>4, <1>5
  <2>2. k..n \in SUBSET (0..n) /\ x \in SUBSET (0..n)
    BY <1>4
  <2>3. <<k..n, x>> \in R
    BY <2>1, <2>2 DEF StrictSubsetOrdering
  <2>. QED BY <2>1, <2>3, <1>3
<1>. QED BY <1>5

\* The last record about a thread up to n: what it is, and that it is the last.
LEMMA LastFacts ==
    ASSUME NEW L, NEW t, NEW n \in Nat
    PROVE  /\ Last(L, t, n) \in 0..n
           /\ Last(L, t, n) # 0 => t \in L[Last(L, t, n)].threads
           /\ \A h \in 1..n : t \in L[h].threads => h <= Last(L, t, n)
<1> DEFINE about == {h \in 1..n : t \in L[h].threads}
<1>1. CASE about = {}
  BY <1>1 DEF Last, LastOf
<1>2. CASE about # {}
  <2>1. about \in SUBSET (0..n)
    OBVIOUS
  <2>2. \E h \in about : \A g \in about : g <= h
    <3>. HIDE DEF about
    <3>. QED BY <1>2, <2>1, Greatest
  <2>3. LastOf(about) \in about /\ \A g \in about : g <= LastOf(about)
    <3>. HIDE DEF about
    <3>. QED BY <1>2, <2>2 DEF LastOf
  <2>. QED BY <2>3 DEF Last
<1>. QED BY <1>1, <1>2

\* Of two bounds the later one has the later last record, which is the same one
\* unless it lies between them.
LEMMA LastMonotone ==
    ASSUME NEW L, NEW t, NEW m \in Nat, NEW n \in Nat, m <= n
    PROVE  /\ Last(L, t, m) <= Last(L, t, n)
           /\ Last(L, t, n) <= m => Last(L, t, n) = Last(L, t, m)
<1>1. /\ Last(L, t, m) \in 0..m /\ Last(L, t, n) \in 0..n
      /\ Last(L, t, m) # 0 => t \in L[Last(L, t, m)].threads
      /\ Last(L, t, n) # 0 => t \in L[Last(L, t, n)].threads
      /\ \A h \in 1..m : t \in L[h].threads => h <= Last(L, t, m)
      /\ \A h \in 1..n : t \in L[h].threads => h <= Last(L, t, n)
  BY LastFacts
<1>2. Last(L, t, m) <= Last(L, t, n)
  BY <1>1
<1>3. Last(L, t, n) <= m => Last(L, t, n) <= Last(L, t, m)
  BY <1>1
<1>. QED BY <1>1, <1>2, <1>3

\* What the mailbox may do: records are only added.
Grows(L, M) ==
    /\ M \in Seq(Records) /\ Len(L) <= Len(M)
    /\ \A h \in 1..Len(L) : M[h] = L[h]
    /\ \A t \in Threads, n \in 0..Len(L) : Last(M, t, n) = Last(L, t, n)
    /\ \A t \in Threads : Known(L, t) => Known(M, t)

LEMMA SameLogGrows ==
    ASSUME NEW L \in Seq(Records)
    PROVE  Grows(L, L)
BY DEF Grows

\* MailboxChanges lets the log grow.
LEMMA AppendGrows ==
    ASSUME NEW L \in Seq(Records), NEW r \in Records
    PROVE  Grows(L, Append(L, r))
<1> DEFINE M == Append(L, r)
<1>1. /\ M \in Seq(Records) /\ Len(M) = Len(L) + 1 /\ Len(L) \in Nat
      /\ \A h \in 1..Len(L) : M[h] = L[h]
  OBVIOUS
<1>. HIDE DEF M
<1>2. \A t \in Threads, n \in 0..Len(L) : Last(M, t, n) = Last(L, t, n)
  <2>. TAKE t \in Threads, n \in 0..Len(L)
  <2>1. {h \in 1..n : t \in M[h].threads} = {h \in 1..n : t \in L[h].threads}
    BY <1>1
  <2>. QED BY <2>1 DEF Last
<1>3. ASSUME NEW t \in Threads, Known(L, t)
      PROVE  Known(M, t)
  <2>1. Last(M, t, Len(L)) <= Last(M, t, Len(M))
    BY <1>1, LastMonotone
  <2>2. Last(M, t, Len(L)) = Last(L, t, Len(L))
    BY <1>1, <1>2
  <2>3. Last(L, t, Len(L)) \in Nat /\ Last(M, t, Len(M)) \in Nat
    BY <1>1, LastFacts
  <2>. QED BY <1>3, <2>1, <2>2, <2>3 DEF Known
<1>4. Grows(L, M)
  BY <1>1, <1>2, <1>3 DEF Grows
<1>. QED BY <1>4 DEF M

\* What was said of the mailbox as of a record stays so when it grows.
LEMMA GrowsKeeps ==
    ASSUME NEW L \in Seq(Records), NEW M, Grows(L, M), NEW t \in Threads,
           NEW n \in 0..Len(L)
    PROVE  /\ Gone(M, t, n) <=> Gone(L, t, n)
           /\ Was(M, t, n) <=> Was(L, t, n)
           /\ DeletedAfter(L, t, n) => DeletedAfter(M, t, n)
<1>1. /\ Len(L) \in Nat /\ Len(M) \in Nat /\ Len(L) <= Len(M)
      /\ \A h \in 1..Len(L) : M[h] = L[h]
      /\ Last(M, t, n) = Last(L, t, n)
  BY DEF Grows
<1>2. Last(L, t, n) # 0 => M[Last(L, t, n)] = L[Last(L, t, n)]
  <2>1. Last(L, t, n) \in 0..n
    BY <1>1, LastFacts
  <2>. QED BY <1>1, <2>1
<1>3. \A g \in (n + 1)..Len(L) : g \in (n + 1)..Len(M) /\ M[g] = L[g]
  BY <1>1
<1>. QED BY <1>1, <1>2, <1>3 DEF Gone, Was, DeletedAfter

\* A thread that was there as of m and is not as of n was deleted in between.
LEMMA LostBetween ==
    ASSUME NEW L \in Seq(Records), NEW t \in Threads, NEW m \in Nat, NEW n \in Nat,
           m <= n, n <= Len(L), Was(L, t, m), ~Was(L, t, n)
    PROVE  DeletedAfter(L, t, m)
<1> DEFINE g == Last(L, t, n)
<1>1. /\ Last(L, t, m) <= g /\ (g <= m => g = Last(L, t, m))
      /\ Last(L, t, m) \in 0..m /\ g \in 0..n /\ (g # 0 => t \in L[g].threads)
  BY LastMonotone, LastFacts
<1>. HIDE DEF g
<1>2. g # 0 /\ L[g].kind = "deleted" /\ ~(g <= m)
  BY <1>1 DEF Was, g
<1>3. Len(L) \in Nat
  OBVIOUS
<1>4. g \in (m + 1)..Len(L)
  BY <1>1, <1>2, <1>3
<1>. QED BY <1>1, <1>2, <1>4 DEF DeletedAfter

-----------------------------------------------------------------------------
(* The invariant, part by part: s a syncer's state, c the checkpoint, L the    *)
(* log, Z the lapses, P the current revisions, A when Gmail gave them, O the   *)
(* threads with an open failure                                              *)

Shown == [t \in Threads |-> pointer[t].rev]
Opened == {t \in Threads : IsOpen(t)}

SyncStates ==
    [phase : {"idle", "listing", "getting", "due", "retrying"}, prev : Checkpoints,
     mode : Modes, reset : BOOLEAN, from : Histories, next : Histories,
     token : Tokens, restarted : BOOLEAN, pages : 0..MaxPages,
     ids : SUBSET Threads, rest : SUBSET Threads, todo : SUBSET Threads,
     got : [Threads -> Outcomes], asked : [Threads -> Histories]]

\* A sync in progress, phase by phase.
Shape(s) ==
    /\ s.phase = "idle" => s = IdleSync
    /\ s.phase = "listing" =>
         /\ s.todo = {} /\ s.rest = {} /\ s.got = Nothing
         /\ Cardinality(s.ids) < MaxThreads /\ s.pages < MaxPages
    /\ s.phase \in {"listing", "getting"} =>
         /\ s.todo \subseteq s.ids /\ s.rest \cap s.ids = {}
         /\ s.mode = "full" => s.from # 0 /\ s.token.pos = 0 /\ s.rest = {}
         /\ s.mode = "incremental" => /\ s.token.rest = {} /\ s.prev.hist # 0
                                      /\ s.from = s.prev.hist
    /\ s.phase = "getting" => /\ s.mode = "incremental" => s.next # 0
                              /\ \A t \in s.ids \ s.todo : s.got[t].kind # "none"
    /\ s.phase \in {"due", "retrying"} =>
         /\ s.mode = "incremental" /\ s.token = NoToken /\ s.rest = {} /\ s.ids = {}
         /\ s.next # 0 /\ s.next = s.prev.hist
    /\ s.phase = "due" => s.todo = {} /\ s.got = Nothing

\* A sync works on the checkpoint as it read it, or will be refused.
Current(s, c) == s.phase # "idle" /\ s.prev.gen = c.gen

Reads(s, c) == s.phase # "idle" => /\ s.prev.gen <= c.gen
                                   /\ s.prev.gen = c.gen => s.prev = c

\* Its history ids are ones Gmail has issued.
Issued(s, L) ==
    /\ s.from <= Len(L) /\ s.next <= Len(L)
    /\ s.mode = "incremental" => s.token.pos <= s.next
    /\ s.phase = "getting" /\ s.mode = "incremental" => s.from <= s.next

\* It deals with threads Gmail told of, and what it got was so when it asked.
Heard(s, L, Z) ==
    /\ \A t \in s.ids \cup s.rest \cup s.todo : Known(L, t)
    /\ \A t \in Threads : s.got[t].kind # "none" =>
         /\ Known(L, t) /\ s.asked[t] <= Len(L)
         /\ s.got[t].kind = "missing" =>
              Gone(L, t, s.asked[t]) \/ <<t, s.asked[t]>> \in Z
         /\ s.got[t].kind = "found" =>
              s.got[t].rev[2] = Last(L, t, s.asked[t]) /\ ~Gone(L, t, s.asked[t])

\* The history id its unit will vouch for.
Vouched(s) == IF s.mode = "full" THEN s.from ELSE s.next

\* What it got was answered after that, and after what the mirror shows.
News(s, c, A) ==
    \A t \in Threads : s.got[t].kind # "none" =>
        Vouched(s) <= s.asked[t] /\ (Current(s, c) => A[t] <= s.asked[t])

\* The mirror shows what Gmail answered of t at h or later, or an open failure.
Settled(A, O, t, h) == t \in O \/ h <= A[t]

\* Of the records after from up to to, each thread is in kept or settled.
Between(from, to, kept, L, A, O) ==
    \A h \in (from + 1)..to : \A t \in L[h].threads : t \in kept \/ Settled(A, O, t, h)

\* Of the listed threads that were there as of baseline, each is in kept, settled
\* or deleted since.
Traversed(baseline, kept, L, A, O) ==
    \A t \in Threads \ Unlisted : Was(L, t, baseline) =>
        t \in kept \/ Settled(A, O, t, baseline) \/ DeletedAfter(L, t, baseline)

Left(s) == IF s.phase = "listing" /\ s.token = NoToken THEN Threads ELSE s.token.rest

ListedTo(s) == IF s.token # NoToken THEN s.token.pos - 1
               ELSE IF s.phase = "listing" THEN s.from ELSE s.next

\* Nothing of the listing is lost: what is neither in the mirror nor listed yet
\* is in the sync's hands.
Covers(s, c, L, A, O) ==
    Current(s, c) /\ s.phase \in {"listing", "getting"} =>
        IF s.mode = "full" THEN Traversed(s.from, Left(s) \cup s.ids, L, A, O)
        ELSE Between(s.from, ListedTo(s), s.ids \cup s.rest, L, A, O)

SyncGood(s, c, L, Z, A, O) ==
    /\ s \in SyncStates /\ Shape(s) /\ Reads(s, c) /\ Issued(s, L) /\ Heard(s, L, Z)
    /\ News(s, c, A) /\ Covers(s, c, L, A, O)

\* What fetch() can go on from.
Whole(c) ==
    c.gen > 0 =>
        /\ c.mode = "full" => c.pending = {} /\ c.token.pos = 0
        /\ c.mode = "incremental" => c.token.rest = {}
        /\ IF c.complete
           THEN c.hist # 0 /\ c.pending = {} /\ c.token = NoToken
           ELSE IF c.mode = "full"
           THEN c.token # NoToken /\ c.baseline # 0 /\ c.hist = 0
           ELSE c.hist # 0 /\ c.contHist # 0 /\ (c.token # NoToken \/ c.pending # {})

SavedIssued(c, L) ==
    /\ c.hist <= Len(L) /\ c.contHist <= Len(L) /\ c.baseline <= Len(L)
    /\ c.gen > 0 /\ c.mode = "incremental" /\ ~c.complete =>
         c.hist <= c.contHist /\ c.token.pos <= c.contHist

\* Only threads Gmail told of are pending or open; what is shown was so as of the
\* time it was asked for.
SavedHeard(c, L, Z, P, A, O) ==
    /\ \A t \in c.pending \cup O : Known(L, t)
    /\ \A t \in Threads :
         /\ A[t] \in Histories /\ A[t] <= Len(L)
         /\ A[t] # 0 => P[t] \in Tombstones \cup LiveRevisions
         /\ P[t] \in Tombstones => Gone(L, t, A[t]) \/ <<t, A[t]>> \in Z
         /\ P[t] \in LiveRevisions => P[t][2] = Last(L, t, A[t]) /\ ~Gone(L, t, A[t])

\* Every record up to the saved history id is in the mirror, whether or not the
\* checkpoint is complete, except what Gmail no longer tells.
Covered(c, f, L, A, O) ==
    \A t \in Threads :
        Last(L, t, c.hist) > f \/ (t \notin Unlisted /\ Was(L, t, c.hist)) =>
            Settled(A, O, t, Last(L, t, c.hist)) \/ DeletedAfter(L, t, c.hist)

\* A listing cut short: what is not in the mirror is pending or to be listed.
SavedCovers(c, L, A, O) ==
    c.gen > 0 /\ ~c.complete =>
        IF c.mode = "full" THEN Traversed(c.baseline, c.token.rest, L, A, O)
        ELSE Between(c.hist, IF c.token = NoToken THEN c.contHist ELSE c.token.pos - 1,
                     c.pending, L, A, O)

SavedGood(c, f, L, Z, P, A, O) ==
    /\ c \in Checkpoints /\ f \in Histories
    /\ Whole(c) /\ SavedIssued(c, L) /\ SavedHeard(c, L, Z, P, A, O)
    /\ Covered(c, f, L, A, O) /\ SavedCovers(c, L, A, O)

World == /\ log \in Seq(Records) /\ Now \in 1..MaxHistory /\ horizon \in Histories
         /\ parser \in Parsers /\ failures \in 0..MaxFailures
         /\ lapses \in SUBSET (Threads \X Histories)

SyncInv ==
    /\ World
    /\ SavedGood(checkpoint, floor, log, lapses, Shown, asOf, Opened)
    /\ asOf \in [Threads -> Histories] /\ sync \in [Syncers -> SyncStates]
    /\ \A p \in Syncers : SyncGood(sync[p], checkpoint, log, lapses, asOf, Opened)

-----------------------------------------------------------------------------
(* The mailbox changes *)

LEMMA Typing ==
    /\ Histories \subseteq Nat /\ NoToken \in Tokens
    /\ \A x \in Tokens : x.pos \in Histories /\ x.rest \in SUBSET Threads
    /\ NoToken.pos = 0 /\ NoToken.rest = {}
    /\ \A x \in Tokens : x.pos = 0 /\ x.rest = {} => x = NoToken
<1>1. Histories \subseteq Nat
  BY NumberAssumption DEF Histories
<1>. QED BY <1>1, SyncAssumption, NumberAssumption DEF Histories

LEMMA SettledLess ==
    ASSUME NEW A \in [Threads -> Histories], NEW O, NEW t \in Threads,
           NEW g \in Nat, NEW h \in Nat, h <= g, Settled(A, O, t, g)
    PROVE  Settled(A, O, t, h)
<1>1. A[t] \in Nat
  BY Typing
<1>. QED BY <1>1 DEF Settled

LEMMA ListedToIssued ==
    ASSUME NEW s \in SyncStates, NEW L \in Seq(Records), Shape(s), Issued(s, L),
           s.phase \in {"listing", "getting"}, s.mode = "incremental"
    PROVE  ListedTo(s) \in Int /\ ListedTo(s) <= Len(L)
<1>1. s.from \in Histories /\ s.next \in Histories /\ s.token \in Tokens
  BY DEF SyncStates
<1>2. s.from \in Nat /\ s.next \in Nat /\ s.token.pos \in Nat
  BY <1>1, Typing
<1>3. Len(L) \in Nat
  OBVIOUS
<1>. QED BY <1>2, <1>3 DEF ListedTo, Issued

LEMMA BetweenGrows ==
    ASSUME NEW L \in Seq(Records), NEW M, NEW A, NEW O, Grows(L, M),
           NEW from \in Nat, NEW to \in Int, to <= Len(L), NEW kept,
           Between(from, to, kept, L, A, O)
    PROVE  Between(from, to, kept, M, A, O)
<1>1. \A h \in (from + 1)..to : h \in 1..Len(L) /\ M[h] = L[h]
  BY DEF Grows
<1>. QED BY <1>1 DEF Between

LEMMA TraversedGrows ==
    ASSUME NEW L \in Seq(Records), NEW M, NEW A, NEW O, Grows(L, M),
           NEW baseline \in Nat, baseline <= Len(L), NEW kept,
           Traversed(baseline, kept, L, A, O)
    PROVE  Traversed(baseline, kept, M, A, O)
<1>1. baseline \in 0..Len(L)
  OBVIOUS
<1>. QED BY <1>1, GrowsKeeps DEF Traversed

\* New records and lapses leave a syncer's state good.
LEMMA SyncGrows ==
    ASSUME NEW s, NEW c, NEW L \in Seq(Records), NEW M, NEW Z, NEW Y, NEW A, NEW O,
           Grows(L, M), Z \subseteq Y, SyncGood(s, c, L, Z, A, O)
    PROVE  SyncGood(s, c, M, Y, A, O)
<1>1. /\ s \in SyncStates /\ Shape(s) /\ Reads(s, c) /\ Issued(s, L)
      /\ s.from \in Nat /\ s.next \in Nat /\ s.token.pos \in Nat /\ Len(L) \in Nat
      /\ M \in Seq(Records) /\ Len(M) \in Nat /\ Len(L) <= Len(M)
  <2>1. s \in SyncStates /\ Shape(s) /\ Reads(s, c) /\ Issued(s, L)
    BY DEF SyncGood
  <2>2. M \in Seq(Records) /\ Len(L) <= Len(M)
    BY DEF Grows
  <2>3. s.from \in Histories /\ s.next \in Histories /\ s.token \in Tokens
    BY <2>1 DEF SyncStates
  <2>4. s.from \in Nat /\ s.next \in Nat /\ s.token.pos \in Nat
    BY <2>3, Typing
  <2>5. Len(L) \in Nat /\ Len(M) \in Nat
    BY <2>2
  <2>. QED BY <2>1, <2>2, <2>4, <2>5
<1>2. Issued(s, M)
  BY <1>1 DEF Issued
<1>3. Heard(s, M, Y)
  <2>1. Heard(s, L, Z)
    BY DEF SyncGood
  <2>2. \A t \in s.ids \cup s.rest \cup s.todo : Known(M, t)
    <3>1. s.ids \cup s.rest \cup s.todo \subseteq Threads
      BY <1>1 DEF SyncStates
    <3>. QED BY <2>1, <3>1 DEF Heard, Grows
  <2>3. ASSUME NEW t \in Threads, s.got[t].kind # "none"
        PROVE  /\ Known(M, t) /\ s.asked[t] <= Len(M)
               /\ s.got[t].kind = "missing" =>
                    Gone(M, t, s.asked[t]) \/ <<t, s.asked[t]>> \in Y
               /\ s.got[t].kind = "found" =>
                    s.got[t].rev[2] = Last(M, t, s.asked[t]) /\ ~Gone(M, t, s.asked[t])
    <3>1. s.asked[t] \in Nat /\ s.asked[t] <= Len(L)
      BY <1>1, <2>1, <2>3, Typing DEF SyncStates, Heard
    <3>2. s.asked[t] \in 0..Len(L) /\ s.asked[t] <= Len(M)
      BY <1>1, <3>1
    <3>3. Last(M, t, s.asked[t]) = Last(L, t, s.asked[t])
      BY <3>2 DEF Grows
    <3>4. Gone(M, t, s.asked[t]) <=> Gone(L, t, s.asked[t])
      BY <3>2, GrowsKeeps
    <3>5. Known(M, t)
      BY <2>1, <2>3 DEF Heard, Grows
    <3>. QED BY <2>1, <2>3, <3>2, <3>3, <3>4, <3>5 DEF Heard
  <2>. QED BY <2>2, <2>3 DEF Heard
<1>4. News(s, c, A)
  BY DEF SyncGood
<1>5. Covers(s, c, M, A, O)
  <2>. SUFFICES ASSUME Current(s, c), s.phase \in {"listing", "getting"}
                PROVE  IF s.mode = "full" THEN Traversed(s.from, Left(s) \cup s.ids, M, A, O)
                       ELSE Between(s.from, ListedTo(s), s.ids \cup s.rest, M, A, O)
    BY DEF Covers
  <2>1. Covers(s, c, L, A, O)
    BY DEF SyncGood
  <2>2. CASE s.mode = "full"
    <3>1. Traversed(s.from, Left(s) \cup s.ids, L, A, O)
      BY <2>1, <2>2 DEF Covers
    <3>2. s.from <= Len(L)
      BY <1>1 DEF Issued
    <3>. QED BY <3>1, <3>2, <2>2, <1>1, TraversedGrows
  <2>3. CASE s.mode # "full"
    <3>1. Between(s.from, ListedTo(s), s.ids \cup s.rest, L, A, O)
      BY <2>1, <2>3 DEF Covers
    <3>2. s.mode = "incremental"
      BY <2>3, <1>1 DEF SyncStates, Modes
    <3>3. ListedTo(s) \in Int /\ ListedTo(s) <= Len(L)
      BY <1>1, <3>2, ListedToIssued
    <3>. QED BY <3>1, <3>3, <2>3, <1>1, BetweenGrows
  <2>. QED BY <2>2, <2>3
<1>. QED BY <1>1, <1>2, <1>3, <1>4, <1>5 DEF SyncGood

\* New records leave the checkpoint and the mirror good.
LEMMA SavedGrows ==
    ASSUME NEW c, NEW f, NEW L \in Seq(Records), NEW M, NEW Z, NEW Y, NEW P,
           NEW A, NEW O \in SUBSET Threads,
           Grows(L, M), Z \subseteq Y, SavedGood(c, f, L, Z, P, A, O)
    PROVE  SavedGood(c, f, M, Y, P, A, O)
<1>1. /\ c \in Checkpoints /\ f \in Histories /\ Whole(c)
      /\ M \in Seq(Records) /\ Len(L) <= Len(M)
  BY DEF SavedGood, Grows
<1>2. /\ c.hist \in Nat /\ c.contHist \in Nat /\ c.baseline \in Nat /\ f \in Nat
      /\ c.token.pos \in Nat /\ c.pending \in SUBSET Threads /\ c.gen \in Nat
      /\ c.mode \in Modes
  <2>1. /\ c.hist \in Histories /\ c.contHist \in Histories /\ c.baseline \in Histories
        /\ c.token \in Tokens /\ c.pending \in SUBSET Threads /\ c.gen \in Nat
        /\ c.mode \in Modes
    BY <1>1 DEF Checkpoints
  <2>. QED BY <1>1, <2>1, Typing
<1>3. Len(L) \in Nat /\ Len(M) \in Nat
  BY <1>1
<1>4. SavedIssued(c, L)
  BY DEF SavedGood
<1>5. SavedIssued(c, M)
  BY <1>1, <1>2, <1>3, <1>4 DEF SavedIssued
<1>6. SavedHeard(c, M, Y, P, A, O)
  <2>1. SavedHeard(c, L, Z, P, A, O)
    BY DEF SavedGood
  <2>2. \A t \in c.pending \cup O : Known(M, t)
    BY <1>2, <2>1 DEF SavedHeard, Grows
  <2>3. ASSUME NEW t \in Threads
        PROVE  /\ A[t] \in Histories /\ A[t] <= Len(M)
               /\ A[t] # 0 => P[t] \in Tombstones \cup LiveRevisions
               /\ P[t] \in Tombstones => Gone(M, t, A[t]) \/ <<t, A[t]>> \in Y
               /\ P[t] \in LiveRevisions =>
                    P[t][2] = Last(M, t, A[t]) /\ ~Gone(M, t, A[t])
    <3>1. /\ A[t] \in Histories /\ A[t] <= Len(L)
          /\ A[t] # 0 => P[t] \in Tombstones \cup LiveRevisions
          /\ P[t] \in Tombstones => Gone(L, t, A[t]) \/ <<t, A[t]>> \in Z
          /\ P[t] \in LiveRevisions => P[t][2] = Last(L, t, A[t]) /\ ~Gone(L, t, A[t])
      BY <2>1 DEF SavedHeard
    <3>2. A[t] \in 0..Len(L) /\ A[t] <= Len(M)
      BY <1>1, <1>3, <3>1, Typing
    <3>3. Last(M, t, A[t]) = Last(L, t, A[t])
      BY <3>2 DEF Grows
    <3>4. Gone(M, t, A[t]) <=> Gone(L, t, A[t])
      BY <3>2, GrowsKeeps
    <3>. QED BY <3>1, <3>2, <3>3, <3>4
  <2>. QED BY <2>2, <2>3 DEF SavedHeard
<1>7. Covered(c, f, M, A, O)
  <2>1. c.hist \in 0..Len(L)
    BY <1>2, <1>3, <1>4 DEF SavedIssued
  <2>2. \A t \in Threads : /\ Last(M, t, c.hist) = Last(L, t, c.hist)
                           /\ Was(M, t, c.hist) <=> Was(L, t, c.hist)
                           /\ DeletedAfter(L, t, c.hist) => DeletedAfter(M, t, c.hist)
    BY <2>1, GrowsKeeps DEF Grows
  <2>3. Covered(c, f, L, A, O)
    BY DEF SavedGood
  <2>. QED BY <2>2, <2>3 DEF Covered
<1>8. SavedCovers(c, M, A, O)
  <2>. SUFFICES ASSUME c.gen > 0, ~c.complete
                PROVE  IF c.mode = "full"
                       THEN Traversed(c.baseline, c.token.rest, M, A, O)
                       ELSE Between(c.hist, IF c.token = NoToken THEN c.contHist
                                            ELSE c.token.pos - 1, c.pending, M, A, O)
    BY DEF SavedCovers
  <2>1. SavedCovers(c, L, A, O)
    BY DEF SavedGood
  <2>2. CASE c.mode = "full"
    <3>1. Traversed(c.baseline, c.token.rest, L, A, O) /\ c.baseline <= Len(L)
      BY <2>1, <2>2, <1>4 DEF SavedCovers, SavedIssued
    <3>. QED BY <1>2, <2>2, <3>1, TraversedGrows
  <2>3. CASE c.mode # "full"
    <3> DEFINE to == IF c.token = NoToken THEN c.contHist ELSE c.token.pos - 1
    <3>1. Between(c.hist, to, c.pending, L, A, O)
      BY <2>1, <2>3 DEF SavedCovers
    <3>2. c.mode = "incremental"
      BY <1>2, <2>3 DEF Modes
    <3>3. to \in Int /\ to <= Len(L)
      BY <1>2, <1>3, <1>4, <3>2 DEF SavedIssued
    <3>4. Between(c.hist, to, c.pending, M, A, O)
      <4>. HIDE DEF to
      <4>. QED BY <1>2, <3>1, <3>3, BetweenGrows
    <3>. QED BY <2>3, <3>4
  <2>. QED BY <2>2, <2>3
<1>. QED BY <1>1, <1>5, <1>6, <1>7, <1>8 DEF SavedGood

-----------------------------------------------------------------------------
(* A unit is committed *)

\* Every unit a sync builds passes validated() and has a marker.
LEMMA UpdateGood ==
    ASSUME NEW s \in SyncStates, Shape(s), s.phase \in {"getting", "retrying"}
    PROVE  /\ UpdateOf(s) \in Updates
           /\ ValidUpdate(UpdateOf(s)) /\ Marker(UpdateOf(s)) # 0
<1> DEFINE full == s.mode = "full"
           done == Complete(s)
           u == UpdateOf(s)
<1>1. /\ s.prev \in Checkpoints /\ s.mode \in Modes /\ s.reset \in BOOLEAN
      /\ s.from \in Histories /\ s.next \in Histories /\ s.token \in Tokens
      /\ s.rest \in SUBSET Threads
  BY DEF SyncStates
<1>2. s.prev.gen \in Nat /\ s.prev.hist \in Histories /\ s.prev.reset \in BOOLEAN
  BY <1>1 DEF Checkpoints
<1>3. 0 \in Histories /\ done \in BOOLEAN /\ full \in BOOLEAN
  BY NumberAssumption DEF Histories, Complete
<1>4. /\ full => s.from # 0 /\ s.rest = {}
      /\ ~full => s.next # 0 /\ s.prev.hist # 0
  BY <1>1 DEF Shape, Modes
<1>5. /\ u.expected = s.prev.gen /\ u.mode = s.mode /\ u.complete = done
      /\ u.hist = IF done THEN IF full THEN s.from ELSE s.next
                  ELSE IF full THEN 0 ELSE s.prev.hist
      /\ u.token = s.token /\ u.baseline = IF ~done /\ full THEN s.from ELSE 0
      /\ u.pending = s.rest /\ u.contHist = IF done \/ full THEN 0 ELSE s.next
  BY DEF UpdateOf
<1>6. u \in Updates
  <2>1. (~done /\ (s.reset \/ s.prev.reset)) \in BOOLEAN
    OBVIOUS
  <2>2. (IF done THEN IF full THEN s.from ELSE s.next
         ELSE IF full THEN 0 ELSE s.prev.hist) \in Histories
    BY <1>1, <1>2, <1>3
  <2>3. /\ (IF ~done /\ full THEN s.from ELSE 0) \in Histories
        /\ (IF done \/ full THEN 0 ELSE s.next) \in Histories
    BY <1>1, <1>3
  <2>. QED BY <1>1, <1>2, <1>3, <2>1, <2>2, <2>3 DEF UpdateOf, Updates
<1>7. ValidUpdate(u)
  <2>1. done => s.rest = {} /\ s.token = NoToken
    BY DEF Complete
  <2>2. s.rest = {} /\ s.token = NoToken => done
    BY DEF Complete
  <2>. HIDE DEF done, full, u
  <2>3. s.mode = "full" <=> full
    BY DEF full
  <2>4. s.mode = "incremental" => ~full
    BY DEF full
  <2>. QED BY <1>4, <1>5, <2>1, <2>2, <2>3, <2>4 DEF ValidUpdate
<1>8. Marker(u) # 0
  <2>. HIDE DEF done, full, u
  <2>. QED BY <1>4, <1>5 DEF Marker
<1>. QED BY <1>6, <1>7, <1>8

\* What a commit does to what the mirror shows.
Commits(got, asked, P, O, A, P2, O2, A2) ==
    \A t \in Threads :
        /\ got[t].kind = "none" => P2[t] = P[t] /\ A2[t] = A[t] /\ (t \in O2 <=> t \in O)
        /\ got[t].kind = "missing" =>
             P2[t] \in Tombstones /\ A2[t] = asked[t] /\ t \notin O2
        /\ got[t].kind = "found" =>
             \/ P2[t] = got[t].rev /\ A2[t] = asked[t] /\ t \notin O2
             \/ P2[t] = P[t] /\ A2[t] = A[t] /\ t \in O2
        /\ got[t].kind = "broken" => P2[t] = P[t] /\ A2[t] = A[t] /\ t \in O2

\* ... and to the checkpoint.
Saves(c2, c, s) ==
    LET u == UpdateOf(s)
    IN /\ c2 \in Checkpoints
       /\ c2.gen = c.gen + 1 /\ c2.hist = u.hist /\ c2.mode = u.mode
       /\ c2.complete = u.complete /\ c2.token = u.token /\ c2.baseline = u.baseline
       /\ c2.pending = u.pending /\ c2.contHist = u.contHist

LEMMA RecordedOpens ==
    ASSUME NEW rows \in [Faults -> Failures], NEW fault \in Faults,
           NEW retry \in BOOLEAN, NEW prs
    PROVE  OpenFaults(Recorded(rows, fault, retry, prs)) # {}
<1>1. Recorded(rows, fault, retry, prs)[fault].open
  BY DEF Recorded, Failures
<1>. QED BY <1>1 DEF OpenFaults

LEMMA CommitEffect ==
    ASSUME TypeOK, NEW u \in Updates, Marker(u) # 0, NEW got \in [Threads -> Outcomes],
           NEW asked, NEW retry \in BOOLEAN, NEW prs \in Parsers,
           ApplySyncUnit(u, got, retry, prs),
           asOf' = [t \in Threads |-> IF Lands(t, got[t]) THEN asked[t] ELSE asOf[t]]
    PROVE  Commits(got, asked, Shown, Opened, asOf, Shown', Opened', asOf')
<1> DEFINE changed == Changed(u, got)
<1>1. PICK order \in Orders(changed, got) :
        /\ pointer' = PointerAfter(u, got, changed,
                                   [t \in changed |-> checkpoint.lastSeq + order[t]])
        /\ quarantine' = QuarantineAfter(got, retry, prs)
  BY DEF ApplySyncUnit
<1>. SUFFICES ASSUME NEW t \in Threads
              PROVE  /\ got[t].kind = "none" =>
                          /\ Shown'[t] = Shown[t] /\ asOf'[t] = asOf[t]
                          /\ t \in Opened' <=> t \in Opened
                     /\ got[t].kind = "missing" =>
                          Shown'[t] \in Tombstones /\ asOf'[t] = asked[t] /\ t \notin Opened'
                     /\ got[t].kind = "found" =>
                          \/ Shown'[t] = got[t].rev /\ asOf'[t] = asked[t] /\ t \notin Opened'
                          \/ Shown'[t] = Shown[t] /\ asOf'[t] = asOf[t] /\ t \in Opened'
                     /\ got[t].kind = "broken" =>
                          Shown'[t] = Shown[t] /\ asOf'[t] = asOf[t] /\ t \in Opened'
  BY DEF Commits
<1>2. /\ Shown[t] = pointer[t].rev /\ Shown'[t] = pointer'[t].rev
      /\ t \in Opened <=> OpenFaults(quarantine[t]) # {}
      /\ t \in Opened' <=> OpenFaults(quarantine'[t]) # {}
  BY DEF Shown, Opened, IsOpen
<1>3. /\ got[t] \in Outcomes
      /\ asOf'[t] = IF Lands(t, got[t]) THEN asked[t] ELSE asOf[t]
  OBVIOUS
<1>4. Shown'[t] = IF Lands(t, got[t]) THEN Target(u, got[t]) ELSE Shown[t]
  BY <1>1, <1>2 DEF PointerAfter, Changed
<1>5. quarantine'[t] = IF Lands(t, got[t]) THEN Resolved
                       ELSE IF got[t].kind = "none" THEN quarantine[t]
                       ELSE Recorded(quarantine[t], got[t].fault, retry, prs)
  BY <1>1 DEF QuarantineAfter
<1>6. CASE Lands(t, got[t])
  <2>1. t \notin Opened'
    BY <1>2, <1>5, <1>6 DEF Resolved, NoFailure, OpenFaults
  <2>2. got[t].kind \in {"missing", "found"}
    BY <1>6 DEF Lands
  <2>3. got[t].kind = "missing" => Target(u, got[t]) \in Tombstones
    BY TargetType, <1>3 DEF Target
  <2>4. got[t].kind = "found" => Target(u, got[t]) = got[t].rev
    BY DEF Target
  <2>. QED BY <1>3, <1>4, <1>6, <2>1, <2>2, <2>3, <2>4
<1>7. CASE ~Lands(t, got[t]) /\ got[t].kind = "none"
  BY <1>2, <1>3, <1>4, <1>5, <1>7
<1>8. CASE ~Lands(t, got[t]) /\ got[t].kind # "none"
  <2>1. got[t].fault \in Faults /\ quarantine[t] \in [Faults -> Failures]
    BY <1>3, OutcomeFields DEF TypeOK
  <2>2. t \in Opened'
    BY <1>2, <1>5, <1>8, <2>1, RecordedOpens
  <2>3. got[t].kind # "missing"
    BY <1>8 DEF Lands
  <2>. QED BY <1>3, <1>4, <1>8, <2>2, <2>3
<1>. QED BY <1>6, <1>7, <1>8

\* A syncer that worked on the replaced checkpoint will be refused.
LEMMA OvertakenGood ==
    ASSUME NEW s, NEW c \in Checkpoints, NEW c2 \in Checkpoints, c2.gen = c.gen + 1,
           NEW L, NEW Z, NEW A, NEW O, NEW A2, NEW O2, SyncGood(s, c, L, Z, A, O)
    PROVE  SyncGood(s, c2, L, Z, A2, O2)
<1>1. s \in SyncStates /\ Shape(s) /\ Reads(s, c) /\ Issued(s, L) /\ Heard(s, L, Z)
  BY DEF SyncGood
<1>2. c.gen \in Nat /\ s.prev.gen \in Nat
  BY <1>1 DEF SyncStates, Checkpoints
<1>3. Reads(s, c2) /\ ~Current(s, c2)
  BY <1>1, <1>2 DEF Reads, Current
<1>4. News(s, c2, A2)
  BY <1>3 DEF SyncGood, News
<1>. QED BY <1>1, <1>3, <1>4 DEF SyncGood, Covers

\* A thread the unit brings something for is settled as of every record up to
\* the history id the unit vouches for.
LEMMA GotSettled ==
    ASSUME NEW s, NEW c, NEW L, NEW Z, NEW P, NEW O, NEW A, NEW P2, NEW O2, NEW A2,
           SyncGood(s, c, L, Z, A, O), Commits(s.got, s.asked, P, O, A, P2, O2, A2),
           NEW t \in Threads, s.got[t].kind # "none", NEW h \in Nat, h <= Vouched(s)
    PROVE  Settled(A2, O2, t, h)
<1>1. s.got[t] \in Outcomes /\ s \in SyncStates
  BY DEF SyncGood, SyncStates
<1>2. s.got[t].kind \in {"missing", "found", "broken"}
  BY <1>1 DEF Outcomes, NotFetched, Missing, Found, Broken
<1>3. h <= s.asked[t]
  <2>1. Vouched(s) \in Nat /\ s.asked[t] \in Nat
    <3>1. s.from \in Histories /\ s.next \in Histories /\ s.asked[t] \in Histories
      BY <1>1 DEF SyncStates
    <3>. QED BY <3>1, Typing DEF Vouched
  <2>2. Vouched(s) <= s.asked[t]
    BY DEF SyncGood, News
  <2>. QED BY <2>1, <2>2
<1>4. t \in O2 \/ A2[t] = s.asked[t]
  BY <1>2 DEF Commits
<1>. QED BY <1>3, <1>4 DEF Settled

\* A settled thread stays settled as of such a record.
LEMMA SettledKept ==
    ASSUME NEW s, NEW c, NEW L, NEW Z, NEW P, NEW O, NEW A, NEW P2, NEW O2, NEW A2,
           SyncGood(s, c, L, Z, A, O), Commits(s.got, s.asked, P, O, A, P2, O2, A2),
           NEW t \in Threads, NEW h \in Nat, h <= Vouched(s), Settled(A, O, t, h)
    PROVE  Settled(A2, O2, t, h)
<1>1. CASE s.got[t].kind = "none"
  BY <1>1 DEF Commits, Settled
<1>2. CASE s.got[t].kind # "none"
  BY <1>2, GotSettled
<1>. QED BY <1>1, <1>2

LEMMA UnitFields ==
    ASSUME NEW s \in SyncStates, NEW c \in Checkpoints, NEW c2, Saves(c2, c, s)
    PROVE  /\ c2 \in Checkpoints /\ c2.gen = c.gen + 1 /\ c2.gen > 0 /\ c2.mode = s.mode
           /\ c2.complete <=> Complete(s)
           /\ c2.token = s.token /\ c2.pending = s.rest
           /\ s.mode = "full" =>
                /\ c2.hist = IF Complete(s) THEN s.from ELSE 0
                /\ c2.baseline = IF Complete(s) THEN 0 ELSE s.from
                /\ c2.contHist = 0
           /\ s.mode # "full" =>
                /\ c2.hist = IF Complete(s) THEN s.next ELSE s.prev.hist
                /\ c2.baseline = 0
                /\ c2.contHist = IF Complete(s) THEN 0 ELSE s.next
<1>1. c.gen \in Nat
  BY DEF Checkpoints
<1>2. c2 \in Checkpoints /\ c2.gen = c.gen + 1 /\ c2.gen > 0
  BY <1>1 DEF Saves
<1>3. /\ c2.hist = UpdateOf(s).hist /\ c2.mode = UpdateOf(s).mode
      /\ c2.complete = UpdateOf(s).complete /\ c2.token = UpdateOf(s).token
      /\ c2.baseline = UpdateOf(s).baseline /\ c2.pending = UpdateOf(s).pending
      /\ c2.contHist = UpdateOf(s).contHist
  BY DEF Saves
<1>. QED BY <1>2, <1>3 DEF UpdateOf

\* The new checkpoint can be gone on from, names issued history ids and known
\* threads, and what is shown was so.
LEMMA UnitSaved ==
    ASSUME NEW s, NEW c \in Checkpoints, NEW L \in Seq(Records), NEW Z, NEW P, NEW O,
           NEW A, NEW c2, NEW P2, NEW O2 \in SUBSET Threads, NEW A2,
           SyncGood(s, c, L, Z, A, O), SavedHeard(c, L, Z, P, A, O),
           s.phase \in {"getting", "retrying"}, Saves(c2, c, s),
           Commits(s.got, s.asked, P, O, A, P2, O2, A2)
    PROVE  Whole(c2) /\ SavedIssued(c2, L) /\ SavedHeard(c2, L, Z, P2, A2, O2)
<1>1. s \in SyncStates /\ Shape(s) /\ Issued(s, L) /\ Heard(s, L, Z) /\ Reads(s, c)
  BY DEF SyncGood
<1>2. /\ s.from \in Nat /\ s.next \in Nat /\ s.token.pos \in Nat /\ Len(L) \in Nat
      /\ s.prev.hist \in Nat /\ s.mode \in Modes
  <2>1. /\ s.from \in Histories /\ s.next \in Histories /\ s.token \in Tokens
        /\ s.prev.hist \in Histories /\ s.mode \in Modes
    BY <1>1 DEF SyncStates, Checkpoints
  <2>2. Len(L) \in Nat
    OBVIOUS
  <2>. QED BY <2>1, <2>2, Typing
<1>3. Complete(s) <=> s.rest = {} /\ s.token = NoToken
  BY DEF Complete
<1>4. Whole(c2)
  <2>1. CASE s.mode = "full"
    <3>1. s.from # 0 /\ s.token.pos = 0 /\ s.rest = {}
      BY <2>1, <1>1 DEF Shape
    <3>. QED BY <1>1, <1>3, <2>1, <3>1, UnitFields DEF Whole
  <2>2. CASE s.mode = "incremental"
    <3>1. s.next # 0 /\ s.prev.hist # 0 /\ s.token.rest = {}
      BY <1>1, <2>2, Typing DEF Shape
    <3>. QED BY <1>1, <1>3, <2>2, <3>1, UnitFields DEF Whole
  <2>. QED BY <1>2, <2>1, <2>2 DEF Modes
<1>5. SavedIssued(c2, L)
  <2>1. CASE s.mode = "full"
    BY <1>1, <1>2, <2>1, UnitFields DEF SavedIssued, Issued
  <2>2. CASE s.mode # "full"
    <3>1. s.mode = "incremental"
      BY <1>2, <2>2 DEF Modes
    <3>2. s.prev.hist <= s.next
      BY <1>1, <1>2, <3>1 DEF Shape, Issued
    <3>3. s.prev.hist <= Len(L) /\ s.next <= Len(L) /\ s.token.pos <= s.next
      BY <1>1, <1>2, <3>1, <3>2 DEF Issued
    <3>. QED BY <1>1, <1>2, <2>2, <3>2, <3>3, UnitFields DEF SavedIssued
  <2>. QED BY <2>1, <2>2
<1>6. SavedHeard(c2, L, Z, P2, A2, O2)
  <2>1. \A t \in c2.pending : Known(L, t)
    BY <1>1, UnitFields DEF Heard
  <2>2. ASSUME NEW t \in Threads
        PROVE  /\ t \in O2 => Known(L, t)
               /\ A2[t] \in Histories /\ A2[t] <= Len(L)
               /\ A2[t] # 0 => P2[t] \in Tombstones \cup LiveRevisions
               /\ P2[t] \in Tombstones => Gone(L, t, A2[t]) \/ <<t, A2[t]>> \in Z
               /\ P2[t] \in LiveRevisions =>
                    P2[t][2] = Last(L, t, A2[t]) /\ ~Gone(L, t, A2[t])
    <3>1. s.got[t] \in Outcomes /\ s.asked[t] \in Histories
      BY <1>1 DEF SyncStates
    <3>2. s.got[t].kind \in {"none", "missing", "found", "broken"}
      BY <3>1 DEF Outcomes, NotFetched, Missing, Found, Broken
    <3>3. CASE P2[t] = P[t] /\ A2[t] = A[t]
      <4>1. t \in O2 => Known(L, t)
        BY <1>1, <3>2 DEF Commits, Heard, SavedHeard
      <4>. QED BY <3>3, <4>1 DEF SavedHeard
    <3>4. CASE s.got[t].kind = "missing"
      <4>1. t \notin O2 /\ P2[t] \in Tombstones /\ A2[t] = s.asked[t]
        BY <3>4 DEF Commits
      <4>2. /\ s.asked[t] <= Len(L)
            /\ Gone(L, t, s.asked[t]) \/ <<t, s.asked[t]>> \in Z
        BY <1>1, <3>4 DEF Heard
      <4>. QED BY <3>1, <4>1, <4>2, LiveOrGone
    <3>5. CASE s.got[t].kind = "found" /\ P2[t] = s.got[t].rev /\ A2[t] = s.asked[t]
                 /\ t \notin O2
      <4>1. P2[t] \in LiveRevisions
        BY <3>1, <3>5, OutcomeFields
      <4>2. /\ s.asked[t] <= Len(L)
            /\ P2[t][2] = Last(L, t, A2[t]) /\ ~Gone(L, t, A2[t])
        BY <1>1, <3>5 DEF Heard
      <4>. QED BY <3>1, <3>5, <4>1, <4>2, LiveOrGone
    <3>. QED BY <3>2, <3>3, <3>4, <3>5 DEF Commits
  <2>. QED BY <2>1, <2>2 DEF SavedHeard
<1>. QED BY <1>4, <1>5, <1>6

\* A unit of a full traversal.
LEMMA FullUnitCovers ==
    ASSUME NEW s, NEW c \in Checkpoints, NEW f \in Histories, NEW L \in Seq(Records),
           NEW Z, NEW P, NEW O, NEW A, NEW c2, NEW P2, NEW O2,
           NEW A2 \in [Threads -> Histories],
           SyncGood(s, c, L, Z, A, O), Current(s, c), Saves(c2, c, s),
           s.phase = "getting", s.todo = {}, s.mode = "full",
           Commits(s.got, s.asked, P, O, A, P2, O2, A2)
    PROVE  /\ Covered(c2, IF Complete(s) THEN s.from ELSE f, L, A2, O2)
           /\ SavedCovers(c2, L, A2, O2)
<1>1. s \in SyncStates /\ Shape(s) /\ Issued(s, L)
  BY DEF SyncGood
<1>2. s.from \in Nat /\ f \in Nat /\ s.from <= Vouched(s)
  <2>1. s.from \in Histories /\ Vouched(s) = s.from
    BY <1>1 DEF SyncStates, Vouched
  <2>2. s.from \in Nat /\ f \in Nat
    BY <2>1, Typing
  <2>. QED BY <2>1, <2>2
<1>3. Traversed(s.from, s.token.rest \cup s.ids, L, A, O)
  BY DEF SyncGood, Covers, Left
<1>4. \A t \in s.ids : s.got[t].kind # "none"
  BY <1>1 DEF Shape
<1>5. Traversed(s.from, s.token.rest, L, A2, O2)
  <2>. SUFFICES ASSUME NEW t \in Threads \ Unlisted, Was(L, t, s.from)
                PROVE  \/ t \in s.token.rest \/ Settled(A2, O2, t, s.from)
                       \/ DeletedAfter(L, t, s.from)
    BY DEF Traversed
  <2>1. \/ t \in s.token.rest \cup s.ids \/ Settled(A, O, t, s.from)
        \/ DeletedAfter(L, t, s.from)
    BY <1>3 DEF Traversed
  <2>2. t \in s.ids => Settled(A2, O2, t, s.from)
    <3>. SUFFICES ASSUME t \in s.ids PROVE Settled(A2, O2, t, s.from)
      OBVIOUS
    <3>1. s.got[t].kind # "none"
      BY <1>4
    <3>. QED BY <1>2, <3>1, GotSettled
  <2>3. Settled(A, O, t, s.from) => Settled(A2, O2, t, s.from)
    <3>. SUFFICES ASSUME Settled(A, O, t, s.from) PROVE Settled(A2, O2, t, s.from)
      OBVIOUS
    <3>. QED BY <1>2, SettledKept
  <2>. QED BY <2>1, <2>2, <2>3
<1>6. CASE Complete(s)
  <2>1. c2.hist = s.from /\ c2.complete /\ s.token.rest = {}
    BY <1>1, <1>6, UnitFields, Typing DEF Complete
  <2>2. \A t \in Threads : Last(L, t, s.from) \in 0..s.from
    BY <1>2, LastFacts
  <2>3. ASSUME NEW t \in Threads, t \notin Unlisted, Was(L, t, s.from)
        PROVE  Settled(A2, O2, t, Last(L, t, s.from)) \/ DeletedAfter(L, t, s.from)
    <3>1. Settled(A2, O2, t, s.from) \/ DeletedAfter(L, t, s.from)
      BY <1>5, <2>1, <2>3 DEF Traversed
    <3>2. Last(L, t, s.from) \in Nat /\ Last(L, t, s.from) <= s.from
      BY <1>2, <2>2
    <3>. QED BY <1>2, <3>1, <3>2, SettledLess
  <2>4. Covered(c2, s.from, L, A2, O2)
    BY <1>2, <2>1, <2>2, <2>3 DEF Covered
  <2>. QED BY <1>6, <2>1, <2>4 DEF SavedCovers
<1>7. CASE ~Complete(s)
  <2>1. c2.hist = 0 /\ c2.baseline = s.from /\ c2.mode = "full" /\ c2.token = s.token
    BY <1>1, <1>7, UnitFields
  <2>2. \A t \in Threads : Last(L, t, 0) = 0
    <3>1. \A t \in Threads : Last(L, t, 0) \in 0..0
      BY LastFacts
    <3>. QED BY <3>1
  <2>3. Covered(c2, f, L, A2, O2)
    BY <1>2, <2>1, <2>2 DEF Covered, Was
  <2>. QED BY <1>5, <1>7, <2>1, <2>3 DEF SavedCovers
<1>. QED BY <1>6, <1>7

\* A unit of a history listing, or of a quarantine retry.
LEMMA IncrementalUnitCovers ==
    ASSUME NEW s, NEW c \in Checkpoints, NEW f \in Histories, NEW L \in Seq(Records),
           NEW Z, NEW P, NEW O, NEW A, NEW c2, NEW P2, NEW O2, NEW A2,
           SyncGood(s, c, L, Z, A, O), Current(s, c), Saves(c2, c, s),
           s.phase \in {"getting", "retrying"}, s.todo = {}, s.mode # "full",
           Commits(s.got, s.asked, P, O, A, P2, O2, A2), Covered(c, f, L, A, O)
    PROVE  Covered(c2, f, L, A2, O2) /\ SavedCovers(c2, L, A2, O2)
<1>1. s \in SyncStates /\ Shape(s) /\ Issued(s, L) /\ s.prev = c
  BY DEF SyncGood, Reads, Current
<1>2. /\ s.mode = "incremental" /\ s.next \in Nat /\ c.hist \in Nat /\ s.token.pos \in Nat
      /\ Len(L) \in Nat /\ s.next <= Len(L) /\ f \in Nat
  <2>1. /\ s.next \in Histories /\ c.hist \in Histories /\ s.token \in Tokens
        /\ s.mode = "incremental"
    BY <1>1 DEF SyncStates, Checkpoints, Modes
  <2>2. Len(L) \in Nat
    OBVIOUS
  <2>3. s.next <= Len(L)
    BY <1>1 DEF Issued
  <2>. QED BY <2>1, <2>2, <2>3, Typing
<1>3. c.hist <= s.next /\ Vouched(s) = s.next
  BY <1>1, <1>2 DEF Shape, Issued, Vouched
<1>4. \A t \in Threads : /\ Last(L, t, s.next) \in 0..s.next
                         /\ Last(L, t, c.hist) \in 0..c.hist
  BY <1>2, LastFacts
<1>5. \A t \in Threads :
        Last(L, t, s.next) <= c.hist => Last(L, t, s.next) = Last(L, t, c.hist)
  BY <1>2, <1>3, LastMonotone
<1>6. \A t \in s.ids : s.phase = "getting" => s.got[t].kind # "none"
  BY <1>1 DEF Shape
\* What was listed is pending or in the mirror now.
<1>7. ASSUME s.phase = "getting"
      PROVE  Between(c.hist, ListedTo(s), s.rest, L, A2, O2) /\ ListedTo(s) <= s.next
  <2>1. ListedTo(s) \in Int /\ ListedTo(s) <= s.next
    BY <1>1, <1>2, <1>7 DEF ListedTo, Issued
  <2>2. Between(c.hist, ListedTo(s), s.ids \cup s.rest, L, A, O)
    BY <1>1, <1>2, <1>7 DEF SyncGood, Covers, Shape
  <2>. SUFFICES ASSUME NEW h \in (c.hist + 1)..ListedTo(s), NEW t \in L[h].threads
                PROVE  t \in s.rest \/ Settled(A2, O2, t, h)
    BY <2>1 DEF Between
  <2>3. h \in Nat /\ h <= Vouched(s) /\ h \in 1..Len(L)
    BY <1>2, <1>3, <2>1
  <2>4. t \in Threads
    <3>1. L[h] \in Records
      BY <2>3
    <3>. QED BY <3>1 DEF Records
  <2>5. t \in s.ids => Settled(A2, O2, t, h)
    BY <1>6, <1>7, <2>3, <2>4, GotSettled
  <2>6. Settled(A, O, t, h) => Settled(A2, O2, t, h)
    BY <2>3, <2>4, SettledKept
  <2>. QED BY <2>2, <2>5, <2>6 DEF Between
\* What was covered before stays covered.
<1>8. ASSUME NEW t \in Threads,
             Last(L, t, c.hist) > f \/ (t \notin Unlisted /\ Was(L, t, c.hist))
      PROVE  Settled(A2, O2, t, Last(L, t, c.hist)) \/ DeletedAfter(L, t, c.hist)
  <2>1. Settled(A, O, t, Last(L, t, c.hist)) \/ DeletedAfter(L, t, c.hist)
    BY <1>8 DEF Covered
  <2>2. Last(L, t, c.hist) \in Nat /\ Last(L, t, c.hist) <= Vouched(s)
    BY <1>2, <1>3, <1>4
  <2>3. ASSUME NEW h \in Nat, h <= Vouched(s), Settled(A, O, t, h)
        PROVE  Settled(A2, O2, t, h)
    BY <2>3, SettledKept
  <2>. QED BY <2>1, <2>2, <2>3
<1>9. CASE ~Complete(s)
  <2>1. /\ c2.hist = c.hist /\ c2.mode # "full" /\ c2.token = s.token
        /\ c2.pending = s.rest /\ c2.contHist = s.next
    BY <1>1, <1>2, <1>9, UnitFields
  <2>2. Covered(c2, f, L, A2, O2)
    BY <1>8, <2>1 DEF Covered
  <2>3. s.phase = "getting"
    BY <1>1, <1>9 DEF Shape, Complete
  <2>4. ListedTo(s) = IF s.token = NoToken THEN s.next ELSE s.token.pos - 1
    BY <2>3 DEF ListedTo
  <2>. QED BY <1>7, <2>1, <2>2, <2>3, <2>4 DEF SavedCovers
<1>10. CASE Complete(s)
  <2>1. c2.hist = s.next /\ c2.complete /\ s.rest = {} /\ s.token = NoToken
    BY <1>1, <1>2, <1>10, UnitFields DEF Complete
  <2>2. ASSUME NEW t \in Threads,
               Last(L, t, s.next) > f \/ (t \notin Unlisted /\ Was(L, t, s.next))
        PROVE  Settled(A2, O2, t, Last(L, t, s.next)) \/ DeletedAfter(L, t, s.next)
    <3>1. CASE Last(L, t, s.next) <= c.hist
      <4>1. Last(L, t, s.next) = Last(L, t, c.hist)
        BY <1>5, <3>1
      <4>2. Was(L, t, s.next) <=> Was(L, t, c.hist)
        BY <4>1 DEF Was
      <4>3. Settled(A2, O2, t, Last(L, t, c.hist)) \/ DeletedAfter(L, t, c.hist)
        BY <1>8, <2>2, <4>1, <4>2
      <4>4. DeletedAfter(L, t, c.hist) => DeletedAfter(L, t, s.next)
        <5>. SUFFICES ASSUME NEW g \in (c.hist + 1)..Len(L), t \in L[g].threads,
                             L[g].kind = "deleted"
                      PROVE  g \in (s.next + 1)..Len(L)
          BY DEF DeletedAfter
        <5>1. g \in 1..s.next => g <= Last(L, t, s.next)
          BY <1>2, LastFacts
        <5>2. ~(g <= s.next)
          BY <1>2, <1>4, <3>1, <5>1
        <5>. QED BY <1>2, <5>2
      <4>. QED BY <4>1, <4>3, <4>4
    <3>2. CASE Last(L, t, s.next) > c.hist
      <4> DEFINE h == Last(L, t, s.next)
      <4>1. h \in (c.hist + 1)..s.next /\ t \in L[h].threads
        BY <1>2, <1>4, <3>2, LastFacts
      <4>2. s.phase = "getting"
        <5>1. s.phase = "retrying" => s.next = c.hist
          BY <1>1 DEF Shape
        <5>2. Last(L, t, s.next) <= s.next
          BY <1>2, <1>4
        <5>3. s.next # c.hist
          BY <1>2, <1>4, <3>2, <5>2
        <5>. QED BY <5>1, <5>3
      <4>3. ListedTo(s) = s.next
        BY <2>1, <4>2 DEF ListedTo
      <4>4. Settled(A2, O2, t, h)
        <5>. HIDE DEF h
        <5>. QED BY <1>7, <2>1, <4>1, <4>2, <4>3 DEF Between
      <4>. QED BY <4>4
    <3>. QED BY <1>2, <1>4, <3>1, <3>2
  <2>3. Covered(c2, f, L, A2, O2)
    BY <2>1, <2>2 DEF Covered
  <2>. QED BY <2>1, <2>3 DEF SavedCovers
<1>. QED BY <1>9, <1>10

-----------------------------------------------------------------------------
(* A sync makes a step of its own *)

LEMMA NoCheckpointType == NoCheckpoint \in Checkpoints
<1>1. 0 \in Nat /\ 0 \in Histories /\ NoToken \in Tokens /\ {} \in SUBSET Threads
  BY Typing, NumberAssumption DEF Histories
<1>. QED BY <1>1 DEF NoCheckpoint, Checkpoints, Modes

LEMMA NothingType == Nothing \in [Threads -> Outcomes] /\ \A t \in Threads : Nothing[t].kind = "none"
BY DEF Nothing, Outcomes, NotFetched

LEMMA IdleType == IdleSync \in SyncStates
<1>1. /\ 0 \in Histories /\ NoToken \in Tokens /\ 0 \in 0..MaxPages
      /\ Never \in [Threads -> Histories]
  BY Typing, NumberAssumption, SyncAssumption DEF Histories, Never
<1>. QED BY <1>1, NoCheckpointType, NothingType DEF IdleSync, SyncStates, Modes

LEMMA IdleGood ==
    ASSUME NEW c, NEW L \in Seq(Records), NEW Z, NEW A, NEW O
    PROVE  SyncGood(IdleSync, c, L, Z, A, O)
<1>1. /\ IdleSync.phase = "idle" /\ IdleSync.from = 0 /\ IdleSync.next = 0
      /\ IdleSync.mode = "full" /\ IdleSync.ids = {} /\ IdleSync.rest = {}
      /\ IdleSync.todo = {} /\ IdleSync.got = Nothing
  BY DEF IdleSync
<1>2. Shape(IdleSync)
  BY <1>1 DEF Shape
<1>3. Issued(IdleSync, L)
  <2>1. Len(L) \in Nat
    OBVIOUS
  <2>. QED BY <1>1, <2>1 DEF Issued
<1>4. Heard(IdleSync, L, Z) /\ News(IdleSync, c, A)
  BY <1>1, NothingType DEF Heard, News
<1>5. Reads(IdleSync, c) /\ Covers(IdleSync, c, L, A, O)
  BY <1>1 DEF Reads, Covers
<1>. QED BY <1>2, <1>3, <1>4, <1>5, IdleType DEF SyncGood

\* After a complete unit the sync goes on to the quarantine.
LEMMA DueGood ==
    ASSUME NEW c \in Checkpoints, NEW L \in Seq(Records), NEW Z, NEW A, NEW O,
           NEW n \in Histories, n # 0, n = c.hist, n <= Len(L)
    PROVE  SyncGood([IdleSync EXCEPT !.phase = "due", !.mode = "incremental",
                                     !.prev = c, !.next = n], c, L, Z, A, O)
<1> DEFINE s == [IdleSync EXCEPT !.phase = "due", !.mode = "incremental",
                                 !.prev = c, !.next = n]
<1>1. /\ s.phase = "due" /\ s.mode = "incremental" /\ s.prev = c /\ s.next = n
      /\ s.from = 0 /\ s.token = NoToken /\ s.ids = {} /\ s.rest = {} /\ s.todo = {}
      /\ s.got = Nothing
  BY DEF IdleSync
<1>2. s \in SyncStates
  BY IdleType DEF SyncStates, Modes
<1>. HIDE DEF s
<1>3. Shape(s)
  BY <1>1 DEF Shape
<1>4. Issued(s, L)
  <2>1. Len(L) \in Nat /\ n \in Nat /\ s.token.pos = 0
    BY <1>1, Typing
  <2>. QED BY <1>1, <2>1 DEF Issued
<1>5. Heard(s, L, Z) /\ News(s, c, A)
  BY <1>1, NothingType DEF Heard, News
<1>6. Reads(s, c) /\ Covers(s, c, L, A, O)
  BY <1>1 DEF Reads, Covers, Checkpoints
<1>7. SyncGood(s, c, L, Z, A, O)
  BY <1>2, <1>3, <1>4, <1>5, <1>6 DEF SyncGood
<1>. QED BY <1>7 DEF s

\* A traversal from the start has everything before it.
LEMMA ListingStartGood ==
    ASSUME NEW n \in SyncStates, NEW c, NEW L \in Seq(Records), NEW Z, NEW A, NEW O,
           n.phase = "listing", n.mode = "full", n.from = Len(L), n.from # 0,
           n.next <= Len(L), n.token = NoToken, n.pages = 0, n.ids = {}, n.rest = {},
           n.todo = {}, n.got = Nothing, Reads(n, c)
    PROVE  SyncGood(n, c, L, Z, A, O)
<1>1. Cardinality({}) < MaxThreads /\ 0 < MaxPages
  BY FS_EmptySet, SyncAssumption
<1>2. Shape(n)
  BY <1>1, Typing DEF Shape
<1>3. Issued(n, L)
  <2>1. Len(L) \in Nat
    OBVIOUS
  <2>. QED BY <2>1 DEF Issued
<1>4. Heard(n, L, Z) /\ News(n, c, A)
  BY NothingType DEF Heard, News
<1>5. Left(n) = Threads
  BY DEF Left
<1>6. Covers(n, c, L, A, O)
  BY <1>5 DEF Covers, Traversed
<1>. QED BY <1>2, <1>3, <1>4, <1>6 DEF SyncGood

\* What the code reads of the log is what the lemmas say.
LEMMA LastChangeIsLast ==
    /\ \A t, n : LastChange(t, n) = Last(log, t, n)
    /\ \A t, n : DeletedBy(t, n) <=> Gone(log, t, n)
    /\ \A t : Exists(t) <=> Was(log, t, Len(log))
<1>1. \A t, n : LastChange(t, n) = Last(log, t, n)
  BY DEF LastChange, Last, LastOf
<1>2. \A t, n : DeletedBy(t, n) <=> Gone(log, t, n)
  BY <1>1 DEF DeletedBy, Gone
<1>. QED BY <1>1, <1>2 DEF Exists, Gone, Was, Now

\* A syncer moves to a good state and nothing else changes.
Moved(p) ==
    \E n \in SyncStates :
        Move(p, n) /\ SyncGood(n, checkpoint, log, lapses, asOf, Opened)

LEMMA MovedKeeps ==
    ASSUME SyncInv, NEW p \in Syncers, NEW n \in SyncStates,
           sync' = [sync EXCEPT ![p] = n], failures' \in 0..MaxFailures,
           lapses \subseteq lapses', lapses' \in SUBSET (Threads \X Histories),
           SyncGood(n, checkpoint, log, lapses', asOf, Opened),
           UNCHANGED <<mirrorVars, log, horizon, parser, floor, asOf>>
    PROVE  SyncInv'
<1>1. Shown' = Shown /\ Opened' = Opened
  BY DEF mirrorVars, Shown, Opened, IsOpen
<1>2. World'
  BY DEF SyncInv, World, Now
<1>3. sync' \in [Syncers -> SyncStates]
  BY DEF SyncInv
<1>4. log \in Seq(Records) /\ Grows(log, log) /\ Opened \in SUBSET Threads
  BY SameLogGrows DEF SyncInv, World, Opened
<1>5. \A q \in Syncers : SyncGood(sync'[q], checkpoint, log, lapses', asOf, Opened)
  <2>. SUFFICES ASSUME NEW q \in Syncers, q # p
                PROVE  SyncGood(sync'[q], checkpoint, log, lapses', asOf, Opened)
    BY DEF SyncInv
  <2>1. sync'[q] = sync[q] /\ SyncGood(sync[q], checkpoint, log, lapses, asOf, Opened)
    BY DEF SyncInv
  <2>. QED BY <1>4, <2>1, SyncGrows
<1>6. SavedGood(checkpoint, floor, log, lapses', Shown, asOf, Opened)
  BY <1>4, SavedGrows DEF SyncInv
<1>7. checkpoint' = checkpoint /\ floor' = floor /\ log' = log /\ asOf' = asOf
  BY DEF mirrorVars
<1>8. asOf' \in [Threads -> Histories]
  BY <1>7 DEF SyncInv
<1>. QED BY <1>1, <1>2, <1>3, <1>5, <1>6, <1>7, <1>8 DEF SyncInv

\* sync() begins: whatever the checkpoint asks for, nothing of it is dropped.
LEMMA BeginMoves ==
    ASSUME SyncInv, NEW p \in Syncers, BeginSync(p)
    PROVE  Moved(p)
<1> DEFINE c == checkpoint
           fresh == [IdleSync EXCEPT !.phase = "listing", !.prev = checkpoint]
           G(n) == SyncGood(n, c, log, lapses, asOf, Opened)
<1>1. /\ c \in Checkpoints /\ Whole(c) /\ SavedIssued(c, log)
      /\ SavedHeard(c, log, lapses, Shown, asOf, Opened) /\ SavedCovers(c, log, asOf, Opened)
      /\ log \in Seq(Records) /\ Now \in 1..MaxHistory
  BY DEF SyncInv, SavedGood, World
<1>2. /\ c.gen \in Nat /\ c.mode \in Modes /\ c.complete \in BOOLEAN
      /\ c.hist \in Histories /\ c.contHist \in Histories /\ c.baseline \in Histories
      /\ c.token \in Tokens /\ c.pending \in SUBSET Threads
  BY <1>1 DEF Checkpoints
<1>3. Now \in Histories /\ Now # 0 /\ Now = Len(log) /\ Now \in Nat
  BY <1>1, NumberAssumption DEF Histories, Now
<1>4. /\ fresh.phase = "listing" /\ fresh.prev = c /\ fresh.mode = "full" /\ fresh.from = 0
      /\ fresh.next = 0 /\ fresh.token = NoToken /\ fresh.pages = 0 /\ fresh.ids = {}
      /\ fresh.rest = {} /\ fresh.todo = {} /\ fresh.got = Nothing
      /\ fresh \in SyncStates
  BY <1>1, IdleType DEF IdleSync, SyncStates
<1>5. c.hist \in Nat /\ c.contHist \in Nat /\ c.baseline \in Nat /\ c.token.pos \in Nat
  BY <1>2, Typing
<1>. HIDE DEF fresh
<1>6. Cardinality({}) < MaxThreads /\ 0 < MaxPages
  BY FS_EmptySet, SyncAssumption
<1>7. CASE c.gen = 0
  <2> DEFINE n == FullListing(fresh, FALSE)
  <2>1. Move(p, n)
    BY <1>7 DEF BeginSync, fresh
  <2>2. n \in SyncStates
    BY <1>3, <1>4, Typing, SyncAssumption DEF FullListing, SyncStates, Modes
  <2>3. /\ n.phase = "listing" /\ n.mode = "full" /\ n.from = Len(log) /\ n.from # 0
        /\ n.next <= Len(log) /\ n.token = NoToken /\ n.pages = 0 /\ n.ids = {}
        /\ n.rest = {} /\ n.todo = {} /\ n.got = Nothing /\ n.prev = c
    BY <1>3, <1>4 DEF FullListing, SyncStates
  <2>. HIDE DEF n
  <2>4. Reads(n, c)
    BY <1>2, <2>3 DEF Reads
  <2>5. G(n)
    BY <1>1, <2>2, <2>3, <2>4, ListingStartGood
  <2>. QED BY <2>1, <2>2, <2>5 DEF Moved
<1>8. CASE c.gen # 0 /\ ~c.complete /\ c.mode = "full"
  <2> DEFINE n == [fresh EXCEPT !.from = checkpoint.baseline, !.token = checkpoint.token]
  <2>1. Move(p, n)
    BY <1>8 DEF BeginSync, fresh
  <2>2. n \in SyncStates
    BY <1>2, <1>4 DEF SyncStates
  <2>3. /\ n.phase = "listing" /\ n.mode = "full" /\ n.from = c.baseline /\ n.next = 0
        /\ n.token = c.token /\ n.pages = 0 /\ n.ids = {} /\ n.rest = {}
        /\ n.todo = {} /\ n.got = Nothing /\ n.prev = c
    BY <1>4 DEF SyncStates
  <2>. HIDE DEF n
  <2>4. c.gen > 0
    BY <1>2, <1>8
  <2>5. c.token # NoToken /\ c.baseline # 0 /\ c.token.pos = 0
    BY <1>1, <1>8, <2>4 DEF Whole
  <2>6. Shape(n) /\ Reads(n, c)
    BY <1>2, <1>6, <2>3, <2>5 DEF Shape, Reads
  <2>7. Issued(n, log)
    BY <1>1, <1>3, <2>3 DEF Issued, SavedIssued
  <2>8. Heard(n, log, lapses) /\ News(n, c, asOf)
    BY <2>3, NothingType DEF Heard, News
  <2>9. Covers(n, c, log, asOf, Opened)
    <3>1. Traversed(c.baseline, c.token.rest, log, asOf, Opened)
      BY <1>1, <1>8, <2>4 DEF SavedCovers
    <3>2. Left(n) \cup n.ids = c.token.rest
      BY <2>3, <2>5 DEF Left
    <3>. QED BY <2>3, <3>1, <3>2 DEF Covers
  <2>10. G(n)
    BY <2>2, <2>6, <2>7, <2>8, <2>9 DEF SyncGood
  <2>. QED BY <2>1, <2>2, <2>10 DEF Moved
<1>9. ASSUME c.gen # 0, ~(~c.complete /\ c.mode = "full")
      PROVE  /\ c.gen > 0 /\ c.hist # 0 /\ c.token.pos <= c.contHist /\ c.token.rest = {}
             /\ c.token # NoToken => ~c.complete /\ c.mode = "incremental"
             /\ c.pending # {} => ~c.complete /\ c.mode = "incremental"
  <2>1. c.gen > 0
    BY <1>2, <1>9
  <2>2. CASE c.complete
    <3>1. c.hist # 0 /\ c.pending = {} /\ c.token = NoToken
      BY <1>1, <2>1, <2>2 DEF Whole
    <3>. QED BY <1>5, <2>1, <3>1, Typing
  <2>3. CASE ~c.complete
    <3>1. c.mode = "incremental"
      BY <1>2, <1>9, <2>3 DEF Modes
    <3>. QED BY <1>1, <2>1, <2>3, <3>1 DEF Whole, SavedIssued
  <2>. QED BY <2>2, <2>3
<1>10. CASE c.gen # 0 /\ ~(~c.complete /\ c.mode = "full") /\ c.pending = {}
  <2> DEFINE n == [fresh EXCEPT !.mode = "incremental", !.from = checkpoint.hist,
                                !.next = checkpoint.contHist, !.token = checkpoint.token]
  <2>1. Move(p, n)
    BY <1>10 DEF BeginSync, fresh
  <2>2. n \in SyncStates
    BY <1>2, <1>4 DEF SyncStates, Modes
  <2>3. /\ n.phase = "listing" /\ n.mode = "incremental" /\ n.from = c.hist
        /\ n.next = c.contHist /\ n.token = c.token /\ n.pages = 0 /\ n.ids = {}
        /\ n.rest = {} /\ n.todo = {} /\ n.got = Nothing /\ n.prev = c
    BY <1>4 DEF SyncStates
  <2>. HIDE DEF n
  <2>4. Shape(n) /\ Reads(n, c)
    BY <1>2, <1>6, <1>9, <1>10, <2>3 DEF Shape, Reads
  <2>5. Issued(n, log)
    BY <1>1, <1>3, <1>9, <1>10, <2>3 DEF Issued, SavedIssued
  <2>6. Heard(n, log, lapses) /\ News(n, c, asOf)
    BY <2>3, NothingType DEF Heard, News
  <2>7. Covers(n, c, log, asOf, Opened)
    <3>1. CASE c.token = NoToken
      <4>1. ListedTo(n) = n.from /\ n.from \in Nat
        BY <1>5, <2>3, <3>1 DEF ListedTo
      <4>. QED BY <2>3, <4>1 DEF Covers, Between
    <3>2. CASE c.token # NoToken
      <4>1. Between(c.hist, c.token.pos - 1, c.pending, log, asOf, Opened)
        BY <1>1, <1>9, <1>10, <3>2 DEF SavedCovers
      <4>2. ListedTo(n) = c.token.pos - 1 /\ n.ids \cup n.rest = c.pending
        BY <1>10, <2>3, <3>2 DEF ListedTo
      <4>. QED BY <2>3, <4>1, <4>2 DEF Covers
    <3>. QED BY <3>1, <3>2
  <2>8. G(n)
    BY <2>2, <2>4, <2>5, <2>6, <2>7 DEF SyncGood
  <2>. QED BY <2>1, <2>2, <2>8 DEF Moved
<1>11. CASE c.gen # 0 /\ ~(~c.complete /\ c.mode = "full") /\ c.pending # {}
  <2>1. PICK selected \in Subsets(checkpoint.pending, MaxThreads) :
          Move(p, [fresh EXCEPT !.phase = "getting", !.mode = "incremental",
                                !.from = checkpoint.hist,
                                !.next = checkpoint.contHist,
                                !.token = checkpoint.token,
                                !.ids = selected, !.todo = selected,
                                !.rest = checkpoint.pending \ selected])
    BY <1>11 DEF BeginSync, fresh
  <2> DEFINE n == [fresh EXCEPT !.phase = "getting", !.mode = "incremental",
                                !.from = checkpoint.hist,
                                !.next = checkpoint.contHist,
                                !.token = checkpoint.token,
                                !.ids = selected, !.todo = selected,
                                !.rest = checkpoint.pending \ selected]
  <2>2. selected \in SUBSET c.pending /\ selected \in SUBSET Threads
    BY <1>2 DEF Subsets
  <2>3. n \in SyncStates
    <3> DEFINE m == [fresh EXCEPT !.phase = "getting", !.mode = "incremental",
                                  !.from = c.hist]
               k == [m EXCEPT !.next = c.contHist, !.token = c.token]
    <3>1. m \in SyncStates
      BY <1>2, <1>4 DEF SyncStates, Modes
    <3>2. n = [k EXCEPT !.ids = selected, !.todo = selected, !.rest = c.pending \ selected]
      OBVIOUS
    <3>. HIDE DEF n, m
    <3>3. k \in SyncStates
      BY <1>2, <3>1 DEF SyncStates
    <3>4. c.pending \ selected \in SUBSET Threads
      BY <1>2
    <3>. HIDE DEF k
    <3>. QED BY <2>2, <3>2, <3>3, <3>4 DEF SyncStates
  <2>4. /\ n.phase = "getting" /\ n.mode = "incremental" /\ n.from = c.hist
        /\ n.next = c.contHist /\ n.token = c.token /\ n.ids = selected
        /\ n.rest = c.pending \ selected /\ n.todo = selected /\ n.got = Nothing
        /\ n.prev = c
    BY <1>4 DEF SyncStates
  <2>. HIDE DEF n
  <2>5. ~c.complete /\ c.mode = "incremental" /\ c.contHist # 0 /\ c.hist <= c.contHist
    BY <1>1, <1>9, <1>11 DEF Whole, SavedIssued
  <2>6. Shape(n) /\ Reads(n, c)
    BY <1>2, <1>9, <1>11, <2>4, <2>5 DEF Shape, Reads
  <2>7. Issued(n, log)
    BY <1>1, <1>3, <1>9, <1>11, <2>4, <2>5 DEF Issued, SavedIssued
  <2>8. Heard(n, log, lapses) /\ News(n, c, asOf)
    <3>1. n.ids \cup n.rest \cup n.todo \subseteq c.pending
      BY <2>2, <2>4
    <3>. QED BY <1>1, <2>4, <3>1, NothingType DEF Heard, News, SavedHeard
  <2>9. Covers(n, c, log, asOf, Opened)
    <3>1. n.ids \cup n.rest = c.pending
      BY <2>2, <2>4
    <3>2. ListedTo(n) = IF c.token = NoToken THEN c.contHist ELSE c.token.pos - 1
      BY <2>4 DEF ListedTo
    <3>3. Between(c.hist, ListedTo(n), c.pending, log, asOf, Opened)
      BY <1>1, <1>9, <1>11, <2>5, <3>2 DEF SavedCovers
    <3>. QED BY <2>4, <3>1, <3>3 DEF Covers
  <2>10. G(n)
    BY <2>3, <2>6, <2>7, <2>8, <2>9 DEF SyncGood
  <2>. QED BY <2>1, <2>3, <2>10 DEF Moved, n
<1>. QED BY <1>7, <1>8, <1>10, <1>11

\* What a syncer holds when a page was added and the bounds are not yet tested.
Page(n, c, L, Z, A, O) ==
    /\ n \in SyncStates /\ n.phase = "listing" /\ n.todo = {} /\ n.rest = {}
    /\ n.got = Nothing /\ Reads(n, c) /\ Issued(n, L) /\ Heard(n, L, Z)
    /\ n.mode = "full" => /\ n.from # 0 /\ n.token.pos = 0
                          /\ Cardinality(n.ids) <= MaxThreads
                          /\ Current(n, c) =>
                               Traversed(n.from, n.token.rest \cup n.ids, L, A, O)
    /\ n.mode # "full" =>
         /\ n.token.rest = {} /\ n.prev.hist # 0 /\ n.from = n.prev.hist
         /\ n.next # 0 /\ n.from <= n.next
         /\ Current(n, c) => Between(n.from, IF n.token = NoToken THEN n.next
                                             ELSE n.token.pos - 1, n.ids, L, A, O)

LEMMA AfterPageMoves ==
    ASSUME SyncInv, NEW p \in Syncers, NEW n,
           Page(n, checkpoint, log, lapses, asOf, Opened), AfterPage(p, n)
    PROVE  Moved(p)
<1> DEFINE c == checkpoint
<1>1. /\ n \in SyncStates /\ n.phase = "listing" /\ n.todo = {} /\ n.rest = {}
      /\ n.got = Nothing /\ Reads(n, c) /\ Issued(n, log) /\ Heard(n, log, lapses)
  BY DEF Page
<1>2. /\ n.mode \in Modes /\ n.ids \in SUBSET Threads /\ n.pages \in 0..MaxPages
      /\ n.from \in Nat /\ n.next \in Nat
  <2>1. n.from \in Histories /\ n.next \in Histories
    BY <1>1 DEF SyncStates
  <2>. QED BY <1>1, <2>1, Typing DEF SyncStates
<1>3. IsFiniteSet(n.ids) /\ Cardinality(n.ids) \in Nat
  BY <1>2, IdentityAssumption, FS_Subset, FS_CardinalityType
<1>4. CASE ~Listed(n)
  <2>1. Move(p, n)
    BY <1>4 DEF AfterPage
  <2>2. n.token # NoToken /\ Cardinality(n.ids) < MaxThreads /\ n.pages < MaxPages
    BY <1>2, <1>3, <1>4, SyncAssumption DEF Listed
  <2>3. n.mode # "full" => n.mode = "incremental"
    BY <1>2 DEF Modes
  <2>4. Shape(n)
    BY <1>1, <2>2, <2>3 DEF Page, Shape
  <2>5. News(n, c, asOf)
    BY <1>1, NothingType DEF News
  <2>6. Covers(n, c, log, asOf, Opened)
    <3>1. Left(n) = n.token.rest /\ ListedTo(n) = n.token.pos - 1 /\ n.ids \cup n.rest = n.ids
      BY <1>1, <2>2 DEF Left, ListedTo
    <3>. QED BY <2>2, <3>1 DEF Page, Covers
  <2>7. SyncGood(n, c, log, lapses, asOf, Opened)
    BY <1>1, <2>4, <2>5, <2>6 DEF SyncGood
  <2>. QED BY <1>1, <2>1, <2>7 DEF Moved
<1>5. CASE Listed(n)
  <2>1. PICK selected \in Subsets(n.ids, MaxThreads) :
          Move(p, [n EXCEPT !.phase = "getting", !.ids = selected,
                            !.todo = selected, !.rest = n.ids \ selected])
    BY <1>5 DEF AfterPage
  <2> DEFINE m == [n EXCEPT !.phase = "getting", !.ids = selected,
                            !.todo = selected, !.rest = n.ids \ selected]
  <2>2. /\ selected \in SUBSET n.ids
        /\ Cardinality(selected) = IF Cardinality(n.ids) < MaxThreads
                                   THEN Cardinality(n.ids) ELSE MaxThreads
    BY DEF Subsets
  <2>3. m \in SyncStates
    BY <1>1, <1>2, <2>2 DEF SyncStates
  <2>4. /\ m.phase = "getting" /\ m.ids = selected /\ m.todo = selected
        /\ m.rest = n.ids \ selected /\ m.prev = n.prev /\ m.mode = n.mode
        /\ m.from = n.from /\ m.next = n.next /\ m.token = n.token /\ m.got = Nothing
    BY <1>1 DEF SyncStates
  <2>. HIDE DEF m
  <2>5. ASSUME n.mode = "full"
        PROVE  selected = n.ids /\ m.rest = {}
    <3>1. Cardinality(n.ids) <= MaxThreads
      BY <2>5 DEF Page
    <3>2. Cardinality(selected) = Cardinality(n.ids)
      BY <1>3, <2>2, <3>1, SyncAssumption
    <3>3. selected = n.ids
      BY <1>3, <2>2, <3>2, FS_Subset
    <3>. QED BY <2>4, <3>3
  <2>6. m.ids \cup m.rest = n.ids
    BY <2>2, <2>4
  <2>7. n.mode # "full" <=> n.mode = "incremental"
    BY <1>2 DEF Modes
  <2>8. Shape(m)
    BY <2>4, <2>5, <2>7 DEF Page, Shape
  <2>9. Reads(m, c)
    BY <1>1, <2>4 DEF Reads
  <2>10. Issued(m, log)
    BY <1>1, <2>4, <2>7 DEF Page, Issued
  <2>11. Heard(m, log, lapses) /\ News(m, c, asOf)
    BY <1>1, <2>2, <2>4, NothingType DEF Heard, News
  <2>12. Covers(m, c, log, asOf, Opened)
    <3>1. /\ Left(m) = n.token.rest
          /\ ListedTo(m) = IF n.token = NoToken THEN n.next ELSE n.token.pos - 1
      BY <2>4 DEF Left, ListedTo
    <3>2. Current(m, c) => Current(n, c)
      BY <1>1, <2>4 DEF Current
    <3>. QED BY <2>4, <2>5, <2>6, <3>1, <3>2 DEF Page, Covers
  <2>13. SyncGood(m, c, log, lapses, asOf, Opened)
    BY <2>3, <2>8, <2>9, <2>10, <2>11, <2>12 DEF SyncGood
  <2>. QED BY <2>1, <2>3, <2>13 DEF Moved, m
<1>. QED BY <1>4, <1>5

\* The facts about a syncer that its steps start from.
LEMMA SyncFacts ==
    ASSUME SyncInv, NEW p \in Syncers
    PROVE  /\ sync[p] \in SyncStates /\ Shape(sync[p]) /\ Reads(sync[p], checkpoint)
           /\ Issued(sync[p], log) /\ Heard(sync[p], log, lapses)
           /\ News(sync[p], checkpoint, asOf)
           /\ Covers(sync[p], checkpoint, log, asOf, Opened)
           /\ sync[p].from \in Nat /\ sync[p].next \in Nat /\ sync[p].token \in Tokens
           /\ sync[p].token.pos \in Nat /\ sync[p].ids \in SUBSET Threads
           /\ sync[p].mode \in Modes /\ sync[p].pages \in Nat
           /\ IsFiniteSet(sync[p].ids) /\ Cardinality(sync[p].ids) \in Nat
<1>1. SyncGood(sync[p], checkpoint, log, lapses, asOf, Opened)
  BY DEF SyncInv
<1>2. /\ sync[p] \in SyncStates /\ Shape(sync[p]) /\ Reads(sync[p], checkpoint)
      /\ Issued(sync[p], log) /\ Heard(sync[p], log, lapses)
      /\ News(sync[p], checkpoint, asOf)
      /\ Covers(sync[p], checkpoint, log, asOf, Opened)
  BY <1>1 DEF SyncGood
<1>3. /\ sync[p].from \in Histories /\ sync[p].next \in Histories
      /\ sync[p].token \in Tokens /\ sync[p].ids \in SUBSET Threads
      /\ sync[p].mode \in Modes /\ sync[p].pages \in 0..MaxPages
  BY <1>2 DEF SyncStates
<1>4. IsFiniteSet(sync[p].ids) /\ Cardinality(sync[p].ids) \in Nat
  BY <1>3, IdentityAssumption, FS_Subset, FS_CardinalityType
<1>5. sync[p].pages \in Nat
  BY <1>3, SyncAssumption
<1>. QED BY <1>2, <1>3, <1>4, <1>5, Typing

LEMMA LogFacts ==
    ASSUME SyncInv
    PROVE  /\ log \in Seq(Records) /\ Now = Len(log) /\ Now \in Nat /\ Now \in Histories
           /\ Now # 0 /\ \A h \in 1..Now : log[h].threads \in SUBSET Threads
<1>1. log \in Seq(Records) /\ Now \in 1..MaxHistory
  BY DEF SyncInv, World
<1>2. \A h \in 1..Now : log[h] \in Records
  BY <1>1 DEF Now
<1>. QED BY <1>1, <1>2, NumberAssumption DEF Now, Histories, Records

LEMMA ListThreadsMoves ==
    ASSUME SyncInv, NEW p \in Syncers, ListThreads(p)
    PROVE  Moved(p)
<1> DEFINE s == sync[p]
           left == IF s.token = NoToken THEN Threads \ Unlisted ELSE s.token.rest
           matching == {t \in left : Exists(t)}
<1>1. s.phase = "listing" /\ s.mode = "full"
  BY DEF ListThreads
<1>2. PICK page \in Subsets(matching, Requested(s)) :
        AfterPage(p, [s EXCEPT !.ids = @ \cup page, !.pages = @ + 1,
                        !.token = [pos |-> 0, rest |-> matching \ page]])
  BY DEF ListThreads
<1> DEFINE n == [s EXCEPT !.ids = @ \cup page, !.pages = @ + 1,
                          !.token = [pos |-> 0, rest |-> matching \ page]]
<1>3. /\ s.todo = {} /\ s.rest = {} /\ s.got = Nothing /\ s.from # 0
      /\ Cardinality(s.ids) < MaxThreads /\ s.pages < MaxPages
  BY <1>1, SyncFacts DEF Shape
<1>4. left \in SUBSET Threads /\ matching \in SUBSET left
  BY SyncFacts, Typing
<1>5. page \in SUBSET matching /\ page \in SUBSET Threads
  BY <1>4 DEF Subsets
<1>6. [pos |-> 0, rest |-> matching \ page] \in Tokens
  BY <1>4, SyncAssumption, NumberAssumption DEF Histories
<1>7. s.pages + 1 \in 0..MaxPages
  BY <1>3, SyncFacts, SyncAssumption
<1>8. /\ s \in SyncStates /\ s.ids \in SUBSET Threads
  BY SyncFacts
<1>9. n \in SyncStates
  <2>. HIDE DEF s, matching
  <2>. QED BY <1>5, <1>6, <1>7, <1>8 DEF SyncStates
<1>10. /\ n.phase = "listing" /\ n.mode = "full" /\ n.todo = {} /\ n.rest = {}
       /\ n.got = Nothing /\ n.prev = s.prev /\ n.from = s.from /\ n.next = s.next
       /\ n.ids = s.ids \cup page /\ n.token.pos = 0 /\ n.token.rest = matching \ page
  <2>. HIDE DEF s, matching
  <2>. QED BY <1>1, <1>3, <1>8 DEF SyncStates
<1>. HIDE DEF n
<1>11. Cardinality(n.ids) <= MaxThreads
  <2>1. Requested(s) \in Nat /\ Requested(s) <= MaxThreads - Cardinality(s.ids)
    BY <1>3, SyncFacts, SyncAssumption DEF Requested
  <2>2. IsFiniteSet(page) /\ Cardinality(page) \in Nat /\ Cardinality(page) <= Requested(s)
    <3>1. IsFiniteSet(matching) /\ IsFiniteSet(page)
      BY <1>4, <1>5, IdentityAssumption, FS_Subset
    <3>2. Cardinality(matching) \in Nat /\ Cardinality(page) \in Nat
      BY <3>1, FS_CardinalityType
    <3>. QED BY <2>1, <3>1, <3>2 DEF Subsets
  <2>3. IsFiniteSet(s.ids \cap page) /\ Cardinality(s.ids \cap page) \in Nat
    BY <2>2, FS_Intersection, FS_CardinalityType
  <2>4. Cardinality(s.ids \cup page) =
          Cardinality(s.ids) + Cardinality(page) - Cardinality(s.ids \cap page)
    BY <2>2, SyncFacts, FS_Union
  <2>. QED BY <1>10, <2>1, <2>2, <2>3, <2>4, SyncFacts, SyncAssumption
<1>12. Heard(n, log, lapses)
  <2>1. \A t \in page : Known(log, t)
    BY <1>5, LastChangeIsLast DEF Known, Was
  <2>2. Heard(s, log, lapses)
    BY SyncFacts
  <2>. QED BY <1>3, <1>10, <2>1, <2>2, NothingType DEF Heard
<1>13. Reads(n, checkpoint) /\ Issued(n, log)
  <2>1. Reads(s, checkpoint) /\ Issued(s, log)
    BY SyncFacts
  <2>. QED BY <1>1, <1>10, <2>1 DEF Reads, Issued
<1>14. ASSUME Current(n, checkpoint)
       PROVE  Traversed(n.from, n.token.rest \cup n.ids, log, asOf, Opened)
  <2>1. Traversed(s.from, Left(s) \cup s.ids, log, asOf, Opened)
    BY <1>1, <1>10, <1>14, SyncFacts DEF Covers, Current
  <2>2. ASSUME NEW t \in Threads \ Unlisted, t \in Left(s), Was(log, t, s.from)
        PROVE  t \in n.token.rest \cup n.ids \/ DeletedAfter(log, t, s.from)
    <3>1. t \in left
      BY <1>1, <2>2 DEF Left
    <3>2. t \in n.token.rest \cup n.ids \/ ~Was(log, t, Len(log))
      BY <1>10, <3>1, LastChangeIsLast
    <3>3. s.from \in Nat /\ s.from <= Len(log) /\ Len(log) \in Nat
      BY LogFacts, SyncFacts DEF Issued
    <3>4. ~Was(log, t, Len(log)) => DeletedAfter(log, t, s.from)
      BY <2>2, <3>3, LogFacts, LostBetween
    <3>. QED BY <3>2, <3>4
  <2>. QED BY <1>10, <2>1, <2>2 DEF Traversed
<1>15. Page(n, checkpoint, log, lapses, asOf, Opened)
  BY <1>3, <1>9, <1>10, <1>11, <1>12, <1>13, <1>14 DEF Page
<1>16. AfterPage(p, n)
  BY <1>2 DEF n
<1>. QED BY <1>15, <1>16, AfterPageMoves

LEMMA ListHistoryMoves ==
    ASSUME SyncInv, NEW p \in Syncers, ListHistory(p)
    PROVE  Moved(p)
<1> DEFINE s == sync[p]
           first == IF s.token = NoToken THEN s.from + 1 ELSE s.token.pos
           last == IF first + Requested(s) - 1 < Now THEN first + Requested(s) - 1
                   ELSE Now
           found == UNION {log[h].threads : h \in first..last}
           n == [s EXCEPT !.ids = @ \cup found, !.pages = @ + 1, !.next = Now,
                          !.token = [pos |-> IF last < Now THEN last + 1 ELSE 0,
                                     rest |-> {}]]
<1>1. s.phase = "listing" /\ s.mode = "incremental" /\ AfterPage(p, n)
  BY DEF ListHistory
<1>2. /\ s.todo = {} /\ s.rest = {} /\ s.got = Nothing /\ s.token.rest = {}
      /\ s.prev.hist # 0 /\ s.from = s.prev.hist
      /\ Cardinality(s.ids) < MaxThreads /\ s.pages < MaxPages
  BY <1>1, SyncFacts DEF Shape
<1>3. /\ s \in SyncStates /\ s.from \in Nat /\ s.next \in Nat /\ s.token \in Tokens
      /\ s.token.pos \in Nat /\ s.ids \in SUBSET Threads /\ s.pages \in Nat
      /\ s.from <= Now /\ s.token.pos <= Now /\ Now \in Nat
      /\ Issued(s, log) /\ Heard(s, log, lapses) /\ Reads(s, checkpoint)
  <2>1. Issued(s, log)
    BY SyncFacts
  <2>2. /\ s.from \in Nat /\ s.next \in Nat /\ s.token.pos \in Nat /\ Now \in Nat
        /\ Now = Len(log)
    BY SyncFacts, LogFacts
  <2>3. s.from <= Now /\ s.token.pos <= Now
    BY <1>1, <2>1, <2>2 DEF Issued
  <2>. QED BY <2>1, <2>2, <2>3, SyncFacts
<1>4. first \in Nat /\ first >= 1
  <2>1. s.token # NoToken => s.token.pos # 0
    BY <1>2, <1>3, Typing
  <2>. QED BY <1>3, <2>1
<1>5. Requested(s) \in Nat /\ Requested(s) >= 1
  BY <1>2, SyncFacts, SyncAssumption DEF Requested
<1>6. last \in Nat /\ last <= Now /\ (last < Now => last + 1 \in Histories)
  <2>. HIDE DEF first, s
  <2>1. Now \in Histories
    BY LogFacts
  <2>2. last \in Nat /\ last <= Now
    BY <1>3, <1>4, <1>5
  <2>. QED BY <2>1, <2>2, NumberAssumption DEF Histories
<1>7. found \in SUBSET Threads
  <2>1. \A h \in first..last : log[h].threads \in SUBSET Threads
    <3>. HIDE DEF first, last, s
    <3>. QED BY <1>3, <1>4, <1>6, LogFacts
  <2>. QED BY <2>1
<1>8. \A t \in found : Known(log, t)
  <2>. SUFFICES ASSUME NEW t \in found
                PROVE  Known(log, t)
    OBVIOUS
  <2>. HIDE DEF first, last, s
  <2>1. PICK h \in first..last : t \in log[h].threads
    OBVIOUS
  <2>2. h \in 1..Len(log) /\ Len(log) \in Nat
    BY <1>3, <1>4, <1>6, LogFacts
  <2>3. h <= Last(log, t, Len(log)) /\ Last(log, t, Len(log)) \in 0..Len(log)
    BY <2>1, <2>2, LastFacts
  <2>. QED BY <2>2, <2>3 DEF Known
<1> DEFINE token == [pos |-> IF last < Now THEN last + 1 ELSE 0, rest |-> {}]
<1>9. /\ token \in Tokens /\ token.rest = {}
      /\ token.pos = IF last < Now THEN last + 1 ELSE 0
  <2>1. 0 \in Histories
    BY NumberAssumption DEF Histories
  <2>. HIDE DEF last
  <2>. QED BY <1>6, <2>1, SyncAssumption
<1>10. s.pages + 1 \in 0..MaxPages /\ Now \in Histories /\ Now # 0
  BY <1>2, <1>3, LogFacts, SyncAssumption
<1>11. n \in SyncStates
  <2>. HIDE DEF s, found, token
  <2>1. n = [s EXCEPT !.ids = @ \cup found, !.pages = @ + 1, !.next = Now, !.token = token]
    BY DEF token
  <2> DEFINE m == [s EXCEPT !.ids = @ \cup found, !.pages = @ + 1]
  <2>2. m \in SyncStates
    BY <1>3, <1>7, <1>10 DEF SyncStates
  <2>3. n = [m EXCEPT !.next = Now, !.token = token]
    BY <2>1
  <2>. HIDE DEF m, n
  <2>. QED BY <1>9, <1>10, <2>2, <2>3 DEF SyncStates
<1>12. /\ n.phase = "listing" /\ n.mode = "incremental" /\ n.todo = {} /\ n.rest = {}
       /\ n.got = Nothing /\ n.prev = s.prev /\ n.from = s.from /\ n.next = Now
       /\ n.ids = s.ids \cup found /\ n.token = token
  <2>. HIDE DEF s, found, last
  <2>. QED BY <1>1, <1>2, <1>3 DEF SyncStates
<1>. HIDE DEF n, found, token, first
<1>13. Reads(n, checkpoint)
  BY <1>1, <1>3, <1>12 DEF Reads
<1>14. Issued(n, log)
  <2>. HIDE DEF last, s
  <2>. QED BY <1>3, <1>6, <1>9, <1>12, LogFacts DEF Issued
<1>15. Heard(n, log, lapses)
  <2>. HIDE DEF last, s
  <2>. QED BY <1>2, <1>3, <1>8, <1>12, NothingType DEF Heard
<1>16. ASSUME Current(n, checkpoint)
       PROVE  Between(n.from, IF n.token = NoToken THEN n.next ELSE n.token.pos - 1,
                      n.ids, log, asOf, Opened)
  <2>1. Between(s.from, ListedTo(s), s.ids \cup s.rest, log, asOf, Opened)
    <3>1. Covers(s, checkpoint, log, asOf, Opened) /\ Current(s, checkpoint)
      BY <1>1, <1>12, <1>16, SyncFacts DEF Current
    <3>. QED BY <1>1, <3>1 DEF Covers
  <2>2. ListedTo(s) = first - 1
    BY <1>1, <1>3 DEF ListedTo, first
  <2>3. (IF n.token = NoToken THEN n.next ELSE n.token.pos - 1) = last
    <3>. HIDE DEF last, s
    <3>1. last < Now => n.token # NoToken
      BY <1>6, <1>9, <1>12, Typing
    <3>2. ~(last < Now) => n.token = NoToken
      BY <1>9, <1>12, Typing
    <3>. QED BY <1>3, <1>6, <1>9, <1>12, <3>1, <3>2
  <2>4. \A h \in (s.from + 1)..last : h \in (s.from + 1)..(first - 1) \/ h \in first..last
    <3>. HIDE DEF last
    <3>. QED BY <1>3, <1>4, <1>6
  <2>5. \A h \in first..last : log[h].threads \subseteq found
    BY DEF found
  <2>6. Between(s.from, last, n.ids, log, asOf, Opened)
    <3>. HIDE DEF last, s
    <3>. QED BY <1>2, <1>12, <2>1, <2>2, <2>4, <2>5 DEF Between
  <2>. QED BY <1>12, <2>3, <2>6
<1>17. Page(n, checkpoint, log, lapses, asOf, Opened)
  <2>. HIDE DEF last, s
  <2>. QED BY <1>2, <1>3, <1>9, <1>10, <1>11, <1>12, <1>13, <1>14, <1>15, <1>16 DEF Page
<1>18. AfterPage(p, n)
  BY <1>1 DEF n, token, found, first
<1>. QED BY <1>17, <1>18, AfterPageMoves

\* A start id that expired, or a page token: the traversal starts over.
LEMMA RestartGood ==
    ASSUME SyncInv, NEW p \in Syncers, sync[p].phase = "listing"
    PROVE  SyncGood([FullListing(sync[p], TRUE) EXCEPT !.restarted = TRUE],
                    checkpoint, log, lapses, asOf, Opened)
<1> DEFINE s == sync[p]
           n == [FullListing(s, TRUE) EXCEPT !.restarted = TRUE]
<1>1. s \in SyncStates /\ Shape(s) /\ Reads(s, checkpoint) /\ Issued(s, log)
  BY SyncFacts
<1>2. 0 \in 0..MaxPages
  BY SyncAssumption
<1>3. n \in SyncStates
  BY <1>1, <1>2, LogFacts, Typing DEF FullListing, SyncStates, Modes
<1>4. /\ n.phase = "listing" /\ n.mode = "full" /\ n.from = Now /\ n.next = s.next
      /\ n.token = NoToken /\ n.pages = 0 /\ n.ids = {} /\ n.rest = s.rest
      /\ n.todo = s.todo /\ n.got = s.got /\ n.prev = s.prev
  BY <1>1 DEF FullListing, SyncStates
<1>. HIDE DEF n
<1>5. s.rest = {} /\ s.todo = {} /\ s.got = Nothing /\ s.next <= Len(log)
  BY <1>1 DEF Shape, Issued
<1>6. Reads(n, checkpoint)
  BY <1>1, <1>4 DEF Reads
<1>7. SyncGood(n, checkpoint, log, lapses, asOf, Opened)
  BY <1>3, <1>4, <1>5, <1>6, LogFacts, ListingStartGood
<1>. QED BY <1>7 DEF n

LEMMA HistoryTooOldMoves ==
    ASSUME SyncInv, NEW p \in Syncers, HistoryTooOld(p)
    PROVE  Moved(p)
<1>1. /\ sync[p].phase = "listing"
      /\ Move(p, [FullListing(sync[p], TRUE) EXCEPT !.restarted = TRUE])
  BY DEF HistoryTooOld
<1>2. SyncGood([FullListing(sync[p], TRUE) EXCEPT !.restarted = TRUE],
               checkpoint, log, lapses, asOf, Opened)
  BY <1>1, RestartGood
<1>. QED BY <1>1, <1>2 DEF Moved, SyncGood

LEMMA TokenInvalidKeeps ==
    ASSUME SyncInv, NEW p \in Syncers, TokenInvalid(p)
    PROVE  SyncInv'
<1> DEFINE s == sync[p]
           full == [FullListing(s, TRUE) EXCEPT !.restarted = TRUE]
           again == [s EXCEPT !.token = NoToken, !.next = 0, !.pages = 0, !.ids = {},
                              !.restarted = TRUE]
           n == IF s.mode = "full" THEN full ELSE again
<1>1. /\ s.phase = "listing" /\ failures' = failures + 1 /\ failures < MaxFailures
      /\ sync' = [sync EXCEPT ![p] = n]
      /\ UNCHANGED <<mirrorVars, log, horizon, parser, floor, asOf, lapses>>
  BY DEF TokenInvalid
<1>2. /\ failures' \in 0..MaxFailures /\ lapses' = lapses
      /\ lapses' \in SUBSET (Threads \X Histories)
  BY <1>1, SyncAssumption DEF SyncInv, World
<1>3. CASE s.mode = "full"
  <2>1. SyncGood(full, checkpoint, log, lapses, asOf, Opened)
    BY <1>1, RestartGood
  <2>2. sync' = [sync EXCEPT ![p] = full] /\ full \in SyncStates
    BY <1>1, <1>3, <2>1 DEF SyncGood
  <2>. HIDE DEF full
  <2>. QED BY <1>1, <1>2, <2>1, <2>2, MovedKeeps
<1>4. CASE s.mode # "full"
  <2>1. /\ s \in SyncStates /\ Shape(s) /\ Reads(s, checkpoint) /\ Issued(s, log)
        /\ s.mode = "incremental"
    BY <1>4, SyncFacts DEF Modes
  <2>2. again \in SyncStates
    <3>1. 0 \in Histories /\ 0 \in 0..MaxPages
      BY NumberAssumption, SyncAssumption DEF Histories
    <3>. QED BY <2>1, <3>1, Typing DEF SyncStates
  <2>3. /\ again.phase = "listing" /\ again.mode = "incremental" /\ again.from = s.from
        /\ again.next = 0 /\ again.token = NoToken /\ again.pages = 0 /\ again.ids = {}
        /\ again.rest = s.rest /\ again.todo = s.todo /\ again.got = s.got
        /\ again.prev = s.prev
    BY <1>1, <2>1 DEF SyncStates
  <2>4. sync' = [sync EXCEPT ![p] = again]
    BY <1>1, <1>4
  <2>. HIDE DEF again
  <2>5. /\ s.rest = {} /\ s.todo = {} /\ s.got = Nothing
        /\ s.prev.hist # 0 /\ s.from = s.prev.hist
    BY <1>1, <2>1 DEF Shape
  <2>6. Shape(again)
    <3>1. Cardinality({}) < MaxThreads /\ 0 < MaxPages
      BY FS_EmptySet, SyncAssumption
    <3>. QED BY <2>3, <2>5, <3>1, Typing DEF Shape
  <2>7. Reads(again, checkpoint)
    BY <1>1, <2>1, <2>3 DEF Reads
  <2>8. Issued(again, log)
    <3>1. Len(log) \in Nat
      BY LogFacts
    <3>. QED BY <2>1, <2>3, <3>1, Typing DEF Issued
  <2>9. Heard(again, log, lapses) /\ News(again, checkpoint, asOf)
    BY <2>3, <2>5, NothingType DEF Heard, News
  <2>10. Covers(again, checkpoint, log, asOf, Opened)
    <3>1. ListedTo(again) = again.from /\ again.from \in Nat
      BY <2>3, SyncFacts DEF ListedTo
    <3>. QED BY <2>3, <3>1 DEF Covers, Between
  <2>11. SyncGood(again, checkpoint, log, lapses, asOf, Opened)
    BY <2>2, <2>6, <2>7, <2>8, <2>9, <2>10 DEF SyncGood
  <2>. QED BY <1>1, <1>2, <2>2, <2>4, <2>11, MovedKeeps
<1>. QED BY <1>3, <1>4

\* What threads.get and the reader make of a thread Gmail told of.
LEMMA ContentFacts ==
    ASSUME SyncInv, NEW t \in Threads, Known(log, t), NEW answer \in Answers(t)
    PROVE  /\ Content(t, answer) \in Outcomes /\ Content(t, answer).kind # "none"
           /\ Content(t, answer).kind = "missing" =>
                answer = "404" /\ (Gone(log, t, Len(log)) \/ Exists(t))
           /\ Content(t, answer).kind = "found" =>
                /\ ~Gone(log, t, Len(log))
                /\ Content(t, answer).rev = <<"live", Last(log, t, Len(log))>>
<1> DEFINE h == Last(log, t, Len(log))
           k == log[h].kind
           b == IF k = "restyled" THEN parser ELSE 1
<1>1. /\ LastChange(t, Now) = h /\ (Exists(t) <=> Was(log, t, Len(log)))
      /\ Exists(t) <=> ~Gone(log, t, Len(log))
      /\ answer # "404" => Exists(t)
  BY LastChangeIsLast DEF Now, Known, Gone, Was, Answers
<1>2. h \in 1..MaxHistory
  <2>1. Len(log) \in 1..MaxHistory
    BY DEF SyncInv, World, Now
  <2>2. h \in 0..Len(log) /\ h # 0
    BY <2>1, NumberAssumption, LastFacts DEF Known
  <2>. QED BY <2>1, <2>2, NumberAssumption
<1>3. Content(t, answer) = IF answer = "404" THEN Missing
                           ELSE IF k = "broken" /\ parser < MaxParser
                           THEN Broken(ParseFault)
                           ELSE Found(<<"live", h>>, b)
  BY <1>1 DEF Content
<1>. HIDE DEF h
<1>4. <<"live", h>> \in LiveRevisions /\ b \in Bodies
  <2>1. parser \in 1..MaxParser /\ 1 \in 1..MaxParser
    BY SyncAssumption, NumberAssumption DEF SyncInv, World, Parsers
  <2>. QED BY <1>2, <2>1, SyncAssumption DEF LiveRevisions
<1>5. CASE answer = "404"
  BY <1>1, <1>3, <1>5 DEF Outcomes, Missing
<1>6. CASE answer # "404" /\ k = "broken" /\ parser < MaxParser
  BY <1>3, <1>6, SyncAssumption DEF Outcomes, Broken
<1>7. CASE answer # "404" /\ ~(k = "broken" /\ parser < MaxParser)
  <2>1. Content(t, answer) = Found(<<"live", h>>, b)
    BY <1>3, <1>7
  <2>2. Found(<<"live", h>>, b) \in Outcomes
    <3>. HIDE DEF b
    <3>. QED BY <1>4 DEF Outcomes
  <2>3. Found(<<"live", h>>, b).kind = "found" /\ Found(<<"live", h>>, b).rev = <<"live", h>>
    BY DEF Found
  <2>. QED BY <1>1, <1>7, <2>1, <2>2, <2>3 DEF h
<1>. QED BY <1>5, <1>6, <1>7

LEMMA GetThreadKeeps ==
    ASSUME SyncInv, NEW p \in Syncers, GetThread(p)
    PROVE  SyncInv'
<1> DEFINE s == sync[p]
           c == checkpoint
<1>1. /\ s.phase \in {"getting", "retrying"}
      /\ UNCHANGED <<mirrorVars, log, horizon, parser, floor, asOf>>
  BY DEF GetThread
<1>2. PICK t \in s.todo : \E answer \in Answers(t) :
        LET lapse == answer = "404" /\ Exists(t)
        IN /\ lapse => failures < MaxFailures
           /\ failures' = IF lapse THEN failures + 1 ELSE failures
           /\ lapses' = IF lapse THEN lapses \cup {<<t, Now>>} ELSE lapses
           /\ sync' = [sync EXCEPT ![p] =
                  [s EXCEPT !.todo = @ \ {t}, !.got[t] = Content(t, answer),
                            !.asked[t] = Now]]
  BY DEF GetThread
<1>3. PICK answer \in Answers(t) :
        /\ answer = "404" /\ Exists(t) =>
             /\ failures < MaxFailures /\ failures' = failures + 1
             /\ lapses' = lapses \cup {<<t, Now>>}
        /\ ~(answer = "404" /\ Exists(t)) => failures' = failures /\ lapses' = lapses
        /\ sync' = [sync EXCEPT ![p] =
               [s EXCEPT !.todo = @ \ {t}, !.got[t] = Content(t, answer),
                         !.asked[t] = Now]]
  <2>. HIDE DEF s
  <2>. QED BY <1>2
<1> DEFINE o == Content(t, answer)
           n == [s EXCEPT !.todo = @ \ {t}, !.got[t] = Content(t, answer),
                          !.asked[t] = Now]
<1>4. /\ s \in SyncStates /\ Shape(s) /\ Reads(s, c) /\ Issued(s, log)
      /\ Heard(s, log, lapses) /\ News(s, c, asOf) /\ Covers(s, c, log, asOf, Opened)
  BY SyncFacts
<1>5. t \in Threads /\ Known(log, t)
  BY <1>4 DEF SyncStates, Heard
<1>6. /\ o \in Outcomes /\ o.kind # "none"
      /\ o.kind = "missing" => answer = "404" /\ (Gone(log, t, Len(log)) \/ Exists(t))
      /\ o.kind = "found" => /\ ~Gone(log, t, Len(log))
                             /\ o.rev = <<"live", Last(log, t, Len(log))>>
  BY <1>5, ContentFacts
<1>7. /\ Now = Len(log) /\ Now \in Nat /\ Now \in Histories
      /\ failures \in 0..MaxFailures /\ lapses \in SUBSET (Threads \X Histories)
  BY LogFacts DEF SyncInv, World
<1>8. /\ failures' \in 0..MaxFailures /\ lapses \subseteq lapses'
      /\ lapses' \in SUBSET (Threads \X Histories)
      /\ answer = "404" /\ Exists(t) => <<t, Now>> \in lapses'
  BY <1>3, <1>5, <1>7, SyncAssumption
<1>9. /\ s.got \in [Threads -> Outcomes] /\ s.todo \in SUBSET Threads
      /\ s.asked \in [Threads -> Histories]
  BY <1>4 DEF SyncStates
<1>10. /\ n.phase = s.phase /\ n.prev = s.prev /\ n.mode = s.mode /\ n.from = s.from
      /\ n.next = s.next /\ n.token = s.token /\ n.ids = s.ids /\ n.rest = s.rest
      /\ n.todo = s.todo \ {t} /\ n.got = [s.got EXCEPT ![t] = o]
      /\ n.asked = [s.asked EXCEPT ![t] = Now]
  <2>. HIDE DEF s, o
  <2>. QED BY <1>4 DEF SyncStates, o
<1>11. n \in SyncStates
  <2>1. /\ [s.got EXCEPT ![t] = o] \in [Threads -> Outcomes]
        /\ [s.asked EXCEPT ![t] = Now] \in [Threads -> Histories]
        /\ s.todo \ {t} \in SUBSET Threads
    BY <1>5, <1>6, <1>7, <1>9
  <2>2. n = [s EXCEPT !.todo = s.todo \ {t}, !.got = [s.got EXCEPT ![t] = o],
                      !.asked = [s.asked EXCEPT ![t] = Now]]
    OBVIOUS
  <2>. HIDE DEF s, n, o
  <2>. QED BY <1>4, <2>1, <2>2 DEF SyncStates
<1>. HIDE DEF n, o
<1>12. /\ n.got[t] = o /\ n.asked[t] = Now
       /\ \A x \in Threads : x # t => n.got[x] = s.got[x] /\ n.asked[x] = s.asked[x]
  BY <1>5, <1>9, <1>10
<1>13. Shape(n)
  <2>1. s.phase = "getting" =>
          \A x \in n.ids \ n.todo : n.got[x].kind # "none"
    <3>. SUFFICES ASSUME s.phase = "getting", NEW x \in n.ids \ n.todo
                  PROVE  n.got[x].kind # "none"
      OBVIOUS
    <3>1. x \in Threads /\ (x # t => x \in s.ids \ s.todo)
      BY <1>4, <1>10 DEF SyncStates
    <3>. QED BY <1>4, <1>6, <1>12, <3>1 DEF Shape
  <2>. QED BY <1>1, <1>4, <1>10, <2>1 DEF Shape
<1>14. Reads(n, c) /\ Issued(n, log)
  BY <1>4, <1>10 DEF Reads, Issued
<1>15. Heard(n, log, lapses')
  <2>1. \A x \in n.ids \cup n.rest \cup n.todo : Known(log, x)
    BY <1>4, <1>10 DEF Heard
  <2>2. /\ o.kind = "missing" => Gone(log, t, Now) \/ <<t, Now>> \in lapses'
        /\ o.kind = "found" => o.rev[2] = Last(log, t, Now) /\ ~Gone(log, t, Now)
    BY <1>6, <1>7, <1>8
  <2>3. ASSUME NEW x \in Threads, n.got[x].kind # "none"
        PROVE  /\ Known(log, x) /\ n.asked[x] <= Len(log)
               /\ n.got[x].kind = "missing" =>
                    Gone(log, x, n.asked[x]) \/ <<x, n.asked[x]>> \in lapses'
               /\ n.got[x].kind = "found" =>
                    n.got[x].rev[2] = Last(log, x, n.asked[x]) /\ ~Gone(log, x, n.asked[x])
    <3>1. CASE x = t
      BY <1>5, <1>7, <1>12, <2>2, <3>1
    <3>2. CASE x # t
      <4>1. n.got[x] = s.got[x] /\ n.asked[x] = s.asked[x]
        BY <1>12, <3>2
      <4>. QED BY <1>4, <1>8, <2>3, <4>1 DEF Heard
    <3>. QED BY <3>1, <3>2
  <2>. QED BY <2>1, <2>3 DEF Heard
<1>16. News(n, c, asOf)
  <2>1. Vouched(n) = Vouched(s) /\ Vouched(s) <= Len(log)
    BY <1>4, <1>10 DEF Vouched, Issued
  <2>2. Current(n, c) => Current(s, c)
    BY <1>10 DEF Current
  <2>3. asOf[t] <= Len(log)
    BY <1>5 DEF SyncInv, SavedGood, SavedHeard
  <2>. SUFFICES ASSUME NEW x \in Threads, n.got[x].kind # "none"
                PROVE  /\ Vouched(n) <= n.asked[x]
                       /\ Current(n, c) => asOf[x] <= n.asked[x]
    BY DEF News
  <2>4. CASE x = t
    BY <1>7, <1>12, <2>1, <2>3, <2>4
  <2>5. CASE x # t
    BY <1>4, <1>12, <2>1, <2>2, <2>5 DEF News
  <2>. QED BY <2>4, <2>5
<1>17. Covers(n, c, log, asOf, Opened)
  <2>1. Left(n) = Left(s) /\ ListedTo(n) = ListedTo(s)
    BY <1>10 DEF Left, ListedTo
  <2>. QED BY <1>4, <1>10, <2>1 DEF Covers, Current
<1>18. SyncGood(n, c, log, lapses', asOf, Opened)
  BY <1>11, <1>13, <1>14, <1>15, <1>16, <1>17 DEF SyncGood
<1>19. sync' = [sync EXCEPT ![p] = n]
  BY <1>3 DEF n
<1>. HIDE DEF s
<1>. QED BY <1>1, <1>8, <1>11, <1>18, <1>19, MovedKeeps

LEMMA ReadDueMoves ==
    ASSUME SyncInv, NEW p \in Syncers, ReadDue(p)
    PROVE  Moved(p)
<1> DEFINE s == sync[p]
           c == checkpoint
           due == {t \in Threads : IsOpen(t) /\ RetryDue(t, parser)}
<1>1. s.phase = "due"
  BY DEF ReadDue
<1>2. CASE due = {}
  <2>1. Move(p, IdleSync)
    BY <1>2 DEF ReadDue
  <2>2. SyncGood(IdleSync, c, log, lapses, asOf, Opened)
    BY LogFacts, IdleGood
  <2>. QED BY <2>1, <2>2, IdleType DEF Moved
<1>3. CASE due # {}
  <2>1. PICK selected \in Subsets(due, RetryLimit) :
          Move(p, [s EXCEPT !.phase = "retrying", !.todo = selected])
    BY <1>3 DEF ReadDue
  <2> DEFINE n == [s EXCEPT !.phase = "retrying", !.todo = selected]
  <2>2. selected \in SUBSET Threads /\ \A t \in selected : t \in Opened
    BY DEF Subsets, Opened
  <2>3. /\ s \in SyncStates /\ Shape(s) /\ Reads(s, c) /\ Issued(s, log) /\ Heard(s, log, lapses)
        /\ News(s, c, asOf)
    BY SyncFacts
  <2>4. n \in SyncStates
    <3>. HIDE DEF s
    <3>. QED BY <2>2, <2>3 DEF SyncStates
  <2>5. /\ n.phase = "retrying" /\ n.prev = s.prev /\ n.mode = s.mode /\ n.from = s.from
        /\ n.next = s.next /\ n.token = s.token /\ n.ids = s.ids /\ n.rest = s.rest
        /\ n.todo = selected /\ n.got = s.got
    <3>. HIDE DEF s
    <3>. QED BY <2>3 DEF SyncStates
  <2>. HIDE DEF n
  <2>6. Shape(n) /\ Reads(n, c) /\ Issued(n, log)
    BY <1>1, <2>3, <2>5 DEF Shape, Reads, Issued
  <2>7. s.got = Nothing
    BY <1>1, <2>3 DEF Shape
  <2>8. Heard(n, log, lapses)
    <3>1. \A t \in selected : Known(log, t)
      BY <2>2 DEF SyncInv, SavedGood, SavedHeard
    <3>. QED BY <2>3, <2>5, <2>7, <3>1, NothingType DEF Heard
  <2>9. News(n, c, asOf) /\ Covers(n, c, log, asOf, Opened)
    BY <2>5, <2>7, NothingType DEF News, Covers
  <2>10. SyncGood(n, c, log, lapses, asOf, Opened)
    BY <2>4, <2>6, <2>8, <2>9 DEF SyncGood
  <2>. QED BY <2>1, <2>4, <2>10 DEF Moved, n
<1>. QED BY <1>2, <1>3

LEMMA RefusedMoves ==
    ASSUME SyncInv, NEW p \in Syncers, Refused(p)
    PROVE  Moved(p)
BY LogFacts, IdleGood, IdleType DEF Refused, Moved

LEMMA SyncFailsKeeps ==
    ASSUME SyncInv, NEW p \in Syncers, SyncFails(p)
    PROVE  SyncInv'
<1>1. /\ failures' \in 0..MaxFailures /\ lapses' = lapses
      /\ lapses' \in SUBSET (Threads \X Histories)
  BY SyncAssumption DEF SyncInv, World, SyncFails
<1>2. SyncGood(IdleSync, checkpoint, log, lapses, asOf, Opened)
  BY LogFacts, IdleGood
<1>. QED BY <1>1, <1>2, IdleType, MovedKeeps DEF SyncFails

-----------------------------------------------------------------------------
(* Every step *)

\* A unit that is not refused is a step of the store, and its sync was current.
LEMMA CommitFacts ==
    ASSUME SyncInv, MirrorInv, NEW p \in Syncers, NEW retry \in BOOLEAN,
           sync[p].phase \in {"getting", "retrying"}, asOf' = AsOfAfter(sync[p]),
           ApplySyncUnit(UpdateOf(sync[p]), sync[p].got, retry, parser)
    PROVE  /\ Apply /\ MirrorInv' /\ Current(sync[p], checkpoint)
           /\ Saves(checkpoint', checkpoint, sync[p])
           /\ Commits(sync[p].got, sync[p].asked, Shown, Opened, asOf,
                 Shown', Opened', asOf')
           /\ checkpoint' \in Checkpoints /\ checkpoint'.gen = checkpoint.gen + 1
<1> DEFINE s == sync[p]
           u == UpdateOf(s)
<1>1. s \in SyncStates /\ Shape(s) /\ s.got \in [Threads -> Outcomes] /\ parser \in Parsers
  BY SyncFacts DEF SyncStates, SyncInv, World
<1>2. u \in Updates /\ ValidUpdate(u) /\ Marker(u) # 0
  BY <1>1, UpdateGood
<1>3. Apply
  BY <1>1, <1>2 DEF Apply
<1>4. MirrorInv'
  BY <1>3, NextMirrorInv DEF Next
<1>5. checkpoint' \in Checkpoints /\ checkpoint \in Checkpoints
  BY <1>4 DEF MirrorInv, TypeOK
<1>6. PICK n : checkpoint' = CheckpointAfter(u, n)
  BY DEF ApplySyncUnit
<1>7. Saves(checkpoint', checkpoint, s) /\ checkpoint'.gen = checkpoint.gen + 1
  BY <1>5, <1>6 DEF CheckpointAfter, Saves
<1>8. Current(s, checkpoint)
  <2>1. checkpoint.gen = u.expected
    BY DEF ApplySyncUnit, GenerationConflict
  <2>2. u.expected = s.prev.gen
    BY DEF UpdateOf
  <2>. QED BY <2>1, <2>2 DEF Current
<1>9. Commits(s.got, s.asked, Shown, Opened, asOf,
                 Shown', Opened', asOf')
  <2>1. asOf' = [t \in Threads |-> IF Lands(t, s.got[t]) THEN s.asked[t] ELSE asOf[t]]
    BY DEF AsOfAfter
  <2>. HIDE DEF s, u
  <2>. QED BY <1>1, <1>2, <2>1, CommitEffect DEF MirrorInv, s, u
<1>. QED BY <1>3, <1>4, <1>5, <1>7, <1>8, <1>9

\* A unit of syncer p is not refused.
Committed(p) ==
    /\ sync[p].phase \in {"getting", "retrying"} /\ asOf' = AsOfAfter(sync[p])
    /\ UNCHANGED log
    /\ \E retry \in BOOLEAN : ApplySyncUnit(UpdateOf(sync[p]), sync[p].got, retry, parser)

\* After a commit everything is good again, whatever good state the syncer that
\* committed goes on in.
LEMMA CommittedKeeps ==
    ASSUME SyncInv, MirrorInv, NEW p \in Syncers, Committed(p), sync[p].todo = {},
           sync[p].phase = "retrying" => sync[p].mode # "full",
           sync' \in [Syncers -> SyncStates],
           \A q \in Syncers \ {p} : sync'[q] = sync[q],
           SyncGood(sync'[p], checkpoint', log, lapses, asOf', Opened'),
           floor' = IF Complete(sync[p]) /\ sync[p].mode = "full"
                    THEN sync[p].from ELSE floor,
           UNCHANGED <<log, horizon, parser, failures, lapses>>
    PROVE  SyncInv'
<1> DEFINE s == sync[p]
           c == checkpoint
<1>1. /\ Current(s, c) /\ Saves(c', c, s) /\ Commits(s.got, s.asked, Shown, Opened, asOf,
                 Shown', Opened', asOf')
      /\ c' \in Checkpoints /\ c'.gen = c.gen + 1
      /\ s.phase \in {"getting", "retrying"}
  BY CommitFacts DEF Committed
<1>2. /\ SavedGood(c, floor, log, lapses, Shown, asOf, Opened)
      /\ SyncGood(s, c, log, lapses, asOf, Opened)
      /\ log \in Seq(Records)
  BY LogFacts DEF SyncInv
<1>3. /\ c \in Checkpoints /\ floor \in Histories /\ Covered(c, floor, log, asOf, Opened)
      /\ SavedHeard(c, log, lapses, Shown, asOf, Opened) /\ Opened' \in SUBSET Threads
      /\ s.from \in Histories /\ s.mode \in Modes /\ asOf' \in [Threads -> Histories]
  <2>1. s.asked \in [Threads -> Histories] /\ asOf \in [Threads -> Histories]
    BY SyncFacts DEF SyncStates, SyncInv
  <2>2. asOf' \in [Threads -> Histories]
    BY <2>1 DEF Committed, AsOfAfter
  <2>. QED BY <1>2, <2>2, SyncFacts DEF SavedGood, SyncGood, SyncStates, Opened
<1>4. Whole(c') /\ SavedIssued(c', log) /\ SavedHeard(c', log, lapses, Shown', asOf', Opened')
  <2>. HIDE DEF s, c
  <2>. QED BY <1>1, <1>2, <1>3, UnitSaved DEF s, c
<1>5. Covered(c', floor', log, asOf', Opened') /\ SavedCovers(c', log, asOf', Opened')
  <2>1. CASE s.mode = "full"
    <3>1. s.phase = "getting"
      BY <1>1, <2>1
    <3>2. /\ Covered(c', IF Complete(s) THEN s.from ELSE floor, log, asOf', Opened')
          /\ SavedCovers(c', log, asOf', Opened')
      BY <1>1, <1>2, <1>3, <2>1, <3>1, FullUnitCovers
    <3>3. floor' = IF Complete(s) THEN s.from ELSE floor
      BY <2>1
    <3>. QED BY <3>2, <3>3
  <2>2. CASE s.mode # "full"
    <3>1. Covered(c', floor, log, asOf', Opened') /\ SavedCovers(c', log, asOf', Opened')
      BY <1>1, <1>2, <1>3, <2>2, IncrementalUnitCovers
    <3>2. floor' = floor
      BY <2>2
    <3>. QED BY <3>1, <3>2
  <2>. QED BY <2>1, <2>2
<1>6. floor' \in Histories /\ log' = log /\ c' = checkpoint' /\ lapses' = lapses
      /\ asOf' \in [Threads -> Histories]
  BY <1>3
<1>7. SavedGood(checkpoint, floor, log, lapses, Shown, asOf, Opened)'
  BY <1>1, <1>4, <1>5, <1>6 DEF SavedGood
<1>8. World'
  BY DEF SyncInv, World, Now
<1>9. sync' \in [Syncers -> SyncStates]
  OBVIOUS
<1>10. ASSUME NEW q \in Syncers
       PROVE  SyncGood(sync'[q], c', log, lapses, asOf', Opened')
  <2>1. CASE q = p
    BY <2>1
  <2>2. CASE q # p
    <3>1. sync'[q] = sync[q] /\ SyncGood(sync[q], c, log, lapses, asOf, Opened)
      BY <2>2 DEF SyncInv
    <3>. QED BY <1>1, <1>3, <3>1, OvertakenGood
  <2>. QED BY <2>1, <2>2
<1>. QED BY <1>6, <1>7, <1>8, <1>9, <1>10 DEF SyncInv

LEMMA ApplyUnitKeeps ==
    ASSUME SyncInv, MirrorInv, NEW p \in Syncers, ApplyUnit(p)
    PROVE  SyncInv'
<1> DEFINE s == sync[p]
           u == UpdateOf(s)
           n == IF Complete(s)
                THEN [IdleSync EXCEPT !.phase = "due", !.mode = "incremental",
                                      !.prev = checkpoint', !.next = u.hist]
                ELSE IdleSync
<1>1. /\ s.phase = "getting" /\ s.todo = {}
      /\ ApplySyncUnit(u, s.got, FALSE, parser)
      /\ sync' = [sync EXCEPT ![p] = n]
      /\ floor' = IF Complete(s) /\ s.mode = "full" THEN s.from ELSE floor
      /\ UNCHANGED <<log, horizon, parser, failures, lapses>> /\ asOf' = AsOfAfter(s)
  BY DEF ApplyUnit, ReadyToApply
<1>2. /\ Saves(checkpoint', checkpoint, s) /\ checkpoint' \in Checkpoints
      /\ Current(s, checkpoint) /\ Commits(s.got, s.asked, Shown, Opened, asOf,
                 Shown', Opened', asOf')
  BY <1>1, CommitFacts
<1>3. SyncGood(n, checkpoint', log, lapses, asOf', Opened')
  <2>1. CASE ~Complete(s)
    BY <2>1, LogFacts, IdleGood
  <2>2. CASE Complete(s)
    <3>1. /\ s \in SyncStates /\ checkpoint \in Checkpoints
          /\ SyncGood(s, checkpoint, log, lapses, asOf, Opened)
          /\ SavedHeard(checkpoint, log, lapses, Shown, asOf, Opened) /\ Opened' \in SUBSET Threads
      BY SyncFacts DEF SyncInv, SavedGood, Opened
    <3>2. Whole(checkpoint') /\ SavedIssued(checkpoint', log)
      <4>. HIDE DEF s
      <4>. QED BY <1>1, <1>2, <3>1, LogFacts, UnitSaved DEF s
    <3>3. checkpoint'.complete /\ checkpoint'.gen > 0 /\ checkpoint'.hist = u.hist
      BY <1>2, <2>2, <3>1, UnitFields DEF Saves
    <3>4. u.hist # 0 /\ u.hist <= Len(log) /\ u.hist \in Histories
      BY <1>2, <3>2, <3>3 DEF Whole, SavedIssued, Checkpoints
    <3>5. n = [IdleSync EXCEPT !.phase = "due", !.mode = "incremental",
                               !.prev = checkpoint', !.next = u.hist]
      BY <2>2
    <3>. HIDE DEF n, u
    <3>. QED BY <1>2, <3>3, <3>4, <3>5, LogFacts, DueGood
  <2>. QED BY <2>1, <2>2
<1>. HIDE DEF n
<1>4. sync' \in [Syncers -> SyncStates] /\ sync'[p] = n
      /\ \A q \in Syncers \ {p} : sync'[q] = sync[q]
  BY <1>1, <1>3 DEF SyncInv, SyncGood
<1>5. Committed(p)
  BY <1>1 DEF Committed
<1>6. /\ sync[p].todo = {} /\ sync[p].phase = "getting"
      /\ floor' = IF Complete(sync[p]) /\ sync[p].mode = "full"
                  THEN sync[p].from ELSE floor
      /\ UNCHANGED <<log, horizon, parser, failures, lapses>>
  BY <1>1
<1>7. SyncGood(sync'[p], checkpoint', log, lapses, asOf', Opened')
  BY <1>3, <1>4
<1>. HIDE DEF s, u
<1>. QED BY <1>4, <1>5, <1>6, <1>7, CommittedKeeps

LEMMA ApplyRetryKeeps ==
    ASSUME SyncInv, MirrorInv, NEW p \in Syncers, ApplyRetry(p)
    PROVE  SyncInv'
<1>1. /\ sync[p].phase = "retrying" /\ sync[p].todo = {}
      /\ ApplySyncUnit(UpdateOf(sync[p]), sync[p].got, TRUE, parser)
      /\ sync' = [sync EXCEPT ![p] = IdleSync]
      /\ UNCHANGED <<log, horizon, parser, failures, floor, lapses>>
      /\ asOf' = AsOfAfter(sync[p])
  BY DEF ApplyRetry, ReadyToApply
<1>2. sync[p].mode # "full"
  BY <1>1, SyncFacts DEF Shape
<1>3. SyncGood(IdleSync, checkpoint', log, lapses, asOf', Opened')
  BY LogFacts, IdleGood
<1>4. /\ sync' \in [Syncers -> SyncStates] /\ sync'[p] = IdleSync
      /\ \A q \in Syncers \ {p} : sync'[q] = sync[q]
  BY <1>1, IdleType DEF SyncInv
<1>5. Committed(p)
  BY <1>1 DEF Committed
<1>6. floor' = IF Complete(sync[p]) /\ sync[p].mode = "full"
              THEN sync[p].from ELSE floor
  BY <1>1, <1>2
<1>7. SyncGood(sync'[p], checkpoint', log, lapses, asOf', Opened')
  BY <1>3, <1>4
<1>. QED BY <1>1, <1>2, <1>4, <1>5, <1>6, <1>7, CommittedKeeps

\* The mailbox gets records.
LEMMA MailboxKeeps ==
    ASSUME SyncInv, MailboxChanges
    PROVE  SyncInv'
<1>1. PICK r \in Records : log' = Append(log, r)
  BY DEF MailboxChanges
<1>2. /\ Now < MaxHistory
      /\ UNCHANGED <<mirrorVars, horizon, parser, sync, failures, floor, asOf, lapses>>
  BY DEF MailboxChanges
<1>3. log \in Seq(Records) /\ Len(log) \in 1..MaxHistory
  BY DEF SyncInv, World, Now
<1>4. Grows(log, log')
  BY <1>1, <1>3, AppendGrows
<1>5. Shown' = Shown /\ Opened' = Opened
  BY <1>2 DEF mirrorVars, Shown, Opened, IsOpen
<1>6. World'
  <2>1. log' \in Seq(Records) /\ Len(log') = Len(log) + 1
    BY <1>1, <1>3
  <2>2. Len(log') \in 1..MaxHistory
    BY <1>2, <1>3, <2>1, NumberAssumption DEF Now
  <2>. QED BY <1>2, <2>1, <2>2 DEF SyncInv, World, Now
<1>7. SavedGood(checkpoint, floor, log', lapses, Shown, asOf, Opened)
  <2>1. Opened \in SUBSET Threads
        /\ SavedGood(checkpoint, floor, log, lapses, Shown, asOf, Opened)
    BY DEF SyncInv, Opened
  <2>. QED BY <1>3, <1>4, <2>1, SavedGrows
<1>8. \A p \in Syncers : SyncGood(sync[p], checkpoint, log', lapses, asOf, Opened)
  BY <1>3, <1>4, SyncGrows DEF SyncInv
<1>9. /\ checkpoint' = checkpoint /\ floor' = floor /\ sync' = sync
      /\ asOf' = asOf /\ lapses' = lapses
  BY <1>2 DEF mirrorVars
<1>. QED BY <1>5, <1>6, <1>7, <1>8, <1>9 DEF SyncInv

\* Start ids expire, or nothing changes.
LEMMA HorizonKeeps ==
    ASSUME SyncInv, horizon' \in Histories,
           UNCHANGED <<mirrorVars, log, parser, sync, failures, floor, asOf, lapses>>
    PROVE  SyncInv'
<1>1. Shown' = Shown /\ Opened' = Opened
  BY DEF mirrorVars, Shown, Opened, IsOpen
<1>2. World'
  BY DEF SyncInv, World, Now
<1>3. checkpoint' = checkpoint /\ floor' = floor /\ sync' = sync /\ log' = log
      /\ asOf' = asOf /\ lapses' = lapses
  BY DEF mirrorVars
<1>. QED BY <1>1, <1>2, <1>3 DEF SyncInv

LEMMA UpgradeKeeps ==
    ASSUME SyncInv, UpgradeParser
    PROVE  SyncInv'
<1>1. /\ parser < MaxParser /\ parser' = parser + 1
      /\ sync' = [p \in Syncers |-> IdleSync]
      /\ UNCHANGED <<mirrorVars, log, horizon, failures, floor, asOf, lapses>>
  BY DEF UpgradeParser
<1>2. Shown' = Shown /\ Opened' = Opened
  BY <1>1 DEF mirrorVars, Shown, Opened, IsOpen
<1>3. World'
  BY <1>1, NumberAssumption DEF SyncInv, World, Now, Parsers
<1>4. \A p \in Syncers : SyncGood(sync'[p], checkpoint, log, lapses, asOf, Opened)
  BY <1>1, LogFacts, IdleGood
<1>5. sync' \in [Syncers -> SyncStates]
  BY <1>1, IdleType
<1>6. /\ checkpoint' = checkpoint /\ floor' = floor /\ log' = log
      /\ asOf' = asOf /\ lapses' = lapses
  BY <1>1 DEF mirrorVars
<1>. QED BY <1>2, <1>3, <1>4, <1>5, <1>6 DEF SyncInv

LEMMA TickKeeps ==
    ASSUME SyncInv, TypeOK, SyncTick
    PROVE  SyncInv'
<1>1. /\ checkpoint' = checkpoint /\ pointer' = pointer
      /\ quarantine' = [t \in Threads |-> [f \in Faults |->
            [quarantine[t][f] EXCEPT !.next = Minus1(@)]]]
      /\ UNCHANGED <<log, horizon, parser, sync, failures, floor, asOf, lapses>>
  BY DEF SyncTick, Tick
<1>2. Shown' = Shown
  BY <1>1 DEF Shown
<1>3. Opened' = Opened
  <2>1. ASSUME NEW t \in Threads, NEW f \in Faults
        PROVE  quarantine'[t][f].open = quarantine[t][f].open
    <3>1. quarantine[t][f] \in Failures
      BY DEF TypeOK
    <3>2. quarantine'[t][f] = [quarantine[t][f] EXCEPT !.next = Minus1(@)]
      BY <1>1
    <3>. QED BY <3>1, <3>2 DEF Failures
  <2>. QED BY <2>1 DEF Opened, IsOpen, OpenFaults
<1>4. World'
  BY <1>1 DEF SyncInv, World, Now
<1>. QED BY <1>1, <1>2, <1>3, <1>4 DEF SyncInv


-----------------------------------------------------------------------------
(* The induction *)

LEMMA InitSyncInv == SyncInit => SyncInv
<1>. SUFFICES ASSUME SyncInit PROVE SyncInv
  OBVIOUS
<1>1. PICK r \in Records : log = <<r>>
  BY DEF SyncInit
<1>2. /\ checkpoint = NoCheckpoint /\ horizon = 0 /\ parser = 1 /\ failures = 0 /\ floor = 0
      /\ asOf = Never /\ lapses = {}
      /\ sync = [p \in Syncers |-> IdleSync]
      /\ pointer = [t \in Threads |-> [rev |-> NoRevision, seq |-> 0]]
      /\ quarantine = [t \in Threads |-> [f \in Faults |-> NoFailure]]
  BY DEF SyncInit, Init
<1>3. log \in Seq(Records) /\ Len(log) = 1
  BY <1>1
<1>4. World
  BY <1>2, <1>3, SyncAssumption, NumberAssumption
     DEF World, Now, Histories, Parsers
<1>5. Opened = {}
  BY <1>2 DEF Opened, IsOpen, OpenFaults, NoFailure
<1>6. \A t \in Threads : Shown[t] = NoRevision
  BY <1>2 DEF Shown
<1>7. \A t \in Threads : Shown[t] \notin Tombstones /\ Shown[t] \notin LiveRevisions
  BY <1>6, RevisionAssumption DEF Revisions
<1>8. /\ checkpoint.gen = 0 /\ checkpoint.hist = 0 /\ checkpoint.contHist = 0
      /\ checkpoint.baseline = 0 /\ checkpoint.pending = {}
  BY <1>2 DEF NoCheckpoint
<1>9. Covered(checkpoint, floor, log, asOf, Opened)
  <2>1. \A t \in Threads : Last(log, t, 0) = 0
    BY LastFacts
  <2>. QED BY <1>2, <1>8, <2>1 DEF Covered, Was
<1>10. SavedGood(checkpoint, floor, log, lapses, Shown, asOf, Opened)
  <2>1. checkpoint \in Checkpoints /\ floor \in Histories
    BY <1>2, NoCheckpointType, NumberAssumption DEF Histories
  <2>2. SavedHeard(checkpoint, log, lapses, Shown, asOf, Opened)
    <3>1. \A t \in Threads : asOf[t] = 0 /\ 0 \in Histories /\ 0 <= Len(log)
      BY <1>2, <1>3, NumberAssumption DEF Never, Histories
    <3>. QED BY <1>5, <1>7, <1>8, <3>1 DEF SavedHeard
  <2>3. Whole(checkpoint) /\ SavedCovers(checkpoint, log, asOf, Opened)
    BY <1>8 DEF Whole, SavedCovers
  <2>4. SavedIssued(checkpoint, log)
    BY <1>3, <1>8 DEF SavedIssued
  <2>. QED BY <1>9, <2>1, <2>2, <2>3, <2>4 DEF SavedGood
<1>11. \A p \in Syncers : SyncGood(sync[p], checkpoint, log, lapses, asOf, Opened)
  BY <1>2, <1>3, IdleGood
<1>12. asOf \in [Threads -> Histories]
  BY <1>2, NumberAssumption DEF Never, Histories
<1>. QED BY <1>2, <1>4, <1>10, <1>11, <1>12, IdleType DEF SyncInv

\* What a step of a syncer does: the invariant holds on, and the store is left
\* alone unless a unit is committed.
LEMMA SyncerKeeps ==
    ASSUME SyncInv, MirrorInv, NEW p \in Syncers,
           BeginSync(p) \/ SyncStep(p) \/ TokenInvalid(p) \/ SyncFails(p)
    PROVE  SyncInv' /\ (UNCHANGED <<mirrorVars, asOf>> \/ Committed(p))
<1>1. CASE Moved(p)
  <2>1. PICK n \in SyncStates :
          /\ sync' = [sync EXCEPT ![p] = n]
          /\ UNCHANGED <<mirrorVars, log, horizon, parser, failures, floor, asOf, lapses>>
          /\ SyncGood(n, checkpoint, log, lapses, asOf, Opened)
    BY <1>1 DEF Moved, Move
  <2>2. /\ failures' \in 0..MaxFailures /\ lapses' = lapses
        /\ lapses' \in SUBSET (Threads \X Histories)
    BY <2>1 DEF SyncInv, World
  <2>. QED BY <2>1, <2>2, MovedKeeps
<1>2. CASE BeginSync(p)
  BY <1>1, <1>2, BeginMoves
<1>3. CASE ListThreads(p) \/ ListHistory(p) \/ HistoryTooOld(p)
  BY <1>1, <1>3, ListThreadsMoves, ListHistoryMoves, HistoryTooOldMoves
<1>4. CASE ReadDue(p) \/ Refused(p)
  BY <1>1, <1>4, ReadDueMoves, RefusedMoves
<1>5. CASE ApplyUnit(p)
  <2>1. Committed(p)
    BY <1>5 DEF ApplyUnit, Committed
  <2>. QED BY <1>5, <2>1, ApplyUnitKeeps
<1>6. CASE ApplyRetry(p)
  <2>1. Committed(p)
    BY <1>6 DEF ApplyRetry, Committed
  <2>. QED BY <1>6, <2>1, ApplyRetryKeeps
<1>7. CASE TokenInvalid(p)
  BY <1>7, TokenInvalidKeeps DEF TokenInvalid
<1>8. CASE SyncFails(p)
  BY <1>8, SyncFailsKeeps DEF SyncFails
<1>9. CASE GetThread(p)
  BY <1>9, GetThreadKeeps DEF GetThread
<1>. QED BY <1>2, <1>3, <1>4, <1>5, <1>6, <1>7, <1>8, <1>9 DEF SyncStep

\* Every step keeps the invariant, and to the store it is a commit, a tick or
\* nothing.
LEMMA NextKeeps ==
    ASSUME SyncInv, MirrorInv, [SyncNext]_syncVars
    PROVE  /\ SyncInv'
           /\ \/ (UNCHANGED mirrorVars \/ Tick) /\ asOf' = asOf
              \/ \E p \in Syncers : Committed(p)
<1>1. CASE \E p \in Syncers : BeginSync(p) \/ SyncStep(p) \/ TokenInvalid(p) \/ SyncFails(p)
  BY <1>1, SyncerKeeps
<1>2. CASE MailboxChanges
  BY <1>2, MailboxKeeps DEF MailboxChanges
<1>3. CASE HistoryExpires
  <2>1. horizon' \in Histories
    BY <1>3, LogFacts DEF HistoryExpires
  <2>. QED BY <1>3, <2>1, HorizonKeeps DEF HistoryExpires
<1>4. CASE UpgradeParser
  BY <1>4, UpgradeKeeps DEF UpgradeParser
<1>5. CASE SyncTick
  BY <1>5, TickKeeps DEF SyncTick, MirrorInv
<1>6. CASE UNCHANGED syncVars
  <2>1. UNCHANGED <<mirrorVars, log, horizon, parser, sync, failures, floor, asOf,
                   lapses>>
    BY <1>6 DEF syncVars, mirrorVars
  <2>2. horizon' \in Histories
    BY <2>1 DEF SyncInv, World
  <2>. QED BY <2>1, <2>2, HorizonKeeps
<1>. QED BY <1>1, <1>2, <1>3, <1>4, <1>5, <1>6 DEF SyncNext

\* A step of the synchronizer is a step of the store or leaves it alone.
LEMMA NextImplements ==
    ASSUME SyncInv, MirrorInv, [SyncNext]_syncVars
    PROVE  [Next]_mirrorVars
<1>1. CASE UNCHANGED mirrorVars \/ Tick
  BY <1>1 DEF Next
<1>2. ASSUME NEW p \in Syncers, Committed(p)
      PROVE  Apply
  BY <1>2, CommitFacts DEF Committed
<1>. QED BY <1>1, <1>2, NextKeeps DEF Next

\* The invariant of the store and of the synchronizer hold in every state.
THEOREM SyncInvariant == SyncSpec => [](MirrorInv /\ SyncInv)
<1>1. SyncInit => MirrorInv /\ SyncInv
  BY InitSyncInv, InitMirrorInv DEF SyncInit
<1>2. (MirrorInv /\ SyncInv) /\ [SyncNext]_syncVars => (MirrorInv /\ SyncInv)'
  BY NextKeeps, NextImplements, NextMirrorInv
<1>. QED BY <1>1, <1>2, PTL DEF SyncSpec

-----------------------------------------------------------------------------
(* What the synchronizer promises *)

\* GmailMirrorSynchronizer only ever does to gmail_mirror.sqlite what the store
\* allows any caller: its units are valid and have a marker.  So the theorems on
\* GmailMirror hold of the synchronized mirror.
THEOREM SyncImplementsStore == SyncSpec => Spec
<1>1. SyncInit => Init
  BY DEF SyncInit
<1>2. (MirrorInv /\ SyncInv) /\ [SyncNext]_syncVars => [Next]_mirrorVars
  BY NextImplements
<1>. QED BY <1>1, <1>2, SyncInvariant, PTL DEF SyncSpec, Spec

\* SyncTypeOK: the locals of sync() keep their types, and the threads still to
\* be got are always among those listed.
THEOREM SyncTypeCorrect == SyncSpec => []SyncTypeOK
<1>1. MirrorInv /\ SyncInv => SyncTypeOK
  <2>. SUFFICES ASSUME MirrorInv, SyncInv PROVE SyncTypeOK
    OBVIOUS
  <2>1. TypeOK /\ World /\ floor \in Histories /\ asOf \in [Threads -> Histories]
    BY DEF MirrorInv, SyncInv, SavedGood
  <2>2. ASSUME NEW p \in Syncers
        PROVE  LET s == sync[p]
               IN /\ s.phase \in {"idle", "listing", "getting", "due", "retrying"}
                  /\ s.prev \in Checkpoints /\ s.mode \in Modes /\ s.token \in Tokens
                  /\ {s.from, s.next} \subseteq Histories /\ s.pages \in 0..MaxPages
                  /\ s.todo \subseteq s.ids
                        \cup (IF s.phase = "retrying" THEN Threads ELSE {})
                  /\ s.rest \subseteq Threads \ s.ids
                  /\ s.got \in [Threads -> Outcomes]
                  /\ s.asked \in [Threads -> Histories]
    <3> DEFINE s == sync[p]
    <3>1. s \in SyncStates /\ Shape(s)
      BY SyncFacts
    <3>2. s.phase = "idle" => s.todo = {} /\ s.rest = {}
      <4>1. IdleSync.todo = {} /\ IdleSync.rest = {}
        BY DEF IdleSync
      <4>. QED BY <3>1, <4>1 DEF Shape
    <3>. HIDE DEF s
    <3>3. s.todo \subseteq s.ids \cup (IF s.phase = "retrying" THEN Threads ELSE {})
      BY <3>1, <3>2 DEF SyncStates, Shape
    <3>4. s.rest \subseteq Threads \ s.ids
      BY <3>1, <3>2 DEF SyncStates, Shape
    <3>. QED BY <3>1, <3>3, <3>4 DEF SyncStates, s
  <2>. QED BY <2>1, <2>2 DEF World, SyncTypeOK
<1>. QED BY <1>1, SyncInvariant, PTL

\* NoLostChange: once sync() has saved a complete checkpoint, the mirror shows
\* every change up to its history id, or keeps the thread in quarantine,
\* whichever pages, tokens, restarts and rival syncers it took to get there.
THEOREM NoChangeIsLost == SyncSpec => []NoLostChange
<1>1. SyncInv => NoLostChange
  <2>. SUFFICES ASSUME SyncInv, NEW t \in Threads,
                       LET h == LastChange(t, checkpoint.hist)
                       IN h > floor
                          \/ (h # 0 /\ t \notin Unlisted /\ log[h].kind # "deleted")
                PROVE  ShowsSince(t, LastChange(t, checkpoint.hist))
    BY DEF NoLostChange
  <2> DEFINE h == Last(log, t, checkpoint.hist)
             P == pointer[t].rev
  <2>1. LastChange(t, checkpoint.hist) = h /\ Now = Len(log) /\ Len(log) \in Nat
    BY LastChangeIsLast, LogFacts DEF Now
  <2>2. /\ Covered(checkpoint, floor, log, asOf, Opened)
        /\ SavedHeard(checkpoint, log, lapses, Shown, asOf, Opened)
        /\ checkpoint.hist \in Nat /\ checkpoint.hist <= Len(log)
        /\ floor \in Nat /\ asOf[t] \in Nat /\ asOf[t] <= Len(log)
    <3>1. /\ Covered(checkpoint, floor, log, asOf, Opened)
          /\ SavedHeard(checkpoint, log, lapses, Shown, asOf, Opened)
          /\ checkpoint.hist \in Histories /\ checkpoint.hist <= Len(log)
          /\ floor \in Histories
      BY DEF SyncInv, SavedGood, SavedIssued, Checkpoints
    <3>2. asOf[t] \in Histories /\ asOf[t] <= Len(log)
      BY <3>1 DEF SavedHeard
    <3>. QED BY <3>1, <3>2, Typing
  <2>3. /\ h \in 0..checkpoint.hist /\ (h # 0 => t \in log[h].threads)
        /\ \A g \in 1..asOf[t] : t \in log[g].threads => g <= Last(log, t, asOf[t])
    BY <2>2, LastFacts
  <2>4. h # 0
    BY <2>1, <2>2, <2>3
  <2>5. Settled(asOf, Opened, t, h) \/ DeletedAfter(log, t, checkpoint.hist)
    BY <2>1, <2>2, <2>4 DEF Covered, Was
  <2>6. /\ t \in Opened => IsOpen(t)
        /\ asOf[t] # 0 => P \in Tombstones \cup LiveRevisions
        /\ P \in LiveRevisions => P[2] = Last(log, t, asOf[t])
    BY <2>2 DEF SavedHeard, Shown, Opened
  <2>. HIDE DEF h
  <2>7. CASE t \in Opened
    BY <2>1, <2>6, <2>7 DEF ShowsSince
  <2>8. CASE DeletedAfter(log, t, checkpoint.hist)
    BY <2>1, <2>8 DEF ShowsSince, DeletedAfter
  <2>9. CASE h <= asOf[t]
    <3>1. h \in 1..asOf[t] /\ asOf[t] # 0
      BY <2>2, <2>3, <2>4, <2>9
    <3>2. h <= Last(log, t, asOf[t])
      BY <2>3, <2>4, <3>1
    <3>. QED BY <2>1, <2>6, <2>9, <3>1, <3>2 DEF ShowsSince
  <2>. QED BY <2>5, <2>7, <2>8, <2>9 DEF Settled
<1>. QED BY <1>1, SyncInvariant, PTL

\* ShownWasAnswered: whichever answers come late, twice or wrong, the mirror shows
\* one that Gmail gave: the content of the revision the thread was at when it was
\* asked for, stored and readable, or a tombstone for a 404, which Gmail answered
\* because the thread was deleted by then, or in a lapse.
THEOREM MirrorShowsAnswers == SyncSpec => []ShownWasAnswered
<1>1. MirrorInv /\ SyncInv => ShownWasAnswered
  <2>. SUFFICES ASSUME MirrorInv, SyncInv PROVE ShownWasAnswered
    OBVIOUS
  <2>1. PointerStored
    BY DEF MirrorInv
  <2>2. SavedHeard(checkpoint, log, lapses, Shown, asOf, Opened)
    BY DEF SyncInv, SavedGood
  <2>3. \A t \in Threads : /\ Shown[t] = pointer[t].rev
                           /\ LastChange(t, asOf[t]) = Last(log, t, asOf[t])
                           /\ DeletedBy(t, asOf[t]) <=> Gone(log, t, asOf[t])
    BY LastChangeIsLast DEF Shown
  <2>. QED BY <2>1, <2>2, <2>3 DEF SavedHeard, ShownWasAnswered
<1>. QED BY <1>1, SyncInvariant, PTL

\* Resumable: sync() can go on from every checkpoint it saves, and no unit it
\* builds is refused by validated(), which no retry would get past.
THEOREM EverySyncResumes == SyncSpec => []Resumable
<1>1. SyncInv => Resumable
  <2>. SUFFICES ASSUME SyncInv PROVE Resumable
    OBVIOUS
  <2>1. Whole(checkpoint)
    BY DEF SyncInv, SavedGood
  <2>2. \A p \in Syncers : ReadyToApply(p) =>
          ValidUpdate(UpdateOf(sync[p])) /\ Marker(UpdateOf(sync[p])) # 0
    BY SyncFacts, UpdateGood DEF ReadyToApply
  <2>. QED BY <2>1, <2>2 DEF Whole, Resumable
<1>. QED BY <1>1, SyncInvariant, PTL

\* The step that MirrorNeverRegresses allows.
Advances ==
    \A t \in Threads :
        /\ asOf[t] <= asOf'[t]
        /\ pointer[t].rev \in LiveRevisions /\ pointer'[t].rev \in LiveRevisions
              => pointer[t].rev[2] <= pointer'[t].rev[2]

LEMMA NextAdvances ==
    ASSUME SyncInv, MirrorInv, [SyncNext]_syncVars
    PROVE  Advances
<1>1. \A t \in Threads : asOf[t] \in Nat /\ asOf'[t] \in Nat
  BY NextKeeps, Typing DEF SyncInv
<1>2. CASE (UNCHANGED mirrorVars \/ Tick) /\ asOf' = asOf
  <2>1. pointer' = pointer
    BY <1>2 DEF mirrorVars, Tick
  <2>2. \A r \in LiveRevisions : r[2] \in Nat
    BY NumberAssumption DEF LiveRevisions
  <2>. QED BY <1>1, <1>2, <2>1, <2>2 DEF Advances
<1>3. ASSUME NEW p \in Syncers, Committed(p)
      PROVE  Advances
  <2> DEFINE s == sync[p]
  <2>1. /\ Current(s, checkpoint) /\ log' = log
        /\ Commits(s.got, s.asked, Shown, Opened, asOf, Shown', Opened', asOf')
    BY <1>3, CommitFacts DEF Committed
  <2>2. News(s, checkpoint, asOf) /\ s.got \in [Threads -> Outcomes]
    BY SyncFacts DEF SyncStates
  <2>3. /\ SavedHeard(checkpoint, log, lapses, Shown, asOf, Opened)
        /\ SavedHeard(checkpoint, log, lapses, Shown, asOf, Opened)'
    BY NextKeeps DEF SyncInv, SavedGood
  <2>. HIDE DEF s
  <2>. SUFFICES ASSUME NEW t \in Threads
                PROVE  /\ asOf[t] <= asOf'[t]
                       /\ Shown[t] \in LiveRevisions /\ Shown'[t] \in LiveRevisions
                             => Shown[t][2] <= Shown'[t][2]
    BY DEF Advances, Shown
  <2>4. s.got[t].kind \in {"none", "missing", "found", "broken"}
    BY <2>2 DEF Outcomes, NotFetched, Missing, Found, Broken
  <2>5. asOf'[t] = asOf[t] \/ (asOf'[t] = s.asked[t] /\ s.got[t].kind # "none")
    BY <2>1, <2>4 DEF Commits
  <2>6. asOf[t] <= asOf'[t]
    BY <1>1, <2>1, <2>2, <2>5 DEF News
  <2>7. Last(log, t, asOf[t]) <= Last(log, t, asOf'[t])
    BY <1>1, <2>6, LastMonotone
  <2>8. /\ Shown[t] \in LiveRevisions => Shown[t][2] = Last(log, t, asOf[t])
        /\ Shown'[t] \in LiveRevisions => Shown'[t][2] = Last(log, t, asOf'[t])
    BY <2>1, <2>3 DEF SavedHeard
  <2>. QED BY <2>6, <2>7, <2>8
<1>. QED BY <1>2, <1>3, NextKeeps

\* MirrorNeverRegresses: although two processes may sync at once, no answer of
\* threads.get, be it a 404 or the thread, is committed over a newer one: neither
\* an old revision over a new one, nor a 404 over the thread restored since.
THEOREM MirrorIsMonotone == SyncSpec => MirrorNeverRegresses
<1>1. (MirrorInv /\ SyncInv) /\ [SyncNext]_syncVars => [Advances]_syncVars
  BY NextAdvances
<1>. QED BY <1>1, SyncInvariant, PTL DEF SyncSpec, MirrorNeverRegresses, Advances

=============================================================================
