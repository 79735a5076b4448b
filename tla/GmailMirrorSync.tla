--------------------------- MODULE GmailMirrorSync ---------------------------
(***************************************************************************)
(* The mailbox side of the mirror: GmailMirrorSynchronizer.sync            *)
(* (gmail_sync.py) reading Gmail through GmailThreadReader                 *)
(* (google_sources.py) and committing to the store of GmailMirror.         *)
(*                                                                         *)
(* A sync reads the checkpoint, lists changed threads page by page, gets   *)
(* them one by one, commits a sync unit, and, when that unit was complete, *)
(* retries quarantined threads in a second unit.  Syncs of one process are *)
(* serialized by a lock; Syncers are the processes that may sync (the      *)
(* daemon's scheduled job and a manual run), kept apart only by the        *)
(* generation check of the checkpoint.                                     *)
(*                                                                         *)
(* Gmail is external, and modelled from what the reader asks of it: a log  *)
(* of history records, a horizon before which history ids are refused, and *)
(* opaque page tokens.  While a sync is under way the mailbox changes, the *)
(* horizon moves, tokens expire, calls fail and the process dies.  A thread*)
(* that was deleted may be restored, and threads.get may answer 404 for a  *)
(* thread that is there (_enqueue_revision: "a transient 404 or restore"). *)
(*                                                                         *)
(* asOf and lapses are history variables: what Gmail answered when.  The   *)
(* properties read them, no guard does.                                    *)
(***************************************************************************)
EXTENDS GmailMirror, Sequences

CONSTANTS
    Syncers,
    Kinds,         \* record kinds: subset of {"plain", "restyled", "broken", "deleted"}
    Unlisted,      \* threads the full-sync query does not match
    ParseFault,    \* fingerprint of a sanitize or normalize failure
    PageSize,      \* page_size, history_page_size
    MaxPages,      \* max_pages
    MaxThreads,    \* max_threads
    RetryLimit,    \* threads of one quarantine retry
    MaxFailures,   \* bound: failed calls, dead processes, invalid tokens
                   \* and transient 404s
    CatchUp        \* units in which a quiet mailbox is mirrored

ASSUME SyncAssumption ==
    /\ Kinds \subseteq {"plain", "restyled", "broken", "deleted"}
    /\ Unlisted \subseteq Threads
    /\ ParseFault \in Faults
    /\ MaxRevision = MaxHistory /\ Bodies = 1..MaxParser
    /\ MaxHistory > 0 /\ MaxParser > 0 /\ MaxFailures \in Nat
    /\ {PageSize, MaxPages, MaxThreads, RetryLimit} \subseteq Nat \ {0}
    \* A history token names the next record, a listing token what is left.
    /\ Tokens = [pos : Histories, rest : SUBSET Threads]
    /\ NoToken = [pos |-> 0, rest |-> {}]

VARIABLES
    log,        \* Gmail: the history records; record n has history id n
    horizon,    \* Gmail: start ids below it are answered 404
    parser,     \* GMAIL_THREAD_PARSER_VERSION in force
    sync,       \* each syncer's sync in progress
    failures,   \* how much of MaxFailures is used
    floor,      \* history: baseline of the last full traversal that completed
    asOf,       \* history: when Gmail gave the answer the mirror shows (0: none)
    lapses      \* history: <<t, n>> if Gmail answered 404 for t, which was there

syncVars == <<checkpoint, stored, pointer, queue, quarantine, log, horizon,
              parser, sync, failures, floor, asOf, lapses>>

-----------------------------------------------------------------------------
(* Gmail *)

Now == Len(log)

\* The id of the last record about t, no later than n; 0 if there is none.
LastChange(t, n) ==
    LET about == {h \in 1..n : t \in log[h].threads}
    IN IF about = {} THEN 0 ELSE CHOOSE h \in about : \A g \in about : g <= h

DeletedBy(t, n) == LastChange(t, n) # 0 /\ log[LastChange(t, n)].kind = "deleted"

Exists(t) == LastChange(t, Now) # 0 /\ ~DeletedBy(t, Now)

Records == [threads : (SUBSET Threads) \ {{}}, kind : Kinds]

\* New mail, label changes, deletions of what is there, restores of what is not.
MailboxChanges ==
    /\ Now < MaxHistory
    /\ \E r \in Records : /\ r.kind = "deleted" => \A t \in r.threads : Exists(t)
                          /\ log' = Append(log, r)
    /\ UNCHANGED <<mirrorVars, horizon, parser, sync, failures, floor, asOf, lapses>>

HistoryExpires ==
    /\ horizon < Now
    /\ horizon' = Now
    /\ UNCHANGED <<mirrorVars, log, parser, sync, failures, floor, asOf, lapses>>

\* threads.get: the thread, or 404: always for one that is not there, and at
\* times for one that is.
Answers(t) == IF Exists(t) THEN {"thread", "404"} ELSE {"404"}

\* Mutant of Content: a thread that cannot be read counts as gone.
ContentOrGone(t, answer) ==
    LET h == LastChange(t, Now)
    IN IF answer = "404" \/ (log[h].kind = "broken" /\ parser < MaxParser) THEN Missing
       ELSE Found(<<"live", h>>, 1)

\* What the reader makes of the answer: a thread's revision is its history id; a
\* "broken" thread fails until the last parser version, a "restyled" one
\* normalizes differently under every version.
Content(t, answer) ==
    LET h == LastChange(t, Now)
        kind == log[h].kind
    IN IF answer = "404" THEN Missing
       ELSE IF kind = "broken" /\ parser < MaxParser THEN Broken(ParseFault)
       ELSE Found(<<"live", h>>, IF kind = "restyled" THEN parser ELSE 1)

-----------------------------------------------------------------------------
(* A sync *)

Nothing == [t \in Threads |-> NotFetched]
Never == [t \in Threads |-> 0]

IdleSync == [phase |-> "idle", prev |-> NoCheckpoint, mode |-> "full", reset |-> FALSE,
             from |-> 0, next |-> 0, token |-> NoToken, restarted |-> FALSE,
             pages |-> 0, ids |-> {}, rest |-> {}, todo |-> {}, got |-> Nothing,
             asked |-> Never]

SyncInit ==
    /\ Init
    /\ \E r \in Records : r.kind # "deleted" /\ log = <<r>>
    /\ horizon = 0 /\ parser = 1
    /\ sync = [p \in Syncers |-> IdleSync]
    /\ failures = 0 /\ floor = 0 /\ asOf = Never /\ lapses = {}

Move(p, s) == /\ sync' = [sync EXCEPT ![p] = s]
              /\ UNCHANGED <<mirrorVars, log, horizon, parser, failures, floor,
                             asOf, lapses>>

Subsets(S, n) == {x \in SUBSET S :
                    Cardinality(x) = IF Cardinality(S) < n THEN Cardinality(S) ELSE n}

\* threads.list from the start, with the profile's history id as baseline.
FullListing(s, reset) ==
    [s EXCEPT !.phase = "listing", !.mode = "full", !.reset = reset,
              !.from = Now, !.token = NoToken, !.pages = 0, !.ids = {}]

\* sync() up to the first call: a full scan that was cut short is resumed from
\* its token and baseline, anything else goes on from the saved history id, the
\* threads still pending first.
BeginSync(p) ==
    LET fresh == [IdleSync EXCEPT !.phase = "listing", !.prev = checkpoint]
        resumeFull == ~checkpoint.complete /\ checkpoint.mode = "full"
    IN /\ sync[p].phase = "idle"
       /\ IF checkpoint.gen = 0
          THEN Move(p, FullListing(fresh, FALSE))
          ELSE IF resumeFull
          THEN Move(p, [fresh EXCEPT !.from = checkpoint.baseline,
                                     !.token = checkpoint.token])
          ELSE IF checkpoint.pending = {}
          THEN Move(p, [fresh EXCEPT !.mode = "incremental",
                            !.from = checkpoint.hist,
                            !.next = checkpoint.contHist,
                            !.token = checkpoint.token])
          ELSE \E selected \in Subsets(checkpoint.pending, MaxThreads) :
                 Move(p, [fresh EXCEPT !.phase = "getting", !.mode = "incremental",
                            !.from = checkpoint.hist,
                            !.next = checkpoint.contHist,
                            !.token = checkpoint.token,
                            !.ids = selected, !.todo = selected,
                            !.rest = checkpoint.pending \ selected])

\* The listing loop stops without a token, or at the bound on threads or pages.
Listed(s) == s.token = NoToken \/ Cardinality(s.ids) >= MaxThreads
             \/ s.pages >= MaxPages

\* Mutant of AfterPage: the threads got now stay pending with the others.
AfterPageKeeping(p, s) ==
    IF ~Listed(s) THEN Move(p, s)
    ELSE \E selected \in Subsets(s.ids, MaxThreads) :
           Move(p, [s EXCEPT !.phase = "getting", !.ids = selected,
                             !.todo = selected, !.rest = s.ids])

\* One page more; when it was the last, the first MaxThreads threads are got
\* now and the others stay pending.
AfterPage(p, s) ==
    IF ~Listed(s) THEN Move(p, s)
    ELSE \E selected \in Subsets(s.ids, MaxThreads) :
           Move(p, [s EXCEPT !.phase = "getting", !.ids = selected,
                             !.todo = selected, !.rest = s.ids \ selected])

Requested(s) == IF MaxThreads - Cardinality(s.ids) < PageSize
                THEN MaxThreads - Cardinality(s.ids) ELSE PageSize

ListThreads(p) ==
    LET s == sync[p]
        left == IF s.token = NoToken THEN Threads \ Unlisted ELSE s.token.rest
        matching == {t \in left : Exists(t)}
    IN /\ s.phase = "listing" /\ s.mode = "full"
       /\ \E page \in Subsets(matching, Requested(s)) :
            AfterPage(p, [s EXCEPT !.ids = @ \cup page, !.pages = @ + 1,
                            !.token = [pos |-> 0, rest |-> matching \ page]])

ListHistory(p) ==
    LET s == sync[p]
        first == IF s.token = NoToken THEN s.from + 1 ELSE s.token.pos
        last == IF first + Requested(s) - 1 < Now THEN first + Requested(s) - 1
                ELSE Now
    IN /\ s.phase = "listing" /\ s.mode = "incremental"
       /\ s.from >= horizon
       /\ AfterPage(p, [s EXCEPT
              !.ids = @ \cup UNION {log[h].threads : h \in first..last},
              !.pages = @ + 1, !.next = Now,
              !.token = [pos |-> IF last < Now THEN last + 1 ELSE 0, rest |-> {}]])

\* 404 on the start id: a new full scan, which may not start over again.
HistoryTooOld(p) ==
    LET s == sync[p]
    IN /\ s.phase = "listing" /\ s.mode = "incremental"
       /\ s.from < horizon
       /\ Move(p, [FullListing(s, TRUE) EXCEPT !.restarted = TRUE])

\* 400 on a page token: a history listing is replayed from its start id, a full
\* scan starts over with a new baseline; a second time the sync fails.
TokenInvalid(p) ==
    LET s == sync[p]
    IN /\ s.phase = "listing" /\ s.token # NoToken /\ ~s.restarted
       /\ failures < MaxFailures
       /\ failures' = failures + 1
       /\ sync' = [sync EXCEPT ![p] =
              IF s.mode = "full"
              THEN [FullListing(s, TRUE) EXCEPT !.restarted = TRUE]
              ELSE [s EXCEPT !.token = NoToken, !.next = 0, !.pages = 0,
                             !.ids = {}, !.restarted = TRUE]]
       /\ UNCHANGED <<mirrorVars, log, horizon, parser, floor, asOf, lapses>>

\* One threads.get, and when it was answered.
GetThread(p) ==
    LET s == sync[p]
    IN /\ s.phase \in {"getting", "retrying"}
       /\ \E t \in s.todo : \E answer \in Answers(t) :
            LET lapse == answer = "404" /\ Exists(t)
            IN /\ lapse => failures < MaxFailures
               /\ failures' = IF lapse THEN failures + 1 ELSE failures
               /\ lapses' = IF lapse THEN lapses \cup {<<t, Now>>} ELSE lapses
               /\ sync' = [sync EXCEPT ![p] =
                      [s EXCEPT !.todo = @ \ {t}, !.got[t] = Content(t, answer),
                                !.asked[t] = Now]]
       /\ UNCHANGED <<mirrorVars, log, horizon, parser, floor, asOf>>

Complete(s) == s.rest = {} /\ s.token = NoToken

\* Mutant of UpdateOf: a partial history listing already saves the new id.
UpdateAdvancing(s) ==
    LET full == s.mode = "full"
        done == Complete(s)
    IN [expected |-> s.prev.gen, mode |-> s.mode, complete |-> done,
        hist |-> IF full THEN IF done THEN s.from ELSE 0 ELSE s.next,
        reset |-> ~done /\ (s.reset \/ s.prev.reset),
        token |-> s.token,
        baseline |-> IF ~done /\ full THEN s.from ELSE 0,
        pending |-> s.rest,
        contHist |-> IF done \/ full THEN 0 ELSE s.next]

\* Mutant of UpdateOf: a partial full scan does not save its baseline.
UpdateWithoutBaseline(s) ==
    LET full == s.mode = "full"
        done == Complete(s)
    IN [expected |-> s.prev.gen, mode |-> s.mode, complete |-> done,
        hist |-> IF done THEN IF full THEN s.from ELSE s.next
                 ELSE IF full THEN s.from ELSE s.prev.hist,
        reset |-> ~done /\ (s.reset \/ s.prev.reset),
        token |-> s.token, baseline |-> 0, pending |-> s.rest,
        contHist |-> IF done \/ full THEN 0 ELSE s.next]

\* from_fetch_result.
UpdateOf(s) ==
    LET full == s.mode = "full"
        done == Complete(s)
    IN [expected |-> s.prev.gen, mode |-> s.mode, complete |-> done,
        hist |-> IF done THEN IF full THEN s.from ELSE s.next
                 ELSE IF full THEN 0 ELSE s.prev.hist,
        reset |-> ~done /\ (s.reset \/ s.prev.reset),
        token |-> s.token,
        baseline |-> IF ~done /\ full THEN s.from ELSE 0,
        pending |-> s.rest,
        contHist |-> IF done \/ full THEN 0 ELSE s.next]

\* A commit makes the mirror show what was answered when it was asked.
AsOfAfter(s) == [t \in Threads |-> IF Lands(t, s.got[t]) THEN s.asked[t] ELSE asOf[t]]

ReadyToApply(p) == sync[p].phase \in {"getting", "retrying"} /\ sync[p].todo = {}

\* The unit of the listing; a complete one goes on to the quarantine.
ApplyUnit(p) ==
    LET s == sync[p]
        u == UpdateOf(s)
    IN /\ s.phase = "getting" /\ ReadyToApply(p)
       /\ ApplySyncUnit(u, s.got, FALSE, parser)
       /\ sync' = [sync EXCEPT ![p] =
              IF Complete(s)
              THEN [IdleSync EXCEPT !.phase = "due", !.mode = "incremental",
                                    !.prev = checkpoint', !.next = u.hist]
              ELSE IdleSync]
       /\ floor' = IF Complete(s) /\ s.mode = "full" THEN s.from ELSE floor
       /\ asOf' = AsOfAfter(s)
       /\ UNCHANGED <<log, horizon, parser, failures, lapses>>

\* list_due_quarantine_retries, at most RetryLimit threads.
ReadDue(p) ==
    LET s == sync[p]
        due == {t \in Threads : IsOpen(t) /\ RetryDue(t, parser)}
    IN /\ s.phase = "due"
       /\ IF due = {} THEN Move(p, IdleSync)
          ELSE \E selected \in Subsets(due, RetryLimit) :
                 Move(p, [s EXCEPT !.phase = "retrying", !.todo = selected])

\* The unit of the retry, at the history id of the unit before.
ApplyRetry(p) ==
    LET s == sync[p]
    IN /\ s.phase = "retrying" /\ ReadyToApply(p)
       /\ ApplySyncUnit(UpdateOf(s), s.got, TRUE, parser)
       /\ sync' = [sync EXCEPT ![p] = IdleSync]
       /\ asOf' = AsOfAfter(s)
       /\ UNCHANGED <<log, horizon, parser, failures, floor, lapses>>

\* GmailMirrorGenerationConflict: the sync ends, its unit is dropped.
Refused(p) ==
    /\ ReadyToApply(p) /\ GenerationConflict(UpdateOf(sync[p]))
    /\ Move(p, IdleSync)

\* A call fails (API, transport, budget, a second invalid token), or the process
\* dies: what the sync has not committed is lost.
SyncFails(p) ==
    /\ sync[p].phase # "idle" /\ failures < MaxFailures
    /\ failures' = failures + 1
    /\ sync' = [sync EXCEPT ![p] = IdleSync]
    /\ UNCHANGED <<mirrorVars, log, horizon, parser, floor, asOf, lapses>>

\* A release with a new parser: the processes restart.
UpgradeParser ==
    /\ parser < MaxParser
    /\ parser' = parser + 1
    /\ sync' = [p \in Syncers |-> IdleSync]
    /\ UNCHANGED <<mirrorVars, log, horizon, failures, floor, asOf, lapses>>

SyncTick == Tick /\ UNCHANGED <<log, horizon, parser, sync, failures, floor, asOf, lapses>>

SyncStep(p) == ListThreads(p) \/ ListHistory(p) \/ HistoryTooOld(p) \/ GetThread(p)
               \/ ApplyUnit(p) \/ ReadDue(p) \/ ApplyRetry(p) \/ Refused(p)

SyncNext ==
    \/ \E p \in Syncers : BeginSync(p) \/ SyncStep(p) \/ TokenInvalid(p) \/ SyncFails(p)
    \/ MailboxChanges \/ HistoryExpires \/ UpgradeParser \/ SyncTick

SyncSpec == SyncInit /\ [][SyncNext]_syncVars

\* The daemon polls on, and a sync that started goes on.  No fairness on time:
\* a new parser version makes a failure due without it.
FairSyncSpec == SyncSpec /\ \A p \in Syncers : /\ WF_syncVars(BeginSync(p))
                                              /\ WF_syncVars(SyncStep(p))

-----------------------------------------------------------------------------
(* Properties *)

SyncTypeOK ==
    /\ TypeOK
    /\ log \in Seq(Records) /\ horizon \in Histories /\ floor \in Histories
    /\ parser \in Parsers /\ failures \in 0..MaxFailures
    /\ asOf \in [Threads -> Histories] /\ lapses \subseteq Threads \X Histories
    /\ \A p \in Syncers :
         LET s == sync[p]
         IN /\ s.phase \in {"idle", "listing", "getting", "due", "retrying"}
            /\ s.prev \in Checkpoints /\ s.mode \in Modes /\ s.token \in Tokens
            /\ {s.from, s.next} \subseteq Histories /\ s.pages \in 0..MaxPages
            /\ s.todo \subseteq s.ids \cup (IF s.phase = "retrying" THEN Threads ELSE {})
            /\ s.rest \subseteq Threads \ s.ids
            /\ s.got \in [Threads -> Outcomes] /\ s.asked \in [Threads -> Histories]

\* The mirror shows thread t as it was at record h or later: its content, a 404
\* Gmail answered since, or an open failure that keeps it in the backlog; or t
\* was deleted since, and the record that says so is still to be listed.
ShowsSince(t, h) ==
    \/ IsOpen(t)
    \/ \E g \in (checkpoint.hist + 1)..Now : t \in log[g].threads /\ log[g].kind = "deleted"
    \/ pointer[t].rev \in Tombstones /\ h <= asOf[t]
    \/ pointer[t].rev \in LiveRevisions /\ h <= pointer[t].rev[2]

\* A complete checkpoint loses no change.  Whatever pages, page tokens, restarts
\* and other syncers it took: every record up to its history id is in the
\* mirror.  Excepted is only what Gmail no longer tells: records before the
\* last full traversal about threads deleted or outside its query.
NoLostChange ==
    checkpoint.complete =>
        \A t \in Threads :
            LET h == LastChange(t, checkpoint.hist)
            IN h > floor \/ (h # 0 /\ t \notin Unlisted /\ log[h].kind # "deleted")
                 => ShowsSince(t, h)

\* The mirror shows an answer of Gmail, and the one it says: a current revision is
\* what the thread was at when it was asked for, with its content stored; a
\* tombstone is a 404, given because the thread was deleted then or in a lapse.
\* Being absent from a listing, unreadable or quarantined makes no tombstone, nor
\* does a deletion that was undone before the thread was asked for.
ShownWasAnswered ==
    /\ PointerStored
    /\ \A t \in Threads :
         /\ pointer[t].rev \in LiveRevisions =>
                pointer[t].rev[2] = LastChange(t, asOf[t]) /\ ~DeletedBy(t, asOf[t])
         /\ pointer[t].rev \in Tombstones =>
                DeletedBy(t, asOf[t]) \/ <<t, asOf[t]>> \in lapses

\* The mirror never goes back: what one syncer committed is not overwritten by
\* an older answer of another, be it a 404 or the thread; so a thread's content
\* only gets newer, and a restored thread is not deleted again by a stale 404.
MirrorNeverRegresses ==
    [][\A t \in Threads :
         /\ asOf[t] <= asOf'[t]
         /\ pointer[t].rev \in LiveRevisions /\ pointer'[t].rev \in LiveRevisions
               => pointer[t].rev[2] <= pointer'[t].rev[2]
      ]_syncVars

\* The mailbox is quiet and every thread readable: what is left of the model's
\* bounds suffices for the mirror to catch up.
Quiet(units) == Now = MaxHistory /\ parser = MaxParser
                /\ checkpoint.gen + units <= MaxUnits

\* Within CatchUp units of a quiet mailbox every listed thread is shown as it is
\* and nothing is left in quarantine, whatever was cut short, refused, expired or
\* failed before, and a thread that was restored is live again.  Two things stay
\* as they are until the thread is revised: a revision that was stored as an
\* earlier parser read it is refused as the new one reads it and stays in
\* quarantine, and a thread that Gmail answered 404 for in a lapse after its last
\* change stays a tombstone.
EventuallyMirrored ==
    \A t \in Threads \ Unlisted :
        LET h == LastChange(t, Now)
        IN Quiet(CatchUp) /\ Exists(t) ~>
             \/ /\ pointer[t].rev = <<"live", h>>
                /\ IsOpen(t) => log[h].kind = "restyled"
             \/ /\ pointer[t].rev \in Tombstones
                /\ h <= asOf[t] /\ <<t, asOf[t]>> \in lapses

\* Every checkpoint can be gone on from, and every unit can be saved: fetch()
\* and validated() raise no ValueError, which no retry would get past.
Resumable ==
    /\ checkpoint.gen > 0 =>
         IF checkpoint.complete THEN checkpoint.hist # 0
         ELSE IF checkpoint.mode = "full"
         THEN checkpoint.token # NoToken /\ checkpoint.baseline # 0
         ELSE /\ checkpoint.hist # 0 /\ checkpoint.contHist # 0
              /\ checkpoint.token # NoToken \/ checkpoint.pending # {}
    /\ \A p \in Syncers : ReadyToApply(p) =>
         ValidUpdate(UpdateOf(sync[p])) /\ Marker(UpdateOf(sync[p])) # 0
=============================================================================
