------------------------------ MODULE CalendarRun ------------------------------
(***************************************************************************)
(* The Calendar side of a Shadow run: ShadowTrialRunner._run_calendar      *)
(* (shadow_trial.py) reading Google Calendar through GoogleCalendarReader  *)
(* (google_sources.py) and persisting one source unit in the store of      *)
(* OperationalState, while the owner decides about items.                  *)
(*                                                                         *)
(* A run reads the cursor, fetches pages (each request first reserved from *)
(* the day's budget), reads the active items, and persists what it found   *)
(* with the next cursor.  An expired sync token (410) starts a bounded     *)
(* rebuild that may take several runs; when it is complete, active events  *)
(* it did not meet are marked for revalidation.  Runs of one daemon follow *)
(* one another; they overlap only with the last run of a daemon that lost  *)
(* its lease (Leftover).                                                   *)
(*                                                                         *)
(* Google Calendar is external, modelled from what the reader asks of it:  *)
(* events with versions, listings answered page by page, tokens that name  *)
(* what was listed and expire.  The calendar changes between two pages, a  *)
(* request fails, a run dies at any step.                                  *)
(***************************************************************************)
EXTENDS OperationalState

CONSTANTS
    Runners,
    Leftover,      \* runners that run once: what a replaced daemon has left
    Failing,       \* runners whose requests may fail, or that may die, at any step
    Kinds,         \* what a version may be: subset of {"live", "away", "past", "gone"}
    IdOnly,        \* events whose deletion is listed with its id alone, no etag
    PageSize,      \* page_size
    MaxPages,      \* max_pages: min(20, requests_per_day)
    DailyLimit,    \* policy.budgets.calendar.requests_per_day
    MaxSeen,       \* how many item ids reset_seen_item_ids holds
    MaxEpoch,      \* bound: times the sync tokens expire
    MaxGen,        \* bound: committed units
    MaxFree        \* bound: committed units while the calendar is covered

ASSUME RunAssumption ==
    /\ Kinds \subseteq {"live", "away", "past", "gone"}
    /\ IdOnly \subseteq Keys /\ Leftover \subseteq Runners /\ Failing \subseteq Runners
    /\ {PageSize, MaxPages, DailyLimit} \subseteq Nat \ {0}
    /\ MaxPages <= DailyLimit /\ MaxSeen \in Nat
    /\ {MaxEpoch, MaxGen, MaxFree} \subseteq Nat /\ MaxFree <= MaxGen

\* What a token, a saved continuation and an observation are: the NULLs are
\* none of them.
Tokens == [at : [Keys -> Nat], epoch : Nat]

Continuations == [todo : SUBSET Keys, snap : Tokens]

Revisions == ({"etag"} \X Nat) \cup ({"tombstone", "revalidation"} \X (Tokens \cup {NoToken}))

Observations == [rev : Revisions, version : Nat, kind : Kinds \cup {"near"}, order : Nat,
                 updated : Int, refs : SUBSET Revisions, at : Nat]

Items == [state : States, override : {NoOverride, "dismissed", "resolved"},
          cur : Observations, confirmed : Nat]

ASSUME NullAssumption ==
    /\ NoToken \notin Tokens \cup Continuations
    /\ NoItem \notin Items /\ NoDecision \notin Decisions

VARIABLES
    event,     \* Calendar: each event's version and kind; version 0: none yet
    epoch,     \* Calendar: sync tokens of earlier epochs are answered 410
    used,      \* ops_budget_reservations: requests of today and of the day before
    run        \* each runner's run in progress

vars == <<seen, items, fed, cursor, clock, event, epoch, used, run>>

-----------------------------------------------------------------------------
(* Google Calendar *)

Versions == [k \in Keys |-> event[k].version]

\* An event appears, is edited, moves out of the window (ahead or into the
\* past), is deleted, is restored.
CalendarChanges ==
    /\ \E k \in Keys, kind \in Kinds :
         /\ event[k].version < MaxVersion
         /\ event[k].version = 0 => kind # "gone"
         /\ ~(event[k].kind = "gone" /\ kind = "gone")
         /\ event' = [event EXCEPT ![k] = [version |-> @.version + 1, kind |-> kind]]
    /\ UNCHANGED <<storeVars, epoch, used, run>>

\* Time passes, and an event that lay ahead of the window is in it: a full
\* listing shows it, a sync token does not, for the event did not change.
WindowMoves ==
    /\ \E k \in Keys : /\ event[k].kind = "away"
                       /\ event' = [event EXCEPT ![k].kind = "near"]
    /\ UNCHANGED <<storeVars, epoch, used, run>>

TokensExpire ==
    /\ epoch < MaxEpoch
    /\ epoch' = epoch + 1
    /\ UNCHANGED <<storeVars, event, used, run>>

\* A full listing covers the window and may still show deleted events.
InWindow(k) == event[k].version > 0 /\ event[k].kind \in {"live", "near", "gone"}

Listed(token, k) ==
    IF token = NoToken THEN InWindow(k) ELSE event[k].version > token.at[k]

-----------------------------------------------------------------------------
(* A run *)

NoUnit == [k \in {} |-> 0]

IdleRun == [phase |-> "idle", day |-> "today", base |-> NoCursor, at |-> 0, sync |-> NoToken, reset |-> FALSE,
            todo |-> {}, snap |-> NoToken, pages |-> 0, got |-> NoUnit,
            unit |-> NoUnit, next |-> NoCursor]

Over(r) == IF r \in Leftover THEN [IdleRun EXCEPT !.phase = "over"] ELSE IdleRun

Busy == {r \in Runners : run[r].phase \notin {"idle", "over"}}

Move(r, new) == /\ run' = [run EXCEPT ![r] = new]
                /\ UNCHANGED <<storeVars, event, epoch>>

Covered == cursor.cont = NoToken /\ cursor.token = [at |-> Versions, epoch |-> epoch]

\* Runs that would find nothing new are cut off earlier than the others.
Due == cursor.gen < IF Covered THEN MaxFree ELSE MaxGen

\* run_live, get_source_cursor: a rebuild resumes without the expired token,
\* at its saved page.
Start(r) ==
    /\ run[r].phase = "idle" /\ Due
    /\ Move(r, [IdleRun EXCEPT
                  !.phase = "fetch", !.base = cursor, !.at = clock,
                  !.sync = IF cursor.mode = "full" THEN NoToken ELSE cursor.token,
                  !.todo = IF cursor.cont = NoToken THEN {} ELSE cursor.cont.todo,
                  !.snap = IF cursor.cont = NoToken THEN NoToken ELSE cursor.cont.snap])
    /\ UNCHANGED used

\* reserve_daily_budgets, before every request: the requests of the day are
\* limited, the quota units are counted along.  A refusal fails the run
\* (DailyBudgetExceeded) and nothing of it is kept.
MayRequest(r) == used[run[r].day] < DailyLimit

Reserve(r) == used' = [used EXCEPT ![run[r].day] = @ + 1]

Refused(r) ==
    /\ run[r].phase = "fetch" /\ ~MayRequest(r)
    /\ Move(r, Over(r))
    /\ UNCHANGED used

Expired(r) == run[r].sync # NoToken /\ run[r].sync.epoch < epoch

\* fetch: a 410 answers the incremental listing; the window is listed from
\* its start, with a fresh page count.
ListingExpires(r) ==
    /\ run[r].phase = "fetch" /\ Expired(r) /\ MayRequest(r)
    /\ Reserve(r)
    /\ Move(r, [run[r] EXCEPT !.sync = NoToken, !.reset = TRUE, !.todo = {},
                              !.snap = NoToken, !.pages = 0, !.got = NoUnit])

Portions(S) == {x \in SUBSET S :
                  Cardinality(x) = IF Cardinality(S) < PageSize THEN Cardinality(S)
                                   ELSE PageSize}

\* _fetch_pages: the first page fixes what the listing will show and the token
\* it ends with; every page shows its events as they are by then.  A deleted
\* event may have been purged from a full listing.
FetchPage(r) ==
    LET s == run[r]
        fresh == s.snap = NoToken
        token == IF fresh THEN [at |-> Versions, epoch |-> epoch] ELSE s.snap
        listed == {k \in Keys : Listed(s.sync, k)}
    IN /\ s.phase = "fetch" /\ ~Expired(r) /\ MayRequest(r)
       /\ Reserve(r)
       /\ \E purged \in SUBSET {k \in Keys : s.sync = NoToken /\ event[k].kind = "gone"} :
            \E page \in Portions(IF fresh THEN listed \ purged ELSE s.todo) :
              LET todo == (IF fresh THEN listed \ purged ELSE s.todo) \ page
                  shown == {k \in page : Listed(s.sync, k) /\ k \notin purged}
              IN Move(r, [s EXCEPT
                   !.phase = IF todo = {} \/ s.pages + 1 = MaxPages THEN "read" ELSE "fetch",
                   !.todo = todo, !.snap = token, !.pages = @ + 1,
                   !.got = [k \in DOMAIN s.got \cup shown |->
                              IF k \in shown THEN event[k] ELSE s.got[k]]])
   
\* A request fails, or the process dies.
Fails(r) ==
    /\ r \in Busy \cap Failing
    /\ Move(r, Over(r))
    /\ UNCHANGED used

-----------------------------------------------------------------------------
(* The source unit *)

CoverageComplete(s) == s.todo = {}

\* What next_sync_token or, before the listing is complete, the current cursor
\* contributes to the revision of an ID-only deletion; NoToken stands for "full".
Checkpoint(s) == IF CoverageComplete(s) THEN s.snap ELSE s.base.token

\* _calendar_observation
Observation(s, k) ==
    LET e == s.got[k]
        bare == k \in IdOnly /\ e.kind = "gone"
        rev == IF bare THEN <<"tombstone", Checkpoint(s)>> ELSE <<"etag", e.version>>
    IN [rev |-> rev, version |-> e.version, kind |-> e.kind, order |-> s.base.gen + 1,
        updated |-> IF bare THEN NoUpdate ELSE e.version, refs |-> {rev}, at |-> s.at]

\* Mutant of Mark: an event the rebuild did not find was deleted.
MarkGone(s, k) ==
    [items[k].cur EXCEPT !.rev = <<"revalidation", s.snap>>, !.order = s.base.gen + 1,
                         !.updated = NoUpdate, !.at = s.at, !.kind = "gone"]

\* _calendar_revalidation_observation: the event as the item shows it, under a
\* revision of this rebuild, citing the evidence of what it replaces.
Mark(s, k) ==
    LET cur == items[k].cur
    IN [cur EXCEPT !.rev = <<"revalidation", s.snap>>, !.order = s.base.gen + 1,
                   !.updated = NoUpdate, !.at = s.at]

\* _human_confirmed_current_observation
HumanConfirmed(item) == item.confirmed > item.cur.at

Active == {k \in Keys : items[k] # NoItem /\ items[k].state = "active"}

\* reset_scan_active: this run begins a rebuild or resumes one.
ScansReset(s) == s.reset \/ (s.base.reset /\ s.base.mode = "full" /\ s.sync = NoToken)

\* Mutant of Scanned: a resumed rebuild remembers its own pages only.
ScannedAnew(s) == DOMAIN s.got

\* The keys the rebuild has met so far.
Scanned(s) == (IF s.reset THEN {} ELSE s.base.scanned) \cup DOMAIN s.got

\* Active events the complete rebuild did not meet; those over before the
\* window are left as they are.
Unmet(s) == {k \in Active : k \notin Scanned(s) /\ items[k].cur.kind # "past"}

\* Mutant of Unresolved: only marks of this run are counted.
UnresolvedNew(s, marked) == marked

\* Marks no fetched event replaces and the owner did not confirm.
Unresolved(s, marked) ==
    marked \cup {k \in Active : /\ Synthetic(items[k].cur) /\ k \notin DOMAIN s.got
                                /\ ~HumanConfirmed(items[k])}

\* The sync token is advanced by a complete listing and dropped by a rebuild.
NextToken(s, scanning) ==
    IF CoverageComplete(s) THEN s.snap
    ELSE IF scanning \/ s.sync = NoToken THEN NoToken
    ELSE s.base.token

\* _merge_reset_seen_item_ids: ids are added while they fit.
Merged(s) ==
    IF Cardinality(Scanned(s)) <= MaxSeen THEN {Scanned(s)}
    ELSE {S \in SUBSET Scanned(s) : /\ Cardinality(S) = MaxSeen
                                    /\ s.reset \/ s.base.scanned \subseteq S}

\* _active_calendar_items to cursor_update: what will be persisted, computed
\* from the items of now.
Read(r) ==
    LET s == run[r]
        complete == CoverageComplete(s)
        scanning == ScansReset(s)
        over == \/ scanning /\ Cardinality(Scanned(s)) > MaxSeen
                \/ ~s.reset /\ s.base.overflow
        marked == IF scanning /\ complete /\ ~over THEN Unmet(s) ELSE {}
        unit == [k \in DOMAIN s.got \cup marked |->
                   IF k \in DOMAIN s.got THEN Observation(s, k) ELSE Mark(s, k)]
    IN /\ s.phase = "read"
       /\ \E kept \in Merged(s) :
            Move(r, [s EXCEPT
                 !.phase = "commit", !.unit = unit, !.got = NoUnit,
                 !.next = [token |-> NextToken(s, scanning), gen |-> 0,
                           cont |-> IF complete THEN NoToken
                                    ELSE [todo |-> s.todo, snap |-> s.snap],
                           mode |-> IF complete THEN "none"
                                    ELSE IF s.sync = NoToken THEN "full" ELSE "incremental",
                           reset |-> scanning /\ ~complete,
                           scanned |-> IF scanning /\ ~complete THEN kept ELSE {},
                           overflow |-> over,
                           complete |-> complete /\ ~over /\ Unresolved(s, marked) = {}]])
       /\ UNCHANGED used

\* persist_shadow_source_unit; a conflict fails the run.
Commit(r) ==
    /\ run[r].phase = "commit"
    /\ Persist(run[r].base, run[r].unit, run[r].next)
    /\ run' = [run EXCEPT ![r] = Over(r)]
    /\ UNCHANGED <<event, epoch, used>>

-----------------------------------------------------------------------------
(* The owner, and the days *)

OwnerDecides(k, d, q) ==
    /\ Feedback(k, d, q)
    /\ UNCHANGED <<event, epoch, used, run>>

\* Midnight: a run reserves on the local day it started.  No run lasts a day,
\* and a day matters once its requests are used up.
NewDay ==
    /\ used.today = DailyLimit /\ \A r \in Busy : run[r].day = "today"
    /\ used' = [today |-> 0, before |-> IF Busy = {} THEN 0 ELSE DailyLimit]
    /\ run' = [r \in Runners |-> IF r \in Busy THEN [run[r] EXCEPT !.day = "before"]
                                 ELSE run[r]]
    /\ UNCHANGED <<storeVars, event, epoch>>

RunInit ==
    /\ StoreInit
    /\ event = [k \in Keys |-> [version |-> 0, kind |-> "gone"]]
    /\ epoch = 0 /\ used = [today |-> 0, before |-> 0]
    /\ run = [r \in Runners |-> IdleRun]

Steps(r) == \/ Start(r) \/ Refused(r) \/ ListingExpires(r) \/ FetchPage(r)
            \/ Read(r) \/ Commit(r)

\* The runs that are cut off would leave all but the generation as it is.
Rests == ~Due /\ Busy = {} /\ UNCHANGED vars

Next == \/ CalendarChanges \/ WindowMoves \/ TokensExpire \/ NewDay \/ Rests
        \/ \E r \in Runners : Steps(r) \/ Fails(r)
        \/ \E k \in Keys, d \in Decisions, q \in Requests : OwnerDecides(k, d, q)

RunSpec == RunInit /\ [][Next]_vars

\* The scheduled run is started again and again, a run that is not killed goes
\* on, and days pass.
FairRunSpec ==
    /\ RunSpec
    /\ \A r \in Runners : WF_vars(Steps(r))
    /\ WF_vars(NewDay)

-----------------------------------------------------------------------------
(* Properties *)

\* The type invariant.  A current observation is one of those retained, no
\* generation is ahead of the cursor's, and a rebuild in progress has no token.
RunTypeOK ==
    /\ \A k \in Keys :
         /\ \A o \in seen[k] : /\ o.version \in 1..event[k].version /\ o.kind \in Kinds \cup {"near"}
                               /\ o.order \in 1..cursor.gen /\ o.at \in 0..clock
         /\ items[k] = NoItem <=> seen[k] = {}
         /\ items[k] # NoItem =>
              /\ items[k].state \in States /\ items[k].confirmed \in 0..clock
              /\ items[k].override \in {NoOverride, "dismissed", "resolved"}
              /\ items[k].cur \in seen[k]
         /\ fed[k] \in [Requests -> Decisions \cup {NoDecision}]
    /\ cursor.gen \in 0..MaxGen /\ cursor.mode \in {"none", "full", "incremental"}
    /\ cursor.reset => cursor.mode = "full" /\ cursor.token = NoToken
    /\ cursor.complete => cursor.cont = NoToken /\ ~cursor.overflow
    /\ used \in [{"today", "before"} -> 0..DailyLimit] /\ epoch \in 0..MaxEpoch
    /\ \A r \in Runners : run[r].phase \in {"idle", "fetch", "read", "commit", "over"}

\* The event's deletion was listed by its id alone before: another one may have
\* the revision of that one, and then is not observed.
DeletedBefore(k) == \E o \in seen[k] : o.rev[1] = "tombstone"

\* The stored sync token never covers a change the store missed.  An event of
\* the window untouched since the token is on its item as it is, without a mark;
\* every active item is up to the token, unless it is marked for revalidation, its
\* owner confirmed or restored it, it is over, it was deleted by id alone before,
\* or the rebuild's memory overflowed.
TokenIsCovered ==
    cursor.token # NoToken =>
        /\ \A k \in Keys :
             event[k].kind = "live" /\ event[k].version = cursor.token.at[k] =>
                /\ items[k] # NoItem /\ items[k].cur.version = event[k].version
                /\ ~Synthetic(items[k].cur)
        /\ \A k \in Active :
             \/ items[k].cur.version >= cursor.token.at[k]
             \/ Synthetic(items[k].cur) \/ HumanConfirmed(items[k])
             \/ items[k].cur.kind = "past" \/ cursor.overflow \/ DeletedBefore(k)

\* "Coverage complete" is honest: whoever reads it finds no active item behind
\* the token or marked that the owner did not confirm.
CompleteIsHonest ==
    cursor.complete =>
        \A k \in Active :
           \/ HumanConfirmed(items[k]) \/ DeletedBefore(k)
           \/ /\ ~Synthetic(items[k].cur)
              /\ items[k].cur.version >= cursor.token.at[k] \/ items[k].cur.kind = "past"

\* Absence from a rebuild never becomes a cancellation: an item is cancelled
\* only by a deletion the provider listed.
NoFabricatedCancellation ==
    \A k \in Keys : items[k] # NoItem /\ items[k].state = "cancelled" =>
                       items[k].cur.kind = "gone" /\ ~Synthetic(items[k].cur)

\* An owner's decision stands against every source update, retry and race: an
\* override changes only by a decision that was not recorded before, and while
\* it holds the item's state is that of the decision.
DecisionsStand ==
    [][\A k \in Keys : items[k] # NoItem =>
         /\ items'[k].override # items[k].override =>
              \E q \in Requests : fed[k][q] = NoDecision /\ fed'[k][q] # NoDecision
         /\ items'[k].override # NoOverride => items'[k].state = items'[k].override]_vars

\* Of two runs that read the same cursor only one writes the next: the stored
\* token never goes back to an older one.
CursorNeverRegresses ==
    [][cursor.token # NoToken /\ cursor'.token # NoToken =>
         \A k \in Keys : cursor'.token.at[k] >= cursor.token.at[k]]_vars

\* What a run fetched and committed is what the store shows: no order, no tie
\* and no revision met before leaves an older version or a mark in its place.
FetchedIsShown ==
    [][\A r \in Runners :
         run[r].phase = "commit" /\ run'[r].phase # "commit" /\ cursor' # cursor =>
            \A k \in DOMAIN run[r].unit :
               ~Synthetic(run[r].unit[k]) /\ ~DeletedBefore(k) =>
                  /\ items'[k].cur.version >= run[r].unit[k].version
                  /\ ~Synthetic(items'[k].cur)]_vars

\* When the calendar is left alone, every event it holds is shown as it is, and
\* no deleted event stays active unless marked, confirmed or restored, or over.
EventuallyCovered ==
    \A k \in Keys : <>[](/\ event[k].kind = "live" =>
                              items[k] # NoItem /\ items[k].cur.version = event[k].version
                         /\ event[k].kind = "gone" /\ k \in Active =>
                              \/ Synthetic(items[k].cur) \/ HumanConfirmed(items[k])
                              \/ items[k].cur.kind = "past")

=============================================================================
