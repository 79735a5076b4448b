----------------------------- MODULE CalendarProofs -----------------------------
(***************************************************************************)
(* Calendar runs, proved for every set of events, runners and kinds, every *)
(* page size, limit and memory, and all bounds: the saved token never      *)
(* covers what the store missed, "complete" is honest, absence is no       *)
(* cancellation, and the owner's decisions stand.                          *)
(*                                                                         *)
(* What is known along a listing that may be cut anywhere is said by       *)
(* operators of values (the events, the items, a token, the keys still     *)
(* open), so that one lemma about changing events and one about the        *)
(* owner's decisions serve the saved cursor and every run in progress.     *)
(***************************************************************************)
EXTENDS CalendarRun, FiniteSetTheorems, TLAPS

ObservedKinds == Kinds \cup {"near"}

Events == [version : 0..MaxVersion, kind : ObservedKinds \cup {"gone"}]

TokenOrNone == Tokens \cup {NoToken}

Cursors == [token : TokenOrNone, gen : Nat, cont : Continuations \cup {NoToken},
            mode : {"none", "full", "incremental"}, reset : BOOLEAN,
            scanned : SUBSET Keys, overflow : BOOLEAN, complete : BOOLEAN]

Partial(S) == UNION {[D -> S] : D \in SUBSET Keys}

RunRecords == [phase : {"idle", "fetch", "read", "commit", "over"}, day : {"today", "before"},
               base : Cursors, at : Nat, sync : TokenOrNone, reset : BOOLEAN,
               todo : SUBSET Keys, snap : TokenOrNone, pages : Nat,
               got : Partial(Events), unit : Partial(Observations), next : Cursors]

StoreType ==
    /\ seen \in [Keys -> SUBSET Observations]
    /\ items \in [Keys -> Items \cup {NoItem}]
    /\ fed \in [Keys -> [Requests -> Decisions \cup {NoDecision}]]
    /\ cursor \in Cursors /\ clock \in Nat

CalendarType ==
    /\ event \in [Keys -> Events] /\ epoch \in 0..MaxEpoch
    /\ \A k \in Keys : IF event[k].version = 0 THEN event[k].kind = "gone"
                       ELSE event[k].kind \in ObservedKinds

RunsType ==
    /\ run \in [Runners -> RunRecords]
    /\ used \in [{"today", "before"} -> 0..DailyLimit]

-----------------------------------------------------------------------------
(* Observations and items *)

\* What the revision of an observation says of it: a mark repeats an event that
\* was not deleted, and cites that event's version.
Shaped(o) ==
    \/ o.rev = <<"etag", o.version>> /\ o.refs = {o.rev}
    \/ o.rev[1] = "tombstone" /\ o.kind = "gone" /\ o.refs = {o.rev}
    \/ /\ o.rev[1] = "revalidation" /\ o.rev[2] \in Tokens
       /\ o.kind # "gone" /\ o.refs = {<<"etag", o.version>>}

Sound(ev, t, k, o) ==
    /\ o.version \in 1..ev[k].version /\ o.at \in 0..t /\ Shaped(o)
    /\ ev[k].version = o.version /\ ev[k].kind = "live" => o.kind # "gone"

SeenInv ==
    \A k \in Keys : \A o \in seen[k] : Sound(event, clock, k, o) /\ o.order \in 1..cursor.gen

\* An item shows the newest version observed, in the state its owner decided or
\* that observation gives it.
ItemGood(it, S, t) ==
    /\ it.cur \in S /\ it.confirmed <= t
    /\ \A o \in S : o.version <= it.cur.version
    /\ it.state = IF it.override = NoOverride THEN Projected(it.cur) ELSE it.override

ItemsInv ==
    \A k \in Keys : /\ items[k] = NoItem <=> seen[k] = {}
                    /\ items[k] # NoItem => ItemGood(items[k], seen[k], clock)

-----------------------------------------------------------------------------
(* What a listing knows *)

Now == [at |-> Versions, epoch |-> epoch]

Earlier(a, b) == a.epoch <= b.epoch /\ \A k \in Keys : a.at[k] <= b.at[k]

\* An event of the window, as it was when token t was issued.
Untouched(ev, k, t) == ev[k].kind = "live" /\ ev[k].version = t.at[k]

Shows(ev, its, k) ==
    its[k] # NoItem /\ its[k].cur.version = ev[k].version /\ ~Synthetic(its[k].cur)

IsActive(its, k) == its[k] # NoItem /\ its[k].state = "active"

Tombstoned(S) == \E o \in S : o.rev[1] = "tombstone"

\* An item that token t need not worry about.
UpTo(it, S, k, t) ==
    \/ it.cur.version >= t.at[k] \/ Synthetic(it.cur) \/ HumanConfirmed(it)
    \/ it.cur.kind = "past" \/ Tombstoned(S)

\* The events outside `open` that t lists are shown, the items outside `open`
\* are up to t, the events that t lists are among S.
Faithful(ev, its, t, open) ==
    \A k \in Keys : Untouched(ev, k, t) /\ k \notin open => Shows(ev, its, k)

Kept(its, sn, t, open) ==
    \A k \in Keys : IsActive(its, k) /\ k \notin open => UpTo(its[k], sn[k], k, t)

Met(ev, t, S) == \A k \in Keys : Untouched(ev, k, t) => k \in S

MarksBefore(sn, e) == \A k \in Keys : \A o \in sn[k] : Synthetic(o) => o.rev[2].epoch < e

NoMarks(sn) == \A k \in Keys : \A o \in sn[k] : ~Synthetic(o)

\* Marks the owner was told of by an incomplete coverage.
Told(its, sn, open) ==
    \A k \in Keys : IsActive(its, k) /\ k \notin open =>
                       \/ HumanConfirmed(its[k]) \/ ~Synthetic(its[k].cur) \/ Tombstoned(sn[k])

-----------------------------------------------------------------------------
(* The cursor *)

\* A row as it may be saved: what it names was issued by the calendar as it is.
CursorOK(c, now) ==
    /\ c.mode = "none" <=> c.cont = NoToken
    /\ c.mode = "full" => c.token = NoToken
    /\ c.mode = "incremental" => c.token # NoToken
    /\ c.reset => c.mode = "full"
    /\ c.complete => c.cont = NoToken /\ ~c.overflow /\ c.token # NoToken
    /\ c.token # NoToken => Earlier(c.token, now)
    /\ c.cont # NoToken =>
         /\ Earlier(c.cont.snap, now)
         /\ c.token # NoToken => /\ Earlier(c.token, c.cont.snap)
                                 /\ \A k \in c.cont.todo : c.cont.snap.at[k] > c.token.at[k]

\* What the store knows of a listing that ended with token t.
TokenKnown(ev, its, sn, t, overflow, open) ==
    /\ Faithful(ev, its, t, open)
    /\ overflow \/ Kept(its, sn, t, open)

\* What it knows of a rebuild under way, with the keys met so far, of which
\* those in `open` are still to be committed.
RebuildKnown(ev, its, sn, t, overflow, todo, scanned, open) ==
    /\ MarksBefore(sn, t.epoch)
    /\ overflow \/ /\ Met(ev, t, todo \cup scanned)
                   /\ Kept(its, sn, t, (Keys \ scanned) \cup open)

\* And of a first listing under way.
FirstKnown(its, sn, t, open) == Kept(its, sn, t, open) /\ NoMarks(sn)

CursorInv ==
    /\ CursorOK(cursor, Now) /\ cursor.gen <= MaxGen
    /\ cursor.token = NoToken /\ cursor.cont = NoToken => \A k \in Keys : seen[k] = {}
    /\ cursor.token # NoToken =>
         /\ TokenKnown(event, items, seen, cursor.token, cursor.overflow, {})
         /\ MarksBefore(seen, cursor.token.epoch + 1)
    /\ cursor.cont # NoToken =>
         LET t == cursor.cont.snap  todo == cursor.cont.todo
         IN /\ Faithful(event, items, t, todo)
            /\ cursor.token # NoToken => cursor.overflow \/ Kept(items, seen, t, todo)
            /\ cursor.reset =>
                 RebuildKnown(event, items, seen, t, cursor.overflow, todo, cursor.scanned, {})
            /\ cursor.token = NoToken /\ ~cursor.reset => FirstKnown(items, seen, t, {})
    /\ cursor.complete => Told(items, seen, {})

-----------------------------------------------------------------------------
(* A run in progress *)

BaseInv(r) ==
    LET s == run[r]
    IN /\ CursorOK(s.base, Now) /\ s.base.gen < MaxGen
       /\ s.base.gen <= cursor.gen /\ (s.base.gen = cursor.gen => s.base = cursor)
       /\ s.at <= clock
       /\ ~s.reset => s.sync = s.base.token
       /\ s.reset => s.sync = NoToken /\ s.base.token # NoToken /\ s.base.token.epoch < epoch

\* What it has listed.
ListInv(r) ==
    LET s == run[r]
    IN /\ s.phase = "read" => s.snap # NoToken
       /\ s.snap = NoToken => /\ s.todo = {} /\ DOMAIN s.got = {}
                              /\ ~s.reset => s.base.cont = NoToken
       /\ s.snap # NoToken =>
            /\ Earlier(s.snap, Now)
            /\ s.base.token # NoToken => Earlier(s.base.token, s.snap)
            /\ s.reset => s.base.token.epoch < s.snap.epoch
            /\ s.sync # NoToken => \A k \in s.todo : s.snap.at[k] > s.sync.at[k]
       /\ \A k \in DOMAIN s.got :
            /\ s.got[k].version \in 1..event[k].version /\ s.got[k].kind \in ObservedKinds
            /\ s.got[k].version = event[k].version /\ event[k].kind = "live"
                  => s.got[k].kind # "gone"
            /\ s.got[k].version >= s.snap.at[k]

\* What that says of the store, unless another run has committed.
GotInv(r) ==
    LET s == run[r]  D == DOMAIN s.got  over == ~s.reset /\ s.base.overflow
    IN /\ \A k \in D : \A o \in seen[k] : o.version <= s.got[k].version
       /\ s.snap # NoToken =>
            /\ Faithful(event, items, s.snap, s.todo \cup D)
            /\ s.sync # NoToken => over \/ Kept(items, seen, s.snap, s.todo \cup D)
            /\ ScansReset(s) =>
                 RebuildKnown(event, items, seen, s.snap, over, s.todo, Scanned(s), D)
            /\ s.sync = NoToken /\ ~ScansReset(s) => FirstKnown(items, seen, s.snap, D)

\* The unit it will persist, and the cursor.
UnitOK(r) ==
    LET s == run[r]
    IN /\ s.snap # NoToken
       /\ \A k \in DOMAIN s.unit :
            /\ Sound(event, clock, k, s.unit[k]) /\ s.unit[k].order = s.base.gen + 1
            /\ Synthetic(s.unit[k]) => /\ s.unit[k].rev[2] = s.snap /\ ScansReset(s)
                                       /\ s.next.cont = NoToken
            /\ ~Synthetic(s.unit[k]) => s.unit[k].version >= s.snap.at[k]

NextOK(r) ==
    LET s == run[r]  n == s.next
    IN /\ CursorOK(n, Now)
       /\ n.token = NoToken => n.cont # NoToken
       /\ n.token # NoToken /\ s.base.token # NoToken => Earlier(s.base.token, n.token)
       /\ n.cont = NoToken => n.token = s.snap
       /\ n.cont # NoToken => n.cont.snap = s.snap /\ (n.reset <=> ScansReset(s))
                              /\ (n.token # NoToken => n.token = s.base.token)

\* The keys of what it fetched.
Fetched(s) == {k \in DOMAIN s.unit : ~Synthetic(s.unit[k])}

UnitInv(r) ==
    LET s == run[r]  n == s.next  D == DOMAIN s.unit
    IN /\ \A k \in D : \A o \in seen[k] : o.version <= s.unit[k].version
       /\ ScansReset(s) => MarksBefore(seen, s.snap.epoch)
       /\ n.cont = NoToken =>
            /\ Faithful(event, items, s.snap, Fetched(s))
            /\ \A k \in D \ Fetched(s) : ~Untouched(event, k, s.snap)
            /\ n.overflow \/ Kept(items, seen, s.snap, D)
       /\ n.cont # NoToken =>
            /\ Faithful(event, items, s.snap, n.cont.todo \cup D)
            /\ n.token # NoToken => n.overflow \/ Kept(items, seen, s.snap, n.cont.todo \cup D)
            /\ n.token # NoToken => n.overflow = s.base.overflow
            /\ n.reset =>
                 RebuildKnown(event, items, seen, s.snap, n.overflow, n.cont.todo, n.scanned, D)
            /\ n.token = NoToken /\ ~n.reset => FirstKnown(items, seen, s.snap, D)
       /\ n.complete => D = Fetched(s) /\ Told(items, seen, D)

RunGood(r) ==
    /\ BaseInv(r)
    /\ run[r].phase \in {"fetch", "read"} => ListInv(r) /\ (run[r].base = cursor => GotInv(r))
    /\ run[r].phase = "commit" =>
         UnitOK(r) /\ NextOK(r) /\ (run[r].base = cursor => UnitInv(r))

RunsInv == \A r \in Busy : RunGood(r)

CalendarInv ==
    /\ StoreType /\ CalendarType /\ RunsType
    /\ SeenInv /\ ItemsInv /\ CursorInv /\ RunsInv

-----------------------------------------------------------------------------
(* Values *)

LEMMA PartialFunction ==
    ASSUME NEW S, NEW f \in Partial(S)
    PROVE  DOMAIN f \subseteq Keys /\ \A k \in DOMAIN f : f[k] \in S
<1>1. PICK D \in SUBSET Keys : f \in [D -> S]
  BY DEF Partial
<1>. QED BY <1>1

LEMMA NowIsToken ==
    ASSUME CalendarType
    PROVE  /\ Now \in Tokens /\ Now.epoch = epoch
           /\ \A k \in Keys : Now.at[k] = event[k].version /\ event[k].version \in Nat
<1>1. \A k \in Keys : event[k] \in Events /\ event[k].version \in Nat
  BY RunAssumption, StoreAssumption DEF CalendarType, Events
<1>2. Versions \in [Keys -> Nat] /\ epoch \in Nat
  BY <1>1, RunAssumption DEF Versions, CalendarType
<1>. QED BY <1>1, <1>2 DEF Now, Tokens, Versions

LEMMA TokenFields ==
    ASSUME NEW t \in Tokens
    PROVE  t.epoch \in Nat /\ \A k \in Keys : t.at[k] \in Nat
BY DEF Tokens

LEMMA EarlierTransitive ==
    ASSUME NEW a \in Tokens, NEW b \in Tokens, NEW c \in Tokens, Earlier(a, b), Earlier(b, c)
    PROVE  Earlier(a, c)
<1>1. /\ a.epoch \in Nat /\ b.epoch \in Nat /\ c.epoch \in Nat
      /\ \A k \in Keys : a.at[k] \in Nat /\ b.at[k] \in Nat /\ c.at[k] \in Nat
  BY TokenFields
<1>. QED BY <1>1 DEF Earlier

LEMMA ContinuationFields ==
    ASSUME NEW c \in Cursors
    PROVE  /\ c.cont # NoToken => c.cont.snap \in Tokens /\ c.cont.todo \subseteq Keys
           /\ c.token # NoToken => c.token \in Tokens
           /\ c.gen \in Nat /\ c.scanned \subseteq Keys
BY DEF Cursors, TokenOrNone, Continuations

LEMMA CursorStays ==
    ASSUME NEW c \in Cursors, NEW now \in Tokens, NEW later \in Tokens,
           CursorOK(c, now), Earlier(now, later)
    PROVE  CursorOK(c, later)
<1>1. c.token # NoToken => Earlier(c.token, later)
  BY ContinuationFields, EarlierTransitive DEF CursorOK
<1>2. c.cont # NoToken => Earlier(c.cont.snap, later)
  BY ContinuationFields, EarlierTransitive DEF CursorOK
<1>. QED BY <1>1, <1>2 DEF CursorOK

LEMMA ItemFields ==
    ASSUME NEW it \in Items
    PROVE  /\ it.cur \in Observations /\ it.confirmed \in Nat /\ it.state \in States
           /\ it.override \in {NoOverride, "dismissed", "resolved"}
BY DEF Items

LEMMA ObservationFields ==
    ASSUME NEW o \in Observations
    PROVE  /\ o.version \in Nat /\ o.order \in Nat /\ o.at \in Nat /\ o.updated \in Int
           /\ o.kind \in ObservedKinds /\ o.rev \in Revisions
BY DEF Observations, ObservedKinds

\* A mark is told from what was fetched by its revision.
LEMMA MarkShape ==
    ASSUME NEW o, Shaped(o)
    PROVE  /\ Synthetic(o) <=> o.rev[1] = "revalidation"
           /\ Synthetic(o) => /\ o.rev[2] \in Tokens /\ o.kind # "gone"
                              /\ o.refs = {<<"etag", o.version>>}
           /\ ~Synthetic(o) /\ o.rev[1] # "tombstone" =>
                 o.rev = <<"etag", o.version>> /\ o.refs = {o.rev}
BY DEF Shaped, Synthetic

LEMMA RunFields ==
    ASSUME RunsType, NEW r \in Runners
    PROVE  LET s == run[r]
           IN /\ s \in RunRecords /\ s.base \in Cursors /\ s.next \in Cursors
              /\ s.base.gen \in Nat /\ s.next.gen \in Nat /\ s.at \in Nat
              /\ s.reset \in BOOLEAN /\ s.todo \subseteq Keys
              /\ DOMAIN s.got \subseteq Keys /\ DOMAIN s.unit \subseteq Keys
              /\ \A k \in DOMAIN s.got : s.got[k] \in Events
              /\ \A k \in DOMAIN s.unit : s.unit[k] \in Observations
              /\ s.snap # NoToken => s.snap \in Tokens
              /\ s.sync # NoToken => s.sync \in Tokens
<1>1. run[r] \in RunRecords
  BY DEF RunsType
<1>2. run[r].got \in Partial(Events) /\ run[r].unit \in Partial(Observations)
  BY <1>1 DEF RunRecords
<1>. QED BY <1>1, <1>2, PartialFunction DEF RunRecords, Cursors, TokenOrNone

-----------------------------------------------------------------------------
(* The calendar changes *)

Grown(ev, later) ==
    \A k \in Keys : \/ later[k] = ev[k] \/ later[k].version > ev[k].version
                    \/ later[k].version = ev[k].version /\ later[k].kind = "near"

LEMMA UntouchedBefore ==
    ASSUME NEW ev \in [Keys -> Events], NEW later \in [Keys -> Events], Grown(ev, later),
           NEW t \in Tokens, NEW k \in Keys, t.at[k] <= ev[k].version, Untouched(later, k, t)
    PROVE  Untouched(ev, k, t) /\ later[k] = ev[k]
<1>1. ev[k].version \in Nat /\ later[k].version \in Nat /\ t.at[k] \in Nat
  BY TokenFields, StoreAssumption DEF Events
<1>. QED BY <1>1 DEF Grown, Untouched

LEMMA FaithfulGrows ==
    ASSUME NEW ev \in [Keys -> Events], NEW later \in [Keys -> Events], Grown(ev, later),
           NEW t \in Tokens, \A k \in Keys : t.at[k] <= ev[k].version,
           NEW its, NEW open, Faithful(ev, its, t, open)
    PROVE  Faithful(later, its, t, open)
BY UntouchedBefore DEF Faithful, Shows

LEMMA MetGrows ==
    ASSUME NEW ev \in [Keys -> Events], NEW later \in [Keys -> Events], Grown(ev, later),
           NEW t \in Tokens, \A k \in Keys : t.at[k] <= ev[k].version,
           NEW S, Met(ev, t, S)
    PROVE  Met(later, t, S)
BY UntouchedBefore DEF Met

LEMMA SoundGrows ==
    ASSUME NEW ev \in [Keys -> Events], NEW later \in [Keys -> Events], Grown(ev, later),
           NEW t \in Nat, NEW u \in Nat, t <= u,
           NEW k \in Keys, NEW o \in Observations, Sound(ev, t, k, o)
    PROVE  Sound(later, u, k, o)
<1>1. ev[k].version \in Nat /\ later[k].version \in Nat /\ o.version \in Nat /\ o.at \in Nat
  BY ObservationFields, StoreAssumption DEF Events
<1>2. ev[k].version <= later[k].version
  BY <1>1 DEF Grown
<1>3. o.version \in 1..later[k].version /\ o.at \in 0..u /\ Shaped(o)
  BY <1>1, <1>2 DEF Sound
<1>4. ASSUME later[k].version = o.version, later[k].kind = "live" PROVE o.kind # "gone"
  <2>1. later[k] = ev[k]
    BY <1>1, <1>2, <1>4 DEF Grown, Sound
  <2>. QED BY <2>1, <1>4 DEF Sound
<1>. QED BY <1>3, <1>4 DEF Sound

-----------------------------------------------------------------------------
(* The owner decides *)

\* A decision leaves the observation; what is active after it was confirmed by it.
Touched(its, later) ==
    \A k \in Keys : \/ later[k] = its[k]
                    \/ /\ its[k] # NoItem /\ later[k] # NoItem /\ later[k].cur = its[k].cur
                       /\ IsActive(later, k) => HumanConfirmed(later[k])

LEMMA FaithfulTouched ==
    ASSUME NEW its, NEW later, Touched(its, later), NEW ev, NEW t, NEW open,
           Faithful(ev, its, t, open)
    PROVE  Faithful(ev, later, t, open)
BY DEF Touched, Faithful, Shows

LEMMA KeptTouched ==
    ASSUME NEW its, NEW later, Touched(its, later), NEW sn, NEW t, NEW open,
           Kept(its, sn, t, open)
    PROVE  Kept(later, sn, t, open)
BY DEF Touched, Kept, UpTo, IsActive

LEMMA ToldTouched ==
    ASSUME NEW its, NEW later, Touched(its, later), NEW sn, NEW open, Told(its, sn, open)
    PROVE  Told(later, sn, open)
BY DEF Touched, Told, IsActive

-----------------------------------------------------------------------------
(* Calm steps: nothing is observed and the cursor stays *)

Calm ==
    /\ StoreType' /\ CalendarType'
    /\ Grown(event, event') /\ epoch <= epoch' /\ clock <= clock'
    /\ Touched(items, items') /\ seen' = seen /\ cursor' = cursor

LEMMA CalmNow ==
    ASSUME CalendarType, Calm
    PROVE  /\ Now \in Tokens /\ Now' \in Tokens /\ Earlier(Now, Now')
           /\ \A t \in Tokens : Earlier(t, Now) =>
                 \A k \in Keys : t.at[k] <= event[k].version
<1>1. /\ Now \in Tokens /\ Now.epoch = epoch
      /\ \A k \in Keys : Now.at[k] = event[k].version /\ event[k].version \in Nat
  BY NowIsToken
<1>2. CalendarType'
  BY DEF Calm
<1>3. /\ Now' \in Tokens /\ Now'.epoch = epoch'
      /\ \A k \in Keys : Now'.at[k] = event'[k].version /\ event'[k].version \in Nat
  BY <1>2, StoreAssumption, RunAssumption DEF CalendarType, Now, Tokens, Versions, Events
<1>4. \A k \in Keys : event[k].version <= event'[k].version
  BY <1>1, <1>3 DEF Calm, Grown
<1>5. Earlier(Now, Now')
  BY <1>1, <1>3, <1>4 DEF Earlier, Calm
<1>6. ASSUME NEW t \in Tokens, Earlier(t, Now), NEW k \in Keys
      PROVE  t.at[k] <= event[k].version
  BY <1>1, <1>6 DEF Earlier
<1>. QED BY <1>1, <1>3, <1>5, <1>6

LEMMA CalmFaithful ==
    ASSUME CalendarType, Calm, NEW t \in Tokens, Earlier(t, Now), NEW open,
           Faithful(event, items, t, open)
    PROVE  Faithful(event', items', t, open)
<1>1. Faithful(event', items, t, open)
  BY CalmNow, FaithfulGrows DEF Calm, CalendarType
<1>. QED BY <1>1, FaithfulTouched DEF Calm

LEMMA CalmKept ==
    ASSUME Calm, NEW t, NEW open, Kept(items, seen, t, open)
    PROVE  Kept(items', seen', t, open)
BY KeptTouched DEF Calm

LEMMA CalmRebuild ==
    ASSUME CalendarType, Calm, NEW t \in Tokens, Earlier(t, Now),
           NEW overflow, NEW todo, NEW scanned, NEW open,
           RebuildKnown(event, items, seen, t, overflow, todo, scanned, open)
    PROVE  RebuildKnown(event', items', seen', t, overflow, todo, scanned, open)
<1>1. seen' = seen
  BY DEF Calm
<1>2. ASSUME Met(event, t, todo \cup scanned) PROVE Met(event', t, todo \cup scanned)
  BY <1>2, CalmNow, MetGrows DEF Calm, CalendarType
<1>3. ASSUME Kept(items, seen, t, (Keys \ scanned) \cup open)
      PROVE  Kept(items', seen', t, (Keys \ scanned) \cup open)
  BY <1>3, CalmKept
<1>. QED BY <1>1, <1>2, <1>3 DEF RebuildKnown

LEMMA CalmFirst ==
    ASSUME Calm, NEW t, NEW open, FirstKnown(items, seen, t, open)
    PROVE  FirstKnown(items', seen', t, open)
<1>1. seen' = seen
  BY DEF Calm
<1>. QED BY <1>1, CalmKept DEF FirstKnown

LEMMA CalmCursor ==
    ASSUME StoreType, CalendarType, CursorInv, Calm
    PROVE  CursorInv'
<1>1. cursor' = cursor /\ seen' = seen /\ cursor \in Cursors
  BY DEF Calm, StoreType
<1>2. Now \in Tokens /\ Now' \in Tokens /\ Earlier(Now, Now')
  BY CalmNow
<1>3. CursorOK(cursor, Now) /\ CursorOK(cursor, Now')
  BY <1>1, <1>2, CursorStays DEF CursorInv
<1>4. ASSUME cursor.token # NoToken
      PROVE  TokenKnown(event', items', seen', cursor.token, cursor.overflow, {})
  <2>1. cursor.token \in Tokens /\ Earlier(cursor.token, Now)
    BY <1>1, <1>3, <1>4, ContinuationFields DEF CursorOK
  <2>2. TokenKnown(event, items, seen, cursor.token, cursor.overflow, {})
    BY <1>4 DEF CursorInv
  <2>. QED BY <2>1, <2>2, CalmFaithful, CalmKept DEF TokenKnown
<1>5. ASSUME cursor.cont # NoToken
      PROVE  LET t == cursor.cont.snap  todo == cursor.cont.todo
             IN /\ Faithful(event', items', t, todo)
                /\ cursor.token # NoToken => cursor.overflow \/ Kept(items', seen', t, todo)
                /\ cursor.reset =>
                     RebuildKnown(event', items', seen', t, cursor.overflow, todo,
                                  cursor.scanned, {})
                /\ cursor.token = NoToken /\ ~cursor.reset => FirstKnown(items', seen', t, {})
  <2>1. cursor.cont.snap \in Tokens /\ Earlier(cursor.cont.snap, Now)
    BY <1>1, <1>3, <1>5, ContinuationFields DEF CursorOK
  <2>. QED BY <1>5, <2>1, CalmFaithful, CalmKept, CalmRebuild, CalmFirst DEF CursorInv
<1>6. cursor.complete => Told(items', seen', {})
  BY <1>1, ToldTouched DEF Calm, CursorInv
<1>7. /\ cursor.gen <= MaxGen
      /\ cursor.token = NoToken /\ cursor.cont = NoToken => \A k \in Keys : seen[k] = {}
      /\ cursor.token # NoToken => MarksBefore(seen, cursor.token.epoch + 1)
  BY DEF CursorInv
<1>. QED BY <1>1, <1>3, <1>4, <1>5, <1>6, <1>7 DEF CursorInv

LEMMA CalmSeen ==
    ASSUME StoreType, CalendarType, SeenInv, Calm
    PROVE  SeenInv'
<1> SUFFICES ASSUME NEW k \in Keys, NEW o \in seen[k]
             PROVE  Sound(event', clock', k, o) /\ o.order \in 1..cursor.gen
  BY DEF SeenInv, Calm
<1>1. o \in Observations /\ clock \in Nat /\ clock' \in Nat
  BY DEF StoreType, Calm
<1>2. Sound(event, clock, k, o) /\ o.order \in 1..cursor.gen
  BY DEF SeenInv
<1>3. Sound(event', clock', k, o)
  BY <1>1, <1>2, SoundGrows DEF Calm, CalendarType
<1>. QED BY <1>2, <1>3

\* Two runs that differ at most in the day they reserve on.
SameRun(s, t) ==
    /\ t.phase = s.phase /\ t.base = s.base /\ t.at = s.at /\ t.sync = s.sync
    /\ t.reset = s.reset /\ t.todo = s.todo /\ t.snap = s.snap
    /\ t.got = s.got /\ t.unit = s.unit /\ t.next = s.next

LEMMA SameScan ==
    ASSUME NEW s, NEW t, SameRun(s, t)
    PROVE  (ScansReset(t) <=> ScansReset(s)) /\ Scanned(t) = Scanned(s) /\ Fetched(t) = Fetched(s)
BY DEF SameRun, ScansReset, Scanned, Fetched

LEMMA CalmBase ==
    ASSUME StoreType, CalendarType, RunsType, NEW r \in Runners, BaseInv(r), Calm,
           SameRun(run[r], run'[r])
    PROVE  BaseInv(r)'
<1> DEFINE s == run[r]
<1>1. /\ s.base \in Cursors /\ s.at \in Nat /\ epoch \in Nat /\ epoch' \in Nat
      /\ clock \in Nat /\ clock' \in Nat
      /\ s.base.token # NoToken => s.base.token \in Tokens
  BY RunFields, RunAssumption, ContinuationFields DEF Calm, StoreType, CalendarType
<1>2. CursorOK(s.base, Now')
  BY <1>1, CalmNow, CursorStays DEF BaseInv
<1>3. s.reset => s.base.token.epoch < epoch'
  BY <1>1, TokenFields DEF BaseInv, Calm
<1>4. s.at <= clock'
  BY <1>1 DEF BaseInv, Calm
<1>. QED BY <1>2, <1>3, <1>4 DEF BaseInv, Calm, SameRun

LEMMA CalmList ==
    ASSUME StoreType, CalendarType, RunsType, NEW r \in Runners, ListInv(r), Calm,
           SameRun(run[r], run'[r])
    PROVE  ListInv(r)'
<1> DEFINE s == run[r]
<1>1. /\ DOMAIN s.got \subseteq Keys /\ \A k \in DOMAIN s.got : s.got[k] \in Events
      /\ s.snap # NoToken => s.snap \in Tokens
  BY RunFields
<1>2. s.snap # NoToken => Earlier(s.snap, Now')
  BY <1>1, CalmNow, EarlierTransitive DEF ListInv
<1>3. ASSUME NEW k \in DOMAIN s.got
      PROVE  /\ s.got[k].version \in 1..event'[k].version
             /\ s.got[k].version = event'[k].version /\ event'[k].kind = "live"
                  => s.got[k].kind # "gone"
  <2>1. /\ event[k] \in Events /\ event'[k] \in Events /\ s.got[k].version \in Nat
        /\ event[k].version \in Nat /\ event'[k].version \in Nat /\ k \in Keys
    BY <1>1, StoreAssumption DEF CalendarType, Calm, Events
  <2>2. /\ s.got[k].version \in 1..event[k].version
        /\ s.got[k].version = event[k].version /\ event[k].kind = "live"
             => s.got[k].kind # "gone"
    BY DEF ListInv
  <2>3. \/ event'[k] = event[k] \/ event'[k].version > event[k].version
        \/ event'[k].version = event[k].version /\ event'[k].kind = "near"
    BY <2>1 DEF Calm, Grown
  <2>. QED BY <2>1, <2>2, <2>3
<1>4. /\ s.phase = "read" => s.snap # NoToken
      /\ s.snap = NoToken => s.todo = {} /\ DOMAIN s.got = {} /\ (~s.reset => s.base.cont = NoToken)
      /\ s.snap # NoToken =>
           /\ s.base.token # NoToken => Earlier(s.base.token, s.snap)
           /\ s.reset => s.base.token.epoch < s.snap.epoch
           /\ s.sync # NoToken => \A k \in s.todo : s.snap.at[k] > s.sync.at[k]
      /\ \A k \in DOMAIN s.got : s.got[k].kind \in ObservedKinds
                                 /\ s.got[k].version >= s.snap.at[k]
  BY DEF ListInv
<1>. QED BY <1>2, <1>3, <1>4 DEF ListInv, SameRun

LEMMA CalmGot ==
    ASSUME StoreType, CalendarType, RunsType, NEW r \in Runners, ListInv(r), GotInv(r), Calm,
           SameRun(run[r], run'[r])
    PROVE  GotInv(r)'
<1> DEFINE s == run[r]
           D == DOMAIN s.got
           over == ~s.reset /\ s.base.overflow
<1>1. seen' = seen
  BY DEF Calm
<1>2. \A k \in D : \A o \in seen'[k] : o.version <= s.got[k].version
  BY <1>1 DEF GotInv
<1>3. ASSUME s.snap # NoToken
      PROVE  /\ Faithful(event', items', s.snap, s.todo \cup D)
             /\ s.sync # NoToken => over \/ Kept(items', seen', s.snap, s.todo \cup D)
             /\ ScansReset(s) =>
                  RebuildKnown(event', items', seen', s.snap, over, s.todo, Scanned(s), D)
             /\ s.sync = NoToken /\ ~ScansReset(s) => FirstKnown(items', seen', s.snap, D)
  <2>1. s.snap \in Tokens /\ Earlier(s.snap, Now)
    BY <1>3, RunFields DEF ListInv
  <2>. QED BY <1>3, <2>1, CalmFaithful, CalmKept, CalmRebuild, CalmFirst DEF GotInv
<1>. QED BY <1>2, <1>3, SameScan DEF GotInv, SameRun

LEMMA CalmUnit ==
    ASSUME StoreType, CalendarType, RunsType, NEW r \in Runners, UnitOK(r), Calm,
           SameRun(run[r], run'[r])
    PROVE  UnitOK(r)'
<1> DEFINE s == run[r]
<1>1. /\ clock \in Nat /\ clock' \in Nat /\ clock <= clock'
      /\ DOMAIN s.unit \subseteq Keys /\ \A k \in DOMAIN s.unit : s.unit[k] \in Observations
  BY RunFields DEF StoreType, Calm
<1>2. ASSUME NEW k \in DOMAIN s.unit PROVE Sound(event', clock', k, s.unit[k])
  <2>1. Sound(event, clock, k, s.unit[k])
    BY DEF UnitOK
  <2>. QED BY <1>1, <2>1, SoundGrows DEF Calm, CalendarType
<1>. QED BY <1>2, SameScan DEF UnitOK, SameRun

LEMMA CalmNext ==
    ASSUME StoreType, CalendarType, RunsType, NEW r \in Runners, NextOK(r), Calm,
           SameRun(run[r], run'[r])
    PROVE  NextOK(r)'
<1>1. run[r].next \in Cursors
  BY RunFields
<1>2. CursorOK(run[r].next, Now')
  BY <1>1, CalmNow, CursorStays DEF NextOK
<1>. QED BY <1>2, SameScan DEF NextOK, SameRun

\* The listing's token, which the next cursor keeps in one form or the other.
LEMMA SnapIssued ==
    ASSUME NEW r \in Runners, UnitOK(r), NextOK(r)
    PROVE  Earlier(run[r].snap, Now)
<1>1. CASE run[r].next.cont = NoToken
  BY <1>1 DEF UnitOK, NextOK, CursorOK
<1>2. CASE run[r].next.cont # NoToken
  BY <1>2 DEF NextOK, CursorOK
<1>. QED BY <1>1, <1>2

LEMMA CalmUnitInv ==
    ASSUME StoreType, CalendarType, RunsType, NEW r \in Runners,
           UnitOK(r), NextOK(r), UnitInv(r), Earlier(run[r].snap, Now), Calm,
           SameRun(run[r], run'[r])
    PROVE  UnitInv(r)'
<1> DEFINE s == run[r]
           n == s.next
           D == DOMAIN s.unit
<1>1. seen' = seen
  BY DEF Calm
<1>2. s.snap \in Tokens /\ Earlier(s.snap, Now) /\ D \subseteq Keys
  BY RunFields DEF UnitOK
<1>3. /\ \A k \in D : \A o \in seen'[k] : o.version <= s.unit[k].version
      /\ ScansReset(s) => MarksBefore(seen', s.snap.epoch)
  BY <1>1 DEF UnitInv
<1>4. ASSUME n.cont = NoToken
      PROVE  /\ Faithful(event', items', s.snap, Fetched(s))
             /\ \A k \in D \ Fetched(s) : ~Untouched(event', k, s.snap)
             /\ n.overflow \/ Kept(items', seen', s.snap, D)
  <2>1. \A k \in D \ Fetched(s) : ~Untouched(event', k, s.snap)
    BY <1>2, <1>4, CalmNow, UntouchedBefore DEF UnitInv, Calm, CalendarType
  <2>. QED BY <1>2, <1>4, <2>1, CalmFaithful, CalmKept DEF UnitInv
<1>5. ASSUME n.cont # NoToken
      PROVE  /\ Faithful(event', items', s.snap, n.cont.todo \cup D)
             /\ n.token # NoToken =>
                  n.overflow \/ Kept(items', seen', s.snap, n.cont.todo \cup D)
             /\ n.token # NoToken => n.overflow = s.base.overflow
             /\ n.reset =>
                  RebuildKnown(event', items', seen', s.snap, n.overflow, n.cont.todo,
                               n.scanned, D)
             /\ n.token = NoToken /\ ~n.reset => FirstKnown(items', seen', s.snap, D)
  BY <1>2, <1>5, CalmFaithful, CalmKept, CalmRebuild, CalmFirst DEF UnitInv
<1>6. n.complete => D = Fetched(s) /\ Told(items', seen', D)
  BY <1>1, ToldTouched DEF UnitInv, Calm
<1>. QED BY <1>3, <1>4, <1>5, <1>6, SameScan DEF UnitInv, SameRun

LEMMA CalmRun ==
    ASSUME StoreType, CalendarType, RunsType, NEW r \in Runners, RunGood(r), Calm,
           SameRun(run[r], run'[r])
    PROVE  RunGood(r)'
<1>1. BaseInv(r)'
  BY CalmBase DEF RunGood
<1>2. CASE run[r].phase \in {"fetch", "read"}
  <2>1. ListInv(r) /\ (run[r].base = cursor => GotInv(r))
    BY <1>2 DEF RunGood
  <2>2. ListInv(r)' /\ (run[r].base = cursor => GotInv(r)')
    BY <2>1, CalmList, CalmGot
  <2>. QED BY <1>1, <1>2, <2>2 DEF RunGood, SameRun, Calm
<1>3. CASE run[r].phase = "commit"
  <2>1. UnitOK(r) /\ NextOK(r) /\ (run[r].base = cursor => UnitInv(r))
    BY <1>3 DEF RunGood
  <2>2. UnitOK(r)' /\ NextOK(r)' /\ (run[r].base = cursor => UnitInv(r)')
    BY <2>1, SnapIssued, CalmUnit, CalmNext, CalmUnitInv
  <2>. QED BY <1>1, <1>3, <2>2 DEF RunGood, SameRun, Calm
<1>4. CASE run[r].phase \notin {"fetch", "read", "commit"}
  BY <1>1, <1>4 DEF RunGood, SameRun
<1>. QED BY <1>2, <1>3, <1>4

-----------------------------------------------------------------------------
(* Listing *)

Still == UNCHANGED <<seen, items, fed, cursor, clock, event, epoch>>

LEMMA StillIsCalm ==
    ASSUME StoreType, CalendarType, Still
    PROVE  Calm /\ Now' = Now
<1>1. StoreType' /\ CalendarType'
  BY DEF Still, StoreType, CalendarType
<1>2. clock \in Nat /\ epoch \in Nat
  BY RunAssumption DEF StoreType, CalendarType
<1>. QED BY <1>1, <1>2 DEF Still, Calm, Grown, Touched, Now, Versions

LEMMA MoveIsStill ==
    ASSUME RunsType, NEW r \in Runners, NEW new, Move(r, new)
    PROVE  Still /\ run'[r] = new /\ \A q \in Runners \ {r} : run'[q] = run[q]
BY DEF Move, Still, storeVars, RunsType

\* A run scans when it began a rebuild or goes on with one.
LEMMA WhenScanning ==
    ASSUME RunsType, NEW r \in Runners, BaseInv(r)
    PROVE  /\ ScansReset(run[r]) <=> run[r].reset \/ run[r].base.reset
           /\ run[r].base.reset => ~run[r].reset /\ run[r].sync = NoToken
<1>1. run[r].reset \in BOOLEAN /\ run[r].base.reset \in BOOLEAN
  BY RunFields DEF Cursors
<1>. QED BY <1>1 DEF BaseInv, CursorOK, ScansReset

LEMMA StartGood ==
    ASSUME CalendarInv, NEW r \in Runners, Start(r)
    PROVE  RunGood(r)'
<1> USE DEF CalendarInv
<1> DEFINE s == run'[r]
           c == cursor
<1>1. /\ Still /\ s.phase = "fetch" /\ s.base = c /\ s.at = clock /\ s.reset = FALSE
      /\ s.sync = IF c.mode = "full" THEN NoToken ELSE c.token
      /\ s.todo = IF c.cont = NoToken THEN {} ELSE c.cont.todo
      /\ s.snap = IF c.cont = NoToken THEN NoToken ELSE c.cont.snap
      /\ DOMAIN s.got = {}
  <2> DEFINE new == [IdleRun EXCEPT
                       !.phase = "fetch", !.base = c, !.at = clock,
                       !.sync = IF c.mode = "full" THEN NoToken ELSE c.token,
                       !.todo = IF c.cont = NoToken THEN {} ELSE c.cont.todo,
                       !.snap = IF c.cont = NoToken THEN NoToken ELSE c.cont.snap]
  <2>1. Move(r, new)
    BY DEF Start
  <2>2. Still /\ s = new
    <3> HIDE DEF new
    <3>. QED BY <2>1, MoveIsStill
  <2>. QED BY <2>2 DEF IdleRun, NoUnit
<1>2. /\ Now' = Now /\ cursor' = c /\ clock' = clock /\ epoch' = epoch
      /\ event' = event /\ items' = items /\ seen' = seen
  BY <1>1, StillIsCalm DEF Still
<1>3. /\ c \in Cursors /\ c.gen \in Nat /\ clock \in Nat /\ CursorOK(c, Now)
      /\ c.reset \in BOOLEAN /\ c.overflow \in BOOLEAN
      /\ c.cont # NoToken => c.cont.snap \in Tokens
      /\ c.token # NoToken => c.token \in Tokens
  BY ContinuationFields DEF StoreType, CursorInv, Cursors
<1>4. s.sync = c.token /\ (s.snap = NoToken <=> c.cont = NoToken)
  BY <1>1, <1>3, NullAssumption DEF CursorOK
<1>5. BaseInv(r)'
  <2>1. c.gen < MaxGen
    BY <1>3, RunAssumption DEF Start, Due
  <2>. QED BY <1>1, <1>2, <1>3, <1>4, <2>1 DEF BaseInv
<1>6. ListInv(r)'
  BY <1>1, <1>2, <1>3, <1>4 DEF ListInv, CursorOK
<1>7. GotInv(r)'
  <2>1. ScansReset(s) <=> c.reset
    BY <1>1, <1>3, <1>4 DEF ScansReset, CursorOK
  <2>2. Scanned(s) = c.scanned
    BY <1>1 DEF Scanned
  <2>3. ASSUME s.snap # NoToken
        PROVE  /\ Faithful(event, items, s.snap, s.todo)
               /\ s.sync # NoToken => c.overflow \/ Kept(items, seen, s.snap, s.todo)
               /\ c.reset => RebuildKnown(event, items, seen, s.snap, c.overflow, s.todo,
                                          c.scanned, {})
               /\ s.sync = NoToken /\ ~c.reset => FirstKnown(items, seen, s.snap, {})
    BY <1>1, <1>3, <1>4, <2>3 DEF CursorInv
  <2>4. s.todo \cup DOMAIN s.got = s.todo /\ (~s.reset /\ s.base.overflow) = c.overflow
    BY <1>1, <1>3
  <2>. QED BY <1>1, <1>2, <2>1, <2>2, <2>3, <2>4 DEF GotInv
<1>. QED BY <1>1, <1>5, <1>6, <1>7 DEF RunGood

LEMMA ExpiresGood ==
    ASSUME CalendarInv, NEW r \in Runners, RunGood(r), ListingExpires(r)
    PROVE  RunGood(r)'
<1> USE DEF CalendarInv
<1> DEFINE s == run[r]
           n == run'[r]
<1>1. s \in RunRecords
  BY RunFields
<1>2. /\ Still /\ n.phase = "fetch" /\ n.base = s.base /\ n.at = s.at /\ n.reset = TRUE
      /\ n.sync = NoToken /\ n.todo = {} /\ n.snap = NoToken /\ DOMAIN n.got = {}
  <2> DEFINE new == [s EXCEPT !.sync = NoToken, !.reset = TRUE, !.todo = {},
                              !.snap = NoToken, !.pages = 0, !.got = NoUnit]
  <2>1. Move(r, new) /\ s.phase = "fetch"
    BY DEF ListingExpires
  <2>2. Still /\ n = new
    <3> HIDE DEF new
    <3>. QED BY <2>1, MoveIsStill
  <2>. QED BY <1>1, <2>1, <2>2 DEF RunRecords, NoUnit
<1>3. /\ Now' = Now /\ cursor' = cursor /\ clock' = clock /\ epoch' = epoch
      /\ event' = event /\ items' = items /\ seen' = seen
  BY <1>2, StillIsCalm DEF Still
<1>4. BaseInv(r)'
  BY <1>2, <1>3 DEF RunGood, BaseInv, ListingExpires, Expired
<1>5. ListInv(r)' /\ GotInv(r)'
  BY <1>2, <1>3 DEF ListInv, GotInv
<1>. QED BY <1>2, <1>4, <1>5 DEF RunGood

\* A page: the keys it was still to show (left), those purged meanwhile, and
\* what the run has then.
FetchedPage(s, n, left, purged, page) ==
    LET shown == {k \in page : Listed(s.sync, k) /\ k \notin purged}
    IN /\ n.base = s.base /\ n.at = s.at /\ n.sync = s.sync /\ n.reset = s.reset
       /\ n.phase \in {"fetch", "read"} /\ s.phase = "fetch"
       /\ purged \subseteq {k \in Keys : s.sync = NoToken /\ event[k].kind = "gone"}
       /\ left = IF s.snap = NoToken THEN {k \in Keys : Listed(s.sync, k)} \ purged ELSE s.todo
       /\ page \subseteq left /\ n.todo = left \ page
       /\ n.snap = IF s.snap = NoToken THEN Now ELSE s.snap
       /\ DOMAIN n.got = DOMAIN s.got \cup shown
       /\ \A k \in DOMAIN n.got : n.got[k] = IF k \in shown THEN event[k] ELSE s.got[k]

LEMMA FetchTakes ==
    ASSUME CalendarType, RunsType, NEW r \in Runners, FetchPage(r)
    PROVE  /\ Still /\ run'[r] \in RunRecords
           /\ \E left, purged, page : FetchedPage(run[r], run'[r], left, purged, page)
<1> DEFINE s == run[r]
           fresh == s.snap = NoToken
           listed == {k \in Keys : Listed(s.sync, k)}
           token == IF fresh THEN [at |-> Versions, epoch |-> epoch] ELSE s.snap
<1>1. PICK purged \in SUBSET {k \in Keys : s.sync = NoToken /\ event[k].kind = "gone"} :
           \E page \in Portions(IF fresh THEN listed \ purged ELSE s.todo) :
             LET todo == (IF fresh THEN listed \ purged ELSE s.todo) \ page
                 shown == {k \in page : Listed(s.sync, k) /\ k \notin purged}
             IN Move(r, [s EXCEPT
                  !.phase = IF todo = {} \/ s.pages + 1 = MaxPages THEN "read" ELSE "fetch",
                  !.todo = todo, !.snap = token, !.pages = @ + 1,
                  !.got = [k \in DOMAIN s.got \cup shown |->
                             IF k \in shown THEN event[k] ELSE s.got[k]]])
  BY DEF FetchPage
<1> DEFINE left == IF fresh THEN listed \ purged ELSE s.todo
<1>2. PICK page \in Portions(left) :
             LET todo == left \ page
                 shown == {k \in page : Listed(s.sync, k) /\ k \notin purged}
             IN Move(r, [s EXCEPT
                  !.phase = IF todo = {} \/ s.pages + 1 = MaxPages THEN "read" ELSE "fetch",
                  !.todo = todo, !.snap = token, !.pages = @ + 1,
                  !.got = [k \in DOMAIN s.got \cup shown |->
                             IF k \in shown THEN event[k] ELSE s.got[k]]])
  BY <1>1
<1> DEFINE todo == left \ page
           shown == {k \in page : Listed(s.sync, k) /\ k \notin purged}
           got == [k \in DOMAIN s.got \cup shown |-> IF k \in shown THEN event[k] ELSE s.got[k]]
           ph == IF todo = {} \/ s.pages + 1 = MaxPages THEN "read" ELSE "fetch"
           new == [s EXCEPT !.phase = ph, !.todo = todo, !.snap = token, !.pages = @ + 1,
                            !.got = got]
<1>3. Move(r, new)
  BY <1>2
<1>4. Still /\ run'[r] = new
  <2> HIDE DEF new
  <2>. QED BY <1>3, MoveIsStill
<1>5. page \subseteq left
  BY DEF Portions
<1>6. s \in RunRecords /\ s.phase = "fetch"
  BY RunFields DEF FetchPage
<1>7. /\ new.base = s.base /\ new.at = s.at /\ new.sync = s.sync /\ new.reset = s.reset
      /\ new.phase = ph /\ new.todo = todo /\ new.snap = token /\ new.got = got
  <2> HIDE DEF got, todo, token, ph
  <2>. QED BY <1>6 DEF RunRecords
<1>8. ph \in {"fetch", "read"} /\ token = IF fresh THEN Now ELSE s.snap
  BY DEF Now
<1>9. DOMAIN got = DOMAIN s.got \cup shown
      /\ \A k \in DOMAIN got : got[k] = IF k \in shown THEN event[k] ELSE s.got[k]
  <2> HIDE DEF shown
  <2>. QED OBVIOUS
<1>10. FetchedPage(s, run'[r], left, purged, page)
  <2> HIDE DEF new, got, token, ph
  <2>. QED BY <1>4, <1>5, <1>6, <1>7, <1>8, <1>9 DEF FetchedPage
<1>11. run'[r] \in RunRecords
  <2>1. left \subseteq Keys /\ todo \subseteq Keys /\ shown \subseteq Keys
    BY <1>5, RunFields
  <2>2. token \in TokenOrNone
    BY <1>6, <1>8, NowIsToken DEF TokenOrNone, RunRecords
  <2>3. got \in [DOMAIN s.got \cup shown -> Events]
    BY <2>1, RunFields DEF CalendarType
  <2>4. DOMAIN s.got \cup shown \in SUBSET Keys
    BY <2>1, RunFields
  <2>5. got \in Partial(Events)
    <3> HIDE DEF got, shown
    <3>. QED BY <2>3, <2>4 DEF Partial
  <2>6. ph \in {"idle", "fetch", "read", "commit", "over"} /\ s.pages + 1 \in Nat
    BY <1>6 DEF RunRecords
  <2>. HIDE DEF got, todo, token, ph
  <2>7. new \in RunRecords
    <3>. HIDE DEF s
    <3>. QED BY <1>6, <2>1, <2>2, <2>5, <2>6 DEF RunRecords
  <2>. QED BY <1>4, <2>7
<1>. QED BY <1>4, <1>10, <1>11

LEMMA ListedIsReal ==
    ASSUME CalendarType, NEW t, t # NoToken => t \in Tokens, NEW k \in Keys
    PROVE  /\ Listed(t, k) => event[k].version >= 1 /\ event[k].kind \in ObservedKinds
           /\ event[k].version \in Nat /\ event[k] \in Events
           /\ t = NoToken /\ event[k].kind = "live" => Listed(t, k)
           /\ t # NoToken => (Listed(t, k) <=> event[k].version > t.at[k]) /\ t.at[k] \in Nat
<1>1. event[k] \in Events /\ event[k].version \in Nat
  BY StoreAssumption DEF CalendarType, Events
<1>2. event[k].version = 0 => event[k].kind = "gone"
  BY DEF CalendarType
<1>3. event[k].version # 0 => event[k].kind \in ObservedKinds
  BY DEF CalendarType
<1>4. t # NoToken => t.at[k] \in Nat
  BY TokenFields
<1>5. Listed(t, k) => event[k].version >= 1
  BY <1>1, <1>4 DEF Listed, InWindow
<1>. QED BY <1>1, <1>2, <1>3, <1>4, <1>5 DEF Listed, InWindow

\* What a page leaves out is still to be listed or is not listed any more.
LEMMA NotGot ==
    ASSUME NEW s, NEW n, NEW left, NEW purged, NEW page,
           FetchedPage(s, n, left, purged, page), NEW k \in Keys,
           k \in left, k \notin n.todo, k \notin DOMAIN n.got
    PROVE  ~Listed(s.sync, k) \/ (s.sync = NoToken /\ event[k].kind = "gone")
BY DEF FetchedPage

LEMMA FetchList ==
    ASSUME CalendarInv, NEW r \in Runners, BaseInv(r), ListInv(r), Still,
           NEW left, NEW purged, NEW page, FetchedPage(run[r], run'[r], left, purged, page),
           run'[r] \in RunRecords
    PROVE  ListInv(r)' /\ run'[r].snap \in Tokens /\ Earlier(run'[r].snap, Now)
<1> USE DEF CalendarInv
<1> DEFINE s == run[r]
           n == run'[r]
           shown == {k \in page : Listed(s.sync, k) /\ k \notin purged}
<1>1. /\ s.snap # NoToken => s.snap \in Tokens
      /\ s.sync # NoToken => s.sync \in Tokens
      /\ s.base.token # NoToken => s.base.token \in Tokens
      /\ DOMAIN s.got \subseteq Keys /\ s.todo \subseteq Keys /\ s.reset \in BOOLEAN
  BY RunFields, ContinuationFields
<1>2. /\ Now \in Tokens /\ Now.epoch = epoch /\ epoch \in Nat
      /\ \A k \in Keys : Now.at[k] = event[k].version /\ event[k].version \in Nat
  BY NowIsToken, RunAssumption DEF CalendarType
<1>3. Earlier(Now, Now)
  BY <1>2 DEF Earlier
<1>4. /\ n.snap \in Tokens /\ Earlier(n.snap, Now)
      /\ \A k \in Keys : n.snap.at[k] \in Nat /\ n.snap.at[k] <= event[k].version
  <2>1. n.snap \in Tokens /\ Earlier(n.snap, Now)
    BY <1>1, <1>2, <1>3 DEF FetchedPage, ListInv
  <2>. QED BY <2>1, <1>2, TokenFields DEF Earlier
<1>5. left \subseteq Keys /\ page \subseteq Keys
  BY <1>1 DEF FetchedPage
<1>6. s.base.token # NoToken => Earlier(s.base.token, n.snap)
  <2>1. s.base.token # NoToken => Earlier(s.base.token, Now)
    BY DEF BaseInv, CursorOK
  <2>. QED BY <2>1 DEF FetchedPage, ListInv
<1>7. s.reset => s.base.token.epoch < n.snap.epoch
  BY <1>2 DEF FetchedPage, ListInv, BaseInv
<1>8. ASSUME s.sync # NoToken, NEW k \in n.todo PROVE n.snap.at[k] > s.sync.at[k]
  <2>1. k \in left /\ k \in Keys
    BY <1>5 DEF FetchedPage
  <2>2. CASE s.snap = NoToken
    <3>1. Listed(s.sync, k)
      BY <2>1, <2>2 DEF FetchedPage
    <3>2. n.snap = Now
      BY <2>2 DEF FetchedPage
    <3>. QED BY <1>1, <1>2, <1>8, <2>1, <3>1, <3>2, ListedIsReal
  <2>3. CASE s.snap # NoToken
    <3>1. n.snap = s.snap /\ k \in s.todo
      BY <2>1, <2>3 DEF FetchedPage
    <3>. QED BY <1>8, <2>3, <3>1 DEF ListInv
  <2>. QED BY <2>2, <2>3
<1>9. ASSUME NEW k \in DOMAIN n.got
      PROVE  /\ n.got[k].version \in 1..event[k].version /\ n.got[k].kind \in ObservedKinds
             /\ n.got[k].version = event[k].version /\ event[k].kind = "live"
                  => n.got[k].kind # "gone"
             /\ n.got[k].version >= n.snap.at[k]
  <2>1. CASE k \in shown
    <3>1. k \in Keys /\ Listed(s.sync, k) /\ n.got[k] = event[k]
      BY <1>5, <1>9, <2>1 DEF FetchedPage
    <3>2. event[k].version >= 1 /\ event[k].kind \in ObservedKinds /\ event[k].version \in Nat
      BY <1>1, <3>1, ListedIsReal
    <3>. QED BY <1>4, <3>1, <3>2
  <2>2. CASE k \notin shown
    <3>1. k \in DOMAIN s.got /\ n.got[k] = s.got[k]
      BY <1>9, <2>2 DEF FetchedPage
    <3>2. s.snap # NoToken /\ n.snap = s.snap
      BY <3>1 DEF FetchedPage, ListInv
    <3>. QED BY <3>1, <3>2 DEF ListInv
  <2>. QED BY <2>1, <2>2
<1>10. /\ n.base = s.base /\ n.sync = s.sync /\ n.reset = s.reset
       /\ Now' = Now /\ event' = event /\ epoch' = epoch
  BY StillIsCalm DEF FetchedPage, Still
<1>11. n.snap # NoToken
  BY <1>4, NullAssumption
<1>. QED BY <1>4, <1>6, <1>7, <1>8, <1>9, <1>10, <1>11 DEF ListInv

LEMMA FetchGot ==
    ASSUME CalendarInv, NEW r \in Runners, BaseInv(r), ListInv(r), GotInv(r), Still,
           NEW left, NEW purged, NEW page, FetchedPage(run[r], run'[r], left, purged, page),
           run[r].base = cursor, run'[r].snap \in Tokens, Earlier(run'[r].snap, Now)
    PROVE  GotInv(r)'
<1> USE DEF CalendarInv
<1> DEFINE s == run[r]
           n == run'[r]
           D == DOMAIN n.got
           t == n.snap
           over == ~s.reset /\ s.base.overflow
           shown == {k \in page : Listed(s.sync, k) /\ k \notin purged}
<1>1. /\ s.snap # NoToken => s.snap \in Tokens
      /\ s.sync # NoToken => s.sync \in Tokens
      /\ cursor.token # NoToken => cursor.token \in Tokens
      /\ DOMAIN s.got \subseteq Keys /\ s.todo \subseteq Keys /\ s.reset \in BOOLEAN
      /\ cursor.reset \in BOOLEAN
  BY RunFields, ContinuationFields DEF StoreType, Cursors
<1>2. /\ Now.epoch = epoch /\ epoch \in Nat
      /\ \A k \in Keys : /\ Now.at[k] = event[k].version /\ event[k].version \in Nat
                         /\ t.at[k] \in Nat /\ t.at[k] <= event[k].version
  BY NowIsToken, TokenFields, RunAssumption DEF CalendarType, Earlier
<1>3. /\ n.base = cursor /\ n.sync = s.sync /\ n.reset = s.reset
      /\ n.todo \subseteq left /\ DOMAIN s.got \subseteq D /\ left \subseteq Keys
  BY <1>1 DEF FetchedPage
\* A key that is still listed was met.
<1>4. ASSUME NEW k \in Keys, k \in left, k \notin n.todo \cup D, Listed(s.sync, k)
      PROVE  s.sync = NoToken /\ event[k].kind = "gone"
  BY <1>4, NotGot
<1>5. ASSUME s.snap = NoToken, NEW k \in Keys, k \notin n.todo \cup D, Listed(s.sync, k)
      PROVE  s.sync = NoToken /\ event[k].kind = "gone"
  <2>1. CASE k \in purged
    BY <2>1 DEF FetchedPage
  <2>2. CASE k \notin purged
    <3>1. k \in left
      BY <1>5, <2>2 DEF FetchedPage
    <3>. QED BY <1>4, <1>5, <3>1
  <2>. QED BY <2>1, <2>2
<1>6. s.snap = NoToken => t = Now /\ s.todo = {} /\ DOMAIN s.got = {}
                          /\ (~s.reset => cursor.cont = NoToken)
  BY DEF FetchedPage, ListInv
<1>7. s.snap # NoToken => t = s.snap /\ left = s.todo
  BY DEF FetchedPage
\* What is neither open nor met was not open before, or is not listed.
<1>8. ASSUME NEW k \in Keys, k \notin n.todo \cup D, s.snap # NoToken, k \in s.todo
      PROVE  ~Listed(s.sync, k) \/ (s.sync = NoToken /\ event[k].kind = "gone")
  BY <1>4, <1>7, <1>8
<1>9. ASSUME NEW k \in Keys, s.sync # NoToken, s.snap # NoToken, k \in s.todo
      PROVE  Listed(s.sync, k)
  <2>1. t.at[k] > s.sync.at[k]
    BY <1>7, <1>9 DEF ListInv
  <2>. QED BY <1>1, <1>2, <1>9, <2>1, ListedIsReal
<1>10. ASSUME NEW k \in Keys, s.sync # NoToken, s.snap = NoToken, ~Listed(s.sync, k)
       PROVE  s.sync = cursor.token /\ t.at[k] = event[k].version /\ cursor.token.at[k] = t.at[k]
  <2>1. s.sync = cursor.token /\ Earlier(cursor.token, Now)
    BY <1>10 DEF BaseInv, CursorOK
  <2>2. cursor.token.at[k] <= event[k].version /\ cursor.token.at[k] \in Nat
    BY <1>1, <1>2, <1>10, <2>1, TokenFields DEF Earlier
  <2>. QED BY <1>1, <1>2, <1>6, <1>10, <2>1, <2>2, ListedIsReal
<1>11. ASSUME NEW k \in Keys, Untouched(event, k, t), s.sync = NoToken
       PROVE  Listed(s.sync, k) /\ event[k].kind # "gone"
  BY <1>1, <1>11, ListedIsReal DEF Untouched
<1>12. Faithful(event, items, t, n.todo \cup D)
  <2> SUFFICES ASSUME NEW k \in Keys, Untouched(event, k, t), k \notin n.todo \cup D
               PROVE  Shows(event, items, k)
    BY DEF Faithful
  <2>1. CASE s.sync = NoToken
    <3>1. s.snap # NoToken /\ k \notin s.todo
      BY <1>5, <1>8, <1>11, <2>1
    <3>2. Faithful(event, items, s.snap, s.todo \cup DOMAIN s.got) /\ t = s.snap
      BY <1>7, <3>1 DEF GotInv
    <3>. QED BY <1>3, <3>1, <3>2 DEF Faithful
  <2>2. CASE s.sync # NoToken /\ s.snap # NoToken
    <3>1. k \notin s.todo
      BY <1>8, <1>9, <2>2
    <3>2. Faithful(event, items, s.snap, s.todo \cup DOMAIN s.got) /\ t = s.snap
      BY <1>7, <2>2 DEF GotInv
    <3>. QED BY <1>3, <3>1, <3>2 DEF Faithful
  <2>3. CASE s.sync # NoToken /\ s.snap = NoToken
    <3>1. ~Listed(s.sync, k)
      BY <1>5, <2>3
    <3>2. Untouched(event, k, cursor.token) /\ cursor.token # NoToken
      BY <1>10, <2>3, <3>1 DEF Untouched
    <3>. QED BY <3>2 DEF CursorInv, TokenKnown, Faithful
  <2>. QED BY <2>1, <2>2, <2>3
<1>13. ASSUME s.sync # NoToken PROVE over \/ Kept(items, seen, t, n.todo \cup D)
  <2>1. CASE s.snap # NoToken
    <3>1. over \/ Kept(items, seen, s.snap, s.todo \cup DOMAIN s.got)
      BY <1>13, <2>1 DEF GotInv
    <3>2. \A k \in Keys : k \notin n.todo \cup D => k \notin s.todo \cup DOMAIN s.got
      BY <1>3, <1>8, <1>9, <1>13, <2>1
    <3>. QED BY <1>7, <2>1, <3>1, <3>2 DEF Kept
  <2>2. CASE s.snap = NoToken
    <3>1. s.sync = cursor.token /\ ~s.reset
      BY <1>13 DEF BaseInv
    <3>2. over \/ Kept(items, seen, cursor.token, {})
      BY <1>1, <1>13, <3>1 DEF CursorInv, TokenKnown
    <3>3. ASSUME Kept(items, seen, cursor.token, {}) PROVE Kept(items, seen, t, n.todo \cup D)
      <4> SUFFICES ASSUME NEW k \in Keys, IsActive(items, k), k \notin n.todo \cup D
                   PROVE  UpTo(items[k], seen[k], k, t)
        BY DEF Kept
      <4>1. t.at[k] = cursor.token.at[k]
        BY <1>5, <1>10, <1>13, <2>2
      <4>2. UpTo(items[k], seen[k], k, cursor.token)
        BY <3>3 DEF Kept
      <4>. QED BY <4>1, <4>2 DEF UpTo
    <3>. QED BY <3>2, <3>3
  <2>. QED BY <2>1, <2>2
<1>14. ASSUME ScansReset(s)
       PROVE  RebuildKnown(event, items, seen, t, over, n.todo, Scanned(n), D)
  <2>1. s.sync = NoToken /\ (s.snap = NoToken => s.reset)
    <3>1. s.reset \/ cursor.reset
      BY <1>14, WhenScanning
    <3>2. s.reset => s.sync = NoToken
      BY DEF BaseInv
    <3>3. cursor.reset => s.sync = NoToken /\ cursor.cont # NoToken
      BY <1>1, WhenScanning DEF CursorInv, CursorOK
    <3>. QED BY <1>6, <3>1, <3>2, <3>3
  <2>2. Scanned(n) = (IF s.reset THEN {} ELSE cursor.scanned) \cup D
        /\ Scanned(s) \subseteq Scanned(n) /\ (s.reset => Scanned(n) = D)
    BY <1>3 DEF Scanned
  <2>3. MarksBefore(seen, t.epoch)
    <3>1. CASE s.snap # NoToken
      BY <1>7, <1>14, <3>1 DEF GotInv, RebuildKnown
    <3>2. CASE s.snap = NoToken
      <4>1. cursor.token # NoToken /\ cursor.token.epoch < epoch /\ t.epoch = epoch
        BY <1>2, <1>6, <2>1, <3>2 DEF BaseInv
      <4>2. MarksBefore(seen, cursor.token.epoch + 1) /\ cursor.token.epoch \in Nat
        BY <1>1, <4>1, TokenFields DEF CursorInv
      <4>3. ASSUME NEW k \in Keys, NEW o \in seen[k], Synthetic(o)
            PROVE  o.rev[2].epoch < t.epoch
        <5>1. Shaped(o)
          BY DEF SeenInv, Sound
        <5>2. o.rev[2].epoch \in Nat /\ o.rev[2].epoch < cursor.token.epoch + 1
          BY <4>2, <4>3, <5>1, MarkShape, TokenFields DEF MarksBefore
        <5>. QED BY <1>2, <4>1, <4>2, <5>2
      <4>. QED BY <4>3 DEF MarksBefore
    <3>. QED BY <3>1, <3>2
  <2>4. over \/ Met(event, t, n.todo \cup Scanned(n))
    <3> SUFFICES ASSUME ~over, NEW k \in Keys, Untouched(event, k, t),
                        k \notin n.todo \cup Scanned(n)
                 PROVE  FALSE
      BY DEF Met
    <3>1. k \notin n.todo \cup D
      BY <2>2
    <3>2. s.snap # NoToken /\ k \notin s.todo
      BY <1>5, <1>8, <1>11, <2>1, <3>1
    <3>3. k \in s.todo \cup Scanned(s)
      BY <1>7, <1>14, <3>2 DEF GotInv, RebuildKnown, Met
    <3>. QED BY <2>2, <3>2, <3>3
  <2>5. over \/ Kept(items, seen, t, (Keys \ Scanned(n)) \cup D)
    <3>1. CASE s.snap # NoToken
      <4>1. over \/ Kept(items, seen, t, (Keys \ Scanned(s)) \cup DOMAIN s.got)
        BY <1>7, <1>14, <3>1 DEF GotInv, RebuildKnown
      <4>2. \A k \in Keys : k \notin (Keys \ Scanned(n)) \cup D
                              => k \notin (Keys \ Scanned(s)) \cup DOMAIN s.got
        BY <1>3, <2>2 DEF Scanned
      <4>. QED BY <4>1, <4>2 DEF Kept
    <3>2. CASE s.snap = NoToken
      BY <2>1, <2>2, <3>2 DEF Kept
    <3>. QED BY <3>1, <3>2
  <2>. QED BY <2>3, <2>4, <2>5 DEF RebuildKnown
<1>15. ASSUME s.sync = NoToken, ~ScansReset(s)
       PROVE  FirstKnown(items, seen, t, D)
  <2>1. CASE s.snap # NoToken
    BY <1>3, <1>7, <1>15, <2>1 DEF GotInv, FirstKnown, Kept
  <2>2. CASE s.snap = NoToken
    <3>1. cursor.token = NoToken /\ cursor.cont = NoToken
      BY <1>6, <1>15, <2>2, WhenScanning DEF BaseInv
    <3>2. \A k \in Keys : seen[k] = {} /\ items[k] = NoItem
      BY <3>1 DEF CursorInv, ItemsInv
    <3>. QED BY <3>2 DEF FirstKnown, Kept, NoMarks, IsActive
  <2>. QED BY <2>1, <2>2
<1>16. ASSUME NEW k \in D, NEW o \in seen[k] PROVE o.version <= n.got[k].version
  <2>1. CASE k \in shown
    <3>1. k \in Keys /\ n.got[k] = event[k]
      BY <1>3, <1>16, <2>1 DEF FetchedPage
    <3>2. o.version \in 1..event[k].version /\ o \in Observations
      BY <3>1 DEF SeenInv, Sound, StoreType
    <3>. QED BY <1>2, <3>1, <3>2, ObservationFields
  <2>2. CASE k \notin shown
    <3>1. k \in DOMAIN s.got /\ n.got[k] = s.got[k]
      BY <1>16, <2>2 DEF FetchedPage
    <3>. QED BY <3>1 DEF GotInv
  <2>. QED BY <2>1, <2>2
<1>17. ScansReset(n) <=> ScansReset(s)
  BY <1>3 DEF ScansReset, FetchedPage
<1>18. items' = items /\ seen' = seen /\ event' = event
  BY DEF Still
<1>. QED BY <1>3, <1>12, <1>13, <1>14, <1>15, <1>16, <1>17, <1>18 DEF GotInv

LEMMA FetchGood ==
    ASSUME CalendarInv, NEW r \in Runners, RunGood(r), FetchPage(r)
    PROVE  RunGood(r)' /\ run'[r] \in RunRecords
<1> USE DEF CalendarInv
<1>1. Still /\ run'[r] \in RunRecords
  BY FetchTakes
<1>2. PICK left, purged, page : FetchedPage(run[r], run'[r], left, purged, page)
  BY FetchTakes
<1>3. BaseInv(r) /\ ListInv(r) /\ (run[r].base = cursor => GotInv(r))
  BY <1>2 DEF RunGood, FetchedPage
<1>4. ListInv(r)' /\ run'[r].snap \in Tokens /\ Earlier(run'[r].snap, Now)
  BY <1>1, <1>2, <1>3, FetchList
<1>5. run[r].base = cursor => GotInv(r)'
  BY <1>1, <1>2, <1>3, <1>4, FetchGot
<1>6. BaseInv(r)'
  BY <1>1, <1>2, <1>3, StillIsCalm DEF BaseInv, FetchedPage, Still
<1>. QED BY <1>1, <1>2, <1>4, <1>5, <1>6 DEF RunGood, FetchedPage, Still

-----------------------------------------------------------------------------
(* The source unit *)

OverAt(s) ==
    \/ ScansReset(s) /\ Cardinality(Scanned(s)) > MaxSeen
    \/ ~s.reset /\ s.base.overflow

\* A unit read: what the run will persist, with the keys it marked and those of
\* a rebuild it remembers.
ReadUnit(s, n, marked, kept) ==
    /\ n.base = s.base /\ n.at = s.at /\ n.sync = s.sync /\ n.reset = s.reset
    /\ n.todo = s.todo /\ n.snap = s.snap /\ n.phase = "commit" /\ s.phase = "read"
    /\ kept \in Merged(s)
    /\ marked = IF ScansReset(s) /\ s.todo = {} /\ ~OverAt(s) THEN Unmet(s) ELSE {}
    /\ DOMAIN n.unit = DOMAIN s.got \cup marked /\ DOMAIN n.got = {}
    /\ \A k \in DOMAIN n.unit : n.unit[k] = IF k \in DOMAIN s.got THEN Observation(s, k)
                                             ELSE Mark(s, k)
    /\ n.next.token = NextToken(s, ScansReset(s))
    /\ n.next.cont = IF s.todo = {} THEN NoToken ELSE [todo |-> s.todo, snap |-> s.snap]
    /\ n.next.mode = IF s.todo = {} THEN "none"
                     ELSE IF s.sync = NoToken THEN "full" ELSE "incremental"
    /\ n.next.reset = (ScansReset(s) /\ s.todo # {})
    /\ n.next.scanned = IF ScansReset(s) /\ s.todo # {} THEN kept ELSE {}
    /\ n.next.overflow = OverAt(s)
    /\ n.next.complete = (s.todo = {} /\ ~OverAt(s) /\ Unresolved(s, marked) = {})
    /\ n.next.gen = 0

LEMMA ReadTakes ==
    ASSUME RunsType, NEW r \in Runners, ListInv(r), Read(r)
    PROVE  /\ Still /\ \E marked, kept : ReadUnit(run[r], run'[r], marked, kept)
           /\ run'[r].unit = [k \in DOMAIN run'[r].unit |-> run'[r].unit[k]]
           /\ run'[r].unit \in Partial(Observations) => run'[r] \in RunRecords
<1> DEFINE s == run[r]
           complete == CoverageComplete(s)
           scanning == ScansReset(s)
           over == \/ scanning /\ Cardinality(Scanned(s)) > MaxSeen
                   \/ ~s.reset /\ s.base.overflow
           marked == IF scanning /\ complete /\ ~over THEN Unmet(s) ELSE {}
           unit == [k \in DOMAIN s.got \cup marked |->
                      IF k \in DOMAIN s.got THEN Observation(s, k) ELSE Mark(s, k)]
<1>1. PICK kept \in Merged(s) :
        Move(r, [s EXCEPT
             !.phase = "commit", !.unit = unit, !.got = NoUnit,
             !.next = [token |-> NextToken(s, scanning), gen |-> 0,
                       cont |-> IF complete THEN NoToken
                                ELSE [todo |-> s.todo, snap |-> s.snap],
                       mode |-> IF complete THEN "none"
                                ELSE IF s.sync = NoToken THEN "full" ELSE "incremental",
                       reset |-> scanning /\ ~complete,
                       scanned |-> IF scanning /\ ~complete THEN kept ELSE {},
                       overflow |-> over,
                       complete |-> complete /\ ~over /\ Unresolved(s, marked) = {}]])
  BY DEF Read
<1> DEFINE next == [token |-> NextToken(s, scanning), gen |-> 0,
                    cont |-> IF complete THEN NoToken
                             ELSE [todo |-> s.todo, snap |-> s.snap],
                    mode |-> IF complete THEN "none"
                             ELSE IF s.sync = NoToken THEN "full" ELSE "incremental",
                    reset |-> scanning /\ ~complete,
                    scanned |-> IF scanning /\ ~complete THEN kept ELSE {},
                    overflow |-> over,
                    complete |-> complete /\ ~over /\ Unresolved(s, marked) = {}]
           new == [s EXCEPT !.phase = "commit", !.unit = unit, !.got = NoUnit, !.next = next]
<1>2. Move(r, new)
  BY <1>1
<1>3. Still /\ run'[r] = new
  <2> HIDE DEF new
  <2>. QED BY <1>2, MoveIsStill
<1>4. s \in RunRecords /\ s.phase = "read"
  BY RunFields DEF Read
<1>5. /\ new.base = s.base /\ new.at = s.at /\ new.sync = s.sync /\ new.reset = s.reset
      /\ new.todo = s.todo /\ new.snap = s.snap /\ new.phase = "commit"
      /\ new.unit = unit /\ new.next = next /\ DOMAIN new.got = {}
  <2> HIDE DEF unit, next
  <2>. QED BY <1>4 DEF RunRecords, NoUnit
<1>6. /\ DOMAIN unit = DOMAIN s.got \cup marked
      /\ \A k \in DOMAIN unit : unit[k] = IF k \in DOMAIN s.got THEN Observation(s, k)
                                           ELSE Mark(s, k)
  <2> HIDE DEF marked
  <2>. QED OBVIOUS
<1>7. /\ next.token = NextToken(s, scanning) /\ next.gen = 0
      /\ next.cont = (IF complete THEN NoToken ELSE [todo |-> s.todo, snap |-> s.snap])
      /\ next.mode = (IF complete THEN "none"
                      ELSE IF s.sync = NoToken THEN "full" ELSE "incremental")
      /\ next.reset = (scanning /\ ~complete)
      /\ next.scanned = (IF scanning /\ ~complete THEN kept ELSE {})
      /\ next.overflow = over
      /\ next.complete = (complete /\ ~over /\ Unresolved(s, marked) = {})
  <2> HIDE DEF marked, scanning, complete, over
  <2>. QED OBVIOUS
<1>8. over = OverAt(s) /\ (complete <=> s.todo = {})
  BY DEF OverAt, CoverageComplete
<1>9. ReadUnit(s, run'[r], marked, kept)
  <2>1. marked = IF ScansReset(s) /\ s.todo = {} /\ ~OverAt(s) THEN Unmet(s) ELSE {}
    BY <1>8
  <2> HIDE DEF new, unit, next, over, complete, marked
  <2>. QED BY <1>3, <1>4, <1>5, <1>6, <1>7, <1>8, <2>1 DEF ReadUnit
<1>10. next \in Cursors
  <2>1. /\ s.snap \in Tokens /\ s.base.token \in TokenOrNone /\ s.todo \subseteq Keys
        /\ s.reset \in BOOLEAN /\ s.base.overflow \in BOOLEAN /\ s.base.reset \in BOOLEAN
    BY <1>4, RunFields DEF ListInv, Cursors
  <2>2. NextToken(s, scanning) \in TokenOrNone
    BY <2>1 DEF NextToken, TokenOrNone
  <2>3. [todo |-> s.todo, snap |-> s.snap] \in Continuations
    BY <2>1 DEF Continuations
  <2>4. kept \subseteq Keys
    <3>1. Scanned(s) \subseteq Keys
      BY RunFields, ContinuationFields DEF Scanned
    <3>. QED BY <3>1 DEF Merged
  <2>5. scanning \in BOOLEAN /\ complete \in BOOLEAN /\ over \in BOOLEAN
    BY DEF ScansReset, CoverageComplete
  <2>6. (complete /\ ~over /\ Unresolved(s, marked) = {}) \in BOOLEAN
    OBVIOUS
  <2>. HIDE DEF complete, scanning, over, marked
  <2>. QED BY <2>2, <2>3, <2>4, <2>5, <2>6 DEF Cursors
<1>11. unit \in Partial(Observations) => new \in RunRecords
  <2>1. NoUnit \in Partial(Events)
    <3>1. NoUnit \in [{} -> Events] /\ {} \in SUBSET Keys
      BY DEF NoUnit
    <3>. QED BY <3>1 DEF Partial
  <2>. HIDE DEF unit, next
  <2>. QED BY <1>4, <1>10, <2>1 DEF RunRecords
<1>12. unit = [k \in DOMAIN unit |-> unit[k]]
  OBVIOUS
<1>13. /\ run'[r].unit = [k \in DOMAIN run'[r].unit |-> run'[r].unit[k]]
       /\ run'[r].unit \in Partial(Observations) => run'[r] \in RunRecords
  <2>1. run'[r].unit = unit
    BY <1>3, <1>5
  <2> HIDE DEF unit, new
  <2>. QED BY <1>3, <1>11, <1>12, <2>1
<1>. QED BY <1>3, <1>9, <1>13

\* What an active item shows was not deleted.
LEMMA ActiveIsNotGone ==
    ASSUME StoreType, SeenInv, ItemsInv, NEW k \in Keys, IsActive(items, k)
    PROVE  LET o == items[k].cur
           IN /\ o \in Observations /\ o \in seen[k] /\ Sound(event, clock, k, o)
              /\ o.kind # "gone" /\ o.refs = {<<"etag", o.version>>}
<1>1. items[k] \in Items /\ ItemGood(items[k], seen[k], clock)
  BY DEF StoreType, ItemsInv, IsActive
<1>2. /\ items[k].cur \in Observations /\ items[k].cur \in seen[k]
      /\ items[k].override \in {NoOverride, "dismissed", "resolved"}
  BY <1>1, ItemFields DEF ItemGood
<1>3. Sound(event, clock, k, items[k].cur)
  BY <1>2 DEF SeenInv
<1>4. items[k].cur.kind # "gone"
  BY <1>1, <1>2, StoreAssumption DEF IsActive, ItemGood, Projected, Cancelled
<1>. QED BY <1>2, <1>3, <1>4 DEF Sound, Shaped

LEMMA ObservationFacts ==
    ASSUME CalendarInv, NEW r \in Runners, BaseInv(r), ListInv(r),
           NEW k \in DOMAIN run[r].got
    PROVE  LET s == run[r]  o == Observation(s, k)
           IN /\ o \in Observations /\ Sound(event, clock, k, o) /\ o.order = s.base.gen + 1
              /\ ~Synthetic(o) /\ o.version = s.got[k].version
<1> USE DEF CalendarInv
<1> DEFINE s == run[r]
           e == s.got[k]
           o == Observation(s, k)
           bare == k \in IdOnly /\ e.kind = "gone"
           rev == IF bare THEN <<"tombstone", Checkpoint(s)>> ELSE <<"etag", e.version>>
<1>1. /\ k \in Keys /\ e \in Events /\ e.version \in Nat /\ event[k].version \in Nat
      /\ s.base.gen \in Nat /\ s.at \in Nat /\ clock \in Nat /\ s.at <= clock
  BY RunFields, StoreAssumption DEF StoreType, CalendarType, Events, BaseInv
<1>2. /\ e.version \in 1..event[k].version /\ e.kind \in ObservedKinds
      /\ e.version = event[k].version /\ event[k].kind = "live" => e.kind # "gone"
  BY DEF ListInv
<1>3. Checkpoint(s) \in Tokens \cup {NoToken}
  BY RunFields, ContinuationFields DEF Checkpoint
<1>4. rev \in Revisions
  BY <1>1, <1>3 DEF Revisions
<1>5. /\ o.rev = rev /\ o.version = e.version /\ o.kind = e.kind /\ o.order = s.base.gen + 1
      /\ o.refs = {rev} /\ o.at = s.at
  BY DEF Observation
<1>6. o \in Observations
  <2>1. (IF bare THEN NoUpdate ELSE e.version) \in Int
    BY <1>1 DEF NoUpdate
  <2> HIDE DEF rev
  <2>. QED BY <1>1, <1>2, <1>4, <2>1 DEF Observation, Observations, ObservedKinds, rev
<1>7. Shaped(o) /\ ~Synthetic(o)
  BY <1>5 DEF Shaped, Synthetic
<1>. QED BY <1>1, <1>2, <1>5, <1>6, <1>7 DEF Sound

LEMMA ObservationReplaced ==
    ASSUME NEW o \in Observations, NEW v \in Revisions, NEW n \in Nat, NEW u \in Int, NEW a \in Nat
    PROVE  [o EXCEPT !.rev = v, !.order = n, !.updated = u, !.at = a] \in Observations
BY DEF Observations

LEMMA MarkFacts ==
    ASSUME CalendarInv, NEW r \in Runners, BaseInv(r), run[r].snap # NoToken,
           NEW k \in Keys, IsActive(items, k)
    PROVE  LET s == run[r]  o == Mark(s, k)
           IN /\ o \in Observations /\ Sound(event, clock, k, o) /\ o.order = s.base.gen + 1
              /\ Synthetic(o) /\ o.rev[2] = s.snap /\ o.version = items[k].cur.version
<1> USE DEF CalendarInv
<1> DEFINE s == run[r]
           c == items[k].cur
           o == Mark(s, k)
<1>1. /\ c \in Observations /\ Sound(event, clock, k, c) /\ c.kind # "gone"
      /\ c.refs = {<<"etag", c.version>>}
  BY ActiveIsNotGone
<1>2. /\ s.base.gen \in Nat /\ s.at \in Nat /\ clock \in Nat /\ s.at <= clock
      /\ s.snap \in Tokens
  BY RunFields DEF StoreType, BaseInv
<1>3. <<"revalidation", s.snap>> \in Revisions
  BY <1>2 DEF Revisions
<1>4. o = [c EXCEPT !.rev = <<"revalidation", s.snap>>, !.order = s.base.gen + 1,
                    !.updated = NoUpdate, !.at = s.at]
  BY DEF Mark
<1>5. o \in Observations
  <2>1. NoUpdate \in Int /\ s.base.gen + 1 \in Nat
    BY <1>2 DEF NoUpdate
  <2> HIDE DEF o, c
  <2>. QED BY <1>1, <1>2, <1>3, <1>4, <2>1, ObservationReplaced
<1>6. /\ o.rev = <<"revalidation", s.snap>> /\ o.order = s.base.gen + 1 /\ o.at = s.at
      /\ o.version = c.version /\ o.kind = c.kind /\ o.refs = c.refs
  <2> HIDE DEF o, c
  <2>. QED BY <1>1, <1>4 DEF Observations
<1>7. Shaped(o) /\ Synthetic(o) /\ o.rev[2] = s.snap
  BY <1>1, <1>2, <1>6 DEF Shaped, Synthetic
<1>. QED BY <1>1, <1>2, <1>5, <1>6, <1>7 DEF Sound

LEMMA ReadUnitOK ==
    ASSUME CalendarInv, NEW r \in Runners, BaseInv(r), ListInv(r), Still,
           NEW marked, NEW kept, ReadUnit(run[r], run'[r], marked, kept)
    PROVE  /\ UnitOK(r)'
           /\ Fetched(run'[r]) = DOMAIN run[r].got /\ marked \subseteq Active
           /\ marked \cap Scanned(run[r]) = {}
           /\ \A k \in DOMAIN run'[r].unit :
              /\ k \in Keys /\ run'[r].unit[k] \in Observations
              /\ run'[r].unit[k].version = IF k \in DOMAIN run[r].got THEN run[r].got[k].version
                                           ELSE items[k].cur.version
<1> USE DEF CalendarInv
<1> DEFINE s == run[r]
           n == run'[r]
<1>1. s.phase = "read" /\ s.snap # NoToken /\ DOMAIN s.got \subseteq Keys
  BY RunFields DEF ReadUnit, ListInv
<1>2. /\ marked \subseteq Active /\ marked \cap Scanned(s) = {}
      /\ marked # {} => ScansReset(s) /\ s.todo = {}
      /\ Active \subseteq Keys /\ DOMAIN s.got \subseteq Scanned(s)
      /\ \A k \in marked : IsActive(items, k)
  BY DEF ReadUnit, Unmet, Active, Scanned, IsActive
<1>3. ASSUME NEW k \in DOMAIN s.got
      PROVE  /\ k \in Keys /\ n.unit[k] \in Observations /\ Sound(event, clock, k, n.unit[k])
             /\ n.unit[k].order = s.base.gen + 1 /\ ~Synthetic(n.unit[k])
             /\ n.unit[k].version = s.got[k].version
             /\ n.unit[k].version >= s.snap.at[k]
  <2>1. n.unit[k] = Observation(s, k)
    BY DEF ReadUnit
  <2>2. s.got[k].version >= s.snap.at[k]
    BY DEF ListInv
  <2>. QED BY <1>1, <2>1, <2>2, ObservationFacts
<1>4. ASSUME NEW k \in DOMAIN n.unit, k \notin DOMAIN s.got
      PROVE  /\ k \in marked /\ k \in Keys /\ n.unit[k] \in Observations
             /\ Sound(event, clock, k, n.unit[k]) /\ n.unit[k].order = s.base.gen + 1
             /\ Synthetic(n.unit[k]) /\ n.unit[k].rev[2] = s.snap
             /\ n.unit[k].version = items[k].cur.version
  <2>1. k \in marked /\ n.unit[k] = Mark(s, k)
    BY <1>4 DEF ReadUnit
  <2>2. IsActive(items, k) /\ k \in Keys
    BY <1>2, <2>1
  <2>. QED BY <1>1, <2>1, <2>2, MarkFacts
<1>5. /\ n.base = s.base /\ n.snap = s.snap /\ n.sync = s.sync /\ n.reset = s.reset
      /\ event' = event /\ clock' = clock
      /\ s.todo = {} => n.next.cont = NoToken
      /\ ScansReset(n) <=> ScansReset(s)
  BY DEF ReadUnit, Still, ScansReset
<1>6. UnitOK(r)'
  <2>1. ASSUME NEW k \in DOMAIN n.unit
        PROVE  /\ Sound(event, clock, k, n.unit[k]) /\ n.unit[k].order = s.base.gen + 1
               /\ Synthetic(n.unit[k]) => /\ n.unit[k].rev[2] = s.snap /\ ScansReset(s)
                                          /\ n.next.cont = NoToken
               /\ ~Synthetic(n.unit[k]) => n.unit[k].version >= s.snap.at[k]
    BY <1>2, <1>3, <1>4, <1>5
  <2>. QED BY <1>1, <1>5, <2>1 DEF UnitOK
<1>7. Fetched(n) = DOMAIN s.got
  <2>1. DOMAIN s.got \subseteq DOMAIN n.unit
    BY DEF ReadUnit
  <2>. QED BY <1>3, <1>4, <2>1 DEF Fetched
<1>. QED BY <1>2, <1>3, <1>4, <1>6, <1>7

LEMMA ReadNextOK ==
    ASSUME CalendarInv, NEW r \in Runners, BaseInv(r), ListInv(r), Still,
           NEW marked, NEW kept, ReadUnit(run[r], run'[r], marked, kept)
    PROVE  NextOK(r)'
<1> USE DEF CalendarInv
<1> DEFINE s == run[r]
           n == run'[r]
           c == n.next
           scanning == ScansReset(s)
<1>1. /\ s.phase = "read" /\ s.snap # NoToken /\ s.snap \in Tokens /\ Earlier(s.snap, Now)
      /\ s.todo \subseteq Keys /\ s.reset \in BOOLEAN
      /\ s.base.reset \in BOOLEAN /\ s.base.overflow \in BOOLEAN
      /\ s.base.token # NoToken => s.base.token \in Tokens
      /\ s.sync # NoToken => s.sync = s.base.token /\ ~s.reset
      /\ s.base.token # NoToken => Earlier(s.base.token, s.snap) /\ Earlier(s.base.token, Now)
      /\ s.sync # NoToken => \A k \in s.todo : s.snap.at[k] > s.sync.at[k]
  BY RunFields, ContinuationFields DEF ReadUnit, ListInv, BaseInv, CursorOK, Cursors
<1>2. scanning => s.sync = NoToken
  BY WhenScanning DEF BaseInv
<1>3. /\ scanning \in BOOLEAN /\ OverAt(s) \in BOOLEAN /\ kept \subseteq Keys
      /\ [todo |-> s.todo, snap |-> s.snap] \in Continuations
      /\ [todo |-> s.todo, snap |-> s.snap] # NoToken
  <2>1. Scanned(s) \subseteq Keys
    BY RunFields, ContinuationFields DEF Scanned
  <2>2. kept \subseteq Scanned(s)
    BY DEF ReadUnit, Merged
  <2>. QED BY <1>1, <2>1, <2>2, NullAssumption DEF ScansReset, OverAt, Continuations
<1>4. Now' = Now
  BY StillIsCalm
<1>5. CASE s.todo = {}
  <2>1. /\ c.token = s.snap /\ c.cont = NoToken /\ c.mode = "none" /\ c.reset = FALSE
        /\ c.scanned = {} /\ c.overflow = OverAt(s) /\ c.gen = 0 /\ n.snap = s.snap
        /\ c.complete = (~OverAt(s) /\ Unresolved(s, marked) = {}) /\ n.base = s.base
    BY <1>5 DEF ReadUnit, NextToken, CoverageComplete
  <2>2. CursorOK(c, Now)
    BY <1>1, <2>1 DEF CursorOK
  <2>3. NextOK(r)'
    BY <1>1, <1>4, <2>1, <2>2 DEF NextOK
  <2>. QED BY <2>3
<1>6. CASE s.todo # {}
  <2>1. /\ c.token = IF s.sync = NoToken THEN NoToken ELSE s.base.token
        /\ c.cont = [todo |-> s.todo, snap |-> s.snap] /\ c.reset = scanning
        /\ c.mode = IF s.sync = NoToken THEN "full" ELSE "incremental"
        /\ c.scanned = IF scanning THEN kept ELSE {}
        /\ c.overflow = OverAt(s) /\ c.gen = 0 /\ c.complete = FALSE
        /\ n.base = s.base /\ n.snap = s.snap
    <3>1. c.token = NextToken(s, scanning) /\ c.reset = (scanning /\ s.todo # {})
      BY DEF ReadUnit
    <3>2. c.token = IF s.sync = NoToken THEN NoToken ELSE s.base.token
      BY <1>2, <1>6, <3>1 DEF NextToken, CoverageComplete
    <3>3. c.reset = scanning
      BY <1>3, <1>6, <3>1
    <3>. QED BY <1>6, <3>2, <3>3 DEF ReadUnit
  <2>2. CursorOK(c, Now)
    BY <1>1, <1>2, <1>3, <2>1, SMTT(20) DEF CursorOK
  <2>3. ScansReset(n) <=> scanning
    BY DEF ScansReset, ReadUnit
  <2>4. NextOK(r)'
    <3>1. c.cont # NoToken /\ c.cont.snap = s.snap /\ (c.reset <=> ScansReset(n))
      BY <1>3, <2>1, <2>3
    <3>2. c.token # NoToken => c.token = s.base.token
      BY <2>1
    <3>3. s.base.token # NoToken => Earlier(s.base.token, s.base.token)
      BY <1>1, TokenFields DEF Earlier
    <3>. QED BY <1>4, <2>1, <2>2, <3>1, <3>2, <3>3 DEF NextOK
  <2>. QED BY <2>4
<1>. QED BY <1>5, <1>6

LEMMA ReadUnitInv ==
    ASSUME CalendarInv, NEW r \in Runners, BaseInv(r), ListInv(r), GotInv(r), Still,
           NEW marked, NEW kept, ReadUnit(run[r], run'[r], marked, kept),
           run[r].base = cursor
    PROVE  UnitInv(r)'
<1> USE DEF CalendarInv
<1> DEFINE s == run[r]
           n == run'[r]
           c == n.next
           D == DOMAIN n.unit
           G == DOMAIN s.got
           scanning == ScansReset(s)
           over == ~s.reset /\ s.base.overflow
<1>1. /\ s.snap # NoToken /\ s.snap \in Tokens /\ s.reset \in BOOLEAN /\ s.todo \subseteq Keys
      /\ s.base.overflow \in BOOLEAN /\ G \subseteq Keys /\ n.snap = s.snap /\ n.base = s.base
      /\ s.sync # NoToken => s.sync = s.base.token /\ ~s.reset
      /\ scanning => s.sync = NoToken
  BY RunFields, WhenScanning DEF ReadUnit, ListInv, BaseInv, Cursors
<1>2. /\ Faithful(event, items, s.snap, s.todo \cup G)
      /\ s.sync # NoToken => over \/ Kept(items, seen, s.snap, s.todo \cup G)
      /\ scanning => RebuildKnown(event, items, seen, s.snap, over, s.todo, Scanned(s), G)
      /\ s.sync = NoToken /\ ~scanning => FirstKnown(items, seen, s.snap, G)
  BY <1>1 DEF GotInv
<1>3. /\ Fetched(n) = G /\ marked \subseteq Active /\ marked \cap Scanned(s) = {}
      /\ D = G \cup marked
      /\ \A k \in D : n.unit[k].version = IF k \in G THEN s.got[k].version
                                          ELSE items[k].cur.version
  <2>1. D = G \cup marked
    BY DEF ReadUnit
  <2>. HIDE DEF CalendarInv
  <2>2. /\ Fetched(n) = G /\ marked \subseteq Active /\ marked \cap Scanned(s) = {}
        /\ \A k \in D : n.unit[k].version = IF k \in G THEN s.got[k].version
                                            ELSE items[k].cur.version
    BY ReadUnitOK
  <2>. QED BY <2>1, <2>2
<1>4. OverAt(s) \/ ~over
  BY DEF OverAt
<1>5. items' = items /\ seen' = seen /\ event' = event
  BY DEF Still
<1>6. ASSUME NEW k \in D, NEW o \in seen[k] PROVE o.version <= n.unit[k].version
  <2>1. CASE k \in G
    BY <1>3, <1>6, <2>1 DEF GotInv
  <2>2. CASE k \notin G
    <3>1. k \in marked /\ k \in Keys /\ items[k] # NoItem
      BY <1>3, <1>6, <2>2 DEF Active
    <3>. QED BY <1>3, <1>6, <2>2, <3>1 DEF ItemsInv, ItemGood
  <2>. QED BY <2>1, <2>2
<1>7. scanning => MarksBefore(seen, s.snap.epoch)
  BY <1>2 DEF RebuildKnown
<1>8. CASE s.todo = {}
  <2>1. c.cont = NoToken /\ c.overflow = OverAt(s)
    BY <1>8 DEF ReadUnit
  <2>2. Faithful(event, items, s.snap, G)
    BY <1>2, <1>8 DEF Faithful
  <2>3. ASSUME NEW k \in D \ G PROVE ~Untouched(event, k, s.snap)
    <3>1. k \in marked /\ k \in Keys /\ k \notin Scanned(s)
      BY <1>3 DEF Active
    <3>2. scanning /\ ~OverAt(s)
      BY <3>1 DEF ReadUnit
    <3>. QED BY <1>2, <1>4, <1>8, <3>1, <3>2 DEF RebuildKnown, Met
  <2>4. ASSUME ~OverAt(s) PROVE Kept(items, seen, s.snap, D)
    <3>1. CASE s.sync # NoToken
      BY <1>2, <1>3, <1>4, <1>8, <2>4, <3>1 DEF Kept
    <3>2. CASE scanning
      <4>1. Kept(items, seen, s.snap, (Keys \ Scanned(s)) \cup G) /\ marked = Unmet(s)
        BY <1>2, <1>4, <1>8, <2>4, <3>2 DEF RebuildKnown, ReadUnit
      <4>2. ASSUME NEW k \in Keys, IsActive(items, k), k \notin D
            PROVE  UpTo(items[k], seen[k], k, s.snap)
        <5>1. CASE k \in Scanned(s)
          BY <1>3, <4>1, <4>2, <5>1 DEF Kept
        <5>2. CASE k \notin Scanned(s)
          BY <1>3, <4>1, <4>2, <5>2 DEF Unmet, Active, IsActive, UpTo
        <5>. QED BY <5>1, <5>2
      <4>. QED BY <4>2 DEF Kept
    <3>3. CASE s.sync = NoToken /\ ~scanning
      BY <1>2, <1>3, <3>3 DEF FirstKnown, Kept
    <3>. QED BY <3>1, <3>2, <3>3
  <2>5. ASSUME c.complete PROVE D = G /\ Told(items, seen, D)
    <3>1. Unresolved(s, marked) = {}
      BY <2>5, <1>8 DEF ReadUnit
    <3>2. marked = {}
      BY <3>1 DEF Unresolved
    <3>3. ASSUME NEW k \in Keys, IsActive(items, k), k \notin D
          PROVE  HumanConfirmed(items[k]) \/ ~Synthetic(items[k].cur)
      BY <1>3, <3>1, <3>3 DEF Unresolved, Active, IsActive
    <3>. QED BY <1>3, <3>2, <3>3 DEF Told
  <2>. QED BY <1>1, <1>3, <1>5, <1>6, <1>7, <2>1, <2>2, <2>3, <2>4, <2>5
        DEF UnitInv, ScansReset, ReadUnit
<1>9. CASE s.todo # {}
  <2>1. /\ c.cont = [todo |-> s.todo, snap |-> s.snap] /\ c.cont # NoToken
        /\ c.cont.todo = s.todo /\ c.overflow = OverAt(s) /\ c.complete = FALSE
        /\ marked = {} /\ D = G
        /\ c.reset => scanning /\ c.scanned = kept
        /\ c.token # NoToken => s.sync # NoToken /\ ~scanning
        /\ ~c.reset => ~scanning
        /\ c.token = NoToken /\ ~scanning => s.sync = NoToken
    <3>1. c.cont = [todo |-> s.todo, snap |-> s.snap]
      BY <1>9 DEF ReadUnit
    <3>2. c.cont # NoToken
      BY <1>1, <3>1, NullAssumption DEF Continuations
    <3>3. c.token = NextToken(s, scanning) /\ c.reset = (scanning /\ s.todo # {})
      BY DEF ReadUnit
    <3>4. c.token # NoToken => s.sync # NoToken /\ ~scanning
      BY <1>9, <3>3 DEF NextToken, CoverageComplete
    <3>5. c.token = NoToken /\ ~scanning => s.sync = NoToken
      BY <1>1, <1>9, <3>3 DEF NextToken, CoverageComplete
    <3>6. marked = {} /\ D = G /\ c.overflow = OverAt(s) /\ c.complete = FALSE
      BY <1>3, <1>9 DEF ReadUnit
    <3>7. c.cont.todo = s.todo
      BY <3>1
    <3>8. scanning \in BOOLEAN
      BY DEF ScansReset
    <3>9. (c.reset => scanning) /\ (~c.reset => ~scanning)
      BY <1>9, <3>3, <3>8
    <3>10. c.reset => c.scanned = kept
      BY <1>9, <3>9 DEF ReadUnit
    <3>. QED BY <3>1, <3>2, <3>4, <3>5, <3>6, <3>7, <3>9, <3>10
  <2>2. c.token # NoToken =>
          /\ c.overflow \/ Kept(items, seen, s.snap, c.cont.todo \cup D)
          /\ c.overflow = s.base.overflow
    <3>1. c.token # NoToken => OverAt(s) = s.base.overflow /\ over = s.base.overflow
      BY <1>1, <2>1 DEF OverAt
    <3>. QED BY <1>2, <2>1, <3>1
  <2>3. ASSUME c.reset
        PROVE  RebuildKnown(event, items, seen, s.snap, c.overflow, c.cont.todo, c.scanned, D)
    <3>1. CASE OverAt(s)
      BY <1>7, <2>1, <2>3, <3>1 DEF RebuildKnown
    <3>2. CASE ~OverAt(s)
      <4>1. kept = Scanned(s)
        <5>1. ~(Cardinality(Scanned(s)) > MaxSeen)
          BY <2>1, <2>3, <3>2 DEF OverAt
        <5>2. Scanned(s) \subseteq Keys
          BY RunFields, ContinuationFields DEF Scanned
        <5>3. Cardinality(Scanned(s)) \in Nat /\ MaxSeen \in Nat
          BY <5>2, FS_Subset, FS_CardinalityType, StoreAssumption, RunAssumption
        <5>4. Cardinality(Scanned(s)) <= MaxSeen
          BY <5>1, <5>3
        <5>. QED BY <5>4 DEF ReadUnit, Merged
      <4>2. RebuildKnown(event, items, seen, s.snap, FALSE, s.todo, Scanned(s), G)
        BY <1>2, <1>4, <2>1, <2>3, <3>2 DEF RebuildKnown
      <4>. QED BY <2>1, <2>3, <4>1, <4>2 DEF RebuildKnown
    <3>. QED BY <3>1, <3>2
  <2>4. c.token = NoToken /\ ~c.reset => FirstKnown(items, seen, s.snap, D)
    BY <1>2, <2>1
  <2>. QED BY <1>1, <1>2, <1>5, <1>6, <1>7, <2>1, <2>2, <2>3, <2>4
        DEF UnitInv, ScansReset, ReadUnit
<1>. QED BY <1>8, <1>9

LEMMA ReadGood ==
    ASSUME CalendarInv, NEW r \in Runners, RunGood(r), Read(r)
    PROVE  RunGood(r)' /\ run'[r] \in RunRecords
<1> USE DEF CalendarInv
<1>1. BaseInv(r) /\ ListInv(r) /\ (run[r].base = cursor => GotInv(r))
  BY DEF RunGood, Read
<1>2. /\ Still
      /\ run'[r].unit = [k \in DOMAIN run'[r].unit |-> run'[r].unit[k]]
      /\ run'[r].unit \in Partial(Observations) => run'[r] \in RunRecords
  BY <1>1, ReadTakes
<1>3. PICK marked, kept : ReadUnit(run[r], run'[r], marked, kept)
  BY <1>1, ReadTakes
<1>4. UnitOK(r)' /\ NextOK(r)'
  BY <1>1, <1>2, <1>3, ReadUnitOK, ReadNextOK
<1>5. run[r].base = cursor => UnitInv(r)'
  BY <1>1, <1>2, <1>3, ReadUnitInv
<1>6. BaseInv(r)'
  BY <1>1, <1>2, <1>3, StillIsCalm DEF BaseInv, ReadUnit, Still
<1>7. RunGood(r)'
  BY <1>2, <1>3, <1>4, <1>5, <1>6 DEF RunGood, ReadUnit, Still
<1>8. run'[r] \in RunRecords
  <2> DEFINE D == DOMAIN run'[r].unit
  <2>1. \A k \in D : k \in Keys /\ run'[r].unit[k] \in Observations
    BY <1>1, <1>2, <1>3, ReadUnitOK
  <2>2. run'[r].unit \in [D -> Observations] /\ D \in SUBSET Keys
    BY <1>2, <2>1
  <2>3. run'[r].unit \in Partial(Observations)
    BY <2>2 DEF Partial
  <2>. QED BY <1>2, <2>3
<1>. QED BY <1>7, <1>8

-----------------------------------------------------------------------------
(* Steps that observe nothing *)

LEMMA CalmInv ==
    ASSUME CalendarInv, Calm, ItemsInv', RunsType',
           \A q \in Busy' : RunGood(q)' \/ (q \in Busy /\ SameRun(run[q], run'[q]))
    PROVE  CalendarInv'
<1> USE DEF CalendarInv
<1>1. StoreType' /\ CalendarType' /\ SeenInv' /\ CursorInv'
  BY CalmSeen, CalmCursor DEF Calm
<1>2. ASSUME NEW q \in Busy' PROVE RunGood(q)'
  <2>1. CASE q \in Busy /\ SameRun(run[q], run'[q])
    <3>1. q \in Runners /\ RunGood(q)
      BY <2>1 DEF Busy, RunsInv
    <3>. QED BY <2>1, <3>1, CalmRun
  <2>. QED BY <1>2, <2>1
<1>3. RunsInv'
  BY <1>2 DEF RunsInv
<1>. QED BY <1>1, <1>3

\* A step of a run that leaves the store to the others.
LEMMA MoveInv ==
    ASSUME CalendarInv, NEW r \in Runners, NEW new \in RunRecords, Move(r, new),
           used' \in [{"today", "before"} -> 0..DailyLimit],
           new.phase \in {"idle", "over"} \/ RunGood(r)'
    PROVE  CalendarInv'
<1>1. Still /\ run'[r] = new /\ \A q \in Runners \ {r} : run'[q] = run[q]
  BY MoveIsStill DEF CalendarInv
<1>2. Calm /\ ItemsInv'
  BY <1>1, StillIsCalm DEF CalendarInv, ItemsInv, Still
<1>3. RunsType'
  <2>1. run' = [run EXCEPT ![r] = new]
    BY DEF Move
  <2>. QED BY <2>1 DEF CalendarInv, RunsType
<1>4. ASSUME NEW q \in Busy' PROVE RunGood(q)' \/ (q \in Busy /\ SameRun(run[q], run'[q]))
  BY <1>1, <1>4 DEF Busy, SameRun
<1>. QED BY <1>2, <1>3, <1>4, CalmInv

LEMMA ReserveType ==
    ASSUME RunsType, NEW r \in Runners, MayRequest(r), Reserve(r)
    PROVE  used' \in [{"today", "before"} -> 0..DailyLimit]
<1>1. run[r].day \in {"today", "before"} /\ used[run[r].day] + 1 \in 0..DailyLimit
  BY RunAssumption DEF RunsType, RunRecords, MayRequest
<1>. QED BY <1>1 DEF RunsType, Reserve

LEMMA IdleTypes ==
    /\ NoUnit \in Partial(Events) /\ NoUnit \in Partial(Observations)
    /\ NoCursor \in Cursors /\ IdleRun \in RunRecords
    /\ \A r \in Runners : Over(r) \in RunRecords /\ Over(r).phase \in {"idle", "over"}
<1>1. ASSUME NEW S PROVE NoUnit \in Partial(S)
  <2>1. NoUnit \in [{} -> S] /\ {} \in SUBSET Keys
    BY DEF NoUnit
  <2>. QED BY <2>1 DEF Partial
<1>2. NoCursor \in Cursors
  BY DEF NoCursor, Cursors, TokenOrNone
<1>3. IdleRun \in RunRecords
  BY <1>1, <1>2 DEF IdleRun, RunRecords, TokenOrNone
<1>4. ASSUME NEW r \in Runners PROVE Over(r) \in RunRecords /\ Over(r).phase \in {"idle", "over"}
  <2>1. IdleRun.phase = "idle"
    BY DEF IdleRun
  <2>2. [IdleRun EXCEPT !.phase = "over"] \in RunRecords
    BY <1>3 DEF RunRecords
  <2>3. [IdleRun EXCEPT !.phase = "over"].phase = "over"
    BY DEF IdleRun
  <2>. QED BY <1>3, <2>1, <2>2, <2>3 DEF Over
<1>. QED BY <1>1, <1>2, <1>3, <1>4

LEMMA EndsInv ==
    ASSUME CalendarInv, NEW r \in Runners, Refused(r) \/ Fails(r)
    PROVE  CalendarInv'
<1>1. Move(r, Over(r)) /\ used' = used
  BY DEF Refused, Fails
<1>2. used' \in [{"today", "before"} -> 0..DailyLimit]
  BY <1>1 DEF CalendarInv, RunsType
<1>. QED BY <1>1, <1>2, IdleTypes, MoveInv

LEMMA StartInv ==
    ASSUME CalendarInv, NEW r \in Runners, Start(r)
    PROVE  CalendarInv'
<1> DEFINE c == cursor
           new == [IdleRun EXCEPT
                     !.phase = "fetch", !.base = c, !.at = clock,
                     !.sync = IF c.mode = "full" THEN NoToken ELSE c.token,
                     !.todo = IF c.cont = NoToken THEN {} ELSE c.cont.todo,
                     !.snap = IF c.cont = NoToken THEN NoToken ELSE c.cont.snap]
<1>1. Move(r, new) /\ used' = used
  BY DEF Start
<1>2. used' \in [{"today", "before"} -> 0..DailyLimit]
  BY <1>1 DEF CalendarInv, RunsType
<1>3. new \in RunRecords
  <2>1. /\ c \in Cursors /\ clock \in Nat
        /\ (IF c.mode = "full" THEN NoToken ELSE c.token) \in TokenOrNone
        /\ (IF c.cont = NoToken THEN {} ELSE c.cont.todo) \in SUBSET Keys
        /\ (IF c.cont = NoToken THEN NoToken ELSE c.cont.snap) \in TokenOrNone
    BY ContinuationFields DEF CalendarInv, StoreType, TokenOrNone
  <2>. HIDE DEF c
  <2>. QED BY <2>1, IdleTypes DEF RunRecords
<1>4. RunGood(r)'
  BY StartGood
<1>. HIDE DEF new
<1>. QED BY <1>1, <1>2, <1>3, <1>4, MoveInv

LEMMA ExpiresInv ==
    ASSUME CalendarInv, NEW r \in Runners, ListingExpires(r)
    PROVE  CalendarInv'
<1> DEFINE new == [run[r] EXCEPT !.sync = NoToken, !.reset = TRUE, !.todo = {},
                                 !.snap = NoToken, !.pages = 0, !.got = NoUnit]
<1>1. Move(r, new) /\ MayRequest(r) /\ Reserve(r) /\ run[r].phase = "fetch"
  BY DEF ListingExpires
<1>2. used' \in [{"today", "before"} -> 0..DailyLimit]
  BY <1>1, ReserveType DEF CalendarInv
<1>3. new \in RunRecords
  <2>1. run[r] \in RunRecords
    BY DEF CalendarInv, RunsType
  <2>. QED BY <2>1, IdleTypes DEF RunRecords, TokenOrNone
<1>4. RunGood(r)
  BY <1>1 DEF CalendarInv, RunsInv, Busy
<1>5. RunGood(r)'
  BY <1>4, ExpiresGood
<1>. HIDE DEF new
<1>. QED BY <1>1, <1>2, <1>3, <1>5, MoveInv

\* A run that goes on under a record known to be one.
LEMMA GoesOnInv ==
    ASSUME CalendarInv, NEW r \in Runners, Still,
           run' = [run EXCEPT ![r] = run'[r]], run'[r] \in RunRecords,
           used' \in [{"today", "before"} -> 0..DailyLimit], RunGood(r)'
    PROVE  CalendarInv'
<1>1. Move(r, run'[r])
  BY DEF Move, Still, storeVars
<1>. QED BY <1>1, MoveInv

LEMMA FetchInv ==
    ASSUME CalendarInv, NEW r \in Runners, FetchPage(r)
    PROVE  CalendarInv'
<1>1. RunGood(r)
  BY DEF CalendarInv, RunsInv, Busy, FetchPage
<1>2. Still /\ RunGood(r)' /\ run'[r] \in RunRecords
  BY <1>1, FetchGood, FetchTakes DEF CalendarInv
<1>3. used' \in [{"today", "before"} -> 0..DailyLimit]
  BY ReserveType DEF CalendarInv, FetchPage
<1>4. PICK new : run' = [run EXCEPT ![r] = new]
  BY DEF FetchPage, Move
<1>5. run' = [run EXCEPT ![r] = run'[r]]
  BY <1>4 DEF CalendarInv, RunsType
<1>. QED BY <1>2, <1>3, <1>5, GoesOnInv

LEMMA ReadInv ==
    ASSUME CalendarInv, NEW r \in Runners, Read(r)
    PROVE  CalendarInv'
<1>1. RunGood(r)
  BY DEF CalendarInv, RunsInv, Busy, Read
<1>2. ListInv(r)
  BY <1>1 DEF RunGood, Read
<1>3. Still /\ RunGood(r)' /\ run'[r] \in RunRecords
  BY <1>1, <1>2, ReadGood, ReadTakes DEF CalendarInv
<1>4. used' \in [{"today", "before"} -> 0..DailyLimit]
  BY DEF CalendarInv, RunsType, Read
<1>5. PICK new : run' = [run EXCEPT ![r] = new]
  BY DEF Read, Move
<1>6. run' = [run EXCEPT ![r] = run'[r]]
  BY <1>5 DEF CalendarInv, RunsType
<1>. QED BY <1>3, <1>4, <1>6, GoesOnInv

LEMMA NewDayInv ==
    ASSUME CalendarInv, NewDay
    PROVE  CalendarInv'
<1>1. Still
  BY DEF NewDay, Still, storeVars
<1>2. Calm /\ ItemsInv'
  BY <1>1, StillIsCalm DEF CalendarInv, ItemsInv, Still
<1>3. ASSUME NEW q \in Runners
      PROVE  /\ SameRun(run[q], run'[q]) /\ run'[q] \in RunRecords
             /\ run'[q].phase = run[q].phase
  <2>1. run'[q] = IF q \in Busy THEN [run[q] EXCEPT !.day = "before"] ELSE run[q]
    BY DEF NewDay
  <2>2. run[q] \in RunRecords
    BY DEF CalendarInv, RunsType
  <2>. QED BY <2>1, <2>2 DEF RunRecords, SameRun
<1>4. RunsType'
  <2>1. used' \in [{"today", "before"} -> 0..DailyLimit]
    <3>1. used' = [today |-> 0, before |-> IF Busy = {} THEN 0 ELSE DailyLimit]
      BY DEF NewDay
    <3>2. 0 \in 0..DailyLimit /\ DailyLimit \in 0..DailyLimit
      BY RunAssumption
    <3>. QED BY <3>1, <3>2
  <2>2. run' \in [Runners -> RunRecords]
    <3>1. run' = [r \in Runners |-> IF r \in Busy THEN [run[r] EXCEPT !.day = "before"]
                                    ELSE run[r]]
      BY DEF NewDay
    <3>. QED BY <3>1, <1>3
  <2>. QED BY <2>1, <2>2 DEF RunsType
<1>5. \A q \in Busy' : q \in Busy /\ SameRun(run[q], run'[q])
  BY <1>3 DEF Busy
<1>. QED BY <1>2, <1>4, <1>5, CalmInv

-----------------------------------------------------------------------------
(* The calendar and the owner *)

LEMMA EventsInv ==
    ASSUME CalendarInv, Grown(event, event'), CalendarType', epoch <= epoch',
           UNCHANGED <<storeVars, used, run>>
    PROVE  CalendarInv'
<1>1. /\ seen' = seen /\ items' = items /\ fed' = fed /\ cursor' = cursor /\ clock' = clock
      /\ run' = run /\ used' = used
  BY DEF storeVars
<1>2. StoreType' /\ ItemsInv' /\ RunsType'
  BY <1>1 DEF CalendarInv, StoreType, ItemsInv, RunsType
<1>3. Calm
  <2>1. Touched(items, items') /\ clock <= clock'
    BY <1>1 DEF Touched, CalendarInv, StoreType
  <2>. QED BY <1>1, <1>2, <2>1 DEF Calm
<1>4. \A q \in Busy' : q \in Busy /\ SameRun(run[q], run'[q])
  BY <1>1 DEF Busy, SameRun
<1>. QED BY <1>2, <1>3, <1>4, CalmInv

LEMMA ChangesInv ==
    ASSUME CalendarInv, CalendarChanges
    PROVE  CalendarInv'
<1>1. PICK k \in Keys, kind \in Kinds :
        /\ event[k].version < MaxVersion
        /\ event[k].version = 0 => kind # "gone"
        /\ event' = [event EXCEPT ![k] = [version |-> @.version + 1, kind |-> kind]]
  BY DEF CalendarChanges
<1> DEFINE e == [version |-> event[k].version + 1, kind |-> kind]
<1>2. /\ event \in [Keys -> Events] /\ event[k].version \in 0..MaxVersion /\ epoch' = epoch
      /\ epoch \in 0..MaxEpoch /\ MaxVersion \in Nat
  BY StoreAssumption DEF CalendarInv, CalendarType, Events, CalendarChanges
<1>3. e \in Events /\ e.version # 0 /\ e.kind \in ObservedKinds /\ e.version > event[k].version
  BY <1>1, <1>2 DEF Events, ObservedKinds
<1>4. event' = [event EXCEPT ![k] = e]
  BY <1>1
<1> HIDE DEF e
<1>5. event' \in [Keys -> Events] /\ \A j \in Keys : event'[j] = IF j = k THEN e ELSE event[j]
  BY <1>2, <1>3, <1>4
<1>6. Grown(event, event') /\ CalendarType'
  BY <1>2, <1>3, <1>5 DEF Grown, CalendarInv, CalendarType
<1>7. epoch <= epoch'
  BY <1>2, RunAssumption
<1>. QED BY <1>6, <1>7, EventsInv DEF CalendarChanges

LEMMA WindowInv ==
    ASSUME CalendarInv, WindowMoves
    PROVE  CalendarInv'
<1>1. PICK k \in Keys : event[k].kind = "away" /\ event' = [event EXCEPT ![k].kind = "near"]
  BY DEF WindowMoves
<1> DEFINE e == [event[k] EXCEPT !.kind = "near"]
<1>2. /\ event \in [Keys -> Events] /\ event[k] \in Events /\ epoch' = epoch
      /\ epoch \in 0..MaxEpoch /\ event[k].version # 0
  BY <1>1 DEF CalendarInv, CalendarType, WindowMoves
<1>3. e \in Events /\ e.version = event[k].version /\ e.kind = "near"
  BY <1>2 DEF Events, ObservedKinds
<1>4. event' = [event EXCEPT ![k] = e]
  BY <1>1
<1> HIDE DEF e
<1>5. event' \in [Keys -> Events] /\ \A j \in Keys : event'[j] = IF j = k THEN e ELSE event[j]
  BY <1>2, <1>3, <1>4
<1>6. Grown(event, event') /\ CalendarType'
  BY <1>2, <1>3, <1>5 DEF Grown, CalendarInv, CalendarType, ObservedKinds
<1>7. epoch <= epoch'
  BY <1>2, RunAssumption
<1>. QED BY <1>6, <1>7, EventsInv DEF WindowMoves

LEMMA ExpireInv ==
    ASSUME CalendarInv, TokensExpire
    PROVE  CalendarInv'
<1>1. epoch' \in 0..MaxEpoch /\ epoch <= epoch' /\ event' = event
  BY RunAssumption DEF CalendarInv, CalendarType, TokensExpire
<1>2. Grown(event, event') /\ CalendarType'
  BY <1>1 DEF Grown, CalendarInv, CalendarType
<1>. QED BY <1>1, <1>2, EventsInv DEF TokensExpire

\* What a decision leaves and what it writes.
LEMMA DecisionFields ==
    ASSUME NEW it \in Items, NEW d \in Decisions, NEW t \in Nat, Allowed(it, d)
    PROVE  LET new == Decided(it, d, t)
           IN /\ new \in Items /\ new.cur = it.cur /\ new.confirmed \in {it.confirmed, 0, t}
              /\ new.state = "active" => new.confirmed = t
              /\ \/ new.state = it.state /\ new.override = it.override
                 \/ new.state = IF new.override = NoOverride THEN Projected(it.cur)
                                ELSE new.override
<1> DEFINE new == Decided(it, d, t)
<1>1. d \in {"confirm", "dismiss", "resolve", "restore"}
  BY StoreAssumption
<1>2. CASE d = "confirm"
  <2>1. new = [it EXCEPT !.confirmed = t]
    BY <1>2 DEF Decided
  <2>. QED BY <2>1 DEF Items
<1>3. CASE d = "dismiss"
  <2>1. PICK z \in Nat : z = 0
    OBVIOUS
  <2>2. new = [it EXCEPT !.state = "dismissed", !.override = "dismissed", !.confirmed = z]
    BY <1>3, <2>1 DEF Decided
  <2>3. /\ new \in Items /\ new.cur = it.cur /\ new.confirmed = z
        /\ new.state # "active" /\ new.state = "dismissed" /\ new.override = "dismissed"
    BY <2>2 DEF Items, States
  <2>4. NoOverride # "dismissed"
    BY StoreAssumption
  <2>5. new.state = IF new.override = NoOverride THEN Projected(it.cur) ELSE new.override
    BY <2>3, <2>4
  <2>. QED BY <2>1, <2>3, <2>5
<1>4. CASE d = "resolve"
  <2>1. new = [it EXCEPT !.state = "resolved", !.override = "resolved", !.confirmed = t]
    BY <1>4 DEF Decided
  <2>. QED BY <2>1, StoreAssumption DEF Items, States
<1>5. CASE d = "restore"
  <2>1. new = [it EXCEPT !.state = Projected(it.cur), !.override = NoOverride, !.confirmed = t]
    BY <1>5 DEF Decided
  <2>2. Projected(it.cur) \in States
    BY DEF Projected, States
  <2>. QED BY <2>1, <2>2 DEF Items
<1>. QED BY <1>1, <1>2, <1>3, <1>4, <1>5

LEMMA OwnerInv ==
    ASSUME CalendarInv, NEW k \in Keys, NEW d \in Decisions, NEW q \in Requests,
           OwnerDecides(k, d, q)
    PROVE  CalendarInv'
<1> USE DEF CalendarInv
<1> DEFINE new == Decided(items[k], d, clock + 1)
<1>1. /\ items[k] # NoItem /\ Allowed(items[k], d) /\ items' = [items EXCEPT ![k] = new]
      /\ fed' = [fed EXCEPT ![k][q] = d] /\ clock' = clock + 1
      /\ seen' = seen /\ cursor' = cursor /\ run' = run /\ used' = used
      /\ event' = event /\ epoch' = epoch
  BY DEF OwnerDecides, Feedback
<1>2. /\ items \in [Keys -> Items \cup {NoItem}] /\ items[k] \in Items
      /\ clock \in Nat /\ clock + 1 \in Nat
  BY <1>1 DEF StoreType
<1>3. /\ new \in Items /\ new.cur = items[k].cur
      /\ new.confirmed \in {items[k].confirmed, 0, clock + 1}
      /\ new.state = "active" => new.confirmed = clock + 1
      /\ \/ new.state = items[k].state /\ new.override = items[k].override
         \/ new.state = IF new.override = NoOverride THEN Projected(items[k].cur)
                        ELSE new.override
  BY <1>1, <1>2, DecisionFields
<1>4. ItemGood(items[k], seen[k], clock) /\ items[k].confirmed \in Nat
      /\ items[k].cur \in Observations
  BY <1>1, <1>2, ItemFields DEF ItemsInv
<1>5. items[k].cur.at \in Nat /\ items[k].cur.at < clock + 1
  <2>1. Sound(event, clock, k, items[k].cur)
    BY <1>4 DEF ItemGood, SeenInv
  <2>. QED BY <1>2, <1>4, <2>1, ObservationFields DEF Sound
<1> HIDE DEF new
<1>6. items' \in [Keys -> Items \cup {NoItem}]
      /\ \A j \in Keys : items'[j] = IF j = k THEN new ELSE items[j]
  BY <1>1, <1>2, <1>3
<1>7. StoreType' /\ CalendarType' /\ RunsType'
  <2>1. fed' \in [Keys -> [Requests -> Decisions \cup {NoDecision}]]
    BY <1>1 DEF StoreType
  <2>. QED BY <1>1, <1>2, <1>6, <2>1 DEF StoreType, CalendarType, RunsType
<1>8. new # NoItem
  BY <1>3, NullAssumption
<1>9. ItemsInv'
  <2> SUFFICES ASSUME NEW j \in Keys
               PROVE  /\ items'[j] = NoItem <=> seen[j] = {}
                      /\ items'[j] # NoItem => ItemGood(items'[j], seen[j], clock + 1)
    BY <1>1 DEF ItemsInv
  <2>1. CASE j = k
    <3>1. seen[k] # {}
      BY <1>1 DEF ItemsInv
    <3>2. ItemGood(new, seen[k], clock + 1)
      BY <1>2, <1>3, <1>4 DEF ItemGood
    <3>. QED BY <1>6, <1>8, <2>1, <3>1, <3>2
  <2>2. CASE j # k
    <3>1. items'[j] = items[j]
      BY <1>6, <2>2
    <3>2. items[j] # NoItem => items[j].confirmed \in Nat
      BY <1>2, ItemFields
    <3>. QED BY <1>2, <3>1, <3>2 DEF ItemsInv, ItemGood
  <2>. QED BY <2>1, <2>2
<1>10. Calm
  <2>1. Touched(items, items')
    <3>1. IsActive(items', k) => HumanConfirmed(new)
      BY <1>3, <1>5, <1>6 DEF IsActive, HumanConfirmed
    <3>. QED BY <1>1, <1>3, <1>6, <1>8, <3>1 DEF Touched
  <2>2. Grown(event, event') /\ epoch <= epoch' /\ clock <= clock'
    BY <1>1, <1>2, RunAssumption DEF Grown, CalendarType
  <2>. QED BY <1>1, <1>7, <2>1, <2>2 DEF Calm
<1>11. \A r \in Busy' : r \in Busy /\ SameRun(run[r], run'[r])
  BY <1>1 DEF Busy, SameRun
<1>. QED BY <1>7, <1>9, <1>10, <1>11, CalmInv

-----------------------------------------------------------------------------
(* A unit is persisted *)

\* A deletion listed by its id alone under a revision that was met before.
Clash(S, o) == o.rev[1] = "tombstone" /\ \E old \in S : old.rev = o.rev

LEMMA UpdatedGood ==
    ASSUME NEW it \in Items, NEW o \in Observations, NEW S, NEW T, NEW t,
           it.confirmed <= t, o \in T, \A old \in T : old.version <= o.version
    PROVE  Updated(it, o) \in Items /\ ItemGood(Updated(it, o), T, t) /\ Updated(it, o).cur = o
<1> DEFINE st == IF it.override # NoOverride THEN it.override ELSE Projected(o)
           new == [it EXCEPT !.cur = o, !.state = st]
<1>1. Updated(it, o) = new
  BY DEF Updated
<1>2. st \in States
  BY DEF Items, Projected, States
<1>3. /\ new \in Items /\ new.cur = o /\ new.state = st /\ new.override = it.override
      /\ new.confirmed = it.confirmed
  <2> HIDE DEF st
  <2>. QED BY <1>2 DEF Items
<1> HIDE DEF new
<1>. QED BY <1>1, <1>3 DEF ItemGood

LEMMA CreatedGood ==
    ASSUME NEW o \in Observations, NEW T, NEW t \in Nat,
           o \in T, \A old \in T : old.version <= o.version
    PROVE  Created(o) \in Items /\ ItemGood(Created(o), T, t) /\ Created(o).cur = o
<1>1. Projected(o) \in States
  BY DEF Projected, States
<1>2. /\ Created(o).state = Projected(o) /\ Created(o).override = NoOverride
      /\ Created(o).cur = o /\ Created(o).confirmed = 0
  BY DEF Created
<1>3. Created(o) \in Items
  BY <1>1 DEF Created, Items
<1>. QED BY <1>2, <1>3 DEF ItemGood

\* What the store holds of one key and what is observed of it now.
Observes(it, S, o, g, t) ==
    /\ it \in Items \cup {NoItem} /\ S \subseteq Observations /\ o \in Observations
    /\ it = NoItem <=> S = {}
    /\ it # NoItem => ItemGood(it, S, t)
    /\ Shaped(o) /\ o.order = g + 1
    /\ \A old \in S : Shaped(old) /\ old.order <= g /\ old.version <= o.version

LEMMA FirstMet ==
    ASSUME NEW it, NEW S, NEW o, NEW g \in Nat, NEW t \in Nat, Observes(it, S, o, g, t),
           ~ \E old \in S : old.rev = o.rev
    PROVE  LET jt == Reconciled(it, S, o)  T == Retained(S, o)
           IN /\ T = S \cup {o} /\ jt \in Items /\ ItemGood(jt, T, t) /\ jt.cur = o
<1> USE DEF Observes
<1> DEFINE T == Retained(S, o)
<1>1. T = S \cup {o}
  BY DEF Retained
<1>2. \A old \in T : old.version <= o.version
  BY <1>1, ObservationFields
<1>3. Reconciled(it, S, o) = IF it = NoItem THEN Created(o)
                             ELSE IF After(o, it.cur) THEN Updated(it, o) ELSE it
  BY DEF Reconciled
<1>4. CASE it = NoItem
  BY <1>1, <1>2, <1>3, <1>4, CreatedGood
<1>5. CASE it # NoItem
  <2>1. it \in Items /\ it.cur \in S /\ it.confirmed <= t
    BY <1>5 DEF ItemGood
  <2>2. After(o, it.cur)
    <3>1. it.cur.order <= g /\ it.cur.order \in Nat /\ o.order = g + 1
      BY <2>1, ObservationFields
    <3>. QED BY <3>1 DEF After
  <2>. QED BY <1>1, <1>2, <1>3, <1>5, <2>1, <2>2, UpdatedGood
<1>. QED BY <1>4, <1>5

LEMMA MetAgain ==
    ASSUME NEW it, NEW S, NEW o, NEW g \in Nat, NEW t \in Nat, Observes(it, S, o, g, t),
           \E old \in S : old.rev = o.rev, ~Synthetic(o)
    PROVE  LET jt == Reconciled(it, S, o)  T == Retained(S, o)
           IN /\ T = S /\ jt \in Items /\ ItemGood(jt, T, t)
              /\ ~Clash(S, o) => jt.cur.version = o.version /\ ~Synthetic(jt.cur)
<1> USE DEF Observes
<1> DEFINE T == Retained(S, o)
           same == {old \in S : old.rev = o.rev}
           incoming == CHOOSE old \in same : TRUE
           jt == Reconciled(it, S, o)
<1>1. T = S
  BY DEF Retained
<1>2. same # {} /\ S # {}
  OBVIOUS
<1>3. incoming \in S /\ incoming.rev = o.rev
  <2>1. incoming \in same
    BY <1>2
  <2>. QED BY <2>1
<1>4. jt = IF incoming # it.cur /\ Restores(incoming, it.cur) THEN Updated(it, incoming) ELSE it
  BY <1>2 DEF Reconciled
<1> HIDE DEF incoming, same, jt
<1>5. /\ it \in Items /\ it.cur \in S /\ it.confirmed <= t
      /\ \A old \in S : old.version <= it.cur.version
      /\ ItemGood(it, S, t)
  BY <1>2 DEF ItemGood
<1>6. Shaped(incoming) /\ Shaped(it.cur) /\ Shaped(o) /\ ~Synthetic(incoming)
      /\ incoming.version \in Nat /\ it.cur.version \in Nat /\ o.version \in Nat
  BY <1>3, <1>5, ObservationFields DEF Synthetic
<1>7. ASSUME Restores(incoming, it.cur) PROVE incoming.version = it.cur.version
  <2>1. Synthetic(it.cur) /\ incoming.refs \cap it.cur.refs # {}
    BY <1>7 DEF Restores
  <2>2. it.cur.refs = {<<"etag", it.cur.version>>}
    BY <1>6, <2>1, MarkShape
  <2>3. <<"etag", it.cur.version>> \in incoming.refs
    BY <2>1, <2>2
  <2>4. CASE incoming.rev[1] = "tombstone"
    <3>1. incoming.refs = {incoming.rev}
      BY <1>6, <2>4 DEF Shaped
    <3>2. incoming.rev = <<"etag", it.cur.version>>
      BY <2>3, <3>1
    <3>3. incoming.rev[1] = "etag"
      BY <3>2
    <3>. QED BY <2>4, <3>3
  <2>5. CASE incoming.rev[1] # "tombstone"
    <3>1. incoming.refs = {<<"etag", incoming.version>>}
      BY <1>6, <2>5, MarkShape
    <3>2. <<"etag", it.cur.version>> = <<"etag", incoming.version>>
      BY <2>3, <3>1
    <3>. QED BY <3>2
  <2>. QED BY <2>4, <2>5
<1>8. jt \in Items /\ ItemGood(jt, T, t)
  <2>1. CASE incoming # it.cur /\ Restores(incoming, it.cur)
    <3>1. \A old \in T : old.version <= incoming.version
      BY <1>1, <1>5, <1>7, <2>1
    <3>2. incoming \in Observations /\ incoming \in T
      BY <1>1, <1>3
    <3>. QED BY <1>4, <1>5, <2>1, <3>1, <3>2, UpdatedGood
  <2>2. CASE ~(incoming # it.cur /\ Restores(incoming, it.cur))
    BY <1>1, <1>4, <1>5, <2>2
  <2>. QED BY <2>1, <2>2
<1>9. ASSUME ~Clash(S, o) PROVE jt.cur.version = o.version /\ ~Synthetic(jt.cur)
  <2>1. o.rev[1] # "tombstone"
    BY <1>9 DEF Clash
  <2>2. o.rev = <<"etag", o.version>> /\ incoming.rev = <<"etag", incoming.version>>
        /\ incoming.refs = {<<"etag", incoming.version>>}
    BY <1>3, <1>6, <2>1, MarkShape
  <2>3. incoming.version = o.version
    BY <1>3, <2>2
  <2>4. it.cur.version = o.version
    <3>1. o.version <= it.cur.version /\ it.cur.version <= o.version
      BY <1>3, <1>5, <2>3
    <3>. QED BY <1>6, <3>1
  <2>5. CASE Synthetic(it.cur)
    <3>1. it.cur.refs = {<<"etag", it.cur.version>>}
      BY <1>6, <2>5, MarkShape
    <3>2. Restores(incoming, it.cur) /\ incoming # it.cur
      BY <1>6, <2>2, <2>3, <2>4, <2>5, <3>1 DEF Restores
    <3>3. jt = Updated(it, incoming) /\ jt.cur = incoming
      BY <1>3, <1>4, <1>5, <2>3, <2>4, <3>2, UpdatedGood
    <3>. QED BY <1>6, <2>3, <3>3
  <2>6. CASE ~Synthetic(it.cur)
    <3>1. ~Restores(incoming, it.cur)
      BY <2>6 DEF Restores
    <3>. QED BY <1>4, <2>4, <2>6, <3>1
  <2>. QED BY <2>5, <2>6
<1>. QED BY <1>1, <1>8, <1>9 DEF jt

\* What a commit of unit u, of which the keys in F were fetched, does to the
\* store, seen from what a listing knows.
Took(u, F) ==
    /\ F \subseteq DOMAIN u /\ DOMAIN u \subseteq Keys
    /\ \A k \in Keys \ DOMAIN u : items'[k] = items[k] /\ seen'[k] = seen[k]
    /\ \A k \in DOMAIN u :
         /\ items'[k] # NoItem
         /\ seen[k] \subseteq seen'[k] /\ seen'[k] \subseteq seen[k] \cup {u[k]}
    /\ \A k \in F :
         /\ \/ items'[k].cur.version = u[k].version /\ ~Synthetic(items'[k].cur)
            \/ Tombstoned(seen'[k])
         /\ event[k].version = u[k].version /\ event[k].kind = "live" => Shows(event, items', k)
    /\ \A k \in DOMAIN u \ F : Synthetic(items'[k].cur)

LEMMA TookFaithful ==
    ASSUME NEW u, NEW F, Took(u, F), NEW t, NEW open, Faithful(event, items, t, open \cup F),
           \A k \in F : u[k].version \in Nat /\ event[k].version \in Nat /\ t.at[k] \in Nat
                        /\ t.at[k] <= u[k].version /\ u[k].version <= event[k].version,
           \A k \in DOMAIN u \ F : ~Untouched(event, k, t)
    PROVE  Faithful(event, items', t, open)
<1> SUFFICES ASSUME NEW k \in Keys, Untouched(event, k, t), k \notin open
             PROVE  Shows(event, items', k)
  BY DEF Faithful
<1>1. CASE k \notin DOMAIN u
  BY <1>1 DEF Took, Faithful, Shows
<1>2. CASE k \in F
  <2>1. event[k].version = u[k].version /\ event[k].kind = "live"
    BY <1>2 DEF Untouched
  <2>. QED BY <1>2, <2>1 DEF Took
<1>. QED BY <1>1, <1>2

LEMMA TookKept ==
    ASSUME NEW u, NEW F, Took(u, F), NEW t, NEW open,
           Kept(items, seen, t, open \cup DOMAIN u), \A k \in F : u[k].version >= t.at[k]
    PROVE  Kept(items', seen', t, open)
<1> SUFFICES ASSUME NEW k \in Keys, IsActive(items', k), k \notin open
             PROVE  UpTo(items'[k], seen'[k], k, t)
  BY DEF Kept
<1>1. CASE k \notin DOMAIN u
  BY <1>1 DEF Took, Kept, IsActive
<1>2. CASE k \in DOMAIN u
  BY <1>2 DEF Took, UpTo
<1>. QED BY <1>1, <1>2

LEMMA TookMarks ==
    ASSUME NEW u, NEW F, Took(u, F), NEW e, MarksBefore(seen, e),
           \A k \in DOMAIN u : Synthetic(u[k]) => u[k].rev[2].epoch < e
    PROVE  MarksBefore(seen', e)
<1> SUFFICES ASSUME NEW k \in Keys, NEW o \in seen'[k], Synthetic(o)
             PROVE  o.rev[2].epoch < e
  BY DEF MarksBefore
<1>1. o \in seen[k] \/ (k \in DOMAIN u /\ o = u[k])
  BY DEF Took
<1>. QED BY <1>1 DEF MarksBefore

LEMMA TookNoMarks ==
    ASSUME NEW u, NEW F, Took(u, F), NoMarks(seen), \A k \in DOMAIN u : ~Synthetic(u[k])
    PROVE  NoMarks(seen')
<1> SUFFICES ASSUME NEW k \in Keys, NEW o \in seen'[k]
             PROVE  ~Synthetic(o)
  BY DEF NoMarks
<1>1. o \in seen[k] \/ (k \in DOMAIN u /\ o = u[k])
  BY DEF Took
<1>. QED BY <1>1 DEF NoMarks

LEMMA TookTold ==
    ASSUME NEW u, Took(u, DOMAIN u), Told(items, seen, DOMAIN u)
    PROVE  Told(items', seen', {})
<1> SUFFICES ASSUME NEW k \in Keys, IsActive(items', k)
             PROVE  HumanConfirmed(items'[k]) \/ ~Synthetic(items'[k].cur) \/ Tombstoned(seen'[k])
  BY DEF Told
<1>1. CASE k \notin DOMAIN u
  BY <1>1 DEF Took, Told, IsActive
<1>2. CASE k \in DOMAIN u
  BY <1>2 DEF Took
<1>. QED BY <1>1, <1>2

\* A commit that finds no conflict.
Commits(r) == Commit(r) /\ ~Conflicts(run[r].base) /\ ~ContentConflicts(run[r].unit)

LEMMA CommitBase ==
    ASSUME CalendarInv, NEW r \in Runners, Commits(r)
    PROVE  /\ run[r].phase = "commit" /\ run[r].base = cursor
           /\ BaseInv(r) /\ UnitOK(r) /\ NextOK(r) /\ UnitInv(r)
           /\ cursor' = [run[r].next EXCEPT !.gen = cursor.gen + 1]
           /\ items' \in [Keys -> {items'[k] : k \in Keys}]
           /\ seen' \in [Keys -> {seen'[k] : k \in Keys}]
           /\ \A k \in Keys :
                IF k \in DOMAIN run[r].unit
                THEN /\ items'[k] = Reconciled(items[k], seen[k], run[r].unit[k])
                     /\ seen'[k] = Retained(seen[k], run[r].unit[k])
                ELSE items'[k] = items[k] /\ seen'[k] = seen[k]
           /\ fed' = fed /\ clock' = clock /\ event' = event /\ epoch' = epoch /\ used' = used
           /\ run' = [run EXCEPT ![r] = Over(r)]
<1>1. run[r].phase = "commit" /\ r \in Busy
  BY DEF Commits, Commit, Busy
<1>2. RunGood(r)
  BY <1>1 DEF CalendarInv, RunsInv
<1>3. cursor.gen = run[r].base.gen
  BY DEF Commits, Conflicts
<1>4. run[r].base = cursor
  BY <1>2, <1>3 DEF RunGood, BaseInv
<1>5. /\ items' = [k \in Keys |-> IF k \in DOMAIN run[r].unit
                                  THEN Reconciled(items[k], seen[k], run[r].unit[k])
                                  ELSE items[k]]
      /\ seen' = [k \in Keys |-> IF k \in DOMAIN run[r].unit
                                 THEN Retained(seen[k], run[r].unit[k]) ELSE seen[k]]
      /\ cursor' = [run[r].next EXCEPT !.gen = cursor.gen + 1]
      /\ fed' = fed /\ clock' = clock
  BY DEF Commits, Commit, Persist
<1>6. /\ items' \in [Keys -> {items'[k] : k \in Keys}]
      /\ seen' \in [Keys -> {seen'[k] : k \in Keys}]
  BY <1>5
<1>. QED BY <1>1, <1>2, <1>4, <1>5, <1>6 DEF RunGood, Commits, Commit

LEMMA CommitKeys ==
    ASSUME CalendarInv, NEW r \in Runners, Commits(r)
    PROVE  /\ Took(run[r].unit, Fetched(run[r]))
           /\ \A k \in DOMAIN run[r].unit :
                /\ items'[k] \in Items /\ ItemGood(items'[k], seen'[k], clock)
                /\ seen'[k] \subseteq seen[k] \cup {run[r].unit[k]} /\ seen'[k] # {}
                /\ ~Synthetic(run[r].unit[k]) /\ ~Clash(seen[k], run[r].unit[k]) =>
                     /\ items'[k].cur.version = run[r].unit[k].version
                     /\ ~Synthetic(items'[k].cur)
<1> USE DEF CalendarInv
<1> DEFINE s == run[r]
           u == s.unit
           F == Fetched(s)
<1>1. UnitOK(r) /\ UnitInv(r) /\ s.base = cursor
  BY CommitBase
<1>2. /\ DOMAIN u \subseteq Keys /\ \A k \in DOMAIN u : u[k] \in Observations
      /\ cursor.gen \in Nat /\ clock \in Nat /\ s.snap \in Tokens
  BY <1>1, RunFields, ContinuationFields DEF StoreType, UnitOK
<1>3. ASSUME NEW k \in DOMAIN u
      PROVE  /\ Observes(items[k], seen[k], u[k], cursor.gen, clock)
             /\ Sound(event, clock, k, u[k])
  <2>1. k \in Keys /\ Sound(event, clock, k, u[k]) /\ u[k].order = cursor.gen + 1
    BY <1>1, <1>2 DEF UnitOK
  <2>2. \A o \in seen[k] : Shaped(o) /\ o.order <= cursor.gen /\ o.version <= u[k].version
    BY <1>1, <1>2, <2>1 DEF SeenInv, Sound, UnitInv
  <2>3. /\ items[k] \in Items \cup {NoItem} /\ seen[k] \subseteq Observations
        /\ items[k] = NoItem <=> seen[k] = {}
        /\ items[k] # NoItem => ItemGood(items[k], seen[k], clock)
    BY <2>1 DEF StoreType, ItemsInv
  <2>. QED BY <1>2, <2>1, <2>2, <2>3 DEF Observes, Sound
<1>4. ASSUME NEW k \in DOMAIN u, Synthetic(u[k])
      PROVE  ~ \E old \in seen[k] : old.rev = u[k].rev
  <2> SUFFICES ASSUME NEW old \in seen[k], old.rev = u[k].rev PROVE FALSE
    OBVIOUS
  <2>1. u[k].rev[2] = s.snap /\ ScansReset(s) /\ k \in Keys
    BY <1>1, <1>2, <1>4 DEF UnitOK
  <2>2. MarksBefore(seen, s.snap.epoch)
    BY <1>1, <2>1 DEF UnitInv
  <2>3. Synthetic(old)
    BY <1>4 DEF Synthetic
  <2>4. s.snap.epoch < s.snap.epoch
    BY <2>1, <2>2, <2>3 DEF MarksBefore
  <2>. QED BY <1>2, <2>4, TokenFields
<1>5. ASSUME NEW k \in DOMAIN u
      PROVE  /\ items'[k] \in Items /\ ItemGood(items'[k], seen'[k], clock)
             /\ seen[k] \subseteq seen'[k] /\ seen'[k] \subseteq seen[k] \cup {u[k]}
             /\ seen'[k] # {} /\ items'[k] # NoItem
             /\ Synthetic(u[k]) => items'[k].cur = u[k]
             /\ ~Synthetic(u[k]) /\ ~Clash(seen[k], u[k]) =>
                  items'[k].cur.version = u[k].version /\ ~Synthetic(items'[k].cur)
  <2>1. items'[k] = Reconciled(items[k], seen[k], u[k]) /\ seen'[k] = Retained(seen[k], u[k])
    BY <1>2, CommitBase
  <2>2. CASE ~ \E old \in seen[k] : old.rev = u[k].rev
    <3>1. /\ seen'[k] = seen[k] \cup {u[k]} /\ items'[k] \in Items
          /\ ItemGood(items'[k], seen'[k], clock) /\ items'[k].cur = u[k]
      BY <1>2, <1>3, <2>1, <2>2, FirstMet
    <3>. QED BY <3>1, NullAssumption
  <2>3. CASE \E old \in seen[k] : old.rev = u[k].rev
    <3>1. ~Synthetic(u[k])
      BY <1>4, <2>3
    <3>2. /\ seen'[k] = seen[k] /\ items'[k] \in Items
          /\ ItemGood(items'[k], seen'[k], clock)
          /\ ~Clash(seen[k], u[k]) =>
               items'[k].cur.version = u[k].version /\ ~Synthetic(items'[k].cur)
      BY <1>2, <1>3, <2>1, <2>3, <3>1, MetAgain
    <3>. QED BY <2>3, <3>1, <3>2, NullAssumption
  <2>. QED BY <2>2, <2>3
<1>6. ASSUME NEW k \in F
      PROVE  /\ \/ items'[k].cur.version = u[k].version /\ ~Synthetic(items'[k].cur)
                \/ Tombstoned(seen'[k])
             /\ event[k].version = u[k].version /\ event[k].kind = "live"
                  => Shows(event, items', k)
  <2>1. k \in DOMAIN u /\ ~Synthetic(u[k])
    BY DEF Fetched
  <2>2. Clash(seen[k], u[k]) => Tombstoned(seen'[k])
    BY <1>5, <2>1 DEF Clash, Tombstoned
  <2>3. ASSUME event[k].version = u[k].version, event[k].kind = "live"
        PROVE  Shows(event, items', k)
    <3>1. u[k].kind # "gone" /\ Shaped(u[k])
      BY <1>3, <2>1, <2>3 DEF Sound
    <3>2. u[k].rev[1] # "tombstone"
      <4>1. u[k].rev = <<"etag", u[k].version>>
        BY <2>1, <3>1 DEF Shaped, Synthetic
      <4>. QED BY <4>1
    <3>3. ~Clash(seen[k], u[k])
      BY <3>2 DEF Clash
    <3>. QED BY <1>5, <2>1, <2>3, <3>3 DEF Shows
  <2>. QED BY <1>5, <2>1, <2>2, <2>3
<1>7. Took(u, F)
  <2>1. F \subseteq DOMAIN u /\ \A k \in DOMAIN u \ F : Synthetic(u[k])
    BY DEF Fetched
  <2>2. \A k \in Keys \ DOMAIN u : items'[k] = items[k] /\ seen'[k] = seen[k]
    BY CommitBase
  <2>3. \A k \in DOMAIN u \ F : Synthetic(items'[k].cur)
    BY <1>5, <2>1
  <2>. QED BY <1>2, <1>5, <1>6, <2>1, <2>2, <2>3 DEF Took
<1>. QED BY <1>5, <1>7

\* What the stored marks are known to precede before the commit.
LEMMA OldMarks ==
    ASSUME CalendarInv, NEW r \in Runners, run[r].base = cursor, BaseInv(r), UnitOK(r), NextOK(r),
           UnitInv(r), run[r].next.token # NoToken
    PROVE  MarksBefore(seen, run[r].next.token.epoch + 1)
<1> USE DEF CalendarInv
<1> DEFINE s == run[r]
           e == s.next.token.epoch
<1>1. e \in Nat /\ s.next.token \in Tokens
  BY RunFields, ContinuationFields, TokenFields
<1>2. \A k \in Keys : \A o \in seen[k] : Synthetic(o) => o.rev[2].epoch \in Nat
  BY MarkShape, TokenFields DEF SeenInv, Sound
<1>3. CASE cursor.token # NoToken
  <2>1. /\ MarksBefore(seen, cursor.token.epoch + 1) /\ cursor.token \in Tokens
        /\ Earlier(cursor.token, s.next.token)
    BY <1>3, ContinuationFields DEF CursorInv, StoreType, NextOK
  <2>2. cursor.token.epoch \in Nat /\ cursor.token.epoch <= e
    BY <2>1, TokenFields DEF Earlier
  <2>3. ASSUME NEW k \in Keys, NEW o \in seen[k], Synthetic(o) PROVE o.rev[2].epoch < e + 1
    BY <1>1, <1>2, <2>1, <2>2, <2>3 DEF MarksBefore
  <2>. QED BY <2>3 DEF MarksBefore
<1>4. CASE cursor.token = NoToken
  <2>1. s.next.cont = NoToken /\ s.next.token = s.snap
    BY <1>4 DEF NextOK
  <2>2. CASE ScansReset(s)
    <3>1. MarksBefore(seen, e)
      BY <2>1, <2>2 DEF UnitInv
    <3>2. ASSUME NEW k \in Keys, NEW o \in seen[k], Synthetic(o) PROVE o.rev[2].epoch < e + 1
      BY <1>1, <1>2, <3>1, <3>2 DEF MarksBefore
    <3>. QED BY <3>2 DEF MarksBefore
  <2>3. CASE ~ScansReset(s)
    <3>1. ~cursor.reset
      BY <2>3, WhenScanning
    <3>2. NoMarks(seen)
      BY <1>4, <3>1 DEF CursorInv, FirstKnown, NoMarks
    <3>. QED BY <3>2 DEF NoMarks, MarksBefore
  <2>. QED BY <2>2, <2>3
<1>. QED BY <1>3, <1>4

LEMMA CommitCursor ==
    ASSUME CalendarInv, NEW r \in Runners, Commits(r)
    PROVE  CursorInv' /\ cursor' \in Cursors /\ cursor'.gen = cursor.gen + 1
<1> USE DEF CalendarInv
<1> DEFINE s == run[r]
           n == s.next
           u == s.unit
           D == DOMAIN u
           F == Fetched(s)
           snap == s.snap
<1>1. /\ s.base = cursor /\ BaseInv(r) /\ UnitOK(r) /\ NextOK(r) /\ UnitInv(r)
      /\ cursor' = [n EXCEPT !.gen = cursor.gen + 1]
      /\ event' = event /\ epoch' = epoch
  BY CommitBase
<1>2. Took(u, F)
  BY CommitKeys
<1>3. /\ n \in Cursors /\ cursor.gen \in Nat /\ MaxGen \in Nat /\ snap \in Tokens
      /\ D \subseteq Keys /\ F \subseteq D
      /\ \A k \in D : u[k] \in Observations /\ u[k].version \in Nat
      /\ n.token # NoToken => n.token \in Tokens
  BY <1>1, RunFields, ContinuationFields, ObservationFields, RunAssumption
     DEF StoreType, UnitOK, Fetched
<1> DEFINE c == cursor'
<1>4. /\ c.token = n.token /\ c.cont = n.cont /\ c.mode = n.mode /\ c.reset = n.reset
      /\ c.scanned = n.scanned /\ c.overflow = n.overflow /\ c.complete = n.complete
      /\ c.gen = cursor.gen + 1 /\ c \in Cursors
  BY <1>1, <1>3 DEF Cursors
<1> HIDE DEF c
<1>5. Now' = Now
  BY <1>1 DEF Now, Versions
<1>6. CursorOK(n, Now) /\ CursorOK(c, Now)
  BY <1>1, <1>4 DEF NextOK, CursorOK
<1>7. c.gen <= MaxGen
  BY <1>1, <1>3, <1>4 DEF BaseInv
<1>8. ASSUME NEW k \in D
      PROVE  /\ u[k].version <= event[k].version /\ event[k].version \in Nat
             /\ snap.at[k] \in Nat
             /\ k \in F => snap.at[k] <= u[k].version
             /\ k \notin F => /\ Synthetic(u[k]) /\ u[k].rev[2] = snap /\ n.cont = NoToken
  <2>1. k \in Keys /\ Sound(event, clock, k, u[k])
    BY <1>1, <1>3 DEF UnitOK
  <2>2. event[k].version \in Nat /\ snap.at[k] \in Nat
    BY <1>3, <2>1, NowIsToken, TokenFields
  <2>3. u[k].version <= event[k].version
    BY <1>3, <2>1, <2>2 DEF Sound
  <2>4. ~Synthetic(u[k]) => snap.at[k] <= u[k].version
    BY <1>1, <1>3, <2>2 DEF UnitOK
  <2>5. k \in F <=> ~Synthetic(u[k])
    BY DEF Fetched
  <2>6. Synthetic(u[k]) => u[k].rev[2] = snap /\ n.cont = NoToken
    BY <1>1 DEF UnitOK
  <2>. QED BY <2>2, <2>3, <2>4, <2>5, <2>6
\* What is fetched is as new as any token the listing's own token is ahead of.
<1>9. ASSUME NEW t \in Tokens, Earlier(t, snap), NEW k \in F
      PROVE  /\ u[k].version \in Nat /\ event[k].version \in Nat /\ t.at[k] \in Nat
             /\ t.at[k] <= u[k].version /\ u[k].version <= event[k].version
             /\ u[k].version >= t.at[k]
  <2>1. k \in Keys /\ k \in D /\ t.at[k] <= snap.at[k] /\ t.at[k] \in Nat
    BY <1>3, <1>9, TokenFields DEF Earlier
  <2>. QED BY <1>3, <1>8, <2>1
<1>10. Earlier(snap, snap)
  BY <1>3, TokenFields DEF Earlier
<1>11. n.cont # NoToken => D = F
  BY <1>3, <1>8
<1>12. ASSUME n.cont = NoToken
       PROVE  /\ n.token = snap
              /\ TokenKnown(event, items', seen', snap, n.overflow, {})
              /\ MarksBefore(seen', snap.epoch + 1)
  <2>1. /\ n.token = snap /\ snap # NoToken
        /\ Faithful(event, items, snap, {} \cup F)
        /\ \A k \in D \ F : ~Untouched(event, k, snap)
        /\ n.overflow \/ Kept(items, seen, snap, {} \cup D)
    BY <1>1, <1>12 DEF NextOK, UnitInv, UnitOK
  <2>2. Faithful(event, items', snap, {})
    BY <1>2, <1>3, <1>9, <1>10, <2>1, TookFaithful
  <2>3. n.overflow \/ Kept(items', seen', snap, {})
    BY <1>2, <1>3, <1>9, <1>10, <2>1, TookKept
  <2>4. MarksBefore(seen', snap.epoch + 1)
    <3>1. MarksBefore(seen, snap.epoch + 1)
      BY <1>1, <2>1, OldMarks
    <3>2. snap.epoch < snap.epoch + 1
      BY <1>3, TokenFields
    <3>3. \A k \in D : Synthetic(u[k]) => u[k].rev[2].epoch < snap.epoch + 1
      BY <1>1, <3>2 DEF UnitOK
    <3>. QED BY <1>2, <3>1, <3>3, TookMarks
  <2>. QED BY <2>1, <2>2, <2>3, <2>4 DEF TokenKnown
<1>13. ASSUME n.cont # NoToken, n.token # NoToken
       PROVE  /\ TokenKnown(event, items', seen', n.token, n.overflow, {})
              /\ MarksBefore(seen', n.token.epoch + 1)
  <2>1. /\ n.token = cursor.token /\ n.overflow = cursor.overflow /\ D = F
        /\ Earlier(n.token, snap) /\ n.token \in Tokens
    BY <1>1, <1>3, <1>6, <1>11, <1>13 DEF NextOK, UnitInv, CursorOK
  <2>2. /\ Faithful(event, items, n.token, {})
        /\ n.overflow \/ Kept(items, seen, n.token, {})
        /\ MarksBefore(seen, n.token.epoch + 1)
    BY <1>13, <2>1 DEF CursorInv, TokenKnown
  <2>3. /\ Faithful(event, items, n.token, {} \cup F)
        /\ n.overflow \/ Kept(items, seen, n.token, {} \cup D)
    BY <2>2 DEF Faithful, Kept
  <2>4. Faithful(event, items', n.token, {})
    BY <1>2, <1>9, <2>1, <2>3, TookFaithful
  <2>5. n.overflow \/ Kept(items', seen', n.token, {})
    BY <1>2, <1>9, <2>1, <2>3, TookKept
  <2>6. \A k \in D : ~Synthetic(u[k])
    BY <2>1 DEF Fetched
  <2>7. MarksBefore(seen', n.token.epoch + 1)
    BY <1>2, <2>2, <2>6, TookMarks
  <2>. QED BY <2>4, <2>5, <2>7 DEF TokenKnown
<1>14. ASSUME n.cont # NoToken
       PROVE  LET todo == n.cont.todo
              IN /\ n.cont.snap = snap /\ Faithful(event, items', snap, todo)
                 /\ n.token # NoToken => n.overflow \/ Kept(items', seen', snap, todo)
                 /\ n.reset => RebuildKnown(event, items', seen', snap, n.overflow, todo,
                                            n.scanned, {})
                 /\ n.token = NoToken /\ ~n.reset => FirstKnown(items', seen', snap, {})
  <2> DEFINE todo == n.cont.todo
  <2>1. /\ n.cont.snap = snap /\ D = F /\ (n.reset <=> ScansReset(s))
        /\ Faithful(event, items, snap, todo \cup F)
        /\ n.token # NoToken => n.overflow \/ Kept(items, seen, snap, todo \cup D)
        /\ n.reset => RebuildKnown(event, items, seen, snap, n.overflow, todo, n.scanned, D)
        /\ n.token = NoToken /\ ~n.reset => FirstKnown(items, seen, snap, D)
    BY <1>1, <1>11, <1>14 DEF NextOK, UnitInv
  <2>2. Faithful(event, items', snap, todo)
    BY <1>2, <1>3, <1>9, <1>10, <2>1, TookFaithful
  <2>3. \A open : Kept(items, seen, snap, open \cup D) => Kept(items', seen', snap, open)
    BY <1>2, <1>3, <1>9, <1>10, TookKept
  <2>4. \A k \in D : ~Synthetic(u[k])
    BY <2>1 DEF Fetched
  <2>5. ASSUME n.reset
        PROVE  RebuildKnown(event, items', seen', snap, n.overflow, todo, n.scanned, {})
    <3>1. MarksBefore(seen', snap.epoch)
      BY <1>2, <2>1, <2>4, <2>5, TookMarks DEF RebuildKnown
    <3>2. n.overflow \/ /\ Met(event, snap, todo \cup n.scanned)
                        /\ Kept(items, seen, snap, (Keys \ n.scanned) \cup D)
      BY <2>1, <2>5 DEF RebuildKnown
    <3>3. ((Keys \ n.scanned) \cup {}) = Keys \ n.scanned
      OBVIOUS
    <3>. QED BY <2>3, <3>1, <3>2, <3>3 DEF RebuildKnown
  <2>6. ASSUME n.token = NoToken, ~n.reset PROVE FirstKnown(items', seen', snap, {})
    <3>1. Kept(items, seen, snap, {} \cup D) /\ NoMarks(seen)
      BY <2>1, <2>6 DEF FirstKnown
    <3>. QED BY <1>2, <2>3, <2>4, <3>1, TookNoMarks DEF FirstKnown
  <2>. QED BY <2>1, <2>2, <2>3, <2>5, <2>6
<1>15. n.complete => Told(items', seen', {})
  BY <1>1, <1>2, TookTold DEF UnitInv
<1>16. n.token = NoToken => n.cont # NoToken
  BY <1>1 DEF NextOK
<1>17. n.token # NoToken =>
         /\ TokenKnown(event, items', seen', n.token, n.overflow, {})
         /\ MarksBefore(seen', n.token.epoch + 1)
  BY <1>12, <1>13
<1>. QED BY <1>1, <1>4, <1>5, <1>6, <1>7, <1>14, <1>15, <1>16, <1>17 DEF CursorInv, c

LEMMA CommitInv ==
    ASSUME CalendarInv, NEW r \in Runners, Commit(r)
    PROVE  CalendarInv'
<1> USE DEF CalendarInv
<1>1. CASE Conflicts(run[r].base) \/ ContentConflicts(run[r].unit)
  <2>1. Move(r, Over(r)) /\ used' = used
    BY <1>1 DEF Commit, Persist, Move
  <2>2. used' \in [{"today", "before"} -> 0..DailyLimit]
    BY <2>1 DEF RunsType
  <2>. QED BY <2>1, <2>2, IdleTypes, MoveInv
<1>2. CASE ~Conflicts(run[r].base) /\ ~ContentConflicts(run[r].unit)
  <2> DEFINE u == run[r].unit
  <2>1. Commits(r)
    BY <1>2 DEF Commits
  <2>2. /\ items' \in [Keys -> {items'[k] : k \in Keys}]
        /\ seen' \in [Keys -> {seen'[k] : k \in Keys}]
        /\ fed' = fed /\ clock' = clock /\ event' = event /\ epoch' = epoch /\ used' = used
        /\ run' = [run EXCEPT ![r] = Over(r)] /\ UnitOK(r) /\ run[r].base = cursor
    BY <2>1, CommitBase
  <2>3. CursorInv' /\ cursor' \in Cursors /\ cursor'.gen = cursor.gen + 1 /\ cursor.gen \in Nat
    BY <2>1, CommitCursor, ContinuationFields DEF StoreType
  <2>4. \A k \in Keys \ DOMAIN u : items'[k] = items[k] /\ seen'[k] = seen[k]
    BY <2>1, CommitKeys DEF Took
  <2>5. \A k \in DOMAIN u : /\ items'[k] \in Items /\ ItemGood(items'[k], seen'[k], clock)
                            /\ seen'[k] \subseteq seen[k] \cup {u[k]} /\ seen'[k] # {}
    BY <2>1, CommitKeys
  <2>6. DOMAIN u \subseteq Keys /\ \A k \in DOMAIN u : u[k] \in Observations
    BY RunFields
  <2>7. StoreType'
    <3>1. \A k \in Keys : items'[k] \in Items \cup {NoItem} /\ seen'[k] \subseteq Observations
      BY <2>4, <2>5, <2>6 DEF StoreType
    <3>. QED BY <2>2, <2>3, <3>1 DEF StoreType
  <2>8. CalendarType' /\ Now' = Now
    BY <2>2 DEF CalendarType, Now, Versions
  <2>9. RunsType'
    BY <2>2, IdleTypes DEF RunsType
  <2>10. SeenInv'
    <3> SUFFICES ASSUME NEW k \in Keys, NEW o \in seen'[k]
                 PROVE  Sound(event, clock, k, o) /\ o.order \in 1..(cursor.gen + 1)
      BY <2>2, <2>3 DEF SeenInv
    <3>1. o \in seen[k] \/ (k \in DOMAIN u /\ o = u[k])
      BY <2>4, <2>5
    <3>2. CASE o \in seen[k]
      BY <2>3, <3>2 DEF SeenInv
    <3>3. CASE k \in DOMAIN u /\ o = u[k]
      BY <2>2, <2>3, <3>3 DEF UnitOK
    <3>. QED BY <3>1, <3>2, <3>3
  <2>11. ItemsInv'
    BY <2>2, <2>4, <2>5, NullAssumption DEF ItemsInv
  <2>12. RunsInv'
    <3> SUFFICES ASSUME NEW q \in Runners, q \in Busy' PROVE RunGood(q)'
      BY DEF RunsInv, Busy
    <3>1. q # r
      BY <2>2, IdleTypes DEF Busy, RunsType
    <3>2. run'[q] = run[q] /\ q \in Busy
      BY <2>2, <3>1 DEF Busy, RunsType
    <3>3. RunGood(q)
      BY <3>2 DEF RunsInv
    <3>4. run[q].base.gen \in Nat /\ run[q].base.gen <= cursor.gen
      BY <3>3, RunFields DEF RunGood, BaseInv
    <3>5. run[q].base.gen # cursor'.gen /\ run[q].base.gen <= cursor'.gen /\ run[q].base # cursor'
      BY <2>3, <3>4
    <3>6. BaseInv(q)'
      BY <2>2, <2>8, <3>2, <3>3, <3>5 DEF RunGood, BaseInv
    <3>7. ListInv(q) => ListInv(q)'
      BY <2>2, <2>8, <3>2 DEF ListInv
    <3>8. (UnitOK(q) => UnitOK(q)') /\ (NextOK(q) => NextOK(q)')
      BY <2>2, <2>8, <3>2 DEF UnitOK, NextOK, ScansReset
    <3>. QED BY <3>2, <3>3, <3>5, <3>6, <3>7, <3>8 DEF RunGood
  <2>. QED BY <2>3, <2>7, <2>8, <2>9, <2>10, <2>11, <2>12
<1>. QED BY <1>1, <1>2

-----------------------------------------------------------------------------
(* The invariant *)

LEMMA CalendarInvInit == RunInit => CalendarInv
<1> SUFFICES ASSUME RunInit PROVE CalendarInv
  OBVIOUS
<1> USE DEF RunInit, StoreInit
<1>1. cursor = NoCursor /\ NoCursor \in Cursors
  BY IdleTypes
<1>2. /\ NoCursor.token = NoToken /\ NoCursor.cont = NoToken /\ NoCursor.mode = "none"
      /\ NoCursor.reset = FALSE /\ NoCursor.complete = FALSE /\ NoCursor.gen = 0
  BY DEF NoCursor
<1>3. StoreType
  BY <1>1 DEF StoreType
<1>4. CalendarType
  <2>1. [version |-> 0, kind |-> "gone"] \in Events
    BY StoreAssumption DEF Events
  <2>2. epoch \in 0..MaxEpoch
    BY RunAssumption
  <2>. QED BY <2>1, <2>2 DEF CalendarType
<1>5. RunsType
  <2>1. 0 \in 0..DailyLimit
    BY RunAssumption
  <2>. QED BY <2>1, IdleTypes DEF RunsType
<1>6. SeenInv /\ ItemsInv
  BY DEF SeenInv, ItemsInv
<1>7. CursorInv
  <2>1. CursorOK(cursor, Now) /\ cursor.gen <= MaxGen
    BY <1>1, <1>2, RunAssumption DEF CursorOK
  <2>. QED BY <1>1, <1>2, <2>1 DEF CursorInv
<1>8. RunsInv
  <2>1. \A r \in Runners : run[r].phase = "idle"
    BY DEF IdleRun
  <2>. QED BY <2>1 DEF RunsInv, Busy
<1>. QED BY <1>3, <1>4, <1>5, <1>6, <1>7, <1>8 DEF CalendarInv

LEMMA CalendarInvStutters ==
    ASSUME CalendarInv, UNCHANGED vars
    PROVE  CalendarInv'
<1>1. UNCHANGED <<storeVars, used, run>> /\ event' = event /\ epoch' = epoch
  BY DEF vars, storeVars
<1>2. Grown(event, event') /\ CalendarType' /\ epoch <= epoch'
  BY <1>1, RunAssumption DEF Grown, CalendarInv, CalendarType
<1>. QED BY <1>1, <1>2, EventsInv

LEMMA CalendarInvNext == CalendarInv /\ [Next]_vars => CalendarInv'
<1> SUFFICES ASSUME CalendarInv, [Next]_vars PROVE CalendarInv'
  OBVIOUS
<1>1. CASE CalendarChanges
  BY <1>1, ChangesInv
<1>2. CASE WindowMoves
  BY <1>2, WindowInv
<1>3. CASE TokensExpire
  BY <1>3, ExpireInv
<1>4. CASE NewDay
  BY <1>4, NewDayInv
<1>5. ASSUME NEW r \in Runners, Steps(r) \/ Fails(r) PROVE CalendarInv'
  BY <1>5, StartInv, EndsInv, ExpiresInv, FetchInv, ReadInv, CommitInv DEF Steps
<1>6. ASSUME NEW k \in Keys, NEW d \in Decisions, NEW q \in Requests, OwnerDecides(k, d, q)
      PROVE  CalendarInv'
  BY <1>6, OwnerInv
<1>7. CASE Rests \/ UNCHANGED vars
  BY <1>7, CalendarInvStutters DEF Rests
<1>. QED BY <1>1, <1>2, <1>3, <1>4, <1>5, <1>6, <1>7 DEF Next

\* What the store holds and what each run knows of it, at every step: the
\* inductive invariant the following results rest on.
THEOREM CalendarInvHolds == RunSpec => []CalendarInv
<1>1. RunInit => CalendarInv
  BY CalendarInvInit
<1>2. CalendarInv /\ [Next]_vars => CalendarInv'
  BY CalendarInvNext
<1>. QED BY <1>1, <1>2, PTL DEF RunSpec

-----------------------------------------------------------------------------
(* What the store says *)

\* The type invariant: a current observation is one of those retained, no
\* generation is ahead of the cursor's, a rebuild under way has no token.
THEOREM RunTypeCorrect == RunSpec => []RunTypeOK
<1>1. CalendarInv => RunTypeOK
  <2> SUFFICES ASSUME CalendarInv PROVE RunTypeOK
    OBVIOUS
  <2> USE DEF CalendarInv
  <2>1. ASSUME NEW k \in Keys, NEW o \in seen[k]
        PROVE  /\ o.version \in 1..event[k].version /\ o.kind \in Kinds \cup {"near"}
               /\ o.order \in 1..cursor.gen /\ o.at \in 0..clock
    BY ObservationFields DEF SeenInv, Sound, StoreType, ObservedKinds
  <2>2. ASSUME NEW k \in Keys
        PROVE  /\ items[k] = NoItem <=> seen[k] = {}
               /\ items[k] # NoItem =>
                    /\ items[k].state \in States /\ items[k].confirmed \in 0..clock
                    /\ items[k].override \in {NoOverride, "dismissed", "resolved"}
                    /\ items[k].cur \in seen[k]
               /\ fed[k] \in [Requests -> Decisions \cup {NoDecision}]
    <3>1. ASSUME items[k] # NoItem
          PROVE  /\ items[k].state \in States /\ items[k].confirmed \in 0..clock
                 /\ items[k].override \in {NoOverride, "dismissed", "resolved"}
                 /\ items[k].cur \in seen[k]
      <4>1. items[k] \in Items /\ clock \in Nat /\ ItemGood(items[k], seen[k], clock)
        BY <3>1 DEF StoreType, ItemsInv
      <4>. QED BY <4>1, ItemFields DEF ItemGood
    <3>. QED BY <3>1 DEF ItemsInv, StoreType
  <2>3. /\ cursor.gen \in 0..MaxGen /\ cursor.mode \in {"none", "full", "incremental"}
        /\ cursor.reset => cursor.mode = "full" /\ cursor.token = NoToken
        /\ cursor.complete => cursor.cont = NoToken /\ ~cursor.overflow
    BY RunAssumption DEF StoreType, Cursors, CursorInv, CursorOK
  <2>4. /\ used \in [{"today", "before"} -> 0..DailyLimit] /\ epoch \in 0..MaxEpoch
        /\ \A r \in Runners : run[r].phase \in {"idle", "fetch", "read", "commit", "over"}
    BY DEF RunsType, CalendarType, RunRecords
  <2>. QED BY <2>1, <2>2, <2>3, <2>4 DEF RunTypeOK
<1>. QED BY <1>1, CalendarInvHolds, PTL

\* An item is cancelled only by a deletion the provider listed.
THEOREM AbsenceIsNoCancellation == RunSpec => []NoFabricatedCancellation
<1>1. CalendarInv => NoFabricatedCancellation
  <2> SUFFICES ASSUME CalendarInv, NEW k \in Keys, items[k] # NoItem, items[k].state = "cancelled"
               PROVE  items[k].cur.kind = "gone" /\ ~Synthetic(items[k].cur)
    BY DEF NoFabricatedCancellation
  <2>1. items[k] \in Items /\ ItemGood(items[k], seen[k], clock)
    BY DEF CalendarInv, StoreType, ItemsInv
  <2>2. items[k].cur.kind = "gone"
    BY <2>1, ItemFields DEF ItemGood, Projected, Cancelled
  <2>3. Shaped(items[k].cur)
    BY <2>1 DEF ItemGood, CalendarInv, SeenInv, Sound
  <2>. QED BY <2>2, <2>3, MarkShape
<1>. QED BY <1>1, CalendarInvHolds, PTL

\* The saved token never covers what the store missed.
THEOREM TokenCoversStore == RunSpec => []TokenIsCovered
<1>1. CalendarInv => TokenIsCovered
  <2> SUFFICES ASSUME CalendarInv, cursor.token # NoToken
               PROVE  /\ \A k \in Keys :
                           event[k].kind = "live" /\ event[k].version = cursor.token.at[k] =>
                              /\ items[k] # NoItem /\ items[k].cur.version = event[k].version
                              /\ ~Synthetic(items[k].cur)
                      /\ \A k \in Active :
                           \/ items[k].cur.version >= cursor.token.at[k]
                           \/ Synthetic(items[k].cur) \/ HumanConfirmed(items[k])
                           \/ items[k].cur.kind = "past" \/ cursor.overflow \/ DeletedBefore(k)
    BY DEF TokenIsCovered
  <2>1. /\ Faithful(event, items, cursor.token, {})
        /\ cursor.overflow \/ Kept(items, seen, cursor.token, {})
    BY DEF CalendarInv, CursorInv, TokenKnown
  <2>2. ASSUME NEW k \in Keys, event[k].kind = "live", event[k].version = cursor.token.at[k]
        PROVE  /\ items[k] # NoItem /\ items[k].cur.version = event[k].version
               /\ ~Synthetic(items[k].cur)
    BY <2>1, <2>2 DEF Faithful, Untouched, Shows
  <2>3. ASSUME NEW k \in Active, ~cursor.overflow
        PROVE  \/ items[k].cur.version >= cursor.token.at[k]
               \/ Synthetic(items[k].cur) \/ HumanConfirmed(items[k])
               \/ items[k].cur.kind = "past" \/ DeletedBefore(k)
    BY <2>1, <2>3 DEF Kept, UpTo, Active, IsActive, Tombstoned, DeletedBefore
  <2>. QED BY <2>2, <2>3
<1>. QED BY <1>1, CalendarInvHolds, PTL

\* Whoever reads "coverage complete" finds no active item behind the token or
\* marked that the owner did not confirm.
THEOREM CompleteMeansComplete == RunSpec => []CompleteIsHonest
<1>1. CalendarInv => CompleteIsHonest
  <2> SUFFICES ASSUME CalendarInv, cursor.complete, NEW k \in Active
               PROVE  \/ HumanConfirmed(items[k]) \/ DeletedBefore(k)
                      \/ /\ ~Synthetic(items[k].cur)
                         /\ \/ items[k].cur.version >= cursor.token.at[k]
                            \/ items[k].cur.kind = "past"
    BY DEF CompleteIsHonest
  <2>1. cursor.token # NoToken /\ ~cursor.overflow /\ Told(items, seen, {})
    BY DEF CalendarInv, CursorInv, CursorOK
  <2>2. Kept(items, seen, cursor.token, {})
    BY <2>1 DEF CalendarInv, CursorInv, TokenKnown
  <2>3. k \in Keys /\ IsActive(items, k)
    BY DEF Active, IsActive
  <2>. QED BY <2>1, <2>2, <2>3 DEF Kept, UpTo, Told, Tombstoned, DeletedBefore
<1>. QED BY <1>1, CalendarInvHolds, PTL

-----------------------------------------------------------------------------
(* What a step may not do *)

\* Only a commit or a decision of the owner changes the items and the cursor.
LEMMA WhoWrites ==
    ASSUME CalendarInv, [Next]_vars
    PROVE  \/ items' = items /\ cursor' = cursor
           \/ \E r \in Runners : Commits(r)
           \/ \E k \in Keys, d \in Decisions, q \in Requests : OwnerDecides(k, d, q)
<1>1. ASSUME NEW r \in Runners, Commit(r), ~Commits(r)
      PROVE  items' = items /\ cursor' = cursor
  BY <1>1 DEF Commits, Commit, Persist, storeVars
<1>2. ASSUME NEW r \in Runners, Steps(r) \/ Fails(r), ~Commit(r)
      PROVE  items' = items /\ cursor' = cursor
  BY <1>2 DEF Steps, Start, Refused, ListingExpires, FetchPage, Read, Fails, Move, storeVars
<1>3. CASE CalendarChanges \/ WindowMoves \/ TokensExpire \/ NewDay \/ Rests \/ UNCHANGED vars
  BY <1>3 DEF CalendarChanges, WindowMoves, TokensExpire, NewDay, Rests, vars, storeVars
<1>. QED BY <1>1, <1>2, <1>3 DEF Next

\* The stored token never goes back to an older one.
THEOREM TokenOnlyAdvances == RunSpec => CursorNeverRegresses
<1>1. CalendarInv /\ [Next]_vars =>
        (cursor.token # NoToken /\ cursor'.token # NoToken =>
           \A k \in Keys : cursor'.token.at[k] >= cursor.token.at[k])
  <2> SUFFICES ASSUME CalendarInv, [Next]_vars, cursor.token # NoToken,
                      cursor'.token # NoToken, NEW k \in Keys
               PROVE  cursor'.token.at[k] >= cursor.token.at[k]
    OBVIOUS
  <2>1. cursor.token \in Tokens /\ cursor.token.at[k] \in Nat
    BY ContinuationFields, TokenFields DEF CalendarInv, StoreType
  <2>2. CASE cursor' = cursor
    BY <2>1, <2>2
  <2>3. ASSUME NEW r \in Runners, Commits(r) PROVE cursor'.token.at[k] >= cursor.token.at[k]
    <3>1. /\ NextOK(r) /\ run[r].base = cursor
          /\ cursor' = [run[r].next EXCEPT !.gen = cursor.gen + 1]
      BY <2>3, CommitBase
    <3>2. run[r].next \in Cursors
      BY RunFields DEF CalendarInv
    <3>3. cursor'.token = run[r].next.token
      BY <3>1, <3>2 DEF Cursors
    <3>4. Earlier(cursor.token, cursor'.token) /\ cursor'.token \in Tokens
      BY <3>1, <3>2, <3>3, ContinuationFields DEF NextOK
    <3>. QED BY <2>1, <3>4, TokenFields DEF Earlier
  <2>4. ASSUME NEW j \in Keys, NEW d \in Decisions, NEW q \in Requests, OwnerDecides(j, d, q)
        PROVE  cursor' = cursor
    BY <2>4 DEF OwnerDecides, Feedback
  <2>. QED BY <2>2, <2>3, <2>4, WhoWrites
<1>. QED BY <1>1, CalendarInvHolds, PTL DEF RunSpec, CursorNeverRegresses

\* What a run fetched and committed is what the store shows.
THEOREM CommitShowsFetched == RunSpec => FetchedIsShown
<1>1. CalendarInv /\ [Next]_vars =>
        \A r \in Runners :
          run[r].phase = "commit" /\ run'[r].phase # "commit" /\ cursor' # cursor =>
            \A k \in DOMAIN run[r].unit :
               ~Synthetic(run[r].unit[k]) /\ ~DeletedBefore(k) =>
                  /\ items'[k].cur.version >= run[r].unit[k].version
                  /\ ~Synthetic(items'[k].cur)
  <2> SUFFICES ASSUME CalendarInv, [Next]_vars, NEW r \in Runners, run[r].phase = "commit",
                      run'[r].phase # "commit", cursor' # cursor, NEW k \in DOMAIN run[r].unit,
                      ~Synthetic(run[r].unit[k]), ~DeletedBefore(k)
               PROVE  /\ items'[k].cur.version >= run[r].unit[k].version
                      /\ ~Synthetic(items'[k].cur)
    OBVIOUS
  <2>1. ~ \E j \in Keys, d \in Decisions, q \in Requests : OwnerDecides(j, d, q)
    BY DEF OwnerDecides, Feedback
  <2>2. PICK q \in Runners : Commits(q)
    BY <2>1, WhoWrites
  <2>3. q = r
    BY <2>2, CommitBase DEF CalendarInv, RunsType
  <2>4. ~Clash(seen[k], run[r].unit[k])
    BY DEF Clash, DeletedBefore
  <2>5. run[r].unit[k].version \in Nat
    BY RunFields, ObservationFields DEF CalendarInv
  <2>. QED BY <2>2, <2>3, <2>4, <2>5, CommitKeys
<1>. QED BY <1>1, CalendarInvHolds, PTL DEF RunSpec, FetchedIsShown

LEMMA ReconciledKeepsDecision ==
    ASSUME NEW it \in Items, NEW S, NEW o
    PROVE  Reconciled(it, S, o).override = it.override
<1>1. it # NoItem
  BY NullAssumption
<1>2. \A x : Updated(it, x).override = it.override
  BY DEF Updated, Items
<1>. QED BY <1>1, <1>2 DEF Reconciled

\* An override changes only by a decision that was not recorded before, and
\* while it holds the item's state is that of the decision.
THEOREM OwnerPrevails == RunSpec => DecisionsStand
<1>1. CalendarInv /\ [Next]_vars =>
        \A k \in Keys : items[k] # NoItem =>
          /\ items'[k].override # items[k].override =>
               \E q \in Requests : fed[k][q] = NoDecision /\ fed'[k][q] # NoDecision
          /\ items'[k].override # NoOverride => items'[k].state = items'[k].override
  <2> SUFFICES ASSUME CalendarInv, [Next]_vars, NEW k \in Keys, items[k] # NoItem
               PROVE  /\ items'[k].override # items[k].override =>
                           \E q \in Requests : fed[k][q] = NoDecision /\ fed'[k][q] # NoDecision
                      /\ items'[k].override # NoOverride => items'[k].state = items'[k].override
    OBVIOUS
  <2>1. items \in [Keys -> Items \cup {NoItem}] /\ items[k] \in Items
    BY DEF CalendarInv, StoreType
  <2>2. CalendarInv'
    BY CalendarInvNext
  <2>3. ASSUME items'[k] # NoItem
        PROVE  items'[k].override # NoOverride => items'[k].state = items'[k].override
    BY <2>2, <2>3 DEF CalendarInv, ItemsInv, ItemGood
  <2>4. CASE items' = items
    BY <2>3, <2>4
  <2>5. ASSUME NEW r \in Runners, Commits(r)
        PROVE  items'[k] # NoItem /\ items'[k].override = items[k].override
    <3>1. CASE k \in DOMAIN run[r].unit
      BY <2>1, <2>5, <3>1, CommitBase, CommitKeys, ReconciledKeepsDecision, NullAssumption
    <3>2. CASE k \notin DOMAIN run[r].unit
      BY <2>5, <3>2, CommitBase
    <3>. QED BY <3>1, <3>2
  <2>6. ASSUME NEW j \in Keys, NEW d \in Decisions, NEW q \in Requests, OwnerDecides(j, d, q)
        PROVE  /\ items'[k] # NoItem
               /\ items'[k].override # items[k].override =>
                    \E x \in Requests : fed[k][x] = NoDecision /\ fed'[k][x] # NoDecision
    <3>1. /\ fed' = [fed EXCEPT ![j][q] = d] /\ fed[j][q] = NoDecision
          /\ items' = [items EXCEPT ![j] = Decided(items[j], d, clock + 1)]
          /\ Allowed(items[j], d) /\ items[j] # NoItem /\ clock + 1 \in Nat
      BY <2>6 DEF OwnerDecides, Feedback, Fresh, CalendarInv, StoreType
    <3>2. CASE j # k
      BY <2>1, <3>1, <3>2
    <3>3. CASE j = k
      <4>1. items'[k] = Decided(items[k], d, clock + 1)
        BY <2>1, <3>1, <3>3
      <4>2. items'[k] \in Items
        BY <2>1, <3>1, <3>3, <4>1, DecisionFields
      <4>3. fed'[k][q] = d /\ d # NoDecision
        BY <3>1, <3>3, NullAssumption DEF CalendarInv, StoreType
      <4>. QED BY <3>1, <3>3, <4>2, <4>3, NullAssumption
    <3>. QED BY <3>2, <3>3
  <2>. QED BY <2>3, <2>4, <2>5, <2>6, WhoWrites
<1>. QED BY <1>1, CalendarInvHolds, PTL DEF RunSpec, DecisionsStand

=============================================================================
