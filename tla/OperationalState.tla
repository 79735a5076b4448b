--------------------------- MODULE OperationalState ---------------------------
(***************************************************************************)
(* The operational store of one source stream (operational_state.py):      *)
(* immutable observations of what the provider said, one item per source   *)
(* key projected from its current observation, the owner's decisions about *)
(* items, and the cursor of the stream.                                    *)
(*                                                                         *)
(* Every operation is one SQLite write transaction, so one step.  Two      *)
(* parties write: runs that persist a source unit (observations first, the *)
(* cursor last, all or nothing) and the owner, whose client may send the   *)
(* same decision again when the answer is lost.                            *)
(*                                                                         *)
(* A payload is abstracted to what state and coverage depend on: which     *)
(* version of the provider's event it shows and that version's kind.       *)
(* Titles, times, notes and the event log's text are left out, and so is   *)
(* snoozing, which changes no other field.                                 *)
(***************************************************************************)
EXTENDS Integers, FiniteSets

CONSTANTS
    Keys,          \* source keys of the stream
    Decisions,     \* what the owner may decide (FEEDBACK_DECISIONS)
    Requests,      \* idempotency keys the owner's client may use, per item
    MaxVersion,    \* bound: versions of one event at the provider
    NoItem,        \* no row in ops_items
    NoDecision,    \* the idempotency key was not used
    NoOverride,    \* human_override_state is NULL
    NoToken        \* a NULL cursor

ASSUME StoreAssumption ==
    /\ MaxVersion \in Nat \ {0}
    /\ Decisions \subseteq {"confirm", "dismiss", "resolve", "restore"}
    /\ IsFiniteSet(Keys) /\ IsFiniteSet(Requests)
    /\ NoOverride \notin {"dismissed", "resolved"}

VARIABLES
    seen,     \* ops_observations: the observations retained per key
    items,    \* ops_items
    fed,      \* ops_item_events of the owner: the decision of each used key
    cursor,   \* ops_source_cursors: the stream's row
    clock     \* the time of the last confirmation, in confirmations

storeVars == <<seen, items, fed, cursor, clock>>

States == {"active", "cancelled", "dismissed", "resolved"}

-----------------------------------------------------------------------------
(* Observations *)

\* -infinity: an observation without source_updated_at.
NoUpdate == -1

\* Mutant of After: the provider's time decides alone.
AfterByTime(a, b) == a.updated > b.updated

\* _observation_order_key: the unit's generation, then the provider's time.
After(a, b) == a.order > b.order \/ (a.order = b.order /\ a.updated > b.updated)

Cancelled(o) == o.kind = "gone"

\* _is_synthetic_revalidation: the run's own mark on an event it did not find.
Synthetic(o) == o.rev[1] = "revalidation"

\* _restores_provider_authority: a retained provider revision the mark cites.
Restores(incoming, current) ==
    Synthetic(current) /\ ~Synthetic(incoming) /\ incoming.refs \cap current.refs # {}

Projected(o) == IF Cancelled(o) THEN "cancelled" ELSE "active"

\* _create_item
Created(o) == [state |-> Projected(o), override |-> NoOverride, cur |-> o, confirmed |-> 0]

\* _update_item: the owner's decision survives, everything else is the source's.
Updated(item, o) ==
    [item EXCEPT !.cur = o,
                 !.state = IF item.override # NoOverride THEN item.override
                           ELSE Projected(o)]

\* Mutant of Reconciled: a retained revision never becomes current again.
ReconciledOnce(item, retained, o) ==
    IF \E old \in retained : old.rev = o.rev THEN item
    ELSE IF item = NoItem THEN Created(o)
    ELSE IF After(o, item.cur) THEN Updated(item, o)
    ELSE item

\* _reconcile_in_connection: the item after observation o, of which the store
\* retains the observations `retained`.
Reconciled(item, retained, o) ==
    LET same == {old \in retained : old.rev = o.rev}
    IN IF same # {}
       THEN LET incoming == CHOOSE old \in same : TRUE
            IN IF incoming # item.cur /\ Restores(incoming, item.cur)
               THEN Updated(item, incoming) ELSE item
       ELSE IF item = NoItem THEN Created(o)
       ELSE IF After(o, item.cur) THEN Updated(item, o)
       ELSE item                                     \* stale_ignored

\* The content hash, which leaves out order and time of observation.  A deletion
\* has no payload; any other provider revision is that of one version.
SameContent(a, b) ==
    /\ Cancelled(a) = Cancelled(b) /\ a.updated = b.updated /\ a.refs = b.refs
    /\ Cancelled(a) \/ a.version = b.version

\* Mutant of Retained: an event is observed once.
RetainedFirst(retained, o) == IF retained = {} THEN {o} ELSE retained

\* _insert_observation: a revision is retained as it was first observed.
Retained(retained, o) ==
    IF \E old \in retained : old.rev = o.rev THEN retained ELSE retained \cup {o}

-----------------------------------------------------------------------------
(* Source units *)

NoCursor == [token |-> NoToken, gen |-> 0, cont |-> NoToken, mode |-> "none", reset |-> FALSE,
             scanned |-> {}, overflow |-> FALSE, complete |-> FALSE]

\* Mutant of Conflicts: the last writer wins.
ConflictsNever(base) == FALSE

\* _save_source_cursor_in_connection: the row is not the one the unit was
\* computed from.
Conflicts(base) == cursor.token # base.token \/ cursor.gen # base.gen

\* _insert_observation refuses a retained revision that comes with other content.
ContentConflicts(unit) ==
    \E k \in DOMAIN unit : \E old \in seen[k] :
       old.rev = unit[k].rev /\ ~SameContent(old, unit[k])

\* reconcile_source_unit: observe the unit (a function from the keys of the
\* observations it holds), then replace the cursor.  On a conflict the
\* transaction rolls back.
Persist(base, unit, next) ==
    IF Conflicts(base) \/ ContentConflicts(unit) THEN UNCHANGED storeVars
    ELSE /\ items' = [k \in Keys |-> IF k \in DOMAIN unit
                                      THEN Reconciled(items[k], seen[k], unit[k])
                                      ELSE items[k]]
         /\ seen' = [k \in Keys |-> IF k \in DOMAIN unit THEN Retained(seen[k], unit[k])
                                     ELSE seen[k]]
         /\ cursor' = [next EXCEPT !.gen = cursor.gen + 1]
         /\ UNCHANGED <<fed, clock>>

-----------------------------------------------------------------------------
(* The owner's decisions *)

\* _require_state, and the guard of restore.
Allowed(item, d) ==
    IF d = "restore" THEN item.override # NoOverride \/ item.state \in {"resolved", "dismissed"}
    ELSE item.state = "active"

\* What record_item_feedback writes, at time t.
Decided(item, d, t) ==
    CASE d = "confirm" -> [item EXCEPT !.confirmed = t]
      [] d = "dismiss" -> [item EXCEPT !.state = "dismissed", !.override = "dismissed",
                                       !.confirmed = 0]
      [] d = "resolve" -> [item EXCEPT !.state = "resolved", !.override = "resolved",
                                       !.confirmed = t]
      [] d = "restore" -> [item EXCEPT !.state = Projected(item.cur),
                                       !.override = NoOverride, !.confirmed = t]

\* Mutant of Fresh: the recorded key is not looked up.
FreshAlways(k, q, d) == TRUE

\* The idempotency key was not used for this item before.
Fresh(k, q, d) == fed[k][q] = NoDecision

\* record_item_feedback.  A used key is answered from the recorded event, or
\* refused when the content differs: neither writes.
Feedback(k, d, q) ==
    /\ items[k] # NoItem
    /\ Fresh(k, q, d)
    /\ Allowed(items[k], d)
    /\ items' = [items EXCEPT ![k] = Decided(items[k], d, clock + 1)]
    /\ fed' = [fed EXCEPT ![k][q] = d]
    /\ clock' = clock + 1
    /\ UNCHANGED <<seen, cursor>>

StoreInit ==
    /\ seen = [k \in Keys |-> {}]
    /\ items = [k \in Keys |-> NoItem]
    /\ fed = [k \in Keys |-> [q \in Requests |-> NoDecision]]
    /\ cursor = NoCursor
    /\ clock = 0

=============================================================================
