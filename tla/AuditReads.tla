----------------------------- MODULE AuditReads -----------------------------
(***************************************************************************)
(* Reading the audit trail while batches are still writing it: the log     *)
(* pages of list_logs and the two reads of get_stats                       *)
(* (app/services/bulk_action_service.py), against the log rows and the     *)
(* counters that one batch transaction commits together                    *)
(* (app/services/batch_runner.py, app/services/logs.py).  The id of a log  *)
(* row comes from a sequence when the row is inserted; the row becomes     *)
(* visible when its transaction commits, in any order of the ids.          *)
(***************************************************************************)
EXTENDS Integers, FiniteSets, FiniteSetsExt

CONSTANTS Batches,    \* batches that write log rows
          RowsOf,     \* outcomes of each batch: a set of <<entity, status>>
          Wanted,     \* the statuses the client filters the log by
          PageSize    \* limit of the request

ASSUME PageAssumption == PageSize \in Nat \ {0}
ASSUME RowsAssumption ==
    \A b \in Batches : IsFiniteSet(RowsOf[b])
        /\ \A r \in RowsOf[b] : r[2] \in {"success", "failed", "skipped"}

VARIABLES
    nextId,      \* the sequence behind bulk_action_logs.id
    open,        \* rows inserted by each open batch transaction
    log,         \* committed rows
    counters,    \* the action row: failure_count and skipped_count
    tx,          \* is each batch still to be committed?
    walk,        \* the client's walk over the log
    stats        \* the stats request

vars == <<nextId, open, log, counters, tx, walk, stats>>

Count(rows, status) == Cardinality({r \in rows : r.status = status})

\* before: history, the matching rows visible when the walk began.
NewWalk == [pc |-> "idle", cursor |-> 0, seen |-> {}, pages |-> 0, twice |-> FALSE,
            before |-> {}]

Init ==
    /\ nextId = 1
    /\ open = [b \in Batches |-> {}]
    /\ log = {}
    /\ counters = [failed |-> 0, skipped |-> 0]
    /\ tx = [b \in Batches |-> "open"]
    /\ walk = NewWalk
    /\ stats = [pc |-> "idle", failed |-> 0, skipped |-> 0,
                failure_breakdown |-> 0, skip_breakdown |-> 0]

-----------------------------------------------------------------------------
\* The outcomes whose row the INSERT of the batch has written.
Written(b) == {<<r.entity, r.status>> : r \in open[b]}

\* write_outcomes, one row of its INSERT: the statements of concurrent batches
\* take their ids from the same sequence.
write_outcomes(b) ==
    /\ tx[b] = "open"
    /\ \E r \in RowsOf[b] \ Written(b) :
          open' = [open EXCEPT ![b] =
                     @ \union {[id |-> nextId, entity |-> r[1], status |-> r[2]]}]
    /\ nextId' = nextId + 1
    /\ UNCHANGED <<log, counters, tx, walk, stats>>

\* Mutant: the counters are advanced in a transaction before the log rows'.
CommitCountersFirst(b) ==
    /\ tx[b] = "open" /\ Written(b) = RowsOf[b]
    /\ IF counters.failed + counters.skipped
             < Count(log, "failed") + Count(log, "skipped")
               + Count(open[b], "failed") + Count(open[b], "skipped")
       THEN /\ counters' = [failed  |-> Count(log, "failed") + Count(open[b], "failed"),
                            skipped |-> Count(log, "skipped") + Count(open[b], "skipped")]
            /\ UNCHANGED <<log, tx>>
       ELSE /\ log' = log \union open[b]
            /\ tx' = [tx EXCEPT ![b] = "committed"]
            /\ UNCHANGED counters
    /\ UNCHANGED <<nextId, open, walk, stats>>

\* The rest of the batch transaction: counters and log rows become visible.
Commit(b) ==
    /\ tx[b] = "open" /\ Written(b) = RowsOf[b]
    /\ log' = log \union open[b]
    /\ counters' = [failed  |-> counters.failed + Count(open[b], "failed"),
                    skipped |-> counters.skipped + Count(open[b], "skipped")]
    /\ tx' = [tx EXCEPT ![b] = "committed"]
    /\ UNCHANGED <<nextId, open, walk, stats>>

\* The worker dies: the transaction rolls back, its ids are gone, and the next
\* delivery writes the batch once more.
Rollback(b) ==
    /\ tx[b] = "open" /\ open[b] # {}
    /\ nextId <= Cardinality(UNION {RowsOf[c] : c \in Batches})   \* bound: few ids burnt
    /\ open' = [open EXCEPT ![b] = {}]
    /\ UNCHANGED <<nextId, log, counters, tx, walk, stats>>

-----------------------------------------------------------------------------
\* Mutant: the cursor is inclusive.
page_inclusive(rows, cursor) ==
    LET after == {r \in rows : r.id >= cursor /\ r.status \in Wanted}
    IN  {r \in after : Cardinality({s \in after : s.id < r.id}) < PageSize}

\* list_logs: the first PageSize matching rows after the cursor.
page(rows, cursor) ==
    LET after == {r \in rows : r.id > cursor /\ r.status \in Wanted}
    IN  {r \in after : Cardinality({s \in after : s.id < r.id}) < PageSize}

\* One row more than the page was asked for.
has_more(rows, cursor) ==
    Cardinality({r \in rows : r.id > cursor /\ r.status \in Wanted}) > PageSize

\* One request of the walk; without a next_cursor the client is done.
list_logs ==
    LET got == page(log, walk.cursor)
    IN  /\ walk.pc \in {"idle", "walking"}
        /\ walk' = [pc |-> IF has_more(log, walk.cursor) THEN "walking" ELSE "done",
                    cursor |-> IF has_more(log, walk.cursor)
                               THEN Max({r.id : r \in got}) ELSE walk.cursor,
                    seen |-> walk.seen \union got,
                    pages |-> walk.pages + 1,
                    twice |-> walk.twice \/ got \intersect walk.seen # {},
                    before |-> IF walk.pc = "idle"
                               THEN {r \in log : r.status \in Wanted} ELSE walk.before]
        /\ UNCHANGED <<nextId, open, log, counters, tx, stats>>

\* get_stats reads the counters off the action row first ...
ReadAction ==
    /\ stats.pc = "idle"
    /\ stats' = [stats EXCEPT !.pc = "action", !.failed = counters.failed,
                              !.skipped = counters.skipped]
    /\ UNCHANGED <<nextId, open, log, counters, tx, walk>>

\* ... and groups the failed and skipped log rows in a second statement.
ReadBreakdown ==
    /\ stats.pc = "action"
    /\ stats' = [stats EXCEPT !.pc = "done",
                              !.failure_breakdown = Count(log, "failed"),
                              !.skip_breakdown = Count(log, "skipped")]
    /\ UNCHANGED <<nextId, open, log, counters, tx, walk>>

\* The clients have their answers and every batch has committed.
Finished ==
    /\ walk.pc = "done" /\ stats.pc = "done"
    /\ \A b \in Batches : tx[b] = "committed"
    /\ UNCHANGED vars

Next ==
    \/ \E b \in Batches : write_outcomes(b) \/ Commit(b) \/ Rollback(b)
    \/ list_logs \/ ReadAction \/ ReadBreakdown
    \/ Finished

Spec == Init /\ [][Next]_vars

-----------------------------------------------------------------------------
\* A client that follows next_cursor to the end has been given every matching
\* row that was committed when it started, and no row twice, whatever commits,
\* in whatever order of ids, while it reads (list_logs).
WalkIsComplete ==
    walk.pc = "done" => walk.before \subseteq walk.seen /\ ~ walk.twice

\* The breakdowns of get_stats, read after the counters, never explain fewer
\* failures or skips than the counters show.
BreakdownCoversCounters ==
    stats.pc = "done" =>
        /\ stats.failed <= stats.failure_breakdown
        /\ stats.skipped <= stats.skip_breakdown
=============================================================================
