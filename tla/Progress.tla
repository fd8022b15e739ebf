------------------------------ MODULE Progress ------------------------------
(***************************************************************************)
(* The bulk_actions row and every statement that writes it: the counters   *)
(* and the state transitions of app/services/progress.py, the planner's    *)
(* two updates (app/workers/tasks.py) and the canceller's                  *)
(* (app/services/bulk_action_service.py).  An operator is one UPDATE: its  *)
(* WHERE clause decides whether the row changes, and PostgreSQL applies it *)
(* atomically to the row as it is at that moment.                          *)
(***************************************************************************)
EXTENDS Integers

ActionStatus == {"scheduled", "queued", "planning", "processing", "completed",
                 "completed_with_errors", "failed", "cancelled"}

BatchStatus == {"pending", "processing", "completed", "failed", "cancelled"}

is_terminal(s) == s \in {"completed", "completed_with_errors", "failed", "cancelled"}

\* Times, messages and the configuration do not influence any transition.
BulkAction ==
    [status            : ActionStatus,
     batch_size        : Nat \ {0},
     total_entities    : Nat,
     total_batches     : Nat,
     processed_count   : Nat,
     success_count     : Nat,
     failure_count     : Nat,
     skipped_count     : Nat,
     completed_batches : Nat]

new_action(status, batch_size) ==
    [status            |-> status,
     batch_size        |-> batch_size,
     total_entities    |-> 0,
     total_batches     |-> 0,
     processed_count   |-> 0,
     success_count     |-> 0,
     failure_count     |-> 0,
     skipped_count     |-> 0,
     completed_batches |-> 0]

\* The planner's first write.  It has no condition on the current status.
begin_planning(a) == [a EXCEPT !.status = "planning"]

mark_started(a) ==
    IF a.status \in {"queued", "scheduled", "planning"}
    THEN [a EXCEPT !.status = "processing"]
    ELSE a

\* The planner's last transaction: absolute totals, then either the empty
\* close-out or mark_started.
end_planning(a, entities, batches) ==
    LET t == [a EXCEPT !.total_entities = entities, !.total_batches = batches]
    IN  IF batches # 0 THEN mark_started(t)
        ELSE IF t.status = "planning" THEN [t EXCEPT !.status = "completed"]
        ELSE t

\* Mutant: skipped entities are not counted as processed.
record_without_skips(a, success, failure, skipped) ==
    [a EXCEPT !.processed_count   = @ + success + failure,
              !.success_count     = @ + success,
              !.failure_count     = @ + failure,
              !.skipped_count     = @ + skipped,
              !.completed_batches = @ + 1]

\* Mutant: a batch that wrote nothing returns before it is counted.
record_if_written(a, success, failure, skipped) ==
    [a EXCEPT !.processed_count   = @ + success + failure + skipped,
              !.success_count     = @ + success,
              !.failure_count     = @ + failure,
              !.skipped_count     = @ + skipped,
              !.completed_batches = IF success > 0 THEN @ + 1 ELSE @]

record_batch_completion(a, success, failure, skipped) ==
    [a EXCEPT !.processed_count   = @ + success + failure + skipped,
              !.success_count     = @ + success,
              !.failure_count     = @ + failure,
              !.skipped_count     = @ + skipped,
              !.completed_batches = @ + 1]

\* Mutants: finalise in any status; wait for one batch more than there is.
is_complete_any_status(a) == a.completed_batches >= a.total_batches
is_complete_strict(a) == a.completed_batches > a.total_batches /\ a.status = "processing"

\* finalize_if_complete: the completeness test, the status chosen from the row
\* the SELECT returned, and the guarded UPDATE.
is_complete(a) == a.completed_batches >= a.total_batches /\ a.status = "processing"

final_status(a) == IF a.failure_count > 0 THEN "completed_with_errors" ELSE "completed"

finalize(a, status) == IF is_complete(a) THEN [a EXCEPT !.status = status] ELSE a

\* Mutant: the UPDATE has no condition on the status.
fail_unguarded(a) == [a EXCEPT !.status = "failed"]

fail_action(a) == IF is_terminal(a.status) THEN a ELSE [a EXCEPT !.status = "failed"]
=============================================================================
