------------------------- MODULE PipelineProperties -------------------------
(***************************************************************************)
(* What the pipeline promises.  Each property names the code it is about.  *)
(***************************************************************************)
EXTENDS Pipeline, FiniteSetsExt

Reported == {i \in DOMAIN batches : batches[i].status \in {"completed", "failed"}}

\* Past the pre-flight check of process_batch and not yet committed.
Working(w) == proc[w].pc \in {"b_gate", "b_attempt", "b_check", "b_rows", "b_commit"}

\* The shapes of the rows, of the queue and of the workers' local state.
TypeOK ==
    /\ submission \in {"none", "open", "committed", "aborted"}
    /\ action \in BulkAction
    /\ DOMAIN batches \subseteq Nat
    /\ batches \in [DOMAIN batches -> BulkActionBatch]
    /\ logs \in [success : Nat, failed : Nat, skipped : Nat]
    /\ wins \in [Entities -> Nat]
    /\ ledger \subseteq Keys
    /\ table \in [Entities -> RowState]
    /\ limit \in Nat \ {0}
    /\ DOMAIN jobs \subseteq JobId
    /\ jobs \in [DOMAIN jobs -> JobState]
    /\ proc \in [Workers -> Process]
    /\ faults \in Nat
    /\ stayed \subseteq Entities
    /\ revived \in BOOLEAN

\* The counters of the action row equal the audit log, row for row, whatever
\* is retried, duplicated or lost: run_batch and _mark_batch_failed write the
\* log and increment the counters in one transaction.
CountersMatchLogs ==
    /\ action.success_count = logs.success
    /\ action.failure_count = logs.failed
    /\ action.skipped_count = logs.skipped
    /\ action.processed_count = logs.success + logs.failed + logs.skipped

\* completed_batches never lags behind the batches that have reported, so
\* finalize_if_complete cannot wait for an increment that was lost.
ReportedBatchesCounted == Cardinality(Reported) <= action.completed_batches

\* "a worker can never dequeue a job whose row is not yet visible": the job of
\* a batch exists only once the row of the batch is committed (flush).
RowBeforeJob ==
    \A j \in DOMAIN jobs : j.kind = "batch" => Visible /\ j.i \in DOMAIN batches

\* What a worker holds exists: past its load a planner has seen the action, a
\* batch job works on a committed row, and the jobs still to be enqueued by a
\* flush belong to rows the flush has committed.
WorkersHoldRows ==
    \A w \in Workers :
        /\ proc[w].pc \in PlanPc \ {"p_load"} => Visible
        /\ proc[w].pc \in BatchPc => Visible /\ Index(w) \in DOMAIN batches
        /\ proc[w].pc = "p_enqueue" =>
              /\ proc[w].pending # <<>>
              /\ \A k \in DOMAIN proc[w].pending :
                    proc[w].pending[k].index \in DOMAIN batches

\* Of the entities that share a dedup key at most one is ever written, and it
\* is written once, even when batches are retried or delivered twice.
OneWinnerPerKey ==
    Deduplicate =>
        \A e, f \in Entities :
            wins[e] > 0 /\ wins[f] > 0 /\ Key[e] = Key[f] /\ Key[e] # NoKey
                => e = f /\ wins[e] = 1

\* A second planning pass never changes or removes a batch row that exists:
\* the slice a batch job works on is the one first written (flush).
PlanRowsFrozen ==
    [][\A i \in DOMAIN batches :
          /\ i \in DOMAIN batches'
          /\ batches'[i].slice = batches[i].slice
          /\ batches'[i].entity_count = batches[i].entity_count]_vars

\* Apart from the planner's first UPDATE, which has no WHERE on the status, no
\* writer leaves a terminal status: not a late batch, finalize_if_complete,
\* fail_action or a second cancellation.
OnlyPlannerLeavesTerminal ==
    [][is_terminal(action.status) /\ Visible
         => action'.status = action.status \/ revived']_vars

\* A batch job delivered after the cancellation does no work.
CancelStopsAtBoundary ==
    ~ revived => \A w \in Workers : Working(w) => proc[w].born # "cancelled"

\* An action that completed has every batch reported exactly once, and its
\* counters add up to the number of entities planned.
CompletedIsExact ==
    action.status \in {"completed", "completed_with_errors"} =>
        /\ action.processed_count = action.total_entities
        /\ action.completed_batches = action.total_batches
        /\ Reported = 0 .. (action.total_batches - 1)
        /\ (action.status = "completed") = (action.failure_count = 0)

\* The batch rows account for the action's counters: nothing was counted twice.
TalliesAddUp ==
    LET Sum(field) == MapThenSumSet(LAMBDA i : batches[i][field], Reported)
    IN  /\ Sum("success_count") = action.success_count
        /\ Sum("failure_count") = action.failure_count
        /\ Sum("skipped_count") = action.skipped_count

\* No entity belongs to two batches.
DisjointSlices ==
    \A i, j \in DOMAIN batches :
        i # j => batches[i].slice \intersect batches[j].slice = {}

\* Once planning has ended, an entity that was in the target set all along
\* belongs to a batch.
PlanCoversTarget ==
    action.total_batches > 0 =>
        stayed \intersect (IF Explicit THEN {EntityIds[k] : k \in DOMAIN EntityIds}
                                       ELSE Entities)
            \subseteq UNION {batches[i].slice : i \in DOMAIN batches}

\* No row is written twice by one action.
NoDoubleWrite == \A e \in Entities : wins[e] <= 1

\* A batch recorded as failed wrote none of its entities.
FailedBatchWroteNothing ==
    \A i \in DOMAIN batches :
        batches[i].status = "failed" => \A e \in batches[i].slice : wins[e] = 0

\* No worker holds a batch larger than the limit it was admitted under, which
\* the limiter could never grant.
BatchFitsLimit ==
    \A w \in Workers : proc[w].pc = "b_gate" => proc[w].entity_count <= proc[w].limit

\* No job is left and every batch has reported: the action was finalised.
FinalisedByLastReport ==
    Quiescent /\ action.status \in {"planning", "processing"}
        => Cardinality(Reported) < Cardinality(DOMAIN batches)

\* No job is left: a committed action was picked up by a planner.
CommittedIsPlanned ==
    Quiescent /\ Visible => action.status \notin {"queued", "scheduled"}

\* An action that was cancelled before its planning began writes nothing:
\* process_batch checks the status before each batch.
CancelledWritesNothing == revived => \A e \in Entities : wins[e] = 0

\* A batch that has committed is left alone by a cancellation: one recorded as
\* cancelled wrote none of its entities.
CancelledBatchWroteNothing ==
    \A i \in DOMAIN batches :
        batches[i].status = "cancelled" => \A e \in batches[i].slice : wins[e] = 0

\* Only a row that is in the target set when it is written counts as a success
\* (the UPDATE and the RETURNING of execute).
SuccessIsInTarget ==
    [][\A e \in Entities : wins'[e] > wins[e] => e \in selection_clause(table)]_vars

\* Every batch row the planner committed is eventually reported or cancelled,
\* through errors, redeliveries, rate-limit deferrals and a cancellation.
EveryBatchReports ==
    \A i \in 0 .. (N - 1) :
        i \in DOMAIN batches ~>
            /\ i \in DOMAIN batches
            /\ batches[i].status \in {"completed", "failed", "cancelled"}

\* While a batch is outstanding when planning ends, the action reaches a
\* terminal status.
OutstandingBatchFinishes ==
    (action.status = "processing" /\ action.completed_batches < action.total_batches)
        ~> is_terminal(action.status)
=============================================================================
