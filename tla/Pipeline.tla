------------------------------ MODULE Pipeline ------------------------------
(***************************************************************************)
(* One bulk action from submission to its final status: the request        *)
(* transaction (services/bulk_action_service.py), the two jobs             *)
(* plan_bulk_action and process_batch (workers/tasks.py) executed by       *)
(* several workers, the database rows they share and the queue between     *)
(* them.  A step of a worker is one statement or one transaction of the    *)
(* job: everything between two awaits that another process can see.        *)
(* PostgreSQL runs READ COMMITTED, so a step reads what is committed.      *)
(***************************************************************************)
EXTENDS Progress, ArqQueue, Handlers

CONSTANTS Workers,        \* job slots (processes x worker_concurrency)
          RequestedSize,  \* batch_size of the request, 0 for none
          DefaultSize,    \* settings.batch_size
          MaxSize,        \* settings.max_batch_size
          FlushEvery,     \* _PLAN_FLUSH_EVERY
          MaxDeferrals,   \* bound: denials of the rate limiter per batch
          InitLimit,      \* the account's rate limit at submission
          PatchLimits,    \* limits PATCH /accounts may set
          InitTables,     \* the entity tables considered
          Faults,         \* kinds of fault and outside event considered
          MaxFaults       \* bound: how many of them one behaviour has

FaultKind == {"crash", "duplicate", "expire", "timeout", "commit", "db_error", "plan_error",
              "exec_error", "final_error", "cancel", "patch", "leave", "join"}

ASSUME SizeAssumption == RequestedSize \in Nat /\ DefaultSize \in Nat /\ MaxSize \in Nat
ASSUME FlushAssumption == FlushEvery \in Nat \ {0}
ASSUME DeferralsAssumption == MaxDeferrals \in Nat
ASSUME LimitAssumption == InitLimit \in Nat \ {0} /\ PatchLimits \subseteq Nat \ {0}
ASSUME TableAssumption == InitTables \subseteq [Entities -> RowState]
ASSUME FaultAssumption == Faults \subseteq FaultKind /\ MaxFaults \in Nat

VARIABLES
    submission,  \* the request transaction: none, open, committed, aborted
    action,      \* the bulk_actions row
    batches,     \* bulk_action_batches: batch_index -> row
    logs,        \* bulk_action_logs: number of rows by status
    wins,        \* bulk_action_logs: success rows naming each entity
    ledger,      \* bulk_action_dedup: keys claimed
    table,       \* the entity table
    limit,       \* accounts.rate_limit_per_minute
    jobs,        \* the queue
    proc,        \* what each worker is doing
    faults,      \* how many of MaxFaults are left
    stayed,      \* history: entities in the target set ever since submission
    revived      \* history: a terminal status was overwritten by the planner

db == <<submission, action, batches, logs, wins, ledger>>
env == <<table, limit, faults>>
history == <<stayed, revived>>
vars == <<submission, action, batches, logs, wins, ledger, table, limit, jobs,
          proc, faults, stayed, revived>>

-----------------------------------------------------------------------------
(* Rows and process records.                                               *)

\* The tally is the row's success, failure and skipped count.
BulkActionBatch ==
    [status : BatchStatus, slice : SUBSET Entities, entity_count : Nat,
     success_count : Nat, failure_count : Nat, skipped_count : Nat]

PlannedBatch == [index : Nat, slice : SUBSET Entities, entity_count : Nat]

new_batch(p) ==
    [status |-> "pending", slice |-> p.slice, entity_count |-> p.entity_count,
     success_count |-> 0, failure_count |-> 0, skipped_count |-> 0]

PlanPc == {"p_load", "p_begin", "p_page", "p_flush", "p_enqueue", "p_totals", "p_fail"}

\* f_: finalize inside the job's try block; g_: after _mark_batch_failed.
BatchPc == {"b_load", "b_cancel", "b_gate", "b_defer", "b_attempt", "b_check",
            "b_rows", "b_commit", "f_select", "f_update",
            "b_failed", "g_select", "g_update"}

Process ==
    [pc : {"idle", "return", "raise"} \union PlanPc \union BatchPc,
     job : JobId, try : Nat,
     index : Nat, last : Nat, pending : Seq(PlannedBatch),           \* planner
     total_entities : Nat, total_batches : Nat, more : BOOLEAN,
     entity_count : Nat, limit : Nat, rows : SUBSET Entities,        \* batch
     held : SUBSET Entities, final : ActionStatus,
     born : ActionStatus]            \* history: action status at delivery

idle ==
    [pc |-> "idle", job |-> PlanJob, try |-> 0,
     index |-> 0, last |-> 0, pending |-> <<>>,
     total_entities |-> 0, total_batches |-> 0, more |-> TRUE,
     entity_count |-> 0, limit |-> 0, rows |-> {},
     held |-> {}, final |-> "queued", born |-> "queued"]

Init ==
    /\ submission = "none"
    /\ action = new_action("queued", 1)
    /\ batches = [i \in {} |-> new_batch([slice |-> {}, entity_count |-> 0])]
    /\ logs = [success |-> 0, failed |-> 0, skipped |-> 0]
    /\ wins = [e \in Entities |-> 0]
    /\ ledger = {}
    /\ table \in InitTables
    /\ limit = InitLimit
    /\ jobs = [j \in {} |-> [st |-> "queued", tries |-> 0]]
    /\ proc = [w \in Workers |-> idle]
    /\ faults = MaxFaults
    /\ stayed = selection_clause(table)
    /\ revived = FALSE

-----------------------------------------------------------------------------
(* Helpers.                                                                *)

Spend(kind) == kind \in Faults /\ faults > 0 /\ faults' = faults - 1

Goto(w, pc) == proc' = [proc EXCEPT ![w].pc = pc]

\* The batch a worker holds.
Index(w) == proc[w].job.i

SetBatchStatus(i, status) == batches' = [batches EXCEPT ![i].status = status]

Visible == submission = "committed"

-----------------------------------------------------------------------------
(* The request: create_bulk_action and the commit of its session.          *)

\* Row flushed, job enqueued; the session commits after the handler returns.
Submit ==
    /\ submission = "none"
    /\ \E status \in {"queued", "scheduled"} :
          action' = new_action(status,
                        effective_batch_size(RequestedSize, DefaultSize, MaxSize, limit))
    /\ submission' = "open"
    /\ jobs' = enqueue_job(jobs, PlanJob)
    /\ UNCHANGED <<batches, logs, wins, ledger, env, proc, history>>

CommitSubmission ==
    /\ submission = "open"
    /\ submission' = "committed"
    /\ UNCHANGED <<action, batches, logs, wins, ledger, env, jobs, proc, history>>

AbortSubmission ==
    /\ submission = "open"
    /\ Spend("commit")
    /\ submission' = "aborted"
    /\ UNCHANGED <<action, batches, logs, wins, ledger, table, limit, jobs, proc, history>>

\* POST /bulk-actions/{id}/cancel: the check and the guarded UPDATE.
cancel_bulk_action ==
    /\ Visible
    /\ ~ is_terminal(action.status)
    /\ Spend("cancel")
    /\ action' = [action EXCEPT !.status = "cancelled"]
    /\ UNCHANGED <<submission, batches, logs, wins, ledger, table, limit, jobs, proc, history>>

\* PATCH /accounts/{id}
update_account ==
    /\ Spend("patch")
    /\ limit' \in PatchLimits \ {limit}
    /\ UNCHANGED <<db, table, jobs, proc, history>>

-----------------------------------------------------------------------------
(* Other writers of the entity table.                                      *)

\* A row is deleted, or edited so that it stops matching.
Leave(e) ==
    /\ e \in selection_clause(table)
    /\ Spend("leave")
    /\ \E state \in {"deleted", "gone"} \union (IF Explicit THEN {} ELSE {"other"}) :
          table' = [table EXCEPT ![e] = state]
    /\ stayed' = stayed \ {e}
    /\ UNCHANGED <<db, limit, jobs, proc, revived>>

\* A row is edited so that it matches, or is inserted.
Join(e) ==
    /\ table[e] = "other"
    /\ Spend("join")
    /\ table' = [table EXCEPT ![e] = "match"]
    /\ UNCHANGED <<db, limit, jobs, proc, history>>

-----------------------------------------------------------------------------
(* Deliveries.                                                             *)

Start(w, j) ==
    /\ proc[w].pc = "idle"
    /\ jobs[j].tries < MaxTries
    /\ jobs' = deliver(jobs, j)
    /\ proc' = [proc EXCEPT ![w] =
                  [idle EXCEPT !.pc = IF j.kind = "plan" THEN "p_load" ELSE "b_load",
                               !.job = j,
                               !.try = jobs[j].tries + 1,
                               !.born = action.status]]

Dequeue(w) ==
    /\ \E j \in DOMAIN jobs : jobs[j].st = "queued" /\ Start(w, j)
    /\ UNCHANGED <<db, env, history>>

\* A job is delivered while an earlier delivery of it still runs.
DuplicateDelivery(w) ==
    /\ \E j \in DOMAIN jobs : jobs[j].st = "running" /\ Start(w, j)
    /\ Spend("duplicate")
    /\ UNCHANGED <<db, table, limit, history>>

\* Every delivery is used up: the queue drops the job without running it.
Abandon ==
    /\ \E j \in DOMAIN jobs :
          jobs[j].st = "queued" /\ jobs[j].tries >= MaxTries /\ jobs' = finish(jobs, j)
    /\ UNCHANGED <<db, env, proc, history>>

Return(w) ==
    /\ proc[w].pc = "return"
    /\ jobs' = finish(jobs, proc[w].job)
    /\ proc' = [proc EXCEPT ![w] = idle]
    /\ UNCHANGED <<db, env, history>>

\* An exception ends the job: retry_jobs does not extend to it.
Raise(w) ==
    /\ proc[w].pc = "raise"
    /\ jobs' = finish(jobs, proc[w].job)
    /\ proc' = [proc EXCEPT ![w] = idle]
    /\ UNCHANGED <<db, env, history>>

\* The worker process dies or is shut down; open transactions roll back.
Crash(w) ==
    /\ proc[w].pc # "idle"
    /\ Spend("crash")
    /\ jobs' = redeliver(jobs, proc[w].job)
    /\ proc' = [proc EXCEPT ![w] = idle]
    /\ UNCHANGED <<db, table, limit, history>>

\* A kept result expires; no delivery of that job is still running by then.
ExpireResult ==
    /\ \E j \in DOMAIN jobs :
          /\ jobs[j].st = "done"
          /\ \A w \in Workers : proc[w].pc # "idle" => proc[w].job # j
          /\ jobs' = expire(jobs, j)
    /\ Spend("expire")
    /\ UNCHANGED <<db, table, limit, proc, history>>

-----------------------------------------------------------------------------
(* plan_bulk_action.                                                       *)

PlanLoad(w) ==
    /\ proc[w].pc = "p_load"
    /\ Goto(w, IF ~ Visible \/ is_terminal(action.status) THEN "return" ELSE "p_begin")
    /\ UNCHANGED <<db, env, jobs, history>>

PlanBegin(w) ==
    /\ proc[w].pc = "p_begin"
    /\ action' = begin_planning(action)
    /\ revived' = (revived \/ is_terminal(action.status))
    /\ Goto(w, "p_page")
    /\ UNCHANGED <<submission, batches, logs, wins, ledger, env, jobs, stayed>>

\* The next page of the walk, or the next chunk of the explicit ids.
next_page(p) ==
    IF Explicit THEN id_chunk(p.index, action.batch_size)
                ELSE filter_page(table, p.last, action.batch_size)

PlanPage(w) ==
    LET p    == proc[w]
        page == next_page(p)
        more == Explicit \/ Cardinality(page) >= action.batch_size
        row  == [index |-> p.index,
                 slice |-> IF Explicit THEN page ELSE cursor_range(page),
                 entity_count |-> Cardinality(page)]
    IN  /\ p.pc = "p_page"
        /\ \E last \in page :
             /\ \A e \in page : e <= last
             /\ proc' = [proc EXCEPT ![w] =
                  [p EXCEPT !.pending = Append(@, row),
                            !.more = more,
                            !.index = @ + 1,
                            !.last = last,
                            !.total_entities = @ + Cardinality(page),
                            !.total_batches = @ + 1,
                            !.pc = IF more /\ Len(p.pending) + 1 < FlushEvery
                                   THEN "p_page" ELSE "p_flush"]]
        /\ UNCHANGED <<db, env, jobs, history>>

\* The walk finds no further row.
PlanEndOfWalk(w) ==
    /\ proc[w].pc = "p_page"
    /\ next_page(proc[w]) = {}
    /\ proc' = [proc EXCEPT ![w] = [@ EXCEPT !.more = FALSE, !.pc = "p_flush"]]
    /\ UNCHANGED <<db, env, jobs, history>>

\* Mutant: ON CONFLICT DO UPDATE.
upsert_batches(rows, pending) ==
    LET planned == {pending[k].index : k \in DOMAIN pending}
    IN  [i \in DOMAIN rows \union planned |->
            IF i \notin planned THEN rows[i]
            ELSE new_batch(pending[CHOOSE k \in DOMAIN pending : pending[k].index = i])]

\* flush: ON CONFLICT (bulk_action_id, batch_index) DO NOTHING.
insert_batches(rows, pending) ==
    LET new == {pending[k].index : k \in DOMAIN pending} \ DOMAIN rows
    IN  [i \in DOMAIN rows \union new |->
            IF i \in DOMAIN rows THEN rows[i]
            ELSE new_batch(pending[CHOOSE k \in DOMAIN pending : pending[k].index = i])]

\* Mutant: the jobs of the flush are enqueued before its rows are inserted.
PlanFlushJobFirst(w) ==
    /\ proc[w].pc = "p_flush"
    /\ LET jobs0 == {BatchJob(proc[w].pending[k].index, 0) : k \in DOMAIN proc[w].pending}
       IN  IF jobs0 \subseteq DOMAIN jobs
           THEN /\ batches' = insert_batches(batches, proc[w].pending)
                /\ Goto(w, IF proc[w].pending = <<>> THEN "p_totals" ELSE "p_enqueue")
                /\ UNCHANGED jobs
           ELSE /\ \E j \in jobs0 \ DOMAIN jobs : jobs' = enqueue_job(jobs, j)
                /\ UNCHANGED <<batches, proc>>
    /\ UNCHANGED <<submission, action, logs, wins, ledger, env, history>>

PlanFlush(w) ==
    /\ proc[w].pc = "p_flush"
    /\ batches' = insert_batches(batches, proc[w].pending)
    /\ Goto(w, IF proc[w].pending = <<>> THEN "p_totals" ELSE "p_enqueue")
    /\ UNCHANGED <<submission, action, logs, wins, ledger, env, jobs, history>>

\* The rest of flush: one enqueue_job per row, then back to the walk.
PlanEnqueue(w) ==
    LET p == proc[w] IN
    /\ p.pc = "p_enqueue"
    /\ jobs' = enqueue_job(jobs, BatchJob(Head(p.pending).index, 0))
    /\ proc' = [proc EXCEPT ![w] =
         [p EXCEPT !.pending = Tail(@),
                   !.pc = IF Tail(p.pending) # <<>> THEN "p_enqueue"
                          ELSE IF p.more THEN "p_page" ELSE "p_totals"]]
    /\ UNCHANGED <<db, env, history>>

PlanTotals(w) ==
    /\ proc[w].pc = "p_totals"
    /\ action' = end_planning(action, proc[w].total_entities, proc[w].total_batches)
    /\ Goto(w, "return")
    /\ UNCHANGED <<submission, batches, logs, wins, ledger, env, jobs, history>>

\* The except clause around the walk.
PlanError(w) ==
    /\ proc[w].pc \in {"p_page", "p_flush", "p_enqueue"}
    /\ Spend("plan_error")
    /\ Goto(w, "p_fail")
    /\ UNCHANGED <<db, table, limit, jobs, history>>

PlanFail(w) ==
    /\ proc[w].pc = "p_fail"
    /\ action' = fail_action(action)
    /\ Goto(w, "raise")
    /\ UNCHANGED <<submission, batches, logs, wins, ledger, env, jobs, history>>

-----------------------------------------------------------------------------
(* process_batch.                                                          *)

\* Mutant: the job does not look at the action's status.
BatchLoadBlind(w) ==
    LET i == Index(w) IN
    /\ proc[w].pc = "b_load"
    /\ proc' = [proc EXCEPT ![w] =
         IF ~ Visible \/ i \notin DOMAIN batches THEN [@ EXCEPT !.pc = "return"]
         ELSE IF batches[i].status = "completed" THEN [@ EXCEPT !.pc = "return"]
         ELSE [@ EXCEPT !.pc = "b_gate",
                        !.entity_count = batches[i].entity_count,
                        !.limit = limit]]
    /\ UNCHANGED <<db, env, jobs, history>>

\* The action, the batch and the account are read in one transaction.
BatchLoad(w) ==
    LET i == Index(w) IN
    /\ proc[w].pc = "b_load"
    /\ proc' = [proc EXCEPT ![w] =
         IF ~ Visible \/ i \notin DOMAIN batches THEN [@ EXCEPT !.pc = "return"]
         ELSE IF batches[i].status = "completed" THEN [@ EXCEPT !.pc = "return"]
         ELSE IF action.status = "cancelled" THEN [@ EXCEPT !.pc = "b_cancel"]
         ELSE [@ EXCEPT !.pc = "b_gate",
                        !.entity_count = batches[i].entity_count,
                        !.limit = limit]]
    /\ UNCHANGED <<db, env, jobs, history>>

BatchCancel(w) ==
    /\ proc[w].pc = "b_cancel"
    /\ SetBatchStatus(Index(w), "cancelled")
    /\ Goto(w, "return")
    /\ UNCHANGED <<submission, action, logs, wins, ledger, env, jobs, history>>

\* The rate limiter refuses an amount above the limit with an exception that
\* no try block catches; otherwise the bucket decides.
BatchGate(w) ==
    /\ proc[w].pc = "b_gate"
    /\ \/ proc[w].entity_count > proc[w].limit /\ Goto(w, "raise")
       \/ proc[w].entity_count <= proc[w].limit /\ Goto(w, "b_attempt")
       \/ /\ proc[w].entity_count <= proc[w].limit
          /\ proc[w].job.d < MaxDeferrals
          /\ Goto(w, "b_defer")
    /\ UNCHANGED <<db, env, jobs, history>>

\* Mutant: the deferred job keeps its id, which the queue drops.
BatchDeferSameId(w) ==
    /\ proc[w].pc = "b_defer"
    /\ jobs' = enqueue_job(jobs, proc[w].job)
    /\ Goto(w, "return")
    /\ UNCHANGED <<db, env, history>>

BatchDefer(w) ==
    /\ proc[w].pc = "b_defer"
    /\ jobs' = enqueue_job(jobs, BatchJob(Index(w), proc[w].job.d + 1))
    /\ Goto(w, "return")
    /\ UNCHANGED <<db, env, history>>

BatchAttempt(w) ==
    /\ proc[w].pc = "b_attempt"
    /\ IF batches[Index(w)].status # "completed"
       THEN SetBatchStatus(Index(w), "processing") ELSE UNCHANGED batches
    /\ Goto(w, "b_check")
    /\ UNCHANGED <<submission, action, logs, wins, ledger, env, jobs, history>>

BatchCheck(w) ==
    /\ proc[w].pc = "b_check"
    /\ Goto(w, IF batches[Index(w)].status = "completed" THEN "return" ELSE "b_rows")
    /\ UNCHANGED <<db, env, jobs, history>>

BatchRows(w) ==
    LET rows == load_batch_rows(table, batches[Index(w)].slice) IN
    /\ proc[w].pc = "b_rows"
    /\ proc' = [proc EXCEPT ![w] =
         [@ EXCEPT !.pc = "b_commit", !.rows = rows,
                   !.held = {e \in rows : table[e] = "held"}]]
    /\ UNCHANGED <<db, env, jobs, history>>

\* The rest of run_batch.  The dedup and row locks taken by its first writing
\* statement are held to the commit, so what it writes is one step.
BatchCommit(w) ==
    LET p       == proc[w]
        i       == Index(w)
        drift   == left_target_set(batches[i].entity_count, p.rows)
        unique  == unique_rows(p.rows, ledger)
        noop    == no_change_rows(unique, p.held)
        written == written_rows(table, unique \ noop)
        failed  == (unique \ noop) \ written
        success == Cardinality(written)
        failure == Cardinality(failed)
        skipped == drift + Cardinality(p.rows \ unique) + Cardinality(noop)
    IN  /\ p.pc = "b_commit"
        /\ ledger' = ledger \union claimed_keys(p.rows, ledger)
        /\ table' = table_after(table, written)
        /\ stayed' = stayed \intersect selection_clause(table')
        /\ wins' = [e \in Entities |-> IF e \in written THEN wins[e] + 1 ELSE wins[e]]
        /\ logs' = [success |-> logs.success + success,
                    failed  |-> logs.failed + failure,
                    skipped |-> logs.skipped + skipped]
        /\ batches' = [batches EXCEPT ![i] =
                         [@ EXCEPT !.status = "completed", !.success_count = success,
                                   !.failure_count = failure, !.skipped_count = skipped]]
        /\ action' = record_batch_completion(action, success, failure, skipped)
        /\ Goto(w, "f_select")
        /\ UNCHANGED <<submission, limit, jobs, faults, revived>>

FinalizeSelect(w) ==
    /\ proc[w].pc \in {"f_select", "g_select"}
    /\ proc' = [proc EXCEPT ![w] =
         IF is_complete(action)
         THEN [@ EXCEPT !.pc = IF proc[w].pc = "f_select" THEN "f_update" ELSE "g_update",
                        !.final = final_status(action)]
         ELSE [@ EXCEPT !.pc = "return"]]
    /\ UNCHANGED <<db, env, jobs, history>>

FinalizeUpdate(w) ==
    /\ proc[w].pc \in {"f_update", "g_update"}
    /\ action' = finalize(action, proc[w].final)
    /\ Goto(w, "return")
    /\ UNCHANGED <<submission, batches, logs, wins, ledger, env, jobs, history>>

\* The except clause of process_batch: re-raise, or give the batch up.
BatchError(w) ==
    /\ \/ proc[w].pc \in {"b_check", "b_rows", "b_commit"} /\ Spend("exec_error")
       \/ proc[w].pc \in {"f_select", "f_update"} /\ Spend("final_error")
    /\ Goto(w, IF proc[w].try < MaxTries THEN "raise" ELSE "b_failed")
    /\ UNCHANGED <<db, table, limit, jobs, history>>

\* Mutant: the row of the failed batch keeps its zero failure_count.
BatchFailedUncounted(w) ==
    /\ proc[w].pc = "b_failed"
    /\ SetBatchStatus(Index(w), "failed")
    /\ logs' = [logs EXCEPT !.failed = @ + proc[w].entity_count]
    /\ action' = record_batch_completion(action, 0, proc[w].entity_count, 0)
    /\ Goto(w, "g_select")
    /\ UNCHANGED <<submission, wins, ledger, env, jobs, history>>

\* _mark_batch_failed
BatchFailed(w) ==
    LET n == proc[w].entity_count IN
    /\ proc[w].pc = "b_failed"
    /\ batches' = [batches EXCEPT ![Index(w)] =
                     [@ EXCEPT !.status = "failed", !.failure_count = n]]
    /\ logs' = [logs EXCEPT !.failed = @ + n]
    /\ action' = record_batch_completion(action, 0, n, 0)
    /\ Goto(w, "g_select")
    /\ UNCHANGED <<submission, wins, ledger, env, jobs, history>>

\* An exception in a transaction that no try block of the job surrounds, or
\* job_timeout, whose CancelledError no `except Exception` catches.
UncaughtError(w) ==
    /\ \/ /\ proc[w].pc \in {"p_load", "p_begin", "p_totals", "p_fail", "b_load", "b_cancel",
                             "b_gate", "b_defer", "b_attempt", "b_failed", "g_select", "g_update"}
          /\ Spend("db_error")
       \/ proc[w].pc \in PlanPc \union BatchPc /\ Spend("timeout")
    /\ Goto(w, "raise")
    /\ UNCHANGED <<db, table, limit, jobs, history>>

-----------------------------------------------------------------------------
(* The system.                                                             *)

\* What a worker does when nothing goes wrong.
WorkerStep(w) ==
    \/ Dequeue(w) \/ Return(w) \/ Raise(w)
    \/ PlanLoad(w) \/ PlanBegin(w) \/ PlanPage(w) \/ PlanEndOfWalk(w)
    \/ PlanFlush(w) \/ PlanEnqueue(w) \/ PlanTotals(w) \/ PlanFail(w)
    \/ BatchLoad(w) \/ BatchCancel(w) \/ BatchGate(w) \/ BatchDefer(w)
    \/ BatchAttempt(w) \/ BatchCheck(w) \/ BatchRows(w) \/ BatchCommit(w)
    \/ FinalizeSelect(w) \/ FinalizeUpdate(w) \/ BatchFailed(w)

WorkerFault(w) ==
    \/ DuplicateDelivery(w) \/ Crash(w)
    \/ PlanError(w) \/ BatchError(w) \/ UncaughtError(w)

Outside ==
    \/ AbortSubmission \/ cancel_bulk_action \/ update_account \/ ExpireResult
    \/ \E e \in Entities : Leave(e) \/ Join(e)

\* No job is left to run: the system rests until another action is submitted.
Quiescent ==
    /\ submission \in {"committed", "aborted"}
    /\ \A j \in DOMAIN jobs : jobs[j].st = "done"
    /\ \A w \in Workers : proc[w].pc = "idle"

Rest == Quiescent /\ UNCHANGED vars

Next ==
    \/ Submit \/ CommitSubmission \/ Abandon
    \/ \E w \in Workers : WorkerStep(w) \/ WorkerFault(w)
    \/ Outside
    \/ Rest

Spec == Init /\ [][Next]_vars

\* The event loop of a worker, the queue and the request handler keep running;
\* faults and outside events need not happen.
FairSpec ==
    /\ Spec
    /\ WF_vars(Submit) /\ WF_vars(CommitSubmission) /\ WF_vars(Abandon)
    /\ \A w \in Workers : WF_vars(WorkerStep(w))
=============================================================================
