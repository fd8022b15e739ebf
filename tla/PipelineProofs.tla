--------------------------- MODULE PipelineProofs ---------------------------
EXTENDS PipelineProperties, FiniteSetTheorems, TLAPS

LEMMA EntitySets ==
    ASSUME NEW S \in SUBSET Entities
    PROVE  IsFiniteSet(S) /\ Cardinality(S) \in Nat
<1>1. IsFiniteSet(Entities)
  BY NAssumption, FS_Interval DEF Entities
<1>2. IsFiniteSet(S)
  BY <1>1, FS_Subset
<1> QED BY <1>2, FS_CardinalityType

LEMMA GotoType ==
    ASSUME TypeOK, NEW w \in Workers,
           NEW pc \in {"idle", "return", "raise"} \union PlanPc \union BatchPc,
           Goto(w, pc)
    PROVE  proc' \in [Workers -> Process]
<1>1. proc[w] \in Process
  BY DEF TypeOK
<1>2. [proc[w] EXCEPT !.pc = pc] \in Process
  BY <1>1 DEF Process
<1>3. proc' = [proc EXCEPT ![w] = [proc[w] EXCEPT !.pc = pc]]
  BY DEF Goto, TypeOK
<1> QED BY <1>2, <1>3 DEF TypeOK

LEMMA IdleType == idle \in Process
BY DEF idle, Process, PlanJob, JobId, ActionStatus

\* Every UPDATE of the bulk_actions row yields a row.
LEMMA ActionWrites ==
    ASSUME NEW a \in BulkAction
    PROVE  /\ begin_planning(a) \in BulkAction
           /\ \A s, f \in Nat : end_planning(a, s, f) \in BulkAction
           /\ \A s, f, k \in Nat : record_batch_completion(a, s, f, k) \in BulkAction
           /\ \A status \in ActionStatus : finalize(a, status) \in BulkAction
           /\ final_status(a) \in ActionStatus
           /\ fail_action(a) \in BulkAction
<1>1. \A st \in ActionStatus : [a EXCEPT !.status = st] \in BulkAction
  BY DEF BulkAction
<1>2. begin_planning(a) \in BulkAction
  BY <1>1 DEF begin_planning, ActionStatus
<1>3. \A t \in BulkAction : mark_started(t) \in BulkAction
  BY DEF mark_started, BulkAction, ActionStatus
<1>4. ASSUME NEW s \in Nat, NEW f \in Nat PROVE end_planning(a, s, f) \in BulkAction
  <2> DEFINE t == [a EXCEPT !.total_entities = s, !.total_batches = f]
  <2>1. t \in BulkAction
    BY DEF BulkAction
  <2>2. mark_started(t) \in BulkAction
    BY <2>1, <1>3
  <2>3. [t EXCEPT !.status = "completed"] \in BulkAction
    BY <2>1 DEF BulkAction, ActionStatus
  <2> HIDE DEF t
  <2>4. end_planning(a, s, f) = IF f # 0 THEN mark_started(t)
                                ELSE IF t.status = "planning"
                                THEN [t EXCEPT !.status = "completed"] ELSE t
    BY DEF end_planning, t
  <2> QED BY <2>1, <2>2, <2>3, <2>4
<1>5. ASSUME NEW s \in Nat, NEW f \in Nat, NEW k \in Nat
      PROVE  record_batch_completion(a, s, f, k) \in BulkAction
  <2>1. /\ a.processed_count \in Nat /\ a.success_count \in Nat /\ a.failure_count \in Nat
        /\ a.skipped_count \in Nat /\ a.completed_batches \in Nat
    BY DEF BulkAction
  <2>2. /\ a.processed_count + s + f + k \in Nat /\ a.success_count + s \in Nat
        /\ a.failure_count + f \in Nat /\ a.skipped_count + k \in Nat
        /\ a.completed_batches + 1 \in Nat
    BY <2>1
  <2> QED BY <2>2 DEF record_batch_completion, BulkAction
<1>6. \A status \in ActionStatus : finalize(a, status) \in BulkAction
  BY <1>1 DEF finalize
<1>7. final_status(a) \in ActionStatus
  BY DEF final_status, ActionStatus
<1>8. fail_action(a) \in BulkAction
  BY <1>1 DEF fail_action, ActionStatus
<1> QED BY <1>2, <1>4, <1>5, <1>6, <1>7, <1>8

JobsOK(q) == DOMAIN q \subseteq JobId /\ q \in [DOMAIN q -> JobState]

\* Every operation of the queue keeps its table well formed.
LEMMA QueueWrites ==
    ASSUME NEW q, JobsOK(q), NEW j \in JobId
    PROVE  /\ JobsOK(enqueue_job(q, j))
           /\ JobsOK(deliver(q, j))
           /\ JobsOK(finish(q, j))
           /\ JobsOK(redeliver(q, j))
           /\ JobsOK(expire(q, j))
<1>1. JobsOK(enqueue_job(q, j))
  BY DEF JobsOK, enqueue_job, JobState
<1>2. JobsOK(deliver(q, j))
  <2>1. \A i \in DOMAIN q : q[i].tries + 1 \in Nat
    BY DEF JobsOK, JobState
  <2>2. \A i \in DOMAIN q : [st |-> "running", tries |-> q[i].tries + 1] \in JobState
    BY <2>1 DEF JobState
  <2> QED BY <2>2 DEF JobsOK, deliver
<1>3. JobsOK(finish(q, j))
  BY DEF JobsOK, finish, JobState
<1>4. JobsOK(redeliver(q, j))
  BY DEF JobsOK, redeliver, JobState
<1>5. JobsOK(expire(q, j))
  BY DEF JobsOK, expire, JobState
<1> QED BY <1>1, <1>2, <1>3, <1>4, <1>5

BatchesOK(b) == DOMAIN b \subseteq Nat /\ b \in [DOMAIN b -> BulkActionBatch]

\* A flush keeps the batch table well formed, keeps every row that was there
\* and adds a row for each pending batch.
LEMMA InsertBatches ==
    ASSUME NEW b, BatchesOK(b), NEW pending \in Seq(PlannedBatch)
    PROVE  /\ BatchesOK(insert_batches(b, pending))
           /\ DOMAIN b \subseteq DOMAIN insert_batches(b, pending)
           /\ \A i \in DOMAIN b : insert_batches(b, pending)[i] = b[i]
           /\ \A k \in DOMAIN pending :
                 pending[k].index \in DOMAIN insert_batches(b, pending)
           /\ \A i \in DOMAIN insert_batches(b, pending) \ DOMAIN b :
                 insert_batches(b, pending)[i].status = "pending"
<1> DEFINE new == {pending[k].index : k \in DOMAIN pending} \ DOMAIN b
           row(i) == pending[CHOOSE k \in DOMAIN pending : pending[k].index = i]
           c == insert_batches(b, pending)
<1>1. \A k \in DOMAIN pending : pending[k] \in PlannedBatch
  OBVIOUS
<1>2. \A i \in new : row(i) \in PlannedBatch
  BY <1>1
<1>3. \A i \in new : new_batch(row(i)) \in BulkActionBatch /\ new_batch(row(i)).status = "pending"
  <2> HIDE DEF row, new
  <2> QED BY <1>2 DEF new_batch, PlannedBatch, BulkActionBatch, BatchStatus
<1>4. new \subseteq Nat
  BY <1>1 DEF PlannedBatch
<1>5. c = [i \in DOMAIN b \union new |-> IF i \in DOMAIN b THEN b[i] ELSE new_batch(row(i))]
  BY DEF insert_batches
<1>6. \A k \in DOMAIN pending : pending[k].index \in DOMAIN b \union new
  OBVIOUS
<1> HIDE DEF c, new, row
<1>7. BatchesOK(c)
  BY <1>3, <1>4, <1>5 DEF BatchesOK
<1>8. \A i \in DOMAIN c \ DOMAIN b : c[i].status = "pending"
  BY <1>3, <1>5
<1>9. \A i \in DOMAIN b : i \in DOMAIN c /\ c[i] = b[i]
  BY <1>5
<1>10. \A k \in DOMAIN pending : pending[k].index \in DOMAIN c
  BY <1>5, <1>6
<1> QED BY <1>7, <1>8, <1>9, <1>10 DEF c

\* An UPDATE of one batch row by its key.
LEMMA UpdateBatch ==
    ASSUME NEW b, BatchesOK(b), NEW i, NEW st \in BatchStatus,
           NEW s \in Nat, NEW f \in Nat, NEW k \in Nat
    PROVE  /\ BatchesOK([b EXCEPT ![i].status = st])
           /\ BatchesOK([b EXCEPT ![i] = [@ EXCEPT !.status = st, !.failure_count = f]])
           /\ BatchesOK([b EXCEPT ![i] =
                 [@ EXCEPT !.status = st, !.success_count = s,
                           !.failure_count = f, !.skipped_count = k]])
<1>1. CASE i \in DOMAIN b
  <2>1. b[i] \in BulkActionBatch
    BY <1>1 DEF BatchesOK
  <2>2. /\ [b[i] EXCEPT !.status = st] \in BulkActionBatch
        /\ [b[i] EXCEPT !.status = st, !.failure_count = f] \in BulkActionBatch
        /\ [b[i] EXCEPT !.status = st, !.success_count = s,
                        !.failure_count = f, !.skipped_count = k] \in BulkActionBatch
    BY <2>1 DEF BulkActionBatch
  <2> QED BY <2>2 DEF BatchesOK
<1>2. CASE i \notin DOMAIN b
  BY <1>2 DEF BatchesOK
<1> QED BY <1>1, <1>2

\* The pure parts of run_batch stay within the entities and the keys.
LEMMA RunBatchTypes ==
    ASSUME NEW rows \in SUBSET Entities
    PROVE  /\ \A l : unique_rows(rows, l) \subseteq rows
           /\ \A l : claimed_keys(rows, l) \subseteq Keys
           /\ \A n \in Nat : left_target_set(n, rows) \in Nat
<1>1. \A l : unique_rows(rows, l) \subseteq rows
  BY DEF unique_rows
<1>2. \A l : claimed_keys(rows, l) \subseteq Keys
  BY DEF claimed_keys, Keys
<1>3. \A n \in Nat : left_target_set(n, rows) \in Nat
  BY EntitySets DEF left_target_set
<1> QED BY <1>1, <1>2, <1>3

LEMMA TableAfterType ==
    ASSUME NEW t \in [Entities -> RowState], NEW u \in SUBSET Entities
    PROVE  table_after(t, u) \in [Entities -> RowState]
<1>1. \A state \in RowState : row_after(state) \in RowState
  BY ActionTypeAssumption DEF row_after, RowState
<1> QED BY <1>1 DEF table_after

\* Every step keeps the types -- first, BatchCommit in terms of its counts: whatever rows the batch loaded, what it
\* writes is one log row per outcome, the batch's tally and the increments of
\* the action row, all from the same three numbers.
CommitEffect(w, r, written) ==
    LET p == proc[w] IN
    /\ p.pc = "b_commit"
    /\ Index(w) \in DOMAIN batches
    /\ ledger' = ledger \union claimed_keys(p.rows, ledger)
    /\ written \subseteq unique_rows(p.rows, ledger)
    /\ table' = table_after(table, written)
    /\ stayed' \subseteq stayed
    /\ wins' = [e \in Entities |-> IF e \in written THEN wins[e] + 1 ELSE wins[e]]
    /\ logs' = [success |-> logs.success + r.success,
                failed  |-> logs.failed + r.failure,
                skipped |-> logs.skipped + r.skipped]
    /\ batches' = [batches EXCEPT ![Index(w)] =
                     [@ EXCEPT !.status = "completed", !.success_count = r.success,
                               !.failure_count = r.failure, !.skipped_count = r.skipped]]
    /\ action' = record_batch_completion(action, r.success, r.failure, r.skipped)
    /\ Goto(w, "f_select")
    /\ UNCHANGED <<submission, limit, jobs, faults, revived>>

LEMMA CommitShape ==
    ASSUME TypeOK, WorkersHoldRows, NEW w \in Workers, BatchCommit(w)
    PROVE  \E r \in [success : Nat, failure : Nat, skipped : Nat],
              written \in SUBSET Entities : CommitEffect(w, r, written)
<1> DEFINE p == proc[w]
           i == Index(w)
           drift == left_target_set(batches[i].entity_count, p.rows)
           unique == unique_rows(p.rows, ledger)
           noop == no_change_rows(unique, p.held)
           written == written_rows(table, unique \ noop)
           failed == (unique \ noop) \ written
           r == [success |-> Cardinality(written), failure |-> Cardinality(failed),
                 skipped |-> drift + Cardinality(p.rows \ unique) + Cardinality(noop)]
<1>1. i \in DOMAIN batches /\ batches[i].entity_count \in Nat
  BY DEF BatchCommit, WorkersHoldRows, TypeOK, BatchPc, BulkActionBatch
<1>2. p.rows \subseteq Entities
  BY DEF TypeOK, Process
<1>3. unique \subseteq p.rows
  BY DEF unique_rows
<1>4. written \subseteq unique
  BY DEF written_rows
<1>5. noop \subseteq unique
  BY DEF no_change_rows
<1>6. drift \in Nat
  BY <1>1, <1>2, RunBatchTypes DEF TypeOK
<1>7. /\ Cardinality(written) \in Nat /\ Cardinality(failed) \in Nat
      /\ Cardinality(p.rows \ unique) \in Nat /\ Cardinality(noop) \in Nat
  <2>1. /\ written \subseteq Entities /\ failed \subseteq Entities
        /\ p.rows \ unique \subseteq Entities /\ noop \subseteq Entities
    BY <1>2, <1>3, <1>4, <1>5
  <2> QED BY <2>1, EntitySets
<1>8. r \in [success : Nat, failure : Nat, skipped : Nat]
  <2> HIDE DEF drift, unique, noop, written, failed
  <2> QED BY <1>6, <1>7
<1>9. written \in SUBSET Entities
  BY <1>2, <1>3, <1>4
<1>10. CommitEffect(w, r, written)
  BY <1>1, <1>4 DEF BatchCommit, CommitEffect
<1> QED BY <1>8, <1>9, <1>10

\* Every step keeps the types.  WorkersHoldRows is needed because a batch job
\* reads its row, and a flush the head of its pending rows, without a check.
LEMMA TypeStep ==
    ASSUME TypeOK, WorkersHoldRows, Next
    PROVE  TypeOK'
<1> DEFINE Pcs == {"idle", "return", "raise"} \union PlanPc \union BatchPc
<1>j. JobsOK(jobs) /\ BatchesOK(batches)
  BY DEF TypeOK, JobsOK, BatchesOK
<1>i. \A w \in Workers : [proc EXCEPT ![w] = idle] \in [Workers -> Process]
  BY IdleType DEF TypeOK
<1>p. \A w \in Workers : proc[w] \in Process /\ proc[w].job \in JobId
  BY DEF TypeOK, Process
<1>s. ASSUME NEW w \in Workers, NEW j \in DOMAIN jobs, Start(w, j)
      PROVE  JobsOK(jobs') /\ proc' \in [Workers -> Process]
  <2>1. j \in JobId /\ jobs[j].tries \in Nat
    BY DEF TypeOK, JobState
  <2>2. JobsOK(jobs')
    BY <1>s, <1>j, <2>1, QueueWrites DEF Start
  <2>3. action.status \in ActionStatus
    BY DEF TypeOK, BulkAction
  <2> DEFINE r == [idle EXCEPT !.pc = IF j.kind = "plan" THEN "p_load" ELSE "b_load",
                               !.job = j, !.try = jobs[j].tries + 1,
                               !.born = action.status]
  <2>4. r \in Process
    <3> DEFINE pc == IF j.kind = "plan" THEN "p_load" ELSE "b_load"
    <3>1. pc \in PlanPc \union BatchPc
      BY DEF PlanPc, BatchPc
    <3>2. jobs[j].tries + 1 \in Nat
      BY <2>1
    <3> HIDE DEF pc
    <3>3. [idle EXCEPT !.pc = pc, !.job = j, !.try = jobs[j].tries + 1,
                       !.born = action.status] \in Process
      BY <2>1, <2>3, <3>1, <3>2, IdleType DEF Process
    <3> QED BY <3>3 DEF pc
  <2>5. proc' = [proc EXCEPT ![w] = r]
    BY <1>s DEF Start
  <2> HIDE DEF r
  <2> QED BY <2>2, <2>4, <2>5 DEF TypeOK
<1>sub. CASE Submit
  <2>1. effective_batch_size(RequestedSize, DefaultSize, MaxSize, limit) \in Nat \ {0}
    BY SizeAssumption DEF TypeOK, effective_batch_size
  <2>2. action' \in BulkAction
    BY <1>sub, <2>1 DEF Submit, new_action, BulkAction, ActionStatus
  <2>3. JobsOK(jobs')
    BY <1>sub, <1>j, QueueWrites DEF Submit, PlanJob, JobId
  <2> QED BY <1>sub, <2>2, <2>3 DEF Submit, JobsOK, TypeOK, db, env, history
<1>com. CASE CommitSubmission
  BY <1>com DEF CommitSubmission, TypeOK, db, env, history
<1>abo. CASE AbortSubmission
  BY <1>abo DEF AbortSubmission, TypeOK, Spend, history
<1>can. CASE cancel_bulk_action
  <2>1. action' \in BulkAction
    BY <1>can DEF cancel_bulk_action, TypeOK, BulkAction, ActionStatus
  <2> QED BY <1>can, <2>1 DEF cancel_bulk_action, TypeOK, Spend, history
<1>pat. CASE update_account
  BY <1>pat, LimitAssumption DEF update_account, TypeOK, Spend, db, history
<1>exp. CASE ExpireResult
  <2>1. JobsOK(jobs')
    BY <1>exp, <1>j, QueueWrites DEF ExpireResult, TypeOK
  <2> QED BY <1>exp, <2>1 DEF ExpireResult, JobsOK, TypeOK, Spend, db, history
<1>aba. CASE Abandon
  <2>1. JobsOK(jobs')
    BY <1>aba, <1>j, QueueWrites DEF Abandon, TypeOK
  <2> QED BY <1>aba, <2>1 DEF Abandon, JobsOK, TypeOK, db, env, history
<1>res. CASE Rest
  BY <1>res DEF Rest, vars, TypeOK
<1>lea. CASE \E e \in Entities : Leave(e)
  BY <1>lea DEF Leave, TypeOK, RowState, Spend, db
<1>joi. CASE \E e \in Entities : Join(e)
  BY <1>joi DEF Join, TypeOK, RowState, Spend, db, history
<1>deq. ASSUME NEW w \in Workers, Dequeue(w) PROVE TypeOK'
  <2>1. JobsOK(jobs') /\ proc' \in [Workers -> Process]
    BY <1>deq, <1>s DEF Dequeue
  <2> QED BY <1>deq, <2>1 DEF Dequeue, JobsOK, TypeOK, db, env, history
<1>dup. ASSUME NEW w \in Workers, DuplicateDelivery(w) PROVE TypeOK'
  <2>1. JobsOK(jobs') /\ proc' \in [Workers -> Process]
    BY <1>dup, <1>s DEF DuplicateDelivery
  <2> QED BY <1>dup, <2>1 DEF DuplicateDelivery, JobsOK, TypeOK, Spend, db, history
<1>ret. ASSUME NEW w \in Workers, Return(w) PROVE TypeOK'
  <2>1. JobsOK(jobs')
    BY <1>ret, <1>j, <1>p, QueueWrites DEF Return
  <2>2. proc' \in [Workers -> Process]
    BY <1>ret, <1>i DEF Return
  <2> QED BY <1>ret, <2>1, <2>2 DEF Return, JobsOK, TypeOK, db, env, history
<1>rai. ASSUME NEW w \in Workers, Raise(w) PROVE TypeOK'
  <2>1. JobsOK(jobs')
    BY <1>rai, <1>j, <1>p, QueueWrites DEF Raise
  <2>2. proc' \in [Workers -> Process]
    BY <1>rai, <1>i DEF Raise
  <2> QED BY <1>rai, <2>1, <2>2 DEF Raise, JobsOK, TypeOK, db, env, history
<1>cra. ASSUME NEW w \in Workers, Crash(w) PROVE TypeOK'
  <2>1. JobsOK(jobs')
    BY <1>cra, <1>j, <1>p, QueueWrites DEF Crash
  <2>2. proc' \in [Workers -> Process]
    BY <1>cra, <1>i DEF Crash
  <2> QED BY <1>cra, <2>1, <2>2 DEF Crash, JobsOK, TypeOK, db, Spend, history
<1>plo. ASSUME NEW w \in Workers, PlanLoad(w) PROVE TypeOK'
  <2>g. proc' \in [Workers -> Process]
    BY <1>plo, GotoType DEF PlanLoad, PlanPc, BatchPc
  <2> QED BY <1>plo, <2>g DEF PlanLoad, TypeOK, db, env, history
<1>pbe. ASSUME NEW w \in Workers, PlanBegin(w) PROVE TypeOK'
  <2>a. action' \in BulkAction
    BY <1>pbe, ActionWrites DEF PlanBegin, TypeOK, BulkAction
  <2>g. proc' \in [Workers -> Process]
    BY <1>pbe, GotoType DEF PlanBegin, PlanPc, BatchPc
  <2> QED BY <1>pbe, <2>g, <2>a DEF PlanBegin, TypeOK, db, env, history
<1>ppa. ASSUME NEW w \in Workers, PlanPage(w) PROVE TypeOK'
  <2> DEFINE p == proc[w]
             page == next_page(p)
             more == Explicit \/ Cardinality(page) >= action.batch_size
             row == [index |-> p.index,
                     slice |-> IF Explicit THEN page ELSE cursor_range(page),
                     entity_count |-> Cardinality(page)]
  <2>1. page \subseteq Entities
    <3>1. \A k, n : id_chunk(k, n) \subseteq Entities
      <4>1. \A i \in 1 .. Len(EntityIds) : EntityIds[i] \in Entities
        BY EntityIdsAssumption
      <4> QED BY <4>1 DEF id_chunk
    <3>2. \A k, n : filter_page(table, k, n) \subseteq Entities
      BY DEF filter_page, selection_clause
    <3> QED BY <3>1, <3>2 DEF next_page
  <2>2. Cardinality(page) \in Nat
    BY <2>1, EntitySets
  <2>3. row \in PlannedBatch
    <3>1. cursor_range(page) \subseteq Entities
      BY DEF cursor_range
    <3>2. p.index \in Nat
      BY <1>p DEF Process
    <3> QED BY <2>1, <2>2, <3>1, <3>2 DEF PlannedBatch
  <2>m. more \in BOOLEAN
    OBVIOUS
  <2> HIDE DEF page, more, row
  <2>4. PICK last \in page :
          proc' = [proc EXCEPT ![w] =
                     [p EXCEPT !.pending = Append(@, row), !.more = more, !.index = @ + 1,
                               !.last = last, !.total_entities = @ + Cardinality(page),
                               !.total_batches = @ + 1,
                               !.pc = IF more /\ Len(p.pending) + 1 < FlushEvery
                                      THEN "p_page" ELSE "p_flush"]]
    BY <1>ppa DEF PlanPage, page, more, row
  <2>5. last \in Nat
    BY <2>1 DEF Entities
  <2>6. /\ Append(p.pending, row) \in Seq(PlannedBatch)
        /\ p.index + 1 \in Nat /\ p.total_batches + 1 \in Nat
        /\ p.total_entities + Cardinality(page) \in Nat
    BY <1>p, <2>2, <2>3 DEF Process
  <2>7. proc' \in [Workers -> Process]
    <3> DEFINE r == [p EXCEPT !.pending = Append(@, row), !.more = more, !.index = @ + 1,
                               !.last = last, !.total_entities = @ + Cardinality(page),
                               !.total_batches = @ + 1,
                               !.pc = IF more /\ Len(p.pending) + 1 < FlushEvery
                                      THEN "p_page" ELSE "p_flush"]
    <3>1. r \in Process
      BY <1>p, <2>5, <2>6, <2>m DEF Process, PlanPc
    <3> HIDE DEF r
    <3>2. proc' = [proc EXCEPT ![w] = r]
      BY <2>4 DEF r
    <3> QED BY <3>1, <3>2 DEF TypeOK
  <2> QED BY <1>ppa, <2>7 DEF PlanPage, TypeOK, db, env, history
<1>pen. ASSUME NEW w \in Workers, PlanEndOfWalk(w) PROVE TypeOK'
  <2>1. [proc[w] EXCEPT !.more = FALSE, !.pc = "p_flush"] \in Process
    BY <1>p DEF Process, PlanPc
  <2>2. proc' \in [Workers -> Process]
    BY <1>pen, <2>1 DEF PlanEndOfWalk, TypeOK
  <2> QED BY <1>pen, <2>2 DEF PlanEndOfWalk, TypeOK, db, env, history
<1>pfl. ASSUME NEW w \in Workers, PlanFlush(w) PROVE TypeOK'
  <2>a. BatchesOK(batches')
    BY <1>pfl, <1>j, <1>p, InsertBatches DEF PlanFlush, Process
  <2>g. proc' \in [Workers -> Process]
    BY <1>pfl, GotoType DEF PlanFlush, PlanPc, BatchPc
  <2> QED BY <1>pfl, <2>g, <2>a DEF PlanFlush, TypeOK, db, env, BatchesOK, history
<1>pnq. ASSUME NEW w \in Workers, PlanEnqueue(w) PROVE TypeOK'
  <2> DEFINE p == proc[w]
  <2>1. p.pending \in Seq(PlannedBatch) /\ p.pending # <<>>
    BY <1>p, <1>pnq DEF WorkersHoldRows, PlanEnqueue, Process
  <2>2. Head(p.pending) \in PlannedBatch /\ Tail(p.pending) \in Seq(PlannedBatch)
    BY <2>1
  <2>3. JobsOK(jobs')
    BY <1>pnq, <1>j, <2>2, QueueWrites DEF PlanEnqueue, BatchJob, JobId, PlannedBatch
  <2> DEFINE pc == IF Tail(p.pending) # <<>> THEN "p_enqueue"
                   ELSE IF p.more THEN "p_page" ELSE "p_totals"
  <2>5. pc \in PlanPc
    BY DEF PlanPc
  <2>6. proc' = [proc EXCEPT ![w] = [p EXCEPT !.pending = Tail(p.pending), !.pc = pc]]
    BY <1>pnq DEF PlanEnqueue
  <2> HIDE DEF pc
  <2>7. [p EXCEPT !.pending = Tail(p.pending), !.pc = pc] \in Process
    BY <1>p, <2>2, <2>5 DEF Process
  <2>8. proc' \in [Workers -> Process]
    BY <2>6, <2>7 DEF TypeOK
  <2> QED BY <1>pnq, <2>3, <2>8 DEF PlanEnqueue, JobsOK, TypeOK, db, env, history
<1>pto. ASSUME NEW w \in Workers, PlanTotals(w) PROVE TypeOK'
  <2>a. action' \in BulkAction
    BY <1>pto, <1>p, ActionWrites DEF PlanTotals, TypeOK, Process
  <2>g. proc' \in [Workers -> Process]
    BY <1>pto, GotoType DEF PlanTotals, PlanPc, BatchPc
  <2> QED BY <1>pto, <2>g, <2>a DEF PlanTotals, TypeOK, db, env, history
<1>per. ASSUME NEW w \in Workers, PlanError(w) PROVE TypeOK'
  <2>g. proc' \in [Workers -> Process]
    BY <1>per, GotoType DEF PlanError, PlanPc, BatchPc
  <2> QED BY <1>per, <2>g DEF PlanError, TypeOK, db, Spend, history
<1>pfa. ASSUME NEW w \in Workers, PlanFail(w) PROVE TypeOK'
  <2>a. action' \in BulkAction
    BY <1>pfa, ActionWrites DEF PlanFail, TypeOK
  <2>g. proc' \in [Workers -> Process]
    BY <1>pfa, GotoType DEF PlanFail, PlanPc, BatchPc
  <2> QED BY <1>pfa, <2>g, <2>a DEF PlanFail, TypeOK, db, env, history
<1>blo. ASSUME NEW w \in Workers, BatchLoad(w) PROVE TypeOK'
  <2>1. Index(w) \in DOMAIN batches /\ batches[Index(w)].entity_count \in Nat
    BY <1>blo DEF BatchLoad, WorkersHoldRows, TypeOK, BatchPc, BulkActionBatch
  <2>2. limit \in Nat
    BY DEF TypeOK
  <2>3. /\ [proc[w] EXCEPT !.pc = "return"] \in Process
        /\ [proc[w] EXCEPT !.pc = "b_cancel"] \in Process
        /\ [proc[w] EXCEPT !.pc = "b_gate",
                           !.entity_count = batches[Index(w)].entity_count,
                           !.limit = limit] \in Process
    BY <1>p, <2>1, <2>2 DEF Process, BatchPc
  <2>4. proc' \in [Workers -> Process]
    BY <1>blo, <2>3 DEF BatchLoad, TypeOK
  <2> QED BY <1>blo, <2>4 DEF BatchLoad, TypeOK, db, env, history
<1>bca. ASSUME NEW w \in Workers, BatchCancel(w) PROVE TypeOK'
  <2>a. BatchesOK(batches')
    BY <1>bca, <1>j, UpdateBatch DEF BatchCancel, SetBatchStatus, BatchStatus
  <2>g. proc' \in [Workers -> Process]
    BY <1>bca, GotoType DEF BatchCancel, PlanPc, BatchPc
  <2> QED BY <1>bca, <2>g, <2>a DEF BatchCancel, TypeOK, db, env, BatchesOK, history
<1>bga. ASSUME NEW w \in Workers, BatchGate(w) PROVE TypeOK'
  <2>g. proc' \in [Workers -> Process]
    BY <1>bga, GotoType DEF BatchGate, PlanPc, BatchPc
  <2> QED BY <1>bga, <2>g DEF BatchGate, TypeOK, db, env, history
<1>bde. ASSUME NEW w \in Workers, BatchDefer(w) PROVE TypeOK'
  <2>a. JobsOK(jobs')
    <3>1. BatchJob(Index(w), proc[w].job.d + 1) \in JobId
      BY <1>p DEF BatchJob, Index, JobId
    <3> QED BY <1>bde, <1>j, <3>1, QueueWrites DEF BatchDefer
  <2>g. proc' \in [Workers -> Process]
    BY <1>bde, GotoType DEF BatchDefer, PlanPc, BatchPc
  <2> QED BY <1>bde, <2>g, <2>a DEF BatchDefer, TypeOK, db, env, JobsOK, history
<1>bat. ASSUME NEW w \in Workers, BatchAttempt(w) PROVE TypeOK'
  <2>a. BatchesOK(batches')
    <3>1. BatchesOK([batches EXCEPT ![Index(w)].status = "processing"])
      BY <1>j, UpdateBatch DEF BatchStatus
    <3>2. batches' = [batches EXCEPT ![Index(w)].status = "processing"] \/ batches' = batches
      BY <1>bat DEF BatchAttempt, SetBatchStatus
    <3> QED BY <3>1, <3>2, <1>j
  <2>g. proc' \in [Workers -> Process]
    BY <1>bat, GotoType DEF BatchAttempt, PlanPc, BatchPc
  <2> QED BY <1>bat, <2>g, <2>a DEF BatchAttempt, TypeOK, db, env, BatchesOK, history
<1>bch. ASSUME NEW w \in Workers, BatchCheck(w) PROVE TypeOK'
  <2>g. proc' \in [Workers -> Process]
    BY <1>bch, GotoType DEF BatchCheck, PlanPc, BatchPc
  <2> QED BY <1>bch, <2>g DEF BatchCheck, TypeOK, db, env, history
<1>bro. ASSUME NEW w \in Workers, BatchRows(w) PROVE TypeOK'
  <2> DEFINE rows == load_batch_rows(table, batches[Index(w)].slice)
             held == {e \in rows : table[e] = "held"}
  <2>1. batches[Index(w)].slice \subseteq Entities
    BY <1>bro DEF BatchRows, WorkersHoldRows, TypeOK, BatchPc, BulkActionBatch
  <2>2. rows \subseteq Entities
    BY <2>1 DEF load_batch_rows
  <2>3. held \subseteq Entities
    BY <2>2
  <2>4. proc' = [proc EXCEPT ![w] =
                   [proc[w] EXCEPT !.pc = "b_commit", !.rows = rows, !.held = held]]
    BY <1>bro DEF BatchRows
  <2> HIDE DEF rows, held
  <2>5. [proc[w] EXCEPT !.pc = "b_commit", !.rows = rows, !.held = held] \in Process
    BY <1>p, <2>2, <2>3 DEF Process, BatchPc
  <2>6. proc' \in [Workers -> Process]
    BY <2>4, <2>5 DEF TypeOK
  <2> QED BY <1>bro, <2>6 DEF BatchRows, TypeOK, db, env, history
<1>bco. ASSUME NEW w \in Workers, BatchCommit(w) PROVE TypeOK'
  <2>1. PICK r \in [success : Nat, failure : Nat, skipped : Nat], written \in SUBSET Entities :
          CommitEffect(w, r, written)
    BY <1>bco, CommitShape
  <2>2. ledger' \subseteq Keys
    BY <2>1, <1>p, RunBatchTypes DEF CommitEffect, TypeOK, Process
  <2>3. table' \in [Entities -> RowState]
    BY <2>1, TableAfterType DEF CommitEffect, TypeOK
  <2>4. wins' \in [Entities -> Nat]
    BY <2>1 DEF CommitEffect, TypeOK
  <2>5. logs' \in [success : Nat, failed : Nat, skipped : Nat]
    BY <2>1 DEF CommitEffect, TypeOK
  <2>6. BatchesOK(batches')
    BY <2>1, <1>j, UpdateBatch DEF CommitEffect, BatchStatus
  <2>7. action' \in BulkAction
    BY <2>1, ActionWrites DEF CommitEffect, TypeOK
  <2>8. proc' \in [Workers -> Process]
    BY <2>1, GotoType DEF CommitEffect, BatchPc
  <2>9. /\ submission' = submission /\ limit' = limit /\ jobs' = jobs
        /\ faults' = faults /\ revived' = revived /\ stayed' \subseteq stayed
    BY <2>1 DEF CommitEffect
  <2> QED BY <2>2, <2>3, <2>4, <2>5, <2>6, <2>7, <2>8, <2>9 DEF TypeOK, BatchesOK
<1>fse. ASSUME NEW w \in Workers, FinalizeSelect(w) PROVE TypeOK'
  <2>1. final_status(action) \in ActionStatus
    BY ActionWrites DEF TypeOK
  <2>2. /\ [proc[w] EXCEPT !.pc = "return"] \in Process
        /\ [proc[w] EXCEPT !.pc = "f_update", !.final = final_status(action)] \in Process
        /\ [proc[w] EXCEPT !.pc = "g_update", !.final = final_status(action)] \in Process
    BY <1>p, <2>1 DEF Process, BatchPc
  <2>3. \/ proc' = [proc EXCEPT ![w] = [proc[w] EXCEPT !.pc = "return"]]
        \/ proc' = [proc EXCEPT ![w] =
                      [proc[w] EXCEPT !.pc = "f_update", !.final = final_status(action)]]
        \/ proc' = [proc EXCEPT ![w] =
                      [proc[w] EXCEPT !.pc = "g_update", !.final = final_status(action)]]
    BY <1>fse DEF FinalizeSelect
  <2>4. proc' \in [Workers -> Process]
    BY <2>2, <2>3 DEF TypeOK
  <2> QED BY <1>fse, <2>4 DEF FinalizeSelect, TypeOK, db, env, history
<1>fup. ASSUME NEW w \in Workers, FinalizeUpdate(w) PROVE TypeOK'
  <2>a. action' \in BulkAction
    BY <1>fup, <1>p, ActionWrites DEF FinalizeUpdate, TypeOK, Process
  <2>g. proc' \in [Workers -> Process]
    BY <1>fup, GotoType DEF FinalizeUpdate, PlanPc, BatchPc
  <2> QED BY <1>fup, <2>g, <2>a DEF FinalizeUpdate, TypeOK, db, env, history
<1>ber. ASSUME NEW w \in Workers, BatchError(w) PROVE TypeOK'
  <2>g. proc' \in [Workers -> Process]
    BY <1>ber, GotoType DEF BatchError, PlanPc, BatchPc
  <2> QED BY <1>ber, <2>g DEF BatchError, TypeOK, db, Spend, history
<1>bfa. ASSUME NEW w \in Workers, BatchFailed(w) PROVE TypeOK'
  <2>n. proc[w].entity_count \in Nat
    BY <1>p DEF Process
  <2>a. BatchesOK(batches')
    BY <1>bfa, <1>j, <2>n, UpdateBatch DEF BatchFailed, BatchStatus
  <2>b. action' \in BulkAction
    BY <1>bfa, <2>n, ActionWrites DEF BatchFailed, TypeOK
  <2>c. logs' \in [success : Nat, failed : Nat, skipped : Nat]
    BY <1>bfa, <2>n DEF BatchFailed, TypeOK
  <2>g. proc' \in [Workers -> Process]
    BY <1>bfa, GotoType DEF BatchFailed, PlanPc, BatchPc
  <2> QED BY <1>bfa, <2>g, <2>a, <2>b, <2>c DEF BatchFailed, TypeOK, db, env, BatchesOK, history
<1>unc. ASSUME NEW w \in Workers, UncaughtError(w) PROVE TypeOK'
  <2>g. proc' \in [Workers -> Process]
    BY <1>unc, GotoType DEF UncaughtError, PlanPc, BatchPc
  <2> QED BY <1>unc, <2>g DEF UncaughtError, TypeOK, db, Spend, history
<1> QED
  BY <1>sub, <1>com, <1>abo, <1>can, <1>pat, <1>exp, <1>aba, <1>res, <1>lea,
     <1>joi, <1>deq, <1>dup, <1>ret, <1>rai, <1>cra, <1>plo, <1>pbe, <1>ppa,
     <1>pen, <1>pfl, <1>pnq, <1>pto, <1>per, <1>pfa, <1>blo, <1>bca, <1>bga,
     <1>bde, <1>bat, <1>bch, <1>bro, <1>bco, <1>fse, <1>fup, <1>ber, <1>bfa,
     <1>unc
     DEF Next, Outside, WorkerStep, WorkerFault

(* Rows before jobs. *)

\* Nothing takes back the commit of the submission or a batch row.
LEMMA RowsStay ==
    ASSUME TypeOK, WorkersHoldRows, Next
    PROVE  (Visible => Visible') /\ DOMAIN batches \subseteq DOMAIN batches'
<1>1. ASSUME NEW w \in Workers, PlanFlush(w)
      PROVE  DOMAIN batches \subseteq DOMAIN batches' /\ submission' = submission
  <2>1. proc[w].pending \in Seq(PlannedBatch) /\ BatchesOK(batches)
    BY DEF TypeOK, Process, BatchesOK
  <2> QED BY <1>1, <2>1, InsertBatches DEF PlanFlush
<1>2. ASSUME NEW w \in Workers, BatchCommit(w)
      PROVE  DOMAIN batches' = DOMAIN batches /\ submission' = submission
  BY <1>2, CommitShape DEF CommitEffect
<1>3. ASSUME NEW w \in Workers, BatchCancel(w) \/ BatchAttempt(w) \/ BatchFailed(w)
      PROVE  DOMAIN batches' = DOMAIN batches /\ submission' = submission
  BY <1>3 DEF BatchCancel, BatchAttempt, BatchFailed, SetBatchStatus
<1>4. CASE Submit \/ CommitSubmission \/ AbortSubmission
  BY <1>4 DEF Submit, CommitSubmission, AbortSubmission, Visible
<1>5. CASE cancel_bulk_action \/ update_account \/ ExpireResult \/ Abandon \/ Rest
           \/ \E e \in Entities : Leave(e) \/ Join(e)
  BY <1>5 DEF cancel_bulk_action, update_account, ExpireResult, Abandon, Rest, Leave, Join,
              Visible, db, vars
<1>6. ASSUME NEW w \in Workers,
             \/ Dequeue(w) \/ Return(w) \/ Raise(w) \/ PlanLoad(w) \/ PlanBegin(w)
             \/ PlanPage(w) \/ PlanEndOfWalk(w) \/ PlanEnqueue(w) \/ PlanTotals(w)
             \/ PlanFail(w) \/ BatchLoad(w) \/ BatchGate(w) \/ BatchDefer(w)
             \/ BatchCheck(w) \/ BatchRows(w) \/ FinalizeSelect(w) \/ FinalizeUpdate(w)
             \/ WorkerFault(w)
      PROVE  UNCHANGED <<submission, batches>>
  BY <1>6 DEF Dequeue, Return, Raise, PlanLoad, PlanBegin, PlanPage, PlanEndOfWalk,
              PlanEnqueue, PlanTotals, PlanFail, BatchLoad, BatchGate, BatchDefer,
              BatchCheck, BatchRows, FinalizeSelect, FinalizeUpdate, WorkerFault,
              DuplicateDelivery, Crash, PlanError, BatchError, UncaughtError, db
<1> QED
  BY <1>1, <1>2, <1>3, <1>4, <1>5, <1>6 DEF Next, Outside, WorkerStep, Visible

\* A step of one worker: it is enough that its new record holds rows.
LEMMA HoldLift ==
    ASSUME TypeOK, WorkersHoldRows, NEW w \in Workers, NEW r,
           proc' = [proc EXCEPT ![w] = r],
           Visible => Visible', DOMAIN batches \subseteq DOMAIN batches',
           r.pc \in PlanPc \ {"p_load"} => Visible',
           r.pc \in BatchPc => Visible' /\ r.job.i \in DOMAIN batches',
           r.pc = "p_enqueue" =>
              /\ r.pending # <<>>
              /\ \A k \in DOMAIN r.pending : r.pending[k].index \in DOMAIN batches'
    PROVE  WorkersHoldRows'
<1>1. proc'[w] = r /\ \A v \in Workers \ {w} : proc'[v] = proc[v]
  BY DEF TypeOK
<1>2. ASSUME NEW v \in Workers \ {w}
      PROVE  /\ proc'[v].pc \in PlanPc \ {"p_load"} => Visible'
             /\ proc'[v].pc \in BatchPc => Visible' /\ proc'[v].job.i \in DOMAIN batches'
             /\ proc'[v].pc = "p_enqueue" =>
                   /\ proc'[v].pending # <<>>
                   /\ \A k \in DOMAIN proc'[v].pending :
                         proc'[v].pending[k].index \in DOMAIN batches'
  BY <1>1 DEF WorkersHoldRows, Index
<1> QED BY <1>1, <1>2 DEF WorkersHoldRows, Index

\* The common case: only the worker's position changes.
LEMMA GotoHold ==
    ASSUME TypeOK, WorkersHoldRows, NEW w \in Workers, NEW pc, Goto(w, pc),
           Visible => Visible', DOMAIN batches \subseteq DOMAIN batches',
           pc # "p_enqueue",
           pc \in PlanPc \ {"p_load"} => Visible,
           pc \in BatchPc => Visible /\ Index(w) \in DOMAIN batches
    PROVE  WorkersHoldRows'
<1> DEFINE r == [proc[w] EXCEPT !.pc = pc]
<1>1. proc' = [proc EXCEPT ![w] = r]
  BY DEF Goto, TypeOK
<1>2. r.pc = pc /\ r.job = proc[w].job
  BY DEF TypeOK, Process
<1> HIDE DEF r
<1> QED BY <1>1, <1>2, HoldLift DEF Index

LEMMA HoldStep ==
    ASSUME TypeOK, WorkersHoldRows, RowBeforeJob, Next
    PROVE  WorkersHoldRows'
<1>v. (Visible => Visible') /\ DOMAIN batches \subseteq DOMAIN batches'
  BY RowsStay
<1>u. CASE UNCHANGED proc
  BY <1>u, <1>v DEF WorkersHoldRows, Index
<1>s. ASSUME NEW w \in Workers, NEW j \in DOMAIN jobs, Start(w, j)
      PROVE  WorkersHoldRows'
  <2> DEFINE r == [idle EXCEPT !.pc = IF j.kind = "plan" THEN "p_load" ELSE "b_load",
                               !.job = j, !.try = jobs[j].tries + 1,
                               !.born = action.status]
  <2>1. proc' = [proc EXCEPT ![w] = r]
    BY <1>s DEF Start
  <2>2. r.pc = (IF j.kind = "plan" THEN "p_load" ELSE "b_load") /\ r.job = j
    BY DEF idle
  <2>3. r.pc # "p_load" => Visible' /\ j.i \in DOMAIN batches'
    BY <1>v, <2>2 DEF TypeOK, JobId, RowBeforeJob
  <2> HIDE DEF r
  <2> QED BY <1>v, <2>1, <2>2, <2>3, HoldLift DEF PlanPc, BatchPc
<1>1. ASSUME NEW w \in Workers, Dequeue(w) \/ DuplicateDelivery(w)
      PROVE  WorkersHoldRows'
  BY <1>1, <1>s DEF Dequeue, DuplicateDelivery
<1>2. ASSUME NEW w \in Workers, Return(w) \/ Raise(w) \/ Crash(w)
      PROVE  WorkersHoldRows'
  <2>1. proc' = [proc EXCEPT ![w] = idle]
    BY <1>2 DEF Return, Raise, Crash
  <2>2. idle.pc = "idle"
    BY DEF idle
  <2> QED BY <1>v, <2>1, <2>2, HoldLift DEF PlanPc, BatchPc
<1>3. ASSUME NEW w \in Workers, PlanLoad(w)
      PROVE  WorkersHoldRows'
  BY <1>3, <1>v, GotoHold DEF PlanLoad, PlanPc, BatchPc
<1>4. ASSUME NEW w \in Workers, PlanBegin(w) \/ PlanTotals(w) \/ PlanError(w) \/
      PlanFail(w)
      PROVE  WorkersHoldRows'
  <2>1. Visible
    BY <1>4 DEF PlanBegin, PlanTotals, PlanError, PlanFail, WorkersHoldRows, PlanPc
  <2>2. PICK pc \in {"p_page", "return", "p_fail", "raise"} : Goto(w, pc)
    BY <1>4 DEF PlanBegin, PlanTotals, PlanError, PlanFail
  <2> QED BY <1>v, <2>1, <2>2, GotoHold DEF BatchPc
<1>5. ASSUME NEW w \in Workers, PlanPage(w)
      PROVE  WorkersHoldRows'
  <2>1. Visible /\ proc[w] \in Process
    BY <1>5 DEF PlanPage, WorkersHoldRows, PlanPc, TypeOK
  <2>2. PICK r : /\ proc' = [proc EXCEPT ![w] = r]
                 /\ r.pc \in {"p_page", "p_flush"}
    <3> DEFINE page == next_page(proc[w])
               more == Explicit \/ Cardinality(page) >= action.batch_size
               row == [index |-> proc[w].index,
                       slice |-> IF Explicit THEN page ELSE cursor_range(page),
                       entity_count |-> Cardinality(page)]
               r(last) == [proc[w] EXCEPT !.pending = Append(@, row), !.more = more,
                             !.index = @ + 1, !.last = last,
                             !.total_entities = @ + Cardinality(page),
                             !.total_batches = @ + 1,
                             !.pc = IF more /\ Len(proc[w].pending) + 1 < FlushEvery
                                    THEN "p_page" ELSE "p_flush"]
    <3>1. PICK last : proc' = [proc EXCEPT ![w] = r(last)]
      BY <1>5 DEF PlanPage
    <3>2. r(last).pc \in {"p_page", "p_flush"}
      BY <2>1 DEF Process
    <3> HIDE DEF r
    <3> QED BY <3>1, <3>2
  <2> QED BY <1>v, <2>1, <2>2, HoldLift DEF BatchPc
<1>6. ASSUME NEW w \in Workers, PlanEndOfWalk(w)
      PROVE  WorkersHoldRows'
  <2>1. Visible
    BY <1>6 DEF PlanEndOfWalk, WorkersHoldRows, PlanPc
  <2> DEFINE r == [proc[w] EXCEPT !.more = FALSE, !.pc = "p_flush"]
  <2>2. r.pc = "p_flush"
    BY DEF TypeOK, Process
  <2>3. proc' = [proc EXCEPT ![w] = r]
    BY <1>6 DEF PlanEndOfWalk
  <2> HIDE DEF r
  <2> QED BY <1>v, <2>1, <2>2, <2>3, HoldLift DEF BatchPc
<1>7. ASSUME NEW w \in Workers, PlanFlush(w)
      PROVE  WorkersHoldRows'
  <2>1. Visible
    BY <1>7 DEF PlanFlush, WorkersHoldRows, PlanPc
  <2>2. \A k \in DOMAIN proc[w].pending : proc[w].pending[k].index \in DOMAIN batches'
    <3>1. proc[w].pending \in Seq(PlannedBatch) /\ BatchesOK(batches)
      BY DEF TypeOK, Process, BatchesOK
    <3> QED BY <1>7, <3>1, InsertBatches DEF PlanFlush
  <2> DEFINE pc == IF proc[w].pending = <<>> THEN "p_totals" ELSE "p_enqueue"
             r == [proc[w] EXCEPT !.pc = pc]
  <2>3. r.pc = pc /\ r.pending = proc[w].pending
    BY DEF TypeOK, Process
  <2>4. proc' = [proc EXCEPT ![w] = r]
    BY <1>7 DEF PlanFlush, Goto, TypeOK
  <2> HIDE DEF r
  <2> QED BY <1>v, <2>1, <2>2, <2>3, <2>4, HoldLift DEF BatchPc
<1>8. ASSUME NEW w \in Workers, PlanEnqueue(w)
      PROVE  WorkersHoldRows'
  <2> DEFINE p == proc[w]
             pc == IF Tail(p.pending) # <<>> THEN "p_enqueue"
                   ELSE IF p.more THEN "p_page" ELSE "p_totals"
             r == [p EXCEPT !.pending = Tail(p.pending), !.pc = pc]
  <2>1. /\ Visible /\ p.pending # <<>> /\ p.pending \in Seq(PlannedBatch)
        /\ \A k \in DOMAIN p.pending : p.pending[k].index \in DOMAIN batches
    BY <1>8 DEF PlanEnqueue, WorkersHoldRows, PlanPc, TypeOK, Process
  <2>2. \A k \in DOMAIN Tail(p.pending) : Tail(p.pending)[k].index \in DOMAIN batches'
    <3>1. \A k \in DOMAIN Tail(p.pending) :
             k + 1 \in DOMAIN p.pending /\ Tail(p.pending)[k] = p.pending[k + 1]
      BY <2>1
    <3> QED BY <2>1, <3>1, <1>v
  <2>3. r.pc = pc /\ r.pending = Tail(p.pending)
    BY DEF TypeOK, Process
  <2>4. proc' = [proc EXCEPT ![w] = r]
    BY <1>8 DEF PlanEnqueue
  <2> HIDE DEF r
  <2> QED BY <1>v, <2>1, <2>2, <2>3, <2>4, HoldLift DEF BatchPc
<1>9. ASSUME NEW w \in Workers, BatchLoad(w)
      PROVE  WorkersHoldRows'
  <2>1. Visible /\ Index(w) \in DOMAIN batches /\ proc[w] \in Process
    BY <1>9 DEF BatchLoad, WorkersHoldRows, BatchPc, TypeOK
  <2>2. PICK r : /\ proc' = [proc EXCEPT ![w] = r]
                 /\ r.job = proc[w].job /\ r.pc \in {"return", "b_cancel", "b_gate"}
    <3> DEFINE r1 == [proc[w] EXCEPT !.pc = "return"]
               r2 == [proc[w] EXCEPT !.pc = "b_cancel"]
               r3 == [proc[w] EXCEPT !.pc = "b_gate",
                                     !.entity_count = batches[Index(w)].entity_count,
                                     !.limit = limit]
    <3>1. /\ r1.job = proc[w].job /\ r1.pc = "return"
          /\ r2.job = proc[w].job /\ r2.pc = "b_cancel"
          /\ r3.job = proc[w].job /\ r3.pc = "b_gate"
      BY <2>1 DEF Process
    <3>2. \/ proc' = [proc EXCEPT ![w] = r1]
          \/ proc' = [proc EXCEPT ![w] = r2]
          \/ proc' = [proc EXCEPT ![w] = r3]
      BY <1>9 DEF BatchLoad
    <3> HIDE DEF r1, r2, r3
    <3> QED BY <3>1, <3>2
  <2> QED BY <1>v, <2>1, <2>2, HoldLift DEF PlanPc, Index
<1>10. ASSUME NEW w \in Workers, BatchCancel(w) \/ BatchGate(w) \/ BatchDefer(w) \/
      BatchAttempt(w) \/ BatchCheck(w) \/ BatchCommit(w) \/ FinalizeUpdate(w) \/
      BatchError(w) \/ BatchFailed(w)
      PROVE  WorkersHoldRows'
  <2>1. Visible /\ Index(w) \in DOMAIN batches
    BY <1>10 DEF BatchCancel, BatchGate, BatchDefer, BatchAttempt, BatchCheck,
       BatchCommit, FinalizeUpdate, BatchError, BatchFailed, WorkersHoldRows,
       BatchPc
  <2>2. PICK pc \in {"return", "raise"} \union BatchPc : Goto(w, pc)
    BY <1>10 DEF BatchCancel, BatchGate, BatchDefer, BatchAttempt, BatchCheck,
       BatchCommit, FinalizeUpdate, BatchError, BatchFailed, BatchPc
  <2> QED BY <1>v, <2>1, <2>2, GotoHold DEF PlanPc, BatchPc
<1>11. ASSUME NEW w \in Workers, BatchRows(w)
      PROVE  WorkersHoldRows'
  <2>1. Visible /\ Index(w) \in DOMAIN batches /\ proc[w] \in Process
    BY <1>11 DEF BatchRows, WorkersHoldRows, BatchPc, TypeOK
  <2> DEFINE rows == load_batch_rows(table, batches[Index(w)].slice)
             r == [proc[w] EXCEPT !.pc = "b_commit", !.rows = rows,
                                  !.held = {e \in rows : table[e] = "held"}]
  <2>2. r.pc = "b_commit" /\ r.job = proc[w].job
    BY <2>1 DEF Process
  <2>3. proc' = [proc EXCEPT ![w] = r]
    BY <1>11 DEF BatchRows
  <2> HIDE DEF r
  <2> QED BY <1>v, <2>1, <2>2, <2>3, HoldLift DEF PlanPc, Index
<1>12. ASSUME NEW w \in Workers, FinalizeSelect(w)
      PROVE  WorkersHoldRows'
  <2>1. Visible /\ Index(w) \in DOMAIN batches /\ proc[w] \in Process
    BY <1>12 DEF FinalizeSelect, WorkersHoldRows, BatchPc, TypeOK
  <2>2. PICK r : /\ proc' = [proc EXCEPT ![w] = r]
                 /\ r.job = proc[w].job /\ r.pc \in {"return", "f_update", "g_update"}
    <3> DEFINE r1 == [proc[w] EXCEPT !.pc = "return"]
               r2(pc) == [proc[w] EXCEPT !.pc = pc, !.final = final_status(action)]
    <3>1. /\ r1.job = proc[w].job /\ r1.pc = "return"
          /\ \A pc : r2(pc).job = proc[w].job /\ r2(pc).pc = pc
      BY <2>1 DEF Process
    <3>2. \/ proc' = [proc EXCEPT ![w] = r1]
          \/ proc' = [proc EXCEPT ![w] = r2("f_update")]
          \/ proc' = [proc EXCEPT ![w] = r2("g_update")]
      BY <1>12 DEF FinalizeSelect
    <3> HIDE DEF r1, r2
    <3> QED BY <3>1, <3>2
  <2> QED BY <1>v, <2>1, <2>2, HoldLift DEF PlanPc, Index
<1>13. ASSUME NEW w \in Workers, UncaughtError(w)
      PROVE  WorkersHoldRows'
  <2>1. Goto(w, "raise")
    BY <1>13 DEF UncaughtError
  <2> QED BY <1>v, <2>1, GotoHold DEF PlanPc, BatchPc
<1>o. CASE \/ Submit \/ CommitSubmission \/ Abandon \/ Outside \/ Rest
  <2>1. UNCHANGED proc
    BY <1>o DEF Submit, CommitSubmission, Abandon, Outside, Rest, AbortSubmission,
                cancel_bulk_action, update_account, ExpireResult, Leave, Join, vars
  <2> QED BY <2>1, <1>u
<1> QED
  BY <1>o, <1>1, <1>2, <1>3, <1>4, <1>5, <1>6, <1>7, <1>8, <1>9, <1>10, <1>11,
     <1>12, <1>13 DEF Next, WorkerStep, WorkerFault

LEMMA JobsStep ==
    ASSUME TypeOK, WorkersHoldRows, RowBeforeJob, Next
    PROVE  RowBeforeJob'
<1>v. (Visible => Visible') /\ DOMAIN batches \subseteq DOMAIN batches'
  BY RowsStay
<1>q. CASE DOMAIN jobs' \subseteq DOMAIN jobs
  BY <1>q, <1>v DEF RowBeforeJob
<1>1. CASE Submit
  <2>1. DOMAIN jobs' = DOMAIN jobs \union {PlanJob}
    BY <1>1 DEF Submit, enqueue_job
  <2> QED BY <1>v, <2>1 DEF RowBeforeJob, PlanJob
<1>2. ASSUME NEW w \in Workers, PlanEnqueue(w) PROVE RowBeforeJob'
  <2> DEFINE p == proc[w]
             j == BatchJob(Head(p.pending).index, 0)
  <2>1. /\ Visible /\ p.pending # <<>> /\ p.pending \in Seq(PlannedBatch)
        /\ \A k \in DOMAIN p.pending : p.pending[k].index \in DOMAIN batches
    BY <1>2 DEF PlanEnqueue, WorkersHoldRows, PlanPc, TypeOK, Process
  <2>2. Head(p.pending).index \in DOMAIN batches
    <3>1. 1 \in DOMAIN p.pending /\ Head(p.pending) = p.pending[1]
      BY <2>1
    <3> QED BY <2>1, <3>1
  <2>3. DOMAIN jobs' = DOMAIN jobs \union {j}
    BY <1>2 DEF PlanEnqueue, enqueue_job
  <2>4. j.i = Head(p.pending).index
    BY DEF BatchJob
  <2> HIDE DEF j
  <2> QED BY <1>v, <2>1, <2>2, <2>3, <2>4 DEF RowBeforeJob
<1>3. ASSUME NEW w \in Workers, BatchDefer(w) PROVE RowBeforeJob'
  <2> DEFINE j == BatchJob(Index(w), proc[w].job.d + 1)
  <2>1. Visible /\ Index(w) \in DOMAIN batches
    BY <1>3 DEF BatchDefer, WorkersHoldRows, BatchPc
  <2>2. DOMAIN jobs' = DOMAIN jobs \union {j}
    BY <1>3 DEF BatchDefer, enqueue_job
  <2>3. j.i = Index(w)
    BY DEF BatchJob
  <2> HIDE DEF j
  <2> QED BY <1>v, <2>1, <2>2, <2>3 DEF RowBeforeJob
<1>4. ASSUME NEW w \in Workers,
             Dequeue(w) \/ DuplicateDelivery(w) \/ Return(w) \/ Raise(w) \/ Crash(w)
      PROVE  DOMAIN jobs' \subseteq DOMAIN jobs
  BY <1>4 DEF Dequeue, DuplicateDelivery, Start, Return, Raise, Crash, deliver, finish,
              redeliver
<1>5. CASE Abandon \/ ExpireResult
  <2>1. DOMAIN jobs' \subseteq DOMAIN jobs
    BY <1>5 DEF Abandon, ExpireResult, finish, expire
  <2> QED BY <2>1, <1>q
<1>6. CASE \/ CommitSubmission \/ AbortSubmission \/ cancel_bulk_action \/ update_account
           \/ Rest \/ \E e \in Entities : Leave(e) \/ Join(e)
  <2>1. UNCHANGED jobs
    BY <1>6 DEF CommitSubmission, AbortSubmission, cancel_bulk_action, update_account,
                Rest, Leave, Join, vars
  <2> QED BY <2>1, <1>q
<1>7. ASSUME NEW w \in Workers,
             \/ PlanLoad(w) \/ PlanBegin(w) \/ PlanPage(w) \/ PlanEndOfWalk(w)
             \/ PlanFlush(w) \/ PlanTotals(w) \/ PlanFail(w) \/ PlanError(w)
             \/ BatchLoad(w) \/ BatchCancel(w) \/ BatchGate(w) \/ BatchAttempt(w)
             \/ BatchCheck(w) \/ BatchRows(w) \/ BatchCommit(w) \/ BatchError(w)
             \/ FinalizeSelect(w) \/ FinalizeUpdate(w) \/ BatchFailed(w)
             \/ UncaughtError(w)
      PROVE  UNCHANGED jobs
  BY <1>7 DEF PlanLoad, PlanBegin, PlanPage, PlanEndOfWalk, PlanFlush, PlanTotals,
              PlanFail, PlanError, BatchLoad, BatchCancel, BatchGate, BatchAttempt,
              BatchCheck, BatchRows, BatchCommit, BatchError, FinalizeSelect,
              FinalizeUpdate, BatchFailed, UncaughtError
<1> QED
  BY <1>q, <1>1, <1>2, <1>3, <1>4, <1>5, <1>6, <1>7
     DEF Next, Outside, WorkerStep, WorkerFault

-----------------------------------------------------------------------------
(* The first inductive invariant, and the theorems that follow from it.    *)

RowInv == TypeOK /\ WorkersHoldRows /\ RowBeforeJob

LEMMA InitRowInv == Init => RowInv
<1> SUFFICES ASSUME Init PROVE RowInv
  OBVIOUS
<1>1. action \in BulkAction
  BY DEF Init, new_action, BulkAction, ActionStatus
<1>2. DOMAIN batches = {} /\ batches \in [DOMAIN batches -> BulkActionBatch]
  BY DEF Init
<1>3. DOMAIN jobs = {} /\ jobs \in [DOMAIN jobs -> JobState]
  BY DEF Init
<1>4. proc \in [Workers -> Process] /\ \A w \in Workers : proc[w] = idle
  BY IdleType DEF Init
<1>5. limit \in Nat \ {0} /\ table \in [Entities -> RowState] /\ faults \in Nat
  BY LimitAssumption, TableAssumption, FaultAssumption DEF Init
<1>6. TypeOK
  BY <1>1, <1>2, <1>3, <1>4, <1>5 DEF Init, TypeOK, selection_clause
<1>7. WorkersHoldRows
  BY <1>4 DEF WorkersHoldRows, idle, PlanPc, BatchPc
<1>8. RowBeforeJob
  BY <1>3 DEF RowBeforeJob
<1> QED BY <1>6, <1>7, <1>8 DEF RowInv

LEMMA NextRowInv == RowInv /\ [Next]_vars => RowInv'
<1> SUFFICES ASSUME RowInv, [Next]_vars PROVE RowInv'
  OBVIOUS
<1>1. CASE Next
  BY <1>1, TypeStep, HoldStep, JobsStep DEF RowInv
<1>2. CASE UNCHANGED vars
  <2>1. TypeOK'
    BY <1>2 DEF RowInv, TypeOK, vars
  <2>2. WorkersHoldRows'
    BY <1>2 DEF RowInv, WorkersHoldRows, Index, Visible, vars
  <2>3. RowBeforeJob'
    BY <1>2 DEF RowInv, RowBeforeJob, Visible, vars
  <2> QED BY <2>1, <2>2, <2>3 DEF RowInv
<1> QED BY <1>1, <1>2

LEMMA RowInvariant == Spec => []RowInv
<1> QED BY InitRowInv, NextRowInv, PTL DEF Spec

\* The rows, the queue and the workers' local state keep their shapes, for any
\* number of workers, entities, retries, deferrals and faults.
THEOREM TypeCorrect == Spec => []TypeOK
<1>1. RowInv => TypeOK
  BY DEF RowInv
<1> QED BY <1>1, RowInvariant, PTL

\* No batch job exists before the row it is about is committed (flush in
\* plan_bulk_action), however planning is retried, duplicated or interrupted.
THEOREM RowsBeforeJobs == Spec => []RowBeforeJob
<1>1. RowInv => RowBeforeJob
  BY DEF RowInv
<1> QED BY <1>1, RowInvariant, PTL

\* No job works on a row it has not: past its load a planner has seen the
\* action, a batch job its committed batch row, and a flush enqueues only jobs
\* of rows it has committed (plan_bulk_action, process_batch).
THEOREM WorkersAreGrounded == Spec => []WorkersHoldRows
<1>1. RowInv => WorkersHoldRows
  BY DEF RowInv
<1> QED BY <1>1, RowInvariant, PTL

\* No step changes what a batch row stands for.
Frozen ==
    \A i \in DOMAIN batches :
        /\ i \in DOMAIN batches'
        /\ batches'[i].slice = batches[i].slice
        /\ batches'[i].entity_count = batches[i].entity_count

LEMMA FrozenStep == ASSUME RowInv, [Next]_vars PROVE Frozen
<1> USE DEF Frozen
<1>t. TypeOK /\ WorkersHoldRows /\ BatchesOK(batches)
  BY DEF RowInv, TypeOK, BatchesOK
<1>r. \A i \in DOMAIN batches : batches[i] \in BulkActionBatch
  BY <1>t DEF BatchesOK
<1>1. ASSUME NEW w \in Workers, PlanFlush(w) PROVE Frozen
  <2>1. proc[w].pending \in Seq(PlannedBatch)
    BY <1>t DEF TypeOK, Process
  <2> QED BY <1>1, <1>t, <2>1, InsertBatches DEF PlanFlush
<1>2. ASSUME NEW w \in Workers, BatchCommit(w) PROVE Frozen
  <2>1. PICK r \in [success : Nat, failure : Nat, skipped : Nat], written \in SUBSET Entities :
          CommitEffect(w, r, written)
    BY <1>2, <1>t, CommitShape
  <2> QED BY <2>1, <1>r DEF CommitEffect, BulkActionBatch
<1>3. ASSUME NEW w \in Workers, BatchCancel(w) \/ BatchAttempt(w) \/ BatchFailed(w) PROVE Frozen
  <2>1. ASSUME NEW st, batches' = [batches EXCEPT ![Index(w)].status = st] PROVE Frozen
    BY <2>1, <1>r DEF BulkActionBatch
  <2>2. ASSUME NEW n, batches' = [batches EXCEPT ![Index(w)] =
                 [@ EXCEPT !.status = "failed", !.failure_count = n]] PROVE Frozen
    BY <2>2, <1>r DEF BulkActionBatch
  <2>3. CASE batches' = batches
    BY <2>3
  <2> HIDE DEF Frozen
  <2> QED BY <1>3, <2>1, <2>2, <2>3 DEF BatchCancel, BatchAttempt, BatchFailed, SetBatchStatus
<1>4. CASE \/ Submit \/ CommitSubmission \/ AbortSubmission \/ cancel_bulk_action
           \/ update_account \/ ExpireResult \/ Abandon \/ Rest
           \/ \E e \in Entities : Leave(e) \/ Join(e)
  <2>1. batches' = batches
    BY <1>4 DEF Submit, CommitSubmission, AbortSubmission, cancel_bulk_action, update_account,
                ExpireResult, Abandon, Rest, Leave, Join, db, vars
  <2> QED BY <2>1
<1>5. ASSUME NEW w \in Workers,
             \/ Dequeue(w) \/ Return(w) \/ Raise(w) \/ PlanLoad(w) \/ PlanBegin(w)
             \/ PlanPage(w) \/ PlanEndOfWalk(w) \/ PlanEnqueue(w) \/ PlanTotals(w)
             \/ PlanFail(w) \/ BatchLoad(w) \/ BatchGate(w) \/ BatchDefer(w)
             \/ BatchCheck(w) \/ BatchRows(w) \/ FinalizeSelect(w) \/ FinalizeUpdate(w)
             \/ WorkerFault(w)
      PROVE  Frozen
  <2>1. batches' = batches
    BY <1>5 DEF Dequeue, Return, Raise, PlanLoad, PlanBegin, PlanPage, PlanEndOfWalk,
                PlanEnqueue, PlanTotals, PlanFail, BatchLoad, BatchGate, BatchDefer,
                BatchCheck, BatchRows, FinalizeSelect, FinalizeUpdate, WorkerFault,
                DuplicateDelivery, Crash, PlanError, BatchError, UncaughtError, db
  <2> QED BY <2>1
<1>6. CASE UNCHANGED vars
  BY <1>6 DEF vars
<1> HIDE DEF Frozen
<1> QED BY <1>1, <1>2, <1>3, <1>4, <1>5, <1>6 DEF Next, Outside, WorkerStep

\* Retried, duplicated or interrupted planning never changes what a batch row
\* stands for (flush: ON CONFLICT DO NOTHING), and neither does a batch job.
THEOREM PlansAreFrozen == Spec => PlanRowsFrozen
<1>1. ASSUME RowInv, [Next]_vars PROVE [Frozen]_vars
  BY <1>1, FrozenStep
<1> QED BY <1>1, RowInvariant, PTL DEF Spec, PlanRowsFrozen, Frozen

\* A terminal status stays, unless the step is a planner's first UPDATE.
Kept == is_terminal(action.status) /\ Visible
          => action'.status = action.status \/ \E w \in Workers : PlanBegin(w)

LEMMA TerminalKept == ASSUME RowInv, [Next]_vars PROVE Kept
<1> USE DEF Kept
<1>t. TypeOK /\ WorkersHoldRows /\ action \in BulkAction
  BY DEF RowInv, TypeOK
<1>1. CASE Submit \/ CommitSubmission \/ AbortSubmission \/ cancel_bulk_action
  BY <1>1 DEF Submit, CommitSubmission, AbortSubmission, cancel_bulk_action, Visible
<1>2. ASSUME NEW w \in Workers, PlanBegin(w) PROVE Kept
  BY <1>2 DEF PlanBegin
<1>3. ASSUME NEW w \in Workers, PlanTotals(w) PROVE Kept
  BY <1>3, <1>t DEF PlanTotals, end_planning, mark_started, is_terminal, BulkAction
<1>4. ASSUME NEW w \in Workers, PlanFail(w) \/ FinalizeUpdate(w) PROVE Kept
  BY <1>4, <1>t DEF PlanFail, FinalizeUpdate, fail_action, finalize, is_complete, is_terminal
<1>5. ASSUME NEW w \in Workers, BatchCommit(w) PROVE Kept
  <2>1. PICK r \in [success : Nat, failure : Nat, skipped : Nat], written \in SUBSET Entities :
          CommitEffect(w, r, written)
    BY <1>5, <1>t, CommitShape
  <2> QED BY <2>1, <1>t DEF CommitEffect, record_batch_completion, BulkAction
<1>6. ASSUME NEW w \in Workers, BatchFailed(w) PROVE Kept
  BY <1>6, <1>t DEF BatchFailed, record_batch_completion, BulkAction
<1>7. CASE \/ update_account \/ ExpireResult \/ Abandon \/ Rest
           \/ \E e \in Entities : Leave(e) \/ Join(e)
  BY <1>7 DEF update_account, ExpireResult, Abandon, Rest, Leave, Join, db, vars
<1>8. ASSUME NEW w \in Workers,
             \/ Dequeue(w) \/ Return(w) \/ Raise(w) \/ PlanLoad(w) \/ PlanPage(w)
             \/ PlanEndOfWalk(w) \/ PlanFlush(w) \/ PlanEnqueue(w) \/ BatchLoad(w)
             \/ BatchCancel(w) \/ BatchGate(w) \/ BatchDefer(w) \/ BatchAttempt(w)
             \/ BatchCheck(w) \/ BatchRows(w) \/ FinalizeSelect(w) \/ WorkerFault(w)
      PROVE  Kept
  <2>1. action' = action
    BY <1>8 DEF Dequeue, Return, Raise, PlanLoad, PlanPage, PlanEndOfWalk, PlanFlush,
                PlanEnqueue, BatchLoad, BatchCancel, BatchGate, BatchDefer, BatchAttempt,
                BatchCheck, BatchRows, FinalizeSelect, WorkerFault, DuplicateDelivery,
                Crash, PlanError, BatchError, UncaughtError, db
  <2> QED BY <2>1
<1>9. CASE UNCHANGED vars
  BY <1>9 DEF vars
<1> HIDE DEF Kept
<1> QED BY <1>1, <1>2, <1>3, <1>4, <1>5, <1>6, <1>7, <1>8, <1>9
        DEF Next, Outside, WorkerStep

\* A terminal status is left by the planner's unconditional first UPDATE alone:
\* not by a late batch, finalize_if_complete, fail_action, the end of planning
\* or a second cancellation.
THEOREM TerminalLeftByPlannerOnly == Spec => OnlyPlannerLeavesTerminal
<1> DEFINE Stays == is_terminal(action.status) /\ Visible
                      => action'.status = action.status \/ revived'
<1>1. ASSUME RowInv, [Next]_vars PROVE [Stays]_vars
  BY <1>1, TerminalKept DEF Kept, PlanBegin
<1> QED BY <1>1, RowInvariant, PTL DEF Spec, OnlyPlannerLeavesTerminal

-----------------------------------------------------------------------------
(* The counters, the log and the dedup ledger.                             *)

SameCounters(a, b) ==
    /\ a.processed_count = b.processed_count /\ a.success_count = b.success_count
    /\ a.failure_count = b.failure_count /\ a.skipped_count = b.skipped_count
    /\ a.completed_batches = b.completed_batches

\* A step that neither submits nor reports a batch leaves the audit alone.
QuietStep ==
    /\ UNCHANGED <<logs, wins, ledger>>
    /\ SameCounters(action', action)
    /\ submission' = "none" => submission = "none"

LEMMA StatusWrites ==
    ASSUME NEW a \in BulkAction
    PROVE  /\ \A st : SameCounters([a EXCEPT !.status = st], a)
           /\ SameCounters(begin_planning(a), a)
           /\ \A m, n : SameCounters(end_planning(a, m, n), a)
           /\ \A st : SameCounters(finalize(a, st), a)
           /\ SameCounters(fail_action(a), a)
<1>1. \A st : SameCounters([a EXCEPT !.status = st], a)
  BY DEF BulkAction, SameCounters
<1>2. SameCounters(begin_planning(a), a)
  BY <1>1 DEF begin_planning
<1>3. ASSUME NEW m, NEW n PROVE SameCounters(end_planning(a, m, n), a)
  BY DEF BulkAction, SameCounters, end_planning, mark_started
<1>4. \A st : SameCounters(finalize(a, st), a)
  BY <1>1 DEF finalize, SameCounters
<1>5. SameCounters(fail_action(a), a)
  BY <1>1 DEF fail_action, SameCounters
<1> QED BY <1>1, <1>2, <1>3, <1>4, <1>5

LEMMA StepKinds ==
    ASSUME RowInv, [Next]_vars
    PROVE  \/ QuietStep
           \/ Submit
           \/ \E w \in Workers : BatchCommit(w) \/ BatchFailed(w)
<1>t. TypeOK /\ WorkersHoldRows /\ action \in BulkAction /\ SameCounters(action, action)
  BY DEF RowInv, TypeOK, SameCounters
<1>0. CASE UNCHANGED vars
  BY <1>0, <1>t DEF vars, QuietStep
<1>1. CASE CommitSubmission \/ AbortSubmission
  BY <1>1, <1>t DEF CommitSubmission, AbortSubmission, QuietStep
<1>2. CASE cancel_bulk_action
  BY <1>2, <1>t, StatusWrites DEF cancel_bulk_action, QuietStep
<1>3. CASE \/ update_account \/ ExpireResult \/ Abandon \/ Rest
           \/ \E e \in Entities : Leave(e) \/ Join(e)
  BY <1>3, <1>t DEF update_account, ExpireResult, Abandon, Rest, Leave, Join, db, vars,
                    QuietStep
<1>4. ASSUME NEW w \in Workers,
             PlanBegin(w) \/ PlanTotals(w) \/ PlanFail(w) \/ FinalizeUpdate(w)
      PROVE  QuietStep
  BY <1>4, <1>t, StatusWrites DEF PlanBegin, PlanTotals, PlanFail, FinalizeUpdate, QuietStep
<1>5. ASSUME NEW w \in Workers,
             PlanFlush(w) \/ BatchCancel(w) \/ BatchAttempt(w)
      PROVE  QuietStep
  BY <1>5, <1>t DEF PlanFlush, BatchCancel, BatchAttempt, QuietStep
<1>6. ASSUME NEW w \in Workers,
             \/ Dequeue(w) \/ Return(w) \/ Raise(w) \/ PlanLoad(w) \/ PlanPage(w)
             \/ PlanEndOfWalk(w) \/ PlanEnqueue(w) \/ BatchLoad(w) \/ BatchGate(w)
             \/ BatchDefer(w) \/ BatchCheck(w) \/ BatchRows(w) \/ FinalizeSelect(w)
             \/ WorkerFault(w)
      PROVE  QuietStep
  <2>1. UNCHANGED db
    BY <1>6 DEF Dequeue, Return, Raise, PlanLoad, PlanPage, PlanEndOfWalk, PlanEnqueue,
                BatchLoad, BatchGate, BatchDefer, BatchCheck, BatchRows, FinalizeSelect,
                WorkerFault, DuplicateDelivery, Crash, PlanError, BatchError, UncaughtError
  <2> QED BY <2>1, <1>t DEF db, QuietStep
<1> QED
  BY <1>0, <1>1, <1>2, <1>3, <1>4, <1>5, <1>6 DEF Next, Outside, WorkerStep

CounterInv ==
    /\ CountersMatchLogs
    /\ submission = "none" => logs.success = 0 /\ logs.failed = 0 /\ logs.skipped = 0

LEMMA CounterStep == RowInv /\ CounterInv /\ [Next]_vars => CounterInv'
<1> SUFFICES ASSUME RowInv, CounterInv, [Next]_vars PROVE CounterInv'
  OBVIOUS
<1>t. TypeOK /\ WorkersHoldRows /\ action \in BulkAction
  BY DEF RowInv, TypeOK
<1>1. CASE QuietStep
  BY <1>1 DEF QuietStep, SameCounters, CounterInv, CountersMatchLogs
<1>2. CASE Submit
  BY <1>2, <1>t DEF Submit, new_action, CounterInv, CountersMatchLogs
<1>3. ASSUME NEW w \in Workers, BatchCommit(w) PROVE CounterInv'
  <2>1. PICK r \in [success : Nat, failure : Nat, skipped : Nat], written \in SUBSET Entities :
          CommitEffect(w, r, written)
    BY <1>3, <1>t, CommitShape
  <2>2. submission = "committed" /\ submission' = submission
    BY <2>1, <1>t DEF CommitEffect, WorkersHoldRows, BatchPc, Visible
  <2>3. CountersMatchLogs'
    <3>1. /\ action'.success_count = action.success_count + r.success
          /\ action'.failure_count = action.failure_count + r.failure
          /\ action'.skipped_count = action.skipped_count + r.skipped
          /\ action'.processed_count = action.processed_count + r.success + r.failure + r.skipped
      BY <2>1, <1>t DEF CommitEffect, record_batch_completion, BulkAction
    <3>2. /\ logs'.success = logs.success + r.success
          /\ logs'.failed = logs.failed + r.failure
          /\ logs'.skipped = logs.skipped + r.skipped
      BY <2>1 DEF CommitEffect
    <3> QED BY <3>1, <3>2, <1>t DEF CounterInv, CountersMatchLogs, TypeOK
  <2> QED BY <2>2, <2>3 DEF CounterInv
<1>4. ASSUME NEW w \in Workers, BatchFailed(w) PROVE CounterInv'
  <2>1. submission = "committed" /\ submission' = submission
    BY <1>4, <1>t DEF BatchFailed, WorkersHoldRows, BatchPc, Visible
  <2>2. CountersMatchLogs'
    <3> DEFINE n == proc[w].entity_count
    <3>1. n \in Nat
      BY <1>t DEF TypeOK, Process
    <3>2. /\ action'.success_count = action.success_count + 0
          /\ action'.failure_count = action.failure_count + n
          /\ action'.skipped_count = action.skipped_count + 0
          /\ action'.processed_count = action.processed_count + 0 + n + 0
      BY <1>4, <1>t DEF BatchFailed, record_batch_completion, BulkAction
    <3>3. /\ logs'.success = logs.success /\ logs'.failed = logs.failed + n
          /\ logs'.skipped = logs.skipped
      BY <1>4, <1>t DEF BatchFailed, TypeOK
    <3> HIDE DEF n
    <3> QED BY <3>1, <3>2, <3>3, <1>t DEF CounterInv, CountersMatchLogs, TypeOK, BulkAction
  <2> QED BY <2>1, <2>2 DEF CounterInv
<1> QED BY <1>1, <1>2, <1>3, <1>4, StepKinds

\* The counters GET /bulk-actions/{id}/stats reads are always the number of
\* log rows of each status, and processed_count is their sum.
THEOREM CountersAreExact == Spec => []CountersMatchLogs
<1>1. Init => CounterInv
  BY DEF Init, new_action, CounterInv, CountersMatchLogs
<1>2. CounterInv => CountersMatchLogs
  BY DEF CounterInv
<1> QED BY <1>1, <1>2, RowInvariant, CounterStep, PTL DEF Spec

\* The batch table is finite and empty until the submission commits, and no
\* report is lost.
ReportInv ==
    /\ IsFiniteSet(DOMAIN batches)
    /\ ~ Visible => DOMAIN batches = {}
    /\ ReportedBatchesCounted

\* A flush adds finitely many rows.
LEMMA InsertFinite ==
    ASSUME NEW b, IsFiniteSet(DOMAIN b), NEW pending \in Seq(PlannedBatch)
    PROVE  IsFiniteSet(DOMAIN insert_batches(b, pending))
<1> DEFINE idx == {pending[k].index : k \in DOMAIN pending}
<1>1. IsFiniteSet(DOMAIN pending)
  <2>1. DOMAIN pending = 1 .. Len(pending) /\ Len(pending) \in Nat
    OBVIOUS
  <2> QED BY <2>1, FS_Interval
<1>2. IsFiniteSet(idx)
  <2> DEFINE f == [k \in DOMAIN pending |-> pending[k].index]
  <2>1. f \in Surjection(DOMAIN pending, idx)
    BY DEF Surjection
  <2> HIDE DEF f, idx
  <2> QED BY <1>1, <2>1, FS_Surjection
<1>3. DOMAIN insert_batches(b, pending) = DOMAIN b \union (idx \ DOMAIN b)
  BY DEF insert_batches
<1> HIDE DEF idx
<1>4. IsFiniteSet(idx \ DOMAIN b)
  BY <1>2, FS_Subset
<1>5. IsFiniteSet(DOMAIN b \union (idx \ DOMAIN b))
  BY <1>4, FS_Union
<1> QED BY <1>3, <1>5

\* How a step can change the set of batches that have reported.
LEMMA ReportSteps ==
    ASSUME RowInv, ReportInv, [Next]_vars
    PROVE  /\ IsFiniteSet(DOMAIN batches')
           /\ ~ Visible' => DOMAIN batches' = {}
           /\ \/ Reported' \subseteq Reported
              \/ \E w \in Workers : /\ BatchCommit(w) \/ BatchFailed(w)
                                    /\ Reported' \subseteq Reported \union {Index(w)}
<1>t. TypeOK /\ WorkersHoldRows /\ BatchesOK(batches)
  BY DEF RowInv, TypeOK, BatchesOK
<1>r. \A i \in DOMAIN batches : batches[i] \in BulkActionBatch
  BY <1>t DEF BatchesOK
<1> DEFINE Goal ==
           /\ IsFiniteSet(DOMAIN batches')
           /\ ~ Visible' => DOMAIN batches' = {}
           /\ \/ Reported' \subseteq Reported
              \/ \E w \in Workers : /\ BatchCommit(w) \/ BatchFailed(w)
                                    /\ Reported' \subseteq Reported \union {Index(w)}
<1> SUFFICES Goal
  OBVIOUS
<1>1. ASSUME NEW w \in Workers, PlanFlush(w) PROVE Goal
  <2>1. proc[w].pending \in Seq(PlannedBatch)
    BY <1>t DEF TypeOK, Process
  <2>2. Visible /\ Visible'
    BY <1>1, <1>t DEF PlanFlush, WorkersHoldRows, PlanPc, Visible
  <2>3. /\ \A i \in DOMAIN batches : batches'[i] = batches[i]
        /\ \A i \in DOMAIN batches' \ DOMAIN batches : batches'[i].status = "pending"
    BY <1>1, <1>t, <2>1, InsertBatches DEF PlanFlush
  <2>4. Reported' \subseteq Reported
    BY <2>3 DEF Reported
  <2>5. IsFiniteSet(DOMAIN batches')
    BY <1>1, <2>1, InsertFinite DEF PlanFlush, ReportInv
  <2> QED BY <2>2, <2>4, <2>5
<1>2. ASSUME NEW w \in Workers, BatchCancel(w) \/ BatchAttempt(w) PROVE Goal
  <2>1. submission' = submission
    BY <1>2 DEF BatchCancel, BatchAttempt
  <2>2. ASSUME NEW st \in {"cancelled", "processing"},
               batches' = [batches EXCEPT ![Index(w)].status = st]
        PROVE  Reported' \subseteq Reported /\ DOMAIN batches' = DOMAIN batches
    BY <2>2, <1>r DEF Reported, BulkActionBatch
  <2>3. Reported' \subseteq Reported /\ DOMAIN batches' = DOMAIN batches
    BY <1>2, <2>2 DEF BatchCancel, BatchAttempt, SetBatchStatus, Reported
  <2> QED BY <2>1, <2>3 DEF ReportInv, Visible
<1>3. ASSUME NEW w \in Workers, BatchCommit(w) \/ BatchFailed(w) PROVE Goal
  <2>1. \E row : batches' = [batches EXCEPT ![Index(w)] = row]
    BY <1>3 DEF BatchCommit, BatchFailed
  <2>2. /\ Reported' \subseteq Reported \union {Index(w)}
        /\ DOMAIN batches' = DOMAIN batches
    BY <2>1 DEF Reported
  <2>3. submission' = submission
    BY <1>3 DEF BatchCommit, BatchFailed
  <2> QED BY <1>3, <2>2, <2>3 DEF ReportInv, Visible
<1>4. ASSUME batches' = batches, Visible => Visible' PROVE Goal
  BY <1>4 DEF ReportInv, Reported
<1>5. CASE \/ Submit \/ CommitSubmission \/ AbortSubmission \/ cancel_bulk_action
           \/ update_account \/ ExpireResult \/ Abandon
           \/ \E e \in Entities : Leave(e) \/ Join(e)
  <2>1. batches' = batches
    BY <1>5 DEF Submit, CommitSubmission, AbortSubmission, cancel_bulk_action, update_account,
                ExpireResult, Abandon, Leave, Join, db
  <2>2. Visible => Visible'
    BY <1>5 DEF Submit, CommitSubmission, AbortSubmission, cancel_bulk_action, update_account,
                ExpireResult, Abandon, Leave, Join, db, Visible
  <2> QED BY <1>4, <2>1, <2>2
<1>6. ASSUME NEW w \in Workers,
             \/ Dequeue(w) \/ Return(w) \/ Raise(w) \/ PlanLoad(w) \/ PlanBegin(w)
             \/ PlanPage(w) \/ PlanEndOfWalk(w) \/ PlanEnqueue(w) \/ PlanTotals(w)
             \/ PlanFail(w) \/ BatchLoad(w) \/ BatchGate(w) \/ BatchDefer(w)
             \/ BatchCheck(w) \/ BatchRows(w) \/ FinalizeSelect(w) \/ FinalizeUpdate(w)
             \/ WorkerFault(w)
      PROVE  Goal
  <2>1. UNCHANGED <<submission, batches>>
    BY <1>6 DEF Dequeue, Return, Raise, PlanLoad, PlanBegin, PlanPage, PlanEndOfWalk,
                PlanEnqueue, PlanTotals, PlanFail, BatchLoad, BatchGate, BatchDefer,
                BatchCheck, BatchRows, FinalizeSelect, FinalizeUpdate, WorkerFault,
                DuplicateDelivery, Crash, PlanError, BatchError, UncaughtError, db
  <2> QED BY <1>4, <2>1 DEF Visible
<1>7. CASE UNCHANGED vars \/ Rest
  BY <1>4, <1>7 DEF vars, Rest, Visible
<1> HIDE DEF Goal
<1>8. ASSUME NEW w \in Workers, WorkerStep(w) \/ WorkerFault(w) PROVE Goal
  BY <1>1, <1>2, <1>3, <1>6, <1>8 DEF WorkerStep
<1>9. CASE Next
  <2>1. ASSUME NEW w \in Workers, WorkerStep(w) \/ WorkerFault(w) PROVE Goal
    BY <1>8, <2>1
  <2>2. CASE Outside
    BY <1>5, <2>2, Zenon DEF Outside
  <2>3. CASE Rest
    BY <1>7, <2>3
  <2>4. CASE Submit \/ CommitSubmission \/ Abandon
    BY <1>5, <2>4
  <2> QED BY <1>9, <2>1, <2>2, <2>3, <2>4, Zenon DEF Next
<1> QED BY <1>7, <1>9

\* Adding an element to a finite set adds at most one to its cardinality.
LEMMA InsertCounts ==
  ASSUME NEW S, IsFiniteSet(S), NEW x
  PROVE  IsFiniteSet(S \union {x}) /\ Cardinality(S \union {x}) <= Cardinality(S) + 1
<1>1. Cardinality(S) \in Nat
  BY FS_CardinalityType
<1>2. /\ IsFiniteSet(S \union {x})
      /\ Cardinality(S \union {x}) = IF x \in S THEN Cardinality(S) ELSE Cardinality(S) + 1
  BY FS_AddElement
<1> QED BY <1>1, <1>2

LEMMA ReportStep == RowInv /\ ReportInv /\ [Next]_vars => ReportInv'
<1> SUFFICES ASSUME RowInv, ReportInv, [Next]_vars PROVE ReportInv'
  OBVIOUS
<1>t. TypeOK /\ WorkersHoldRows /\ action \in BulkAction
  BY DEF RowInv, TypeOK
<1>1. IsFiniteSet(DOMAIN batches') /\ (~ Visible' => DOMAIN batches' = {})
  BY ReportSteps
<1>2. IsFiniteSet(Reported) /\ IsFiniteSet(Reported')
  <2>1. Reported \subseteq DOMAIN batches /\ Reported' \subseteq DOMAIN batches'
    BY DEF Reported
  <2> QED BY <1>1, <2>1, FS_Subset DEF ReportInv
<1>3. Cardinality(Reported) \in Nat /\ Cardinality(Reported') \in Nat
  BY <1>2, FS_CardinalityType
<1>4. Cardinality(Reported) <= action.completed_batches /\ action.completed_batches \in Nat
  BY <1>t DEF ReportInv, ReportedBatchesCounted, BulkAction
<1>5. Reported' \subseteq Reported => Cardinality(Reported') <= Cardinality(Reported)
  BY <1>2, FS_Subset
<1>6. CASE Submit
  <2>1. Reported' = {}
    BY <1>6 DEF Submit, ReportInv, Visible, Reported
  <2>2. action'.completed_batches = 0
    BY <1>6 DEF Submit, new_action
  <2> QED BY <1>1, <2>1, <2>2, FS_EmptySet DEF ReportInv, ReportedBatchesCounted
<1>7. ASSUME NEW w \in Workers, BatchCommit(w) \/ BatchFailed(w) PROVE ReportInv'
  <2>1. action'.completed_batches = action.completed_batches + 1
    <3>1. CASE BatchFailed(w)
      BY <3>1, <1>t DEF BatchFailed, record_batch_completion, BulkAction
    <3>2. CASE BatchCommit(w)
      <4>1. PICK r \in [success : Nat, failure : Nat, skipped : Nat], written \in SUBSET Entities :
              CommitEffect(w, r, written)
        BY <3>2, <1>t, CommitShape
      <4> QED BY <4>1, <1>t DEF CommitEffect, record_batch_completion, BulkAction
    <3> QED BY <1>7, <3>1, <3>2
  <2>2. Reported' \subseteq Reported \union {Index(w)}
    <3>1. \E row : batches' = [batches EXCEPT ![Index(w)] = row]
      BY <1>7 DEF BatchCommit, BatchFailed
    <3> QED BY <3>1 DEF Reported
  <2>3. /\ IsFiniteSet(Reported \union {Index(w)})
        /\ Cardinality(Reported \union {Index(w)}) <= Cardinality(Reported) + 1
    BY <1>2, InsertCounts
  <2>4. Cardinality(Reported') <= Cardinality(Reported \union {Index(w)})
    BY <2>2, <2>3, FS_Subset
  <2>5. Cardinality(Reported \union {Index(w)}) \in Nat
    BY <2>3, FS_CardinalityType
  <2>6. Cardinality(Reported') <= action'.completed_batches
    BY <1>3, <1>4, <2>1, <2>3, <2>4, <2>5
  <2> QED BY <1>1, <2>6 DEF ReportInv, ReportedBatchesCounted
<1>8. CASE QuietStep
  <2>1. action'.completed_batches = action.completed_batches
    BY <1>8 DEF QuietStep, SameCounters
  <2>2. ASSUME Reported' \subseteq Reported PROVE ReportInv'
    BY <1>1, <1>3, <1>4, <1>5, <2>1, <2>2 DEF ReportInv, ReportedBatchesCounted
  <2> QED BY <1>7, <2>2, ReportSteps
<1> QED BY <1>6, <1>7, <1>8, StepKinds

LEMMA ReportInvariant == Spec => []ReportInv
<1>1. Init => ReportInv
  <2> SUFFICES ASSUME Init PROVE ReportInv
    OBVIOUS
  <2>1. DOMAIN batches = {} /\ action.completed_batches = 0
    BY DEF Init, new_action
  <2>2. Reported = {}
    BY <2>1 DEF Reported
  <2> QED BY <2>1, <2>2, FS_EmptySet DEF ReportInv, ReportedBatchesCounted
<1> QED BY <1>1, RowInvariant, ReportStep, PTL DEF Spec

\* completed_batches counts every batch that has reported: what
\* finalize_if_complete compares with total_batches is never too small because
\* an increment was lost to a crash, a retry or another worker.
THEOREM ReportsAreCounted == Spec => []ReportedBatchesCounted
<1>1. ReportInv => ReportedBatchesCounted
  BY DEF ReportInv
<1> QED BY <1>1, ReportInvariant, PTL

\* A key that won is in the ledger, which is what keeps a second winner out.
WinnerInv ==
    /\ OneWinnerPerKey
    /\ Deduplicate => \A e \in Entities : wins[e] > 0 /\ Key[e] # NoKey => Key[e] \in ledger

LEMMA WinnerStep == RowInv /\ WinnerInv /\ [Next]_vars => WinnerInv'
<1> SUFFICES ASSUME RowInv, WinnerInv, [Next]_vars PROVE WinnerInv'
  OBVIOUS
<1>t. TypeOK /\ WorkersHoldRows
  BY DEF RowInv
<1>q. CASE UNCHANGED <<wins, ledger>>
  BY <1>q DEF WinnerInv, OneWinnerPerKey
<1>1. CASE QuietStep
  BY <1>1, <1>q DEF QuietStep
<1>2. CASE Submit
  BY <1>2, <1>q DEF Submit
<1>3. ASSUME NEW w \in Workers, BatchCommit(w) PROVE WinnerInv'
  <2> SUFFICES ASSUME Deduplicate PROVE WinnerInv'
    BY DEF WinnerInv, OneWinnerPerKey
  <2> DEFINE rows == proc[w].rows
  <2>1. PICK written \in SUBSET Entities :
          /\ written \subseteq unique_rows(rows, ledger)
          /\ ledger' = ledger \union claimed_keys(rows, ledger)
          /\ wins' = [e \in Entities |-> IF e \in written THEN wins[e] + 1 ELSE wins[e]]
    BY <1>3, <1>t, CommitShape DEF CommitEffect
  <2>2. \A e \in written : Key[e] # NoKey =>
           /\ Key[e] \in ledger' /\ Key[e] \notin ledger
           /\ \A f \in written : Key[f] = Key[e] => e <= f
    BY <2>1 DEF unique_rows, claimed_keys
  <2>3. \A e \in Entities : wins[e] \in Nat
    BY <1>t DEF TypeOK
  <2>4. \A e \in Entities : wins[e] > 0 /\ Key[e] # NoKey => Key[e] \in ledger
    BY DEF WinnerInv
  <2>5. \A e \in written : Key[e] # NoKey => wins'[e] = 1
    BY <2>1, <2>2, <2>3, <2>4
  <2>6. ASSUME NEW e \in Entities, NEW f \in Entities, wins'[e] > 0, wins'[f] > 0,
               Key[e] = Key[f], Key[e] # NoKey
        PROVE  e = f /\ wins'[e] = 1
    <3>1. CASE e \in written /\ f \in written
      BY <3>1, <2>2, <2>5, <2>6 DEF Entities
    <3>2. CASE e \notin written /\ f \notin written
      BY <3>2, <2>1, <2>6 DEF WinnerInv, OneWinnerPerKey
    <3>3. CASE e \in written /\ f \notin written
      BY <3>3, <2>1, <2>2, <2>4, <2>6
    <3>4. CASE e \notin written /\ f \in written
      BY <3>4, <2>1, <2>2, <2>4, <2>6
    <3> QED BY <3>1, <3>2, <3>3, <3>4
  <2>7. \A e \in Entities : wins'[e] > 0 /\ Key[e] # NoKey => Key[e] \in ledger'
    BY <2>1, <2>2, <2>4
  <2> QED BY <2>6, <2>7 DEF WinnerInv, OneWinnerPerKey
<1>4. ASSUME NEW w \in Workers, BatchFailed(w) PROVE WinnerInv'
  BY <1>4, <1>q DEF BatchFailed
<1> QED BY <1>1, <1>2, <1>3, <1>4, StepKinds

\* De-duplication has one winner per key (partition_duplicates): of the
\* entities sharing a key at most one is written, once, under any retries,
\* duplicate deliveries and crashes.
THEOREM DedupHasOneWinner == Spec => []OneWinnerPerKey
<1>1. Init => WinnerInv
  BY DEF Init, WinnerInv, OneWinnerPerKey
<1>2. WinnerInv => OneWinnerPerKey
  BY DEF WinnerInv
<1> QED BY <1>1, <1>2, RowInvariant, WinnerStep, PTL DEF Spec
=============================================================================
