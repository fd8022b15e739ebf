------------------------ MODULE PipelinePlanProofs ------------------------
(***************************************************************************)
(* Proofs about cancellation, the sizes of batches, the partition of the   *)
(* target set, single writes, tallies and exact completion.  Where a       *)
(* property does not survive a kind of fault (README, section 4), its      *)
(* theorem names the faults it excludes; the number of the others is not   *)
(* bounded.                                                                *)
(***************************************************************************)
EXTENDS PipelineProofs, NumberFacts

-----------------------------------------------------------------------------
(* How a step moves a worker.                                              *)

SameJob(p, q) == q.job = p.job /\ q.try = p.try /\ q.born = p.born

SamePlan(p, q) ==
    /\ q.index = p.index /\ q.last = p.last /\ q.pending = p.pending /\ q.more = p.more
    /\ q.total_entities = p.total_entities /\ q.total_batches = p.total_batches

SameLoad(p, q) ==
    q.entity_count = p.entity_count /\ q.limit = p.limit /\ q.rows = p.rows /\ q.final = p.final

OthersStay(w) == \A v \in Workers \ {w} : proc'[v] = proc[v]

\* Worker w goes on with its job at one of the positions S.
Moved(w, S) ==
    /\ proc'[w].pc \in S
    /\ SameJob(proc[w], proc'[w])
    /\ SamePlan(proc[w], proc'[w])
    /\ OthersStay(w)

LEMMA GotoMoves ==
    ASSUME TypeOK, NEW w \in Workers, NEW pc, Goto(w, pc)
    PROVE  Moved(w, {pc}) /\ SameLoad(proc[w], proc'[w])
<1>1. proc[w] \in Process /\ proc \in [Workers -> Process]
  BY DEF TypeOK
<1> DEFINE r == [proc[w] EXCEPT !.pc = pc]
<1>2. proc' = [proc EXCEPT ![w] = r]
  BY <1>1 DEF Goto
<1>3. r.pc = pc /\ SameJob(proc[w], r) /\ SamePlan(proc[w], r) /\ SameLoad(proc[w], r)
  BY <1>1 DEF Process, SameJob, SamePlan, SameLoad
<1> HIDE DEF r
<1>4. proc'[w] = r /\ OthersStay(w)
  BY <1>1, <1>2 DEF OthersStay
<1> QED BY <1>3, <1>4 DEF Moved

\* The positions that an action leads to when it only moves the worker.
LEMMA PlanMoves ==
    ASSUME TypeOK, NEW w \in Workers
    PROVE  /\ PlanLoad(w) => Moved(w, {"return", "p_begin"})
           /\ PlanBegin(w) => Moved(w, {"p_page"})
           /\ PlanFlush(w) => Moved(w, {"p_totals", "p_enqueue"})
           /\ PlanTotals(w) => Moved(w, {"return"})
           /\ PlanError(w) => Moved(w, {"p_fail"})
           /\ PlanFail(w) => Moved(w, {"raise"})
           /\ UncaughtError(w) => Moved(w, {"raise"})
<1>1. \A pc : Goto(w, pc) => Moved(w, {pc})
  BY GotoMoves
<1>2. \A pc, S : Moved(w, {pc}) /\ pc \in S => Moved(w, S)
  BY DEF Moved
<1> QED BY <1>1, <1>2 DEF PlanLoad, PlanBegin, PlanFlush, PlanTotals, PlanError, PlanFail, UncaughtError

LEMMA LoadMoves ==
    ASSUME TypeOK, NEW w \in Workers
    PROVE  /\ BatchLoad(w) =>
                 /\ Moved(w, {"return", "b_cancel", "b_gate"})
                 /\ proc'[w].pc = "b_gate" =>
                       /\ action.status # "cancelled" /\ batches[Index(w)].status # "completed"
                       /\ proc'[w].entity_count = batches[Index(w)].entity_count
                       /\ proc'[w].limit = limit
                 /\ proc'[w].pc = "b_cancel" => batches[Index(w)].status # "completed"
           /\ BatchRows(w) =>
                 /\ Moved(w, {"b_commit"})
                 /\ proc'[w].rows = load_batch_rows(table, batches[Index(w)].slice)
                 /\ proc'[w].entity_count = proc[w].entity_count
           /\ FinalizeSelect(w) =>
                 /\ Moved(w, {"return", "f_update", "g_update"})
                 /\ proc'[w].pc # "return" =>
                       /\ is_complete(action) /\ proc'[w].final = final_status(action)
                       /\ proc[w].pc = "f_select" <=> proc'[w].pc = "f_update"
<1>1. proc[w] \in Process /\ proc \in [Workers -> Process]
  BY DEF TypeOK
<1>2. ASSUME NEW r, proc' = [proc EXCEPT ![w] = r] PROVE proc'[w] = r /\ OthersStay(w)
  BY <1>1, <1>2 DEF OthersStay
<1>3. ASSUME BatchLoad(w)
      PROVE  /\ Moved(w, {"return", "b_cancel", "b_gate"})
             /\ proc'[w].pc = "b_gate" =>
                   /\ action.status # "cancelled" /\ batches[Index(w)].status # "completed"
                   /\ proc'[w].entity_count = batches[Index(w)].entity_count
                   /\ proc'[w].limit = limit
             /\ proc'[w].pc = "b_cancel" => batches[Index(w)].status # "completed"
  <2> DEFINE r1 == [proc[w] EXCEPT !.pc = "return"]
             r2 == [proc[w] EXCEPT !.pc = "b_cancel"]
             r3 == [proc[w] EXCEPT !.pc = "b_gate", !.limit = limit,
                                   !.entity_count = batches[Index(w)].entity_count]
  <2>1. /\ r1.pc = "return" /\ SameJob(proc[w], r1) /\ SamePlan(proc[w], r1)
        /\ r2.pc = "b_cancel" /\ SameJob(proc[w], r2) /\ SamePlan(proc[w], r2)
    BY <1>1 DEF Process, SameJob, SamePlan
  <2>2. /\ r3.pc = "b_gate" /\ SameJob(proc[w], r3) /\ SamePlan(proc[w], r3)
        /\ r3.entity_count = batches[Index(w)].entity_count /\ r3.limit = limit
    BY <1>1 DEF Process, SameJob, SamePlan
  <2>3. \/ proc' = [proc EXCEPT ![w] = r1]
        \/ proc' = [proc EXCEPT ![w] = r2] /\ batches[Index(w)].status # "completed"
        \/ /\ proc' = [proc EXCEPT ![w] = r3]
           /\ action.status # "cancelled" /\ batches[Index(w)].status # "completed"
    BY <1>3 DEF BatchLoad
  <2> HIDE DEF r1, r2, r3
  <2> QED BY <1>2, <2>1, <2>2, <2>3 DEF Moved
<1>4. ASSUME BatchRows(w)
      PROVE  /\ Moved(w, {"b_commit"})
             /\ proc'[w].rows = load_batch_rows(table, batches[Index(w)].slice)
             /\ proc'[w].entity_count = proc[w].entity_count
  <2> DEFINE rows == load_batch_rows(table, batches[Index(w)].slice)
             r == [proc[w] EXCEPT !.pc = "b_commit", !.rows = rows,
                                  !.held = {e \in rows : table[e] = "held"}]
  <2>1. proc' = [proc EXCEPT ![w] = r]
    BY <1>4 DEF BatchRows
  <2> HIDE DEF rows
  <2>2. /\ r.pc = "b_commit" /\ SameJob(proc[w], r) /\ SamePlan(proc[w], r)
        /\ r.rows = rows /\ r.entity_count = proc[w].entity_count
    BY <1>1 DEF Process, SameJob, SamePlan
  <2> HIDE DEF r
  <2> QED BY <1>2, <2>1, <2>2 DEF Moved, rows
<1>5. ASSUME FinalizeSelect(w)
      PROVE  /\ Moved(w, {"return", "f_update", "g_update"})
             /\ proc'[w].pc # "return" =>
                   /\ is_complete(action) /\ proc'[w].final = final_status(action)
                   /\ proc[w].pc = "f_select" <=> proc'[w].pc = "f_update"
  <2> DEFINE r1 == [proc[w] EXCEPT !.pc = "return"]
             r2(pc) == [proc[w] EXCEPT !.pc = pc, !.final = final_status(action)]
  <2>1. /\ r1.pc = "return" /\ SameJob(proc[w], r1) /\ SamePlan(proc[w], r1)
    BY <1>1 DEF Process, SameJob, SamePlan
  <2>2. \A pc : /\ r2(pc).pc = pc /\ SameJob(proc[w], r2(pc)) /\ SamePlan(proc[w], r2(pc))
                /\ r2(pc).final = final_status(action)
    BY <1>1 DEF Process, SameJob, SamePlan
  <2>3. \/ proc' = [proc EXCEPT ![w] = r1]
        \/ /\ proc' = [proc EXCEPT ![w] = r2("f_update")]
           /\ is_complete(action) /\ proc[w].pc = "f_select"
        \/ /\ proc' = [proc EXCEPT ![w] = r2("g_update")]
           /\ is_complete(action) /\ proc[w].pc # "f_select"
    <3>1. proc[w].pc \in {"f_select", "g_select"}
      BY <1>5 DEF FinalizeSelect
    <3>2. ASSUME is_complete(action), proc[w].pc = "f_select"
          PROVE  proc' = [proc EXCEPT ![w] = r2("f_update")]
      BY <1>5, <3>2 DEF FinalizeSelect
    <3>3. ASSUME is_complete(action), proc[w].pc = "g_select"
          PROVE  proc' = [proc EXCEPT ![w] = r2("g_update")]
      BY <1>5, <3>3 DEF FinalizeSelect
    <3>4. ASSUME ~ is_complete(action) PROVE proc' = [proc EXCEPT ![w] = r1]
      BY <1>5, <3>4 DEF FinalizeSelect
    <3> HIDE DEF r1, r2
    <3> QED BY <3>1, <3>2, <3>3, <3>4
  <2> HIDE DEF r1, r2
  <2> QED BY <1>2, <2>1, <2>2, <2>3 DEF Moved
<1> QED BY <1>3, <1>4, <1>5

LEMMA BatchMoves ==
    ASSUME TypeOK, NEW w \in Workers
    PROVE  /\ BatchCancel(w) => Moved(w, {"return"})
           /\ BatchGate(w) => Moved(w, {"raise", "b_attempt", "b_defer"})
           /\ BatchDefer(w) => Moved(w, {"return"})
           /\ BatchAttempt(w) => Moved(w, {"b_check"})
           /\ BatchCheck(w) => Moved(w, {"return", "b_rows"})
           /\ BatchCommit(w) => Moved(w, {"f_select"})
           /\ FinalizeUpdate(w) => Moved(w, {"return"})
           /\ BatchError(w) => Moved(w, {"raise", "b_failed"})
           /\ BatchFailed(w) => Moved(w, {"g_select"})
<1>1. \A pc : Goto(w, pc) => Moved(w, {pc})
  BY GotoMoves
<1>2. \A pc, S : Moved(w, {pc}) /\ pc \in S => Moved(w, S)
  BY DEF Moved
<1> QED BY <1>1, <1>2 DEF BatchCancel, BatchGate, BatchDefer, BatchAttempt, BatchCheck,
                          BatchCommit, FinalizeUpdate, BatchError, BatchFailed

\* A worker that takes job j starts from an empty record.
Taken(w, j) ==
    /\ proc[w].pc = "idle" /\ OthersStay(w)
    /\ proc'[w].pc = (IF j.kind = "plan" THEN "p_load" ELSE "b_load")
    /\ proc'[w].job = j /\ proc'[w].born = action.status
    /\ SamePlan(idle, proc'[w])

LEMMA QueueMoves ==
    ASSUME TypeOK, NEW w \in Workers
    PROVE  /\ \A j : Start(w, j) => Taken(w, j)
           /\ Return(w) \/ Raise(w) \/ Crash(w) => proc'[w] = idle /\ OthersStay(w)
<1>1. proc \in [Workers -> Process]
  BY DEF TypeOK
<1>2. ASSUME NEW j, Start(w, j) PROVE Taken(w, j)
  <2> DEFINE r == [idle EXCEPT !.pc = IF j.kind = "plan" THEN "p_load" ELSE "b_load",
                               !.job = j, !.try = jobs[j].tries + 1, !.born = action.status]
  <2>1. proc' = [proc EXCEPT ![w] = r]
    BY <1>2 DEF Start
  <2>2. /\ r.pc = (IF j.kind = "plan" THEN "p_load" ELSE "b_load")
        /\ r.job = j /\ r.born = action.status /\ SamePlan(idle, r)
    BY DEF idle, SamePlan
  <2> HIDE DEF r
  <2> QED BY <1>1, <1>2, <2>1, <2>2 DEF Taken, OthersStay, Start
<1>3. ASSUME Return(w) \/ Raise(w) \/ Crash(w) PROVE proc'[w] = idle /\ OthersStay(w)
  BY <1>1, <1>3 DEF Return, Raise, Crash, OthersStay
<1> QED BY <1>2, <1>3

\* The next page of a plan, its row, and what the walk records of it.
page_row(p, page) ==
    [index |-> p.index, slice |-> IF Explicit THEN page ELSE cursor_range(page),
     entity_count |-> Cardinality(page)]

LEMMA WalkMoves ==
    ASSUME TypeOK, NEW w \in Workers
    PROVE  /\ PlanPage(w) =>
                 LET p == proc[w]
                     q == proc'[w]
                     page == next_page(p)
                 IN  /\ p.pc = "p_page" /\ OthersStay(w) /\ SameJob(p, q)
                     /\ q.pc \in {"p_page", "p_flush"}
                     /\ q.last \in page /\ \A e \in page : e <= q.last
                     /\ q.pending = Append(p.pending, page_row(p, page))
                     /\ q.index = p.index + 1
                     /\ q.total_batches = p.total_batches + 1
                     /\ q.total_entities = p.total_entities + Cardinality(page)
                     /\ q.more <=> (Explicit \/ Cardinality(page) >= action.batch_size)
                     /\ q.pc = "p_page" => q.more
           /\ PlanEndOfWalk(w) =>
                 LET p == proc[w]
                     q == proc'[w]
                 IN  /\ p.pc = "p_page" /\ next_page(p) = {}
                     /\ q.pc = "p_flush" /\ q.more = FALSE
                     /\ q.index = p.index /\ q.last = p.last /\ q.pending = p.pending
                     /\ q.total_entities = p.total_entities
                     /\ q.total_batches = p.total_batches
                     /\ OthersStay(w) /\ SameJob(p, q)
           /\ PlanEnqueue(w) =>
                 LET p == proc[w]
                     q == proc'[w]
                 IN  /\ p.pc = "p_enqueue"
                     /\ q.pc = (IF Tail(p.pending) # <<>> THEN "p_enqueue"
                                ELSE IF p.more THEN "p_page" ELSE "p_totals")
                     /\ q.pending = Tail(p.pending)
                     /\ q.index = p.index /\ q.last = p.last /\ q.more = p.more
                     /\ q.total_entities = p.total_entities
                     /\ q.total_batches = p.total_batches
                     /\ OthersStay(w) /\ SameJob(p, q)
<1> DEFINE p == proc[w]
           q == proc'[w]
           page == next_page(p)
<1>1. p \in Process /\ proc \in [Workers -> Process]
  BY DEF TypeOK
<1>2. ASSUME NEW r, proc' = [proc EXCEPT ![w] = r] PROVE q = r /\ OthersStay(w)
  BY <1>1, <1>2 DEF OthersStay
<1>3. ASSUME PlanPage(w)
      PROVE  /\ p.pc = "p_page" /\ OthersStay(w) /\ SameJob(p, q)
             /\ q.pc \in {"p_page", "p_flush"}
             /\ q.last \in page /\ \A e \in page : e <= q.last
             /\ q.pending = Append(p.pending, page_row(p, page))
             /\ q.index = p.index + 1
             /\ q.total_batches = p.total_batches + 1
             /\ q.total_entities = p.total_entities + Cardinality(page)
             /\ q.more <=> (Explicit \/ Cardinality(page) >= action.batch_size)
             /\ q.pc = "p_page" => q.more
  <2> DEFINE more == Explicit \/ Cardinality(page) >= action.batch_size
             pc == IF more /\ Len(p.pending) + 1 < FlushEvery THEN "p_page" ELSE "p_flush"
             r(last) == [p EXCEPT !.pending = Append(@, page_row(p, page)), !.more = more,
                           !.index = @ + 1, !.last = last,
                           !.total_entities = @ + Cardinality(page),
                           !.total_batches = @ + 1, !.pc = pc]
  <2>1. PICK last \in page : (\A e \in page : e <= last) /\ proc' = [proc EXCEPT ![w] = r(last)]
    BY <1>3 DEF PlanPage, page_row
  <2> HIDE DEF pc, more, page
  <2>2. /\ r(last).pc = pc /\ r(last).last = last /\ r(last).more = more
        /\ r(last).index = p.index + 1
        /\ r(last).total_batches = p.total_batches + 1
        /\ r(last).total_entities = p.total_entities + Cardinality(page)
        /\ SameJob(p, r(last))
    BY <1>1 DEF Process, SameJob
  <2>3. r(last).pending = Append(p.pending, page_row(p, page))
    BY <1>1 DEF Process
  <2> HIDE DEF r
  <2>4. q = r(last) /\ OthersStay(w) /\ p.pc = "p_page"
    BY <1>2, <1>3, <2>1 DEF PlanPage
  <2>5. pc \in {"p_page", "p_flush"} /\ (pc = "p_page" => more)
    BY DEF pc
  <2> QED BY <2>1, <2>2, <2>3, <2>4, <2>5 DEF more
<1>4. ASSUME PlanEndOfWalk(w)
      PROVE  /\ p.pc = "p_page" /\ next_page(p) = {}
             /\ q.pc = "p_flush" /\ q.more = FALSE
             /\ q.index = p.index /\ q.last = p.last /\ q.pending = p.pending
             /\ q.total_entities = p.total_entities
             /\ q.total_batches = p.total_batches
             /\ OthersStay(w) /\ SameJob(p, q)
  <2> DEFINE r == [p EXCEPT !.more = FALSE, !.pc = "p_flush"]
  <2>1. proc' = [proc EXCEPT ![w] = r]
    BY <1>4 DEF PlanEndOfWalk
  <2>2. /\ r.pc = "p_flush" /\ r.more = FALSE
        /\ r.index = p.index /\ r.last = p.last /\ r.pending = p.pending
        /\ r.total_entities = p.total_entities /\ r.total_batches = p.total_batches
        /\ SameJob(p, r)
    BY <1>1 DEF Process, SameJob
  <2> HIDE DEF r
  <2> QED BY <1>2, <1>4, <2>1, <2>2 DEF PlanEndOfWalk
<1>5. ASSUME PlanEnqueue(w)
      PROVE  /\ p.pc = "p_enqueue"
             /\ q.pc = (IF Tail(p.pending) # <<>> THEN "p_enqueue"
                        ELSE IF p.more THEN "p_page" ELSE "p_totals")
             /\ q.pending = Tail(p.pending)
             /\ q.index = p.index /\ q.last = p.last /\ q.more = p.more
             /\ q.total_entities = p.total_entities
             /\ q.total_batches = p.total_batches
             /\ OthersStay(w) /\ SameJob(p, q)
  <2> DEFINE pc == IF Tail(p.pending) # <<>> THEN "p_enqueue"
                   ELSE IF p.more THEN "p_page" ELSE "p_totals"
             r == [p EXCEPT !.pending = Tail(@), !.pc = pc]
  <2>1. proc' = [proc EXCEPT ![w] = r]
    BY <1>5 DEF PlanEnqueue
  <2> HIDE DEF pc
  <2>2. /\ r.pc = pc /\ r.more = p.more
        /\ r.index = p.index /\ r.last = p.last /\ r.pending = Tail(p.pending)
        /\ r.total_entities = p.total_entities /\ r.total_batches = p.total_batches
        /\ SameJob(p, r)
    BY <1>1 DEF Process, SameJob
  <2> HIDE DEF r
  <2> QED BY <1>2, <1>5, <2>1, <2>2 DEF PlanEnqueue, pc
<1> QED BY <1>3, <1>4, <1>5

-----------------------------------------------------------------------------
(* Cancellation.                                                           *)

\* Until a planner revives the action, a job that was delivered under a
\* cancelled status still sees it, and has not passed the pre-flight check.
CancelInv ==
    /\ action.status = "cancelled" => Visible
    /\ ~ revived => \A w \in Workers :
          proc[w].born = "cancelled" => action.status = "cancelled" /\ ~ Working(w)

LEMMA CancelKept ==
    ASSUME RowInv, CancelInv, [Next]_vars
    PROVE  /\ action'.status = "cancelled" => Visible'
           /\ ~ revived' => ~ revived
           /\ ~ revived' /\ action.status = "cancelled" => action'.status = "cancelled"
<1>t. TypeOK /\ WorkersHoldRows /\ action \in BulkAction
  BY DEF RowInv, TypeOK
<1>1. ~ revived' /\ action.status = "cancelled" => action'.status = "cancelled"
  BY TerminalKept DEF Kept, CancelInv, is_terminal, PlanBegin
<1>2. Visible => Visible'
  BY RowsStay, <1>t DEF vars, Visible
<1> SUFFICES (action'.status = "cancelled" => Visible \/ action' = action) /\ (~ revived' => ~ revived)
  BY <1>1, <1>2 DEF CancelInv
<1>3. CASE Submit
  BY <1>3 DEF Submit, new_action, history
<1>4. CASE CommitSubmission \/ AbortSubmission \/ update_account \/ ExpireResult \/ Abandon
           \/ Rest \/ UNCHANGED vars \/ \E e \in Entities : Leave(e) \/ Join(e)
  BY <1>4 DEF CommitSubmission, AbortSubmission, update_account, ExpireResult, Abandon, Rest,
              Leave, Join, db, vars, history
<1>5. CASE cancel_bulk_action
  BY <1>5 DEF cancel_bulk_action, history
<1>6. ASSUME NEW w \in Workers,
             \/ PlanBegin(w) \/ PlanTotals(w) \/ PlanFail(w) \/ BatchCommit(w)
             \/ BatchFailed(w) \/ FinalizeUpdate(w)
      PROVE  Visible /\ (~ revived' => ~ revived)
  <2>1. proc[w].pc \in (PlanPc \ {"p_load"}) \union BatchPc
    BY <1>6 DEF PlanBegin, PlanTotals, PlanFail, BatchCommit, BatchFailed, FinalizeUpdate,
                PlanPc, BatchPc
  <2>2. ~ revived' => ~ revived
    BY <1>6 DEF PlanBegin, PlanTotals, PlanFail, BatchCommit, BatchFailed, FinalizeUpdate, history
  <2> QED BY <2>1, <2>2, <1>t DEF WorkersHoldRows
<1>7. ASSUME NEW w \in Workers,
             \/ Dequeue(w) \/ Return(w) \/ Raise(w) \/ PlanLoad(w) \/ PlanPage(w)
             \/ PlanEndOfWalk(w) \/ PlanFlush(w) \/ PlanEnqueue(w) \/ BatchLoad(w)
             \/ BatchCancel(w) \/ BatchGate(w) \/ BatchDefer(w) \/ BatchAttempt(w)
             \/ BatchCheck(w) \/ BatchRows(w) \/ FinalizeSelect(w) \/ WorkerFault(w)
      PROVE  action' = action /\ revived' = revived
  BY <1>7 DEF Dequeue, Return, Raise, PlanLoad, PlanPage, PlanEndOfWalk, PlanFlush,
              PlanEnqueue, BatchLoad, BatchCancel, BatchGate, BatchDefer, BatchAttempt,
              BatchCheck, BatchRows, FinalizeSelect, WorkerFault, DuplicateDelivery,
              Crash, PlanError, BatchError, UncaughtError, db, history
<1> QED BY <1>3, <1>4, <1>5, <1>6, <1>7 DEF Next, Outside, WorkerStep

\* Where a worker's born and its position come from.
LEMMA BornStep ==
    ASSUME RowInv, [Next]_vars, NEW w \in Workers
    PROVE  \/ proc'[w].born = proc[w].born
              /\ (Working(w)' => Working(w) \/ action.status # "cancelled")
           \/ proc'[w].born = "queued"
           \/ proc'[w].born = action.status /\ action' = action /\ ~ Working(w)'
<1>t. TypeOK
  BY DEF RowInv
<1> DEFINE Goal ==
           \/ proc'[w].born = proc[w].born
              /\ (Working(w)' => Working(w) \/ action.status # "cancelled")
           \/ proc'[w].born = "queued"
           \/ proc'[w].born = action.status /\ action' = action /\ ~ Working(w)'
<1> SUFFICES Goal
  OBVIOUS
<1>0. CASE proc'[w] = proc[w]
  BY <1>0 DEF Working
<1>1. CASE Submit \/ CommitSubmission \/ Abandon \/ Outside \/ Rest \/ UNCHANGED vars
  <2>1. UNCHANGED proc
    BY <1>1 DEF Submit, CommitSubmission, Abandon, Outside, Rest, AbortSubmission,
                cancel_bulk_action, update_account, ExpireResult, Leave, Join, vars
  <2> QED BY <1>0, <2>1
<1> HIDE DEF Goal
<1>2. ASSUME NEW v \in Workers, v # w, OthersStay(v) PROVE Goal
  BY <1>0, <1>2 DEF OthersStay
<1>3. ASSUME NEW v \in Workers, Dequeue(v) \/ DuplicateDelivery(v) PROVE Goal
  <2>1. PICK j : Taken(v, j)
    BY <1>3, <1>t, QueueMoves DEF Dequeue, DuplicateDelivery
  <2>2. action' = action
    BY <1>3 DEF Dequeue, DuplicateDelivery, db
  <2>3. CASE v = w
    BY <2>1, <2>2, <2>3 DEF Taken, Goal, Working
  <2> QED BY <1>2, <2>1, <2>3 DEF Taken
<1>4. ASSUME NEW v \in Workers, Return(v) \/ Raise(v) \/ Crash(v) PROVE Goal
  <2>1. proc'[v] = idle /\ OthersStay(v)
    BY <1>4, <1>t, QueueMoves
  <2> QED BY <1>2, <2>1 DEF idle, Goal
<1>5. ASSUME NEW v \in Workers, NEW S, Moved(v, S),
             Working(v) \/ action.status # "cancelled"
                \/ S \intersect {"b_gate", "b_attempt", "b_check", "b_rows", "b_commit"} = {}
      PROVE  Goal
  BY <1>2, <1>5 DEF Moved, SameJob, Goal, Working
<1>6. ASSUME NEW v \in Workers, PlanPage(v) \/ PlanEndOfWalk(v) \/ PlanEnqueue(v) PROVE Goal
  <2>1. OthersStay(v) /\ proc'[v].born = proc[v].born /\ ~ Working(v)'
    BY <1>6, <1>t, WalkMoves DEF Working, SameJob
  <2> QED BY <1>2, <2>1 DEF Goal
<1>7. ASSUME NEW v \in Workers,
             \/ PlanLoad(v) \/ PlanBegin(v) \/ PlanFlush(v) \/ PlanTotals(v) \/ PlanError(v)
             \/ PlanFail(v) \/ UncaughtError(v)
      PROVE  Goal
  BY <1>5, <1>7, <1>t, PlanMoves
<1>8. ASSUME NEW v \in Workers, BatchLoad(v) PROVE Goal
  <2>1. /\ Moved(v, {"return", "b_cancel", "b_gate"})
        /\ proc'[v].pc = "b_gate" => action.status # "cancelled"
    BY <1>8, <1>t, LoadMoves
  <2>2. proc'[v].pc # "b_gate" => Moved(v, {"return", "b_cancel"})
    BY <2>1 DEF Moved
  <2> QED BY <1>5, <2>1, <2>2
<1>9. ASSUME NEW v \in Workers, BatchRows(v) \/ FinalizeSelect(v) PROVE Goal
  <2>1. BatchRows(v) => Working(v) /\ Moved(v, {"b_commit"})
    BY <1>t, LoadMoves DEF BatchRows, Working
  <2>2. FinalizeSelect(v) => Moved(v, {"return", "f_update", "g_update"})
    BY <1>t, LoadMoves
  <2> QED BY <1>5, <1>9, <2>1, <2>2
<1>10. ASSUME NEW v \in Workers,
              \/ BatchCancel(v) \/ BatchDefer(v) \/ BatchCommit(v) \/ FinalizeUpdate(v)
              \/ BatchError(v) \/ BatchFailed(v)
       PROVE  Goal
  BY <1>5, <1>10, <1>t, BatchMoves
<1>11. ASSUME NEW v \in Workers, BatchGate(v) \/ BatchAttempt(v) \/ BatchCheck(v) PROVE Goal
  <2>1. Working(v)
    BY <1>11 DEF BatchGate, BatchAttempt, BatchCheck, Working
  <2> QED BY <1>5, <1>11, <2>1, <1>t, BatchMoves
<1> QED BY <1>1, <1>3, <1>4, <1>6, <1>7, <1>8, <1>9, <1>10, <1>11 DEF Next, WorkerStep, WorkerFault

\* A cancellation takes effect at the next batch boundary (process_batch): under
\* every fault, and for any number of workers, a batch job delivered after it
\* does no work, unless a planner that had already started overwrites the status.
THEOREM CancelledJobsDoNothing == Spec => []CancelStopsAtBoundary
<1>1. Init => CancelInv
  BY DEF Init, new_action, CancelInv, idle
<1>2. RowInv /\ CancelInv /\ [Next]_vars => CancelInv'
  <2> SUFFICES ASSUME RowInv, CancelInv, [Next]_vars PROVE CancelInv'
    OBVIOUS
  <2>1. /\ action'.status = "cancelled" => Visible'
        /\ ~ revived' => ~ revived
        /\ ~ revived' /\ action.status = "cancelled" => action'.status = "cancelled"
    BY CancelKept
  <2>2. ASSUME ~ revived', NEW w \in Workers, proc'[w].born = "cancelled"
        PROVE  action'.status = "cancelled" /\ ~ Working(w)'
    <3>1. \/ proc[w].born = "cancelled" /\ (Working(w)' => Working(w) \/ action.status # "cancelled")
          \/ action.status = "cancelled" /\ ~ Working(w)'
      BY <2>2, BornStep
    <3> QED BY <2>1, <2>2, <3>1 DEF CancelInv
  <2> QED BY <2>1, <2>2 DEF CancelInv
<1>3. CancelInv => CancelStopsAtBoundary
  BY DEF CancelInv, CancelStopsAtBoundary
<1> QED BY <1>1, <1>2, <1>3, RowInvariant, PTL DEF Spec

-----------------------------------------------------------------------------
(* Pages and batch sizes.                                                  *)

\* The matching keys after a cursor, and the first occurrences of the ids.
Beyond(t, last) == {e \in selection_clause(t) : e > last}
FirstIds == {i \in 1 .. Len(EntityIds) : \A j \in 1 .. (i - 1) : EntityIds[j] # EntityIds[i]}
Ranked(a, b) == {i \in FirstIds : a <= Rank(FirstIds, i) /\ Rank(FirstIds, i) < b}

LEMMA FirstIdsType ==
    /\ FirstIds \in SUBSET Nat /\ FirstIds \in SUBSET Int /\ IsFiniteSet(FirstIds)
    /\ \A i \in FirstIds : i \in 1 .. Len(EntityIds) /\ EntityIds[i] \in Entities
    /\ \A i \in FirstIds : Rank(FirstIds, i) \in Nat
    /\ \A i, j \in FirstIds : EntityIds[i] = EntityIds[j] => i = j
<1>1. Len(EntityIds) \in Nat /\ DOMAIN EntityIds = 1 .. Len(EntityIds)
  BY EntityIdsAssumption
<1>2. \A i \in FirstIds : i \in 1 .. Len(EntityIds) /\ EntityIds[i] \in Entities
  BY <1>1, EntityIdsAssumption DEF FirstIds
<1>3. IsFiniteSet(FirstIds)
  <2>1. IsFiniteSet(1 .. Len(EntityIds))
    BY <1>1, FS_Interval
  <2>2. FirstIds \subseteq 1 .. Len(EntityIds)
    BY <1>2
  <2> QED BY <2>1, <2>2, FS_Subset
<1>4. \A i \in FirstIds : Rank(FirstIds, i) \in Nat
  BY <1>3, RankType
<1>5. \A i, j \in FirstIds : EntityIds[i] = EntityIds[j] => i = j
  <2> SUFFICES ASSUME NEW i \in FirstIds, NEW j \in FirstIds, EntityIds[i] = EntityIds[j], i < j
               PROVE  FALSE
    BY <1>1, <1>2
  <2>1. i \in 1 .. (j - 1)
    BY <1>1, <1>2
  <2> QED BY <2>1 DEF FirstIds
<1>6. FirstIds \in SUBSET Nat /\ FirstIds \in SUBSET Int
  BY <1>1, <1>2
<1> QED BY <1>2, <1>3, <1>4, <1>5, <1>6

\* A chunk of explicit ids is the ids of a range of ranks.
LEMMA ChunkIsRanked ==
    ASSUME NEW index \in Nat, NEW size \in Nat
    PROVE  id_chunk(index, size) = {EntityIds[i] : i \in Ranked(index * size, (index + 1) * size)}
BY DEF id_chunk, Ranked, FirstIds, Rank

LEMMA ChunkSize ==
    ASSUME NEW index \in Nat, NEW size \in Nat
    PROVE  /\ id_chunk(index, size) \in SUBSET Entities
           /\ Cardinality(id_chunk(index, size)) <= size
<1> DEFINE a == index * size
           R == Ranked(a, (index + 1) * size)
           C == {EntityIds[i] : i \in R}
<1>1. a \in Nat /\ (index + 1) * size = a + size
  OBVIOUS
<1>2. R = {i \in FirstIds : a <= Rank(FirstIds, i) /\ Rank(FirstIds, i) < a + size}
  BY <1>1 DEF Ranked
<1>3. IsFiniteSet(R) /\ Cardinality(R) \in Nat /\ Cardinality(R) <= size
  <2> HIDE DEF R, a
  <2> QED BY <1>1, <1>2, FirstIdsType, RanksInRange
<1>4. \A i \in R : EntityIds[i] \in Entities
  BY FirstIdsType DEF Ranked
<1>5. C \in SUBSET Entities
  BY <1>4
<1>6. IsFiniteSet(C) /\ Cardinality(C) <= Cardinality(R)
  <2> DEFINE f == [i \in R |-> EntityIds[i]]
  <2>1. f \in Surjection(R, C)
    BY DEF Surjection
  <2> HIDE DEF f, R, C
  <2> QED BY <1>3, <2>1, FS_Surjection
<1>7. Cardinality(C) \in Nat
  BY <1>6, FS_CardinalityType
<1>8. id_chunk(index, size) = C
  BY ChunkIsRanked
<1> HIDE DEF C, R, a
<1> QED BY <1>3, <1>5, <1>6, <1>7, <1>8

\* A page of the walk: the first keys after the cursor, at most size of them
\* and all of them when it is short.
LEMMA FilterPageFacts ==
    ASSUME NEW t, NEW last \in Nat, NEW size \in Nat \ {0}
    PROVE  LET page == filter_page(t, last, size)
               all == Beyond(t, last)
           IN  /\ all \in SUBSET Entities /\ page \subseteq all
               /\ Cardinality(page) \in Nat /\ Cardinality(page) <= size
               /\ \A e \in all, m \in page : e <= m => e \in page
               /\ Cardinality(page) < size => page = all
               /\ page = {} => all = {}
<1> DEFINE page == filter_page(t, last, size)
           all == Beyond(t, last)
<1>1. all \in SUBSET Entities /\ all \in SUBSET Nat /\ IsFiniteSet(all)
  <2>1. all \in SUBSET Entities
    BY DEF Beyond, selection_clause
  <2>2. \A e \in Entities : e \in Nat
    BY NAssumption DEF Entities
  <2> QED BY <2>1, <2>2, EntitySets
<1>2. page = FirstOf(all, size)
  <2>1. \A e \in all : {f \in selection_clause(t) : last < f /\ f < e} = {f \in all : f < e}
    BY DEF Beyond
  <2>2. page = {e \in all : Cardinality({f \in selection_clause(t) : last < f /\ f < e}) < size}
    BY DEF filter_page, Beyond
  <2> QED BY <2>1, <2>2 DEF FirstOf, Rank
<1> HIDE DEF page, all
<1>3. /\ \A e \in all, m \in page : e <= m => e \in page
      /\ Cardinality(page) \in Nat /\ Cardinality(page) <= size
      /\ Cardinality(page) < size => page = all
  BY <1>1, <1>2, FirstOfFacts
<1>4. page = {} => all = {}
  <2> SUFFICES ASSUME page = {} PROVE all = {}
    OBVIOUS
  <2>1. Cardinality(page) = 0
    BY FS_EmptySet
  <2> QED BY <1>3, <2>1
<1>5. page \subseteq all
  BY <1>2 DEF FirstOf
<1> QED BY <1>1, <1>3, <1>4, <1>5 DEF page, all

LEMMA PageSize ==
    ASSUME TypeOK, NEW w \in Workers
    PROVE  /\ next_page(proc[w]) \in SUBSET Entities
           /\ Cardinality(next_page(proc[w])) \in Nat
           /\ Cardinality(next_page(proc[w])) <= action.batch_size
<1>1. proc[w].index \in Nat /\ proc[w].last \in Nat /\ action.batch_size \in Nat \ {0}
  BY DEF TypeOK, Process, BulkAction
<1>2. CASE Explicit
  <2>1. next_page(proc[w]) = id_chunk(proc[w].index, action.batch_size)
    BY <1>2 DEF next_page
  <2>2. action.batch_size \in Nat
    BY <1>1
  <2> QED BY <1>1, <2>1, <2>2, ChunkSize, EntitySets
<1>3. CASE ~ Explicit
  <2>1. next_page(proc[w]) = filter_page(table, proc[w].last, action.batch_size)
    BY <1>3 DEF next_page
  <2>2. /\ Beyond(table, proc[w].last) \in SUBSET Entities
        /\ filter_page(table, proc[w].last, action.batch_size) \subseteq Beyond(table, proc[w].last)
        /\ Cardinality(filter_page(table, proc[w].last, action.batch_size)) \in Nat
        /\ Cardinality(filter_page(table, proc[w].last, action.batch_size)) <= action.batch_size
    BY <1>1, FilterPageFacts
  <2> QED BY <2>1, <2>2
<1> QED BY <1>2, <1>3

\* The steps of process_batch, apart from an exception outside its try blocks.
BatchStep(w) ==
    \/ BatchLoad(w) \/ BatchCancel(w) \/ BatchGate(w) \/ BatchDefer(w)
    \/ BatchAttempt(w) \/ BatchCheck(w) \/ BatchRows(w) \/ BatchCommit(w)
    \/ FinalizeSelect(w) \/ FinalizeUpdate(w) \/ BatchError(w) \/ BatchFailed(w)

\* What a step of the system does to one worker.
LEMMA WorkerCases ==
    ASSUME RowInv, [Next]_vars, NEW w \in Workers
    PROVE  \/ proc'[w] = proc[w]
           \/ (Return(w) \/ Raise(w) \/ Crash(w)) /\ proc'[w] = idle
           \/ /\ Dequeue(w) \/ DuplicateDelivery(w)
              /\ \E j \in DOMAIN jobs : Start(w, j) /\ Taken(w, j)
           \/ PlanPage(w) \/ PlanEndOfWalk(w) \/ PlanEnqueue(w)
           \/ PlanLoad(w) /\ Moved(w, {"return", "p_begin"})
           \/ PlanBegin(w) /\ Moved(w, {"p_page"})
           \/ PlanFlush(w) /\ Moved(w, {"p_totals", "p_enqueue"})
           \/ PlanTotals(w) /\ Moved(w, {"return"})
           \/ PlanError(w) /\ Moved(w, {"p_fail"})
           \/ PlanFail(w) /\ Moved(w, {"raise"})
           \/ UncaughtError(w) /\ Moved(w, {"raise"})
           \/ /\ BatchStep(w) /\ proc[w].pc \in BatchPc
              /\ Moved(w, BatchPc \union {"return", "raise"})
<1>t. TypeOK
  BY DEF RowInv
<1>0. CASE Submit \/ CommitSubmission \/ Abandon \/ Outside \/ Rest \/ UNCHANGED vars
  <2>1. UNCHANGED proc
    BY <1>0 DEF Submit, CommitSubmission, Abandon, Outside, Rest, AbortSubmission,
                cancel_bulk_action, update_account, ExpireResult, Leave, Join, vars
  <2> QED BY <2>1
<1>1. ASSUME NEW v \in Workers, v # w, WorkerStep(v) \/ WorkerFault(v) PROVE proc'[w] = proc[w]
  <2>1. ASSUME OthersStay(v) PROVE proc'[w] = proc[w]
    BY <1>1, <2>1 DEF OthersStay
  <2>2. \A S : Moved(v, S) => proc'[w] = proc[w]
    BY <2>1 DEF Moved
  <2>3. CASE Dequeue(v) \/ DuplicateDelivery(v)
    BY <2>1, <2>3, <1>t, QueueMoves DEF Dequeue, DuplicateDelivery, Taken
  <2>4. CASE Return(v) \/ Raise(v) \/ Crash(v)
    BY <2>1, <2>4, <1>t, QueueMoves
  <2>5. CASE PlanPage(v) \/ PlanEndOfWalk(v) \/ PlanEnqueue(v)
    BY <2>1, <2>5, <1>t, WalkMoves
  <2>6. CASE \/ PlanLoad(v) \/ PlanBegin(v) \/ PlanFlush(v) \/ PlanTotals(v) \/ PlanError(v)
             \/ PlanFail(v) \/ UncaughtError(v)
    BY <2>2, <2>6, <1>t, PlanMoves
  <2>7. CASE BatchLoad(v) \/ BatchRows(v) \/ FinalizeSelect(v)
    BY <2>2, <2>7, <1>t, LoadMoves
  <2>8. CASE \/ BatchCancel(v) \/ BatchGate(v) \/ BatchDefer(v) \/ BatchAttempt(v)
             \/ BatchCheck(v) \/ BatchCommit(v) \/ FinalizeUpdate(v) \/ BatchError(v)
             \/ BatchFailed(v)
    BY <2>2, <2>8, <1>t, BatchMoves
  <2> QED BY <1>1, <2>3, <2>4, <2>5, <2>6, <2>7, <2>8 DEF WorkerStep, WorkerFault
<1>2. ASSUME BatchStep(w)
      PROVE  proc[w].pc \in BatchPc /\ Moved(w, BatchPc \union {"return", "raise"})
  <2>1. proc[w].pc \in BatchPc
    BY <1>2 DEF BatchStep, BatchLoad, BatchCancel, BatchGate, BatchDefer, BatchAttempt, BatchCheck,
                BatchRows, BatchCommit, FinalizeSelect, FinalizeUpdate, BatchError, BatchFailed,
                BatchPc
  <2>2. PICK S \in SUBSET (BatchPc \union {"return", "raise"}) : Moved(w, S)
    BY <1>2, <1>t, LoadMoves, BatchMoves DEF BatchStep, BatchPc
  <2> QED BY <2>1, <2>2 DEF Moved
<1>3. ASSUME Dequeue(w) \/ DuplicateDelivery(w)
      PROVE  \E j \in DOMAIN jobs : Start(w, j) /\ Taken(w, j)
  BY <1>3, <1>t, QueueMoves DEF Dequeue, DuplicateDelivery
<1>4. WorkerStep(w) \/ WorkerFault(w) =>
        \/ (Return(w) \/ Raise(w) \/ Crash(w)) /\ proc'[w] = idle
        \/ Dequeue(w) \/ DuplicateDelivery(w)
        \/ PlanPage(w) \/ PlanEndOfWalk(w) \/ PlanEnqueue(w)
        \/ PlanLoad(w) \/ PlanBegin(w) \/ PlanFlush(w) \/ PlanTotals(w)
        \/ PlanError(w) \/ PlanFail(w) \/ UncaughtError(w) \/ BatchStep(w)
  BY <1>t, QueueMoves DEF WorkerStep, WorkerFault, BatchStep
<1>5. CASE WorkerStep(w) \/ WorkerFault(w)
  BY <1>2, <1>3, <1>4, <1>5, <1>t, PlanMoves
<1> QED BY <1>0, <1>1, <1>5 DEF Next

\* Which steps write the size, the totals, the limit and the set of batch rows.
LEMMA PlanFrame ==
    ASSUME RowInv, [Next]_vars
    PROVE  /\ action'.batch_size = action.batch_size \/ Submit
           /\ \/ /\ action'.total_batches = action.total_batches
                 /\ action'.total_entities = action.total_entities
              \/ Submit \/ \E w \in Workers : PlanTotals(w)
           /\ DOMAIN batches' = DOMAIN batches \/ \E w \in Workers : PlanFlush(w)
           /\ limit' = limit \/ update_account
<1>t. TypeOK /\ WorkersHoldRows /\ action \in BulkAction
  BY DEF RowInv, TypeOK
<1> DEFINE Quiet == action'.batch_size = action.batch_size
           Same == /\ action'.total_batches = action.total_batches
                   /\ action'.total_entities = action.total_entities
           Rows == DOMAIN batches' = DOMAIN batches
           Lim == limit' = limit
<1>0. \A st : /\ [action EXCEPT !.status = st].batch_size = action.batch_size
              /\ [action EXCEPT !.status = st].total_batches = action.total_batches
              /\ [action EXCEPT !.status = st].total_entities = action.total_entities
  BY <1>t DEF BulkAction
<1>1. CASE \/ CommitSubmission \/ AbortSubmission \/ ExpireResult \/ Abandon \/ Rest
           \/ UNCHANGED vars \/ \E e \in Entities : Leave(e) \/ Join(e)
  BY <1>1 DEF CommitSubmission, AbortSubmission, ExpireResult, Abandon, Rest, Leave, Join,
              db, env, vars
<1>2. CASE Submit \/ update_account
  BY <1>2 DEF Submit, update_account, db, env
<1>3. CASE cancel_bulk_action
  BY <1>0, <1>3 DEF cancel_bulk_action
<1>4. ASSUME NEW w \in Workers, PlanBegin(w) \/ PlanFail(w) \/ FinalizeUpdate(w)
      PROVE  Quiet /\ Same /\ Rows /\ Lim
  BY <1>0, <1>4 DEF PlanBegin, PlanFail, FinalizeUpdate, begin_planning, fail_action, finalize, env
<1>5. ASSUME NEW w \in Workers, PlanTotals(w) PROVE Quiet /\ Rows /\ Lim
  BY <1>5, <1>t DEF PlanTotals, end_planning, mark_started, BulkAction, env
<1>6. ASSUME NEW w \in Workers, BatchCommit(w) PROVE Quiet /\ Same /\ Rows /\ Lim
  <2>1. PICK r \in [success : Nat, failure : Nat, skipped : Nat], written \in SUBSET Entities :
          CommitEffect(w, r, written)
    BY <1>6, <1>t, CommitShape
  <2>2. Rows /\ Lim
    BY <2>1 DEF CommitEffect
  <2>3. Quiet /\ Same
    BY <2>1, <1>t DEF CommitEffect, record_batch_completion, BulkAction
  <2> QED BY <2>2, <2>3
<1>7. ASSUME NEW w \in Workers, BatchFailed(w) PROVE Quiet /\ Same /\ Rows /\ Lim
  <2>1. Rows /\ Lim
    BY <1>7 DEF BatchFailed, env
  <2>2. Quiet /\ Same
    BY <1>7, <1>t DEF BatchFailed, record_batch_completion, BulkAction
  <2> QED BY <2>1, <2>2
<1>8. ASSUME NEW w \in Workers, PlanFlush(w) \/ BatchCancel(w) \/ BatchAttempt(w)
      PROVE  Quiet /\ Same /\ Lim /\ (Rows \/ PlanFlush(w))
  BY <1>8 DEF PlanFlush, BatchCancel, BatchAttempt, SetBatchStatus, env
<1>9. ASSUME NEW w \in Workers,
             \/ Dequeue(w) \/ Return(w) \/ Raise(w) \/ PlanLoad(w) \/ PlanPage(w)
             \/ PlanEndOfWalk(w) \/ PlanEnqueue(w) \/ BatchLoad(w) \/ BatchGate(w)
             \/ BatchDefer(w) \/ BatchCheck(w) \/ BatchRows(w) \/ FinalizeSelect(w)
             \/ WorkerFault(w)
      PROVE  Quiet /\ Same /\ Rows /\ Lim
  BY <1>9 DEF Dequeue, Return, Raise, PlanLoad, PlanPage, PlanEndOfWalk, PlanEnqueue,
              BatchLoad, BatchGate, BatchDefer, BatchCheck, BatchRows, FinalizeSelect,
              WorkerFault, DuplicateDelivery, Crash, PlanError, BatchError, UncaughtError,
              db, env
<1> HIDE DEF Quiet, Same, Rows, Lim
<1> SUFFICES /\ Quiet \/ Submit
             /\ Same \/ Submit \/ \E w \in Workers : PlanTotals(w)
             /\ Rows \/ \E w \in Workers : PlanFlush(w)
             /\ Lim \/ update_account
  BY DEF Quiet, Same, Rows, Lim
<1>10. ASSUME NEW w \in Workers, WorkerStep(w) \/ WorkerFault(w)
       PROVE  /\ Quiet /\ (Same \/ PlanTotals(w)) /\ (Rows \/ PlanFlush(w)) /\ Lim
  BY <1>4, <1>5, <1>6, <1>7, <1>8, <1>9, <1>10 DEF WorkerStep
<1>11. CASE Submit \/ CommitSubmission \/ Abandon \/ Outside \/ Rest \/ UNCHANGED vars
  BY <1>1, <1>2, <1>3, <1>11 DEF Outside, Quiet, Same, Rows, Lim
<1> QED BY <1>10, <1>11 DEF Next

\* Where the rows that a flush adds come from.
LEMMA InsertRows ==
    ASSUME NEW b, NEW pending \in Seq(PlannedBatch),
           NEW i \in DOMAIN insert_batches(b, pending) \ DOMAIN b
    PROVE  \E k \in DOMAIN pending :
              /\ pending[k].index = i
              /\ insert_batches(b, pending)[i].slice = pending[k].slice
              /\ insert_batches(b, pending)[i].entity_count = pending[k].entity_count
<1> DEFINE k == CHOOSE k \in DOMAIN pending : pending[k].index = i
<1>1. i \in {pending[l].index : l \in DOMAIN pending} /\ insert_batches(b, pending)[i] = new_batch(pending[k])
  BY DEF insert_batches
<1>2. k \in DOMAIN pending /\ pending[k].index = i
  BY <1>1
<1> HIDE DEF k
<1> QED BY <1>1, <1>2 DEF new_batch

\* While the limit is not patched, nothing planned is larger than it.
SizeInv ==
    /\ limit = InitLimit /\ action.batch_size <= InitLimit
    /\ \A i \in DOMAIN batches : batches[i].entity_count <= InitLimit
    /\ \A w \in Workers : \A k \in DOMAIN proc[w].pending :
          proc[w].pending[k].entity_count <= InitLimit
    /\ BatchFitsLimit

\* effective_batch_size never exceeds the limit.
LEMMA EffectiveSize ==
    ASSUME NEW l \in Nat \ {0}
    PROVE  effective_batch_size(RequestedSize, DefaultSize, MaxSize, l) <= l
BY SizeAssumption DEF effective_batch_size

\* A row a walk adds or takes off its pending rows.
LEMMA PendingStep ==
    ASSUME RowInv, [Next]_vars, NEW w \in Workers, NEW k \in DOMAIN proc'[w].pending
    PROVE  \/ \E l \in DOMAIN proc[w].pending : proc'[w].pending[k] = proc[w].pending[l]
           \/ /\ PlanPage(w)
              /\ proc'[w].pending[k] = page_row(proc[w], next_page(proc[w]))
<1>t. TypeOK /\ proc[w] \in Process /\ proc[w].pending \in Seq(PlannedBatch)
  BY DEF RowInv, TypeOK, Process
<1>1. CASE proc'[w].pending = proc[w].pending
  BY <1>1
<1>2. CASE PlanPage(w)
  <2>1. proc'[w].pending = Append(proc[w].pending, page_row(proc[w], next_page(proc[w])))
    BY <1>2, <1>t, WalkMoves
  <2> HIDE DEF page_row
  <2>2. CASE k = Len(proc[w].pending) + 1
    BY <1>2, <1>t, <2>1, <2>2
  <2>3. CASE k # Len(proc[w].pending) + 1
    <3>1. k \in DOMAIN proc[w].pending
      BY <1>t, <2>1, <2>3
    <3> QED BY <1>t, <2>1, <3>1
  <2> QED BY <2>2, <2>3
<1>3. CASE PlanEnqueue(w)
  <2>1. proc'[w].pending = Tail(proc[w].pending) /\ proc[w].pending # <<>>
    BY <1>3, <1>t, WalkMoves DEF PlanEnqueue, RowInv, WorkersHoldRows
  <2>2. k + 1 \in DOMAIN proc[w].pending /\ Tail(proc[w].pending)[k] = proc[w].pending[k + 1]
    BY <1>t, <2>1
  <2> QED BY <2>1, <2>2
<1>4. CASE proc'[w] = idle \/ \E j : Taken(w, j)
  <2>1. idle.pending = <<>>
    BY DEF idle
  <2>2. proc'[w].pending = <<>>
    BY <1>4, <2>1 DEF Taken, SamePlan
  <2> QED BY <2>2
<1>5. CASE PlanEndOfWalk(w)
  BY <1>1, <1>5, <1>t, WalkMoves
<1>6. CASE \E S : Moved(w, S)
  BY <1>1, <1>6 DEF Moved, SamePlan
<1>7. CASE proc'[w] = proc[w]
  BY <1>1, <1>7
<1> QED BY <1>2, <1>3, <1>4, <1>5, <1>6, <1>7, WorkerCases

LEMMA SizeStep ==
    ASSUME "patch" \notin Faults, RowInv, SizeInv, [Next]_vars
    PROVE  SizeInv'
<1>t. /\ TypeOK /\ WorkersHoldRows /\ action \in BulkAction /\ BatchesOK(batches)
      /\ TypeOK' /\ BatchesOK(batches') /\ InitLimit \in Nat \ {0}
  BY NextRowInv, LimitAssumption DEF RowInv, TypeOK, BatchesOK
<1>1. limit' = limit
  BY PlanFrame DEF update_account, Spend
<1>2. action'.batch_size <= InitLimit
  <2>1. CASE Submit
    <3>1. \E st : action' = new_action(st, effective_batch_size(RequestedSize, DefaultSize,
                                              MaxSize, limit))
      BY <2>1 DEF Submit
    <3>2. action'.batch_size = effective_batch_size(RequestedSize, DefaultSize, MaxSize, limit)
      BY <3>1 DEF new_action
    <3> QED BY <1>t, <3>2, EffectiveSize DEF SizeInv
  <2> QED BY <2>1, PlanFrame DEF SizeInv
<1>3. ASSUME NEW i \in DOMAIN batches' PROVE batches'[i].entity_count <= InitLimit
  <2>1. CASE i \in DOMAIN batches
    BY <2>1, FrozenStep DEF Frozen, SizeInv
  <2>2. CASE i \notin DOMAIN batches
    <3>1. PICK w \in Workers : PlanFlush(w)
      BY <1>3, <2>2, PlanFrame
    <3>2. proc[w].pending \in Seq(PlannedBatch) /\ batches' = insert_batches(batches, proc[w].pending)
      BY <1>t, <3>1 DEF TypeOK, Process, PlanFlush
    <3>3. \E k \in DOMAIN proc[w].pending : batches'[i].entity_count = proc[w].pending[k].entity_count
      BY <1>3, <2>2, <3>2, InsertRows
    <3> QED BY <3>3 DEF SizeInv
  <2> QED BY <2>1, <2>2
<1>4. ASSUME NEW w \in Workers, NEW k \in DOMAIN proc'[w].pending
      PROVE  proc'[w].pending[k].entity_count <= InitLimit
  <2>1. CASE \E l \in DOMAIN proc[w].pending : proc'[w].pending[k] = proc[w].pending[l]
    BY <2>1 DEF SizeInv
  <2>2. CASE proc'[w].pending[k] = page_row(proc[w], next_page(proc[w]))
    <3>1. proc'[w].pending[k].entity_count = Cardinality(next_page(proc[w]))
      BY <2>2 DEF page_row
    <3>2. /\ Cardinality(next_page(proc[w])) \in Nat
          /\ Cardinality(next_page(proc[w])) <= action.batch_size
          /\ action.batch_size \in Nat /\ action.batch_size <= InitLimit
      BY <1>t, PageSize DEF BulkAction, SizeInv
    <3> QED BY <1>t, <3>1, <3>2
  <2> QED BY <2>1, <2>2, PendingStep
<1>5. ASSUME NEW w \in Workers, proc'[w].pc = "b_gate" PROVE proc'[w].entity_count <= proc'[w].limit
  <2>1. CASE proc'[w] = proc[w]
    BY <1>5, <2>1 DEF SizeInv, BatchFitsLimit
  <2>2. CASE BatchLoad(w)
    <3>1. /\ proc'[w].entity_count = batches[Index(w)].entity_count
          /\ proc'[w].limit = limit /\ Index(w) \in DOMAIN batches
      BY <1>5, <1>t, <2>2, LoadMoves DEF BatchLoad, WorkersHoldRows, BatchPc
    <3> QED BY <3>1 DEF SizeInv
  <2>3. proc'[w] = proc[w] \/ BatchLoad(w)
    <3>1. BatchStep(w) => BatchLoad(w)
      <4>1. \A S : Moved(w, S) => "b_gate" \in S
        BY <1>5 DEF Moved
      <4> QED BY <1>t, <4>1, LoadMoves, BatchMoves DEF BatchStep
    <3>2. \A S : Moved(w, S) => "b_gate" \in S
      BY <1>5 DEF Moved
    <3>3. proc'[w] # idle /\ (\A j : ~ Taken(w, j))
      BY <1>5 DEF idle, Taken
    <3>4. ~ (PlanPage(w) \/ PlanEndOfWalk(w) \/ PlanEnqueue(w))
      BY <1>5, <1>t, WalkMoves
    <3> QED BY <3>1, <3>2, <3>3, <3>4, WorkerCases
  <2> QED BY <2>1, <2>2, <2>3
<1> QED BY <1>1, <1>2, <1>3, <1>4, <1>5 DEF SizeInv, BatchFitsLimit

\* A batch always fits the limit it was planned under: unless the account's
\* limit is patched meanwhile, no batch is refused for its size for ever
\* (effective_batch_size, filter_page, id_chunk and the gate of process_batch).
THEOREM BatchesFit == ASSUME "patch" \notin Faults PROVE Spec => []BatchFitsLimit
<1>1. Init => SizeInv
  BY LimitAssumption DEF Init, new_action, SizeInv, BatchFitsLimit, idle
<1>2. RowInv /\ SizeInv /\ [Next]_vars => SizeInv'
  BY SizeStep
<1>3. SizeInv => BatchFitsLimit
  BY DEF SizeInv
<1> QED BY <1>1, <1>2, <1>3, RowInvariant, PTL DEF Spec

-----------------------------------------------------------------------------
(* Deliveries.                                                             *)

\* Known jobs are left as they are.
Steady == \A j \in DOMAIN jobs : j \in DOMAIN jobs' /\ jobs'[j] = jobs[j]

\* A worker goes on with the job it has.
OnJob(w) ==
    /\ proc[w].pc # "idle" /\ proc'[w].pc # "idle"
    /\ SameJob(proc[w], proc'[w]) /\ OthersStay(w) /\ Steady

LEMMA EnqueueSteady ==
    ASSUME NEW j, jobs' = enqueue_job(jobs, j)
    PROVE  Steady /\ DOMAIN jobs' = DOMAIN jobs \union {j}
BY DEF enqueue_job, Steady

\* What a step of the system does to the queue.
LEMMA StepShape ==
    ASSUME RowInv, [Next]_vars
    PROVE  \/ proc' = proc /\ Steady
           \/ Abandon \/ ExpireResult
           \/ \E w \in Workers : OnJob(w)
           \/ \E w \in Workers, j \in DOMAIN jobs :
                 Dequeue(w) /\ jobs[j].st = "queued" /\ Start(w, j) /\ Taken(w, j)
           \/ \E w \in Workers : DuplicateDelivery(w) \/ Crash(w)
           \/ \E w \in Workers : (Return(w) \/ Raise(w)) /\ proc'[w] = idle /\ OthersStay(w)
<1>t. TypeOK
  BY DEF RowInv
<1>1. CASE Submit
  BY <1>1, EnqueueSteady DEF Submit
<1>2. CASE \/ CommitSubmission \/ AbortSubmission \/ cancel_bulk_action \/ update_account
           \/ Rest \/ UNCHANGED vars \/ \E e \in Entities : Leave(e) \/ Join(e)
  <2>1. jobs' = jobs /\ proc' = proc
    BY <1>2 DEF CommitSubmission, AbortSubmission, cancel_bulk_action, update_account, Rest, vars,
                Leave, Join
  <2> QED BY <2>1 DEF Steady
<1>3. ASSUME NEW w \in Workers, NEW S, Moved(w, S), "idle" \notin S, Steady, proc[w].pc # "idle"
      PROVE  OnJob(w)
  BY <1>3 DEF Moved, OnJob
<1>4. ASSUME NEW w \in Workers,
             \/ PlanLoad(w) \/ PlanBegin(w) \/ PlanFlush(w) \/ PlanTotals(w) \/ PlanError(w)
             \/ PlanFail(w) \/ UncaughtError(w)
      PROVE  OnJob(w)
  <2>1. jobs' = jobs /\ proc[w].pc # "idle"
    BY <1>4 DEF PlanLoad, PlanBegin, PlanFlush, PlanTotals, PlanError, PlanFail, UncaughtError,
                PlanPc, BatchPc
  <2>2. \E S : Moved(w, S) /\ "idle" \notin S
    BY <1>4, <1>t, PlanMoves
  <2> QED BY <1>3, <2>1, <2>2 DEF Steady
<1>5. ASSUME NEW w \in Workers, BatchStep(w) PROVE OnJob(w)
  <2>1. Steady
    <3>1. CASE BatchDefer(w)
      BY <3>1, EnqueueSteady DEF BatchDefer
    <3>2. CASE ~ BatchDefer(w)
      <4>1. jobs' = jobs
        BY <1>5, <3>2 DEF BatchStep, BatchLoad, BatchCancel, BatchGate, BatchAttempt, BatchCheck,
                BatchRows, BatchCommit, FinalizeSelect, FinalizeUpdate, BatchError, BatchFailed
      <4> QED BY <4>1 DEF Steady
    <3> QED BY <3>1, <3>2
  <2>2. proc[w].pc # "idle"
    BY <1>5 DEF BatchStep, BatchLoad, BatchCancel, BatchGate, BatchDefer, BatchAttempt, BatchCheck,
                BatchRows, BatchCommit, FinalizeSelect, FinalizeUpdate, BatchError, BatchFailed
  <2>3. \E S : Moved(w, S) /\ "idle" \notin S
    BY <1>5, <1>t, LoadMoves, BatchMoves DEF BatchStep
  <2> QED BY <1>3, <2>1, <2>2, <2>3
<1>6. ASSUME NEW w \in Workers, PlanPage(w) \/ PlanEndOfWalk(w) \/ PlanEnqueue(w) PROVE OnJob(w)
  <2>1. Steady
    BY <1>6, EnqueueSteady DEF PlanPage, PlanEndOfWalk, PlanEnqueue, Steady
  <2>2. /\ proc[w].pc # "idle" /\ proc'[w].pc # "idle"
        /\ SameJob(proc[w], proc'[w]) /\ OthersStay(w)
    BY <1>6, <1>t, WalkMoves
  <2> QED BY <2>1, <2>2 DEF OnJob
<1>7. ASSUME NEW w \in Workers, Dequeue(w)
      PROVE  \E j \in DOMAIN jobs : jobs[j].st = "queued" /\ Start(w, j) /\ Taken(w, j)
  BY <1>7, <1>t, QueueMoves DEF Dequeue
<1>8. ASSUME NEW w \in Workers, Return(w) \/ Raise(w) PROVE proc'[w] = idle /\ OthersStay(w)
  BY <1>8, <1>t, QueueMoves
<1>9. ASSUME NEW w \in Workers, WorkerStep(w) \/ WorkerFault(w)
      PROVE  \/ OnJob(w) \/ Dequeue(w) \/ Return(w) \/ Raise(w)
             \/ DuplicateDelivery(w) \/ Crash(w)
  BY <1>4, <1>5, <1>6, <1>9 DEF WorkerStep, WorkerFault, BatchStep
<1> QED BY <1>1, <1>2, <1>7, <1>8, <1>9 DEF Next, Outside

\* Which job ids a step adds to the queue.
LEMMA NewJobs ==
    ASSUME RowInv, [Next]_vars
    PROVE  \/ DOMAIN jobs' \subseteq DOMAIN jobs
           \/ Submit /\ DOMAIN jobs' = DOMAIN jobs \union {PlanJob}
           \/ \E w \in Workers :
                 /\ PlanEnqueue(w)
                 /\ DOMAIN jobs' = DOMAIN jobs \union {BatchJob(Head(proc[w].pending).index, 0)}
           \/ \E w \in Workers :
                 /\ BatchDefer(w)
                 /\ DOMAIN jobs' = DOMAIN jobs \union {BatchJob(Index(w), proc[w].job.d + 1)}
<1>1. ASSUME Submit PROVE DOMAIN jobs' = DOMAIN jobs \union {PlanJob}
  BY <1>1, EnqueueSteady DEF Submit
<1>2. ASSUME NEW w \in Workers, PlanEnqueue(w)
      PROVE  DOMAIN jobs' = DOMAIN jobs \union {BatchJob(Head(proc[w].pending).index, 0)}
  BY <1>2, EnqueueSteady DEF PlanEnqueue
<1>3. ASSUME NEW w \in Workers, BatchDefer(w)
      PROVE  DOMAIN jobs' = DOMAIN jobs \union {BatchJob(Index(w), proc[w].job.d + 1)}
  BY <1>3, EnqueueSteady DEF BatchDefer
<1>4. \/ DOMAIN jobs' \subseteq DOMAIN jobs \/ Submit
      \/ \E w \in Workers : PlanEnqueue(w) \/ BatchDefer(w)
  <2>1. CASE Abandon \/ ExpireResult
    BY <2>1 DEF Abandon, ExpireResult, finish, expire
  <2>2. CASE \/ CommitSubmission \/ AbortSubmission \/ cancel_bulk_action \/ update_account
             \/ Rest \/ UNCHANGED vars \/ \E e \in Entities : Leave(e) \/ Join(e)
    BY <2>2 DEF CommitSubmission, AbortSubmission, cancel_bulk_action, update_account, Rest,
                vars, Leave, Join
  <2>3. ASSUME NEW w \in Workers,
               Dequeue(w) \/ DuplicateDelivery(w) \/ Return(w) \/ Raise(w) \/ Crash(w)
        PROVE  DOMAIN jobs' \subseteq DOMAIN jobs
    BY <2>3 DEF Dequeue, DuplicateDelivery, Start, Return, Raise, Crash, deliver, finish,
                redeliver
  <2>4. ASSUME NEW w \in Workers,
               \/ PlanLoad(w) \/ PlanBegin(w) \/ PlanPage(w) \/ PlanEndOfWalk(w)
               \/ PlanFlush(w) \/ PlanTotals(w) \/ PlanFail(w) \/ PlanError(w)
               \/ BatchLoad(w) \/ BatchCancel(w) \/ BatchGate(w) \/ BatchAttempt(w)
               \/ BatchCheck(w) \/ BatchRows(w) \/ BatchCommit(w) \/ BatchError(w)
               \/ FinalizeSelect(w) \/ FinalizeUpdate(w) \/ BatchFailed(w)
               \/ UncaughtError(w)
        PROVE  jobs' = jobs
    BY <2>4 DEF PlanLoad, PlanBegin, PlanPage, PlanEndOfWalk, PlanFlush, PlanTotals,
                PlanFail, PlanError, BatchLoad, BatchCancel, BatchGate, BatchAttempt,
                BatchCheck, BatchRows, BatchCommit, BatchError, FinalizeSelect,
                FinalizeUpdate, BatchFailed, UncaughtError
  <2> QED BY <2>1, <2>2, <2>3, <2>4 DEF Next, Outside, WorkerStep, WorkerFault
<1> QED BY <1>1, <1>2, <1>3, <1>4

\* A job is run under its kind; a planner starts with an empty record and
\* numbers its batches from 0.
KindInv ==
    /\ \A j \in DOMAIN jobs : j.kind = "plan" => j = PlanJob
    /\ \A w \in Workers :
          /\ proc[w].pc \in PlanPc => proc[w].job = PlanJob
          /\ proc[w].pc \in BatchPc => proc[w].job.kind = "batch"
          /\ proc[w].pc \in {"p_load", "p_begin"} => SamePlan(idle, proc[w])
          /\ proc[w].pc \in PlanPc => proc[w].total_batches = proc[w].index

LEMMA KindStep == ASSUME RowInv, KindInv, [Next]_vars PROVE KindInv'
<1>t. TypeOK /\ WorkersHoldRows
  BY DEF RowInv
<1>1. ASSUME NEW j \in DOMAIN jobs', j.kind = "plan" PROVE j = PlanJob
  <2>1. \A i, d : BatchJob(i, d).kind = "batch"
    BY DEF BatchJob
  <2>2. CASE j \in DOMAIN jobs
    BY <1>1, <2>2 DEF KindInv
  <2>3. j \in DOMAIN jobs \/ j = PlanJob \/ \E i, d : j = BatchJob(i, d)
    BY <1>1, NewJobs
  <2> QED BY <1>1, <2>1, <2>2, <2>3
<1>2. ASSUME NEW w \in Workers
      PROVE  /\ proc'[w].pc \in PlanPc => proc'[w].job = PlanJob
             /\ proc'[w].pc \in BatchPc => proc'[w].job.kind = "batch"
             /\ proc'[w].pc \in {"p_load", "p_begin"} => SamePlan(idle, proc'[w])
             /\ proc'[w].pc \in PlanPc => proc'[w].total_batches = proc'[w].index
  <2> DEFINE Goal == /\ proc'[w].pc \in PlanPc => proc'[w].job = PlanJob
                     /\ proc'[w].pc \in BatchPc => proc'[w].job.kind = "batch"
                     /\ proc'[w].pc \in {"p_load", "p_begin"} => SamePlan(idle, proc'[w])
                     /\ proc'[w].pc \in PlanPc => proc'[w].total_batches = proc'[w].index
  <2>0. CASE proc'[w] = proc[w]
    BY <2>0 DEF KindInv
  <2>1. CASE proc'[w] = idle
    BY <2>1 DEF idle, PlanPc, BatchPc
  <2>2. ASSUME NEW j \in DOMAIN jobs, Taken(w, j) PROVE Goal
    <3>1. /\ j.kind \in {"plan", "batch"} /\ proc'[w].job = j
          /\ proc'[w].pc = (IF j.kind = "plan" THEN "p_load" ELSE "b_load")
          /\ SamePlan(idle, proc'[w])
      BY <2>2, <1>t DEF TypeOK, JobId, Taken
    <3>2. proc'[w].total_batches = 0 /\ proc'[w].index = 0
      BY <3>1 DEF SamePlan, idle
    <3> QED BY <3>1, <3>2 DEF KindInv, PlanPc, BatchPc
  <2>3. CASE PlanPage(w)
    <3>1. /\ proc[w].pc = "p_page" /\ proc'[w].job = proc[w].job
          /\ proc'[w].pc \in {"p_page", "p_flush"}
          /\ proc'[w].index = proc[w].index + 1
          /\ proc'[w].total_batches = proc[w].total_batches + 1
      BY <2>3, <1>t, WalkMoves DEF SameJob
    <3> QED BY <3>1 DEF KindInv, PlanPc, BatchPc
  <2>4. CASE PlanEndOfWalk(w) \/ PlanEnqueue(w)
    <3>1. /\ proc[w].pc \in {"p_page", "p_enqueue"} /\ proc'[w].job = proc[w].job
          /\ proc'[w].pc \in {"p_flush", "p_enqueue", "p_page", "p_totals"}
          /\ proc'[w].index = proc[w].index
          /\ proc'[w].total_batches = proc[w].total_batches
      BY <2>4, <1>t, WalkMoves DEF SameJob
    <3> QED BY <3>1 DEF KindInv, PlanPc, BatchPc
  <2>5. CASE PlanLoad(w) /\ Moved(w, {"return", "p_begin"})
    BY <2>5 DEF PlanLoad, Moved, SameJob, SamePlan, KindInv, PlanPc, BatchPc
  <2>6. CASE \/ PlanBegin(w) /\ Moved(w, {"p_page"})
             \/ PlanFlush(w) /\ Moved(w, {"p_totals", "p_enqueue"})
             \/ PlanTotals(w) /\ Moved(w, {"return"})
             \/ PlanError(w) /\ Moved(w, {"p_fail"})
             \/ PlanFail(w) /\ Moved(w, {"raise"})
             \/ UncaughtError(w) /\ Moved(w, {"raise"})
    BY <2>6 DEF PlanBegin, PlanFlush, PlanTotals, PlanError, PlanFail, UncaughtError,
                Moved, SameJob, SamePlan, KindInv, PlanPc, BatchPc
  <2>7. CASE proc[w].pc \in BatchPc /\ Moved(w, BatchPc \union {"return", "raise"})
    BY <2>7 DEF Moved, SameJob, KindInv, PlanPc, BatchPc
  <2> HIDE DEF Goal
  <2>8. Goal
    BY <2>0, <2>1, <2>2, <2>3, <2>4, <2>5, <2>6, <2>7, WorkerCases DEF Goal
  <2> QED BY <2>8 DEF Goal
<1> QED BY <1>1, <1>2 DEF KindInv

LEMMA KindInvariant == Spec => []KindInv
<1>1. Init => KindInv
  BY DEF Init, KindInv, idle, PlanPc, BatchPc
<1>2. RowInv /\ KindInv /\ [Next]_vars => KindInv'
  BY KindStep
<1> QED BY <1>1, <1>2, RowInvariant, PTL DEF Spec

-----------------------------------------------------------------------------
(* The partition of the target set: explicit ids.                          *)

LEMMA ChunksDisjoint ==
    ASSUME NEW i \in Nat, NEW j \in Nat, i # j, NEW size \in Nat
    PROVE  id_chunk(i, size) \intersect id_chunk(j, size) = {}
<1>1. ASSUME NEW a \in Nat, NEW b \in Nat, a < b,
             NEW r \in Nat, r < (a + 1) * size, b * size <= r
      PROVE  FALSE
  <2>1. PICK d \in Nat : b = (a + 1) + d
    <3>1. b - (a + 1) \in Nat /\ b = (a + 1) + (b - (a + 1))
      BY <1>1
    <3> QED BY <3>1
  <2>2. b * size = (a + 1) * size + d * size /\ d * size \in Nat /\ (a + 1) * size \in Nat
    BY <2>1
  <2> QED BY <1>1, <2>2
<1> SUFFICES ASSUME NEW e, e \in id_chunk(i, size), e \in id_chunk(j, size) PROVE FALSE
  OBVIOUS
<1>2. PICK x \in Ranked(i * size, (i + 1) * size) : e = EntityIds[x]
  BY ChunkIsRanked
<1>3. PICK y \in Ranked(j * size, (j + 1) * size) : e = EntityIds[y]
  BY ChunkIsRanked
<1>4. x = y /\ Rank(FirstIds, x) \in Nat
  BY <1>2, <1>3, FirstIdsType DEF Ranked
<1>5. /\ i * size <= Rank(FirstIds, x) /\ Rank(FirstIds, x) < (i + 1) * size
      /\ j * size <= Rank(FirstIds, x) /\ Rank(FirstIds, x) < (j + 1) * size
  BY <1>2, <1>3, <1>4 DEF Ranked
<1>6. i < j \/ j < i
  OBVIOUS
<1> QED BY <1>1, <1>4, <1>5, <1>6

\* Whoever plans an action with explicit ids, and however often, batch i is
\* chunk i.
ChunkInv ==
    /\ \A i \in DOMAIN batches : batches[i].slice = id_chunk(i, action.batch_size)
    /\ \A w \in Workers : \A k \in DOMAIN proc[w].pending :
          proc[w].pending[k].slice = id_chunk(proc[w].pending[k].index, action.batch_size)
    /\ ~ Visible => \A w \in Workers : DOMAIN proc[w].pending = {}

LEMMA ChunkStep ==
    ASSUME Explicit, RowInv, ReportInv, ChunkInv, [Next]_vars
    PROVE  ChunkInv'
<1>t. TypeOK /\ WorkersHoldRows
  BY DEF RowInv
<1>1. ASSUME ~ Visible' PROVE \A w \in Workers : DOMAIN proc'[w].pending = {}
  <2> SUFFICES ASSUME NEW w \in Workers, NEW k \in DOMAIN proc'[w].pending PROVE FALSE
    OBVIOUS
  <2>1. ~ Visible
    BY <1>1, <1>t, RowsStay DEF vars, Visible
  <2>2. ~ PlanPage(w)
    BY <2>1, <1>t DEF PlanPage, WorkersHoldRows, PlanPc
  <2> QED BY <2>1, <2>2, PendingStep DEF ChunkInv
<1>2. CASE Submit
  <2>1. ~ Visible /\ ~ Visible' /\ batches' = batches
    BY <1>2 DEF Submit, Visible
  <2> QED BY <1>1, <2>1 DEF ChunkInv, ReportInv
<1>3. CASE ~ Submit
  <2>1. action'.batch_size = action.batch_size
    BY <1>3, PlanFrame
  <2>2. ASSUME NEW i \in DOMAIN batches' PROVE batches'[i].slice = id_chunk(i, action.batch_size)
    <3>1. CASE i \in DOMAIN batches
      BY <3>1, FrozenStep DEF Frozen, ChunkInv
    <3>2. CASE i \notin DOMAIN batches
      <4>1. PICK w \in Workers : PlanFlush(w)
        BY <2>2, <3>2, PlanFrame
      <4>2. proc[w].pending \in Seq(PlannedBatch) /\ batches' = insert_batches(batches, proc[w].pending)
        BY <1>t, <4>1 DEF TypeOK, Process, PlanFlush
      <4>3. \E k \in DOMAIN proc[w].pending :
               proc[w].pending[k].index = i /\ batches'[i].slice = proc[w].pending[k].slice
        BY <2>2, <3>2, <4>2, InsertRows
      <4> QED BY <4>3 DEF ChunkInv
    <3> QED BY <3>1, <3>2
  <2>3. ASSUME NEW w \in Workers, NEW k \in DOMAIN proc'[w].pending
        PROVE  proc'[w].pending[k].slice = id_chunk(proc'[w].pending[k].index, action.batch_size)
    <3>1. CASE proc'[w].pending[k] = page_row(proc[w], next_page(proc[w]))
      BY <3>1 DEF page_row, next_page
    <3>2. CASE \E l \in DOMAIN proc[w].pending : proc'[w].pending[k] = proc[w].pending[l]
      BY <3>2 DEF ChunkInv
    <3> QED BY <3>1, <3>2, PendingStep
  <2> QED BY <1>1, <2>1, <2>2, <2>3 DEF ChunkInv
<1> QED BY <1>2, <1>3

LEMMA ChunkInvariant == ASSUME Explicit PROVE Spec => []ChunkInv
<1>1. Init => ChunkInv
  BY DEF Init, ChunkInv, idle
<1>2. RowInv /\ ReportInv /\ ChunkInv /\ [Next]_vars => ChunkInv'
  BY ChunkStep
<1> QED BY <1>1, <1>2, RowInvariant, ReportInvariant, PTL DEF Spec

LEMMA ChunksAreDisjoint == ASSUME RowInv, ChunkInv PROVE DisjointSlices
<1>1. \A i \in DOMAIN batches : i \in Nat
  BY DEF RowInv, TypeOK
<1>2. action.batch_size \in Nat
  BY DEF RowInv, TypeOK, BulkAction
<1> QED BY <1>1, <1>2, ChunksDisjoint DEF ChunkInv, DisjointSlices

-----------------------------------------------------------------------------
(* One delivery at a time.                                                 *)

\* No fault makes the queue deliver a job twice.
OneDelivery == Faults \intersect {"crash", "duplicate"} = {}

\* A job that is being worked on is marked so, and one worker has it.
DeliveryInv ==
    /\ \A w \in Workers : proc[w].pc # "idle" =>
          proc[w].job \in DOMAIN jobs /\ jobs[proc[w].job].st = "running"
    /\ \A v, w \in Workers :
          proc[v].pc # "idle" /\ proc[w].pc # "idle" /\ proc[v].job = proc[w].job => v = w

\* The queue's writes leave the other jobs alone.
LEMMA QueueTouches ==
    ASSUME NEW j \in DOMAIN jobs,
           \/ jobs' = deliver(jobs, j) \/ jobs' = finish(jobs, j) \/ jobs' = redeliver(jobs, j)
    PROVE  DOMAIN jobs' = DOMAIN jobs /\ \A k \in DOMAIN jobs \ {j} : jobs'[k] = jobs[k]
BY DEF deliver, finish, redeliver

LEMMA DeliveryStep ==
    ASSUME OneDelivery, RowInv, DeliveryInv, [Next]_vars
    PROVE  DeliveryInv'
<1>t. TypeOK /\ jobs \in [DOMAIN jobs -> JobState]
  BY DEF RowInv, TypeOK
<1>0. \A w \in Workers : ~ DuplicateDelivery(w) /\ ~ Crash(w)
  BY DEF OneDelivery, DuplicateDelivery, Crash, Spend
<1>1. CASE proc' = proc /\ Steady
  BY <1>1 DEF DeliveryInv, Steady
<1>e. CASE ExpireResult
  BY <1>e DEF ExpireResult, expire, DeliveryInv
<1>2. CASE Abandon
  <2>1. PICK j \in DOMAIN jobs : jobs[j].st = "queued" /\ jobs' = finish(jobs, j)
    BY <1>2 DEF Abandon
  <2>2. proc' = proc
    BY <1>2 DEF Abandon
  <2>3. \A w \in Workers : proc[w].pc # "idle" => proc[w].job \in DOMAIN jobs \ {j}
    BY <2>1 DEF DeliveryInv
  <2>4. DOMAIN jobs' = DOMAIN jobs /\ \A k \in DOMAIN jobs \ {j} : jobs'[k] = jobs[k]
    BY <2>1, QueueTouches
  <2> QED BY <2>2, <2>3, <2>4 DEF DeliveryInv
<1>3. ASSUME NEW w \in Workers, OnJob(w) PROVE DeliveryInv'
  <2>1. \A v \in Workers : (proc'[v].pc # "idle" <=> proc[v].pc # "idle") /\ proc'[v].job = proc[v].job
    BY <1>3 DEF OnJob, OthersStay, SameJob
  <2> QED BY <1>3, <2>1 DEF DeliveryInv, OnJob, Steady
<1>4. ASSUME NEW w \in Workers, NEW j \in DOMAIN jobs, jobs[j].st = "queued", Start(w, j), Taken(w, j)
      PROVE  DeliveryInv'
  <2>1. \A v \in Workers : proc[v].pc # "idle" => proc[v].job \in DOMAIN jobs \ {j}
    BY <1>4 DEF DeliveryInv
  <2>2. DOMAIN jobs' = DOMAIN jobs /\ \A k \in DOMAIN jobs \ {j} : jobs'[k] = jobs[k]
    BY <1>4, QueueTouches DEF Start
  <2>3. jobs'[j].st = "running"
    BY <1>4, <1>t DEF Start, deliver
  <2>4. proc'[w].job = j /\ \A v \in Workers \ {w} : proc'[v] = proc[v]
    BY <1>4 DEF Taken, OthersStay
  <2>5. ASSUME NEW v \in Workers, proc'[v].pc # "idle"
        PROVE  proc'[v].job \in DOMAIN jobs' /\ jobs'[proc'[v].job].st = "running"
    BY <2>1, <2>2, <2>3, <2>4, <2>5 DEF DeliveryInv
  <2>6. ASSUME NEW v \in Workers, NEW u \in Workers, proc'[v].pc # "idle", proc'[u].pc # "idle",
               proc'[v].job = proc'[u].job
        PROVE  u = v
    BY <2>1, <2>4, <2>6 DEF DeliveryInv
  <2> QED BY <2>5, <2>6 DEF DeliveryInv
<1>5. ASSUME NEW w \in Workers, Return(w) \/ Raise(w), proc'[w] = idle, OthersStay(w)
      PROVE  DeliveryInv'
  <2>1. proc[w].pc # "idle" /\ proc'[w].pc = "idle"
    BY <1>5 DEF Return, Raise, idle
  <2>2. /\ DOMAIN jobs' = DOMAIN jobs
        /\ \A k \in DOMAIN jobs \ {proc[w].job} : jobs'[k] = jobs[k]
    BY <1>5, <2>1, QueueTouches DEF Return, Raise, DeliveryInv
  <2>3. \A v \in Workers : proc'[v].pc # "idle" =>
           proc'[v] = proc[v] /\ proc[v].job \in DOMAIN jobs \ {proc[w].job}
    BY <1>5, <2>1 DEF OthersStay, DeliveryInv
  <2> QED BY <2>2, <2>3 DEF DeliveryInv
<1> QED BY <1>0, <1>1, <1>e, <1>2, <1>3, <1>4, <1>5, StepShape

LEMMA DeliveryInvariant == ASSUME OneDelivery PROVE Spec => []DeliveryInv
<1>1. Init => DeliveryInv
  BY DEF Init, DeliveryInv, idle
<1>2. RowInv /\ DeliveryInv /\ [Next]_vars => DeliveryInv'
  BY DeliveryStep
<1> QED BY <1>1, <1>2, RowInvariant, PTL DEF Spec

\* A known job is queued again only when the worker that has it dies.
LEMMA QueuedStep ==
    ASSUME RowInv, [Next]_vars, NEW j \in DOMAIN jobs, j \in DOMAIN jobs', jobs'[j].st = "queued"
    PROVE  jobs'[j] = jobs[j] \/ \E w \in Workers : Crash(w) /\ proc[w].job = j
<1>t. TypeOK /\ jobs \in [DOMAIN jobs -> JobState]
  BY DEF RowInv, TypeOK
<1>1. CASE Steady
  BY <1>1 DEF Steady
<1>2. ASSUME NEW k \in DOMAIN jobs, jobs' = finish(jobs, k) \/ jobs' = deliver(jobs, k)
      PROVE  jobs'[j] = jobs[j]
  <2>1. CASE j = k
    <3>1. jobs'[j].st \in {"done", "running"}
      BY <1>2, <2>1, <1>t DEF finish, deliver, JobState
    <3> QED BY <3>1
  <2> QED BY <1>2, <2>1, QueueTouches
<1>3. CASE Abandon
  BY <1>2, <1>3 DEF Abandon
<1>4. CASE ExpireResult
  BY <1>4 DEF ExpireResult, expire
<1>5. ASSUME NEW w \in Workers, NEW k \in DOMAIN jobs, Start(w, k) PROVE jobs'[j] = jobs[j]
  BY <1>2, <1>5 DEF Start
<1>6. ASSUME NEW w \in Workers, Return(w) \/ Raise(w) \/ Crash(w), proc[w].job # j
      PROVE  jobs'[j] = jobs[j]
  BY <1>6 DEF Return, Raise, Crash, finish, redeliver
<1>7. ASSUME NEW w \in Workers, Return(w) \/ Raise(w), proc[w].job = j PROVE jobs'[j] = jobs[j]
  BY <1>2, <1>7 DEF Return, Raise
<1> QED BY <1>1, <1>3, <1>4, <1>5, <1>6, <1>7, StepShape DEF OnJob, DuplicateDelivery

\* While no delivery is lost or doubled, every delivery is a job's first: an
\* exception ends the job.
FirstTry ==
    /\ \A j \in DOMAIN jobs : jobs[j].st = "queued" => jobs[j].tries = 0
    /\ \A w \in Workers : proc[w].pc # "idle" => proc[w].try = 1

LEMMA FirstTryStep ==
    ASSUME OneDelivery, RowInv, FirstTry, [Next]_vars
    PROVE  FirstTry'
<1>t. TypeOK /\ jobs \in [DOMAIN jobs -> JobState]
  BY DEF RowInv, TypeOK
<1>0. \A w \in Workers : ~ DuplicateDelivery(w) /\ ~ Crash(w)
  BY DEF OneDelivery, DuplicateDelivery, Crash, Spend
<1>1. ASSUME NEW j \in DOMAIN jobs', jobs'[j].st = "queued" PROVE jobs'[j].tries = 0
  <2>1. CASE j \in DOMAIN jobs
    <3>1. jobs'[j] = jobs[j]
      BY <1>0, <1>1, <2>1, QueuedStep
    <3> QED BY <1>1, <2>1, <3>1 DEF FirstTry
  <2>2. CASE j \notin DOMAIN jobs
    <3>1. \E k : jobs' = enqueue_job(jobs, k)
      BY <1>1, <2>2, NewJobs DEF Submit, PlanEnqueue, BatchDefer
    <3> QED BY <1>1, <2>2, <3>1 DEF enqueue_job
  <2> QED BY <2>1, <2>2
<1>2. ASSUME NEW w \in Workers, proc'[w].pc # "idle" PROVE proc'[w].try = 1
  <2>1. CASE proc'[w] = proc[w]
    BY <1>2, <2>1 DEF FirstTry
  <2>2. CASE OnJob(w)
    BY <2>2 DEF OnJob, SameJob, FirstTry
  <2>3. ASSUME NEW j \in DOMAIN jobs, jobs[j].st = "queued", Start(w, j) PROVE proc'[w].try = 1
    <3>1. jobs[j].tries = 0
      BY <2>3 DEF FirstTry
    <3>2. proc \in [Workers -> Process]
      BY <1>t DEF TypeOK
    <3> QED BY <2>3, <3>1, <3>2 DEF Start, idle
  <2>4. CASE proc'[w] = idle
    BY <1>2, <2>4 DEF idle
  <2>5. ASSUME NEW v \in Workers, OthersStay(v), v # w PROVE proc'[w] = proc[w]
    BY <2>5 DEF OthersStay
  <2>6. CASE Abandon \/ ExpireResult
    BY <2>1, <2>6 DEF Abandon, ExpireResult
  <2> QED BY <1>0, <2>1, <2>2, <2>3, <2>4, <2>5, <2>6, StepShape DEF OnJob, Taken
<1> QED BY <1>1, <1>2 DEF FirstTry

LEMMA FirstTryInvariant == ASSUME OneDelivery PROVE Spec => []FirstTry
<1>1. Init => FirstTry
  BY DEF Init, FirstTry, idle
<1>2. RowInv /\ FirstTry /\ [Next]_vars => FirstTry'
  BY FirstTryStep
<1> QED BY <1>1, <1>2, RowInvariant, PTL DEF Spec

-----------------------------------------------------------------------------
(* One planning pass.                                                      *)

Unplanned == DOMAIN batches = {} /\ action.total_batches = 0

\* Nothing is planned, or nothing will be.
Fresh == Unplanned \/ is_terminal(action.status)

\* Where each planning job can stand when it is delivered at most once at a
\* time: a planner that gets past its load is the first to do so.
OnceInv ==
    /\ ~ Visible => Unplanned
    /\ PlanJob \in DOMAIN jobs /\ jobs[PlanJob].st = "queued" => Fresh
    /\ \A w \in Workers :
          /\ proc[w].pc = "p_load" => Fresh
          /\ proc[w].pc = "p_begin" => Unplanned

LEMMA FreshStep ==
    ASSUME RowInv, ~ Visible => Unplanned, [Next]_vars
    PROVE  /\ ~ Visible' => Unplanned'
           /\ \/ \E w \in Workers : PlanFlush(w) \/ PlanTotals(w) \/ PlanBegin(w)
              \/ (Fresh => Fresh') /\ (Unplanned => Unplanned')
<1>t. TypeOK /\ WorkersHoldRows
  BY DEF RowInv
<1>1. Visible => Visible'
  BY <1>t, RowsStay DEF vars, Visible
<1>2. Submit => ~ Visible /\ Unplanned'
  <2> SUFFICES ASSUME Submit PROVE ~ Visible /\ Unplanned'
    OBVIOUS
  <2>1. ~ Visible /\ batches' = batches
    BY DEF Submit, Visible
  <2>2. action'.total_batches = 0
    BY DEF Submit, new_action
  <2> QED BY <2>1, <2>2 DEF Unplanned
<1>3. ASSUME NEW w \in Workers, PlanFlush(w) \/ PlanTotals(w) \/ PlanBegin(w) PROVE Visible
  BY <1>3, <1>t DEF PlanFlush, PlanTotals, PlanBegin, WorkersHoldRows, PlanPc
<1>4. \/ Unplanned => Unplanned'
      \/ \E w \in Workers : PlanFlush(w) \/ PlanTotals(w) \/ PlanBegin(w)
  BY <1>2, PlanFrame DEF Unplanned
<1>5. CASE \E w \in Workers : PlanFlush(w) \/ PlanTotals(w) \/ PlanBegin(w)
  BY <1>1, <1>3, <1>5
<1>6. CASE ~ \E w \in Workers : PlanFlush(w) \/ PlanTotals(w) \/ PlanBegin(w)
  <2>1. ~ Visible' => Unplanned'
    BY <1>1, <1>4, <1>6
  <2>2. Fresh => Fresh'
    BY <1>4, <1>6, TerminalKept DEF Kept, Fresh, is_terminal
  <2> QED BY <1>4, <1>6, <2>1, <2>2
<1> QED BY <1>5, <1>6

LEMMA OnceStep ==
    ASSUME OneDelivery, RowInv, KindInv, DeliveryInv, OnceInv, [Next]_vars
    PROVE  OnceInv'
<1>t. TypeOK
  BY DEF RowInv
<1>0. \A w \in Workers : ~ DuplicateDelivery(w) /\ ~ Crash(w)
  BY DEF OneDelivery, DuplicateDelivery, Crash, Spend
<1>1. ~ Visible' => Unplanned'
  BY FreshStep DEF OnceInv
<1>2. ASSUME NEW w \in Workers, PlanFlush(w) \/ PlanTotals(w) \/ PlanBegin(w)
      PROVE  OnceInv'
  <2>1. /\ proc[w].pc # "idle" /\ proc[w].job = PlanJob /\ OthersStay(w) /\ jobs' = jobs
        /\ proc'[w].pc \in {"p_totals", "p_enqueue", "return", "p_page"}
    <3>1. proc[w].pc \in PlanPc /\ jobs' = jobs
      BY <1>2 DEF PlanFlush, PlanTotals, PlanBegin, PlanPc
    <3>2. OthersStay(w) /\ proc'[w].pc \in {"p_totals", "p_enqueue", "return", "p_page"}
      BY <1>2, <1>t, PlanMoves DEF Moved
    <3> QED BY <3>1, <3>2 DEF KindInv, PlanPc
  <2>2. ~ (PlanJob \in DOMAIN jobs' /\ jobs'[PlanJob].st = "queued")
    BY <2>1 DEF DeliveryInv
  <2>3. ASSUME NEW v \in Workers
        PROVE  proc'[v].pc \notin {"p_load", "p_begin"}
    <3>1. CASE v = w
      BY <2>1, <3>1
    <3>2. CASE v # w
      BY <2>1, <3>2 DEF OthersStay, DeliveryInv, KindInv, PlanPc
    <3> QED BY <3>1, <3>2
  <2> QED BY <1>1, <2>2, <2>3 DEF OnceInv
<1>3. CASE ~ \E w \in Workers : PlanFlush(w) \/ PlanTotals(w) \/ PlanBegin(w)
  <2>1. (Fresh => Fresh') /\ (Unplanned => Unplanned')
    BY <1>3, FreshStep DEF OnceInv
  <2>2. ASSUME PlanJob \in DOMAIN jobs', jobs'[PlanJob].st = "queued" PROVE Fresh'
    <3>1. CASE PlanJob \in DOMAIN jobs
      <4>1. Fresh
        BY <1>0, <2>2, <3>1, QueuedStep DEF OnceInv
      <4> QED BY <2>1, <4>1
    <3>2. CASE PlanJob \notin DOMAIN jobs
      <4>1. \A i, d : BatchJob(i, d) # PlanJob
        BY DEF BatchJob, PlanJob
      <4>2. Submit
        <5>1. \A x : DOMAIN jobs' = DOMAIN jobs \union {x} => x = PlanJob
          BY <2>2, <3>2
        <5>2. ~ (DOMAIN jobs' \subseteq DOMAIN jobs)
          BY <2>2, <3>2
        <5> QED BY <4>1, <5>1, <5>2, NewJobs
      <4>3. ~ Visible
        BY <4>2 DEF Submit, Visible
      <4> QED BY <2>1, <4>3 DEF OnceInv, Fresh
    <3> QED BY <3>1, <3>2
  <2>3. ASSUME NEW w \in Workers
        PROVE  /\ proc'[w].pc = "p_load" => Fresh'
               /\ proc'[w].pc = "p_begin" => Unplanned'
    <3> DEFINE Goal == /\ proc'[w].pc = "p_load" => Fresh'
                       /\ proc'[w].pc = "p_begin" => Unplanned'
    <3>1. CASE proc'[w] = proc[w]
      BY <2>1, <3>1 DEF OnceInv
    <3>2. CASE proc'[w] = idle
      BY <3>2 DEF idle
    <3>3. CASE Dequeue(w)
      <4>1. PICK j \in DOMAIN jobs : jobs[j].st = "queued" /\ Start(w, j)
        BY <3>3 DEF Dequeue
      <4>2. Taken(w, j) /\ j \in JobId
        BY <4>1, <1>t, QueueMoves DEF TypeOK
      <4>3. j.kind = "plan" => Fresh
        BY <4>1 DEF KindInv, OnceInv
      <4> QED BY <2>1, <4>2, <4>3 DEF Taken
    <3>4. CASE PlanPage(w) \/ PlanEndOfWalk(w) \/ PlanEnqueue(w)
      BY <3>4, <1>t, WalkMoves
    <3>5. CASE PlanLoad(w) /\ Moved(w, {"return", "p_begin"})
      <4>1. proc'[w].pc = "p_begin" => ~ is_terminal(action.status)
        BY <3>5, <1>t DEF PlanLoad, Goto, TypeOK, Process
      <4> QED BY <2>1, <3>5, <4>1 DEF PlanLoad, Moved, OnceInv, Fresh
    <3>6. CASE Moved(w, {"p_fail"}) \/ Moved(w, {"raise"})
      BY <3>6 DEF Moved
    <3>7. CASE Moved(w, BatchPc \union {"return", "raise"})
      BY <3>7 DEF Moved, BatchPc
    <3> HIDE DEF Goal
    <3>9. Goal
      BY <1>0, <1>3, <3>1, <3>2, <3>3, <3>4, <3>5, <3>6, <3>7, WorkerCases DEF Goal
    <3> QED BY <3>9 DEF Goal
  <2> QED BY <1>1, <2>2, <2>3 DEF OnceInv
<1> QED BY <1>2, <1>3

LEMMA OnceInvariant ==
    ASSUME OneDelivery
    PROVE  Spec => [](KindInv /\ DeliveryInv /\ OnceInv)
<1>1. Init => OnceInv
  BY DEF Init, OnceInv, Unplanned, Visible, new_action, idle
<1>2. RowInv /\ KindInv /\ DeliveryInv /\ OnceInv /\ [Next]_vars => OnceInv'
  BY OnceStep
<1> QED BY <1>1, <1>2, RowInvariant, KindInvariant, DeliveryInvariant, PTL DEF Spec

-----------------------------------------------------------------------------
(* The partition of the target set: the keyset walk.                       *)

\* A planner between two flushes: the rows of the earlier flushes come first,
\* the pending ones follow without a gap, and none reaches past the cursor.
Walked(p, b) ==
    /\ Len(p.pending) <= p.index
    /\ DOMAIN b = 0 .. (p.index - Len(p.pending) - 1)
    /\ \A k \in DOMAIN p.pending : p.pending[k].index = p.index - Len(p.pending) + k - 1
    /\ \A i \in DOMAIN b : b[i].slice \subseteq 1 .. p.last
    /\ \A k \in DOMAIN p.pending : p.pending[k].slice \subseteq 1 .. p.last
    /\ \A k, l \in DOMAIN p.pending :
          k # l => p.pending[k].slice \intersect p.pending[l].slice = {}
    /\ \A k \in DOMAIN p.pending, i \in DOMAIN b : p.pending[k].slice \intersect b[i].slice = {}

\* A planner whose rows are all committed.
Flushed(p, b) ==
    /\ DOMAIN b = 0 .. (p.index - 1)
    /\ \A i \in DOMAIN b : b[i].slice \subseteq 1 .. p.last

Disjoint(b) == \A i, j \in DOMAIN b : i # j => b[i].slice \intersect b[j].slice = {}

RangeInv ==
    /\ Disjoint(batches)
    /\ \A w \in Workers :
          /\ proc[w].pc \in {"p_page", "p_flush"} => Walked(proc[w], batches)
          /\ proc[w].pc \in {"p_enqueue", "p_totals"} => Flushed(proc[w], batches)

\* A page is stored as a range of keys after the cursor, up to its last key.
LEMMA PageRange ==
    ASSUME TypeOK, ~ Explicit, NEW w \in Workers, PlanPage(w)
    PROVE  /\ page_row(proc[w], next_page(proc[w])).slice
                 \subseteq (proc[w].last + 1) .. proc'[w].last
           /\ proc[w].last < proc'[w].last /\ proc'[w].last \in Entities
<1> DEFINE p == proc[w]
           page == next_page(p)
<1>1. p.last \in Nat /\ action.batch_size \in Nat \ {0}
  BY DEF TypeOK, Process, BulkAction
<1>2. page \subseteq Beyond(table, p.last) /\ Beyond(table, p.last) \in SUBSET Entities
  BY <1>1, FilterPageFacts DEF next_page
<1>3. \A e \in Entities : e \in Nat
  BY NAssumption DEF Entities
<1>4. \A e \in page : e \in Entities /\ e \in Nat /\ p.last < e
  BY <1>1, <1>2, <1>3 DEF Beyond
<1>5. proc'[w].last \in page /\ \A e \in page : e <= proc'[w].last
  BY WalkMoves
<1>6. page_row(p, page).slice = cursor_range(page)
  BY DEF page_row
<1> HIDE DEF page
<1>7. \A e \in cursor_range(page) : e \in (p.last + 1) .. proc'[w].last
  BY <1>1, <1>3, <1>4, <1>5 DEF cursor_range
<1> QED BY <1>4, <1>5, <1>6, <1>7 DEF page

LEMMA WalkedPage ==
    ASSUME NEW p \in Process, NEW q, NEW b, NEW row \in PlannedBatch, Walked(p, b),
           row.index = p.index, row.slice \subseteq (p.last + 1) .. q.last,
           q.last \in Nat, p.last < q.last,
           q.pending = Append(p.pending, row), q.index = p.index + 1
    PROVE  Walked(q, b)
<1> DEFINE s == p.pending
           n == Len(p.pending)
<1>1. s \in Seq(PlannedBatch) /\ n \in Nat /\ p.index \in Nat /\ p.last \in Nat
      /\ DOMAIN s = 1 .. n
  BY DEF Process
<1>2. /\ Len(q.pending) = n + 1 /\ DOMAIN q.pending = 1 .. (n + 1)
      /\ \A k \in 1 .. n : q.pending[k] = s[k]
      /\ q.pending[n + 1] = row
  BY <1>1
<1>3. \A k \in 1 .. (n + 1) : k \in 1 .. n \/ k = n + 1
  BY <1>1
<1>4. 1 .. p.last \subseteq 1 .. q.last /\ (1 .. p.last) \intersect row.slice = {}
      /\ row.slice \subseteq 1 .. q.last
  BY <1>1
<1>5. Len(q.pending) <= q.index /\ DOMAIN b = 0 .. (q.index - Len(q.pending) - 1)
  BY <1>1, <1>2 DEF Walked
<1>6. \A k \in DOMAIN q.pending : q.pending[k].index = q.index - Len(q.pending) + k - 1
  BY <1>1, <1>2, <1>3 DEF Walked
<1>7. \A k \in 1 .. n : s[k].slice \subseteq 1 .. p.last
  BY <1>1 DEF Walked
<1>8. \A i \in DOMAIN b : b[i].slice \subseteq 1 .. p.last
  BY DEF Walked
<1>9. /\ \A i \in DOMAIN b : b[i].slice \subseteq 1 .. q.last
      /\ \A k \in DOMAIN q.pending : q.pending[k].slice \subseteq 1 .. q.last
  BY <1>2, <1>3, <1>4, <1>7, <1>8
<1>10. \A k, l \in DOMAIN q.pending :
          k # l => q.pending[k].slice \intersect q.pending[l].slice = {}
  <2>1. \A k, l \in 1 .. n : k # l => s[k].slice \intersect s[l].slice = {}
    BY <1>1 DEF Walked
  <2>2. \A k \in 1 .. n : s[k].slice \intersect row.slice = {}
    BY <1>4, <1>7
  <2> QED BY <1>2, <1>3, <2>1, <2>2
<1>11. \A k \in DOMAIN q.pending, i \in DOMAIN b : q.pending[k].slice \intersect b[i].slice = {}
  <2>1. \A k \in 1 .. n, i \in DOMAIN b : s[k].slice \intersect b[i].slice = {}
    BY <1>1 DEF Walked
  <2>2. \A i \in DOMAIN b : row.slice \intersect b[i].slice = {}
    BY <1>4, <1>8
  <2> QED BY <1>2, <1>3, <2>1, <2>2
<1> QED BY <1>5, <1>6, <1>9, <1>10, <1>11 DEF Walked

LEMMA WalkedFlush ==
    ASSUME NEW p \in Process, NEW b, Walked(p, b), Disjoint(b)
    PROVE  /\ Flushed(p, insert_batches(b, p.pending))
           /\ Disjoint(insert_batches(b, p.pending))
<1> DEFINE s == p.pending
           n == Len(p.pending)
           c == insert_batches(b, s)
           m == p.index - n
<1>1. s \in Seq(PlannedBatch) /\ n \in Nat /\ p.index \in Nat /\ p.last \in Nat
      /\ DOMAIN s = 1 .. n /\ m \in Nat /\ DOMAIN b = 0 .. (m - 1) /\ p.index = m + n
  BY DEF Process, Walked
<1>2. \A k \in 1 .. n : s[k].index = m + k - 1
  BY <1>1 DEF Walked
<1>3. DOMAIN c = DOMAIN b \union {s[k].index : k \in DOMAIN s}
  BY DEF insert_batches
<1>4. \A i \in DOMAIN b : c[i] = b[i]
  BY DEF insert_batches
<1>5. ASSUME NEW i \in DOMAIN c \ DOMAIN b
      PROVE  \E k \in 1 .. n : s[k].index = i /\ c[i].slice = s[k].slice
  <2>1. i \in DOMAIN insert_batches(b, s) \ DOMAIN b /\ s \in Seq(PlannedBatch)
    BY <1>1, <1>5
  <2> HIDE DEF s
  <2>2. \E k \in DOMAIN s : /\ s[k].index = i /\ insert_batches(b, s)[i].slice = s[k].slice
                            /\ insert_batches(b, s)[i].entity_count = s[k].entity_count
    BY ONLY <2>1, InsertRows
  <2> QED BY <1>1, <2>2
<1> HIDE DEF c, m, n
<1>6. DOMAIN c = 0 .. (p.index - 1)
  <2>1. ASSUME NEW i \in 0 .. (p.index - 1), i \notin DOMAIN b PROVE i \in {s[k].index : k \in DOMAIN s}
    <3>1. i - m + 1 \in 1 .. n /\ s[i - m + 1].index = i
      BY <1>1, <1>2, <2>1
    <3> QED BY <1>1, <3>1
  <2>2. ASSUME NEW k \in 1 .. n PROVE s[k].index \in 0 .. (p.index - 1)
    BY <1>1, <1>2, <2>2
  <2>3. DOMAIN b \subseteq 0 .. (p.index - 1)
    BY <1>1
  <2> QED BY <1>1, <1>3, <2>1, <2>2, <2>3
<1>7. ASSUME NEW i \in DOMAIN c PROVE c[i].slice \subseteq 1 .. p.last
  <2>1. CASE i \in DOMAIN b
    BY <1>4, <2>1 DEF Walked
  <2>2. CASE i \notin DOMAIN b
    BY <1>1, <1>5, <2>2 DEF Walked
  <2> QED BY <2>1, <2>2
<1>8. ASSUME NEW i \in DOMAIN c, NEW j \in DOMAIN c, i # j
      PROVE  c[i].slice \intersect c[j].slice = {}
  <2>1. \A k \in 1 .. n, x \in DOMAIN b : s[k].slice \intersect b[x].slice = {}
    BY <1>1 DEF Walked
  <2>2. \A k, l \in 1 .. n : k # l => s[k].slice \intersect s[l].slice = {}
    BY <1>1 DEF Walked
  <2>3. CASE i \in DOMAIN b /\ j \in DOMAIN b
    BY <1>4, <1>8, <2>3 DEF Disjoint
  <2>4. CASE i \in DOMAIN b /\ j \notin DOMAIN b
    BY <1>4, <1>5, <2>1, <2>4
  <2>5. CASE i \notin DOMAIN b /\ j \in DOMAIN b
    BY <1>4, <1>5, <2>1, <2>5
  <2>6. CASE i \notin DOMAIN b /\ j \notin DOMAIN b
    <3>1. PICK k \in 1 .. n : s[k].index = i /\ c[i].slice = s[k].slice
      BY <1>5, <2>6
    <3>2. PICK l \in 1 .. n : s[l].index = j /\ c[j].slice = s[l].slice
      BY <1>5, <2>6
    <3>3. k # l
      BY <1>8, <3>1, <3>2
    <3> QED BY <2>2, <3>1, <3>2, <3>3
  <2> QED BY <2>3, <2>4, <2>5, <2>6
<1> QED BY <1>6, <1>7, <1>8 DEF c, Flushed, Disjoint

\* At most one worker is planning.
LEMMA OnePlanner ==
    ASSUME KindInv, DeliveryInv, NEW v \in Workers, NEW w \in Workers,
           proc[v].pc \in PlanPc, proc[w].pc \in PlanPc
    PROVE  v = w
BY DEF KindInv, DeliveryInv, PlanPc

LEMMA RangeStep ==
    ASSUME ~ Explicit, OneDelivery,
           RowInv, KindInv, DeliveryInv, OnceInv, RangeInv, [Next]_vars
    PROVE  RangeInv'
<1>t. /\ TypeOK /\ WorkersHoldRows /\ proc \in [Workers -> Process]
      /\ \A w \in Workers : proc[w] \in Process
  BY DEF RowInv, TypeOK
<1>1. ASSUME NEW w \in Workers, PlanFlush(w) PROVE RangeInv'
  <2>1. /\ proc[w].pc = "p_flush" /\ batches' = insert_batches(batches, proc[w].pending)
        /\ Moved(w, {"p_totals", "p_enqueue"})
    BY <1>1, <1>t, PlanMoves DEF PlanFlush
  <2>2. Flushed(proc[w], batches') /\ Disjoint(batches')
    BY <1>t, <2>1, WalkedFlush DEF RangeInv
  <2>3. Flushed(proc'[w], batches')
    BY <2>1, <2>2 DEF Flushed, Moved, SamePlan
  <2>4. ASSUME NEW v \in Workers, v # w PROVE proc'[v].pc \notin PlanPc
    BY <2>1, <2>4, OnePlanner DEF Moved, OthersStay, PlanPc
  <2> QED BY <2>1, <2>2, <2>3, <2>4 DEF RangeInv, Moved, PlanPc
<1>2. CASE ~ \E w \in Workers : PlanFlush(w)
  <2>1. DOMAIN batches' = DOMAIN batches /\ \A i \in DOMAIN batches : batches'[i].slice = batches[i].slice
    BY <1>2, PlanFrame, FrozenStep DEF Frozen
  <2>2. /\ Disjoint(batches')
        /\ \A p : Walked(p, batches) => Walked(p, batches')
        /\ \A p : Flushed(p, batches) => Flushed(p, batches')
    BY <2>1 DEF RangeInv, Disjoint, Walked, Flushed
  <2>3. ASSUME NEW w \in Workers
        PROVE  /\ proc'[w].pc \in {"p_page", "p_flush"} => Walked(proc'[w], batches)
               /\ proc'[w].pc \in {"p_enqueue", "p_totals"} => Flushed(proc'[w], batches)
    <3> DEFINE Goal == /\ proc'[w].pc \in {"p_page", "p_flush"} => Walked(proc'[w], batches)
                       /\ proc'[w].pc \in {"p_enqueue", "p_totals"} => Flushed(proc'[w], batches)
    <3>1. CASE proc'[w] = proc[w]
      BY <3>1 DEF RangeInv
    <3>2. CASE proc'[w] = idle
      BY <3>2 DEF idle
    <3>3. ASSUME NEW j, Taken(w, j) PROVE Goal
      BY <3>3 DEF Taken
    <3>4. CASE PlanPage(w)
      <4> DEFINE row == page_row(proc[w], next_page(proc[w]))
      <4>1. /\ proc[w].pc = "p_page" /\ proc'[w].pc \in {"p_page", "p_flush"}
            /\ proc'[w].pending = Append(proc[w].pending, row)
            /\ proc'[w].index = proc[w].index + 1
        BY <3>4, <1>t, WalkMoves
      <4>2. /\ row.slice \subseteq (proc[w].last + 1) .. proc'[w].last
            /\ proc[w].last < proc'[w].last /\ proc'[w].last \in Nat
        BY <3>4, <1>t, PageRange, NAssumption DEF Entities
      <4>3. row \in PlannedBatch /\ row.index = proc[w].index
        <5>1. proc[w].index \in Nat /\ cursor_range(next_page(proc[w])) \in SUBSET Entities
          BY <1>t DEF Process, cursor_range
        <5> QED BY <1>t, <5>1, PageSize DEF page_row, PlannedBatch
      <4> HIDE DEF row
      <4>4. Walked(proc'[w], batches)
        BY <1>t, <4>1, <4>2, <4>3, WalkedPage DEF RangeInv
      <4> QED BY <4>1, <4>4
    <3>5. CASE PlanEndOfWalk(w)
      <4>1. /\ proc[w].pc = "p_page" /\ proc'[w].pc = "p_flush"
            /\ proc'[w].index = proc[w].index /\ proc'[w].last = proc[w].last
            /\ proc'[w].pending = proc[w].pending
        BY <3>5, <1>t, WalkMoves
      <4> QED BY <4>1 DEF RangeInv, Walked
    <3>6. CASE PlanEnqueue(w)
      <4>1. /\ proc[w].pc = "p_enqueue"
            /\ proc'[w].pc \in {"p_enqueue", "p_page", "p_totals"}
            /\ proc'[w].pc = "p_page" => proc'[w].pending = <<>>
            /\ proc'[w].index = proc[w].index /\ proc'[w].last = proc[w].last
        BY <3>6, <1>t, WalkMoves
      <4>2. Flushed(proc'[w], batches)
        BY <4>1 DEF RangeInv, Flushed
      <4>3. ASSUME proc'[w].pc = "p_page" PROVE Walked(proc'[w], batches)
        <5>1. proc'[w].pending = <<>> /\ proc'[w].index \in Nat
          BY <4>1, <4>3, <1>t DEF Process
        <5> QED BY <4>2, <5>1 DEF Flushed, Walked
      <4> QED BY <4>1, <4>2, <4>3
    <3>7. CASE PlanBegin(w) /\ Moved(w, {"p_page"})
      <4>1. DOMAIN batches = {} /\ SamePlan(idle, proc[w])
        BY <3>7 DEF PlanBegin, OnceInv, Unplanned, KindInv
      <4>2. proc'[w].pending = <<>> /\ proc'[w].index = 0
        BY <3>7, <4>1 DEF Moved, SamePlan, idle
      <4>3. Walked(proc'[w], batches)
        BY <4>1, <4>2 DEF Walked
      <4> QED BY <3>7, <4>3 DEF Moved
    <3>8. CASE \/ Moved(w, {"return", "p_begin"}) \/ Moved(w, {"return"}) \/ Moved(w, {"p_fail"})
               \/ Moved(w, {"raise"}) \/ Moved(w, BatchPc \union {"return", "raise"})
      BY <3>8 DEF Moved, BatchPc
    <3> HIDE DEF Goal
    <3>9. Goal
      BY <1>2, <3>1, <3>2, <3>3, <3>4, <3>5, <3>6, <3>7, <3>8, WorkerCases DEF Goal
    <3> QED BY <3>9 DEF Goal
  <2> QED BY <2>2, <2>3 DEF RangeInv
<1> QED BY <1>1, <1>2

LEMMA RangeInvariant ==
    ASSUME ~ Explicit, OneDelivery
    PROVE  Spec => [](OnceInv /\ RangeInv)
<1>1. Init => RangeInv
  BY DEF Init, RangeInv, Disjoint, idle
<1>2. RowInv /\ KindInv /\ DeliveryInv /\ OnceInv /\ RangeInv /\ [Next]_vars => RangeInv'
  BY RangeStep
<1> QED BY <1>1, <1>2, RowInvariant, OnceInvariant, PTL DEF Spec

\* The faults under which the target set is planned once: explicit ids are cut
\* the same way by every planner; a walk over a table that changes is not
\* repeated when no job is delivered twice.
OnePlan == Explicit \/ OneDelivery

\* No entity belongs to two batches (cursor_batches, id_batches and flush),
\* whatever rows leave and join the target set while it is walked.
THEOREM SlicesAreDisjoint == ASSUME OnePlan PROVE Spec => []DisjointSlices
<1>1. CASE Explicit
  <2>1. Spec => []ChunkInv
    BY <1>1, ChunkInvariant
  <2>2. RowInv /\ ChunkInv => DisjointSlices
    BY ChunksAreDisjoint
  <2> QED BY <2>1, <2>2, RowInvariant, PTL
<1>2. CASE ~ Explicit
  <2>1. Spec => [](OnceInv /\ RangeInv)
    BY <1>2, RangeInvariant DEF OnePlan
  <2>2. RangeInv => DisjointSlices
    BY DEF RangeInv, Disjoint, DisjointSlices
  <2> QED BY <2>1, <2>2, PTL
<1> QED BY <1>1, <1>2

-----------------------------------------------------------------------------
(* The plan covers the target set.                                         *)

Due == stayed \intersect (IF Explicit THEN {EntityIds[k] : k \in DOMAIN EntityIds} ELSE Entities)

Held(e, b) == \E i \in DOMAIN b : e \in b[i].slice
Awaits(e, p) == \E k \in DOMAIN p.pending : e \in p.pending[k].slice

\* The walk of p is past e.
Passed(e, p, size) ==
    IF Explicit THEN \E i \in FirstIds : EntityIds[i] = e /\ Rank(FirstIds, i) < p.index * size
                ELSE e <= p.last

\* What the walk has passed is in a row, committed or pending; a walk that
\* has ended has passed everything.
Covers(p, b, size, due) ==
    /\ p.pc \in {"p_page", "p_flush"} =>
          \A e \in due : Passed(e, p, size) => Held(e, b) \/ Awaits(e, p)
    /\ p.pc = "p_enqueue" => \A e \in due : Passed(e, p, size) => Held(e, b)
    /\ p.pc \in {"p_flush", "p_enqueue"} /\ ~ p.more => \A e \in due : Passed(e, p, size)
    /\ p.pc = "p_flush" /\ p.pending = <<>> => ~ p.more
    /\ p.pc = "p_totals" => \A e \in due : Held(e, b)

CoverInv ==
    /\ stayed \subseteq selection_clause(table)
    /\ action.total_batches > 0 => \A e \in Due : Held(e, batches)
    /\ \A w \in Workers : Covers(proc[w], batches, action.batch_size, Due)

\* Which steps write the entity table.
LEMMA TableFrame ==
    ASSUME RowInv, [Next]_vars
    PROVE  \/ table' = table /\ stayed' = stayed
           \/ \E e \in Entities : Leave(e) \/ Join(e)
           \/ \E w \in Workers : BatchCommit(w)
<1>1. CASE \/ Submit \/ CommitSubmission \/ AbortSubmission \/ cancel_bulk_action \/ Rest
           \/ update_account \/ ExpireResult \/ Abandon \/ UNCHANGED vars
  BY <1>1 DEF Submit, CommitSubmission, AbortSubmission, cancel_bulk_action, Rest,
              update_account, ExpireResult, Abandon, vars, env, history
<1>2. ASSUME NEW w \in Workers, WorkerStep(w) \/ WorkerFault(w), ~ BatchCommit(w)
      PROVE  table' = table /\ stayed' = stayed
  <2>1. CASE \/ PlanLoad(w) \/ PlanBegin(w) \/ PlanPage(w) \/ PlanEndOfWalk(w)
             \/ PlanFlush(w) \/ PlanEnqueue(w) \/ PlanTotals(w) \/ PlanFail(w)
             \/ Dequeue(w) \/ Return(w) \/ Raise(w) \/ WorkerFault(w)
    BY <2>1 DEF PlanLoad, PlanBegin, PlanPage, PlanEndOfWalk, PlanFlush, PlanEnqueue, PlanTotals,
                PlanFail, Dequeue, Return, Raise, WorkerFault, DuplicateDelivery, Crash,
                PlanError, BatchError, UncaughtError, env, history
  <2>2. CASE \/ BatchLoad(w) \/ BatchCancel(w) \/ BatchGate(w) \/ BatchDefer(w)
             \/ BatchAttempt(w) \/ BatchCheck(w) \/ BatchRows(w)
             \/ FinalizeSelect(w) \/ FinalizeUpdate(w) \/ BatchFailed(w)
    BY <2>2 DEF BatchLoad, BatchCancel, BatchGate, BatchDefer, BatchAttempt, BatchCheck,
                BatchRows, FinalizeSelect, FinalizeUpdate, BatchFailed, env, history
  <2> QED BY <1>2, <2>1, <2>2 DEF WorkerStep
<1> QED BY <1>1, <1>2 DEF Next, Outside

\* An entity leaves the history set with the target set and never returns.
LEMMA StayedStep ==
    ASSUME RowInv, stayed \subseteq selection_clause(table), [Next]_vars
    PROVE  stayed' \subseteq stayed /\ stayed' \subseteq selection_clause(table')
<1>t. TypeOK /\ table \in [Entities -> RowState]
  BY DEF RowInv, TypeOK
<1>1. CASE table' = table /\ stayed' = stayed
  BY <1>1
<1>2. ASSUME NEW e \in Entities, Leave(e)
      PROVE  stayed' \subseteq stayed /\ stayed' \subseteq selection_clause(table')
  <2>1. stayed' = stayed \ {e} /\ \A f \in Entities \ {e} : table'[f] = table[f]
    BY <1>2, <1>t DEF Leave
  <2> QED BY <2>1 DEF selection_clause
<1>3. ASSUME NEW e \in Entities, Join(e)
      PROVE  stayed' \subseteq stayed /\ stayed' \subseteq selection_clause(table')
  <2>1. /\ stayed' = stayed /\ table'[e] = "match"
        /\ \A f \in Entities \ {e} : table'[f] = table[f]
    BY <1>3, <1>t DEF Join, history
  <2> QED BY <2>1 DEF selection_clause
<1>4. ASSUME NEW w \in Workers, BatchCommit(w)
      PROVE  stayed' \subseteq stayed /\ stayed' \subseteq selection_clause(table')
  <2>1. stayed' = stayed \intersect selection_clause(table')
    BY <1>4 DEF BatchCommit
  <2> QED BY <2>1
<1> QED BY <1>1, <1>2, <1>3, <1>4, TableFrame

\* Every explicit id has a first occurrence.
LEMMA FirstOccurrence ==
    ASSUME NEW k \in DOMAIN EntityIds
    PROVE  \E i \in FirstIds : EntityIds[i] = EntityIds[k]
<1> DEFINE S == {i \in 1 .. Len(EntityIds) : EntityIds[i] = EntityIds[k]}
<1>1. Len(EntityIds) \in Nat /\ DOMAIN EntityIds = 1 .. Len(EntityIds)
  BY EntityIdsAssumption
<1>2. S \in SUBSET Nat /\ S # {}
  BY <1>1
<1>3. PICK m \in S : \A x \in S : m <= x
  <2> HIDE DEF S
  <2> QED BY <1>2, LeastNat
<1>4. \A j \in 1 .. (m - 1) : EntityIds[j] # EntityIds[m]
  BY <1>1, <1>3
<1> QED BY <1>1, <1>3, <1>4 DEF FirstIds

\* What one page adds to what the walk has passed.
LEMMA PageCovers ==
    ASSUME TypeOK, stayed \subseteq selection_clause(table), NEW w \in Workers, PlanPage(w),
           NEW e \in Due
    PROVE  /\ Passed(e, proc'[w], action.batch_size) =>
                 \/ Passed(e, proc[w], action.batch_size)
                 \/ e \in page_row(proc[w], next_page(proc[w])).slice
           /\ ~ proc'[w].more => Passed(e, proc'[w], action.batch_size)
<1> DEFINE p == proc[w]
           q == proc'[w]
           size == action.batch_size
           page == next_page(p)
<1>1. p.last \in Nat /\ p.index \in Nat /\ size \in Nat \ {0}
  BY DEF TypeOK, Process, BulkAction
<1>2. /\ q.last \in page /\ q.index = p.index + 1 /\ \A x \in page : x <= q.last
      /\ q.more <=> (Explicit \/ Cardinality(page) >= size)
  BY WalkMoves
<1>3. CASE Explicit
  <2>1. page_row(p, page).slice = id_chunk(p.index, size) /\ q.more
    BY <1>2, <1>3 DEF page_row, next_page
  <2>2. ASSUME NEW i \in FirstIds, EntityIds[i] = e, Rank(FirstIds, i) < (p.index + 1) * size,
               ~ (Rank(FirstIds, i) < p.index * size)
        PROVE  e \in id_chunk(p.index, size)
    <3>0. Rank(FirstIds, i) \in Nat
      BY FirstIdsType
    <3>p. p.index * size \in Nat
      <4> HIDE DEF p, size
      <4>1. PICK m \in Nat, n \in Nat : m = p.index /\ n = size
        BY <1>1
      <4>2. m * n \in Nat
        BY ONLY m \in Nat, n \in Nat
      <4> QED BY <4>1, <4>2
    <3>1. Rank(FirstIds, i) \in Nat /\ p.index * size \in Nat /\ size \in Nat
      BY <1>1, <3>0, <3>p
    <3>2. i \in Ranked(p.index * size, (p.index + 1) * size)
      BY <2>2, <3>1 DEF Ranked
    <3> QED BY <1>1, <2>2, <3>1, <3>2, ChunkIsRanked
  <2> QED BY <1>2, <1>3, <2>1, <2>2 DEF Passed
<1>4. CASE ~ Explicit
  <2>1. /\ \A x \in Beyond(table, p.last), m \in page : x <= m => x \in page
        /\ Cardinality(page) \in Nat /\ page \subseteq Beyond(table, p.last)
        /\ Cardinality(page) < size => page = Beyond(table, p.last)
    BY <1>1, <1>4, FilterPageFacts DEF next_page
  <2>2. page_row(p, page).slice = cursor_range(page)
    BY <1>4 DEF page_row
  <2>3. e \in Entities /\ e \in Nat /\ e \in selection_clause(table)
    BY <1>4, NAssumption DEF Due, Entities
  <2>4. e <= p.last \/ e \in Beyond(table, p.last)
    BY <1>1, <2>3 DEF Beyond
  <2>5. \A x \in page : x \in Entities
    BY PageSize
  <2>6. q.last \in Nat
    BY <1>2, <2>5, NAssumption DEF Entities
  <2> HIDE DEF page
  <2>7. e \in page => e \in cursor_range(page)
    BY <2>3 DEF cursor_range
  <2>8. p.last <= q.last
    BY <1>1, <1>2, <2>1, <2>6 DEF Beyond
  <2>9. ASSUME ~ q.more PROVE e <= q.last
    <3>1. page = Beyond(table, p.last)
      BY <1>1, <1>2, <2>1, <2>9
    <3> QED BY <1>1, <1>2, <2>3, <2>4, <2>6, <2>8, <3>1
  <2> QED BY <1>2, <1>4, <2>1, <2>2, <2>4, <2>7, <2>9 DEF Passed, page
<1> QED BY <1>3, <1>4

\* A walk that finds no further row has passed everything.
LEMMA EndCovers ==
    ASSUME TypeOK, stayed \subseteq selection_clause(table), NEW w \in Workers,
           next_page(proc[w]) = {}, NEW e \in Due
    PROVE  Passed(e, proc[w], action.batch_size)
<1> DEFINE p == proc[w]
           size == action.batch_size
<1>1. p.last \in Nat /\ p.index \in Nat /\ size \in Nat \ {0} /\ p.index * size \in Nat
  <2>1. p.last \in Nat /\ p.index \in Nat /\ size \in Nat \ {0}
    BY DEF TypeOK, Process, BulkAction
  <2> QED BY <2>1
<1>2. CASE Explicit
  <2>1. PICK i \in FirstIds : EntityIds[i] = e
    BY <1>2, FirstOccurrence DEF Due
  <2>2. Rank(FirstIds, i) \in Nat /\ size \in Nat
    BY <1>1, FirstIdsType
  <2>3. ASSUME p.index * size <= Rank(FirstIds, i) PROVE FALSE
    <3>1. PICK g \in FirstIds : Rank(FirstIds, g) = p.index * size
      <4> DEFINE a == p.index * size
      <4>1. a \in Nat /\ a <= Rank(FirstIds, i)
        BY <1>1, <2>3
      <4> HIDE DEF a
      <4>2. \E g \in FirstIds : Rank(FirstIds, g) = a /\ g <= i
        BY <4>1, FirstIdsType, RanksHaveNoGap
      <4> QED BY <4>2 DEF a
    <3>2. (p.index + 1) * size = p.index * size + size
      BY <1>1
    <3>3. g \in Ranked(p.index * size, (p.index + 1) * size)
      BY <1>1, <3>1, <3>2 DEF Ranked
    <3>4. EntityIds[g] \in id_chunk(p.index, size)
      BY <1>1, <2>2, <3>3, ChunkIsRanked
    <3> QED BY <1>2, <3>4 DEF next_page
  <2> QED BY <1>1, <1>2, <2>1, <2>2, <2>3 DEF Passed
<1>3. CASE ~ Explicit
  <2>1. Beyond(table, p.last) = {}
    BY <1>1, <1>3, FilterPageFacts DEF next_page
  <2>2. e \in Nat /\ e \in selection_clause(table)
    BY <1>3, NAssumption DEF Due, Entities
  <2>3. e <= p.last
    BY <1>1, <2>1, <2>2 DEF Beyond
  <2> QED BY <1>3, <2>3 DEF Passed
<1> QED BY <1>2, <1>3

\* Less is due and more is held as time passes.
LEMMA CoversKept ==
    ASSUME NEW p, NEW b, NEW c, NEW size, NEW due, NEW later \in SUBSET due,
           Covers(p, b, size, due), \A e : Held(e, b) => Held(e, c)
    PROVE  Covers(p, c, size, later)
BY DEF Covers

\* What holds of the rows when the target set is planned once.
PlanInv ==
    IF Explicit THEN ChunkInv ELSE KindInv /\ DeliveryInv /\ OnceInv /\ RangeInv

LEMMA PlanInvariant == ASSUME OnePlan PROVE Spec => []PlanInv
<1>1. CASE Explicit
  <2>1. Spec => []ChunkInv
    BY <1>1, ChunkInvariant
  <2>2. ChunkInv => PlanInv
    BY <1>1 DEF PlanInv
  <2> QED BY <2>1, <2>2, PTL
<1>2. CASE ~ Explicit
  <2>1. Spec => [](OnceInv /\ RangeInv)
    BY <1>2, RangeInvariant DEF OnePlan
  <2>2. Spec => [](KindInv /\ DeliveryInv /\ OnceInv)
    BY <1>2, OnceInvariant DEF OnePlan
  <2>3. KindInv /\ DeliveryInv /\ OnceInv /\ RangeInv => PlanInv
    BY <1>2 DEF PlanInv
  <2> QED BY <2>1, <2>2, <2>3, PTL
<1> QED BY <1>1, <1>2

\* A flush commits every slice that was pending.
LEMMA FlushHolds ==
    ASSUME RowInv, PlanInv, PlanInv', NEW w \in Workers, PlanFlush(w),
           NEW e, Awaits(e, proc[w])
    PROVE  Held(e, batches')
<1>t. TypeOK /\ proc[w] \in Process /\ proc[w].pending \in Seq(PlannedBatch)
  BY DEF RowInv, TypeOK, Process
<1>1. batches' = insert_batches(batches, proc[w].pending) /\ proc[w].pc = "p_flush"
  BY DEF PlanFlush
<1>2. PICK k \in DOMAIN proc[w].pending : e \in proc[w].pending[k].slice
  BY DEF Awaits
<1> DEFINE i == proc[w].pending[k].index
<1>3. i \in DOMAIN batches'
  BY <1>1, <1>2 DEF insert_batches
<1>4. CASE Explicit
  <2>1. action' = action
    BY DEF PlanFlush
  <2>2. proc[w].pending[k].slice = id_chunk(i, action.batch_size)
    BY <1>2, <1>4 DEF PlanInv, ChunkInv
  <2>3. batches'[i].slice = id_chunk(i, action.batch_size)
    BY <1>3, <1>4, <2>1 DEF PlanInv, ChunkInv
  <2> QED BY <1>2, <1>3, <2>2, <2>3 DEF Held
<1>5. CASE ~ Explicit
  <2> DEFINE s == proc[w].pending
             m == proc[w].index - Len(s)
  <2>1. Walked(proc[w], batches)
    BY <1>1, <1>5 DEF PlanInv, RangeInv
  <2>2. /\ m \in Nat /\ DOMAIN batches = 0 .. (m - 1) /\ DOMAIN s = 1 .. Len(s)
        /\ Len(s) \in Nat
        /\ \A l \in DOMAIN s : s[l].index = m + l - 1
    BY <1>t, <2>1 DEF Walked, Process
  <2> HIDE DEF m
  <2>3. i \notin DOMAIN batches
    BY <1>2, <2>2
  <2>4. i \in DOMAIN insert_batches(batches, s) \ DOMAIN batches /\ s \in Seq(PlannedBatch)
    BY <1>t, <1>1, <1>3, <2>3
  <2> HIDE DEF s, i
  <2>5. \E l \in DOMAIN s : s[l].index = i /\ insert_batches(batches, s)[i].slice = s[l].slice
    BY ONLY <2>4, InsertRows
  <2>6. \A l \in DOMAIN s : s[l].index = i => l = k
    BY <1>2, <2>2 DEF i, s
  <2>7. batches'[i].slice = s[k].slice
    BY <1>1, <2>5, <2>6 DEF s
  <2> QED BY <1>2, <1>3, <2>7 DEF Held, s
<1> QED BY <1>4, <1>5

LEMMA CoverStep ==
    ASSUME RowInv, PlanInv, PlanInv', KindInv, CoverInv, [Next]_vars
    PROVE  CoverInv'
<1>t. /\ TypeOK /\ WorkersHoldRows
      /\ \A w \in Workers : proc[w] \in Process /\ proc[w].pending \in Seq(PlannedBatch)
  BY DEF RowInv, TypeOK, Process
<1>1. /\ stayed' \subseteq selection_clause(table') /\ Due' \subseteq Due
      /\ stayed \subseteq selection_clause(table)
  BY StayedStep DEF Due, CoverInv
<1>2. \A e : Held(e, batches) => Held(e, batches')
  BY FrozenStep DEF Frozen, Held
<1>3. ASSUME action'.total_batches > 0 PROVE \A e \in Due' : Held(e, batches')
  <2>1. ~ Submit
    BY <1>3 DEF Submit, new_action
  <2>2. ASSUME NEW w \in Workers, PlanTotals(w) PROVE \A e \in Due : Held(e, batches)
    BY <2>2 DEF PlanTotals, CoverInv, Covers
  <2>3. CASE action'.total_batches = action.total_batches
    BY <1>1, <1>2, <1>3, <2>3 DEF CoverInv
  <2> QED BY <1>1, <1>2, <2>1, <2>2, <2>3, PlanFrame
<1>4. ASSUME NEW w \in Workers PROVE Covers(proc'[w], batches', action'.batch_size, Due')
  <2>1. CASE Submit
    <3>1. ~ Visible /\ proc' = proc
      BY <2>1 DEF Submit, Visible
    <3>2. proc'[w].pc \notin {"p_page", "p_flush", "p_enqueue", "p_totals"}
      BY <3>1, <1>t DEF WorkersHoldRows, PlanPc
    <3> QED BY <3>2 DEF Covers
  <2>2. CASE ~ Submit
    <3> DEFINE size == action.batch_size
               p == proc[w]
               q == proc'[w]
    <3>1. action'.batch_size = size
      BY <2>2, PlanFrame
    <3>2. Covers(p, batches, size, Due)
      BY DEF CoverInv
    <3>3. ASSUME Covers(q, batches, size, Due) PROVE Covers(q, batches', size, Due')
      BY <1>1, <1>2, <3>3, CoversKept
    <3>4. CASE proc'[w] = proc[w]
      BY <3>1, <3>2, <3>3, <3>4
    <3>5. ASSUME q.pc \notin {"p_page", "p_flush", "p_enqueue", "p_totals"}
          PROVE  Covers(q, batches', size, Due')
      BY <3>5 DEF Covers
    <3>6. CASE PlanPage(w)
      <4> DEFINE row == page_row(p, next_page(p))
      <4>1. /\ p.pc = "p_page" /\ q.pc \in {"p_page", "p_flush"}
            /\ q.pending = Append(p.pending, row)
        BY <3>6, <1>t, WalkMoves
      <4>2. ASSUME NEW e \in Due
            PROVE  /\ Passed(e, q, size) => Passed(e, p, size) \/ e \in row.slice
                   /\ ~ q.more => Passed(e, q, size)
        BY <1>t, <1>1, <3>6, PageCovers
      <4> HIDE DEF row
      <4>3. q.pending # <<>> /\ \A e : e \in row.slice \/ Awaits(e, p) => Awaits(e, q)
        <5>1. /\ Len(p.pending) \in Nat /\ DOMAIN p.pending = 1 .. Len(p.pending)
              /\ DOMAIN q.pending = 1 .. (Len(p.pending) + 1)
              /\ q.pending[Len(p.pending) + 1] = row
              /\ \A k \in 1 .. Len(p.pending) : q.pending[k] = p.pending[k]
          BY <1>t, <4>1
        <5> HIDE DEF p, q
        <5>2. Len(p.pending) + 1 \in DOMAIN q.pending /\ DOMAIN p.pending \subseteq DOMAIN q.pending
          BY <5>1
        <5>3. q.pending # <<>>
          BY <5>2
        <5> QED BY <5>1, <5>2, <5>3 DEF Awaits
      <4>4. \A e \in Due : Passed(e, p, size) => Held(e, batches) \/ Awaits(e, p)
        BY <3>2, <4>1 DEF Covers
      <4>5. Covers(q, batches, size, Due)
        BY <4>1, <4>2, <4>3, <4>4 DEF Covers
      <4> QED BY <3>1, <3>3, <4>5
    <3>7. CASE PlanEndOfWalk(w)
      <4>1. /\ p.pc = "p_page" /\ next_page(p) = {} /\ q.pc = "p_flush" /\ ~ q.more
            /\ q.index = p.index /\ q.last = p.last /\ q.pending = p.pending
        BY <3>7, <1>t, WalkMoves
      <4>2. \A e \in Due : Passed(e, p, size)
        BY <1>t, <1>1, <4>1, EndCovers
      <4>3. \A e \in Due : Passed(e, q, size)
        BY <4>1, <4>2 DEF Passed
      <4>4. \A e \in Due : Held(e, batches) \/ Awaits(e, q)
        BY <3>2, <4>1, <4>2 DEF Covers, Awaits
      <4>5. Covers(q, batches, size, Due)
        BY <4>1, <4>3, <4>4 DEF Covers
      <4> QED BY <3>1, <3>3, <4>5
    <3>8. CASE PlanFlush(w) /\ Moved(w, {"p_totals", "p_enqueue"})
      <4>1. /\ p.pc = "p_flush" /\ q.pc = (IF p.pending = <<>> THEN "p_totals" ELSE "p_enqueue")
            /\ SamePlan(p, q)
        BY <3>8, <1>t DEF PlanFlush, Moved, Goto, Process, TypeOK
      <4>2. \A e : Passed(e, q, size) <=> Passed(e, p, size)
        BY <4>1 DEF Passed, SamePlan
      <4>3. \A e \in Due : Passed(e, p, size) => Held(e, batches')
        BY <1>2, <3>2, <3>8, <4>1, FlushHolds DEF Covers
      <4>4. ~ q.more => \A e \in Due : Passed(e, p, size)
        BY <3>2, <4>1 DEF Covers, SamePlan
      <4>5. q.pc = "p_totals" => ~ q.more
        BY <3>2, <4>1 DEF Covers, SamePlan
      <4>6. Covers(q, batches', size, Due')
        BY <1>1, <4>1, <4>2, <4>3, <4>4, <4>5 DEF Covers
      <4> QED BY <3>1, <4>6
    <3>9. CASE PlanEnqueue(w)
      <4>1. /\ p.pc = "p_enqueue"
            /\ q.pc = (IF Tail(p.pending) # <<>> THEN "p_enqueue"
                       ELSE IF p.more THEN "p_page" ELSE "p_totals")
            /\ q.index = p.index /\ q.last = p.last /\ q.more = p.more
        BY <3>9, <1>t, WalkMoves
      <4>2. \A e : Passed(e, q, size) <=> Passed(e, p, size)
        BY <4>1 DEF Passed
      <4>3. Covers(q, batches, size, Due)
        BY <3>2, <4>1, <4>2 DEF Covers
      <4> QED BY <3>1, <3>3, <4>3
    <3>10. CASE PlanBegin(w) /\ Moved(w, {"p_page"})
      <4>1. q.pc = "p_page" /\ q.index = 0 /\ q.last = 0
        <5>1. SamePlan(idle, p)
          BY <3>10 DEF PlanBegin, KindInv
        <5> QED BY <3>10, <5>1 DEF Moved, SamePlan, idle
      <4>2. \A e \in Due : ~ Passed(e, q, size)
        <5>1. \A e \in Due : ~ Explicit => e \in Nat /\ ~ (e <= 0)
          BY NAssumption DEF Due, Entities
        <5>2. \A i \in FirstIds : ~ (Rank(FirstIds, i) < 0 * size)
          <6>1. size \in Nat
            BY <1>t DEF TypeOK, BulkAction
          <6>2. 0 * size = 0
            BY <6>1
          <6> QED BY <6>2, FirstIdsType
        <5> QED BY <4>1, <5>1, <5>2 DEF Passed
      <4>3. Covers(q, batches, size, Due)
        BY <4>1, <4>2 DEF Covers
      <4> QED BY <3>1, <3>3, <4>3
    <3>11. CASE \/ Moved(w, {"return", "p_begin"}) \/ Moved(w, {"return"}) \/ Moved(w, {"p_fail"})
                \/ Moved(w, {"raise"}) \/ Moved(w, BatchPc \union {"return", "raise"})
      BY <3>1, <3>5, <3>11 DEF Moved, BatchPc
    <3>12. CASE proc'[w] = idle
      BY <3>1, <3>5, <3>12 DEF idle
    <3>13. ASSUME NEW j, Taken(w, j) PROVE Covers(proc'[w], batches', action'.batch_size, Due')
      BY <3>1, <3>5, <3>13 DEF Taken
    <3> QED BY <3>4, <3>6, <3>7, <3>8, <3>9, <3>10, <3>11, <3>12, <3>13, WorkerCases
  <2> QED BY <2>1, <2>2
<1> QED BY <1>1, <1>3, <1>4 DEF CoverInv

\* Once planning has ended, an entity that was in the target set all along
\* belongs to a batch (cursor_batches, id_batches and flush), whatever rows
\* leave and join it meanwhile.
THEOREM PlansCover == ASSUME OnePlan PROVE Spec => []PlanCoversTarget
<1>1. Init => CoverInv
  BY DEF Init, CoverInv, new_action, Covers, idle
<1>2. RowInv /\ PlanInv /\ PlanInv' /\ KindInv /\ CoverInv /\ [Next]_vars => CoverInv'
  BY CoverStep
<1>3. CoverInv => PlanCoversTarget
  BY DEF CoverInv, PlanCoversTarget, Due, Held
<1> QED BY <1>1, <1>2, <1>3, RowInvariant, KindInvariant, PlanInvariant, PTL DEF Spec

-----------------------------------------------------------------------------
(* One job per batch.                                                      *)

\* A planner's rows are numbered on from the ones it has enqueued.
PendInv ==
    \A w \in Workers : proc[w].pc \in {"p_page", "p_flush", "p_enqueue"} =>
        /\ Len(proc[w].pending) <= proc[w].index
        /\ \A k \in DOMAIN proc[w].pending :
              proc[w].pending[k].index = proc[w].index - Len(proc[w].pending) + k - 1

\* No planner will enqueue batch i.
Past(i) ==
    \A w \in Workers : proc[w].pc \in {"p_page", "p_flush", "p_enqueue"} =>
        i < proc[w].index - Len(proc[w].pending)

LEMMA PendStep == ASSUME RowInv, KindInv, PendInv, [Next]_vars PROVE PendInv'
<1>t. /\ TypeOK /\ WorkersHoldRows
      /\ \A w \in Workers : /\ proc[w] \in Process /\ proc[w].index \in Nat
                            /\ proc[w].pending \in Seq(PlannedBatch)
  BY DEF RowInv, TypeOK, Process
<1> DEFINE Pc == {"p_page", "p_flush", "p_enqueue"}
           Numbered(p) == /\ Len(p.pending) <= p.index
                          /\ \A k \in DOMAIN p.pending :
                                p.pending[k].index = p.index - Len(p.pending) + k - 1
<1> SUFFICES ASSUME NEW w \in Workers, proc'[w].pc \in Pc PROVE Numbered(proc'[w])
  BY DEF PendInv
<1>i. proc[w].pc \in Pc => Numbered(proc[w])
  BY DEF PendInv
<1>1. CASE proc'[w] = proc[w]
  BY <1>1, <1>i
<1>2. CASE proc'[w] = idle
  BY <1>2 DEF idle
<1>3. ASSUME NEW j, Taken(w, j) PROVE FALSE
  BY <1>3 DEF Taken
<1>4. CASE PlanPage(w)
  <2>0. PICK row : row = page_row(proc[w], next_page(proc[w]))
    OBVIOUS
  <2>1. /\ proc[w].pc = "p_page" /\ row.index = proc[w].index
        /\ proc'[w].pending = Append(proc[w].pending, row)
        /\ proc'[w].index = proc[w].index + 1
    <3>1. row.index = proc[w].index
      BY <2>0 DEF page_row
    <3> QED BY <1>4, <1>t, <2>0, <3>1, WalkMoves
  <2>2. PICK n \in Nat, s \in Seq(PlannedBatch) : n = proc[w].index /\ s = proc[w].pending
    BY <1>t
  <2>3. /\ Len(Append(s, row)) = Len(s) + 1 /\ DOMAIN Append(s, row) = 1 .. (Len(s) + 1)
        /\ DOMAIN s = 1 .. Len(s) /\ Len(s) \in Nat
        /\ \A k \in DOMAIN s : Append(s, row)[k] = s[k]
        /\ Append(s, row)[Len(s) + 1] = row
    BY <2>2
  <2>4. Len(s) <= n /\ \A k \in DOMAIN s : s[k].index = n - Len(s) + k - 1
    BY <1>i, <2>1, <2>2
  <2>5. ASSUME NEW k \in 1 .. (Len(s) + 1)
        PROVE  Append(s, row)[k].index = (n + 1) - (Len(s) + 1) + k - 1
    <3>1. CASE k \in DOMAIN s
      BY <2>3, <2>4, <3>1
    <3>2. CASE k = Len(s) + 1
      BY <2>1, <2>2, <2>3, <3>2
    <3> QED BY <2>3, <3>1, <3>2
  <2>6. proc'[w].pending = Append(s, row) /\ proc'[w].index = n + 1
    BY <2>1, <2>2
  <2>7. Len(s) + 1 <= n + 1
    BY <2>2, <2>3, <2>4
  <2> QED BY <2>3, <2>5, <2>6, <2>7
<1>5. CASE PlanEndOfWalk(w)
  <2>1. /\ proc[w].pc = "p_page" /\ proc'[w].index = proc[w].index
        /\ proc'[w].pending = proc[w].pending
    BY <1>5, <1>t, WalkMoves
  <2> QED BY <1>i, <2>1
<1>6. CASE PlanEnqueue(w)
  <2>1. /\ proc[w].pc = "p_enqueue" /\ proc'[w].index = proc[w].index
        /\ proc'[w].pending = Tail(proc[w].pending)
    BY <1>6, <1>t, WalkMoves
  <2>2. PICK n \in Nat, s \in Seq(PlannedBatch) : n = proc[w].index /\ s = proc[w].pending
    BY <1>t
  <2>3. s # <<>>
    BY <1>t, <2>1, <2>2 DEF WorkersHoldRows
  <2>4. /\ Len(Tail(s)) = Len(s) - 1 /\ DOMAIN Tail(s) = 1 .. (Len(s) - 1)
        /\ DOMAIN s = 1 .. Len(s) /\ Len(s) \in Nat /\ Len(s) > 0
        /\ \A k \in DOMAIN Tail(s) : Tail(s)[k] = s[k + 1]
    BY <2>2, <2>3
  <2>5. Len(s) <= n /\ \A k \in DOMAIN s : s[k].index = n - Len(s) + k - 1
    BY <1>i, <2>1, <2>2
  <2>6. ASSUME NEW k \in DOMAIN Tail(s) PROVE Tail(s)[k].index = n - Len(Tail(s)) + k - 1
    BY <2>4, <2>5, <2>6
  <2> QED BY <2>1, <2>2, <2>4, <2>5, <2>6
<1>7. CASE PlanBegin(w) /\ Moved(w, {"p_page"})
  <2>1. SamePlan(idle, proc[w])
    BY <1>7 DEF PlanBegin, KindInv
  <2>2. proc'[w].pending = <<>> /\ proc'[w].index = 0
    BY <1>7, <2>1 DEF Moved, SamePlan, idle
  <2> QED BY <2>2
<1>8. CASE PlanFlush(w) /\ Moved(w, {"p_totals", "p_enqueue"})
  BY <1>8, <1>i DEF Moved, SamePlan, PlanFlush
<1>9. CASE \/ Moved(w, {"return", "p_begin"}) \/ Moved(w, {"return"}) \/ Moved(w, {"p_fail"})
           \/ Moved(w, {"raise"}) \/ Moved(w, BatchPc \union {"return", "raise"})
  BY <1>9 DEF Moved, BatchPc
<1> HIDE DEF Numbered, Pc
<1> QED BY <1>1, <1>2, <1>3, <1>4, <1>5, <1>6, <1>7, <1>8, <1>9, WorkerCases

LEMMA PastStep ==
    ASSUME RowInv, KindInv, OnceInv, [Next]_vars, NEW i \in DOMAIN batches, Past(i)
    PROVE  Past(i)'
<1>t. /\ TypeOK /\ WorkersHoldRows /\ i \in Nat
      /\ \A w \in Workers : /\ proc[w] \in Process /\ proc[w].index \in Nat
                            /\ proc[w].pending \in Seq(PlannedBatch)
  BY DEF RowInv, TypeOK, Process
<1> DEFINE Pc == {"p_page", "p_flush", "p_enqueue"}
           Beneath(p) == i < p.index - Len(p.pending)
<1> SUFFICES ASSUME NEW w \in Workers, proc'[w].pc \in Pc PROVE Beneath(proc'[w])
  BY DEF Past
<1>i. proc[w].pc \in Pc => Beneath(proc[w])
  BY DEF Past
<1>s. Len(proc[w].pending) \in Nat
  BY <1>t
<1>1. CASE proc'[w] = proc[w]
  BY <1>1, <1>i
<1>2. CASE proc'[w] = idle
  BY <1>2 DEF idle
<1>3. ASSUME NEW j, Taken(w, j) PROVE FALSE
  BY <1>3 DEF Taken
<1>4. CASE PlanPage(w)
  <2>1. PICK row : /\ proc[w].pc = "p_page" /\ proc'[w].pending = Append(proc[w].pending, row)
                   /\ proc'[w].index = proc[w].index + 1
    BY <1>4, <1>t, WalkMoves
  <2>2. Len(proc'[w].pending) = Len(proc[w].pending) + 1
    BY <1>t, <2>1
  <2> QED BY <1>i, <1>s, <1>t, <2>1, <2>2
<1>5. CASE PlanEndOfWalk(w)
  <2>1. /\ proc[w].pc = "p_page" /\ proc'[w].index = proc[w].index
        /\ proc'[w].pending = proc[w].pending
    BY <1>5, <1>t, WalkMoves
  <2> QED BY <1>i, <2>1
<1>6. CASE PlanEnqueue(w)
  <2>1. /\ proc[w].pc = "p_enqueue" /\ proc'[w].index = proc[w].index
        /\ proc'[w].pending = Tail(proc[w].pending) /\ proc[w].pending # <<>>
    BY <1>6, <1>t, WalkMoves DEF WorkersHoldRows
  <2>2. Len(proc'[w].pending) = Len(proc[w].pending) - 1
    BY <1>t, <2>1
  <2> QED BY <1>i, <1>s, <1>t, <2>1, <2>2
<1>7. CASE PlanBegin(w)
  BY <1>7 DEF PlanBegin, OnceInv, Unplanned
<1>8. CASE PlanFlush(w) /\ Moved(w, {"p_totals", "p_enqueue"})
  BY <1>8, <1>i DEF Moved, SamePlan, PlanFlush
<1>9. CASE \/ Moved(w, {"return", "p_begin"}) \/ Moved(w, {"return"}) \/ Moved(w, {"p_fail"})
           \/ Moved(w, {"raise"}) \/ Moved(w, BatchPc \union {"return", "raise"})
  BY <1>9 DEF Moved, BatchPc
<1> HIDE DEF Beneath, Pc
<1> QED BY <1>1, <1>2, <1>3, <1>4, <1>5, <1>6, <1>7, <1>8, <1>9, WorkerCases

\* The batch a planner enqueues was to come, and is past.
LEMMA EnqueuePasses ==
    ASSUME RowInv, KindInv, DeliveryInv, PendInv, NEW w \in Workers, PlanEnqueue(w),
           NEW i, i = Head(proc[w].pending).index
    PROVE  ~ Past(i) /\ Past(i)'
<1>t. /\ TypeOK /\ WorkersHoldRows
      /\ proc[w].index \in Nat /\ proc[w].pending \in Seq(PlannedBatch)
  BY DEF RowInv, TypeOK, Process
<1>1. /\ proc[w].pc = "p_enqueue" /\ proc[w].pending # <<>> /\ OthersStay(w)
      /\ proc'[w].index = proc[w].index /\ proc'[w].pending = Tail(proc[w].pending)
  BY <1>t, WalkMoves DEF WorkersHoldRows
<1>2. PICK n \in Nat, s \in Seq(PlannedBatch) : n = proc[w].index /\ s = proc[w].pending
  BY <1>t
<1>3. 1 \in DOMAIN s /\ Head(s) = s[1] /\ Len(s) \in Nat /\ Len(Tail(s)) = Len(s) - 1
  BY <1>1, <1>2
<1>4. i = n - Len(s)
  BY <1>1, <1>2, <1>3 DEF PendInv
<1>5. ASSUME NEW v \in Workers, proc'[v].pc \in {"p_page", "p_flush", "p_enqueue"}
      PROVE  i < proc'[v].index - Len(proc'[v].pending)
  <2>1. CASE v = w
    <3>1. proc'[v].index = n /\ Len(proc'[v].pending) = Len(s) - 1
      BY <1>1, <1>2, <1>3, <2>1
    <3> QED BY <1>2, <1>3, <1>4, <3>1
  <2>2. CASE v # w
    <3>1. proc[v].pc \in PlanPc /\ proc[w].pc \in PlanPc
      BY <1>1, <1>5, <2>2 DEF OthersStay, PlanPc
    <3> QED BY <2>2, <3>1, OnePlanner
  <2> QED BY <2>1, <2>2
<1>6. ~ Past(i)
  BY <1>1, <1>2, <1>3, <1>4 DEF Past
<1> QED BY <1>5, <1>6 DEF Past

\* A job that is still to run, or running.
Live(j) ==
    \/ jobs[j].st = "queued"
    \/ \E w \in Workers : proc[w].pc \notin {"idle", "return"} /\ proc[w].job = j

\* A batch that has a job is past the planner, and of its jobs (the first one
\* and its deferred forms) only the latest can be live.
TokenInv ==
    /\ \A j \in DOMAIN jobs : j.kind = "batch" => Past(j.i)
    /\ \A j, k \in DOMAIN jobs :
          j.kind = "batch" /\ k.kind = "batch" /\ j.i = k.i /\ j.d < k.d => ~ Live(j)

\* A job that has ended does not come back.
LEMMA LiveStep ==
    ASSUME OneDelivery, RowInv, [Next]_vars, NEW j \in DOMAIN jobs, j \in DOMAIN jobs', Live(j)'
    PROVE  Live(j)
<1>t. TypeOK
  BY DEF RowInv
<1>0. \A w \in Workers : ~ DuplicateDelivery(w) /\ ~ Crash(w)
  BY DEF OneDelivery, DuplicateDelivery, Crash, Spend
<1>2. ASSUME jobs'[j].st = "queued" PROVE Live(j)
  BY <1>0, <1>2, QueuedStep DEF Live
<1>3. ASSUME NEW w \in Workers, proc'[w].pc \notin {"idle", "return"}, proc'[w].job = j
      PROVE  Live(j)
  <2>1. CASE proc[w].pc \notin {"idle", "return"} /\ proc[w].job = j
    BY <2>1 DEF Live
  <2>2. CASE Dequeue(w)
    <3>1. PICK k \in DOMAIN jobs : jobs[k].st = "queued" /\ Start(w, k)
      BY <2>2 DEF Dequeue
    <3>2. k = j
      BY <1>3, <1>t, <3>1, QueueMoves DEF Taken
    <3> QED BY <3>1, <3>2 DEF Live
  <2>3. CASE proc'[w] = idle
    BY <1>3, <2>3 DEF idle
  <2>4. CASE PlanPage(w) \/ PlanEndOfWalk(w) \/ PlanEnqueue(w)
    <3>1. proc[w].pc \notin {"idle", "return"} /\ proc'[w].job = proc[w].job
      BY <2>4, <1>t, WalkMoves DEF SameJob
    <3> QED BY <1>3, <2>1, <3>1
  <2>5. CASE \/ PlanLoad(w) \/ PlanBegin(w) \/ PlanFlush(w) \/ PlanTotals(w) \/ PlanError(w)
             \/ PlanFail(w) \/ UncaughtError(w)
    <3>1. proc'[w].job = proc[w].job
      BY <2>5, <1>t, PlanMoves DEF Moved, SameJob
    <3>2. proc[w].pc \notin {"idle", "return"}
      BY <2>5 DEF PlanLoad, PlanBegin, PlanFlush, PlanTotals, PlanError, PlanFail, UncaughtError,
                  PlanPc, BatchPc
    <3> QED BY <1>3, <2>1, <3>1, <3>2
  <2>6. CASE proc[w].pc \in BatchPc /\ Moved(w, BatchPc \union {"return", "raise"})
    BY <1>3, <2>1, <2>6 DEF Moved, SameJob, BatchPc
  <2>7. CASE proc'[w] = proc[w]
    BY <1>3, <2>1, <2>7
  <2> QED BY <1>0, <2>2, <2>3, <2>4, <2>5, <2>6, <2>7, WorkerCases
<1> QED BY <1>2, <1>3 DEF Live

\* A worker that is busy with a batch is the only one, and no job of that
\* batch waits.
LEMMA OnlyLive ==
    ASSUME RowInv, DeliveryInv, TokenInv, NEW w \in Workers,
           proc[w].pc \notin {"idle", "return"}, proc[w].job.kind = "batch"
    PROVE  /\ \A j \in DOMAIN jobs : j.kind = "batch" /\ j.i = Index(w) /\ Live(j) => j = proc[w].job
           /\ \A j \in DOMAIN jobs : j.kind = "batch" /\ j.i = Index(w) => jobs[j].st # "queued"
           /\ \A v \in Workers \ {w} :
                 proc[v].job.kind = "batch" /\ Index(v) = Index(w) => proc[v].pc \in {"idle", "return"}
<1> DEFINE k == proc[w].job
<1>1. k \in DOMAIN jobs /\ jobs[k].st = "running" /\ Live(k) /\ k.i = Index(w)
  BY DEF DeliveryInv, Live, Index
<1>2. \A j \in DOMAIN jobs : j \in JobId
  BY DEF RowInv, TypeOK
<1>3. ASSUME NEW j \in DOMAIN jobs, j.kind = "batch", j.i = Index(w), Live(j) PROVE j = k
  <2>1. ~ (j.d < k.d) /\ ~ (k.d < j.d)
    BY <1>1, <1>3 DEF TokenInv
  <2>2. j \in JobId /\ k \in JobId
    BY <1>1, <1>2
  <2>3. j.d = k.d /\ j.i = k.i /\ j.kind = k.kind
    BY <1>1, <1>3, <2>1, <2>2 DEF JobId
  <2> HIDE DEF k
  <2> QED BY <2>2, <2>3 DEF JobId
<1>4. ASSUME NEW j \in DOMAIN jobs, j.kind = "batch", j.i = Index(w), jobs[j].st = "queued"
      PROVE  FALSE
  BY <1>1, <1>3, <1>4 DEF Live
<1>5. ASSUME NEW v \in Workers \ {w}, proc[v].job.kind = "batch", Index(v) = Index(w),
             proc[v].pc \notin {"idle", "return"}
      PROVE  FALSE
  <2>1. proc[v].job \in DOMAIN jobs /\ Live(proc[v].job)
    BY <1>5 DEF DeliveryInv, Live
  <2>2. proc[v].job = k
    BY <1>3, <1>5, <2>1 DEF Index
  <2> QED BY <1>5, <2>2 DEF DeliveryInv
<1> QED BY <1>3, <1>4, <1>5

LEMMA TokenStep ==
    ASSUME OneDelivery, RowInv, KindInv, DeliveryInv, OnceInv, PendInv, TokenInv, [Next]_vars
    PROVE  TokenInv'
<1>t. TypeOK /\ \A j \in DOMAIN jobs : j \in JobId
  BY DEF RowInv, TypeOK
<1>1. \A j \in DOMAIN jobs : j \in DOMAIN jobs' /\ Live(j)' => Live(j)
  BY LiveStep
<1>p. ASSUME NEW j \in DOMAIN jobs, j.kind = "batch" PROVE Past(j.i)'
  <2>1. Past(j.i) /\ j.i \in DOMAIN batches
    BY <1>p DEF TokenInv, RowInv, RowBeforeJob
  <2> QED BY <2>1, PastStep
<1>2. \A i, d : BatchJob(i, d).kind = "batch" /\ BatchJob(i, d).i = i /\ BatchJob(i, d).d = d
  BY DEF BatchJob
<1>3. CASE DOMAIN jobs' \subseteq DOMAIN jobs
  BY <1>1, <1>3, <1>p DEF TokenInv
<1>4. CASE DOMAIN jobs' = DOMAIN jobs \union {PlanJob}
  <2>1. PlanJob.kind # "batch"
    BY DEF PlanJob
  <2> QED BY <1>1, <1>4, <1>p, <2>1 DEF TokenInv
<1>5. ASSUME NEW w \in Workers, PlanEnqueue(w),
             DOMAIN jobs' = DOMAIN jobs \union {BatchJob(Head(proc[w].pending).index, 0)}
      PROVE  TokenInv'
  <2>0. PICK i : i = Head(proc[w].pending).index
    OBVIOUS
  <2> DEFINE n == BatchJob(i, 0)
  <2>1. n.kind = "batch" /\ n.i = i /\ n.d = 0
    BY <1>2
  <2>p. ~ Past(i) /\ Past(i)'
    BY <1>5, <2>0, EnqueuePasses
  <2>2. \A j \in DOMAIN jobs : j.kind = "batch" => j.i # i
    BY <2>p DEF TokenInv
  <2> HIDE DEF n
  <2>3. \A j \in DOMAIN jobs' : j \in DOMAIN jobs \/ j = n
    BY <1>5, <2>0 DEF n
  <2>4. \A j \in DOMAIN jobs' : j.kind = "batch" => Past(j.i)'
    BY <1>p, <2>1, <2>3, <2>p
  <2>5. ASSUME NEW j \in DOMAIN jobs', NEW k \in DOMAIN jobs', j.kind = "batch", k.kind = "batch",
               j.i = k.i, j.d < k.d
        PROVE  ~ Live(j)'
    <3>1. j # k
      BY <2>1, <2>3, <2>5, <1>t DEF JobId
    <3>2. j \in DOMAIN jobs /\ k \in DOMAIN jobs
      BY <2>1, <2>2, <2>3, <2>5, <3>1
    <3> QED BY <1>1, <2>5, <3>2 DEF TokenInv
  <2> QED BY <2>4, <2>5 DEF TokenInv
<1>6. ASSUME NEW w \in Workers, BatchDefer(w),
             DOMAIN jobs' = DOMAIN jobs \union {BatchJob(Index(w), proc[w].job.d + 1)}
      PROVE  TokenInv'
  <2>0. PICK k : k = proc[w].job
    OBVIOUS
  <2> DEFINE n == BatchJob(Index(w), k.d + 1)
  <2>1. /\ proc[w].pc = "b_defer" /\ k.kind = "batch" /\ k.i = Index(w)
        /\ k \in DOMAIN jobs /\ jobs[k].st = "running" /\ Live(k)
    BY <1>6, <2>0 DEF BatchDefer, KindInv, BatchPc, DeliveryInv, Live, Index
  <2>2. n.kind = "batch" /\ n.i = k.i /\ n.d = k.d + 1
    BY <1>2, <2>1
  <2>3. Moved(w, {"return"}) /\ jobs' = enqueue_job(jobs, n)
    BY <1>6, <1>t, <2>0, BatchMoves DEF BatchDefer
  <2>4. k.d \in Nat
    BY <1>t, <2>1 DEF JobId
  <2>5. \A j \in DOMAIN jobs : j.kind = "batch" /\ j.i = k.i /\ Live(j) => j = k
    BY <2>0, <2>1, OnlyLive
  <2> HIDE DEF n
  <2>6. ~ Live(k)'
    <3>1. jobs'[k] = jobs[k]
      BY <2>1, <2>3, EnqueueSteady DEF Steady
    <3>2. ASSUME NEW v \in Workers, proc'[v].pc \notin {"idle", "return"}, proc'[v].job = k
          PROVE  FALSE
      <4>1. v # w /\ proc'[v] = proc[v]
        BY <2>3, <3>2 DEF Moved, OthersStay
      <4> QED BY <2>0, <2>1, <3>2, <4>1 DEF DeliveryInv
    <3> QED BY <2>1, <3>1, <3>2 DEF Live
  <2>7. \A j \in DOMAIN jobs' : j \in DOMAIN jobs \/ j = n
    BY <1>6, <2>0 DEF n
  <2>8. \A j \in DOMAIN jobs' : j.kind = "batch" => Past(j.i)'
    BY <1>p, <2>1, <2>2, <2>7
  <2>9. ASSUME NEW j \in DOMAIN jobs', NEW m \in DOMAIN jobs', j.kind = "batch", m.kind = "batch",
               j.i = m.i, j.d < m.d
        PROVE  ~ Live(j)'
    <3>1. CASE j \in DOMAIN jobs /\ m \in DOMAIN jobs
      BY <1>1, <2>9, <3>1 DEF TokenInv
    <3>2. CASE j \in DOMAIN jobs /\ m = n
      BY <1>1, <2>2, <2>5, <2>6, <2>9, <3>2
    <3>3. CASE j = n /\ m \in DOMAIN jobs
      <4>1. m.d \in Nat
        BY <1>t, <3>3 DEF JobId
      <4>2. k.d < m.d
        BY <2>2, <2>4, <2>9, <3>3, <4>1
      <4> QED BY <2>1, <2>2, <2>9, <3>3, <4>2 DEF TokenInv
    <3>4. CASE j = n /\ m = n
      BY <2>2, <2>4, <2>9, <3>4
    <3> QED BY <2>7, <3>1, <3>2, <3>3, <3>4
  <2> QED BY <2>8, <2>9 DEF TokenInv
<1> QED BY <1>3, <1>4, <1>5, <1>6, NewJobs

\* Whose step writes a batch row that exists.
LEMMA StatusStep ==
    ASSUME RowInv, [Next]_vars, NEW i \in DOMAIN batches
    PROVE  \/ batches'[i] = batches[i]
           \/ \E w \in Workers : /\ Index(w) = i
                                 /\ \/ BatchCancel(w) \/ BatchAttempt(w)
                                    \/ BatchCommit(w) \/ BatchFailed(w)
<1>t. TypeOK /\ WorkersHoldRows /\ BatchesOK(batches)
  BY DEF RowInv, TypeOK, BatchesOK
<1>1. CASE \/ Submit \/ CommitSubmission \/ AbortSubmission \/ cancel_bulk_action \/ Rest
           \/ update_account \/ ExpireResult \/ Abandon \/ UNCHANGED vars
           \/ \E e \in Entities : Leave(e) \/ Join(e)
  <2>1. batches' = batches
    BY <1>1 DEF Submit, CommitSubmission, AbortSubmission, cancel_bulk_action, Rest,
                update_account, ExpireResult, Abandon, vars, db, Leave, Join
  <2> QED BY <2>1
<1>2. ASSUME NEW w \in Workers, PlanFlush(w) PROVE batches'[i] = batches[i]
  BY <1>2 DEF PlanFlush, insert_batches
<1>3. ASSUME NEW w \in Workers, Index(w) # i,
             BatchCancel(w) \/ BatchAttempt(w) \/ BatchCommit(w) \/ BatchFailed(w)
      PROVE  batches'[i] = batches[i]
  <2>1. CASE BatchCancel(w) \/ BatchAttempt(w) \/ BatchFailed(w)
    BY <1>3, <2>1, <1>t DEF BatchCancel, BatchAttempt, BatchFailed, SetBatchStatus, BatchesOK
  <2>2. CASE BatchCommit(w)
    BY <1>3, <2>2, <1>t, CommitShape DEF CommitEffect, BatchesOK
  <2> QED BY <1>3, <2>1, <2>2
<1>4. ASSUME NEW w \in Workers,
             \/ Dequeue(w) \/ Return(w) \/ Raise(w) \/ PlanLoad(w) \/ PlanBegin(w) \/ PlanPage(w)
             \/ PlanEndOfWalk(w) \/ PlanEnqueue(w) \/ PlanTotals(w) \/ PlanFail(w)
             \/ BatchLoad(w) \/ BatchGate(w) \/ BatchDefer(w) \/ BatchCheck(w) \/ BatchRows(w)
             \/ FinalizeSelect(w) \/ FinalizeUpdate(w) \/ WorkerFault(w)
      PROVE  batches' = batches
  BY <1>4 DEF Dequeue, Return, Raise, PlanLoad, PlanBegin, PlanPage, PlanEndOfWalk, PlanEnqueue,
              PlanTotals, PlanFail, BatchLoad, BatchGate, BatchDefer, BatchCheck, BatchRows,
              FinalizeSelect, FinalizeUpdate, WorkerFault, DuplicateDelivery, Crash, PlanError,
              BatchError, UncaughtError, db
<1>5. ASSUME NEW w \in Workers, WorkerStep(w) \/ WorkerFault(w)
      PROVE  \/ batches'[i] = batches[i]
             \/ /\ Index(w) = i
                /\ BatchCancel(w) \/ BatchAttempt(w) \/ BatchCommit(w) \/ BatchFailed(w)
  BY <1>2, <1>3, <1>4, <1>5 DEF WorkerStep
<1> QED BY <1>1, <1>5 DEF Next, Outside

\* What a worker loaded belongs to its batch.
LoadedInv ==
    \A w \in Workers :
        proc[w].pc = "b_commit" => proc[w].rows \subseteq batches[Index(w)].slice

\* Where a step of process_batch comes from.
LEMMA BatchOrigin ==
    ASSUME TypeOK, NEW w \in Workers, BatchStep(w), proc'[w].pc = "b_commit"
    PROVE  BatchRows(w) /\ proc'[w].rows = load_batch_rows(table, batches[Index(w)].slice)
<1>1. ASSUME \/ BatchCancel(w) \/ BatchGate(w) \/ BatchDefer(w) \/ BatchAttempt(w)
             \/ BatchCheck(w) \/ BatchCommit(w) \/ FinalizeSelect(w) \/ FinalizeUpdate(w)
             \/ BatchLoad(w) \/ BatchFailed(w) \/ BatchError(w)
      PROVE  FALSE
  BY <1>1, BatchMoves, LoadMoves DEF Moved
<1>2. BatchRows(w)
  BY <1>1 DEF BatchStep
<1> QED BY <1>2, LoadMoves

LEMMA LoadedStep ==
    ASSUME RowInv, LoadedInv, [Next]_vars
    PROVE  LoadedInv'
<1>t. TypeOK /\ WorkersHoldRows
  BY DEF RowInv
<1> SUFFICES ASSUME NEW w \in Workers, proc'[w].pc = "b_commit"
             PROVE  proc'[w].rows \subseteq batches'[Index(w)'].slice
  BY DEF LoadedInv
<1>1. CASE proc'[w] = proc[w]
  <2>1. Index(w)' = Index(w)
    BY <1>1 DEF Index
  <2>2. proc[w].pc = "b_commit" => batches'[Index(w)].slice = batches[Index(w)].slice
    BY <1>t, FrozenStep DEF Frozen, WorkersHoldRows, BatchPc
  <2> QED BY <1>1, <2>1, <2>2 DEF LoadedInv
<1>3. CASE /\ BatchStep(w) /\ proc[w].pc \in BatchPc
           /\ Moved(w, BatchPc \union {"return", "raise"})
  <2>1. Index(w)' = Index(w)
    BY <1>3 DEF Moved, SameJob, Index
  <2>2. batches'[Index(w)].slice = batches[Index(w)].slice
    BY <1>3, <1>t, FrozenStep DEF Frozen, WorkersHoldRows
  <2>3. load_batch_rows(table, batches[Index(w)].slice) \subseteq batches[Index(w)].slice
    BY DEF load_batch_rows
  <2> QED BY <1>3, <1>t, <2>1, <2>2, <2>3, BatchOrigin
<1>4. CASE PlanPage(w) \/ PlanEndOfWalk(w) \/ PlanEnqueue(w)
  BY <1>4, <1>t, WalkMoves
<1>5. CASE proc'[w] = idle
  BY <1>5 DEF idle
<1>6. ASSUME NEW j, Taken(w, j) PROVE FALSE
  BY <1>6 DEF Taken
<1>7. CASE \/ Moved(w, {"return", "p_begin"}) \/ Moved(w, {"p_page"}) \/ Moved(w, {"return"})
           \/ Moved(w, {"p_totals", "p_enqueue"}) \/ Moved(w, {"p_fail"}) \/ Moved(w, {"raise"})
  BY <1>7 DEF Moved
<1> QED BY <1>1, <1>3, <1>4, <1>5, <1>6, <1>7, WorkerCases

\* What is known of the jobs of an action whose every job is delivered once.
JobsInv ==
    /\ RowInv /\ KindInv /\ DeliveryInv /\ OnceInv /\ FirstTry
    /\ PendInv /\ TokenInv /\ LoadedInv

LEMMA JobsInvariant == ASSUME OneDelivery PROVE Spec => []JobsInv
<1>1. Init => PendInv /\ TokenInv /\ LoadedInv
  BY DEF Init, PendInv, TokenInv, LoadedInv, idle
<1>2. RowInv /\ KindInv /\ PendInv /\ [Next]_vars => PendInv'
  BY PendStep
<1>3. RowInv /\ KindInv /\ DeliveryInv /\ OnceInv /\ PendInv /\ TokenInv /\ [Next]_vars => TokenInv'
  BY TokenStep
<1>4. RowInv /\ LoadedInv /\ [Next]_vars => LoadedInv'
  BY LoadedStep
<1>5. Spec => [](RowInv /\ KindInv /\ DeliveryInv /\ OnceInv /\ FirstTry)
  BY RowInvariant, OnceInvariant, FirstTryInvariant, PTL
<1> QED BY <1>1, <1>2, <1>3, <1>4, <1>5, PTL DEF Spec, JobsInv

-----------------------------------------------------------------------------
(* What is over for a batch.                                               *)

\* The faults under which no committed batch is handed to _mark_batch_failed:
\* finalisation does not raise, or not on a job's last delivery.
LateErrorEnds == "final_error" \notin Faults \/ MaxTries > 1

LEMMA LateError ==
    ASSUME LateErrorEnds, TypeOK, FirstTry, NEW w \in Workers, BatchError(w),
           proc[w].pc \in {"f_select", "f_update"}
    PROVE  proc'[w].pc = "raise"
<1>1. "final_error" \in Faults /\ proc[w].try = 1 /\ proc \in [Workers -> Process]
  BY DEF BatchError, Spend, FirstTry, TypeOK
<1>2. proc[w].try < MaxTries
  BY <1>1, MaxTriesAssumption DEF LateErrorEnds
<1> QED BY <1>1, <1>2 DEF BatchError, Goto, Process

EndPc == {"idle", "return", "raise", "f_select", "f_update", "g_select", "g_update"}

\* No job of batch i is to come, and the worker that has one is at S.
Over(i, S) ==
    /\ Past(i)
    /\ \A j \in DOMAIN jobs : j.kind = "batch" /\ j.i = i => jobs[j].st # "queued"
    /\ \A w \in Workers : proc[w].job.kind = "batch" /\ Index(w) = i => proc[w].pc \in S

\* A batch that has written will not write again; one that has reported will
\* not report again.
Settled(i) == Over(i, EndPc \union {"b_failed"})
Closed(i) == Over(i, EndPc)

LEMMA OverStep ==
    ASSUME OneDelivery, JobsInv, [Next]_vars, NEW i \in DOMAIN batches,
           NEW S, EndPc \subseteq S, S \subseteq EndPc \union {"b_failed"},
           "b_failed" \in S \/ LateErrorEnds, Over(i, S)
    PROVE  Over(i, S)'
<1>t. /\ RowInv /\ KindInv /\ DeliveryInv /\ OnceInv /\ FirstTry /\ PendInv
      /\ TypeOK /\ WorkersHoldRows /\ \A w \in Workers : proc[w] \in Process
  BY DEF JobsInv, RowInv, TypeOK
<1>0. \A w \in Workers : ~ DuplicateDelivery(w) /\ ~ Crash(w)
  BY DEF OneDelivery, DuplicateDelivery, Crash, Spend
<1>1. Past(i)'
  BY <1>t, PastStep DEF Over
<1>2. ASSUME NEW w \in Workers, proc[w].pc \in BatchPc, Index(w) = i
      PROVE  proc[w].pc \in {"b_failed", "f_select", "f_update", "g_select", "g_update"}
  BY <1>2, <1>t DEF Over, KindInv, BatchPc, EndPc
<1>3. ASSUME NEW j \in DOMAIN jobs', j.kind = "batch", j.i = i, jobs'[j].st = "queued"
      PROVE  FALSE
  <2>1. CASE j \in DOMAIN jobs
    BY <1>0, <1>3, <1>t, <2>1, QueuedStep DEF Over
  <2>2. CASE j \notin DOMAIN jobs
    <3>1. \A x : DOMAIN jobs' = DOMAIN jobs \union {x} => x = j
      BY <1>3, <2>2
    <3>2. PlanJob.kind = "plan" /\ \A n, d : BatchJob(n, d).i = n
      BY DEF PlanJob, BatchJob
    <3>3. ASSUME NEW w \in Workers, BatchDefer(w), Index(w) = i PROVE FALSE
      BY <1>2, <3>3 DEF BatchDefer, BatchPc
    <3>4. ASSUME NEW w \in Workers, PlanEnqueue(w), Head(proc[w].pending).index = i PROVE FALSE
      BY <1>t, <3>4, EnqueuePasses DEF Over
    <3>5. ~ (DOMAIN jobs' \subseteq DOMAIN jobs) /\ j # PlanJob
      BY <1>3, <2>2, <3>2
    <3>6. ASSUME NEW w \in Workers, PlanEnqueue(w),
                 DOMAIN jobs' = DOMAIN jobs \union {BatchJob(Head(proc[w].pending).index, 0)}
          PROVE  FALSE
      <4>1. Head(proc[w].pending).index = i
        BY <1>3, <3>1, <3>2, <3>6
      <4> QED BY <3>4, <3>6, <4>1
    <3>7. ASSUME NEW w \in Workers, BatchDefer(w),
                 DOMAIN jobs' = DOMAIN jobs \union {BatchJob(Index(w), proc[w].job.d + 1)}
          PROVE  FALSE
      <4>1. Index(w) = i
        BY <1>3, <3>1, <3>2, <3>7
      <4> QED BY <3>3, <3>7, <4>1
    <3> QED BY <1>t, <3>1, <3>5, <3>6, <3>7, NewJobs
  <2> QED BY <2>1, <2>2
<1>5. ASSUME NEW w \in Workers, proc'[w].job.kind = "batch", Index(w)' = i
      PROVE  proc'[w].pc \in S
  <2>0. proc'[w].job.i = i /\ PlanJob.kind = "plan"
    BY <1>5 DEF Index, PlanJob
  <2>1. CASE proc'[w] = proc[w]
    BY <1>5, <2>0, <2>1 DEF Over, Index
  <2>2. CASE proc'[w].pc \in {"idle", "return", "raise"}
    BY <2>2 DEF EndPc
  <2>3. CASE Dequeue(w)
    <3>1. PICK j \in DOMAIN jobs : jobs[j].st = "queued" /\ Start(w, j)
      BY <2>3 DEF Dequeue
    <3>2. Taken(w, j)
      BY <3>1, <1>t, QueueMoves
    <3> QED BY <1>5, <2>0, <3>1, <3>2 DEF Taken, Over
  <2>4. CASE PlanPage(w) \/ PlanEndOfWalk(w) \/ PlanEnqueue(w)
    <3>1. proc[w].pc \in PlanPc /\ proc'[w].job = proc[w].job
      BY <2>4, <1>t, WalkMoves DEF SameJob, PlanPc
    <3> QED BY <1>5, <1>t, <2>0, <3>1 DEF KindInv
  <2>5. CASE PlanLoad(w) \/ PlanBegin(w) \/ PlanFlush(w) \/ PlanTotals(w) \/ PlanError(w)
    <3>1. proc[w].pc \in PlanPc
      BY <2>5 DEF PlanLoad, PlanBegin, PlanFlush, PlanTotals, PlanError, PlanPc
    <3>2. proc'[w].job = proc[w].job
      BY <2>5, <1>t, PlanMoves DEF Moved, SameJob
    <3> QED BY <1>5, <1>t, <2>0, <3>1, <3>2 DEF KindInv
  <2>6. CASE BatchStep(w) /\ proc[w].pc \in BatchPc /\ Moved(w, BatchPc \union {"return", "raise"})
    <3>1. Index(w) = i /\ proc[w].job.kind = "batch"
      BY <1>5, <2>0, <2>6 DEF Moved, SameJob, Index
    <3>2. /\ proc[w].pc \in {"b_failed", "f_select", "f_update", "g_select", "g_update"}
          /\ proc[w].pc \in S
      BY <1>2, <2>6, <3>1 DEF Over
    <3>3. CASE FinalizeSelect(w)
      BY <1>t, <3>3, LoadMoves DEF Moved, EndPc
    <3>4. CASE FinalizeUpdate(w) \/ BatchFailed(w)
      BY <1>t, <3>4, BatchMoves DEF Moved, EndPc
    <3>5. CASE BatchError(w)
      <4>1. proc[w].pc \in {"f_select", "f_update"}
        BY <3>2, <3>5 DEF BatchError
      <4>2. proc'[w].pc \in {"raise", "b_failed"}
        BY <1>t, <3>5, BatchMoves DEF Moved
      <4>3. LateErrorEnds => proc'[w].pc = "raise"
        BY <1>t, <3>5, <4>1, LateError
      <4> QED BY <4>2, <4>3 DEF EndPc
    <3> QED BY <2>6, <3>2, <3>3, <3>4, <3>5
            DEF BatchStep, BatchLoad, BatchCancel, BatchGate, BatchDefer, BatchAttempt, BatchCheck,
                BatchRows, BatchCommit
  <2>7. ASSUME \/ proc'[w] = idle \/ Moved(w, {"return"}) \/ Moved(w, {"raise"})
        PROVE  proc'[w].pc \in {"idle", "return", "raise"}
    BY <2>7 DEF idle, Moved
  <2> QED BY <1>0, <1>t, <2>1, <2>2, <2>3, <2>4, <2>5, <2>6, <2>7, WorkerCases
<1> QED BY <1>1, <1>3, <1>5 DEF Over

\* A report closes its batch, which was not closed before; a commit settles
\* it, which was not settled before.
LEMMA ReportCloses ==
    ASSUME JobsInv, [Next]_vars,
           NEW w \in Workers, BatchCommit(w) \/ BatchFailed(w), NEW i, i = Index(w)
    PROVE  /\ i \in DOMAIN batches /\ ~ Closed(i) /\ Closed(i)' /\ Settled(i)'
           /\ BatchCommit(w) => ~ Settled(i)
<1>t. /\ RowInv /\ KindInv /\ DeliveryInv /\ OnceInv /\ TokenInv /\ TypeOK /\ WorkersHoldRows
  BY DEF JobsInv, RowInv
<1>1. proc[w].pc \in {"b_commit", "b_failed"} /\ (BatchCommit(w) => proc[w].pc = "b_commit")
  BY DEF BatchCommit, BatchFailed
<1>2. /\ i \in DOMAIN batches /\ proc[w].job.kind = "batch"
      /\ proc[w].job \in DOMAIN jobs /\ proc[w].job.i = i
  BY <1>1, <1>t DEF WorkersHoldRows, BatchPc, KindInv, DeliveryInv, Index
<1>3. jobs' = jobs /\ OthersStay(w) /\ proc'[w].pc \in {"f_select", "g_select"}
  <2>1. Moved(w, {"f_select"}) \/ Moved(w, {"g_select"})
    BY <1>t, BatchMoves
  <2> QED BY <2>1 DEF Moved, BatchCommit, BatchFailed
<1>4. /\ \A j \in DOMAIN jobs : j.kind = "batch" /\ j.i = i => jobs[j].st # "queued"
      /\ \A v \in Workers \ {w} :
            proc[v].job.kind = "batch" /\ Index(v) = i => proc[v].pc \in {"idle", "return"}
  BY <1>1, <1>2, <1>t, OnlyLive
<1>5. ~ Closed(i) /\ (BatchCommit(w) => ~ Settled(i))
  BY <1>1, <1>2 DEF Closed, Settled, Over, EndPc
<1>6. Past(i)'
  BY <1>2, <1>t, PastStep DEF TokenInv
<1>7. ASSUME NEW v \in Workers, proc'[v].job.kind = "batch", Index(v)' = i
      PROVE  proc'[v].pc \in {"idle", "return", "f_select", "g_select"}
  BY <1>3, <1>4, <1>7 DEF OthersStay, Index
<1>8. Closed(i)' /\ Settled(i)'
  BY <1>3, <1>4, <1>6, <1>7 DEF Closed, Settled, Over, EndPc
<1> QED BY <1>2, <1>5, <1>8

-----------------------------------------------------------------------------
(* Single writes.                                                          *)

SpentInv ==
    \A e \in Entities :
        /\ wins[e] <= 1
        /\ wins[e] > 0 => \E i \in DOMAIN batches : e \in batches[i].slice /\ Settled(i)

LEMMA SpentStep ==
    ASSUME OneDelivery, JobsInv, DisjointSlices, SpentInv, [Next]_vars
    PROVE  SpentInv'
<1>t. /\ RowInv /\ LoadedInv /\ TypeOK /\ WorkersHoldRows
      /\ \A e \in Entities : wins[e] \in Nat
  BY DEF JobsInv, RowInv, TypeOK
<1>1. ASSUME NEW e \in Entities, wins[e] > 0
      PROVE  \E i \in DOMAIN batches' : e \in batches'[i].slice /\ Settled(i)'
  <2>1. PICK i \in DOMAIN batches : e \in batches[i].slice /\ Settled(i)
    BY <1>1 DEF SpentInv
  <2>2. i \in DOMAIN batches' /\ e \in batches'[i].slice
    BY <1>t, <2>1, FrozenStep DEF Frozen
  <2>3. Settled(i)'
    BY <2>1, OverStep DEF Settled
  <2> QED BY <2>2, <2>3
<1>2. CASE wins' = wins
  BY <1>1, <1>2 DEF SpentInv
<1>3. ASSUME NEW w \in Workers, BatchCommit(w) PROVE SpentInv'
  <2>1. PICK written \in SUBSET Entities :
          /\ written \subseteq proc[w].rows
          /\ wins' = [e \in Entities |-> IF e \in written THEN wins[e] + 1 ELSE wins[e]]
    <3>1. PICK r \in [success : Nat, failure : Nat, skipped : Nat], written \in SUBSET Entities :
            CommitEffect(w, r, written)
      BY <1>3, <1>t, CommitShape
    <3>2. unique_rows(proc[w].rows, ledger) \subseteq proc[w].rows
      BY DEF unique_rows
    <3> QED BY <3>1, <3>2 DEF CommitEffect
  <2>2. PICK i : i = Index(w) /\ i \in DOMAIN batches' /\ Settled(i)' /\ ~ Settled(i)
    <3>1. PICK i : i = Index(w)
      OBVIOUS
    <3>2. i \in DOMAIN batches /\ Settled(i)' /\ ~ Settled(i)
      BY <1>3, <3>1, ReportCloses
    <3> QED BY <1>t, <3>1, <3>2, FrozenStep DEF Frozen
  <2>3. /\ i \in DOMAIN batches /\ proc[w].rows \subseteq batches[i].slice
        /\ batches'[i].slice = batches[i].slice
    <3>1. proc[w].pc = "b_commit"
      BY <1>3 DEF BatchCommit
    <3> QED BY <1>t, <2>2, <3>1, FrozenStep DEF Frozen, WorkersHoldRows, BatchPc, LoadedInv
  <2>4. ASSUME NEW e \in written PROVE wins[e] = 0
    <3>1. CASE wins[e] > 0
      <4>1. PICK k \in DOMAIN batches : e \in batches[k].slice /\ Settled(k)
        BY <3>1 DEF SpentInv
      <4>2. e \in batches[i].slice
        BY <2>1, <2>3
      <4>3. k = i
        BY <2>3, <4>1, <4>2 DEF DisjointSlices
      <4> QED BY <2>2, <4>1, <4>3
    <3> QED BY <1>t, <3>1
  <2>5. ASSUME NEW e \in Entities
        PROVE  /\ wins'[e] <= 1
               /\ wins'[e] > 0 =>
                     \E k \in DOMAIN batches' : e \in batches'[k].slice /\ Settled(k)'
    <3>1. CASE e \in written
      <4>1. wins'[e] = 1
        BY <2>1, <2>4, <3>1
      <4>2. e \in batches'[i].slice
        BY <2>1, <2>3, <3>1
      <4> QED BY <2>2, <4>1, <4>2
    <3>2. CASE e \notin written
      <4>1. wins'[e] = wins[e]
        BY <2>1, <3>2
      <4> QED BY <1>1, <4>1 DEF SpentInv
    <3> QED BY <3>1, <3>2
  <2> QED BY <2>5 DEF SpentInv
<1>4. wins' = wins \/ \E w \in Workers : BatchCommit(w)
  BY <1>t, StepKinds DEF QuietStep, Submit, BatchFailed
<1> QED BY <1>2, <1>3, <1>4

\* No row is written twice by one action (run_batch, _mark_batch_failed and the
\* queue's job ids), through errors, deferrals, timeouts, expired results and
\* failed batches, as long as no job is delivered twice.
THEOREM WritesAreSingle == ASSUME OneDelivery PROVE Spec => []NoDoubleWrite
<1>1. Init => SpentInv
  BY DEF Init, SpentInv
<1>2. JobsInv /\ DisjointSlices /\ SpentInv /\ [Next]_vars => SpentInv'
  BY SpentStep
<1>3. SpentInv => NoDoubleWrite
  BY DEF SpentInv, NoDoubleWrite
<1>4. OnePlan
  BY DEF OnePlan
<1> QED BY <1>1, <1>2, <1>3, <1>4, JobsInvariant, SlicesAreDisjoint, PTL DEF Spec

-----------------------------------------------------------------------------
(* Tallies: the counters of the bulk action are the sums over the batches  *)
(* that have reported, because a batch reports once.                       *)

LEMMA ClosedStep ==
    ASSUME OneDelivery, LateErrorEnds, JobsInv, [Next]_vars,
           NEW i \in DOMAIN batches, Closed(i)
    PROVE  Closed(i)' /\ batches'[i] = batches[i]
<1>1. Closed(i)'
  BY OverStep DEF Closed
<1>2. ASSUME NEW w \in Workers, Index(w) = i,
             BatchCancel(w) \/ BatchAttempt(w) \/ BatchCommit(w) \/ BatchFailed(w)
      PROVE  FALSE
  <2>1. proc[w].pc \in {"b_cancel", "b_attempt", "b_commit", "b_failed"}
    BY <1>2 DEF BatchCancel, BatchAttempt, BatchCommit, BatchFailed
  <2> QED BY <1>2, <2>1 DEF Closed, Over, EndPc, JobsInv, KindInv, BatchPc
<1> QED BY <1>1, <1>2, StatusStep DEF JobsInv

Zero(r) == r.success_count = 0 /\ r.failure_count = 0 /\ r.skipped_count = 0

\* A batch that has reported is closed; one that has not carries no tally.
ClosedInv ==
    \A i \in DOMAIN batches : IF i \in Reported THEN Closed(i) ELSE Zero(batches[i])

\* What a report does to the rows and to the counters.
LEMMA ReportEffect ==
    ASSUME RowInv, NEW w \in Workers, BatchCommit(w) \/ BatchFailed(w), NEW i, i = Index(w)
    PROVE  /\ i \in DOMAIN batches /\ DOMAIN batches' = DOMAIN batches
           /\ \A k \in DOMAIN batches \ {i} : batches'[k] = batches[k]
           /\ Reported' = Reported \union {i}
           /\ \E r \in [success : Nat, failure : Nat, skipped : Nat] :
                 /\ action' = record_batch_completion(action, r.success, r.failure, r.skipped)
                 /\ Zero(batches[i]) =>
                       /\ batches'[i].success_count = r.success
                       /\ batches'[i].failure_count = r.failure
                       /\ batches'[i].skipped_count = r.skipped
<1>t. TypeOK /\ WorkersHoldRows /\ BatchesOK(batches) /\ proc \in [Workers -> Process]
  BY DEF RowInv, TypeOK, BatchesOK
<1>1. i \in DOMAIN batches
  BY <1>t DEF BatchCommit, BatchFailed, WorkersHoldRows, BatchPc
<1>2. batches[i] \in BulkActionBatch
  BY <1>1, <1>t DEF BatchesOK
<1>3. ASSUME /\ DOMAIN batches' = DOMAIN batches /\ batches'[i].status \in {"completed", "failed"}
             /\ \A k \in DOMAIN batches \ {i} : batches'[k] = batches[k]
      PROVE  Reported' = Reported \union {i}
  BY <1>1, <1>3 DEF Reported
<1>4. CASE BatchCommit(w)
  <2>1. PICK r \in [success : Nat, failure : Nat, skipped : Nat], written \in SUBSET Entities :
          CommitEffect(w, r, written)
    BY <1>4, <1>t, CommitShape
  <2> DEFINE row == [batches[i] EXCEPT !.status = "completed", !.success_count = r.success,
                                       !.failure_count = r.failure, !.skipped_count = r.skipped]
  <2>2. batches' = [batches EXCEPT ![i] = row]
    BY <1>1, <2>1 DEF CommitEffect
  <2>3. /\ row.status = "completed" /\ row.success_count = r.success
        /\ row.failure_count = r.failure /\ row.skipped_count = r.skipped
    BY <1>2 DEF BulkActionBatch
  <2> HIDE DEF row
  <2>4. action' = record_batch_completion(action, r.success, r.failure, r.skipped)
    BY <2>1 DEF CommitEffect
  <2>5. /\ DOMAIN batches' = DOMAIN batches /\ batches'[i] = row
        /\ \A k \in DOMAIN batches \ {i} : batches'[k] = batches[k]
        /\ Reported' = Reported \union {i}
    <3>1. /\ DOMAIN batches' = DOMAIN batches /\ batches'[i] = row
          /\ \A k \in DOMAIN batches \ {i} : batches'[k] = batches[k]
      BY <1>1, <2>2
    <3> QED BY <1>3, <2>3, <3>1
  <2> QED BY <1>1, <2>3, <2>4, <2>5
<1>5. CASE BatchFailed(w)
  <2>1. PICK n \in Nat : n = proc[w].entity_count
    BY <1>t DEF Process
  <2> DEFINE row == [batches[i] EXCEPT !.status = "failed", !.failure_count = n]
             r == [success |-> 0, failure |-> n, skipped |-> 0]
  <2>2. batches' = [batches EXCEPT ![i] = row]
    BY <1>1, <1>5, <2>1 DEF BatchFailed
  <2>3. /\ row.status = "failed" /\ row.success_count = batches[i].success_count
        /\ row.failure_count = n /\ row.skipped_count = batches[i].skipped_count
    BY <1>2 DEF BulkActionBatch
  <2>4. action' = record_batch_completion(action, r.success, r.failure, r.skipped)
    BY <1>5, <2>1 DEF BatchFailed
  <2>5. r \in [success : Nat, failure : Nat, skipped : Nat]
    OBVIOUS
  <2>6. r.success = 0 /\ r.failure = n /\ r.skipped = 0
    OBVIOUS
  <2> HIDE DEF row, r
  <2>7. /\ DOMAIN batches' = DOMAIN batches /\ batches'[i] = row
        /\ \A k \in DOMAIN batches \ {i} : batches'[k] = batches[k]
        /\ Reported' = Reported \union {i}
    <3>1. /\ DOMAIN batches' = DOMAIN batches /\ batches'[i] = row
          /\ \A k \in DOMAIN batches \ {i} : batches'[k] = batches[k]
      BY <1>1, <2>2
    <3> QED BY <1>3, <2>3, <3>1
  <2> QED BY <1>1, <2>3, <2>4, <2>5, <2>6, <2>7 DEF Zero
<1> QED BY <1>4, <1>5

\* What any other step does to the rows.
LEMMA OtherSteps ==
    ASSUME RowInv, KindInv, ClosedInv, [Next]_vars,
           ~ \E w \in Workers : BatchCommit(w) \/ BatchFailed(w)
    PROVE  /\ Reported' = Reported
           /\ \A i \in Reported : batches'[i] = batches[i]
           /\ \A i \in DOMAIN batches' \ Reported : Zero(batches'[i])
<1>t. TypeOK /\ WorkersHoldRows /\ BatchesOK(batches) /\ proc \in [Workers -> Process]
  BY DEF RowInv, TypeOK, BatchesOK
<1>1. DOMAIN batches \subseteq DOMAIN batches'
  BY FrozenStep DEF Frozen
<1>2. ASSUME NEW i \in DOMAIN batches
      PROVE  \/ batches'[i] = batches[i]
             \/ /\ i \notin Reported /\ batches'[i].status \notin {"completed", "failed"}
                /\ Zero(batches[i]) => Zero(batches'[i])
  <2>1. CASE batches'[i] = batches[i]
    BY <2>1
  <2>2. ASSUME NEW w \in Workers, Index(w) = i, BatchCancel(w) \/ BatchAttempt(w),
               batches'[i] # batches[i]
        PROVE  /\ i \notin Reported /\ batches'[i].status \notin {"completed", "failed"}
               /\ Zero(batches[i]) => Zero(batches'[i])
    <3>1. i \notin Reported
      BY <2>2 DEF ClosedInv, Closed, Over, EndPc, BatchCancel, BatchAttempt, KindInv, BatchPc
    <3>2. PICK st \in {"cancelled", "processing"} : batches' = [batches EXCEPT ![i].status = st]
      BY <2>2 DEF BatchCancel, BatchAttempt, SetBatchStatus
    <3>3. batches[i] \in BulkActionBatch
      BY <1>t DEF BatchesOK
    <3>4. /\ batches'[i].status = st /\ batches'[i].success_count = batches[i].success_count
          /\ batches'[i].failure_count = batches[i].failure_count
          /\ batches'[i].skipped_count = batches[i].skipped_count
      BY <3>2, <3>3 DEF BulkActionBatch
    <3> QED BY <3>1, <3>4 DEF Zero
  <2> QED BY <2>1, <2>2, StatusStep
<1>3. ASSUME NEW i \in DOMAIN batches' \ DOMAIN batches
      PROVE  batches'[i].status = "pending" /\ Zero(batches'[i])
  <2>1. PICK w \in Workers : PlanFlush(w)
    BY <1>3, PlanFrame
  <2> DEFINE s == proc[w].pending
             x == s[CHOOSE k \in DOMAIN s : s[k].index = i]
  <2>2. batches' = insert_batches(batches, s)
    BY <2>1 DEF PlanFlush
  <2>3. batches'[i] = new_batch(x)
    BY <1>3, <2>2 DEF insert_batches
  <2> HIDE DEF x
  <2> QED BY <2>3 DEF new_batch, Zero
<1>4. Reported' = Reported
  BY <1>1, <1>2, <1>3 DEF Reported
<1>5. \A i \in Reported : batches'[i] = batches[i]
  BY <1>2 DEF Reported
<1>6. ASSUME NEW i \in DOMAIN batches' \ Reported PROVE Zero(batches'[i])
  BY <1>2, <1>3, <1>6 DEF ClosedInv
<1> QED BY <1>4, <1>5, <1>6

LEMMA ClosedInvStep ==
    ASSUME OneDelivery, LateErrorEnds, JobsInv, ClosedInv, [Next]_vars
    PROVE  ClosedInv'
<1>t. RowInv /\ KindInv
  BY DEF JobsInv
<1>1. ASSUME NEW i \in Reported PROVE Closed(i)'
  BY <1>1, ClosedStep DEF ClosedInv, Reported
<1>2. CASE \E w \in Workers : BatchCommit(w) \/ BatchFailed(w)
  <2>1. PICK w \in Workers : BatchCommit(w) \/ BatchFailed(w)
    BY <1>2
  <2>2. PICK i : i = Index(w)
    OBVIOUS
  <2>3. /\ DOMAIN batches' = DOMAIN batches /\ Reported' = Reported \union {i}
        /\ \A k \in DOMAIN batches \ {i} : batches'[k] = batches[k]
    BY <1>t, <2>1, <2>2, ReportEffect
  <2>4. Closed(i)'
    BY <2>1, <2>2, ReportCloses
  <2>5. ASSUME NEW k \in DOMAIN batches'
        PROVE  IF k \in Reported' THEN Closed(k)' ELSE Zero(batches'[k])
    <3>1. CASE k = i
      BY <2>3, <2>4, <3>1
    <3>2. CASE k # i /\ k \in Reported
      BY <1>1, <2>3, <3>2
    <3>3. CASE k # i /\ k \notin Reported
      BY <2>3, <2>5, <3>3 DEF ClosedInv
    <3> QED BY <3>1, <3>2, <3>3
  <2> QED BY <2>5 DEF ClosedInv, Zero
<1>3. CASE ~ \E w \in Workers : BatchCommit(w) \/ BatchFailed(w)
  <2>1. Reported' = Reported /\ \A i \in DOMAIN batches' \ Reported : Zero(batches'[i])
    BY <1>3, <1>t, OtherSteps
  <2> QED BY <1>1, <2>1 DEF ClosedInv, Zero
<1> QED BY <1>2, <1>3

LEMMA ClosedInvariant ==
    ASSUME OneDelivery, LateErrorEnds
    PROVE  Spec => [](JobsInv /\ RowInv /\ KindInv /\ ReportInv /\ ClosedInv)
<1>1. Init => ClosedInv
  BY DEF Init, ClosedInv
<1>2. JobsInv /\ ClosedInv /\ [Next]_vars => ClosedInv'
  BY ClosedInvStep
<1>3. JobsInv => RowInv /\ KindInv
  BY DEF JobsInv
<1> QED BY <1>1, <1>2, <1>3, JobsInvariant, ReportInvariant, PTL DEF Spec

\* The counters of the action as totals over the batches that have reported.
TallyInv ==
    /\ action.success_count = Total(batches, "success_count", Reported)
    /\ action.failure_count = Total(batches, "failure_count", Reported)
    /\ action.skipped_count = Total(batches, "skipped_count", Reported)

LEMMA TallyStep ==
    ASSUME JobsInv, RowInv, RowInv', ReportInv, KindInv, ClosedInv, TallyInv, [Next]_vars
    PROVE  TallyInv'
<1>t. TypeOK /\ TypeOK' /\ action \in BulkAction
  BY DEF RowInv, TypeOK
<1>f. IsFiniteSet(Reported)
  BY FS_Subset DEF ReportInv, Reported
<1>n. \A k \in DOMAIN batches' : /\ batches'[k]["success_count"] \in Nat
                                 /\ batches'[k]["failure_count"] \in Nat
                                 /\ batches'[k]["skipped_count"] \in Nat
  <2>1. \A k \in DOMAIN batches' : batches'[k] \in BulkActionBatch
    BY <1>t DEF TypeOK
  <2> QED BY <2>1 DEF BulkActionBatch
<1>1. CASE \E w \in Workers : BatchCommit(w) \/ BatchFailed(w)
  <2>1. PICK w \in Workers : BatchCommit(w) \/ BatchFailed(w)
    BY <1>1
  <2>2. PICK i : i = Index(w)
    OBVIOUS
  <2>3. /\ i \in DOMAIN batches /\ DOMAIN batches' = DOMAIN batches
        /\ \A k \in DOMAIN batches \ {i} : batches'[k] = batches[k]
        /\ Reported' = Reported \union {i}
    BY <2>1, <2>2, ReportEffect
  <2>4. i \notin Reported /\ Zero(batches[i])
    BY <2>1, <2>2, <2>3, ReportCloses DEF ClosedInv
  <2>5. PICK r \in [success : Nat, failure : Nat, skipped : Nat] :
          /\ action' = record_batch_completion(action, r.success, r.failure, r.skipped)
          /\ batches'[i].success_count = r.success
          /\ batches'[i].failure_count = r.failure
          /\ batches'[i].skipped_count = r.skipped
    BY <2>1, <2>2, <2>4, ReportEffect
  <2>6. /\ action'.success_count = action.success_count + r.success
        /\ action'.failure_count = action.failure_count + r.failure
        /\ action'.skipped_count = action.skipped_count + r.skipped
    BY <1>t, <2>5 DEF record_batch_completion, BulkAction
  <2>7. \A k \in Reported : batches[k] = batches'[k] /\ k \in DOMAIN batches'
    BY <2>3, <2>4 DEF Reported
  <2>8. ASSUME NEW field \in {"success_count", "failure_count", "skipped_count"}
        PROVE  Total(batches', field, Reported') = Total(batches, field, Reported) + batches'[i][field]
    <3>1. \A k \in Reported \union {i} : batches'[k][field] \in Nat
      BY <1>n, <2>3, <2>7
    <3>2. PICK b, c, S : b = batches /\ c = batches' /\ S = Reported
      OBVIOUS
    <3>3. Total(c, field, S \union {i}) = Total(b, field, S) + c[i][field]
      <4>1. /\ IsFiniteSet(S) /\ i \notin S /\ c[i][field] \in Nat
            /\ \A k \in S : c[k][field] \in Nat /\ b[k][field] = c[k][field]
        BY <1>f, <2>4, <2>7, <3>1, <3>2
      <4> QED BY ONLY <4>1, TotalExtends
    <3> QED BY <2>3, <3>2, <3>3
  <2> QED BY <2>5, <2>6, <2>8 DEF TallyInv
<1>2. CASE ~ \E w \in Workers : BatchCommit(w) \/ BatchFailed(w)
  <2>1. Reported' = Reported /\ \A i \in Reported : batches'[i] = batches[i]
    BY <1>2, OtherSteps
  <2>2. ASSUME NEW field PROVE Total(batches', field, Reported') = Total(batches, field, Reported)
    <3>1. PICK b, c, S : b = batches /\ c = batches' /\ S = Reported
      OBVIOUS
    <3>2. \A x \in S : c[x][field] = b[x][field]
      BY <2>1, <3>1
    <3>3. Total(c, field, S) = Total(b, field, S)
      BY <3>2, TotalSame
    <3> QED BY <2>1, <3>1, <3>3
  <2>3. CASE QuietStep
    BY <2>2, <2>3 DEF QuietStep, SameCounters, TallyInv
  <2>4. CASE Submit
    <3>1. Reported = {}
      BY <2>4 DEF Submit, ReportInv, Visible, Reported
    <3>2. \A field : Total(batches', field, Reported') = 0
      BY <2>1, <3>1, TotalEmpty
    <3>3. /\ action'.success_count = 0 /\ action'.failure_count = 0 /\ action'.skipped_count = 0
      BY <2>4 DEF Submit, new_action
    <3> QED BY <3>2, <3>3 DEF TallyInv
  <2> QED BY <1>2, <2>3, <2>4, StepKinds
<1> QED BY <1>1, <1>2

LEMMA TallyInvariant ==
    ASSUME OneDelivery, LateErrorEnds
    PROVE  Spec => []TallyInv
<1>1. Init => TallyInv
  <2> SUFFICES ASSUME Init PROVE TallyInv
    OBVIOUS
  <2>1. Reported = {}
    BY DEF Init, Reported
  <2>2. action.success_count = 0 /\ action.failure_count = 0 /\ action.skipped_count = 0
    BY DEF Init, new_action
  <2> QED BY <2>1, <2>2, TotalEmpty DEF TallyInv
<1>2. JobsInv /\ RowInv /\ RowInv' /\ ReportInv /\ KindInv /\ ClosedInv /\ TallyInv /\ [Next]_vars
        => TallyInv'
  BY TallyStep
<1> QED BY <1>1, <1>2, ClosedInvariant, PTL DEF Spec

\* The batch rows account for the action's counters (run_batch,
\* _mark_batch_failed and record_batch_completion): no report is counted twice
\* and none is missing, through errors, timeouts, deferrals, expired results
\* and failed batches, as long as no job is delivered twice and a batch whose
\* finalisation raised is not given up as well.
THEOREM TalliesAgree ==
    ASSUME OneDelivery, LateErrorEnds
    PROVE  Spec => []TalliesAddUp
<1>1. RowInv /\ ReportInv /\ TallyInv => TalliesAddUp
  <2> SUFFICES ASSUME RowInv, ReportInv, TallyInv PROVE TalliesAddUp
    OBVIOUS
  <2>1. IsFiniteSet(Reported)
    BY FS_Subset DEF ReportInv, Reported
  <2>2. \A k \in Reported : batches[k] \in BulkActionBatch
    BY DEF Reported, RowInv, TypeOK
  <2>3. \A k \in Reported : /\ batches[k]["success_count"] \in Nat
                            /\ batches[k]["failure_count"] \in Nat
                            /\ batches[k]["skipped_count"] \in Nat
    BY <2>2 DEF BulkActionBatch
  <2>4. ASSUME NEW field \in {"success_count", "failure_count", "skipped_count"}
        PROVE  MapThenSumSet(LAMBDA i : batches[i][field], Reported) = Total(batches, field, Reported)
    BY <2>1, <2>3, SumIsTotal
  <2> QED BY <2>4 DEF TallyInv, TalliesAddUp
<1> QED BY <1>1, RowInvariant, ReportInvariant, TallyInvariant, PTL
-----------------------------------------------------------------------------
(* Exact completion: a batch reports the size it was planned with, and the *)
(* action completes when every batch of a finished plan has reported.      *)

\* No row joins the target set of a filter.
NoNewRows == Explicit \/ "join" \notin Faults

\* What a batch can still load of its slice, at most.
Reach(s, t) == IF Explicit THEN s ELSE s \intersect selection_clause(t)

\* Then the target set only shrinks: the actions never make a row match.
LEMMA ReachStep ==
    ASSUME NoNewRows, RowInv, [Next]_vars, NEW s \in SUBSET Entities
    PROVE  /\ Cardinality(Reach(s, table')) <= Cardinality(Reach(s, table))
           /\ Cardinality(Reach(s, table')) \in Nat /\ Cardinality(Reach(s, table)) \in Nat
<1>t. TypeOK /\ WorkersHoldRows /\ table \in [Entities -> RowState]
  BY DEF RowInv, TypeOK
<1>1. ASSUME ~ Explicit PROVE selection_clause(table') \subseteq selection_clause(table)
  <2>1. CASE table' = table
    BY <2>1
  <2>2. ASSUME NEW e \in Entities, Leave(e)
        PROVE  selection_clause(table') \subseteq selection_clause(table)
    <3>1. e \in selection_clause(table) /\ \A f \in Entities \ {e} : table'[f] = table[f]
      BY <2>2, <1>t DEF Leave
    <3> QED BY <3>1 DEF selection_clause
  <2>3. \A e \in Entities : ~ Join(e)
    BY <1>1 DEF NoNewRows, Join, Spend
  <2>4. ASSUME NEW w \in Workers, BatchCommit(w)
        PROVE  selection_clause(table') \subseteq selection_clause(table)
    <3>1. PICK written \in SUBSET Entities : table' = table_after(table, written)
      BY <2>4, <1>t, CommitShape DEF CommitEffect
    <3>2. \A state \in RowState :
             row_after(state) \in {"match", "held"} => state \in {"match", "held"}
      BY ActionTypeAssumption DEF row_after, RowState
    <3>3. \A e \in Entities : table'[e] = IF e \in written THEN row_after(table[e]) ELSE table[e]
      BY <3>1 DEF table_after
    <3> QED BY <1>t, <3>2, <3>3 DEF selection_clause
  <2> QED BY <2>1, <2>2, <2>3, <2>4, TableFrame
<1>2. Reach(s, table') \subseteq Reach(s, table) /\ Reach(s, table) \in SUBSET Entities
  BY <1>1 DEF Reach
<1>3. IsFiniteSet(Reach(s, table)) /\ IsFiniteSet(Reach(s, table'))
  BY <1>2, EntitySets
<1> QED BY <1>2, <1>3, FS_Subset, FS_CardinalityType

\* The range a page is stored as holds no other row of the target set.
LEMMA PageReach ==
    ASSUME TypeOK, NEW w \in Workers
    PROVE  Cardinality(Reach(page_row(proc[w], next_page(proc[w])).slice, table))
             <= Cardinality(next_page(proc[w]))
<1> DEFINE page == next_page(proc[w])
           r == Reach(page_row(proc[w], page).slice, table)
<1>1. page \in SUBSET Entities
  BY PageSize
<1>2. CASE Explicit
  <2>1. r = page
    BY <1>2 DEF Reach, page_row
  <2>2. Cardinality(page) \in Nat
    BY <1>1, EntitySets
  <2> QED BY <2>1, <2>2
<1>3. CASE ~ Explicit
  <2>1. /\ proc[w].last \in Nat /\ action.batch_size \in Nat \ {0}
        /\ page = filter_page(table, proc[w].last, action.batch_size)
    BY <1>3 DEF TypeOK, Process, BulkAction, next_page
  <2>2. r = cursor_range(page) \intersect selection_clause(table)
    BY <1>3 DEF Reach, page_row
  <2>3. /\ page \subseteq Beyond(table, proc[w].last)
        /\ \A e \in Beyond(table, proc[w].last), m \in page : e <= m => e \in page
    BY <2>1, FilterPageFacts
  <2> HIDE DEF page
  <2>4. ASSUME NEW e \in cursor_range(page), e \in selection_clause(table) PROVE e \in page
    <3>1. PICK lo \in page, hi \in page : lo <= e /\ e <= hi
      BY <2>4 DEF cursor_range
    <3>2. lo > proc[w].last
      BY <2>3 DEF Beyond
    <3>3. e \in Nat /\ lo \in Nat /\ hi \in Nat
      BY <1>1, <2>4, NAssumption DEF cursor_range, Entities
    <3>4. e > proc[w].last
      BY <2>1, <3>1, <3>2, <3>3
    <3>5. e \in Beyond(table, proc[w].last)
      BY <2>4, <3>4 DEF Beyond
    <3> QED BY <2>3, <3>1, <3>5
  <2>5. r \subseteq page /\ IsFiniteSet(page)
    BY <1>1, <2>2, <2>4, EntitySets
  <2> QED BY <2>5, FS_Subset DEF page
<1> QED BY <1>2, <1>3

\* Where process_batch holds the size of its batch.
CarryPc == {"b_gate", "b_defer", "b_attempt", "b_check", "b_rows", "b_commit", "b_failed"}

\* No batch can load more rows than it was planned with, and its job holds the
\* planned size.
FitInv ==
    /\ \A i \in DOMAIN batches :
          Cardinality(Reach(batches[i].slice, table)) <= batches[i].entity_count
    /\ \A w \in Workers : \A k \in DOMAIN proc[w].pending :
          Cardinality(Reach(proc[w].pending[k].slice, table)) <= proc[w].pending[k].entity_count
    /\ \A w \in Workers :
          /\ proc[w].pc \in CarryPc => proc[w].entity_count = batches[Index(w)].entity_count
          /\ proc[w].pc = "b_commit" => Cardinality(proc[w].rows) <= batches[Index(w)].entity_count

\* The size is read with the batch and kept.
LEMMA CarryStep ==
    ASSUME LateErrorEnds, TypeOK, FirstTry, NEW w \in Workers, BatchStep(w),
           proc'[w].pc \in CarryPc
    PROVE  \/ proc[w].pc \in CarryPc /\ proc'[w].entity_count = proc[w].entity_count
           \/ proc'[w].entity_count = batches[Index(w)].entity_count
<1>1. CASE BatchLoad(w)
  BY <1>1, LoadMoves DEF Moved, CarryPc
<1>2. CASE BatchRows(w)
  BY <1>2, LoadMoves DEF BatchRows, CarryPc
<1>3. CASE \/ BatchCancel(w) \/ BatchDefer(w) \/ BatchCommit(w) \/ FinalizeSelect(w)
           \/ FinalizeUpdate(w) \/ BatchFailed(w)
  BY <1>3, LoadMoves, BatchMoves DEF Moved, CarryPc
<1>4. CASE BatchGate(w) \/ BatchAttempt(w) \/ BatchCheck(w) \/ BatchError(w)
  <2>1. proc[w].pc \in CarryPc
    BY <1>4, LateError DEF BatchGate, BatchAttempt, BatchCheck, BatchError, CarryPc
  <2>2. \E pc : Goto(w, pc)
    BY <1>4 DEF BatchGate, BatchAttempt, BatchCheck, BatchError
  <2>3. SameLoad(proc[w], proc'[w])
    BY <2>2, GotoMoves
  <2> QED BY <2>1, <2>3 DEF SameLoad
<1> QED BY <1>1, <1>2, <1>3, <1>4 DEF BatchStep

LEMMA FitStep ==
    ASSUME NoNewRows, LateErrorEnds, RowInv, FirstTry, FitInv, [Next]_vars
    PROVE  FitInv'
<1>t. /\ TypeOK /\ WorkersHoldRows /\ BatchesOK(batches) /\ proc \in [Workers -> Process]
      /\ RowInv'
  BY NextRowInv DEF RowInv, TypeOK, BatchesOK
<1>b. \A i \in DOMAIN batches : batches[i].slice \in SUBSET Entities /\ batches[i].entity_count \in Nat
  BY <1>t DEF BatchesOK, BulkActionBatch
<1>p. \A w \in Workers : \A k \in DOMAIN proc[w].pending :
        /\ proc[w].pending[k].slice \in SUBSET Entities
        /\ proc[w].pending[k].entity_count \in Nat
  <2>1. \A w \in Workers : proc[w].pending \in Seq(PlannedBatch)
    BY <1>t DEF Process
  <2>2. \A w \in Workers : \A k \in DOMAIN proc[w].pending : proc[w].pending[k] \in PlannedBatch
    BY <2>1
  <2> QED BY <2>2 DEF PlannedBatch
<1>1. ASSUME NEW s \in SUBSET Entities, NEW n \in Nat, Cardinality(Reach(s, table)) <= n
      PROVE  Cardinality(Reach(s, table')) <= n
  BY <1>1, ReachStep
<1>2. ASSUME NEW i \in DOMAIN batches'
      PROVE  Cardinality(Reach(batches'[i].slice, table')) <= batches'[i].entity_count
  <2>1. CASE i \in DOMAIN batches
    <3>1. batches'[i].slice = batches[i].slice /\ batches'[i].entity_count = batches[i].entity_count
      BY <2>1, FrozenStep DEF Frozen
    <3> QED BY <1>1, <1>b, <2>1, <3>1 DEF FitInv
  <2>2. CASE i \notin DOMAIN batches
    <3>1. PICK w \in Workers : PlanFlush(w)
      BY <1>2, <2>2, PlanFrame
    <3>2. proc[w].pending \in Seq(PlannedBatch) /\ batches' = insert_batches(batches, proc[w].pending)
      BY <1>t, <3>1 DEF Process, PlanFlush
    <3>3. PICK k \in DOMAIN proc[w].pending :
            /\ batches'[i].slice = proc[w].pending[k].slice
            /\ batches'[i].entity_count = proc[w].pending[k].entity_count
      BY <1>2, <2>2, <3>2, InsertRows
    <3> QED BY <1>1, <1>p, <3>3 DEF FitInv
  <2> QED BY <2>1, <2>2
<1>3. ASSUME NEW w \in Workers, NEW k \in DOMAIN proc'[w].pending
      PROVE  Cardinality(Reach(proc'[w].pending[k].slice, table')) <= proc'[w].pending[k].entity_count
  <2>1. ASSUME NEW l \in DOMAIN proc[w].pending, proc'[w].pending[k] = proc[w].pending[l]
        PROVE  Cardinality(Reach(proc'[w].pending[k].slice, table')) <= proc'[w].pending[k].entity_count
    BY <1>1, <1>p, <2>1 DEF FitInv
  <2>2. CASE proc'[w].pending[k] = page_row(proc[w], next_page(proc[w]))
    <3> DEFINE row == page_row(proc[w], next_page(proc[w]))
    <3>1. row.entity_count = Cardinality(next_page(proc[w])) /\ row.entity_count \in Nat
      BY <1>t, PageSize DEF page_row
    <3>2. row.slice \in SUBSET Entities
      BY <1>t, PageSize DEF page_row, cursor_range
    <3>3. Cardinality(Reach(row.slice, table)) <= row.entity_count
      BY <1>t, <3>1, PageReach
    <3> HIDE DEF row
    <3>4. Cardinality(Reach(row.slice, table')) <= row.entity_count
      BY <1>1, <3>1, <3>2, <3>3
    <3> QED BY <2>2, <3>4 DEF row
  <2> QED BY <2>1, <2>2, PendingStep
<1>4. ASSUME NEW w \in Workers, proc'[w].pc \in CarryPc
      PROVE  /\ proc'[w].entity_count = batches'[Index(w)'].entity_count
             /\ proc'[w].pc = "b_commit" =>
                   Cardinality(proc'[w].rows) <= batches'[Index(w)'].entity_count
  <2>1. \/ proc'[w] = proc[w]
        \/ BatchStep(w) /\ Moved(w, BatchPc \union {"return", "raise"}) /\ proc[w].pc \in BatchPc
    <3>1. \A S : Moved(w, S) => \E pc \in S : pc \in CarryPc
      BY <1>4 DEF Moved
    <3>2. proc'[w] # idle /\ (\A j : ~ Taken(w, j))
      BY <1>4 DEF idle, Taken, CarryPc
    <3>3. ~ (PlanPage(w) \/ PlanEndOfWalk(w) \/ PlanEnqueue(w))
      BY <1>4, <1>t, WalkMoves DEF CarryPc
    <3>4. \A S \in {{"return", "p_begin"}, {"p_page"}, {"p_totals", "p_enqueue"}, {"return"},
                     {"p_fail"}, {"raise"}} : ~ Moved(w, S)
      BY <3>1 DEF CarryPc
    <3> QED BY <3>2, <3>3, <3>4, WorkerCases
  <2>2. Index(w)' = Index(w)
    BY <2>1 DEF Moved, SameJob, Index
  <2>3. Index(w) \in DOMAIN batches
    BY <1>4, <1>t, <2>1 DEF WorkersHoldRows, CarryPc, BatchPc
  <2>4. batches'[Index(w)].entity_count = batches[Index(w)].entity_count
    BY <2>3, FrozenStep DEF Frozen
  <2>5. CASE proc'[w] = proc[w]
    BY <1>4, <2>2, <2>4, <2>5 DEF FitInv
  <2>6. CASE BatchStep(w)
    <3>1. proc'[w].entity_count = batches[Index(w)].entity_count
      BY <1>4, <1>t, <2>6, CarryStep DEF FitInv
    <3>2. ASSUME proc'[w].pc = "b_commit"
          PROVE  Cardinality(proc'[w].rows) <= batches[Index(w)].entity_count
      <4> DEFINE s == batches[Index(w)].slice
      <4>1. proc'[w].rows = load_batch_rows(table, s)
        BY <1>t, <2>6, <3>2, BatchOrigin
      <4>2. load_batch_rows(table, s) \subseteq Reach(s, table)
        BY DEF load_batch_rows, Reach
      <4>3. Reach(s, table) \in SUBSET Entities
        BY <1>b, <2>3 DEF Reach
      <4>4. Cardinality(Reach(s, table)) <= batches[Index(w)].entity_count
        BY <2>3 DEF FitInv
      <4>5. batches[Index(w)].entity_count \in Nat
        BY <1>b, <2>3
      <4> HIDE DEF s
      <4>6. IsFiniteSet(Reach(s, table)) /\ Cardinality(Reach(s, table)) \in Nat
        BY <4>3, EntitySets
      <4>7. /\ Cardinality(proc'[w].rows) <= Cardinality(Reach(s, table))
            /\ IsFiniteSet(proc'[w].rows)
        BY <4>1, <4>2, <4>6, FS_Subset
      <4>8. Cardinality(proc'[w].rows) \in Nat
        BY <4>7, FS_CardinalityType
      <4> QED BY <4>4, <4>5, <4>6, <4>7, <4>8
    <3> QED BY <2>2, <2>4, <3>1, <3>2
  <2> QED BY <2>1, <2>5, <2>6
<1>5. "b_commit" \in CarryPc
  BY DEF CarryPc
<1> QED BY <1>2, <1>3, <1>4, <1>5 DEF FitInv

\* A set splits into a part and the rest.
LEMMA SplitCount ==
    ASSUME NEW S \in SUBSET Entities, NEW T \in SUBSET S
    PROVE  /\ Cardinality(T) \in Nat /\ Cardinality(S \ T) \in Nat
           /\ Cardinality(S) = Cardinality(T) + Cardinality(S \ T)
<1>1. IsFiniteSet(S) /\ Cardinality(S) \in Nat /\ Cardinality(T) \in Nat
  BY EntitySets
<1>2. S \intersect T = T
  OBVIOUS
<1>3. Cardinality(S \ T) = Cardinality(S) - Cardinality(S \intersect T)
  BY <1>1, FS_Difference
<1>4. S \ T \in SUBSET Entities
  OBVIOUS
<1>5. Cardinality(S \ T) \in Nat
  BY <1>4, EntitySets
<1> QED BY <1>1, <1>2, <1>3, <1>5

\* A report accounts for every entity the batch was planned with.
LEMMA ReportAmount ==
    ASSUME RowInv, FitInv, NEW w \in Workers, BatchCommit(w) \/ BatchFailed(w),
           NEW i, i = Index(w)
    PROVE  /\ action'.processed_count = action.processed_count + batches[i].entity_count
           /\ action'.completed_batches = action.completed_batches + 1
<1>t. /\ TypeOK /\ WorkersHoldRows /\ BatchesOK(batches) /\ proc \in [Workers -> Process]
      /\ action \in BulkAction
  BY DEF RowInv, TypeOK, BatchesOK
<1>1. /\ i \in DOMAIN batches /\ batches[i].entity_count \in Nat
      /\ action.processed_count \in Nat /\ action.completed_batches \in Nat
  BY <1>t DEF BatchCommit, BatchFailed, WorkersHoldRows, BatchPc, BatchesOK, BulkActionBatch,
              BulkAction
<1>2. ASSUME NEW s \in Nat, NEW f \in Nat, NEW k \in Nat, s + f + k = batches[i].entity_count,
             action' = record_batch_completion(action, s, f, k)
      PROVE  /\ action'.processed_count = action.processed_count + batches[i].entity_count
             /\ action'.completed_batches = action.completed_batches + 1
  <2>1. /\ action'.processed_count = action.processed_count + s + f + k
        /\ action'.completed_batches = action.completed_batches + 1
    BY <1>2, <1>t DEF record_batch_completion, BulkAction
  <2> QED BY <1>1, <1>2, <2>1
<1>3. CASE BatchFailed(w)
  <2>1. proc[w].entity_count = batches[i].entity_count
    BY <1>3 DEF BatchFailed, FitInv, CarryPc
  <2>2. action' = record_batch_completion(action, 0, batches[i].entity_count, 0)
    BY <1>3, <2>1 DEF BatchFailed
  <2>3. 0 + batches[i].entity_count + 0 = batches[i].entity_count
    BY <1>1
  <2> QED BY <1>1, <1>2, <2>2, <2>3
<1>4. CASE BatchCommit(w)
  <2> DEFINE rows == proc[w].rows
             drift == left_target_set(batches[i].entity_count, rows)
             unique == unique_rows(rows, ledger)
             noop == no_change_rows(unique, proc[w].held)
             written == written_rows(table, unique \ noop)
             failed == (unique \ noop) \ written
             skipped == drift + Cardinality(rows \ unique) + Cardinality(noop)
  <2>1. action' = record_batch_completion(action, Cardinality(written), Cardinality(failed), skipped)
    BY <1>4 DEF BatchCommit
  <2>2. /\ rows \in SUBSET Entities /\ unique \in SUBSET rows /\ noop \in SUBSET unique
        /\ written \in SUBSET (unique \ noop)
    <3>1. rows \in SUBSET Entities
      BY <1>t DEF Process
    <3>2. unique \in SUBSET rows
      BY DEF unique_rows
    <3>3. noop \in SUBSET unique
      BY DEF no_change_rows
    <3>4. written \in SUBSET (unique \ noop)
      BY DEF written_rows
    <3> QED BY <3>1, <3>2, <3>3, <3>4
  <2>3. drift = batches[i].entity_count - Cardinality(rows)
    <3>1. Cardinality(rows) \in Nat /\ Cardinality(rows) <= batches[i].entity_count
      BY <1>4, <2>2, EntitySets DEF BatchCommit, FitInv
    <3> QED BY <1>1, <3>1 DEF left_target_set
  <2>4. Cardinality(rows) <= batches[i].entity_count
    BY <1>4 DEF BatchCommit, FitInv
  <2> HIDE DEF rows, drift, unique, noop, written
  <2>5. /\ Cardinality(unique) \in Nat /\ Cardinality(rows \ unique) \in Nat
        /\ Cardinality(rows) = Cardinality(unique) + Cardinality(rows \ unique)
    BY <2>2, SplitCount
  <2>6. /\ Cardinality(noop) \in Nat /\ Cardinality(unique \ noop) \in Nat
        /\ Cardinality(unique) = Cardinality(noop) + Cardinality(unique \ noop)
    BY <2>2, SplitCount
  <2>7. /\ Cardinality(written) \in Nat /\ Cardinality(failed) \in Nat
        /\ Cardinality(unique \ noop) = Cardinality(written) + Cardinality(failed)
    BY <2>2, SplitCount
  <2> HIDE DEF failed
  <2>8. /\ skipped \in Nat
        /\ Cardinality(written) + Cardinality(failed) + skipped = batches[i].entity_count
    BY <1>1, <2>3, <2>4, <2>5, <2>6, <2>7
  <2> HIDE DEF skipped
  <2> QED BY <1>2, <2>1, <2>7, <2>8
<1> QED BY <1>3, <1>4

\* Every report has added the planned size of its batch, once.
ExactInv ==
    /\ action.processed_count = Total(batches, "entity_count", Reported)
    /\ action.completed_batches = Cardinality(Reported)

LEMMA ExactStep ==
    ASSUME JobsInv, RowInv, ReportInv, KindInv, ClosedInv, FitInv, ExactInv, [Next]_vars
    PROVE  ExactInv'
<1>t. TypeOK /\ action \in BulkAction /\ BatchesOK(batches)
  BY DEF RowInv, TypeOK, BatchesOK
<1>f. IsFiniteSet(Reported)
  BY FS_Subset DEF ReportInv, Reported
<1>n. \A k \in DOMAIN batches : /\ k \in DOMAIN batches'
                                /\ batches'[k]["entity_count"] = batches[k]["entity_count"]
                                /\ batches'[k]["entity_count"] \in Nat
  <2>1. \A k \in DOMAIN batches : batches[k].entity_count \in Nat
    BY <1>t DEF BatchesOK, BulkActionBatch
  <2> QED BY <2>1, FrozenStep DEF Frozen
<1>r. Reported \subseteq DOMAIN batches
  BY DEF Reported
<1>1. CASE \E w \in Workers : BatchCommit(w) \/ BatchFailed(w)
  <2>1. PICK w \in Workers : BatchCommit(w) \/ BatchFailed(w)
    BY <1>1
  <2>2. PICK i : i = Index(w)
    OBVIOUS
  <2>3. i \in DOMAIN batches /\ Reported' = Reported \union {i}
    BY <2>1, <2>2, ReportEffect
  <2>4. i \notin Reported
    BY <2>1, <2>2, <2>3, ReportCloses DEF ClosedInv
  <2>5. /\ action'.processed_count = action.processed_count + batches[i].entity_count
        /\ action'.completed_batches = action.completed_batches + 1
    BY <2>1, <2>2, ReportAmount
  <2>6. PICK b, c, S : b = batches /\ c = batches' /\ S = Reported
    OBVIOUS
  <2>7. Total(c, "entity_count", S \union {i}) = Total(b, "entity_count", S) + c[i]["entity_count"]
    <3>1. /\ IsFiniteSet(S) /\ i \notin S /\ c[i]["entity_count"] \in Nat
          /\ \A k \in S : c[k]["entity_count"] \in Nat /\ b[k]["entity_count"] = c[k]["entity_count"]
      BY <1>f, <1>n, <1>r, <2>3, <2>4, <2>6
    <3> QED BY ONLY <3>1, TotalExtends
  <2>8. Total(batches', "entity_count", Reported')
          = Total(batches, "entity_count", Reported) + batches[i].entity_count
    BY <1>n, <2>3, <2>6, <2>7
  <2>9. Cardinality(Reported') = Cardinality(Reported) + 1
    BY <1>f, <2>3, <2>4, FS_AddElement
  <2> QED BY <2>5, <2>8, <2>9 DEF ExactInv
<1>2. CASE ~ \E w \in Workers : BatchCommit(w) \/ BatchFailed(w)
  <2>1. Reported' = Reported
    BY <1>2, OtherSteps
  <2>2. Total(batches', "entity_count", Reported') = Total(batches, "entity_count", Reported)
    <3>1. PICK b, c, S : b = batches /\ c = batches' /\ S = Reported
      OBVIOUS
    <3>2. \A x \in S : c[x]["entity_count"] = b[x]["entity_count"]
      BY <1>n, <1>r, <3>1
    <3>3. Total(c, "entity_count", S) = Total(b, "entity_count", S)
      BY ONLY <3>2, TotalSame
    <3> QED BY <2>1, <3>1, <3>3
  <2>3. CASE QuietStep
    BY <2>1, <2>2, <2>3 DEF QuietStep, SameCounters, ExactInv
  <2>4. CASE Submit
    <3>1. Reported = {}
      BY <2>4 DEF Submit, ReportInv, Visible, Reported
    <3>2. Total(batches', "entity_count", Reported') = 0 /\ Cardinality(Reported') = 0
      BY <2>1, <2>2, <3>1, TotalEmpty, FS_EmptySet
    <3>3. action'.processed_count = 0 /\ action'.completed_batches = 0
      BY <2>4 DEF Submit, new_action
    <3> QED BY <3>2, <3>3 DEF ExactInv
  <2> QED BY <1>2, <2>3, <2>4, StepKinds
<1> QED BY <1>1, <1>2

\* The rows a planner has made so far, committed or pending, by their sizes c:
\* they are numbered from 0 and its totals count them.
Sized(p, b, c) ==
    /\ c \in [0 .. (p.index - 1) -> [entity_count : Nat]]
    /\ p.total_entities = Total(c, "entity_count", 0 .. (p.index - 1))
    /\ DOMAIN b \union {p.pending[k].index : k \in DOMAIN p.pending} = 0 .. (p.index - 1)
    /\ \A i \in DOMAIN b : b[i].entity_count = c[i].entity_count
    /\ \A k \in DOMAIN p.pending : p.pending[k].entity_count = c[p.pending[k].index].entity_count

CountInv ==
    \A w \in Workers :
        /\ proc[w].pc \in {"p_page", "p_flush", "p_enqueue", "p_totals"} =>
              \E c : Sized(proc[w], batches, c)
        /\ proc[w].pc = "p_totals" => proc[w].pending = <<>>

\* A page adds one row.
LEMMA SizedPage ==
    ASSUME NEW p \in Process, NEW q, NEW b, NEW c, NEW row \in PlannedBatch, Sized(p, b, c),
           row.index = p.index, q.pending = Append(p.pending, row), q.index = p.index + 1,
           q.total_entities = p.total_entities + row.entity_count
    PROVE  \E d : Sized(q, b, d)
<1> DEFINE n == p.index
           d == [i \in 0 .. n |-> IF i = n THEN [entity_count |-> row.entity_count] ELSE c[i]]
<1>t. /\ n \in Nat /\ row.entity_count \in Nat /\ p.pending \in Seq(PlannedBatch)
      /\ 0 .. (q.index - 1) = 0 .. n /\ 0 .. n = (0 .. (n - 1)) \union {n} /\ n \notin 0 .. (n - 1)
  <2>1. n \in Nat /\ row.entity_count \in Nat /\ p.pending \in Seq(PlannedBatch)
    BY DEF Process, PlannedBatch
  <2>2. q.index - 1 = n
    BY <2>1
  <2> HIDE DEF n
  <2>3. 0 .. n = (0 .. (n - 1)) \union {n} /\ n \notin 0 .. (n - 1)
    BY <2>1
  <2> QED BY <2>1, <2>2, <2>3
<1>c. c \in [0 .. (n - 1) -> [entity_count : Nat]]
  BY DEF Sized
<1>1. d \in [0 .. (q.index - 1) -> [entity_count : Nat]]
  <2>1. ASSUME NEW i \in 0 .. n
        PROVE  (IF i = n THEN [entity_count |-> row.entity_count] ELSE c[i]) \in [entity_count : Nat]
    BY <1>t, <1>c
  <2> QED BY <1>t, <2>1
<1>2. /\ d[n].entity_count = row.entity_count
      /\ \A i \in 0 .. (n - 1) : d[i] = c[i] /\ i \in 0 .. n
  BY <1>t
<1>3. \A i \in 0 .. (n - 1) : c[i].entity_count \in Nat
  BY <1>c
<1>i. IsFiniteSet(0 .. (n - 1))
  BY <1>t, FS_Interval
<1> HIDE DEF d, n
<1>4. Total(d, "entity_count", (0 .. (n - 1)) \union {n})
        = Total(c, "entity_count", 0 .. (n - 1)) + d[n]["entity_count"]
  <2>1. PICK S : S = 0 .. (n - 1)
    OBVIOUS
  <2>2. /\ IsFiniteSet(S) /\ n \notin S /\ d[n]["entity_count"] \in Nat
        /\ \A k \in S : d[k]["entity_count"] \in Nat /\ c[k]["entity_count"] = d[k]["entity_count"]
    BY <1>t, <1>2, <1>3, <1>i, <2>1
  <2>3. Total(d, "entity_count", S \union {n}) = Total(c, "entity_count", S) + d[n]["entity_count"]
    BY ONLY <2>2, TotalExtends
  <2> QED BY <2>1, <2>3
<1>5. q.total_entities = Total(d, "entity_count", 0 .. (q.index - 1))
  BY <1>t, <1>2, <1>4 DEF Sized, n
<1>6. /\ DOMAIN q.pending = DOMAIN p.pending \union {Len(p.pending) + 1}
      /\ \A k \in DOMAIN p.pending : q.pending[k] = p.pending[k]
      /\ q.pending[Len(p.pending) + 1] = row
  BY <1>t
<1>s. DOMAIN b \union {p.pending[k].index : k \in DOMAIN p.pending} = 0 .. (n - 1)
  BY DEF Sized, n
<1>7. DOMAIN b \union {q.pending[k].index : k \in DOMAIN q.pending} = 0 .. (q.index - 1)
  <2>1. {q.pending[k].index : k \in DOMAIN q.pending}
          = {p.pending[k].index : k \in DOMAIN p.pending} \union {n}
    BY <1>6 DEF n
  <2> QED BY <1>t, <1>s, <2>1
<1>8. ASSUME NEW i \in DOMAIN b PROVE b[i].entity_count = d[i].entity_count
  <2>1. i \in 0 .. (n - 1) /\ b[i].entity_count = c[i].entity_count
    BY <1>s DEF Sized
  <2> QED BY <1>2, <2>1
<1>9. ASSUME NEW k \in DOMAIN q.pending
      PROVE  q.pending[k].entity_count = d[q.pending[k].index].entity_count
  <2>1. CASE k = Len(p.pending) + 1
    BY <1>2, <1>6, <2>1 DEF n
  <2>2. CASE k \in DOMAIN p.pending
    <3>1. /\ p.pending[k].index \in 0 .. (n - 1)
          /\ p.pending[k].entity_count = c[p.pending[k].index].entity_count
      BY <1>s, <2>2 DEF Sized
    <3> QED BY <1>2, <1>6, <2>2, <3>1
  <2> QED BY <1>6, <2>1, <2>2
<1> QED BY <1>1, <1>5, <1>7, <1>8, <1>9 DEF Sized

\* A flush, and whatever keeps the sizes of the committed rows.
LEMMA SizedRows ==
    ASSUME NEW p, NEW q, NEW b, NEW d, NEW c, Sized(p, b, c),
           q.index = p.index, q.total_entities = p.total_entities,
           \A i \in DOMAIN b : i \in DOMAIN d /\ d[i].entity_count = b[i].entity_count,
           \A i \in DOMAIN d \ DOMAIN b : \E k \in DOMAIN p.pending :
              p.pending[k].index = i /\ d[i].entity_count = p.pending[k].entity_count,
           \A k \in DOMAIN q.pending : \E l \in DOMAIN p.pending : q.pending[k] = p.pending[l],
           \A l \in DOMAIN p.pending :
              \/ p.pending[l].index \in DOMAIN d
              \/ \E k \in DOMAIN q.pending : q.pending[k] = p.pending[l]
    PROVE  Sized(q, d, c)
<1>1. ASSUME NEW i \in DOMAIN d PROVE d[i].entity_count = c[i].entity_count
  BY <1>1 DEF Sized
<1>2. ASSUME NEW k \in DOMAIN q.pending
      PROVE  q.pending[k].entity_count = c[q.pending[k].index].entity_count
  BY <1>2 DEF Sized
<1>3. DOMAIN d \union {q.pending[k].index : k \in DOMAIN q.pending}
        = DOMAIN b \union {p.pending[k].index : k \in DOMAIN p.pending}
  <2>1. ASSUME NEW i \in DOMAIN d \union {q.pending[k].index : k \in DOMAIN q.pending}
        PROVE  i \in DOMAIN b \union {p.pending[k].index : k \in DOMAIN p.pending}
    BY <2>1
  <2>2. ASSUME NEW i \in DOMAIN b \union {p.pending[k].index : k \in DOMAIN p.pending}
        PROVE  i \in DOMAIN d \union {q.pending[k].index : k \in DOMAIN q.pending}
    BY <2>2
  <2> QED BY <2>1, <2>2
<1> QED BY <1>1, <1>2, <1>3 DEF Sized

LEMMA CountStep ==
    ASSUME OneDelivery,
           RowInv, KindInv, DeliveryInv, OnceInv, CountInv, [Next]_vars
    PROVE  CountInv'
<1>t. /\ TypeOK /\ WorkersHoldRows /\ proc \in [Workers -> Process]
      /\ \A w \in Workers : proc[w] \in Process /\ proc[w].pending \in Seq(PlannedBatch)
  BY DEF RowInv, TypeOK, Process
<1>z. \A i \in DOMAIN batches : i \in DOMAIN batches' /\ batches'[i].entity_count = batches[i].entity_count
  BY FrozenStep DEF Frozen
<1> DEFINE Walk == {"p_page", "p_flush", "p_enqueue", "p_totals"}
           Goal(w) == /\ proc'[w].pc \in Walk => \E c : Sized(proc'[w], batches', c)
                      /\ proc'[w].pc = "p_totals" => proc'[w].pending = <<>>
<1>1. ASSUME NEW w \in Workers, PlanFlush(w) PROVE \A v \in Workers : Goal(v)
  <2>1. /\ proc[w].pc = "p_flush" /\ batches' = insert_batches(batches, proc[w].pending)
        /\ Moved(w, {"p_totals", "p_enqueue"})
        /\ proc'[w].pc = "p_totals" => proc[w].pending = <<>>
    BY <1>1, <1>t, PlanMoves DEF PlanFlush, Goto, Process
  <2>2. PICK c : Sized(proc[w], batches, c)
    BY <2>1 DEF CountInv
  <2>3. ASSUME NEW i \in DOMAIN batches' \ DOMAIN batches
        PROVE  \E k \in DOMAIN proc[w].pending :
                  /\ proc[w].pending[k].index = i
                  /\ batches'[i].entity_count = proc[w].pending[k].entity_count
    BY <1>t, <2>1, <2>3, InsertRows
  <2>4. /\ proc'[w].index = proc[w].index /\ proc'[w].total_entities = proc[w].total_entities
        /\ proc'[w].pending = proc[w].pending
    BY <2>1 DEF Moved, SamePlan
  <2>5. Sized(proc'[w], batches', c)
    <3>1. PICK p, q, d : p = proc[w] /\ q = proc'[w] /\ d = batches'
      OBVIOUS
    <3>2. Sized(q, d, c)
      BY <1>z, <2>2, <2>3, <2>4, <3>1, SizedRows
    <3> QED BY <3>1, <3>2
  <2>6. Goal(w)
    BY <2>1, <2>4, <2>5
  <2>7. ASSUME NEW v \in Workers, v # w PROVE Goal(v)
    <3>1. proc'[v].pc \notin PlanPc
      BY <2>1, <2>7, OnePlanner DEF Moved, OthersStay, PlanPc
    <3> QED BY <3>1 DEF PlanPc
  <2> QED BY <2>6, <2>7
<1>2. ASSUME ~ \E v \in Workers : PlanFlush(v), NEW w \in Workers PROVE Goal(w)
  <2>b. DOMAIN batches' = DOMAIN batches
    BY <1>2, PlanFrame
  <2>s. ASSUME proc[w].pc \in Walk, proc'[w].index = proc[w].index,
               proc'[w].total_entities = proc[w].total_entities,
               \/ proc'[w].pending = proc[w].pending
               \/ /\ proc[w].pc = "p_enqueue" /\ proc[w].pending # <<>>
                  /\ proc'[w].pending = Tail(proc[w].pending)
        PROVE  \E c : Sized(proc'[w], batches', c)
    <3>1. PICK c : Sized(proc[w], batches, c)
      BY <2>s DEF CountInv
    <3>2. PICK p, q, d : p = proc[w] /\ q = proc'[w] /\ d = batches'
      OBVIOUS
    <3>3. \A k \in DOMAIN q.pending : \E l \in DOMAIN p.pending : q.pending[k] = p.pending[l]
      <4>1. CASE q.pending = p.pending
        BY <4>1
      <4>2. CASE p.pending # <<>> /\ q.pending = Tail(p.pending)
        <5>1. \A k \in DOMAIN q.pending : k + 1 \in DOMAIN p.pending /\ q.pending[k] = p.pending[k + 1]
          BY <1>t, <3>2, <4>2
        <5> QED BY <5>1
      <4> QED BY <2>s, <3>2, <4>1, <4>2
    <3>4. \A l \in DOMAIN p.pending : \/ p.pending[l].index \in DOMAIN d
                                      \/ \E k \in DOMAIN q.pending : q.pending[k] = p.pending[l]
      <4>1. CASE q.pending = p.pending
        BY <4>1
      <4>2. CASE p.pc = "p_enqueue"
        BY <1>t, <2>b, <3>2, <4>2 DEF WorkersHoldRows
      <4> QED BY <2>s, <3>2, <4>1, <4>2
    <3>5. q.index = p.index /\ q.total_entities = p.total_entities
      BY <2>s, <3>2
    <3>6. Sized(q, d, c)
      BY <1>z, <2>b, <3>1, <3>2, <3>3, <3>4, <3>5, SizedRows
    <3> QED BY <3>2, <3>6
  <2>1. CASE proc'[w] = proc[w]
    <3>1. proc[w].pc \in Walk => \E c : Sized(proc'[w], batches', c)
      BY <2>1, <2>s
    <3> QED BY <2>1, <3>1 DEF CountInv
  <2>2. CASE proc'[w] = idle
    BY <2>2 DEF idle
  <2>3. ASSUME NEW j, Taken(w, j) PROVE Goal(w)
    BY <2>3 DEF Taken
  <2>4. CASE PlanPage(w)
    <3> DEFINE row == page_row(proc[w], next_page(proc[w]))
    <3>1. /\ proc[w].pc = "p_page" /\ proc'[w].pc \in {"p_page", "p_flush"}
          /\ proc'[w].pending = Append(proc[w].pending, row)
          /\ proc'[w].index = proc[w].index + 1
          /\ proc'[w].total_entities = proc[w].total_entities + Cardinality(next_page(proc[w]))
      BY <2>4, <1>t, WalkMoves
    <3>2. /\ row \in PlannedBatch /\ row.index = proc[w].index
          /\ row.entity_count = Cardinality(next_page(proc[w]))
      <4>1. proc[w].index \in Nat /\ cursor_range(next_page(proc[w])) \in SUBSET Entities
        BY <1>t DEF Process, cursor_range
      <4> QED BY <1>t, <4>1, PageSize DEF page_row, PlannedBatch
    <3> HIDE DEF row
    <3>3. PICK c : Sized(proc[w], batches, c)
      BY <3>1 DEF CountInv
    <3>4. Sized(proc[w], batches', c)
      <4>1. PICK p, d : p = proc[w] /\ d = batches'
        OBVIOUS
      <4>2. Sized(p, d, c)
        BY <1>z, <2>b, <3>3, <4>1 DEF Sized
      <4> QED BY <4>1, <4>2
    <3>5. \E d : Sized(proc'[w], batches', d)
      <4>1. PICK p, q, b : p = proc[w] /\ q = proc'[w] /\ b = batches'
        OBVIOUS
      <4>p. p \in Process
        BY <1>t, <4>1
      <4>2. \E d : Sized(q, b, d)
        BY <3>1, <3>2, <3>4, <4>1, <4>p, SizedPage
      <4> QED BY <4>1, <4>2
    <3> QED BY <3>1, <3>5
  <2>5. CASE PlanEndOfWalk(w)
    <3>1. /\ proc[w].pc = "p_page" /\ proc'[w].pc = "p_flush"
          /\ proc'[w].index = proc[w].index /\ proc'[w].total_entities = proc[w].total_entities
          /\ proc'[w].pending = proc[w].pending
      BY <2>5, <1>t, WalkMoves
    <3> QED BY <2>s, <3>1
  <2>6. CASE PlanEnqueue(w)
    <3>1. /\ proc[w].pc = "p_enqueue" /\ proc'[w].pending = Tail(proc[w].pending)
          /\ proc'[w].pc = "p_totals" => proc'[w].pending = <<>>
          /\ proc'[w].index = proc[w].index /\ proc'[w].total_entities = proc[w].total_entities
      BY <2>6, <1>t, WalkMoves
    <3>2. proc[w].pending # <<>>
      BY <1>t, <3>1 DEF WorkersHoldRows
    <3> QED BY <2>s, <3>1, <3>2
  <2>7. CASE PlanBegin(w) /\ Moved(w, {"p_page"})
    <3>1. DOMAIN batches = {} /\ SamePlan(idle, proc[w])
      BY <2>7 DEF PlanBegin, OnceInv, Unplanned, KindInv
    <3>2. proc'[w].pending = <<>> /\ proc'[w].index = 0 /\ proc'[w].total_entities = 0
      BY <2>7, <3>1 DEF Moved, SamePlan, idle
    <3>3. Sized(proc'[w], batches', [i \in {} |-> 0])
      <4>1. 0 .. (0 - 1) = {}
        OBVIOUS
      <4> QED BY <2>b, <3>1, <3>2, <4>1, TotalEmpty DEF Sized
    <3> QED BY <2>7, <3>3 DEF Moved
  <2>8. CASE \/ Moved(w, {"return", "p_begin"}) \/ Moved(w, {"return"}) \/ Moved(w, {"p_fail"})
             \/ Moved(w, {"raise"}) \/ Moved(w, BatchPc \union {"return", "raise"})
    BY <2>8 DEF Moved, BatchPc
  <2> HIDE DEF Goal
  <2> QED BY <1>2, <2>1, <2>2, <2>3, <2>4, <2>5, <2>6, <2>7, <2>8, WorkerCases
<1> QED BY <1>1, <1>2 DEF CountInv

\* Which steps write the status.
LEMMA StatusFrame ==
    ASSUME RowInv, [Next]_vars
    PROVE  \/ action'.status = action.status \/ action'.status = "cancelled" \/ Submit
           \/ \E w \in Workers : PlanBegin(w) \/ PlanTotals(w) \/ PlanFail(w) \/ FinalizeUpdate(w)
<1>t. TypeOK /\ WorkersHoldRows /\ action \in BulkAction
  BY DEF RowInv, TypeOK
<1>1. CASE cancel_bulk_action
  BY <1>1, <1>t DEF cancel_bulk_action, BulkAction
<1>2. ASSUME NEW w \in Workers, BatchCommit(w) PROVE action'.status = action.status
  <2>1. PICK r \in [success : Nat, failure : Nat, skipped : Nat], written \in SUBSET Entities :
          CommitEffect(w, r, written)
    BY <1>2, <1>t, CommitShape
  <2> QED BY <2>1, <1>t DEF CommitEffect, record_batch_completion, BulkAction
<1>3. ASSUME NEW w \in Workers, BatchFailed(w) PROVE action'.status = action.status
  BY <1>3, <1>t DEF BatchFailed, record_batch_completion, BulkAction
<1>4. CASE \/ CommitSubmission \/ AbortSubmission \/ update_account \/ ExpireResult \/ Abandon
           \/ Rest \/ UNCHANGED vars \/ \E e \in Entities : Leave(e) \/ Join(e)
  <2>1. action' = action
    BY <1>4 DEF CommitSubmission, AbortSubmission, update_account, ExpireResult, Abandon, Rest,
                Leave, Join, db, vars
  <2> QED BY <2>1
<1>5. ASSUME NEW w \in Workers,
             \/ Dequeue(w) \/ Return(w) \/ Raise(w) \/ PlanLoad(w) \/ PlanPage(w)
             \/ PlanEndOfWalk(w) \/ PlanFlush(w) \/ PlanEnqueue(w) \/ BatchLoad(w)
             \/ BatchCancel(w) \/ BatchGate(w) \/ BatchDefer(w) \/ BatchAttempt(w)
             \/ BatchCheck(w) \/ BatchRows(w) \/ FinalizeSelect(w) \/ WorkerFault(w)
      PROVE  action' = action
  BY <1>5 DEF Dequeue, Return, Raise, PlanLoad, PlanPage, PlanEndOfWalk, PlanFlush,
              PlanEnqueue, BatchLoad, BatchCancel, BatchGate, BatchDefer, BatchAttempt,
              BatchCheck, BatchRows, FinalizeSelect, WorkerFault, DuplicateDelivery,
              Crash, PlanError, BatchError, UncaughtError, db
<1>6. ASSUME NEW w \in Workers, WorkerStep(w) \/ WorkerFault(w)
      PROVE  \/ action'.status = action.status
             \/ PlanBegin(w) \/ PlanTotals(w) \/ PlanFail(w) \/ FinalizeUpdate(w)
  BY <1>2, <1>3, <1>5, <1>6 DEF WorkerStep
<1> QED BY <1>1, <1>4, <1>6 DEF Next, Outside

\* The totals are those of the batch rows; every batch has reported.
Planned ==
    /\ DOMAIN batches = 0 .. (action.total_batches - 1)
    /\ action.total_entities = Total(batches, "entity_count", DOMAIN batches)

Complete == Planned /\ Reported = DOMAIN batches

BusyPc == PlanPc \ {"p_load"}

\* While a planner is busy there are no totals and nothing can complete; the
\* totals are written once; finalize_if_complete sees every batch reported.
StatusInv ==
    /\ \A w \in Workers : proc[w].pc \in BusyPc =>
          /\ action.total_batches = 0
          /\ action.status \notin {"processing", "completed", "completed_with_errors"}
    /\ action.status = "processing" => action.total_batches > 0
    /\ action.total_batches > 0 => Planned
    /\ action.status \in {"completed", "completed_with_errors"} =>
          Complete /\ (action.status = "completed") = (action.failure_count = 0)
    /\ \A w \in Workers : proc[w].pc \in {"f_update", "g_update"} =>
          action.total_batches > 0 /\ Complete /\ proc[w].final = final_status(action)

\* Nothing but a flush and the end of a planning changes the plan.
LEMMA PlannedStays ==
    ASSUME RowInv, [Next]_vars, Planned, ~ Submit,
           ~ \E w \in Workers : PlanFlush(w) \/ PlanTotals(w)
    PROVE  Planned'
<1>1. /\ DOMAIN batches' = DOMAIN batches /\ action'.total_batches = action.total_batches
      /\ action'.total_entities = action.total_entities
      /\ \A i \in DOMAIN batches : batches'[i]["entity_count"] = batches[i]["entity_count"]
  BY PlanFrame, FrozenStep DEF Frozen
<1>2. PICK b, c, S : b = batches /\ c = batches' /\ S = DOMAIN batches
  OBVIOUS
<1>3. \A x \in S : b[x]["entity_count"] = c[x]["entity_count"]
  BY <1>1, <1>2
<1>4. Total(b, "entity_count", S) = Total(c, "entity_count", S)
  BY ONLY <1>3, TotalSame
<1>5. Total(batches', "entity_count", DOMAIN batches') = Total(batches, "entity_count", DOMAIN batches)
  BY <1>1, <1>2, <1>4
<1> QED BY <1>1, <1>5 DEF Planned

\* When every batch has reported no report follows.
LEMMA CompleteStays ==
    ASSUME JobsInv, RowInv, KindInv, ClosedInv, [Next]_vars, Complete, ~ Submit,
           ~ \E w \in Workers : PlanFlush(w) \/ PlanTotals(w)
    PROVE  Complete' /\ action'.failure_count = action.failure_count
<1>1. ASSUME NEW w \in Workers, BatchCommit(w) \/ BatchFailed(w) PROVE FALSE
  <2>1. PICK i : i = Index(w)
    OBVIOUS
  <2>2. i \in DOMAIN batches /\ ~ Closed(i)
    BY <1>1, <2>1, ReportCloses
  <2> QED BY <2>2 DEF Complete, ClosedInv
<1>2. Reported' = Reported
  BY <1>1, OtherSteps
<1>3. action'.failure_count = action.failure_count
  BY <1>1, StepKinds DEF QuietStep, SameCounters
<1>4. DOMAIN batches' = DOMAIN batches
  BY PlanFrame
<1>5. Planned'
  BY PlannedStays DEF Complete
<1> QED BY <1>2, <1>3, <1>4, <1>5 DEF Complete

\* Where a busy planner and a decided finalisation come from.
LEMMA BusyOrigin ==
    ASSUME RowInv, [Next]_vars, NEW w \in Workers
    PROVE  /\ proc'[w].pc \in BusyPc =>
                 proc[w].pc \in BusyPc \/ (PlanLoad(w) /\ ~ is_terminal(action.status))
           /\ proc'[w].pc \in {"f_update", "g_update"} => proc'[w] = proc[w] \/ FinalizeSelect(w)
<1>t. TypeOK /\ proc \in [Workers -> Process]
  BY DEF RowInv, TypeOK
<1>1. ASSUME proc'[w].pc \in BusyPc
      PROVE  proc[w].pc \in BusyPc \/ (PlanLoad(w) /\ ~ is_terminal(action.status))
  <2>1. CASE PlanLoad(w)
    <3>1. proc'[w].pc = IF ~ Visible \/ is_terminal(action.status) THEN "return" ELSE "p_begin"
      BY <1>t, <2>1 DEF PlanLoad, Goto, Process
    <3> QED BY <1>1, <2>1, <3>1 DEF BusyPc, PlanPc
  <2>2. CASE \/ PlanPage(w) \/ PlanEndOfWalk(w) \/ PlanEnqueue(w) \/ PlanBegin(w) \/ PlanFlush(w)
             \/ PlanTotals(w) \/ PlanError(w) \/ PlanFail(w)
    BY <2>2 DEF PlanPage, PlanEndOfWalk, PlanEnqueue, PlanBegin, PlanFlush, PlanTotals,
                PlanError, PlanFail, BusyPc, PlanPc
  <2>3. CASE proc'[w] = proc[w]
    BY <1>1, <2>3
  <2>4. proc'[w] # idle /\ (\A j : ~ Taken(w, j))
    BY <1>1 DEF idle, Taken, BusyPc, PlanPc
  <2>5. ~ Moved(w, {"raise"}) /\ ~ Moved(w, BatchPc \union {"return", "raise"})
    BY <1>1 DEF Moved, BatchPc, BusyPc, PlanPc
  <2> QED BY <2>1, <2>2, <2>3, <2>4, <2>5, WorkerCases
<1>2. ASSUME proc'[w].pc \in {"f_update", "g_update"} PROVE proc'[w] = proc[w] \/ FinalizeSelect(w)
  <2>1. \A S : Moved(w, S) => "f_update" \in S \/ "g_update" \in S
    BY <1>2 DEF Moved
  <2>2. BatchStep(w) => FinalizeSelect(w)
    BY <1>t, <2>1, LoadMoves, BatchMoves DEF BatchStep
  <2>3. proc'[w] # idle /\ (\A j : ~ Taken(w, j))
    BY <1>2 DEF idle, Taken
  <2>4. ~ (PlanPage(w) \/ PlanEndOfWalk(w) \/ PlanEnqueue(w))
    BY <1>2, <1>t, WalkMoves
  <2> QED BY <2>1, <2>2, <2>3, <2>4, WorkerCases
<1> QED BY <1>1, <1>2

\* The end of a planning writes the totals of its rows.
LEMMA TotalsStep ==
    ASSUME RowInv, KindInv, CountInv, NEW w \in Workers, PlanTotals(w)
    PROVE  Planned' /\ action'.total_batches = proc[w].index
<1>t. TypeOK /\ proc[w] \in Process /\ action \in BulkAction /\ proc[w].index \in Nat
  BY DEF RowInv, TypeOK, Process
<1>1. proc[w].pc = "p_totals" /\ proc[w].total_batches = proc[w].index /\ proc[w].pending = <<>>
  BY DEF PlanTotals, CountInv, KindInv, PlanPc
<1>2. PICK c : Sized(proc[w], batches, c)
  BY <1>1 DEF CountInv
<1>3. /\ DOMAIN batches = 0 .. (proc[w].index - 1)
      /\ \A i \in DOMAIN batches : batches[i]["entity_count"] = c[i]["entity_count"]
      /\ proc[w].total_entities = Total(c, "entity_count", 0 .. (proc[w].index - 1))
  <2>1. {proc[w].pending[k].index : k \in DOMAIN proc[w].pending} = {}
    BY <1>1
  <2> QED BY <1>2, <2>1 DEF Sized
<1>4. Total(batches, "entity_count", DOMAIN batches) = proc[w].total_entities
  <2>1. PICK b, S : b = batches /\ S = DOMAIN batches
    OBVIOUS
  <2>2. \A i \in S : b[i]["entity_count"] = c[i]["entity_count"]
    BY <1>3, <2>1
  <2>3. Total(b, "entity_count", S) = Total(c, "entity_count", S)
    BY ONLY <2>2, TotalSame
  <2> QED BY <1>3, <2>1, <2>3
<1>5. /\ action'.total_entities = proc[w].total_entities
      /\ action'.total_batches = proc[w].index /\ batches' = batches
  <2>1. action' = end_planning(action, proc[w].total_entities, proc[w].index) /\ batches' = batches
    BY <1>1 DEF PlanTotals
  <2> QED BY <1>t, <2>1 DEF end_planning, mark_started, BulkAction
<1> QED BY <1>3, <1>4, <1>5 DEF Planned

\* A batch that counts every batch has seen every report.
LEMMA CompleteSeen ==
    ASSUME RowInv, ReportInv, ExactInv, StatusInv, is_complete(action)
    PROVE  action.total_batches > 0 /\ Complete
<1>t. action \in BulkAction /\ action.total_batches \in Nat
  BY DEF RowInv, TypeOK, BulkAction
<1>1. /\ action.total_batches > 0 /\ Planned
      /\ action.completed_batches >= action.total_batches
      /\ action.completed_batches = Cardinality(Reported)
  BY DEF is_complete, StatusInv, ExactInv
<1>2. Reported \subseteq DOMAIN batches /\ IsFiniteSet(DOMAIN batches)
  BY DEF Reported, ReportInv
<1>3. Cardinality(DOMAIN batches) = action.total_batches
  <2>1. PICK n \in Nat : n = action.total_batches /\ n > 0
    BY <1>t, <1>1
  <2>2. DOMAIN batches = 0 .. (n - 1)
    BY <1>1, <2>1 DEF Planned
  <2>3. Cardinality(0 .. (n - 1)) = n
    BY <2>1, FS_Interval
  <2> QED BY <2>1, <2>2, <2>3
<1>4. /\ IsFiniteSet(Reported) /\ Cardinality(Reported) <= Cardinality(DOMAIN batches)
      /\ Cardinality(Reported) = Cardinality(DOMAIN batches) => Reported = DOMAIN batches
  BY <1>2, FS_Subset
<1>5. Cardinality(Reported) \in Nat
  BY <1>4, FS_CardinalityType
<1>6. Reported = DOMAIN batches
  BY <1>t, <1>1, <1>3, <1>4, <1>5
<1> QED BY <1>1, <1>6 DEF Complete

\* What the writers of the status do to it.
LEMMA StatusEffects ==
    ASSUME RowInv, StatusInv, NEW w \in Workers
    PROVE  /\ PlanBegin(w) => action'.status = "planning"
           /\ PlanFail(w) => action'.status \in {action.status, "failed"}
           /\ FinalizeUpdate(w) =>
                 \/ action'.status = action.status
                 \/ /\ action.status = "processing" /\ action'.status = proc[w].final
                    /\ proc[w].pc \in {"f_update", "g_update"}
<1>t. action \in BulkAction
  BY DEF RowInv, TypeOK
<1>1. PlanBegin(w) => action'.status = "planning"
  BY <1>t DEF PlanBegin, begin_planning, BulkAction
<1>2. PlanFail(w) => action'.status \in {action.status, "failed"}
  BY <1>t DEF PlanFail, fail_action, BulkAction
<1>3. ASSUME FinalizeUpdate(w)
      PROVE  \/ action'.status = action.status
             \/ /\ action.status = "processing" /\ action'.status = proc[w].final
                /\ proc[w].pc \in {"f_update", "g_update"}
  BY <1>3, <1>t DEF FinalizeUpdate, finalize, is_complete, BulkAction
<1> QED BY <1>1, <1>2, <1>3

LEMMA FinalStep ==
    ASSUME OneDelivery,
           JobsInv, RowInv, ReportInv, KindInv, DeliveryInv, OnceInv, ClosedInv, TallyInv,
           ExactInv, CountInv, StatusInv, [Next]_vars
    PROVE  StatusInv'
<1> DEFINE Done == {"completed", "completed_with_errors"}
<1>t. /\ TypeOK /\ WorkersHoldRows /\ action \in BulkAction /\ proc \in [Workers -> Process]
      /\ action.total_batches \in Nat /\ action.failure_count \in Nat
  BY DEF RowInv, TypeOK, BulkAction
<1>1. CASE Submit
  <2>1. ~ Visible /\ proc' = proc
    BY <1>1 DEF Submit, Visible
  <2>2. \A w \in Workers : proc'[w].pc \notin BusyPc /\ proc'[w].pc \notin {"f_update", "g_update"}
    BY <1>t, <2>1 DEF WorkersHoldRows, BusyPc, BatchPc
  <2>3. action'.total_batches = 0 /\ action'.status \in {"queued", "scheduled"}
    BY <1>1 DEF Submit, new_action
  <2> QED BY <2>2, <2>3 DEF StatusInv
<1>2. ASSUME NEW w \in Workers, PlanTotals(w) PROVE StatusInv'
  <2>1. /\ proc[w].pc = "p_totals" /\ proc[w].pc \in PlanPc /\ proc[w].pc \in BusyPc
        /\ Moved(w, {"return"})
    BY <1>2, <1>t, PlanMoves DEF PlanTotals, PlanPc, BusyPc
  <2>2. /\ action.total_batches = 0
        /\ action.status \notin {"processing", "completed", "completed_with_errors"}
    BY <2>1 DEF StatusInv
  <2>3. ASSUME NEW v \in Workers
        PROVE  proc'[v].pc \notin BusyPc /\ proc'[v].pc \notin {"f_update", "g_update"}
    <3>1. CASE v = w
      BY <2>1, <3>1 DEF Moved, BusyPc, PlanPc
    <3>2. CASE v # w
      <4>1. proc'[v] = proc[v]
        BY <2>1, <3>2 DEF Moved, OthersStay
      <4>2. proc[v].pc \notin BusyPc
        BY <2>1, <3>2, OnePlanner DEF BusyPc
      <4>3. proc[v].pc \notin {"f_update", "g_update"}
        BY <2>2 DEF StatusInv
      <4> QED BY <4>1, <4>2, <4>3
    <3> QED BY <3>1, <3>2
  <2>4. Planned' /\ action'.total_batches = proc[w].index /\ proc[w].index \in Nat
    BY <1>2, <1>t, TotalsStep DEF Process
  <2>5. /\ action'.status \in {"processing", "completed", action.status}
        /\ action'.status = "processing" => proc[w].index # 0
        /\ action'.status = "completed" => proc[w].index = 0
        /\ action'.failure_count = action.failure_count /\ batches' = batches
    <3>1. proc[w].total_batches = proc[w].index
      BY <2>1 DEF KindInv
    <3>2. PICK m, n : /\ m = proc[w].total_entities /\ n = proc[w].index
                      /\ action' = end_planning(action, m, n) /\ batches' = batches
      BY <1>2, <3>1 DEF PlanTotals
    <3>3. /\ action'.failure_count = action.failure_count
      BY <1>t, <3>2 DEF end_planning, mark_started, BulkAction
    <3>4. /\ action'.status \in {"processing", "completed", action.status}
          /\ action'.status = "processing" => n # 0
          /\ action'.status = "completed" => n = 0
      BY <1>t, <2>2, <3>2 DEF end_planning, mark_started, BulkAction
    <3> QED BY <3>2, <3>3, <3>4
  <2>6. ASSUME action'.status \in Done PROVE Complete' /\ action'.status = "completed" /\ action'.failure_count = 0
    <3>1. action'.status = "completed" /\ proc[w].index = 0
      BY <2>2, <2>5, <2>6
    <3>2. DOMAIN batches = {}
      BY <2>4, <2>5, <3>1 DEF Planned
    <3>3. Reported = {} /\ Reported' = {}
      BY <2>5, <3>2 DEF Reported
    <3>4. action.failure_count = 0
      BY <3>3, TotalEmpty DEF TallyInv
    <3> QED BY <2>4, <2>5, <3>1, <3>2, <3>3, <3>4 DEF Complete
  <2>7. action'.status = "processing" => action'.total_batches > 0
    BY <2>4, <2>5
  <2> QED BY <2>3, <2>4, <2>6, <2>7 DEF StatusInv
<1>3. ASSUME NEW w \in Workers, PlanFlush(w) PROVE StatusInv'
  <2>1. /\ proc[w].pc = "p_flush" /\ proc[w].pc \in BusyPc /\ action' = action
        /\ Moved(w, {"p_totals", "p_enqueue"})
    BY <1>3, <1>t, PlanMoves DEF PlanFlush, PlanPc, BusyPc
  <2>2. /\ action.total_batches = 0
        /\ action.status \notin {"processing", "completed", "completed_with_errors"}
    BY <2>1 DEF StatusInv
  <2>3. ASSUME NEW v \in Workers PROVE proc'[v].pc \notin {"f_update", "g_update"}
    <3>1. CASE v = w
      BY <2>1, <3>1 DEF Moved
    <3>2. CASE v # w
      BY <2>1, <2>2, <3>2 DEF Moved, OthersStay, StatusInv
    <3> QED BY <3>1, <3>2
  <2> QED BY <2>1, <2>2, <2>3 DEF StatusInv
<1>4. CASE ~ Submit /\ ~ \E w \in Workers : PlanFlush(w) \/ PlanTotals(w)
  <2>1. action'.total_batches = action.total_batches
    BY <1>4, PlanFrame
  <2>2. \/ action'.status = action.status
        \/ action'.status \in {"cancelled", "planning", "failed"}
        \/ \E w \in Workers : /\ FinalizeUpdate(w) /\ proc[w].pc \in {"f_update", "g_update"}
                              /\ action.status = "processing" /\ action'.status = proc[w].final
    BY <1>4, StatusFrame, StatusEffects
  <2>3. final_status(action) \in Done
    BY DEF final_status
  <2>4. ASSUME NEW w \in Workers, proc'[w].pc \in BusyPc
        PROVE  /\ action'.total_batches = 0
               /\ action'.status \notin {"processing", "completed", "completed_with_errors"}
    <3>1. /\ action.total_batches = 0
          /\ action.status \notin {"processing", "completed", "completed_with_errors"}
      <4>1. CASE proc[w].pc \in BusyPc
        BY <4>1 DEF StatusInv
      <4>2. CASE PlanLoad(w) /\ ~ is_terminal(action.status)
        <5>1. action.total_batches = 0
          BY <4>2 DEF PlanLoad, OnceInv, Fresh, Unplanned
        <5> QED BY <4>2, <5>1 DEF StatusInv, is_terminal
      <4> QED BY <2>4, <4>1, <4>2, BusyOrigin
    <3> QED BY <2>1, <2>2, <3>1
  <2>5. action'.status = "processing" => action'.total_batches > 0
    BY <2>1, <2>2, <2>3 DEF StatusInv
  <2>6. action'.total_batches > 0 => Planned'
    BY <1>4, <2>1, PlannedStays DEF StatusInv
  <2>7. ASSUME Complete PROVE /\ Complete' /\ action'.failure_count = action.failure_count
                              /\ final_status(action') = final_status(action)
    BY <1>4, <2>7, CompleteStays DEF final_status
  <2>8. ASSUME action'.status \in Done
        PROVE  Complete' /\ (action'.status = "completed") = (action'.failure_count = 0)
    <3>1. CASE action'.status = action.status
      BY <2>7, <2>8, <3>1 DEF StatusInv
    <3>2. ASSUME NEW w \in Workers, proc[w].pc \in {"f_update", "g_update"},
                 action'.status = proc[w].final
          PROVE  Complete' /\ (action'.status = "completed") = (action'.failure_count = 0)
      <4>1. Complete /\ action'.status = final_status(action)
        BY <3>2 DEF StatusInv
      <4>2. Complete' /\ action'.failure_count = action.failure_count
        BY <2>7, <4>1
      <4> QED BY <1>t, <4>1, <4>2 DEF final_status
    <3> QED BY <2>2, <2>8, <3>1, <3>2
  <2>9. ASSUME NEW w \in Workers, proc'[w].pc \in {"f_update", "g_update"}
        PROVE  action'.total_batches > 0 /\ Complete' /\ proc'[w].final = final_status(action')
    <3>1. action.total_batches > 0 /\ Complete /\ proc'[w].final = final_status(action)
      <4>1. CASE proc'[w] = proc[w]
        BY <2>9, <4>1 DEF StatusInv
      <4>2. CASE FinalizeSelect(w)
        <5>1. is_complete(action) /\ proc'[w].final = final_status(action)
          BY <1>t, <2>9, <4>2, LoadMoves
        <5> QED BY <5>1, CompleteSeen
      <4> QED BY <2>9, <4>1, <4>2, BusyOrigin
    <3> QED BY <2>1, <2>7, <3>1
  <2> QED BY <2>4, <2>5, <2>6, <2>8, <2>9 DEF StatusInv
<1> QED BY <1>1, <1>2, <1>3, <1>4

\* The faults under which a completed action is exact: as for the tallies, and
\* no row joins the target set (a range would load more rows than were
\* planned).
OneReport == OneDelivery /\ LateErrorEnds /\ NoNewRows

LEMMA ExactInvariant ==
    ASSUME OneReport
    PROVE  Spec => [](RowInv /\ ExactInv /\ StatusInv)
<1>h. OneDelivery /\ LateErrorEnds /\ NoNewRows
  BY DEF OneReport
<1>1. Init => FitInv /\ ExactInv /\ CountInv /\ StatusInv
  <2> SUFFICES ASSUME Init PROVE FitInv /\ ExactInv /\ CountInv /\ StatusInv
    OBVIOUS
  <2>1. Reported = {} /\ DOMAIN batches = {}
    BY DEF Init, Reported
  <2>2. /\ action.processed_count = 0 /\ action.completed_batches = 0 /\ action.total_batches = 0
        /\ action.status = "queued"
    BY DEF Init, new_action
  <2>3. \A w \in Workers : proc[w].pc = "idle" /\ proc[w].pending = <<>>
    BY DEF Init, idle
  <2>4. FitInv
    BY <2>1, <2>3 DEF FitInv, CarryPc
  <2>5. ExactInv
    BY <2>1, <2>2, TotalEmpty, FS_EmptySet DEF ExactInv
  <2>6. CountInv
    BY <2>3 DEF CountInv
  <2>7. StatusInv
    BY <2>2, <2>3 DEF StatusInv, BusyPc, PlanPc
  <2> QED BY <2>4, <2>5, <2>6, <2>7
<1>2. RowInv /\ FirstTry /\ FitInv /\ [Next]_vars => FitInv'
  BY <1>h, FitStep
<1>3. JobsInv /\ RowInv /\ ReportInv /\ KindInv /\ ClosedInv /\ FitInv /\ ExactInv /\ [Next]_vars
        => ExactInv'
  BY ExactStep
<1>4. RowInv /\ KindInv /\ DeliveryInv /\ OnceInv /\ CountInv /\ [Next]_vars => CountInv'
  BY <1>h, CountStep
<1>5. JobsInv /\ RowInv /\ ReportInv /\ KindInv /\ DeliveryInv /\ OnceInv /\ ClosedInv /\ TallyInv
        /\ ExactInv /\ CountInv /\ StatusInv /\ [Next]_vars => StatusInv'
  BY <1>h, FinalStep
<1>6. Spec => [](JobsInv /\ RowInv /\ KindInv /\ ReportInv /\ ClosedInv)
  BY <1>h, ClosedInvariant
<1>7. JobsInv => DeliveryInv /\ OnceInv /\ FirstTry
  BY DEF JobsInv
<1>8. Spec => []TallyInv
  BY <1>h, TallyInvariant
<1> QED BY <1>1, <1>2, <1>3, <1>4, <1>5, <1>6, <1>7, <1>8, PTL DEF Spec

\* A completed action is exact: every batch has reported, once, the counters
\* add up to the number of entities planned, and the status tells whether any
\* of them failed (the planner's totals, record_batch_completion and
\* finalize_if_complete), through errors and timeouts, given-up batches,
\* deferrals, failed plannings, expired results, rows that leave the target
\* set, patches and a cancellation at any moment.
THEOREM CompletionIsExact == ASSUME OneReport PROVE Spec => []CompletedIsExact
<1>1. ASSUME RowInv, ExactInv, StatusInv PROVE CompletedIsExact
  <2> SUFFICES ASSUME action.status \in {"completed", "completed_with_errors"}
               PROVE  /\ action.processed_count = action.total_entities
                      /\ action.completed_batches = action.total_batches
                      /\ Reported = 0 .. (action.total_batches - 1)
                      /\ (action.status = "completed") = (action.failure_count = 0)
    BY DEF CompletedIsExact
  <2>1. Complete /\ (action.status = "completed") = (action.failure_count = 0)
    BY <1>1 DEF StatusInv
  <2>2. PICK n \in Nat : n = action.total_batches
    BY <1>1 DEF RowInv, TypeOK, BulkAction
  <2>3. Reported = 0 .. (n - 1)
    BY <2>1, <2>2 DEF Complete, Planned
  <2>4. Cardinality(0 .. (n - 1)) = n
    BY FS_Interval
  <2>5. action.completed_batches = Cardinality(Reported)
    BY <1>1 DEF ExactInv
  <2>6. action.processed_count = action.total_entities
    BY <1>1, <2>1 DEF Complete, Planned, ExactInv
  <2> QED BY <2>1, <2>2, <2>3, <2>4, <2>5, <2>6
<1> QED BY <1>1, ExactInvariant, PTL
=============================================================================
