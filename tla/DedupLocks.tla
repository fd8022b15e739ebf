----------------------------- MODULE DedupLocks -----------------------------
(***************************************************************************)
(* The transactions of run_batch (services/batch_runner.py) at the grain   *)
(* of the row locks PostgreSQL takes for them: the dedup keys of the batch *)
(* (services/dedup.py), then the entity rows the handler writes, then the  *)
(* row of the batch and the counters of its action, all held to the end of *)
(* the transaction.  Batches of one action share dedup keys, deliveries of *)
(* one batch share everything, batches of different actions share entity   *)
(* rows.  PostgreSQL breaks a cycle of waiting transactions by aborting    *)
(* one of them, which the job sees as an exception.                        *)
(***************************************************************************)
EXTENDS Integers

CONSTANTS Txn,        \* deliveries of batches, one transaction at a time each
          Action,     \* the action of each delivery
          Batch,      \* the batch of each delivery
          Slice,      \* the entities its load returned
          N,          \* entities are 1..N, in primary key order
          K,          \* normalised dedup keys are 1..K, in string order
          Key,        \* action -> entity -> its key under the action's deduplicate_by, 0 for none
          MaxTries,   \* settings.job_max_tries
          MaxFaults   \* bound: errors and crashes in one behaviour

Entities == 1 .. N

ASSUME NAssumption == N \in Nat /\ K \in Nat
ASSUME TxnAssumption == Slice \in [Txn -> SUBSET Entities]
ASSUME KeyAssumption == Key \in [{Action[t] : t \in Txn} -> [Entities -> 0 .. K]]
ASSUME BoundsAssumption == MaxTries \in Nat \ {0} /\ MaxFaults \in Nat

VARIABLES pc,        \* where each delivery is
          todo,      \* keys its INSERT has still to visit
          claimed,   \* keys its INSERT has written
          want,      \* the entity row it is about to lock, 0 for none
          locked,    \* the entity rows it has locked
          try,       \* job_try
          ledger,    \* bulk_action_dedup, committed: (action, key)
          faults     \* how many of MaxFaults are left

vars == <<pc, todo, claimed, want, locked, try, ledger, faults>>

-----------------------------------------------------------------------------
(* Which rows a transaction locks, and who waits for whom.                 *)

key(t, e) == Key[Action[t]][e]

\* Mutant: a row without a value is claimed like any other.
keyed_with_missing(t) == {key(t, e) : e \in Slice[t]}

keyed(t) == {key(t, e) : e \in Slice[t]} \ {0}

LedgerKeys(t, keys) == {<<Action[t], k>> : k \in keys}

\* Mutant: the keys are inserted as the rows come, not sorted.
next_key_unsorted(t, k) ==
    /\ k \in todo[t]
    /\ \E e \in Slice[t] : key(t, e) = k /\ \A f \in Slice[t] : key(t, f) \in todo[t] => e <= f

\* sorted(keyed): the key the INSERT visits next.
next_key(t, k) == k \in todo[t] /\ \A j \in todo[t] : k <= j

\* Rows without a key, and the first row of every key won.
unique_rows(t) ==
    {e \in Slice[t] :
        \/ key(t, e) = 0
        \/ /\ key(t, e) \in claimed[t]
           /\ \A f \in Slice[t] : key(t, f) = key(t, e) => e <= f}

\* Inside the transaction of run_batch, or of _mark_batch_failed at its end.
Open(t) == pc[t] \in {"keys", "rows", "batch", "counter", "commit"}

\* An uncommitted row of bulk_action_dedup, a locked entity row, the batch row
\* and the row of the action.
WaitsForKey(t, u) ==
    /\ pc[t] = "keys" /\ Open(u) /\ Action[t] = Action[u]
    /\ \E k \in claimed[u] : next_key(t, k)
WaitsForRow(t, u) == pc[t] = "rows" /\ want[t] \in locked[u]
WaitsForBatch(t, u) ==
    pc[t] = "batch" /\ Batch[t] = Batch[u] /\ pc[u] \in {"counter", "commit"}
WaitsForCounter(t, u) == pc[t] = "counter" /\ Action[t] = Action[u] /\ pc[u] = "commit"

WaitsFor(t, u) ==
    /\ t # u
    /\ WaitsForKey(t, u) \/ WaitsForRow(t, u) \/ WaitsForBatch(t, u) \/ WaitsForCounter(t, u)

Blocked(t) == \E u \in Txn : WaitsFor(t, u)

Waiting == {t \in Txn : Blocked(t)}

\* A set of transactions each of which waits for one of them.
Cycle(S) ==
    \A t \in S : /\ \E u \in S : WaitsFor(t, u)
                 /\ \E u \in S : WaitsFor(u, t)

-----------------------------------------------------------------------------
Init ==
    /\ pc = [t \in Txn |-> "queued"]
    /\ todo = [t \in Txn |-> {}]
    /\ claimed = [t \in Txn |-> {}]
    /\ want = [t \in Txn |-> 0]
    /\ locked = [t \in Txn |-> {}]
    /\ try = [t \in Txn |-> 1]
    /\ ledger = {}
    /\ faults = MaxFaults

\* The batch is re-read, its rows are loaded and the INSERT starts; a batch
\* another delivery has completed is left alone.
Begin(t) ==
    /\ pc[t] = "queued"
    /\ IF \E u \in Txn : Batch[u] = Batch[t] /\ pc[u] = "done"
       THEN pc' = [pc EXCEPT ![t] = "skipped"] /\ UNCHANGED todo
       ELSE /\ todo' = [todo EXCEPT ![t] = keyed(t)]
            /\ pc' = [pc EXCEPT ![t] = IF keyed(t) = {} THEN "rows" ELSE "keys"]
    /\ UNCHANGED <<claimed, want, locked, try, ledger, faults>>

\* Mutant: an uncommitted row of another transaction is not waited for.
InsertKeyBlind(t) ==
    /\ pc[t] = "keys"
    /\ \E k \in todo[t] :
          /\ next_key(t, k)
          /\ claimed' = [claimed EXCEPT ![t] =
                           IF <<Action[t], k>> \in ledger THEN @ ELSE @ \union {k}]
          /\ todo' = [todo EXCEPT ![t] = @ \ {k}]
    /\ pc' = [pc EXCEPT ![t] = IF todo'[t] = {} THEN "rows" ELSE "keys"]
    /\ UNCHANGED <<want, locked, try, ledger, faults>>

\* One value of the INSERT ... ON CONFLICT DO NOTHING.
InsertKey(t) ==
    /\ pc[t] = "keys"
    /\ ~ Blocked(t)
    /\ \E k \in todo[t] :
          /\ next_key(t, k)
          /\ claimed' = [claimed EXCEPT ![t] =
                           IF <<Action[t], k>> \in ledger THEN @ ELSE @ \union {k}]
          /\ todo' = [todo EXCEPT ![t] = @ \ {k}]
          /\ pc' = [pc EXCEPT ![t] = IF todo[t] = {k} THEN "rows" ELSE "keys"]
    /\ UNCHANGED <<want, locked, try, ledger, faults>>

\* The UPDATE or DELETE of the handler reaches its rows in the order its plan
\* chooses.
ChooseRow(t) ==
    /\ pc[t] = "rows" /\ want[t] = 0
    /\ \E e \in unique_rows(t) \ locked[t] : want' = [want EXCEPT ![t] = e]
    /\ UNCHANGED <<pc, todo, claimed, locked, try, ledger, faults>>

LockRow(t) ==
    /\ pc[t] = "rows" /\ want[t] # 0
    /\ ~ Blocked(t)
    /\ locked' = [locked EXCEPT ![t] = @ \union {want[t]}]
    /\ want' = [want EXCEPT ![t] = 0]
    /\ UNCHANGED <<pc, todo, claimed, try, ledger, faults>>

RowsDone(t) ==
    /\ pc[t] = "rows" /\ unique_rows(t) \subseteq locked[t]
    /\ pc' = [pc EXCEPT ![t] = "batch"]
    /\ UNCHANGED <<todo, claimed, want, locked, try, ledger, faults>>

UpdateBatch(t) ==
    /\ pc[t] = "batch"
    /\ ~ Blocked(t)
    /\ pc' = [pc EXCEPT ![t] = "counter"]
    /\ UNCHANGED <<todo, claimed, want, locked, try, ledger, faults>>

\* record_batch_completion
UpdateCounter(t) ==
    /\ pc[t] = "counter"
    /\ ~ Blocked(t)
    /\ pc' = [pc EXCEPT ![t] = "commit"]
    /\ UNCHANGED <<todo, claimed, want, locked, try, ledger, faults>>

Commit(t) ==
    /\ pc[t] = "commit"
    /\ ledger' = ledger \union LedgerKeys(t, claimed[t])
    /\ locked' = [locked EXCEPT ![t] = {}]
    /\ pc' = [pc EXCEPT ![t] = IF try[t] > MaxTries THEN "failed" ELSE "done"]
    /\ UNCHANGED <<todo, claimed, want, try, faults>>

\* The session rolls back: the locks and the uncommitted claims are gone.
Rollback(t) ==
    /\ Open(t)
    /\ todo' = [todo EXCEPT ![t] = {}]
    /\ claimed' = [claimed EXCEPT ![t] = {}]
    /\ want' = [want EXCEPT ![t] = 0]
    /\ locked' = [locked EXCEPT ![t] = {}]
    /\ UNCHANGED ledger

\* Mutant: the job starts again by itself, however often it was aborted.
AbortRetried(t) ==
    /\ Rollback(t)
    /\ pc' = [pc EXCEPT ![t] = "queued"]
    /\ UNCHANGED try

\* The job raises, which ends it; on its last try it first gives the batch up
\* in a transaction of its own (_mark_batch_failed).
Abort(t) ==
    /\ Rollback(t)
    /\ IF try[t] = MaxTries
       THEN try' = [try EXCEPT ![t] = @ + 1] /\ pc' = [pc EXCEPT ![t] = "batch"]
       ELSE UNCHANGED try /\ pc' = [pc EXCEPT ![t] = "stranded"]

\* The worker dies: the job is delivered again until its tries are used up.
Crash(t) ==
    /\ faults > 0 /\ faults' = faults - 1
    /\ Rollback(t)
    /\ IF try[t] < MaxTries
       THEN try' = [try EXCEPT ![t] = @ + 1] /\ pc' = [pc EXCEPT ![t] = "queued"]
       ELSE UNCHANGED try /\ pc' = [pc EXCEPT ![t] = "stranded"]

DeadlockDetected(t) ==
    /\ t \in Waiting
    /\ \E S \in SUBSET Waiting : t \in S /\ Cycle(S)
    /\ Abort(t)
    /\ UNCHANGED faults

Error(t) ==
    /\ faults > 0 /\ faults' = faults - 1
    /\ Abort(t)

Step(t) ==
    \/ Begin(t) \/ InsertKey(t) \/ ChooseRow(t) \/ LockRow(t) \/ RowsDone(t)
    \/ UpdateBatch(t) \/ UpdateCounter(t) \/ Commit(t)

Ended(t) == pc[t] \in {"done", "failed", "skipped", "stranded"}

Rest == (\A t \in Txn : Ended(t)) /\ UNCHANGED vars

Next ==
    \/ \E t \in Txn : Step(t) \/ DeadlockDetected(t) \/ Error(t) \/ Crash(t)
    \/ Rest

Spec == Init /\ [][Next]_vars

\* Every transaction runs on, and PostgreSQL looks for cycles; errors and
\* crashes need not happen.
FairSpec ==
    /\ Spec
    /\ \A t \in Txn : WF_vars(Step(t))
    /\ WF_vars(\E t \in Txn : DeadlockDetected(t))

-----------------------------------------------------------------------------
(* Properties.                                                             *)

\* The shapes of the locks and of the transactions' local state.
TypeOK ==
    /\ pc \in [Txn -> {"queued", "keys", "rows", "batch", "counter", "commit",
                       "done", "failed", "skipped", "stranded"}]
    /\ todo \in [Txn -> SUBSET (1 .. K)]
    /\ claimed \in [Txn -> SUBSET (1 .. K)]
    /\ want \in [Txn -> 0 .. N]
    /\ locked \in [Txn -> SUBSET Entities]
    /\ try \in [Txn -> 1 .. (MaxTries + 1)]
    /\ ledger \subseteq {Action[t] : t \in Txn} \X (1 .. K)
    /\ faults \in 0 .. MaxFaults

\* "Sorting gives every transaction the same lock acquisition order, which
\* makes the cycle impossible to form" (partition_duplicates): transactions
\* that wait for dedup keys, batch rows or counters never wait for each other
\* in a circle.  Only the entity rows, whose order the code leaves to
\* PostgreSQL, can close one.
KeysNeverDeadlock ==
    \A S \in SUBSET Waiting : Cycle(S) => \A t \in S : pc[t] = "rows"

\* At the grain of single locks a batch still claims its keys as one step: the
\* keys a committed delivery won are exactly those of its rows that no
\* delivery committed before it had claimed (partition_duplicates).
Abstract == INSTANCE Claims WITH
    KeysOf <- [t \in Txn |-> LedgerKeys(t, keyed(t))],
    committed <- {t \in Txn : pc[t] = "done"},
    claims <- [t \in Txn |-> IF pc[t] = "done" THEN LedgerKeys(t, claimed[t]) ELSE {}]

ClaimsAreAtomic == Abstract!Spec

\* Every delivery ends: committed, given up on its last try, skipped, or with
\* its exception.  No order of locks, rollback or abort by the deadlock detector leaves one
\* waiting for ever.
EveryDeliveryEnds == <>(\A t \in Txn : Ended(t))
=============================================================================
