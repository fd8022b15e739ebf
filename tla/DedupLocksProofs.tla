-------------------------- MODULE DedupLocksProofs --------------------------
(***************************************************************************)
(* Proofs about DedupLocks, for any number of deliveries, any assignment   *)
(* of entities, keys, batches and actions to them, and any number of       *)
(* faults.                                                                 *)
(***************************************************************************)
EXTENDS DedupLocks, WellFoundedInduction, TLAPS

\* A nonempty set of naturals has a smallest element.
LEMMA SmallestOf ==
    ASSUME NEW T, T \subseteq Nat, T # {}
    PROVE  \E x \in T : \A y \in T : x <= y
<1> DEFINE R == OpToRel(<, Nat)
<1>1. IsWellFoundedOn(R, Nat)
  BY NatLessThanWellFounded
<1> HIDE DEF R
<1>2. PICK x \in T : \A y \in T : <<y, x>> \notin R
  BY <1>1, WFMin
<1>3. \A y \in T : ~ (y < x)
  BY <1>2 DEF R, OpToRel
<1> QED
  BY <1>3

-----------------------------------------------------------------------------
(* The inductive invariant.                                                *)

InTxn == {"rows", "batch", "counter", "commit"}

\* What one transaction holds: an INSERT under way has visited its keys in
\* ascending order and taken every one the ledger did not have; past the
\* INSERT the claim is complete; a batch that is given up claims nothing.
Holding(t) ==
    /\ pc[t] \in {"queued", "skipped", "stranded"} => claimed[t] = {}
    /\ pc[t] = "keys" =>
          /\ try[t] <= MaxTries
          /\ claimed[t] \union todo[t] \subseteq keyed(t)
          /\ \A i \in claimed[t], j \in todo[t] : i < j
          /\ \A k \in keyed(t) : k \in claimed[t] \/ k \in todo[t] \/ <<Action[t], k>> \in ledger
    /\ pc[t] \in InTxn /\ try[t] <= MaxTries =>
          /\ claimed[t] \subseteq keyed(t)
          /\ \A k \in keyed(t) : k \in claimed[t] \/ <<Action[t], k>> \in ledger
    /\ try[t] > MaxTries => claimed[t] = {} /\ pc[t] \notin {"queued", "keys", "rows"}
    /\ Open(t) => \A k \in claimed[t] : <<Action[t], k>> \notin ledger
    /\ locked[t] # {} => pc[t] \in InTxn

\* Two open transactions of one action never hold the same key.
Exclusive(t, u) ==
    Open(t) /\ Open(u) /\ Action[t] = Action[u] => claimed[t] \intersect claimed[u] = {}

LockInv ==
    /\ TypeOK
    /\ \A t \in Txn : Holding(t)
    /\ \A t, u \in Txn : t # u => Exclusive(t, u)

\* Keys of rows are naturals from 1.
LEMMA KeyedType == \A t \in Txn : keyed(t) \subseteq 1 .. K
BY NAssumption, TxnAssumption, KeyAssumption DEF keyed, key, Entities

LEMMA LockInit == Init => LockInv
<1> SUFFICES ASSUME Init PROVE LockInv
  OBVIOUS
<1>1. TypeOK
  BY BoundsAssumption, NAssumption DEF Init, TypeOK
<1>2. \A t \in Txn : Holding(t)
  <2> SUFFICES ASSUME NEW t \in Txn PROVE Holding(t)
    OBVIOUS
  <2>1. pc[t] = "queued" /\ claimed[t] = {} /\ locked[t] = {} /\ try[t] = 1
    BY DEF Init
  <2>2. ~ (1 > MaxTries)
    BY BoundsAssumption
  <2> QED
    BY <2>1, <2>2 DEF Holding, Open, InTxn
<1>3. \A t, u \in Txn : t # u => Exclusive(t, u)
  BY DEF Init, Exclusive, Open
<1> QED
  BY <1>1, <1>2, <1>3 DEF LockInv

\* The shapes.
LEMMA TypeNext == TypeOK /\ [Next]_vars => TypeOK'
<1> SUFFICES ASSUME TypeOK, [Next]_vars PROVE TypeOK'
  OBVIOUS
<1> USE DEF TypeOK
<1>1. ASSUME NEW t \in Txn, Begin(t) PROVE TypeOK'
  BY <1>1, KeyedType DEF Begin
<1>2. ASSUME NEW t \in Txn, InsertKey(t) PROVE TypeOK'
  BY <1>2 DEF InsertKey
<1>3. ASSUME NEW t \in Txn, ChooseRow(t) PROVE TypeOK'
  <2>1. unique_rows(t) \subseteq 1 .. N
    BY TxnAssumption DEF unique_rows, Entities
  <2> QED
    BY <1>3, <2>1, NAssumption DEF ChooseRow
<1>4. ASSUME NEW t \in Txn, LockRow(t) PROVE TypeOK'
  BY <1>4, NAssumption DEF LockRow, Entities
<1>5. ASSUME NEW t \in Txn, RowsDone(t) \/ UpdateBatch(t) \/ UpdateCounter(t) PROVE TypeOK'
  BY <1>5 DEF RowsDone, UpdateBatch, UpdateCounter
<1>6. ASSUME NEW t \in Txn, Commit(t) PROVE TypeOK'
  <2>1. LedgerKeys(t, claimed[t]) \subseteq {Action[u] : u \in Txn} \X (1 .. K)
    BY DEF LedgerKeys
  <2> QED
    BY <1>6, <2>1 DEF Commit
<1>7. ASSUME NEW t \in Txn, Abort(t) \/ Crash(t), faults' \in 0 .. MaxFaults PROVE TypeOK'
  <2>1. try[t] <= MaxTries => try[t] + 1 \in 1 .. (MaxTries + 1)
    BY BoundsAssumption
  <2>2. try' \in [Txn -> 1 .. (MaxTries + 1)]
    BY <1>7, <2>1, BoundsAssumption DEF Abort, Crash
  <2> QED
    BY <1>7, <2>2, NAssumption DEF Abort, Crash, Rollback
<1>8. ASSUME NEW t \in Txn, DeadlockDetected(t) \/ Error(t) \/ Crash(t) PROVE TypeOK'
  BY <1>7, <1>8, BoundsAssumption DEF DeadlockDetected, Error, Crash
<1>9. CASE UNCHANGED vars
  BY <1>9 DEF vars
<1> QED
  BY <1>1, <1>2, <1>3, <1>4, <1>5, <1>6, <1>8, <1>9 DEF Next, Step, Rest

\* A step of t leaves the others as they were, except that a commit adds keys
\* to the ledger which no other transaction holds.
LEMMA OthersKeep ==
    ASSUME LockInv, NEW t \in Txn, NEW u \in Txn, u # t,
           pc'[u] = pc[u], todo'[u] = todo[u], claimed'[u] = claimed[u],
           locked'[u] = locked[u], try'[u] = try[u],
           \/ ledger' = ledger
           \/ Open(t) /\ ledger' = ledger \union LedgerKeys(t, claimed[t])
    PROVE  Holding(u)'
<1>1. Holding(u)
  BY DEF LockInv
<1>2. ledger \subseteq ledger'
  OBVIOUS
<1>3. Open(u) => \A k \in claimed[u] : <<Action[u], k>> \notin ledger'
  <2> SUFFICES ASSUME Open(u), NEW k \in claimed[u] PROVE <<Action[u], k>> \notin ledger'
    OBVIOUS
  <2>1. <<Action[u], k>> \notin ledger
    BY <1>1 DEF Holding
  <2>2. CASE ledger' = ledger
    BY <2>1, <2>2
  <2>3. CASE Open(t) /\ ledger' = ledger \union LedgerKeys(t, claimed[t])
    <3>1. Exclusive(t, u)
      BY DEF LockInv
    <3>2. <<Action[u], k>> \notin LedgerKeys(t, claimed[t])
      BY <2>3, <3>1 DEF Exclusive, LedgerKeys
    <3> QED
      BY <2>1, <2>3, <3>2
  <2> QED
    BY <2>2, <2>3
<1>4. keyed(u)' = keyed(u)
  BY DEF keyed, key
<1> QED
  BY <1>1, <1>2, <1>3, <1>4 DEF Holding, Open

\* Exclusive claims stay so when no claim grows and no transaction opens with one.
LEMMA ExclusiveKeep ==
    ASSUME LockInv, NEW t \in Txn,
           \A u \in Txn \ {t} : pc'[u] = pc[u] /\ claimed'[u] = claimed[u],
           claimed'[t] = {} \/ (claimed'[t] = claimed[t] /\ (Open(t)' => Open(t)))
    PROVE  (\A u, v \in Txn : u # v => Exclusive(u, v))'
<1> SUFFICES ASSUME NEW u \in Txn, NEW v \in Txn, u # v PROVE Exclusive(u, v)'
  OBVIOUS
<1>1. Exclusive(u, v)
  BY DEF LockInv
<1>2. CASE u # t /\ v # t
  BY <1>1, <1>2 DEF Exclusive, Open
<1>3. CASE u = t
  BY <1>1, <1>3 DEF Exclusive, Open
<1>4. CASE v = t
  BY <1>1, <1>4 DEF Exclusive, Open
<1> QED
  BY <1>2, <1>3, <1>4

LEMMA LockNext == LockInv /\ [Next]_vars => LockInv'
<1> SUFFICES ASSUME LockInv, [Next]_vars PROVE LockInv'
  OBVIOUS
<1>0. TypeOK /\ TypeOK'
  BY TypeNext DEF LockInv
<1>h. \A t \in Txn : Holding(t)
  BY DEF LockInv
<1>1. ASSUME NEW t \in Txn, Begin(t) PROVE LockInv'
  <2>1. claimed[t] = {} /\ try[t] <= MaxTries /\ locked[t] = {}
    <3>1. Holding(t) /\ pc[t] = "queued"
      BY <1>1, <1>h DEF Begin
    <3>2. try[t] \in Int /\ MaxTries \in Int
      BY <1>0, BoundsAssumption DEF TypeOK
    <3> QED
      BY <3>1, <3>2 DEF Holding, InTxn
  <2>2. Holding(t)'
    <3>1. /\ claimed'[t] = {} /\ locked'[t] = {} /\ try'[t] <= MaxTries
      BY <1>1, <2>1 DEF Begin
    <3>2. ~ (try'[t] > MaxTries)
      BY <3>1, <1>0, BoundsAssumption DEF TypeOK
    <3>3. keyed(t)' = keyed(t)
      BY DEF keyed, key
    <3>4. \/ pc'[t] = "skipped"
          \/ pc'[t] = "rows" /\ keyed(t) = {}
          \/ pc'[t] = "keys" /\ todo'[t] = keyed(t)
      BY <1>1, <1>0 DEF Begin, TypeOK
    <3> QED
      BY <3>1, <3>2, <3>3, <3>4 DEF Holding, Open, InTxn
  <2>3. \A u \in Txn \ {t} : Holding(u)'
    BY <1>1, OthersKeep, <1>0 DEF Begin, TypeOK
  <2>4. (\A u, v \in Txn : u # v => Exclusive(u, v))'
    BY <1>1, <2>1, ExclusiveKeep, <1>0 DEF Begin, TypeOK
  <2> QED
    BY <1>0, <2>2, <2>3, <2>4 DEF LockInv
<1>2. ASSUME NEW t \in Txn, InsertKey(t) PROVE LockInv'
  <2>1. PICK k \in todo[t] :
           /\ next_key(t, k)
           /\ claimed' = [claimed EXCEPT ![t] =
                            IF <<Action[t], k>> \in ledger THEN @ ELSE @ \union {k}]
           /\ todo' = [todo EXCEPT ![t] = @ \ {k}]
           /\ pc' = [pc EXCEPT ![t] = IF todo[t] = {k} THEN "rows" ELSE "keys"]
    BY <1>2 DEF InsertKey
  <2>2. pc[t] = "keys" /\ ~ Blocked(t) /\ locked' = locked /\ try' = try /\ ledger' = ledger
    BY <1>2 DEF InsertKey
  <2>3. Holding(t) /\ Open(t)
    BY <1>h, <2>2 DEF Open
  <2>4. todo[t] \subseteq Int /\ claimed[t] \subseteq Int /\ try[t] \in Int /\ MaxTries \in Int
    BY <1>0, BoundsAssumption DEF TypeOK
  <2>5. \A u \in Txn \ {t} : pc'[u] = pc[u] /\ todo'[u] = todo[u] /\ claimed'[u] = claimed[u]
    BY <2>1, <1>0 DEF TypeOK
  <2>6. /\ claimed'[t] = IF <<Action[t], k>> \in ledger THEN claimed[t] ELSE claimed[t] \union {k}
        /\ todo'[t] = todo[t] \ {k}
        /\ pc'[t] = IF todo[t] = {k} THEN "rows" ELSE "keys"
    BY <2>1, <1>0 DEF TypeOK
  <2>7. Holding(t)'
    <3>1. keyed(t)' = keyed(t)
      BY DEF keyed, key
    <3>2. \A i \in claimed'[t], j \in todo'[t] : i < j
      BY <2>1, <2>2, <2>3, <2>4, <2>6 DEF Holding, next_key
    <3>3. claimed'[t] \union todo'[t] \subseteq keyed(t)
      BY <2>1, <2>2, <2>3, <2>6 DEF Holding
    <3>4. \A j \in keyed(t) : j \in claimed'[t] \/ j \in todo'[t] \/ <<Action[t], j>> \in ledger
      BY <2>1, <2>2, <2>3, <2>6 DEF Holding
    <3>5. \A j \in claimed'[t] : <<Action[t], j>> \notin ledger
      BY <2>2, <2>3, <2>6 DEF Holding
    <3>6. try[t] <= MaxTries /\ ~ (try[t] > MaxTries) /\ locked[t] = {}
      BY <2>2, <2>3, <2>4 DEF Holding, InTxn
    <3>7. pc'[t] = "keys" \/ (pc'[t] = "rows" /\ todo'[t] = {})
      BY <2>6
    <3> QED
      BY <2>2, <3>1, <3>2, <3>3, <3>4, <3>5, <3>6, <3>7 DEF Holding, InTxn
  <2>8. \A u \in Txn \ {t} : Holding(u)'
    BY <2>2, <2>5, OthersKeep
  <2>9. \A u \in Txn \ {t} : Open(u) /\ Action[u] = Action[t] => claimed'[t] \intersect claimed[u] = {}
    <3> SUFFICES ASSUME NEW u \in Txn \ {t}, Open(u), Action[u] = Action[t]
                 PROVE claimed'[t] \intersect claimed[u] = {}
      OBVIOUS
    <3>1. k \notin claimed[u]
      BY <2>1, <2>2 DEF Blocked, WaitsFor, WaitsForKey
    <3>2. claimed[t] \intersect claimed[u] = {}
      BY <2>3 DEF LockInv, Exclusive
    <3> QED
      BY <2>6, <3>1, <3>2
  <2>10. (\A u, v \in Txn : u # v => Exclusive(u, v))'
    <3> SUFFICES ASSUME NEW u \in Txn, NEW v \in Txn, u # v PROVE Exclusive(u, v)'
      OBVIOUS
    <3>1. CASE u # t /\ v # t
      BY <2>5, <3>1 DEF LockInv, Exclusive, Open
    <3>2. CASE u = t
      BY <2>5, <2>9, <3>2 DEF Exclusive, Open
    <3>3. CASE v = t
      BY <2>5, <2>9, <3>3 DEF Exclusive, Open
    <3> QED
      BY <3>1, <3>2, <3>3
  <2> QED
    BY <1>0, <2>7, <2>8, <2>10 DEF LockInv
<1>3. ASSUME NEW t \in Txn, ChooseRow(t) PROVE LockInv'
  BY <1>3, <1>0 DEF ChooseRow, LockInv, Holding, Exclusive, Open, keyed, key
<1>4. ASSUME NEW t \in Txn, LockRow(t) PROVE LockInv'
  <2>1. \A u \in Txn \ {t} : locked'[u] = locked[u]
    BY <1>4, <1>0 DEF LockRow, TypeOK
  <2>2. Holding(t)'
    BY <1>4, <1>h DEF LockRow, Holding, Open, InTxn, keyed, key
  <2>3. \A u \in Txn \ {t} : Holding(u)'
    BY <1>4, <2>1, OthersKeep DEF LockRow
  <2>4. (\A u, v \in Txn : u # v => Exclusive(u, v))'
    BY <1>4 DEF LockRow, LockInv, Exclusive, Open
  <2> QED
    BY <1>0, <2>2, <2>3, <2>4 DEF LockInv
<1>5. ASSUME NEW t \in Txn, RowsDone(t) \/ UpdateBatch(t) \/ UpdateCounter(t) PROVE LockInv'
  <2>1. /\ pc[t] \in InTxn /\ pc'[t] \in InTxn \ {"rows"}
        /\ \A u \in Txn \ {t} : pc'[u] = pc[u]
        /\ todo' = todo /\ claimed' = claimed /\ locked' = locked /\ try' = try /\ ledger' = ledger
    BY <1>5, <1>0 DEF RowsDone, UpdateBatch, UpdateCounter, InTxn, TypeOK
  <2>2. Holding(t)'
    BY <2>1, <1>h DEF Holding, Open, InTxn, keyed, key
  <2>3. \A u \in Txn \ {t} : Holding(u)'
    BY <2>1, OthersKeep
  <2>4. (\A u, v \in Txn : u # v => Exclusive(u, v))'
    BY <2>1, ExclusiveKeep DEF Open, InTxn
  <2> QED
    BY <1>0, <2>2, <2>3, <2>4 DEF LockInv
<1>6. ASSUME NEW t \in Txn, Commit(t) PROVE LockInv'
  <2>1. /\ pc[t] = "commit" /\ pc'[t] \in {"done", "failed"} /\ locked'[t] = {}
        /\ \A u \in Txn \ {t} : pc'[u] = pc[u] /\ locked'[u] = locked[u]
        /\ todo' = todo /\ claimed' = claimed /\ try' = try
        /\ ledger' = ledger \union LedgerKeys(t, claimed[t])
    BY <1>6, <1>0 DEF Commit, TypeOK
  <2>2. Holding(t)'
    BY <2>1, <1>h DEF Holding, Open, InTxn
  <2>3. \A u \in Txn \ {t} : Holding(u)'
    BY <2>1, OthersKeep DEF Open
  <2>4. (\A u, v \in Txn : u # v => Exclusive(u, v))'
    BY <2>1, ExclusiveKeep DEF Open
  <2> QED
    BY <1>0, <2>2, <2>3, <2>4 DEF LockInv
<1>7. ASSUME NEW t \in Txn, Abort(t) \/ Crash(t) PROVE LockInv'
  <2>0. Rollback(t)
    BY <1>7 DEF Abort, Crash
  <2>1. /\ claimed'[t] = {} /\ locked'[t] = {} /\ todo'[t] = {} /\ ledger' = ledger
        /\ \A u \in Txn \ {t} : /\ pc'[u] = pc[u] /\ todo'[u] = todo[u] /\ locked'[u] = locked[u]
                                /\ claimed'[u] = claimed[u] /\ try'[u] = try[u]
    BY <1>7, <2>0, <1>0 DEF Abort, Crash, Rollback, TypeOK
  <2>2. Holding(t)'
    <3>1. try[t] \in Int /\ MaxTries \in Int
      BY <1>0, BoundsAssumption DEF TypeOK
    <3>2. \/ pc'[t] = "stranded"
          \/ pc'[t] = "queued" /\ ~ (try'[t] > MaxTries)
          \/ pc'[t] = "batch" /\ ~ (try'[t] <= MaxTries)
      BY <1>7, <3>1, <1>0 DEF Abort, Crash, TypeOK
    <3> QED
      BY <2>1, <3>2 DEF Holding, Open, InTxn
  <2>3. \A u \in Txn \ {t} : Holding(u)'
    BY <2>1, OthersKeep
  <2>4. (\A u, v \in Txn : u # v => Exclusive(u, v))'
    BY <2>1, ExclusiveKeep
  <2> QED
    BY <1>0, <2>2, <2>3, <2>4 DEF LockInv
<1>8. CASE UNCHANGED vars
  BY <1>8, <1>0 DEF vars, LockInv, Holding, Exclusive, Open, keyed, key
<1> QED
  BY <1>1, <1>2, <1>3, <1>4, <1>5, <1>6, <1>7, <1>8 DEF Next, Step, Rest, DeadlockDetected, Error

-----------------------------------------------------------------------------
(* Theorems.                                                               *)

\* The locks and the transactions' local state keep their shapes.
THEOREM LocksTypeCorrect == Spec => []TypeOK
<1>1. Init => TypeOK
  BY LockInit DEF LockInv
<1> QED
  BY <1>1, TypeNext, PTL DEF Spec

\* In a circle of waiting transactions nobody is past the entity rows: a commit
\* waits for nothing, the counter for commits, the batch row for those two.
LEMMA CycleIsEarly ==
    ASSUME NEW S \in SUBSET Txn, Cycle(S), NEW t \in S
    PROVE  pc[t] \in {"keys", "rows"}
<1>1. \A u \in S : pc[u] # "commit"
  BY DEF Cycle, WaitsFor, WaitsForKey, WaitsForRow, WaitsForBatch, WaitsForCounter
<1>2. \A u \in S : pc[u] # "counter"
  BY <1>1 DEF Cycle, WaitsFor, WaitsForKey, WaitsForRow, WaitsForBatch, WaitsForCounter
<1>3. \A u \in S : pc[u] # "batch"
  BY <1>1, <1>2 DEF Cycle, WaitsFor, WaitsForKey, WaitsForRow, WaitsForBatch, WaitsForCounter
<1> QED
  BY <1>3 DEF Cycle, WaitsFor, WaitsForKey, WaitsForRow, WaitsForBatch, WaitsForCounter

\* A transaction of a circle that is inserting keys is waited for by another
\* one, whose next key is smaller than its own.
LEMMA SmallerKeyWaits ==
    ASSUME LockInv, NEW S \in SUBSET Txn, Cycle(S), NEW t \in S, pc[t] = "keys",
           NEW k, next_key(t, k)
    PROVE  \E u \in S, j \in Nat : pc[u] = "keys" /\ next_key(u, j) /\ j < k
<1>1. PICK u \in S : WaitsFor(u, t)
  BY DEF Cycle
<1>2. Holding(t) /\ locked[t] = {}
  BY DEF LockInv, Holding, InTxn
<1>3. WaitsForKey(u, t)
  BY <1>1, <1>2 DEF WaitsFor, WaitsForRow, WaitsForBatch, WaitsForCounter
<1>4. PICK j \in claimed[t] : next_key(u, j)
  BY <1>3 DEF WaitsForKey
<1>5. j < k
  BY <1>2, <1>4 DEF Holding, next_key
<1>6. j \in Nat
  BY NAssumption DEF LockInv, TypeOK
<1> QED
  BY <1>3, <1>4, <1>5, <1>6 DEF WaitsForKey

LEMMA NoKeyCycle == LockInv => KeysNeverDeadlock
<1> SUFFICES ASSUME LockInv, NEW S \in SUBSET Waiting, Cycle(S), NEW t \in S, pc[t] # "rows"
             PROVE FALSE
  BY DEF KeysNeverDeadlock
<1>1. S \in SUBSET Txn
  BY DEF Waiting
<1>2. pc[t] = "keys"
  BY <1>1, CycleIsEarly
<1> DEFINE M == {j \in Nat : \E u \in S : pc[u] = "keys" /\ next_key(u, j)}
<1>3. \E j \in M : TRUE
  <2>1. PICK u \in S : WaitsFor(t, u)
    BY DEF Cycle
  <2>2. PICK j \in claimed[u] : next_key(t, j)
    BY <1>2, <2>1 DEF WaitsFor, WaitsForKey, WaitsForRow, WaitsForBatch, WaitsForCounter
  <2>3. j \in Nat
    BY <1>1, NAssumption DEF LockInv, TypeOK
  <2> QED
    BY <1>2, <2>2, <2>3
<1>4. PICK j \in M : \A i \in M : j <= i
  <2> HIDE DEF M
  <2>1. M \subseteq Nat
    BY DEF M
  <2> QED
    BY <1>3, <2>1, SmallestOf
<1>5. PICK u \in S : pc[u] = "keys" /\ next_key(u, j)
  BY <1>4
<1>6. PICK v \in S, i \in Nat : pc[v] = "keys" /\ next_key(v, i) /\ i < j
  BY <1>1, <1>5, SmallerKeyWaits
<1>7. i \in M
  BY <1>6
<1> QED
  BY <1>4, <1>6, <1>7

\* "Sorting gives every transaction the same lock acquisition order, which
\* makes the cycle impossible to form" (partition_duplicates), for any batches,
\* keys and deliveries: a circle of waiting transactions is among entity rows.
THEOREM KeyOrderHasNoCycle == Spec => []KeysNeverDeadlock
<1> QED
  BY LockInit, LockNext, NoKeyCycle, PTL DEF Spec

\* A committed batch claims its keys as if in one step: the lock-grain
\* transactions implement the abstract claims (partition_duplicates).
THEOREM LocksImplementClaims == Spec => ClaimsAreAtomic
<1>1. Init => Abstract!Init
  BY DEF Init, Abstract!Init
<1>2. LockInv /\ [Next]_vars => [Abstract!Next]_(Abstract!vars)
  <2> SUFFICES ASSUME LockInv, [Next]_vars PROVE [Abstract!Next]_(Abstract!vars)
    OBVIOUS
  <2> DEFINE done == {t \in Txn : pc[t] = "done"}
             won == [t \in Txn |-> IF pc[t] = "done" THEN LedgerKeys(t, claimed[t]) ELSE {}]
             keys == [t \in Txn |-> LedgerKeys(t, keyed(t))]
  <2>0. TypeOK
    BY DEF LockInv
  <2>1. ASSUME ledger' = ledger,
               \A u \in Txn : (pc'[u] = "done" <=> pc[u] = "done"),
               \A u \in Txn : pc[u] = "done" => claimed'[u] = claimed[u]
        PROVE  UNCHANGED Abstract!vars
    <3>1. done' = done
      BY <2>1
    <3>2. won' = won
      BY <2>1 DEF LedgerKeys
    <3> QED
      BY <2>1, <3>1, <3>2 DEF Abstract!vars
  <2>2. ASSUME NEW t \in Txn, Begin(t) \/ InsertKey(t) \/ Abort(t) \/ Crash(t) PROVE UNCHANGED Abstract!vars
    <3>1. /\ ledger' = ledger /\ pc[t] # "done" /\ pc'[t] # "done"
          /\ \A u \in Txn \ {t} : pc'[u] = pc[u] /\ claimed'[u] = claimed[u]
      <4>1. CASE Begin(t) \/ InsertKey(t)
        BY <2>0, <4>1 DEF Begin, InsertKey, TypeOK
      <4>2. CASE Abort(t) \/ Crash(t)
        <5>1. Rollback(t)
          BY <4>2 DEF Abort, Crash
        <5>2. ledger' = ledger /\ \A u \in Txn \ {t} : claimed'[u] = claimed[u]
          BY <2>0, <5>1 DEF Rollback, TypeOK
        <5>3. pc[t] # "done"
          BY <5>1 DEF Rollback, Open
        <5>4. pc'[t] # "done" /\ \A u \in Txn \ {t} : pc'[u] = pc[u]
          BY <2>0, <4>2 DEF Abort, Crash, TypeOK
        <5> QED BY <5>2, <5>3, <5>4
      <4> QED BY <2>2, <4>1, <4>2
    <3> QED
      BY <2>1, <3>1
  <2>3. ASSUME NEW t \in Txn,
               ChooseRow(t) \/ LockRow(t) \/ RowsDone(t) \/ UpdateBatch(t) \/ UpdateCounter(t)
        PROVE  UNCHANGED Abstract!vars
    <3>1. /\ ledger' = ledger /\ claimed' = claimed /\ pc[t] # "done" /\ pc'[t] # "done"
          /\ \A u \in Txn \ {t} : pc'[u] = pc[u]
      BY <2>0, <2>3 DEF ChooseRow, LockRow, RowsDone, UpdateBatch, UpdateCounter, TypeOK
    <3> QED
      BY <2>1, <3>1
  <2>4. ASSUME NEW t \in Txn, Commit(t) PROVE [Abstract!Next]_(Abstract!vars)
    <3>0. /\ pc[t] = "commit" /\ claimed' = claimed
          /\ ledger' = ledger \union LedgerKeys(t, claimed[t])
          /\ pc' = [pc EXCEPT ![t] = IF try[t] > MaxTries THEN "failed" ELSE "done"]
      BY <2>4 DEF Commit
    <3>h. Holding(t)
      BY DEF LockInv
    <3>1. CASE try[t] > MaxTries
      <4>1. LedgerKeys(t, claimed[t]) = {}
        BY <3>1, <3>h DEF Holding, LedgerKeys
      <4>2. ledger' = ledger
        BY <3>0, <4>1
      <4>3. \A u \in Txn : (pc'[u] = "done" <=> pc[u] = "done")
        BY <2>0, <3>0, <3>1 DEF TypeOK
      <4> QED
        BY <2>1, <3>0, <4>2, <4>3
    <3>2. CASE ~ (try[t] > MaxTries)
      <4>1. /\ claimed[t] \subseteq keyed(t)
            /\ \A k \in keyed(t) : k \in claimed[t] \/ <<Action[t], k>> \in ledger
            /\ \A k \in claimed[t] : <<Action[t], k>> \notin ledger
        <5>1. try[t] <= MaxTries
          BY <2>0, <3>2, BoundsAssumption DEF TypeOK
        <5> QED
          BY <3>0, <3>h, <5>1 DEF Holding, InTxn, Open
      <4>2. LedgerKeys(t, claimed[t]) = keys[t] \ ledger
        BY <4>1 DEF LedgerKeys
      <4>3. ledger' = ledger \union keys[t]
        BY <3>0, <4>2
      <4>4. pc'[t] = "done" /\ \A u \in Txn \ {t} : pc'[u] = pc[u]
        BY <2>0, <3>0, <3>2 DEF TypeOK
      <4>5. t \notin done /\ done' = done \union {t}
        BY <3>0, <4>4
      <4>6. won' = [won EXCEPT ![t] = keys[t] \ ledger]
        <5>1. \A u \in Txn : LedgerKeys(u, claimed[u])' = LedgerKeys(u, claimed[u])
          BY <3>0 DEF LedgerKeys
        <5> QED
          BY <4>2, <4>4, <5>1
      <4>7. Abstract!Claim(t)
        BY <4>3, <4>5, <4>6 DEF Abstract!Claim
      <4> QED
        BY <4>7 DEF Abstract!Next
    <3> QED
      BY <3>1, <3>2
  <2>5. CASE UNCHANGED vars
    BY <2>1, <2>5 DEF vars
  <2> QED
    BY <2>2, <2>3, <2>4, <2>5 DEF Next, Step, Rest, DeadlockDetected, Error
<1> QED
  BY <1>1, <1>2, LockInit, LockNext, PTL DEF Spec, ClaimsAreAtomic, Abstract!Spec
=============================================================================
