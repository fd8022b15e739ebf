------------------------------ MODULE Handlers ------------------------------
(***************************************************************************)
(* What one batch does to its rows: de-duplication (services/dedup.py) and *)
(* the two shipped actions (domain/actions/bulk_update.py, bulk_delete.py).*)
(***************************************************************************)
EXTENDS TargetSet

CONSTANTS ActionType,    \* "update", "soft_delete" or "hard_delete"
          LeavesTarget,  \* does an updated row stop matching the filter?
          Deduplicate,   \* is deduplicate_by set?
          Key, NoKey     \* normalised dedup key of each entity, NoKey if empty

ASSUME ActionTypeAssumption == ActionType \in {"update", "soft_delete", "hard_delete"}
ASSUME LeavesTargetAssumption == LeavesTarget \in BOOLEAN
ASSUME DeduplicateAssumption == Deduplicate \in BOOLEAN

Keys == {Key[e] : e \in Entities} \ {NoKey}

\* Mutant: a missing key is claimed like any other.
claimed_with_missing(rows, ledger) == IF Deduplicate THEN {Key[e] : e \in rows} \ ledger ELSE {}

\* INSERT ... ON CONFLICT DO NOTHING RETURNING: the keys this batch claims.
claimed_keys(rows, ledger) ==
    IF Deduplicate THEN {Key[e] : e \in rows} \ (ledger \union {NoKey}) ELSE {}

\* Mutant: the first row of a key wins within its batch, whatever was claimed.
batch_unique_rows(rows, ledger) ==
    {e \in rows : Key[e] = NoKey \/ \A f \in rows : Key[f] = Key[e] => e <= f}

\* Rows without a key pass; of the rows of a claimed key the first one does.
unique_rows(rows, ledger) ==
    IF Deduplicate
    THEN {e \in rows : \/ Key[e] = NoKey
                       \/ /\ Key[e] \in claimed_keys(rows, ledger)
                          /\ \A f \in rows : Key[f] = Key[e] => e <= f}
    ELSE rows

\* Mutant: entities that left the target set are not counted.
no_drift(entity_count, rows) == 0

\* Entities counted when the batch was planned that the load did not return.
\* More rows than planned is not a deficit.
left_target_set(entity_count, rows) ==
    LET drift == entity_count - Cardinality(rows) IN IF drift > 0 THEN drift ELSE 0

\* Rows already holding the values, as they were when the batch loaded them.
no_change_rows(rows, held) == IF ActionType = "update" THEN rows \intersect held ELSE {}

\* RETURNING: the statement is scoped by key and account only, so a row that
\* was soft-deleted or stopped matching since the load is written all the same.
written_rows(table, to_write) == {e \in to_write : table[e] # "gone"}

row_after(state) ==
    CASE ActionType = "soft_delete" -> "deleted"
      [] ActionType = "hard_delete" -> "gone"
      [] ActionType = "update" /\ state \in {"match", "held"} ->
            IF LeavesTarget THEN "other" ELSE "held"
      [] OTHER -> state

table_after(table, written) ==
    [e \in Entities |-> IF e \in written THEN row_after(table[e]) ELSE table[e]]
=============================================================================
