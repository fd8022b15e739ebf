------------------------------ MODULE TargetSet ------------------------------
(***************************************************************************)
(* Which entities an action is about: selection_clause (domain/filters.py),*)
(* the planner's walk over it (services/batching.py) and the row load of a *)
(* batch (services/batch_runner.py).  Primary keys are 1..N in index order.*)
(* A row is in one of five states: it matches the filter ("match"), it     *)
(* matches and already holds the requested values ("held"), it is live and *)
(* does not match ("other"), it is soft-deleted ("deleted"), or the account*)
(* has no such row ("gone").                                               *)
(***************************************************************************)
EXTENDS Integers, Sequences, FiniteSets

CONSTANTS N,           \* number of primary keys
          EntityIds    \* the explicit ids of the request, <<>> for a filter

Entities == 1 .. N

ASSUME NAssumption == N \in Nat \ {0}
ASSUME EntityIdsAssumption == EntityIds \in Seq(Entities)

RowState == {"match", "held", "other", "deleted", "gone"}
Explicit == EntityIds # <<>>

\* Mutant: the size is not clamped to the account's rate limit.
unclamped_batch_size(requested, default, max, rate_limit) ==
    LET size == IF requested = 0 THEN default ELSE requested
    IN  IF size < 1 THEN 1 ELSE IF size < max THEN size ELSE max

\* requested is 0 when the request names no size.
effective_batch_size(requested, default, max, rate_limit) ==
    LET AtLeast1(n) == IF n < 1 THEN 1 ELSE n
        AtMost(n, m) == IF n < m THEN n ELSE m
        size == AtLeast1(AtMost(IF requested = 0 THEN default ELSE requested, max))
    IN  AtLeast1(AtMost(size, rate_limit))

\* Tenant-scoped, not soft-deleted, and matching the filter.
selection_clause(table) == {e \in Entities : table[e] \in {"match", "held"}}

\* Mutants: the cursor is inclusive; the walk starts one key too late.
inclusive_page(table, last, size) ==
    {e \in selection_clause(table) :
        /\ e >= last
        /\ Cardinality({f \in selection_clause(table) : last <= f /\ f < e}) < size}
skipping_page(table, last, size) ==
    {e \in selection_clause(table) :
        /\ e > last + 1
        /\ Cardinality({f \in selection_clause(table) : last + 1 < f /\ f < e}) < size}

\* One page of the keyset walk: the first size matching keys after last.
filter_page(table, last, size) ==
    {e \in selection_clause(table) :
        /\ e > last
        /\ Cardinality({f \in selection_clause(table) : last < f /\ f < e}) < size}

\* The inclusive key range a page is stored as.
cursor_range(page) ==
    {e \in Entities : \E lo, hi \in page : lo <= e /\ e <= hi}

\* Mutants: repeated ids are kept; the last id of a chunk is lost.
repeating_chunk(index, size) ==
    {EntityIds[i] : i \in {i \in 1 .. Len(EntityIds) :
        index * size < i /\ i <= (index + 1) * size}}
short_chunk(index, size) ==
    LET first == {i \in 1 .. Len(EntityIds) :
                    \A j \in 1 .. (i - 1) : EntityIds[j] # EntityIds[i]}
        rank(i) == Cardinality({j \in first : j < i})
    IN  {EntityIds[i] : i \in {i \in first :
            index * size <= rank(i) /\ rank(i) < (index + 1) * size - 1}}

\* Explicit ids: first occurrences in request order, cut in chunks of size.
id_chunk(index, size) ==
    LET first == {i \in 1 .. Len(EntityIds) :
                    \A j \in 1 .. (i - 1) : EntityIds[j] # EntityIds[i]}
        rank(i) == Cardinality({j \in first : j < i})
    IN  {EntityIds[i] : i \in {i \in first :
            index * size <= rank(i) /\ rank(i) < (index + 1) * size}}

\* A batch of explicit ids ignores the filter; a range re-applies it.
load_batch_rows(table, slice) ==
    IF Explicit
    THEN {e \in slice : table[e] \in {"match", "held", "other"}}
    ELSE slice \intersect selection_clause(table)
=============================================================================
