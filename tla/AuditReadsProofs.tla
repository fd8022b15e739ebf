-------------------------- MODULE AuditReadsProofs --------------------------
(***************************************************************************)
(* The reads of the audit trail, for every set of batches and outcomes and *)
(* every page size: a walk is complete and repeats nothing, and the stats  *)
(* breakdowns cover the counters.                                          *)
(***************************************************************************)
EXTENDS AuditReads, NumberFacts

\* A set of log rows whose ids the sequence has handed out.
Issued(rows) ==
    /\ IsFiniteSet(rows)
    /\ \A r \in rows : r.id \in Nat /\ 0 < r.id /\ r.id < nextId

\* Rows of an open transaction are new, and those of two are different.
LogInv ==
    /\ nextId \in Nat \ {0}
    /\ tx \in [Batches -> {"open", "committed"}]
    /\ DOMAIN open = Batches
    /\ Issued(log)
    /\ \A b \in Batches : Issued(open[b])
    /\ \A b \in Batches : tx[b] = "open" => open[b] \intersect log = {}
    /\ \A b, c \in Batches :
          b # c /\ tx[b] = "open" /\ tx[c] = "open" => open[b] \intersect open[c] = {}

\* The counters are the number of rows, so they only grow.
StatsInv ==
    /\ counters = [failed |-> Count(log, "failed"), skipped |-> Count(log, "skipped")]
    /\ stats \in [pc : {"idle", "action", "done"}, failed : Nat, skipped : Nat,
                  failure_breakdown : Nat, skip_breakdown : Nat]
    /\ stats.pc = "action" =>
          stats.failed <= counters.failed /\ stats.skipped <= counters.skipped
    /\ BreakdownCoversCounters

\* Up to the cursor the client has been given all that was there at the start,
\* and nothing from beyond it.
WalkInv ==
    /\ walk.cursor \in Nat
    /\ walk.pc \in {"idle", "walking", "done"}
    /\ walk.twice = FALSE
    /\ walk.seen \subseteq log
    /\ walk.pc = "idle" => walk.cursor = 0 /\ walk.seen = {}
    /\ walk.pc = "walking" =>
          /\ walk.before \subseteq {r \in log : r.status \in Wanted}
          /\ \A r \in walk.seen : r.id <= walk.cursor
          /\ \A r \in walk.before : r.id <= walk.cursor => r \in walk.seen
    /\ walk.pc = "done" => walk.before \subseteq walk.seen

AuditInv == LogInv /\ StatsInv /\ WalkInv

LEMMA CountFacts ==
    ASSUME NEW S, NEW T, IsFiniteSet(S), IsFiniteSet(T), NEW st
    PROVE  /\ Count(S, st) \in Nat /\ Count(T, st) \in Nat
           /\ S \intersect T = {} => Count(S \union T, st) = Count(S, st) + Count(T, st)
<1> DEFINE C(X) == {r \in X : r.status = st}
<1>1. /\ C(S) \subseteq S /\ C(T) \subseteq T /\ C(S \union T) = C(S) \union C(T)
      /\ S \intersect T = {} => C(S) \intersect C(T) = {}
  OBVIOUS
<1> HIDE DEF C
<1>2. IsFiniteSet(C(S)) /\ IsFiniteSet(C(T))
  BY <1>1, FS_Subset
<1>3. Cardinality(C(S)) \in Nat /\ Cardinality(C(T)) \in Nat
  BY <1>2, FS_CardinalityType
<1>4. ASSUME S \intersect T = {}
      PROVE  Cardinality(C(S \union T)) = Cardinality(C(S)) + Cardinality(C(T))
  <2>1. Cardinality(C(S) \union C(T)) =
          Cardinality(C(S)) + Cardinality(C(T)) - Cardinality(C(S) \intersect C(T))
    BY <1>2, FS_Union
  <2>2. Cardinality(C(S) \intersect C(T)) = 0
    BY <1>1, <1>4, FS_EmptySet
  <2>3. Cardinality(C(S \union T)) = Cardinality(C(S) \union C(T))
    BY <1>1
  <2> QED BY <1>3, <2>1, <2>2, <2>3
<1> QED BY <1>3, <1>4 DEF Count, C

\* What one page of the log is: of the matching rows after the cursor a lower
\* part, all of them when there is no further page, and never empty when there
\* is one.
LEMMA PageFacts ==
    ASSUME NEW rows, IsFiniteSet(rows), \A r \in rows : r.id \in Nat, NEW cursor \in Nat
    PROVE  LET A == {r \in rows : r.id > cursor /\ r.status \in Wanted}
               G == page(rows, cursor)
           IN  /\ G \subseteq A /\ IsFiniteSet(G)
               /\ \A r \in A, m \in G : r.id <= m.id => r \in G
               /\ ~ has_more(rows, cursor) => G = A
               /\ has_more(rows, cursor) => G # {}
<1> DEFINE A == {r \in rows : r.id > cursor /\ r.status \in Wanted}
           B(r) == {s \in A : s.id < r.id}
           G == page(rows, cursor)
<1>1. G = {r \in A : Cardinality(B(r)) < PageSize}
  BY DEF page
<1>2. has_more(rows, cursor) <=> Cardinality(A) > PageSize
  BY DEF has_more
<1>3. IsFiniteSet(A) /\ Cardinality(A) \in Nat
  BY FS_Subset, FS_CardinalityType
<1>4. \A r : B(r) \subseteq A
  OBVIOUS
<1>n. \A r \in A : r.id \in Nat
  OBVIOUS
<1>5. \A r \in A : IsFiniteSet(B(r)) /\ Cardinality(B(r)) \in Nat
  <2> HIDE DEF A, B
  <2> QED BY <1>3, <1>4, FS_Subset, FS_CardinalityType
<1>6. ASSUME NEW r \in A, NEW m \in G, r.id <= m.id PROVE r \in G
  <2>1. m \in A /\ Cardinality(B(m)) < PageSize
    BY <1>1
  <2>2. B(r) \subseteq B(m)
    <3>1. \A s \in A : s.id < r.id => s.id < m.id
      BY <1>6, <1>n, <2>1
    <3> QED BY <3>1
  <2> HIDE DEF A, B, G
  <2>3. Cardinality(B(r)) <= Cardinality(B(m))
    BY <1>5, <2>1, <2>2, FS_Subset
  <2>4. Cardinality(B(r)) < PageSize
    BY <1>5, <2>1, <2>3, PageAssumption
  <2> QED BY <1>1, <2>4
<1>7. ASSUME ~ has_more(rows, cursor) PROVE G = A
  <2>1. ASSUME NEW r \in A PROVE Cardinality(B(r)) < PageSize
    <3>1. r \notin B(r)
      BY <1>n
    <3> HIDE DEF A, B
    <3>2. Cardinality(B(r)) <= Cardinality(A) /\ Cardinality(B(r)) # Cardinality(A)
      BY <1>3, <1>4, <3>1, FS_Subset
    <3> QED BY <1>2, <1>3, <1>5, <1>7, <3>2, PageAssumption
  <2> HIDE DEF A, B
  <2> QED BY <1>1, <2>1
<1>8. ASSUME has_more(rows, cursor) PROVE G # {}
  <2>1. A # {}
    <3> HIDE DEF A
    <3> QED BY <1>2, <1>3, <1>8, FS_EmptySet, PageAssumption
  <2> DEFINE I == {r.id : r \in A}
  <2>2. I \in SUBSET Nat /\ I # {}
    BY <1>n, <2>1
  <2>3. PICK i \in I : \A x \in I : i <= x
    <3> HIDE DEF I
    <3> QED BY <2>2, LeastNat
  <2>4. PICK r \in A : r.id = i
    OBVIOUS
  <2>5. B(r) = {}
    <3>1. ASSUME NEW s \in A, s.id < r.id PROVE FALSE
      <4>1. i <= s.id /\ s.id \in Nat /\ i \in Nat
        BY <1>n, <2>2, <2>3
      <4> QED BY <2>4, <3>1, <4>1
    <3> QED BY <3>1
  <2> HIDE DEF A, B
  <2> QED BY <1>1, <2>4, <2>5, FS_EmptySet, PageAssumption
<1>9. G \subseteq A
  BY <1>1
<1>10. IsFiniteSet(G)
  <2> HIDE DEF A, G
  <2> QED BY <1>3, <1>9, FS_Subset
<1> HIDE DEF A, B, G
<1>11. \A r \in A, m \in G : r.id <= m.id => r \in G
  BY <1>6
<1> QED BY <1>7, <1>8, <1>9, <1>10, <1>11 DEF A, G

\* The next cursor is the id of a row of the page, and no row lies beyond it.
LEMMA NextCursor ==
    ASSUME NEW G, IsFiniteSet(G), G # {}, \A r \in G : r.id \in Nat
    PROVE  \E m \in G : Max({r.id : r \in G}) = m.id /\ \A r \in G : r.id <= m.id
<1> DEFINE I == {r.id : r \in G}
           f == [r \in G |-> r.id]
<1>1. f \in Surjection(G, I)
  BY DEF Surjection
<1>2. IsFiniteSet(I)
  <2> HIDE DEF f, I
  <2> QED BY <1>1, FS_Surjection
<1>3. I \in SUBSET Int /\ I # {}
  OBVIOUS
<1>4. \E m \in I : \A x \in I : x <= m
  <2> HIDE DEF I
  <2> QED BY <1>2, <1>3, Greatest
<1>5. Max(I) \in I /\ \A x \in I : Max(I) >= x
  <2>1. \E m \in I : \A x \in I : m >= x
    <3>1. \A m, x \in I : x <= m <=> m >= x
      BY <1>3
    <3> QED BY <1>4, <3>1
  <2> HIDE DEF I
  <2> QED BY <2>1 DEF Max
<1>6. PICK m \in G : m.id = Max(I)
  BY <1>5
<1>7. ASSUME NEW r \in G PROVE r.id <= m.id
  <2>1. Max(I) >= r.id /\ r.id \in Nat /\ m.id \in Nat
    BY <1>5
  <2> QED BY <1>6, <2>1
<1> QED BY <1>6, <1>7

\* The log only grows, so what a walk or the stats have relied on stays.
LEMMA LogStep ==
    ASSUME LogInv, [Next]_vars
    PROVE  LogInv' /\ log \subseteq log'
<1> DEFINE Goal == LogInv' /\ log \subseteq log'
<1>t. /\ nextId \in Nat \ {0} /\ DOMAIN open = Batches
      /\ tx \in [Batches -> {"open", "committed"}]
  BY DEF LogInv
<1>0. ASSUME UNCHANGED <<nextId, open, log, tx>> PROVE Goal
  BY <1>0 DEF LogInv, Issued
<1>1. ASSUME NEW b \in Batches, write_outcomes(b) PROVE Goal
  <2>1. PICK r \in RowsOf[b] :
          open' = [open EXCEPT ![b] =
             @ \union {[id |-> nextId, entity |-> r[1], status |-> r[2]]}]
    BY <1>1 DEF write_outcomes
  <2>2. PICK row : row = [id |-> nextId, entity |-> r[1], status |-> r[2]]
    OBVIOUS
  <2>3. nextId' = nextId + 1 /\ tx' = tx /\ log' = log
    BY <1>1 DEF write_outcomes
  <2> DEFINE W == open[b] \union {row}
  <2>4. row.id = nextId /\ IsFiniteSet(W)
    <3>1. IsFiniteSet(open[b])
      BY DEF LogInv, Issued
    <3> QED BY <2>2, <3>1, FS_AddElement
  <2>5. \A s \in W : s.id \in Nat /\ 0 < s.id /\ s.id < nextId + 1
    <3>1. \A s \in open[b] : s.id \in Nat /\ 0 < s.id /\ s.id < nextId
      BY DEF LogInv, Issued
    <3> QED BY <1>t, <2>4, <3>1
  <2>r. \A X : Issued(X) => row \notin X
    BY <1>t, <2>4 DEF Issued
  <2>6. /\ open'[b] = W /\ DOMAIN open' = Batches
        /\ \A c \in Batches \ {b} : open'[c] = open[c]
    BY <1>t, <2>1, <2>2
  <2> HIDE DEF W
  <2>8. \A c \in Batches : Issued(open[c])
    BY DEF LogInv
  <2>9. ASSUME NEW c \in Batches
        PROVE  IsFiniteSet(open'[c])
               /\ \A s \in open'[c] : s.id \in Nat /\ 0 < s.id /\ s.id < nextId'
    <3>1. CASE c = b
      BY <2>3, <2>4, <2>5, <2>6, <3>1
    <3>2. CASE c # b
      <4>1. open'[c] = open[c]
        BY <2>6, <3>2
      <4>2. Issued(open[c])
        BY <2>8
      <4> QED BY <1>t, <2>3, <4>1, <4>2 DEF Issued
    <3> QED BY <3>1, <3>2
  <2>10. row \notin log /\ \A c \in Batches : row \notin open[c]
    BY <2>8, <2>r DEF LogInv
  <2>11. \A c \in Batches : tx'[c] = "open" => open'[c] \intersect log' = {}
    BY <2>3, <2>6, <2>10 DEF LogInv, W
  <2>13. \A c, d \in Batches : c # d /\ tx'[c] = "open" /\ tx'[d] = "open"
            => open'[c] \intersect open'[d] = {}
    <3> SUFFICES ASSUME NEW c \in Batches, NEW d \in Batches, c # d,
                        tx[c] = "open", tx[d] = "open"
                 PROVE  open'[c] \intersect open'[d] = {}
      BY <2>3
    <3>1. open[c] \intersect open[d] = {}
      BY DEF LogInv
    <3>2. CASE c = b
      BY <2>6, <2>10, <3>1, <3>2 DEF W
    <3>3. CASE d = b
      BY <2>6, <2>10, <3>1, <3>3 DEF W
    <3>4. CASE c # b /\ d # b
      BY <2>6, <3>1, <3>4
    <3> QED BY <3>2, <3>3, <3>4
  <2>14. /\ nextId' \in Nat \ {0}
         /\ tx' \in [Batches -> {"open", "committed"}]
         /\ IsFiniteSet(log') /\ \A l \in log' : l.id \in Nat /\ 0 < l.id /\ l.id < nextId'
    <3>1. Issued(log)
      BY DEF LogInv
    <3> QED BY <1>t, <2>3, <3>1 DEF Issued
  <2> QED BY <2>3, <2>6, <2>9, <2>11, <2>13, <2>14 DEF LogInv, Issued
<1>2. ASSUME NEW b \in Batches, Commit(b) PROVE Goal
  <2>1. /\ tx[b] = "open" /\ log' = log \union open[b]
        /\ tx' = [tx EXCEPT ![b] = "committed"] /\ UNCHANGED <<nextId, open>>
    BY <1>2 DEF Commit
  <2>2. IsFiniteSet(log) /\ IsFiniteSet(open[b])
    BY DEF LogInv, Issued
  <2>3. IsFiniteSet(log') /\ \A r \in log' : r.id \in Nat /\ 0 < r.id /\ r.id < nextId
    <3>1. IsFiniteSet(log \union open[b])
      BY <2>2, FS_Union
    <3> QED BY <2>1, <3>1 DEF LogInv, Issued
  <2>4. tx'[b] # "open" /\ \A c \in Batches \ {b} : tx'[c] = tx[c]
    BY <1>t, <2>1
  <2>5. \A c \in Batches : tx'[c] = "open" => open[c] \intersect log' = {}
    BY <2>1, <2>4 DEF LogInv
  <2>6. \A c, d \in Batches : c # d /\ tx'[c] = "open" /\ tx'[d] = "open"
            => open[c] \intersect open[d] = {}
    BY <2>4 DEF LogInv
  <2>7. tx' \in [Batches -> {"open", "committed"}]
    BY <1>t, <2>1
  <2> QED BY <1>t, <2>1, <2>3, <2>5, <2>6, <2>7 DEF LogInv, Issued
<1>3. ASSUME NEW b \in Batches, Rollback(b) PROVE Goal
  <2>1. open' = [open EXCEPT ![b] = {}] /\ UNCHANGED <<nextId, log, tx>>
    BY <1>3 DEF Rollback
  <2>2. /\ open'[b] = {} /\ DOMAIN open' = Batches
        /\ \A c \in Batches \ {b} : open'[c] = open[c]
    BY <1>t, <2>1
  <2>3. IsFiniteSet({})
    BY FS_EmptySet
  <2> QED BY <2>1, <2>2, <2>3 DEF LogInv, Issued
<1>4. ASSUME list_logs \/ ReadAction \/ ReadBreakdown \/ Finished \/ UNCHANGED vars PROVE Goal
  <2>1. UNCHANGED <<nextId, open, log, tx>>
    BY <1>4 DEF list_logs, ReadAction, ReadBreakdown, Finished, vars
  <2> QED BY <1>0, <2>1
<1> QED BY <1>1, <1>2, <1>3, <1>4 DEF Next

LEMMA StatsStep ==
    ASSUME LogInv, StatsInv, [Next]_vars
    PROVE  StatsInv'
<1>t. IsFiniteSet(log) /\ \A b \in Batches : IsFiniteSet(open[b])
  BY DEF LogInv, Issued
<1>c. /\ Count(log, "failed") \in Nat /\ Count(log, "skipped") \in Nat
      /\ counters.failed = Count(log, "failed") /\ counters.skipped = Count(log, "skipped")
  BY <1>t, CountFacts DEF StatsInv
<1>1. ASSUME NEW b \in Batches, Commit(b) PROVE StatsInv'
  <2>1. /\ log' = log \union open[b] /\ stats' = stats /\ open[b] \intersect log = {}
        /\ counters' = [failed  |-> counters.failed + Count(open[b], "failed"),
                        skipped |-> counters.skipped + Count(open[b], "skipped")]
    BY <1>1 DEF Commit, LogInv
  <2>2. /\ Count(open[b], "failed") \in Nat /\ Count(open[b], "skipped") \in Nat
        /\ Count(log', "failed") = Count(log, "failed") + Count(open[b], "failed")
        /\ Count(log', "skipped") = Count(log, "skipped") + Count(open[b], "skipped")
    <3>1. log \intersect open[b] = {}
      BY <2>1
    <3> QED BY <1>t, <2>1, <3>1, CountFacts
  <2>3. counters' = [failed |-> Count(log', "failed"), skipped |-> Count(log', "skipped")]
    BY <1>c, <2>1, <2>2
  <2>4. counters.failed <= counters'.failed /\ counters.skipped <= counters'.skipped
    BY <1>c, <2>1, <2>2
  <2>5. /\ counters'.failed \in Nat /\ counters'.skipped \in Nat
        /\ stats.failed \in Nat /\ stats.skipped \in Nat
    BY <1>c, <2>1, <2>2 DEF StatsInv
  <2>6. stats.pc = "action" =>
          stats.failed <= counters'.failed /\ stats.skipped <= counters'.skipped
    BY <1>c, <2>4, <2>5 DEF StatsInv
  <2>7. BreakdownCoversCounters'
    BY <2>1 DEF StatsInv, BreakdownCoversCounters
  <2> QED BY <2>1, <2>3, <2>6, <2>7 DEF StatsInv
<1>2. CASE ReadAction
  <2>1. stats' = [stats EXCEPT !.pc = "action", !.failed = counters.failed,
                               !.skipped = counters.skipped]
        /\ UNCHANGED <<log, counters>>
    BY <1>2 DEF ReadAction
  <2>2. /\ stats' \in [pc : {"idle", "action", "done"}, failed : Nat, skipped : Nat,
                       failure_breakdown : Nat, skip_breakdown : Nat]
        /\ stats'.pc = "action" /\ stats'.failed = counters.failed
        /\ stats'.skipped = counters.skipped
    BY <1>c, <2>1 DEF StatsInv
  <2> QED BY <1>c, <2>1, <2>2 DEF StatsInv, BreakdownCoversCounters
<1>3. CASE ReadBreakdown
  <2>1. /\ stats.pc = "action"
        /\ stats' = [stats EXCEPT !.pc = "done", !.failure_breakdown = Count(log, "failed"),
                                  !.skip_breakdown = Count(log, "skipped")]
        /\ UNCHANGED <<log, counters>>
    BY <1>3 DEF ReadBreakdown
  <2> QED BY <1>c, <2>1 DEF StatsInv, BreakdownCoversCounters
<1>4. ASSUME UNCHANGED <<log, counters, stats>> PROVE StatsInv'
  BY <1>4 DEF StatsInv, BreakdownCoversCounters
<1>5. ASSUME NEW b \in Batches, write_outcomes(b) \/ Rollback(b) PROVE StatsInv'
  BY <1>4, <1>5 DEF write_outcomes, Rollback
<1>6. CASE list_logs \/ Finished \/ UNCHANGED vars
  BY <1>4, <1>6 DEF list_logs, Finished, vars
<1> QED BY <1>1, <1>2, <1>3, <1>5, <1>6 DEF Next

LEMMA WalkStep ==
    ASSUME LogInv, WalkInv, [Next]_vars
    PROVE  WalkInv'
<1>1. CASE list_logs
  <2> DEFINE c == walk.cursor
             A == {r \in log : r.id > c /\ r.status \in Wanted}
             got == page(log, c)
             more == has_more(log, c)
             before == IF walk.pc = "idle" THEN {r \in log : r.status \in Wanted}
                       ELSE walk.before
  <2>1. /\ walk.pc \in {"idle", "walking"} /\ log' = log
        /\ walk'.pc = (IF more THEN "walking" ELSE "done")
        /\ walk'.cursor = (IF more THEN Max({r.id : r \in got}) ELSE c)
        /\ walk'.seen = walk.seen \union got
        /\ walk'.twice = (walk.twice \/ got \intersect walk.seen # {})
        /\ walk'.before = before
    BY <1>1 DEF list_logs
  <2>2. IsFiniteSet(log) /\ c \in Nat /\ \A r \in log : r.id \in Nat /\ 0 < r.id
    BY DEF LogInv, Issued, WalkInv
  <2>3. /\ got \subseteq A /\ IsFiniteSet(got)
        /\ \A r \in A, m \in got : r.id <= m.id => r \in got
        /\ ~ more => got = A
        /\ more => got # {}
    BY <2>2, PageFacts
  <2>4. /\ before \subseteq {r \in log : r.status \in Wanted}
        /\ \A r \in walk.seen : r.id <= c
        /\ \A r \in before : r.id <= c => r \in walk.seen
    <3>1. CASE walk.pc = "idle"
      <4>1. c = 0 /\ walk.seen = {}
        BY <3>1 DEF WalkInv
      <4>2. \A r \in log : ~ (r.id <= 0)
        BY <2>2
      <4> QED BY <3>1, <4>1, <4>2
    <3>2. CASE walk.pc = "walking"
      BY <3>2 DEF WalkInv
    <3> QED BY <2>1, <3>1, <3>2
  <2>5. \A r \in A : r.id > c /\ r.id \in Nat
    BY <2>2
  <2>6. \A r \in before : r \in A \/ r.id <= c
    BY <2>2, <2>4
  <2>s. walk'.seen \subseteq log'
    BY <2>1, <2>3 DEF WalkInv
  <2> HIDE DEF A, got, more, before
  <2>7. got \intersect walk.seen = {}
    <3>1. ASSUME NEW r \in got, r \in walk.seen PROVE FALSE
      <4>1. r.id > c /\ r.id <= c /\ r.id \in Nat
        BY <2>3, <2>4, <2>5, <3>1
      <4> QED BY <2>2, <4>1
    <3> QED BY <3>1
  <2>8. walk'.twice = FALSE
    BY <2>1, <2>7 DEF WalkInv
  <2>9. CASE more
    <3>1. PICK m \in got : /\ Max({r.id : r \in got}) = m.id
                           /\ \A r \in got : r.id <= m.id
      <4>1. \A r \in got : r.id \in Nat
        BY <2>3, <2>5
      <4> QED BY <2>3, <2>9, <4>1, NextCursor
    <3>2. walk'.pc = "walking" /\ walk'.cursor = m.id /\ m \in A
      BY <2>1, <2>3, <2>9, <3>1
    <3>3. m.id \in Nat /\ c < m.id
      BY <2>2, <2>5, <3>2
    <3>4. ASSUME NEW r \in walk'.seen PROVE r.id <= m.id
      <4>1. CASE r \in got
        BY <3>1, <4>1
      <4>2. CASE r \in walk.seen
        <5>1. r.id \in Nat /\ r.id <= c
          BY <2>2, <2>4, <4>2 DEF WalkInv
        <5> QED BY <2>2, <3>3, <5>1
      <4> QED BY <2>1, <4>1, <4>2
    <3>5. ASSUME NEW r \in before, r.id <= m.id PROVE r \in walk'.seen
      <4>1. CASE r.id <= c
        BY <2>1, <2>4, <4>1
      <4>2. CASE r \in A
        BY <2>1, <2>3, <3>1, <3>5, <4>2
      <4> QED BY <2>6, <4>1, <4>2
    <3> QED BY <2>1, <2>4, <2>8, <2>s, <3>2, <3>3, <3>4, <3>5 DEF WalkInv
  <2>10. CASE ~ more
    <3>1. walk'.pc = "done" /\ walk'.cursor = c /\ walk'.seen = walk.seen \union A
      BY <2>1, <2>3, <2>10
    <3>2. before \subseteq walk'.seen
      BY <2>4, <2>6, <3>1
    <3> QED BY <2>1, <2>2, <2>8, <2>s, <3>1, <3>2 DEF WalkInv
  <2> QED BY <2>9, <2>10
<1>2. ASSUME UNCHANGED walk, log \subseteq log' PROVE WalkInv'
  BY <1>2 DEF WalkInv
<1>3. ASSUME NEW b \in Batches, write_outcomes(b) \/ Commit(b) \/ Rollback(b) PROVE WalkInv'
  BY <1>2, <1>3, LogStep DEF write_outcomes, Commit, Rollback
<1>4. CASE ReadAction \/ ReadBreakdown \/ Finished \/ UNCHANGED vars
  BY <1>2, <1>4, LogStep DEF ReadAction, ReadBreakdown, Finished, vars
<1> QED BY <1>1, <1>3, <1>4 DEF Next

LEMMA AuditInvariant == Spec => []AuditInv
<1>1. Init => AuditInv
  <2> SUFFICES ASSUME Init PROVE AuditInv
    OBVIOUS
  <2>1. LogInv
    BY FS_EmptySet DEF Init, LogInv, Issued
  <2>2. StatsInv
    <3>1. {r \in {} : r.status = "failed"} = {} /\ {r \in {} : r.status = "skipped"} = {}
      OBVIOUS
    <3>2. Count({}, "failed") = 0 /\ Count({}, "skipped") = 0
      BY <3>1, FS_EmptySet DEF Count
    <3> QED BY <3>2 DEF Init, StatsInv, BreakdownCoversCounters
  <2>3. WalkInv
    BY DEF Init, WalkInv, NewWalk
  <2> QED BY <2>1, <2>2, <2>3 DEF AuditInv
<1>2. AuditInv /\ [Next]_vars => AuditInv'
  BY LogStep, StatsStep, WalkStep DEF AuditInv
<1> QED BY <1>1, <1>2, PTL DEF Spec

\* Whoever follows next_cursor to the end of list_logs gets every matching row
\* that was committed when the walk began, once, for every page size and every
\* order in which ids are taken and transactions commit.
THEOREM WalksAreComplete == Spec => []WalkIsComplete
<1>1. AuditInv => WalkIsComplete
  BY DEF AuditInv, WalkInv, WalkIsComplete
<1> QED BY <1>1, AuditInvariant, PTL

\* get_stats reads the counters before the breakdowns, so a batch committing in
\* between can only add to the breakdowns.
THEOREM BreakdownsCover == Spec => []BreakdownCoversCounters
<1>1. AuditInv => BreakdownCoversCounters
  BY DEF AuditInv, StatsInv
<1> QED BY <1>1, AuditInvariant, PTL
=============================================================================
