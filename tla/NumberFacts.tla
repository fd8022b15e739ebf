---------------------------- MODULE NumberFacts ----------------------------
(***************************************************************************)
(* Finite sets of numbers: the least and the greatest element, how many    *)
(* elements lie before one, pages of the first few, and sums over finite   *)
(* sets.  The library's induction rules take the predicate as a parameter; *)
(* the proofs here use a least counterexample (WFMin) instead.             *)
(***************************************************************************)
EXTENDS Integers, FiniteSets, FiniteSetsExt, FiniteSetTheorems, TLAPS

\* A non-empty set of naturals has a least element.
LEMMA LeastNat ==
    ASSUME NEW S \in SUBSET Nat, S # {}
    PROVE  \E m \in S : \A x \in S : m <= x
<1> DEFINE R == OpToRel(<, Nat)
<1>1. \E m \in S : \A x \in S : ~ (<<x, m>> \in R)
  <2>1. IsWellFoundedOn(R, Nat)
    BY NatLessThanWellFounded
  <2> HIDE DEF R
  <2> QED BY <2>1, WFMin
<1>2. \A x, m \in Nat : <<x, m>> \in R <=> x < m
  BY DEF OpToRel
<1> HIDE DEF R
<1>3. PICK m \in S : \A x \in S : ~ (<<x, m>> \in R)
  BY <1>1
<1>4. ASSUME NEW x \in S PROVE m <= x
  <2>1. x \in Nat /\ m \in Nat /\ ~ (x < m)
    BY <1>2, <1>3
  <2> QED BY <2>1
<1> QED BY <1>4

\* Induction over a finite set: a family of subsets that holds the empty set
\* and is closed under adding an element holds the whole set.
LEMMA FiniteGrowth ==
    ASSUME NEW S, IsFiniteSet(S), NEW F, {} \in F,
           \A T \in SUBSET S, x \in S : T \in F /\ x \notin T => T \union {x} \in F
    PROVE  S \in F
<1> DEFINE Bad == {T \in SUBSET S : T \notin F}
           R == StrictSubsetOrdering(S)
<1> SUFFICES ASSUME Bad # {} PROVE FALSE
  OBVIOUS
<1>1. IsWellFoundedOn(R, SUBSET S)
  BY FS_StrictSubsetOrderingWellFounded, FS_FiniteSubsetsOfFinite
<1>2. PICK T \in Bad : \A U \in Bad : ~ (<<U, T>> \in R)
  <2>1. Bad \subseteq SUBSET S
    OBVIOUS
  <2> HIDE DEF R, Bad
  <2> QED BY <1>1, <2>1, WFMin
<1>3. PICK x \in T : TRUE
  BY <1>2
<1>4. <<T \ {x}, T>> \in R
  BY <1>3 DEF StrictSubsetOrdering
<1>5. T \ {x} \in F
  BY <1>2, <1>4
<1>6. (T \ {x}) \union {x} = T
  BY <1>3
<1> QED BY <1>2, <1>3, <1>5, <1>6

\* A finite non-empty set of integers has a greatest element.
LEMMA Greatest ==
    ASSUME NEW S \in SUBSET Int, IsFiniteSet(S), S # {}
    PROVE  \E m \in S : \A x \in S : x <= m
<1> DEFINE F == {T \in SUBSET S : T # {} => \E m \in T : \A x \in T : x <= m}
<1>1. ASSUME NEW T \in SUBSET S, NEW x \in S, T \in F, x \notin T
      PROVE  T \union {x} \in F
  <2>1. CASE T = {}
    BY <2>1
  <2>2. CASE T # {}
    <3>1. PICK m \in T : \A y \in T : y <= m
      BY <1>1, <2>2
    <3>2. CASE x <= m
      BY <3>1, <3>2
    <3>3. CASE m < x
      <4>1. \A y \in T \union {x} : y <= x
        BY <3>1, <3>3
      <4> QED BY <4>1
    <3> QED BY <3>1, <3>2, <3>3
  <2> QED BY <2>1, <2>2
<1>2. {} \in F
  OBVIOUS
<1> HIDE DEF F
<1>3. S \in F
  BY <1>1, <1>2, FiniteGrowth
<1> QED BY <1>3 DEF F

\* How many elements of S lie before e, and the first n elements of S.
Rank(S, e) == Cardinality({f \in S : f < e})
FirstOf(S, n) == {e \in S : Rank(S, e) < n}

\* Ranks in a finite set are natural numbers.
LEMMA RankType ==
    ASSUME NEW S, IsFiniteSet(S), NEW e
    PROVE  IsFiniteSet({f \in S : f < e}) /\ Rank(S, e) \in Nat
<1>1. IsFiniteSet({f \in S : f < e})
  BY FS_Subset
<1> QED BY <1>1, FS_CardinalityType DEF Rank

\* The rank grows with the element; equal ranks are of equal elements.
LEMMA RankGrows ==
    ASSUME NEW S \in SUBSET Int, IsFiniteSet(S), NEW e \in S, NEW g \in Int, e < g
    PROVE  Rank(S, e) + 1 <= Rank(S, g)
<1> DEFINE B(x) == {f \in S : f < x}
<1>1. IsFiniteSet(B(e)) /\ IsFiniteSet(B(g)) /\ Rank(S, e) \in Nat /\ Rank(S, g) \in Nat
  BY RankType
<1>i. \A x \in S : x \in Int
  OBVIOUS
<1>2. B(e) \union {e} \subseteq B(g) /\ e \notin B(e)
  <2>1. \A f \in S : f < e => f < g
    BY <1>i
  <2>2. ~ (e < e) /\ e \in S /\ e < g
    BY <1>i
  <2> QED BY <2>1, <2>2
<1> HIDE DEF B
<1>3. Cardinality(B(e) \union {e}) = Cardinality(B(e)) + 1
  BY <1>1, <1>2, FS_AddElement
<1>4. Cardinality(B(e) \union {e}) <= Cardinality(B(g))
  BY <1>1, <1>2, FS_Subset
<1> QED BY <1>1, <1>3, <1>4 DEF Rank, B

\* At most n elements have a rank in a .. a+n-1.
LEMMA RanksInRange ==
    ASSUME NEW S \in SUBSET Int, IsFiniteSet(S), NEW a \in Nat, NEW n \in Nat
    PROVE  LET P == {e \in S : a <= Rank(S, e) /\ Rank(S, e) < a + n}
           IN  IsFiniteSet(P) /\ Cardinality(P) \in Nat /\ Cardinality(P) <= n
<1> DEFINE P == {e \in S : a <= Rank(S, e) /\ Rank(S, e) < a + n}
           f == [e \in P |-> Rank(S, e)]
           T == a .. (a + n - 1)
<1>1. \A e \in S : Rank(S, e) \in Nat
  BY RankType
<1>2. f \in [P -> T]
  <2>1. ASSUME NEW e \in P PROVE Rank(S, e) \in T
    <3>1. Rank(S, e) \in Nat /\ a <= Rank(S, e) /\ Rank(S, e) < a + n
      BY <1>1
    <3> QED BY <3>1
  <2> QED BY <2>1
<1>3. ASSUME NEW x \in P, NEW y \in P, f[x] = f[y] PROVE x = y
  <2>1. Rank(S, x) = Rank(S, y) /\ Rank(S, x) \in Nat
    BY <1>1, <1>3
  <2>2. ~ (x < y) /\ ~ (y < x)
    BY <2>1, RankGrows
  <2> QED BY <2>2
<1>4. f \in Injection(P, T)
  BY <1>2, <1>3 DEF Injection, IsInjective
<1>5. IsFiniteSet(T) /\ Cardinality(T) = n
  BY FS_Interval
<1> HIDE DEF f, T, P
<1>6. IsFiniteSet(P) /\ Cardinality(P) <= n
  BY <1>4, <1>5, FS_Injection
<1> QED BY <1>6, FS_CardinalityType DEF P

\* The ranks have no gaps: below the rank of an element every number is one.
LEMMA RanksHaveNoGap ==
    ASSUME NEW S \in SUBSET Nat, IsFiniteSet(S), NEW a \in Nat,
           NEW g \in S, a <= Rank(S, g)
    PROVE  \E e \in S : Rank(S, e) = a /\ e <= g
<1> DEFINE Q == {e \in S : a <= Rank(S, e)}
<1>1. PICK e \in Q : \A x \in Q : e <= x
  <2>1. Q \in SUBSET Nat /\ Q # {}
    OBVIOUS
  <2> HIDE DEF Q
  <2> QED BY <2>1, LeastNat
<1>2. IsFiniteSet({f \in S : f < e}) /\ Rank(S, e) \in Nat /\ a <= Rank(S, e)
  BY <1>1, RankType
<1>n. e \in Nat /\ \A x \in S : x \in Nat /\ x \in Int
  BY <1>1
<1>3. CASE a < Rank(S, e)
  <2> DEFINE B == {f \in S : f < e}
  <2>1. B # {}
    BY <1>2, <1>3, FS_EmptySet DEF Rank
  <2>2. PICK m \in B : \A x \in B : x <= m
    <3>1. B \in SUBSET Int
      BY <1>n
    <3> HIDE DEF B
    <3> QED BY <2>1, <3>1, <1>2, Greatest DEF B
  <2>3. B = {f \in S : f < m} \union {m}
    <3>1. \A f \in S : f < e <=> f < m \/ f = m
      BY <1>n, <2>2
    <3> QED BY <2>2, <3>1
  <2>4. IsFiniteSet({f \in S : f < m}) /\ Rank(S, m) \in Nat
    BY RankType
  <2>5. Cardinality({f \in S : f < m} \union {m}) = Rank(S, m) + 1
    <3>1. m \notin {f \in S : f < m}
      BY <1>n
    <3> QED BY <2>4, <3>1, FS_AddElement DEF Rank
  <2>6. Rank(S, e) = Rank(S, m) + 1
    BY <2>3, <2>5 DEF Rank
  <2>7. m \in Q /\ m < e /\ m \in Nat /\ e \in Nat
    BY <1>2, <1>3, <2>2, <2>4, <2>6
  <2> QED BY <1>1, <2>7
<1>4. g \in Q
  OBVIOUS
<1> QED BY <1>1, <1>2, <1>3, <1>4

\* The first n elements: a lower part of S with at most n elements, which is
\* all of S when it has fewer, and not empty unless S is.
LEMMA FirstOfFacts ==
    ASSUME NEW S \in SUBSET Nat, IsFiniteSet(S), NEW n \in Nat
    PROVE  /\ \A e \in S, m \in FirstOf(S, n) : e <= m => e \in FirstOf(S, n)
           /\ IsFiniteSet(FirstOf(S, n)) /\ Cardinality(FirstOf(S, n)) \in Nat
           /\ Cardinality(FirstOf(S, n)) <= n
           /\ Cardinality(FirstOf(S, n)) < n => FirstOf(S, n) = S
           /\ n > 0 /\ S # {} => FirstOf(S, n) # {}
<1> DEFINE P == FirstOf(S, n)
<1>r. \A e \in S : Rank(S, e) \in Nat
  BY RankType
<1>1. ASSUME NEW e \in S, NEW m \in P, e <= m PROVE e \in P
  <2>1. e < m => Rank(S, e) + 1 <= Rank(S, m)
    BY RankGrows DEF FirstOf
  <2>2. m \in S /\ Rank(S, m) < n /\ m \in Nat /\ e \in Nat
    BY DEF FirstOf
  <2> QED BY <2>1, <2>2, <1>1, <1>r DEF FirstOf
<1>2. IsFiniteSet(P) /\ Cardinality(P) \in Nat /\ Cardinality(P) <= n
  <2>1. P = {e \in S : 0 <= Rank(S, e) /\ Rank(S, e) < 0 + n}
    <3>1. \A e \in S : Rank(S, e) < n <=> 0 <= Rank(S, e) /\ Rank(S, e) < 0 + n
      BY <1>r
    <3> QED BY <3>1 DEF FirstOf
  <2> QED BY <2>1, RanksInRange
<1>3. ASSUME Cardinality(P) < n PROVE P = S
  <2> SUFFICES ASSUME S \ P # {} PROVE FALSE
    BY DEF FirstOf
  <2>1. PICK e \in S \ P : \A x \in S \ P : e <= x
    <3>1. S \ P \in SUBSET Nat
      OBVIOUS
    <3> QED BY <3>1, LeastNat
  <2>2. {f \in S : f < e} \subseteq P
    <3>1. ASSUME NEW f \in S, f < e, f \notin P PROVE FALSE
      <4>1. e <= f /\ e \in Nat /\ f \in Nat
        BY <2>1, <3>1
      <4> QED BY <3>1, <4>1
    <3> QED BY <3>1
  <2>3. Rank(S, e) <= Cardinality(P)
    BY <1>2, <2>2, FS_Subset DEF Rank
  <2>4. Rank(S, e) \in Nat /\ ~ (Rank(S, e) < n)
    BY <2>1, <1>r DEF FirstOf
  <2> QED BY <1>2, <1>3, <2>3, <2>4
<1>4. ASSUME n > 0, S # {} PROVE P # {}
  <2>1. PICK e \in S : \A x \in S : e <= x
    BY <1>4, LeastNat
  <2>2. {f \in S : f < e} = {}
    <3>1. ASSUME NEW f \in S, f < e PROVE FALSE
      <4>1. e <= f /\ e \in Nat /\ f \in Nat
        BY <2>1, <3>1
      <4> QED BY <3>1, <4>1
    <3> QED BY <3>1
  <2>3. Rank(S, e) = 0
    BY <2>2, FS_EmptySet DEF Rank
  <2> QED BY <1>4, <2>3 DEF FirstOf
<1> HIDE DEF P
<1>5. \A e \in S, m \in P : e <= m => e \in P
  BY <1>1
<1> QED BY <1>2, <1>3, <1>4, <1>5 DEF P
-----------------------------------------------------------------------------
(* Sums.                                                                   *)

\* The total of a column over the rows S of a table b, as the number of its
\* units: a sum that needs no order and no recursion.
Units(b, field, S) == {u \in S \X Nat : 1 <= u[2] /\ u[2] <= b[u[1]][field]}
Total(b, field, S) == Cardinality(Units(b, field, S))

\* The units of one row are as many as its value.
LEMMA UnitsOfOne ==
    ASSUME NEW b, NEW field, NEW x, b[x][field] \in Nat
    PROVE  /\ IsFiniteSet(Units(b, field, {x}))
           /\ Cardinality(Units(b, field, {x})) = b[x][field]
<1> DEFINE n == b[x][field]
           U == Units(b, field, {x})
           g == [k \in 1 .. n |-> <<x, k>>]
<1>n. n \in Nat
  OBVIOUS
<1>1. IsFiniteSet(1 .. n) /\ Cardinality(1 .. n) = n
  <2> HIDE DEF n
  <2>1. n \in Int /\ 1 \in Int /\ n - 1 + 1 = n /\ (1 > n => n = 0)
    BY <1>n
  <2>2. IsFiniteSet(1 .. n) /\ Cardinality(1 .. n) = IF 1 > n THEN 0 ELSE n - 1 + 1
    BY ONLY <2>1, FS_Interval
  <2> QED BY <2>1, <2>2
<1>2. g \in Bijection(1 .. n, U)
  <2>1. \A k \in 1 .. n : g[k] \in U
    BY DEF Units
  <2>2. \A j, k \in 1 .. n : g[j] = g[k] => j = k
    OBVIOUS
  <2>3. \A u \in U : \E k \in 1 .. n : g[k] = u
    <3> SUFFICES ASSUME NEW u \in U PROVE \E k \in 1 .. n : g[k] = u
      OBVIOUS
    <3>1. u = <<x, u[2]>> /\ u[2] \in 1 .. n
      BY DEF Units
    <3> QED BY <3>1
  <2> HIDE DEF n, U
  <2>4. g \in [1 .. n -> U]
    BY <2>1
  <2> HIDE DEF g
  <2> QED BY <2>2, <2>3, <2>4 DEF Bijection, Injection, Surjection, IsInjective
<1> HIDE DEF g, n, U
<1>3. IsFiniteSet(U) /\ Cardinality(U) = Cardinality(1 .. n)
  BY <1>1, <1>2, FS_Bijection DEF ExistsBijection
<1> QED BY <1>1, <1>3 DEF U, n

\* A further row adds its own value.
LEMMA TotalGrows ==
    ASSUME NEW b, NEW field, NEW S, NEW x, x \notin S, b[x][field] \in Nat,
           IsFiniteSet(Units(b, field, S))
    PROVE  /\ IsFiniteSet(Units(b, field, S \union {x}))
           /\ Total(b, field, S \union {x}) = Total(b, field, S) + b[x][field]
<1> DEFINE A == Units(b, field, S)
           B == Units(b, field, {x})
<1>1. Units(b, field, S \union {x}) = A \union B
  BY DEF Units
<1>2. A \intersect B = {}
  BY DEF Units
<1>3. IsFiniteSet(B) /\ Cardinality(B) = b[x][field]
  BY UnitsOfOne
<1> HIDE DEF A, B
<1>4. IsFiniteSet(A \union B)
      /\ Cardinality(A \union B) = Cardinality(A) + Cardinality(B) - Cardinality(A \intersect B)
  BY <1>3, FS_Union DEF A
<1>5. Cardinality(A \intersect B) = 0 /\ Cardinality(A) \in Nat
  BY <1>2, FS_EmptySet, FS_CardinalityType DEF A
<1>6. Cardinality(A \union B) = Cardinality(A) + b[x][field]
  BY <1>3, <1>4, <1>5
<1> QED BY <1>1, <1>4, <1>6 DEF Total, A

\* Totals over finitely many rows are natural numbers.
LEMMA TotalType ==
    ASSUME NEW b, NEW field, NEW S, IsFiniteSet(S), \A x \in S : b[x][field] \in Nat
    PROVE  IsFiniteSet(Units(b, field, S)) /\ Total(b, field, S) \in Nat
<1> DEFINE F == {T \in SUBSET S : IsFiniteSet(Units(b, field, T))}
<1>1. ASSUME NEW T \in SUBSET S, NEW x \in S, T \in F, x \notin T PROVE T \union {x} \in F
  BY <1>1, TotalGrows
<1>2. {} \in F
  <2>1. Units(b, field, {}) = {}
    BY DEF Units
  <2> QED BY <2>1, FS_EmptySet
<1> HIDE DEF F
<1>3. S \in F
  BY <1>1, <1>2, FiniteGrowth
<1>4. IsFiniteSet(Units(b, field, S))
  BY <1>3 DEF F
<1> QED BY <1>4, FS_CardinalityType DEF Total

\* No rows, no total.
LEMMA TotalEmpty == ASSUME NEW b, NEW field PROVE Total(b, field, {}) = 0
<1>1. Units(b, field, {}) = {}
  BY DEF Units
<1> QED BY <1>1, FS_EmptySet DEF Total

\* Tables that agree on the column have the same total.
LEMMA TotalSame ==
    ASSUME NEW b, NEW c, NEW field, NEW S, \A x \in S : b[x][field] = c[x][field]
    PROVE  Total(b, field, S) = Total(c, field, S)
<1>1. Units(b, field, S) = Units(c, field, S)
  BY DEF Units
<1> QED BY <1>1 DEF Total

\* A further row adds its own value, also when the table changes elsewhere.
LEMMA TotalExtends ==
    ASSUME NEW b, NEW c, NEW field, NEW S, IsFiniteSet(S), NEW x, x \notin S,
           c[x][field] \in Nat, \A k \in S : c[k][field] \in Nat /\ b[k][field] = c[k][field]
    PROVE  Total(c, field, S \union {x}) = Total(b, field, S) + c[x][field]
<1>1. (\A k \in S : c[k][field] \in Nat) /\ x \notin S /\ c[x][field] \in Nat
  OBVIOUS
<1>2. IsFiniteSet(Units(c, field, S))
  BY <1>1, TotalType
<1>3. Total(c, field, S \union {x}) = Total(c, field, S) + c[x][field]
  BY ONLY <1>1, <1>2, TotalGrows
<1>4. Total(b, field, S) = Total(c, field, S)
  BY TotalSame
<1> QED BY <1>3, <1>4

\* The fold of the community modules computes the total.
LEMMA SumIsTotal ==
    ASSUME NEW b, NEW field, NEW S, IsFiniteSet(S), \A x \in S : b[x][field] \in Nat
    PROVE  MapThenSumSet(LAMBDA i : b[i][field], S) = Total(b, field, S)
<1> DEFINE pick(s) == CHOOSE x \in s : TRUE
           Sums(iter) == [s \in SUBSET S |-> IF s = {} THEN 0
                                             ELSE b[pick(s)][field] + iter[s \ {pick(s)}]]
           g == [s \in SUBSET S |-> Total(b, field, s)]
           h == CHOOSE iter : iter = Sums(iter)
<1>1. MapThenSumSet(LAMBDA i : b[i][field], S) = h[S]
  BY DEF MapThenSumSet, MapThenFoldSet
<1>2. ASSUME NEW s \in SUBSET S, s # {}
      PROVE  /\ pick(s) \in s
             /\ Total(b, field, s) = b[pick(s)][field] + Total(b, field, s \ {pick(s)})
  <2>1. PICK x : x = pick(s) /\ x \in s
    BY <1>2
  <2>2. IsFiniteSet(s \ {x})
    BY <1>2, FS_Subset
  <2>3. IsFiniteSet(Units(b, field, s \ {x})) /\ Total(b, field, s \ {x}) \in Nat
    BY <2>2, TotalType
  <2>4. Total(b, field, (s \ {x}) \union {x}) = Total(b, field, s \ {x}) + b[x][field]
    <3>1. PICK T : T = s \ {x}
      OBVIOUS
    <3>2. x \notin T /\ b[x][field] \in Nat /\ IsFiniteSet(Units(b, field, T))
      BY <2>1, <2>3, <3>1
    <3>3. Total(b, field, T \union {x}) = Total(b, field, T) + b[x][field]
      BY ONLY <3>2, TotalGrows
    <3> QED BY <3>1, <3>3
  <2>5. (s \ {x}) \union {x} = s
    BY <2>1
  <2>6. b[x][field] \in Nat
    BY <2>1
  <2>7. Total(b, field, s) = b[x][field] + Total(b, field, s \ {x})
    BY <2>3, <2>4, <2>5, <2>6
  <2> HIDE DEF pick
  <2> QED BY <2>1, <2>7
<1> HIDE DEF pick
<1>3. g = Sums(g)
  <2>1. ASSUME NEW s \in SUBSET S
        PROVE  g[s] = IF s = {} THEN 0 ELSE b[pick(s)][field] + g[s \ {pick(s)}]
    <3>1. s \ {pick(s)} \in SUBSET S
      OBVIOUS
    <3> QED BY <1>2, <2>1, <3>1, TotalEmpty
  <2> QED BY <2>1
<1> HIDE DEF g
<1>4. h = Sums(h)
  BY <1>3
<1> HIDE DEF h
<1>5. \A s \in SUBSET S : h[s] = IF s = {} THEN 0 ELSE b[pick(s)][field] + h[s \ {pick(s)}]
  BY <1>4
<1> DEFINE Bad == {s \in SUBSET S : h[s] # Total(b, field, s)}
           R == StrictSubsetOrdering(S)
<1>6. ASSUME Bad # {} PROVE FALSE
  <2>1. IsWellFoundedOn(R, SUBSET S)
    BY FS_StrictSubsetOrderingWellFounded, FS_FiniteSubsetsOfFinite
  <2>2. PICK T \in Bad : \A U \in Bad : ~ (<<U, T>> \in R)
    <3>1. Bad \subseteq SUBSET S
      OBVIOUS
    <3> HIDE DEF R, Bad
    <3> QED BY <1>6, <2>1, <3>1, WFMin
  <2>3. T # {}
    BY <1>5, <2>2, TotalEmpty
  <2>4. PICK x : x = pick(T)
    OBVIOUS
  <2>5. x \in T /\ Total(b, field, T) = b[x][field] + Total(b, field, T \ {x})
    BY <1>2, <2>2, <2>3, <2>4
  <2>6. <<T \ {x}, T>> \in R
    BY <2>2, <2>5 DEF StrictSubsetOrdering
  <2>7. h[T \ {x}] = Total(b, field, T \ {x})
    BY <2>2, <2>6
  <2>8. h[T] = b[x][field] + h[T \ {x}]
    BY <1>5, <2>2, <2>3, <2>4
  <2> QED BY <2>2, <2>5, <2>7, <2>8
<1> QED BY <1>1, <1>6
=============================================================================
