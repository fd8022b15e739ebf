-------------------------- MODULE SubmissionProofs --------------------------
(***************************************************************************)
(* Proofs about Submission, for any requests, bodies, registry and number  *)
(* of failures.                                                            *)
(***************************************************************************)
EXTENDS Submission, FiniteSetTheorems, TLAPS

\* Requests whose row exists, committed or not.
Owner(a) == a \in committed \/ Inserted(a)

\* The rows that exist have different keys: a transaction that holds a key in
\* the unique index keeps others out until it ends.  OneActionPerKey alone is
\* not inductive: two open transactions could hold the same key.
KeyInv ==
    /\ TypeOK
    /\ \A a, b \in Posts : Owner(a) /\ Owner(b) /\ same_key(body[a], body[b]) => a = b
    /\ \A a \in committed : pc[a] \in {"respond", "done"}

\* An answer is given only to what is committed, the job is enqueued before the
\* commit, and a location is set once.
DurableInv ==
    /\ AcceptedIsDurable
    /\ \A a \in Posts : /\ a \in committed \/ pc[a] = "commit" => stage[a] # "none"
                        /\ pc[a] = "respond" => a \in committed
                        /\ answer[a] # 200 => location[a] = a
                        /\ pc[a] # "done" => answer[a] = 0

\* A request that came late for its key stops at the lookup, which still finds
\* the action; before the lookup a request has left no trace.
ReplayInv ==
    /\ ReplayIsFree
    /\ \A a \in replay :
          /\ \E b \in committed : same_key(body[a], body[b])
          /\ body[a].idempotency_key # empty_key => pc[a] \in {"account", "replay", "done"}
    /\ \A a \in Posts :
          pc[a] \in {"none", "account", "replay"} =>
              a \notin charged /\ a \notin committed /\ stage[a] = "none"

\* A request that has left a trace was validated, and a plan exists only for a
\* filter that compiled.  Both are needed: an operator outside the language, or
\* an operand that compiling refuses, would make a condition select rows that
\* nothing in the request names.
TargetInv ==
    /\ \A a \in Posts :
          \/ pc[a] \in {"limit", "insert", "enqueue", "commit", "respond"}
          \/ a \in committed
          \/ stage[a] # "none"
          => validate_request(body[a])
    /\ \A a \in Posts :
          stage[a] \in {"planned", "unwritable", "executed"} /\ body[a].payload.filter.given =>
              compiles(Registry[body[a].entity_type], body[a].payload.filter)

LEMMA TypeInit == Init => TypeOK
  BY FaultsAssumption DEF Init, TypeOK

LEMMA TypeNext == TypeOK /\ [Next]_vars => TypeOK'
<1> SUFFICES ASSUME TypeOK, [Next]_vars PROVE TypeOK'
  OBVIOUS
<1> USE DEF TypeOK, db, history, Goto, Answer
<1>1. ASSUME NEW a \in Posts, Receive(a) PROVE TypeOK'
  BY <1>1 DEF Receive
<1>2. ASSUME NEW a \in Posts, GetAccount(a) PROVE TypeOK'
  BY <1>2 DEF GetAccount
<1>3. ASSUME NEW a \in Posts, Replay(a) PROVE TypeOK'
  BY <1>3 DEF Replay
<1>4. ASSUME NEW a \in Posts, Validate(a) PROVE TypeOK'
  BY <1>4 DEF Validate
<1>5. ASSUME NEW a \in Posts, Limit(a) PROVE TypeOK'
  BY <1>5 DEF Limit
<1>6. ASSUME NEW a \in Posts, Insert(a) PROVE TypeOK'
  BY <1>6 DEF Insert
<1>7. ASSUME NEW a \in Posts, Enqueue(a) PROVE TypeOK'
  BY <1>7 DEF Enqueue
<1>8. ASSUME NEW a \in Posts, Commit(a) PROVE TypeOK'
  BY <1>8 DEF Commit
<1>9. ASSUME NEW a \in Posts, Respond(a) PROVE TypeOK'
  BY <1>9 DEF Respond
<1>10. ASSUME NEW a \in Posts, Fail(a) PROVE TypeOK'
  BY <1>10 DEF Fail
<1>11. ASSUME NEW a \in Posts, Plan(a) PROVE TypeOK'
  BY <1>11 DEF Plan
<1>12. ASSUME NEW a \in Posts, Execute(a) PROVE TypeOK'
  BY <1>12 DEF Execute
<1>13. CASE UNCHANGED vars
  BY <1>13 DEF vars
<1> QED
  BY <1>1, <1>2, <1>3, <1>4, <1>5, <1>6, <1>7, <1>8, <1>9, <1>10, <1>11, <1>12, <1>13
     DEF Next, Step, Rest
-----------------------------------------------------------------------------
\* One idempotency key names one action: create_bulk_action under any
\* interleaving of requests, failures and lost answers.
THEOREM KeysAreUnique == Spec => []OneActionPerKey
<1>1. Init => KeyInv
  BY TypeInit DEF Init, KeyInv, Owner, Inserted
<1>2. KeyInv /\ [Next]_vars => KeyInv'
  <2> SUFFICES ASSUME KeyInv, [Next]_vars PROVE KeyInv'
    OBVIOUS
  <2>t. TypeOK /\ TypeOK'
    BY TypeNext DEF KeyInv
  <2>b. body' = body
    BY DEF Next, vars, Receive, Step, GetAccount, Replay, Validate, Limit, Insert, Enqueue,
           Commit, Respond, Fail, Plan, Execute, Rest
  <2>1. ASSUME NEW a \in Posts, Insert(a) PROVE KeyInv'
    <3>1. a \notin committed /\ committed' = committed
      BY <2>1 DEF Insert, KeyInv, db
    <3>2. \A b \in Posts \ {a} : Owner(b)' => Owner(b)
      BY <2>1, <2>t DEF Insert, Goto, Answer, Owner, Inserted, TypeOK, db
    <3>3. \A b \in Posts \ {a} : Owner(a)' /\ Owner(b) => ~ same_key(body[a], body[b])
      BY <2>1, <2>t, <3>1 DEF Insert, Goto, Answer, Owner, Inserted, TypeOK
    <3>4. \A b \in committed' : pc'[b] \in {"respond", "done"}
      BY <2>1, <2>t, <3>1 DEF Insert, Goto, Answer, TypeOK, KeyInv
    <3>5. \A r, q : same_key(r, q) => same_key(q, r)
      BY DEF same_key
    <3> QED
      BY <2>t, <2>b, <3>2, <3>3, <3>4, <3>5 DEF KeyInv
  <2>2. ASSUME \A a \in Posts : Owner(a)' => Owner(a),
               \A a \in committed' : pc'[a] \in {"respond", "done"}
        PROVE  KeyInv'
    BY <2>2, <2>t, <2>b DEF KeyInv
  <2> USE <2>t DEF KeyInv, Goto, Answer, Owner, Inserted, TypeOK, db
  <2>3. ASSUME NEW a \in Posts, Receive(a) PROVE KeyInv'
    <3>1. \A b \in Posts : Owner(b)' => Owner(b)
      BY <2>3 DEF Receive
    <3>2. \A b \in committed' : pc'[b] \in {"respond", "done"}
      BY <2>3 DEF Receive
    <3> QED
      BY <3>1, <3>2, <2>2
  <2>4. ASSUME NEW a \in Posts, GetAccount(a) PROVE KeyInv'
    <3>1. \A b \in Posts : Owner(b)' => Owner(b)
      BY <2>4 DEF GetAccount
    <3>2. \A b \in committed' : pc'[b] \in {"respond", "done"}
      BY <2>4 DEF GetAccount
    <3> QED
      BY <3>1, <3>2, <2>2
  <2>5. ASSUME NEW a \in Posts, Replay(a) PROVE KeyInv'
    <3>1. \A b \in Posts : Owner(b)' => Owner(b)
      BY <2>5 DEF Replay
    <3>2. \A b \in committed' : pc'[b] \in {"respond", "done"}
      BY <2>5 DEF Replay
    <3> QED
      BY <3>1, <3>2, <2>2
  <2>6. ASSUME NEW a \in Posts, Validate(a) PROVE KeyInv'
    <3>1. \A b \in Posts : Owner(b)' => Owner(b)
      BY <2>6 DEF Validate
    <3>2. \A b \in committed' : pc'[b] \in {"respond", "done"}
      BY <2>6 DEF Validate
    <3> QED
      BY <3>1, <3>2, <2>2
  <2>7. ASSUME NEW a \in Posts, Limit(a) PROVE KeyInv'
    <3>1. \A b \in Posts : Owner(b)' => Owner(b)
      BY <2>7 DEF Limit
    <3>2. \A b \in committed' : pc'[b] \in {"respond", "done"}
      BY <2>7 DEF Limit
    <3> QED
      BY <3>1, <3>2, <2>2
  <2>8. ASSUME NEW a \in Posts, Enqueue(a) PROVE KeyInv'
    <3>1. \A b \in Posts : Owner(b)' => Owner(b)
      BY <2>8 DEF Enqueue
    <3>2. \A b \in committed' : pc'[b] \in {"respond", "done"}
      BY <2>8 DEF Enqueue
    <3> QED
      BY <3>1, <3>2, <2>2
  <2>9. ASSUME NEW a \in Posts, Commit(a) PROVE KeyInv'
    <3>1. \A b \in Posts : Owner(b)' => Owner(b)
      BY <2>9 DEF Commit
    <3>2. \A b \in committed' : pc'[b] \in {"respond", "done"}
      BY <2>9 DEF Commit
    <3> QED
      BY <3>1, <3>2, <2>2
  <2>10. ASSUME NEW a \in Posts, Respond(a) PROVE KeyInv'
    <3>1. \A b \in Posts : Owner(b)' => Owner(b)
      BY <2>10 DEF Respond
    <3>2. \A b \in committed' : pc'[b] \in {"respond", "done"}
      BY <2>10 DEF Respond
    <3> QED
      BY <3>1, <3>2, <2>2
  <2>11. ASSUME NEW a \in Posts, Fail(a) PROVE KeyInv'
    <3>1. \A b \in Posts : Owner(b)' => Owner(b)
      BY <2>11 DEF Fail, Running
    <3>2. \A b \in committed' : pc'[b] \in {"respond", "done"}
      BY <2>11 DEF Fail, Running
    <3> QED
      BY <3>1, <3>2, <2>2
  <2>12. ASSUME NEW a \in Posts, Plan(a) PROVE KeyInv'
    <3>1. \A b \in Posts : Owner(b)' => Owner(b)
      BY <2>12 DEF Plan
    <3>2. \A b \in committed' : pc'[b] \in {"respond", "done"}
      BY <2>12 DEF Plan
    <3> QED
      BY <3>1, <3>2, <2>2
  <2>13. ASSUME NEW a \in Posts, Execute(a) PROVE KeyInv'
    <3>1. \A b \in Posts : Owner(b)' => Owner(b)
      BY <2>13 DEF Execute
    <3>2. \A b \in committed' : pc'[b] \in {"respond", "done"}
      BY <2>13 DEF Execute
    <3> QED
      BY <3>1, <3>2, <2>2
  <2>14. CASE UNCHANGED vars
    <3>1. \A b \in Posts : Owner(b)' => Owner(b)
      BY <2>14 DEF vars
    <3>2. \A b \in committed' : pc'[b] \in {"respond", "done"}
      BY <2>14 DEF vars
    <3> QED
      BY <3>1, <3>2, <2>2
  <2> QED
    BY <2>1, <2>3, <2>4, <2>5, <2>6, <2>7, <2>8, <2>9, <2>10, <2>11, <2>12, <2>13, <2>14 DEF Next, Step, Rest
<1>3. KeyInv => OneActionPerKey
  BY DEF KeyInv, TypeOK, Owner, OneActionPerKey
<1> QED
  BY <1>1, <1>2, <1>3, PTL DEF Spec

\* A 202 or a 200 can be relied on: the action it names is committed, carries
\* the key of the request, and has had its plan job enqueued.
THEOREM AnswersAreDurable == Spec => []AcceptedIsDurable
<1>1. Init => DurableInv
  BY DEF Init, DurableInv, AcceptedIsDurable
<1>2. TypeOK /\ TypeOK' /\ DurableInv /\ [Next]_vars => DurableInv'
  <2> SUFFICES ASSUME TypeOK, TypeOK', DurableInv, [Next]_vars PROVE DurableInv'
    OBVIOUS
  <2> USE DEF TypeOK, DurableInv, AcceptedIsDurable, Goto, Answer, db, history
  <2>1. ASSUME NEW a \in Posts, Receive(a) PROVE DurableInv'
    BY <2>1 DEF Receive
  <2>2. ASSUME NEW a \in Posts, GetAccount(a) PROVE DurableInv'
    BY <2>2 DEF GetAccount
  <2>3. ASSUME NEW a \in Posts, Replay(a) PROVE DurableInv'
    BY <2>3 DEF Replay
  <2>4. ASSUME NEW a \in Posts, Validate(a) PROVE DurableInv'
    BY <2>4 DEF Validate
  <2>5. ASSUME NEW a \in Posts, Limit(a) PROVE DurableInv'
    BY <2>5 DEF Limit
  <2>6. ASSUME NEW a \in Posts, Insert(a) PROVE DurableInv'
    BY <2>6 DEF Insert
  <2>7. ASSUME NEW a \in Posts, Enqueue(a) PROVE DurableInv'
    BY <2>7 DEF Enqueue
  <2>8. ASSUME NEW a \in Posts, Commit(a) PROVE DurableInv'
    BY <2>8 DEF Commit
  <2>9. ASSUME NEW a \in Posts, Respond(a) PROVE DurableInv'
    BY <2>9 DEF Respond
  <2>10. ASSUME NEW a \in Posts, Fail(a) PROVE DurableInv'
    BY <2>10 DEF Fail, Running
  <2>11. ASSUME NEW a \in Posts, Plan(a) PROVE DurableInv'
    BY <2>11 DEF Plan
  <2>12. ASSUME NEW a \in Posts, Execute(a) PROVE DurableInv'
    BY <2>12 DEF Execute
  <2>13. CASE UNCHANGED vars
    BY <2>13 DEF vars
  <2> QED
    BY <2>1, <2>2, <2>3, <2>4, <2>5, <2>6, <2>7, <2>8, <2>9, <2>10, <2>11, <2>12, <2>13 DEF Next, Step, Rest
<1>3. DurableInv => AcceptedIsDurable
  BY DEF DurableInv
<1> QED
  BY <1>1, <1>2, <1>3, TypeInit, TypeNext, PTL DEF Spec

\* A retry that comes after the commit costs nothing: no charge, row or job.
THEOREM RetriesAreFree == Spec => []ReplayIsFree
<1>1. Init => ReplayInv
  BY DEF Init, ReplayInv, ReplayIsFree
<1>2. TypeOK /\ TypeOK' /\ ReplayInv /\ [Next]_vars => ReplayInv'
  <2> SUFFICES ASSUME TypeOK, TypeOK', ReplayInv, [Next]_vars PROVE ReplayInv'
    OBVIOUS
  <2> USE DEF TypeOK, ReplayInv, ReplayIsFree, Goto, Answer, db, history
  <2>1. ASSUME NEW a \in Posts, Receive(a) PROVE ReplayInv'
    BY <2>1 DEF Receive
  <2>2. ASSUME NEW a \in Posts, GetAccount(a) PROVE ReplayInv'
    BY <2>2 DEF GetAccount
  <2>3. ASSUME NEW a \in Posts, Replay(a) PROVE ReplayInv'
    BY <2>3 DEF Replay
  <2>4. ASSUME NEW a \in Posts, Validate(a) PROVE ReplayInv'
    BY <2>4 DEF Validate
  <2>5. ASSUME NEW a \in Posts, Limit(a) PROVE ReplayInv'
    BY <2>5 DEF Limit
  <2>6. ASSUME NEW a \in Posts, Insert(a) PROVE ReplayInv'
    BY <2>6 DEF Insert
  <2>7. ASSUME NEW a \in Posts, Enqueue(a) PROVE ReplayInv'
    BY <2>7 DEF Enqueue
  <2>8. ASSUME NEW a \in Posts, Commit(a) PROVE ReplayInv'
    BY <2>8 DEF Commit
  <2>9. ASSUME NEW a \in Posts, Respond(a) PROVE ReplayInv'
    BY <2>9 DEF Respond
  <2>10. ASSUME NEW a \in Posts, Fail(a) PROVE ReplayInv'
    BY <2>10 DEF Fail, Running
  <2>11. ASSUME NEW a \in Posts, Plan(a) PROVE ReplayInv'
    BY <2>11 DEF Plan
  <2>12. ASSUME NEW a \in Posts, Execute(a) PROVE ReplayInv'
    BY <2>12 DEF Execute
  <2>13. CASE UNCHANGED vars
    BY <2>13 DEF vars
  <2> QED
    BY <2>1, <2>2, <2>3, <2>4, <2>5, <2>6, <2>7, <2>8, <2>9, <2>10, <2>11, <2>12, <2>13 DEF Next, Step, Rest
<1>3. ReplayInv => ReplayIsFree
  BY DEF ReplayInv
<1> QED
  BY <1>1, <1>2, <1>3, TypeInit, TypeNext, PTL DEF Spec
-----------------------------------------------------------------------------
\* LIKE with a pattern of literals between two "%" finds them side by side.
LEMMA LikeFindsText ==
    ASSUME NEW s \in Seq(STRING), NEW p \in Seq(STRING),
           \A i \in 1 .. Len(p) : p[i] \notin Special,
           Like(s, <<"percent">> \o p \o <<"percent">>)
    PROVE  Contains(s, p)
<1>1. PICK q : q = <<"percent">> \o p \o <<"percent">>
  OBVIOUS
<1>2. PICK n \in Nat, l \in Nat : n = Len(p) /\ l = Len(s)
  OBVIOUS
<1>3. Len(q) = n + 2 /\ \A i \in 1 .. n : q[i + 1] = p[i]
  BY <1>1, <1>2
<1>4. PICK at \in [1 .. Len(q) -> 0 .. Len(s)] :
        /\ \A i \in 1 .. Len(q) :
              ~ Quotes(q, i) /\ ~ Wildcard(q, i) => at[i] > 0 /\ s[at[i]] = q[i]
        /\ \A i, j \in 1 .. Len(q) :
              i < j /\ (\A k \in (i + 1) .. j : ~ (Wildcard(q, k) /\ q[k] = "percent"))
                  => at[j] = at[i] + Cardinality({k \in (i + 1) .. j : ~ Quotes(q, k)})
  <2>1. Like(s, q)
    BY <1>1
  <2>2. PICK at \in [1 .. Len(q) -> 0 .. Len(s)] :
        /\ \A i \in 1 .. Len(q) :
              ~ Quotes(q, i) /\ ~ Wildcard(q, i) => at[i] > 0 /\ s[at[i]] = q[i]
        /\ \A i, j \in 1 .. Len(q) :
              i < j =>
                /\ at[i] <= at[j]
                /\ (\A k \in (i + 1) .. j : ~ (Wildcard(q, k) /\ q[k] = "percent"))
                      => at[j] = at[i] + Cardinality({k \in (i + 1) .. j : ~ Quotes(q, k)})
    BY <2>1, Zenon DEF Like
  <2> QED BY <2>2
<1>5. ASSUME NEW k \in 2 .. (n + 1) PROVE ~ Quotes(q, k) /\ ~ Wildcard(q, k)
  <2>1. PICK i \in 1 .. n : k = i + 1
    <3>1. k - 1 \in 1 .. n /\ k = (k - 1) + 1
      OBVIOUS
    <3> QED BY <3>1
  <2>2. q[k] \notin Special
    BY <1>2, <1>3, <2>1
  <2> QED BY <2>2 DEF Quotes, Wildcard, Special
<1>6. 1 \in 1 .. Len(q) /\ at[1] \in 0 .. l
  BY <1>2, <1>3
<1>7. ASSUME NEW i \in 1 .. n PROVE at[i + 1] = at[1] + i /\ s[at[1] + i] = p[i] /\ at[1] + i <= l
  <2>1. i + 1 \in 2 .. (n + 1) /\ i + 1 \in 1 .. Len(q) /\ 1 < i + 1
    BY <1>3
  <2>2. \A k \in (1 + 1) .. (i + 1) : k \in 2 .. (n + 1)
    OBVIOUS
  <2>3. {k \in (1 + 1) .. (i + 1) : ~ Quotes(q, k)} = 2 .. (i + 1)
    BY <1>5, <2>2
  <2>4. Cardinality(2 .. (i + 1)) = i
    BY FS_Interval
  <2>5. \A k \in (1 + 1) .. (i + 1) : ~ (Wildcard(q, k) /\ q[k] = "percent")
    BY <1>5, <2>2
  <2>6. at[i + 1] = at[1] + i
    BY <1>4, <1>6, <2>1, <2>3, <2>4, <2>5
  <2>7. s[at[i + 1]] = q[i + 1] /\ at[i + 1] \in 0 .. l
    BY <1>2, <1>4, <1>5, <2>1
  <2> QED BY <1>3, <2>6, <2>7
<1>8. at[1] \in 0 .. (l - n)
  <2>1. CASE n = 0
    BY <1>6, <2>1
  <2>2. CASE n > 0
    <3>1. at[1] + n <= l
      BY <1>7, <2>2
    <3> QED BY <1>6, <3>1
  <2> QED BY <2>1, <2>2
<1> QED BY <1>2, <1>7, <1>8 DEF Contains

\* A condition that the language admits and that compiles selects only values
\* it names: SQL's unknown never counts as true.
LEMMA ConditionsAreSound ==
    ASSUME NEW c, NEW x, NEW entity,
           c.op \in _OPERATORS, ~ raises(entity, c), _apply(c.op, x, c.operand),
           Literal(c), c.operand.text \in Seq(STRING)
    PROVE  Holds(c, x)
<1> DEFINE o == c.operand
<1>1. CASE c.op = "is_null"
  <2>1. Truthy(o) = (x = NULL)
    BY <1>1 DEF _apply
  <2> QED
    BY <1>1, <2>1 DEF Holds
<1>2. CASE c.op \in {"eq", "ne"} /\ o.kind = "null"
  BY <1>2 DEF _apply, Holds
<1>3. CASE c.op # "is_null" /\ ~ (c.op \in {"eq", "ne"} /\ o.kind = "null")
  <2>1. x # NULL /\ Matches(c.op, x, o)
    BY <1>3 DEF _apply
  <2>2. CASE c.op = "in"
    BY <1>3, <2>1, <2>2 DEF Matches, Holds
  <2>3. CASE c.op = "not_in"
    BY <1>3, <2>1, <2>3 DEF Matches, Holds
  <2>4. CASE c.op = "contains"
    <3>1. Like(text(x), <<"percent">> \o o.text \o <<"percent">>)
      BY <2>1, <2>4 DEF Matches
    <3>2. text(x) \in Seq(STRING)
      <4>1. CASE x \in DOMAIN Text
        BY <4>1, TextAssumption DEF text
      <4>2. CASE x \notin DOMAIN Text
        <5>1. text(x) = <<>>
          BY <4>2 DEF text
        <5> QED BY <5>1
      <4> QED BY <4>1, <4>2
    <3>3. \A i \in 1 .. Len(o.text) : o.text[i] \notin Special
      BY <2>4 DEF Literal
    <3>4. Contains(text(x), o.text)
      BY <3>1, <3>2, <3>3, LikeFindsText
    <3> QED
      BY <2>1, <2>4, <3>4 DEF Holds
  <2>5. CASE c.op \in {"eq", "ne", "gt", "gte", "lt", "lte"}
    <3>1. o.kind # "null"
      BY <1>3, <2>5 DEF raises
    <3>2. \A v \in o.values : Compare(c.op, x, v)
      BY <2>1, <2>5 DEF Matches
    <3> QED
      BY <2>1, <2>5, <3>1, <3>2 DEF Holds
  <2> QED
    BY <1>3, <2>2, <2>3, <2>4, <2>5 DEF _OPERATORS
<1> QED
  BY <1>1, <1>2, <1>3

\* An executed action has touched only rows its request names: selection_clause
\* and load_batch_rows, for any table, filter and registry; a "contains" with a
\* character LIKE interprets, a null or a list is excepted.
THEOREM TargetsAreNamed == Spec => []TargetsOnlyNamed
<1>1. Init => TargetInv
  BY DEF Init, TargetInv
<1>2. TypeOK /\ TargetInv /\ [Next]_vars => TargetInv'
  <2> SUFFICES ASSUME TypeOK, TargetInv, [Next]_vars PROVE TargetInv'
    OBVIOUS
  <2>b. body' = body
    BY DEF Next, vars, Receive, Step, GetAccount, Replay, Validate, Limit, Insert, Enqueue,
           Commit, Respond, Fail, Plan, Execute, Rest
  <2> USE DEF TypeOK, TargetInv, Goto, Answer, db, history
  <2>1. ASSUME NEW a \in Posts, Receive(a) PROVE TargetInv'
    BY <2>1, <2>b DEF Receive
  <2>2. ASSUME NEW a \in Posts, GetAccount(a) PROVE TargetInv'
    BY <2>2, <2>b DEF GetAccount
  <2>3. ASSUME NEW a \in Posts, Replay(a) PROVE TargetInv'
    BY <2>3, <2>b DEF Replay
  <2>4. ASSUME NEW a \in Posts, Validate(a) PROVE TargetInv'
    BY <2>4, <2>b DEF Validate
  <2>5. ASSUME NEW a \in Posts, Limit(a) PROVE TargetInv'
    BY <2>5, <2>b DEF Limit
  <2>6. ASSUME NEW a \in Posts, Insert(a) PROVE TargetInv'
    BY <2>6, <2>b DEF Insert
  <2>7. ASSUME NEW a \in Posts, Enqueue(a) PROVE TargetInv'
    BY <2>7, <2>b DEF Enqueue
  <2>8. ASSUME NEW a \in Posts, Commit(a) PROVE TargetInv'
    BY <2>8, <2>b DEF Commit
  <2>9. ASSUME NEW a \in Posts, Respond(a) PROVE TargetInv'
    BY <2>9, <2>b DEF Respond
  <2>10. ASSUME NEW a \in Posts, Fail(a) PROVE TargetInv'
    BY <2>10, <2>b DEF Fail, Running
  <2>11. ASSUME NEW a \in Posts, Plan(a) PROVE TargetInv'
    BY <2>11, <2>b DEF Plan
  <2>12. ASSUME NEW a \in Posts, Execute(a) PROVE TargetInv'
    BY <2>12, <2>b DEF Execute
  <2>13. CASE UNCHANGED vars
    BY <2>13 DEF vars
  <2> QED
    BY <2>1, <2>2, <2>3, <2>4, <2>5, <2>6, <2>7, <2>8, <2>9, <2>10, <2>11, <2>12, <2>13 DEF Next, Step, Rest
<1>3. TypeOK /\ TargetInv => TargetsOnlyNamed
  <2> SUFFICES ASSUME TypeOK, TargetInv, NEW a \in Posts, stage[a] = "executed",
                      NEW row \in target_rows(body[a])
               PROVE  /\ row.account = body[a].account_id
                      /\ row.entity_type = body[a].entity_type /\ ~ row.deleted
                      /\ IF body[a].payload.entity_ids.given
                         THEN row.id \in body[a].payload.entity_ids.ids
                         ELSE \A c \in body[a].payload.filter.conditions :
                                 Literal(c) => Holds(c, row.values[c.field])
    BY DEF TargetsOnlyNamed
  <2> DEFINE r == body[a]
             entity == Registry[r.entity_type]
             conditions == r.payload.filter.conditions
  <2>1. CASE r.payload.entity_ids.given
    BY <2>1 DEF target_rows
  <2>2. CASE ~ r.payload.entity_ids.given
    <3>1. ConfigModel(r.payload) /\ (r.payload.filter.given => validate_filter(entity, r.payload.filter))
      BY DEF TargetInv, validate_request, BulkUpdateAction_validate_config,
             BulkDeleteAction_validate_config
    <3>2. r.payload.filter.given
      BY <3>1, <2>2 DEF ConfigModel, _require_a_target_set
    <3>3. \A c \in conditions : c.op \in _OPERATORS
      BY <3>1, <3>2 DEF validate_filter
    <3>4. \A c \in conditions : ~ raises(entity, c)
      BY <3>2 DEF TargetInv, compiles
    <3>5. row \in selection_clause(r.entity_type, r.account_id, r.payload.filter)
      BY <2>2 DEF target_rows
    <3>6. ASSUME NEW c \in conditions, Literal(c) PROVE Holds(c, row.values[c.field])
      <4>1. _apply(c.op, row.values[c.field], c.operand)
        BY <3>5 DEF selection_clause
      <4>2. c.operand.text \in Seq(STRING)
        BY ScenariosAssumption DEF TypeOK
      <4> QED
        BY <3>3, <3>4, <3>6, <4>1, <4>2, ConditionsAreSound
    <3> QED
      BY <2>2, <3>5, <3>6 DEF selection_clause
  <2> QED
    BY <2>1, <2>2
<1> QED
  BY <1>1, <1>2, <1>3, TypeInit, TypeNext, PTL DEF Spec
=============================================================================
