---------------------------- MODULE MCSubmission ----------------------------
(* Requests for TLC: three that share idempotency keys, or one that carries  *)
(* any of the filters and payloads below beside two for an unknown account.  *)
EXTENDS Submission, TLC

ThreePosts == {"p1", "p2", "p3"}
OneAccount == {"acme"}
Types == {"update", "delete"}

\* The two registered entities, reduced to the fields the scenarios use.
Descriptors ==
    [contact |-> [updatable |-> {"email", "age"}, nullable |-> {"age"},
                  filterable |-> {"email", "age"}, text |-> {"email"},
                  columns |-> {"id", "email", "age", "created_at"},
                  dedup_fields |-> {"email"}, soft_delete |-> TRUE],
     company |-> [updatable |-> {"domain"}, nullable |-> {"domain"},
                  filterable |-> {"domain"}, text |-> {"domain"},
                  columns |-> {"id", "domain"},
                  dedup_fields |-> {"domain"}, soft_delete |-> TRUE]]

Contact(id, account, deleted, age, email) ==
    [id |-> id, entity_type |-> "contact", account |-> account, deleted |-> deleted,
     values |-> [age |-> age, email |-> email]]

Table ==
    {Contact(1, "acme", FALSE, 0, 1), Contact(2, "acme", FALSE, 1, 2),
     Contact(3, "acme", FALSE, NULL, 2), Contact(4, "acme", TRUE, 1, 1),
     Contact(5, "other", FALSE, 1, 1)}

\* The texts of the two email values.
Emails == (1 :> <<"a", "b">>) @@ (2 :> <<"n", "o", "n", "e">>)

-----------------------------------------------------------------------------
NoFilter == [given |-> FALSE, fields |-> {}, conditions |-> {}]
NoIds == [given |-> FALSE, ids |-> {}]
Everything == [given |-> TRUE, fields |-> {}, conditions |-> {}]

Where(field, op, operand) ==
    [given |-> TRUE, fields |-> {field},
     conditions |-> {[field |-> field, op |-> op, operand |-> operand]}]

Value(kind, values, chars) == [kind |-> kind, values |-> values, text |-> chars]
Null == Value("null", {}, <<"n", "o", "n", "e">>)

Operands ==
    {Value("scalar", {0}, <<"0">>), Value("scalar", {1}, <<"1">>), Null,
     Value("mistyped", {}, <<"b">>), Value("list", {}, <<"[", "]">>),
     Value("list", {1}, <<"[", "1", "]">>), Value("list", {1, NULL}, <<"[", "1", ",", "n", "]">>)}

Patterns == {Value("scalar", {1}, s) : s \in {<<>>, <<"a">>, <<"b">>, <<"a", "b">>, <<"b", "a">>,
                                             <<"o", "n">>, <<"n", "e", "n">>}}

Age30 == [age |-> "good"]

Payload(updates, filter, ids) ==
    [parses |-> TRUE, updates |-> updates, filter |-> filter, entity_ids |-> ids,
     hard |-> FALSE, deduplicate_by |-> "none"]

Request(key, action, payload) ==
    [account_id |-> "acme", idempotency_key |-> key, entity_type |-> "contact",
     action_type |-> action, payload |-> payload, scheduled_at |-> "none"]

Plain(key) == Request(key, "update", Payload(Age30, Everything, NoIds))
Unknown == [Plain("none") EXCEPT !.account_id = "nobody"]
Invalid(key) == [Plain(key) EXCEPT !.entity_type = "deal"]

\* Every operator with every operand; other payloads, accepted and refused.
FilterRequests ==
    {Request("none", "delete", Payload(Age30, Where("age", op, o), NoIds)) :
        op \in _OPERATORS, o \in Operands}
    \union {Request("none", "delete", Payload(Age30, Where("email", "contains", o), NoIds)) :
        o \in Operands \union Patterns}

PayloadRequests ==
    LET ids(S) == [given |-> TRUE, ids |-> S]
        dedup(p, f) == [p EXCEPT !.deduplicate_by = f]
        all == Payload(Age30, Everything, NoIds)
    IN  {Request("none", t, p) : t \in Types \union {"archive"}, p \in
            {all, [all EXCEPT !.parses = FALSE],
             Payload(Age30, NoFilter, NoIds), Payload(Age30, NoFilter, ids({})),
             Payload(Age30, NoFilter, ids({1, 4, 5})), Payload(Age30, Everything, ids({1})),
             Payload([f \in {} |-> "good"], Everything, NoIds),
             Payload([phone |-> "good"], Everything, NoIds),
             Payload([age |-> "bad"], Everything, NoIds),
             Payload([age |-> "null"], Everything, NoIds),
             Payload(Age30, Where("phone", "eq", Null), NoIds),
             Payload(Age30, Where("age", "like", Null), NoIds),
             dedup(all, "email"), dedup(all, "age")}}
        \union {[Plain("none") EXCEPT !.scheduled_at = s] : s \in {"past", "future"}}

\* The requests are alike, so their order does not matter.
KeyScenarios ==
    LET kinds == <<Plain("none"), Plain(""), Plain("k"), Invalid("k")>>
    IN  {[p1 |-> kinds[c[1]], p2 |-> kinds[c[2]], p3 |-> kinds[c[3]]] :
            c \in {c \in (1 .. 4) \X (1 .. 4) \X (1 .. 4) : c[1] <= c[2] /\ c[2] <= c[3]}}

Alone(r) == [a \in ThreePosts |-> IF a = "p1" THEN r ELSE Unknown]

AllScenarios == KeyScenarios \union {Alone(r) : r \in FilterRequests \union PayloadRequests}

\* "contains" with characters that LIKE interprets, quoted or not.
WildcardScenarios ==
    {Alone(Request("none", "delete",
           Payload(Age30, Where("email", "contains", Value("scalar", {1}, s)), NoIds))) :
        s \in {<<"a", "underscore">>, <<"a", "percent">>, <<"a", "backslash", "underscore">>}}

\* A client repeats its request before the first one is answered.
RetryScenario == {[p1 |-> Plain("k"), p2 |-> Plain("k"), p3 |-> Unknown]}

NullScenarios ==
    {Alone(Request("none", "update", Payload([email |-> v], Everything, NoIds))) :
        v \in {"good", "null"}}
=============================================================================
