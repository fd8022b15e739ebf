----------------------------- MODULE Submission -----------------------------
(***************************************************************************)
(* POST /bulk-actions under retries: several requests, some of them        *)
(* repeating an idempotency key, run create_bulk_action                    *)
(* (services/bulk_action_service.py) concurrently in API processes that    *)
(* may fail at any statement.  A request inserts at most one bulk_actions  *)
(* row, so the row and its plan job are named by the request that made     *)
(* them.  What the workers later make of an accepted configuration is the  *)
(* stage of that row; the pipeline itself is in Pipeline.                  *)
(***************************************************************************)
EXTENDS Filters

CONSTANTS Posts,      \* the requests of a behaviour
          Scenarios,  \* what they carry: functions from requests to bodies
          Accounts,   \* existing accounts
          MaxFaults   \* bound: failures and crashes in one behaviour

ASSUME ScenariosAssumption ==
    \A scenario \in Scenarios :
        /\ DOMAIN scenario = Posts
        /\ \A a \in Posts : \A c \in scenario[a].payload.filter.conditions :
              c.operand.text \in Seq(STRING)
ASSUME FaultsAssumption == MaxFaults \in Nat

VARIABLES pc,         \* where each request is
          body,       \* what it carries
          answer,     \* the status code it was answered with, 0 for none
          location,   \* the action its answer names
          committed,  \* bulk_actions: rows visible to everyone
          stage,      \* the plan job of each row and what became of it
          charged,    \* history: requests the submission limiter charged
          replay,     \* history: requests whose key was committed when they came
          faults      \* how many of MaxFaults are left

vars == <<pc, body, answer, location, committed, stage, charged, replay, faults>>
db == <<committed, stage>>
history == <<charged, replay>>

-----------------------------------------------------------------------------
\* "none" is an absent idempotency_key; the empty string is a legal one.
empty_key == ""

\* uq_bulk_actions_idempotency: NULL keys never collide, empty ones do.
same_key(r, s) ==
    r.account_id = s.account_id /\ r.idempotency_key = s.idempotency_key
        /\ r.idempotency_key # "none"

\* The row is inserted and its transaction is open.
Inserted(a) == pc[a] \in {"enqueue", "commit"}

Running(a) == pc[a] \notin {"none", "done"}

Goto(a, where) == pc' = [pc EXCEPT ![a] = where]

Answer(a, code) ==
    Goto(a, "done") /\ answer' = [answer EXCEPT ![a] = code] /\ UNCHANGED location

Init ==
    /\ pc = [a \in Posts |-> "none"]
    /\ body \in Scenarios
    /\ answer = [a \in Posts |-> 0]
    /\ location = [a \in Posts |-> a]
    /\ committed = {}
    /\ stage = [a \in Posts |-> "none"]
    /\ charged = {}
    /\ replay = {}
    /\ faults = MaxFaults

Receive(a) ==
    /\ pc[a] = "none"
    /\ Goto(a, "account")
    /\ replay' = IF \E b \in committed : same_key(body[a], body[b])
                 THEN replay \union {a} ELSE replay
    /\ UNCHANGED <<body, answer, location, db, charged, faults>>

GetAccount(a) ==
    /\ pc[a] = "account"
    /\ \/ body[a].account_id \notin Accounts /\ Answer(a, 404)
       \/ body[a].account_id \in Accounts /\ Goto(a, "replay") /\ UNCHANGED <<answer, location>>
    /\ UNCHANGED <<body, db, history, faults>>

\* Mutant: the key is left to the unique constraint.
ReplayOmitted(a) ==
    /\ pc[a] = "replay"
    /\ Goto(a, "validate")
    /\ UNCHANGED <<body, answer, location, db, history, faults>>

\* if request.idempotency_key: an empty key is not looked up.
Replay(a) ==
    /\ pc[a] = "replay"
    /\ \/ \E b \in committed :
             /\ body[a].idempotency_key # empty_key /\ same_key(body[a], body[b])
             /\ Goto(a, "done")
             /\ answer' = [answer EXCEPT ![a] = 200]
             /\ location' = [location EXCEPT ![a] = b]
       \/ /\ body[a].idempotency_key = empty_key \/ \A b \in committed : ~ same_key(body[a], body[b])
          /\ Goto(a, "validate") /\ UNCHANGED <<answer, location>>
    /\ UNCHANGED <<body, db, history, faults>>

Validate(a) ==
    /\ pc[a] = "validate"
    /\ \/ ~ validate_request(body[a]) /\ Answer(a, 422)
       \/ validate_request(body[a]) /\ Goto(a, "limit") /\ UNCHANGED <<answer, location>>
    /\ UNCHANGED <<body, db, history, faults>>

\* consume_submission: the bucket of RateLimiter decides.
Limit(a) ==
    /\ pc[a] = "limit"
    /\ \/ Answer(a, 429) /\ UNCHANGED charged
       \/ Goto(a, "insert") /\ charged' = charged \union {a} /\ UNCHANGED <<answer, location>>
    /\ UNCHANGED <<body, db, replay, faults>>

\* Mutant: there is no unique constraint on the key.
InsertUnconstrained(a) ==
    /\ pc[a] = "insert"
    /\ Goto(a, "enqueue")
    /\ UNCHANGED <<body, answer, location, db, history, faults>>

\* Mutant: a conflict sends the request back to the lookup of its key.
InsertRetried(a) ==
    /\ pc[a] = "insert"
    /\ \A b \in Posts \ {a} : Inserted(b) => ~ same_key(body[a], body[b])
    /\ Goto(a, IF \E b \in committed : same_key(body[a], body[b]) THEN "replay" ELSE "enqueue")
    /\ UNCHANGED <<body, answer, location, db, history, faults>>

\* session.flush(): the unique index waits for an open transaction that holds
\* the key; a committed one raises IntegrityError, which nothing catches.
Insert(a) ==
    /\ pc[a] = "insert"
    /\ \A b \in Posts \ {a} : Inserted(b) => ~ same_key(body[a], body[b])
    /\ \/ (\E b \in committed : same_key(body[a], body[b])) /\ Answer(a, 500)
       \/ /\ \A b \in committed : ~ same_key(body[a], body[b])
          /\ Goto(a, "enqueue") /\ UNCHANGED <<answer, location>>
    /\ UNCHANGED <<body, db, history, faults>>

Enqueue(a) ==
    /\ pc[a] = "enqueue"
    /\ stage' = [stage EXCEPT ![a] = "queued"]
    /\ Goto(a, "commit")
    /\ UNCHANGED <<body, answer, location, committed, history, faults>>

\* Mutant: the answer is sent before the session commits.
CommitUnawaited(a) ==
    /\ pc[a] = "commit"
    /\ Answer(a, 202)
    /\ committed' \in {committed, committed \union {a}}
    /\ UNCHANGED <<body, stage, history, faults>>

\* The exit of session_scope, before the response is sent.
Commit(a) ==
    /\ pc[a] = "commit"
    /\ committed' = committed \union {a}
    /\ Goto(a, "respond")
    /\ UNCHANGED <<body, answer, location, stage, history, faults>>

Respond(a) ==
    /\ pc[a] = "respond"
    /\ Answer(a, 202)
    /\ UNCHANGED <<body, db, history, faults>>

\* A statement, Redis or the commit's acknowledgement fails: the session rolls
\* back what is not committed, and the client is told 500 or, when the process
\* died, nothing at all.
Fail(a) ==
    /\ Running(a)
    /\ faults > 0 /\ faults' = faults - 1
    /\ \E code \in {0, 500} : Answer(a, code)
    /\ UNCHANGED <<body, db, history>>

-----------------------------------------------------------------------------
(* What becomes of an accepted configuration.                              *)

\* plan_bulk_action: a row that is not visible yet is "missing".
Plan(a) ==
    /\ stage[a] = "queued"
    /\ stage' = [stage EXCEPT ![a] =
         IF a \notin committed THEN "missing"
         ELSE IF body[a].payload.filter.given
                   /\ ~ compiles(Registry[body[a].entity_type], body[a].payload.filter)
         THEN "unplannable" ELSE "planned"]
    /\ UNCHANGED <<pc, body, answer, location, committed, history, faults>>

\* The batches: an UPDATE that the schema refuses fails every one of them.
Execute(a) ==
    /\ stage[a] = "planned"
    /\ stage' = [stage EXCEPT ![a] =
         IF violates_not_null(body[a]) /\ target_rows(body[a]) # {}
         THEN "unwritable" ELSE "executed"]
    /\ UNCHANGED <<pc, body, answer, location, committed, history, faults>>

Step(a) ==
    \/ GetAccount(a) \/ Replay(a) \/ Validate(a) \/ Limit(a) \/ Insert(a)
    \/ Enqueue(a) \/ Commit(a) \/ Respond(a)

Rest ==
    /\ \A a \in Posts : pc[a] = "done" /\ stage[a] \notin {"queued", "planned"}
    /\ UNCHANGED vars

Next ==
    \/ \E a \in Posts : Receive(a) \/ Step(a) \/ Fail(a) \/ Plan(a) \/ Execute(a)
    \/ Rest

Spec == Init /\ [][Next]_vars

\* A request the server has received is carried on with.
FairSpec == Spec /\ \A a \in Posts : WF_vars(Step(a))

-----------------------------------------------------------------------------
(* Properties.                                                             *)

\* The shapes of the requests and of the rows.
TypeOK ==
    /\ pc \in [Posts -> {"none", "account", "replay", "validate", "limit", "insert",
                         "enqueue", "commit", "respond", "done"}]
    /\ body \in Scenarios
    /\ answer \in [Posts -> {0, 200, 202, 404, 422, 429, 500}]
    /\ location \in [Posts -> Posts]
    /\ committed \subseteq Posts
    /\ stage \in [Posts -> {"none", "queued", "missing", "unplannable", "planned",
                            "unwritable", "executed"}]
    /\ charged \subseteq Posts
    /\ replay \subseteq Posts
    /\ faults \in Nat

\* However requests with one idempotency key interleave and fail, one action
\* exists for the key (create_bulk_action and uq_bulk_actions_idempotency).
OneActionPerKey ==
    \A a, b \in committed : same_key(body[a], body[b]) => a = b

\* A request that was told 202 or 200 can rely on it: the action named in
\* Location is committed, has the account and the key of the request, and its
\* plan job was enqueued, whatever failed in between.
AcceptedIsDurable ==
    \A a \in Posts :
        answer[a] \in {200, 202} =>
            /\ location[a] \in committed
            /\ stage[location[a]] # "none"
            /\ location[a] = a \/ same_key(body[a], body[location[a]])

\* "a retried submission never double-charges the rate limiter or
\* double-enqueues work": a request that comes when an action with its key is
\* committed is not charged and leaves no row and no job (create_bulk_action).
ReplayIsFree ==
    \A a \in replay :
        body[a].idempotency_key # empty_key => a \notin charged /\ a \notin committed /\ stage[a] = "none"

\* Every request is answered or lost with its process: none waits for ever for
\* another one that holds its key.
EveryRequestEnds == []<>(\A a \in Posts : ~ Running(a))

\* Text p occurs in s.
Contains(s, p) == \E k \in 0 .. (Len(s) - Len(p)) : \A i \in 1 .. Len(p) : s[k + i] = p[i]

\* The operand of a "contains" is a text without a character LIKE interprets.
Literal(c) ==
    c.op = "contains" =>
        /\ c.operand.kind \in {"scalar", "mistyped"}
        /\ \A i \in 1 .. Len(c.operand.text) : c.operand.text[i] \notin Special

\* What a request names: live rows of its own account, by id or by conditions
\* that hold of a value.  A row without a value is named by asking for null.
Holds(c, x) ==
    LET null == c.operand.kind = "null"
    IN  IF x = NULL THEN \/ c.op = "is_null" /\ Truthy(c.operand)
                         \/ c.op = "eq" /\ null
        ELSE CASE c.op = "is_null" -> ~ Truthy(c.operand)
               [] c.op = "in" -> x \in c.operand.values
               [] c.op = "not_in" -> x \notin c.operand.values
               [] c.op = "contains" -> Contains(text(x), c.operand.text)
               [] OTHER -> IF null THEN c.op = "ne"
                           ELSE \A v \in c.operand.values : Compare(c.op, x, v)

\* An executed action has only touched rows its request names: never another
\* tenant's, a deleted one, one whose field has no value to compare or whose
\* text does not contain the literal asked for (selection_clause,
\* load_batch_rows).
TargetsOnlyNamed ==
    \A a \in Posts :
        stage[a] = "executed" =>
            \A row \in target_rows(body[a]) :
                /\ row.account = body[a].account_id /\ row.entity_type = body[a].entity_type
                /\ ~ row.deleted
                /\ IF body[a].payload.entity_ids.given
                   THEN row.id \in body[a].payload.entity_ids.ids
                   ELSE \A c \in body[a].payload.filter.conditions :
                           Literal(c) => Holds(c, row.values[c.field])

\* "Case-insensitive substring match; ILIKE with an escaped pattern": a row
\* selected by "contains" contains the operand as it stands (_apply).
ContainsIsLiteral ==
    \A a \in Posts :
        stage[a] = "executed" /\ ~ body[a].payload.entity_ids.given =>
            \A row \in target_rows(body[a]), c \in body[a].payload.filter.conditions :
                c.op = "contains" => Contains(text(row.values[c.field]), c.operand.text)

\* "a retried submission never double-charges the rate limiter": of the requests
\* with one idempotency key the submission limiter charges one
\* (create_bulk_action).
OneChargePerKey ==
    \A a, b \in charged :
        same_key(body[a], body[b]) /\ body[a].idempotency_key # empty_key => a = b

\* "A request that would fail on the millionth row fails here on the zeroth":
\* no batch of an accepted update is refused by the schema.
AcceptedIsWritable == \A a \in Posts : stage[a] # "unwritable"
=============================================================================
