------------------------------- MODULE Filters -------------------------------
(***************************************************************************)
(* The filter language (domain/filters.py) and the checks a payload passes *)
(* at submission (domain/entities, domain/actions): which requests are     *)
(* accepted, which of them the worker can still not execute, and which     *)
(* rows the compiled WHERE clause selects under SQL's three-valued logic.  *)
(* A filter is a set of conditions and the set of fields it names (a field *)
(* may carry no condition); the shorthand {field: value} is an "eq".       *)
(***************************************************************************)
EXTENDS Integers, Sequences, FiniteSets

CONSTANTS Registry,     \* entity_type -> descriptor
          ActionTypes,  \* registered action types
          Rows,         \* the rows of the entity table
          Text          \* value of a text column -> its characters, lower-cased

ASSUME TextAssumption == \A x \in DOMAIN Text : Text[x] \in Seq(STRING)

NULL == -1              \* values of columns are naturals, or NULL

_OPERATORS == {"eq", "ne", "gt", "gte", "lt", "lte", "in", "not_in", "contains", "is_null"}

\* A JSON operand as the column sees it, and str(value).lower() for "contains";
\* "mistyped" is one the column's type refuses.
Operand == [kind : {"scalar", "null", "list", "mistyped"}, values : SUBSET Int,
            text : Seq(STRING)]

-----------------------------------------------------------------------------
(* Submission: what is checked before anything is stored.                  *)

validate_filter(entity, filter) ==
    LET allowed == (entity.filterable \union {"status", "created_at", "updated_at"})
                      \intersect entity.columns
    IN  filter.fields \subseteq allowed /\ \A c \in filter.conditions : c.op \in _OPERATORS

\* A value of an update is "good", "bad" (refused by the field's annotation) or
\* "null".
update_annotation(entity, field) ==
    IF field \in entity.nullable THEN {"good", "null"} ELSE {"good"}

\* update_model gives every field the type update_annotation | None.
validate_updates(entity, updates) ==
    /\ DOMAIN updates # {}
    /\ DOMAIN updates \subseteq entity.updatable
    /\ \A f \in DOMAIN updates : updates[f] \in update_annotation(entity, f) \union {"null"}

_require_a_target_set(payload) ==
    IF payload.entity_ids.given THEN ~ payload.filter.given /\ payload.entity_ids.ids # {}
                                ELSE payload.filter.given

\* validate_config of BulkActionHandler: the payload parses as ConfigModel.
ConfigModel(payload) == payload.parses /\ _require_a_target_set(payload)

BulkUpdateAction_validate_config(entity, payload) ==
    /\ ConfigModel(payload)
    /\ validate_updates(entity, payload.updates)
    /\ payload.filter.given => validate_filter(entity, payload.filter)
    /\ payload.deduplicate_by # "none" =>
          payload.deduplicate_by \in entity.updatable \intersect entity.dedup_fields

BulkDeleteAction_validate_config(entity, payload) ==
    /\ ConfigModel(payload)
    /\ payload.filter.given => validate_filter(entity, payload.filter)
    /\ payload.hard \/ entity.soft_delete
    /\ payload.deduplicate_by # "none" => payload.deduplicate_by \in entity.dedup_fields

get_entity(r) == r.entity_type \in DOMAIN Registry

\* Both handlers support every entity.
get_action(r) == r.action_type \in ActionTypes

\* get_entity, get_action, validate_config, scheduled_at.
validate_request(r) ==
    /\ get_entity(r)
    /\ get_action(r)
    /\ LET entity == Registry[r.entity_type]
       IN  IF r.action_type = "update" THEN BulkUpdateAction_validate_config(entity, r.payload)
                                       ELSE BulkDeleteAction_validate_config(entity, r.payload)
    /\ r.scheduled_at # "past"

-----------------------------------------------------------------------------
(* Execution: compiling the filter and evaluating it.                      *)

\* _apply refuses the operand, SQLAlchemy cannot render the comparison, or the
\* driver cannot bind the value.
raises(entity, c) ==
    \/ c.op \in {"in", "not_in"} /\ (c.operand.kind # "list" \/ c.operand.values = {})
    \/ c.op \in {"gt", "gte", "lt", "lte"} /\ c.operand.kind = "null"
    \/ c.op \in {"eq", "ne", "gt", "gte", "lt", "lte"} /\ c.operand.kind \in {"list", "mistyped"}
    \/ c.op = "contains" /\ c.field \notin entity.text

compiles(entity, filter) == \A c \in filter.conditions : ~ raises(entity, c)

Truthy(operand) ==
    CASE operand.kind = "null" -> FALSE
      [] operand.kind = "mistyped" -> TRUE
      [] operand.kind = "list" -> operand.values # {}
      [] operand.kind = "scalar" -> operand.values # {0}

Compare(op, x, v) ==
    CASE op = "eq"  -> x = v
      [] op = "ne"  -> x # v
      [] op = "gt"  -> x > v
      [] op = "gte" -> x >= v
      [] op = "lt"  -> x < v
      [] op = "lte" -> x <= v

\* The characters of a column value; only text columns have any.
text(x) == IF x \in DOMAIN Text THEN Text[x] ELSE <<>>

\* The characters LIKE interprets: "%", "_" and "\\".
Special == {"percent", "underscore", "backslash"}

\* PostgreSQL's LIKE: the i-th character of the pattern is a backslash that
\* quotes the next one, or a wildcard that no backslash quotes.
Quotes(pattern, i) ==
    /\ pattern[i] = "backslash"
    /\ Cardinality({k \in 1 .. i : \A m \in k .. i : pattern[m] = "backslash"}) % 2 = 1
Wildcard(pattern, i) ==
    pattern[i] \in Special \ {"backslash"} /\ ~ (i > 1 /\ Quotes(pattern, i - 1))

\* at[i] is how much of s the pattern up to its i-th character has matched: a
\* literal is found there, and only "%" skips characters.  The pattern of
\* "contains" begins with "%".
Like(s, pattern) ==
    \E at \in [1 .. Len(pattern) -> 0 .. Len(s)] :
        /\ at[Len(pattern)] = Len(s)
        /\ \A i \in 1 .. Len(pattern) :
              ~ Quotes(pattern, i) /\ ~ Wildcard(pattern, i) => at[i] > 0 /\ s[at[i]] = pattern[i]
        /\ \A i, j \in 1 .. Len(pattern) :
              LET between == (i + 1) .. j
                  steps   == Cardinality({k \in between : ~ Quotes(pattern, k)})
              IN  i < j =>
                    /\ at[i] <= at[j]
                    /\ (\A k \in between : ~ (Wildcard(pattern, k) /\ pattern[k] = "percent"))
                          => at[j] = at[i] + steps

\* A comparison of values that are there, and "contains": the text of any
\* operand, as it stands, between two "%".
Matches(op, x, operand) ==
    CASE op = "in" -> x \in operand.values
      [] op = "not_in" -> x \notin operand.values /\ NULL \notin operand.values
      [] op = "contains" -> Like(text(x), <<"percent">> \o operand.text \o <<"percent">>)
      [] OTHER -> \A v \in operand.values : Compare(op, x, v)

\* Mutant: a NULL column is unequal to every value, as in Python.
_apply_pythonic(op, x, operand) ==
    IF op = "is_null" THEN Truthy(operand) = (x = NULL)
    ELSE IF op \in {"eq", "ne"} /\ operand.kind = "null" THEN (op = "eq") = (x = NULL)
    ELSE IF op = "not_in" THEN x \notin operand.values
    ELSE IF op = "contains" THEN x # NULL /\ Matches(op, x, operand)
    ELSE Matches(op, x, operand)

\* Is the compiled condition true of column value x?  A comparison with NULL is
\* unknown, which a WHERE clause treats as false.
_apply(op, x, operand) ==
    IF op = "is_null" THEN Truthy(operand) = (x = NULL)
    ELSE IF op \in {"eq", "ne"} /\ operand.kind = "null" THEN (op = "eq") = (x = NULL)
    ELSE x # NULL /\ Matches(op, x, operand)

selection_clause(entity_type, account, filter) ==
    {r \in Rows : /\ r.entity_type = entity_type /\ r.account = account /\ ~ r.deleted
                  /\ \A c \in filter.conditions : _apply(c.op, r.values[c.field], c.operand)}

\* load_batch_rows of an unchanged table: the union over the planned batches.
target_rows(r) ==
    IF r.payload.entity_ids.given
    THEN {row \in Rows : /\ row.entity_type = r.entity_type /\ row.account = r.account_id
                         /\ ~ row.deleted /\ row.id \in r.payload.entity_ids.ids}
    ELSE selection_clause(r.entity_type, r.account_id, r.payload.filter)

\* The UPDATE sets a NOT NULL column to NULL.
violates_not_null(r) ==
    /\ r.action_type = "update"
    /\ \E f \in DOMAIN r.payload.updates :
          r.payload.updates[f] = "null" /\ f \notin Registry[r.entity_type].nullable
=============================================================================
