------------------------------- MODULE FormValues -------------------------------
(* A form's schema and the evaluation of what a user submits to it: which    *)
(* schemas are published, in which order the fields are computed, and what   *)
(* is stored.  A number is modelled by an integer and an empty value by {}.  *)
EXTENDS Integers, FiniteSets, SequencesExt

CONSTANTS
  Order,          \* the keys of the fields, in the order of the schema
  Schemas,        \* what a designer may send: [fields, rules]
  Numbers,        \* the numbers a user enters
  Records,        \* the records a user may link to (numbers too)
  AttributeOf,    \* AttributeOf[record]: the attribute read from the record
  Limit,          \* the largest number accepted
  None

VARIABLES
  schema,         \* [fields, rules]
  phase,          \* "designed", "published", "evaluating", "stored", "failed" or "refused"
  reason,         \* why the evaluation has failed
  values,         \* the keys that have a value, and the values
  stack,          \* the calls of compute under way: [key, deps]
  calculated,     \* the keys computed
  stored          \* what the first evaluation stored, if it is sent again

vars == <<schema, phase, reason, values, stack, calculated, stored>>

Keys == ToSet(Order)
Field(key) == schema.fields[key]

\* A field that carries no setting of its own.
Plain(type) ==
  [type |-> type, fetch_from |-> None, link_filter |-> None, inputs |-> <<>>, reads |-> {}, ops |-> <<>>,
   readonly |-> FALSE, required |-> FALSE, default |-> {}, after_or_equal |-> None, not_equal |-> None]

NumberTypes == {"Number", "Formula"}

Enabled == SelectSeq(schema.rules, LAMBDA rule : rule.enabled)

-----------------------------------------------------------------------------
(* validate_schema *)

IsKey(key) == key \in Keys
TypeOf(key) == Field(key).type

FieldsValid ==
  \A key \in Keys :
    LET field == Field(key) IN
      /\ field.fetch_from # None =>
           field.fetch_from # key /\ IsKey(field.fetch_from) /\ TypeOf(field.fetch_from) = "Link"
      /\ \A input \in ToSet(field.inputs) : IsKey(input) /\ TypeOf(input) \in NumberTypes
      /\ field.ops # <<>> => Len(field.inputs) = Len(field.ops) + 1
      /\ field.link_filter # None => IsKey(field.link_filter)
      /\ field.after_or_equal # None =>
           field.after_or_equal # key /\ IsKey(field.after_or_equal) /\ TypeOf(field.after_or_equal) = "Date"
      /\ field.not_equal # None => field.not_equal # key /\ IsKey(field.not_equal)

\* What a column, or a field, is computed from; rules are left out.
ColumnGraph ==
  [key \in Keys |->
     ToSet(Field(key).inputs) \cup ({Field(key).link_filter, Field(key).fetch_from} \ {None})]

\* Mutation of FieldGraph: rules are no dependencies.
FieldGraphNoRules ==
  [key \in Keys |-> ToSet(Field(key).inputs) \cup ({Field(key).link_filter, Field(key).after_or_equal} \ {None})]

\* Every rule counts, enabled or not; what a field is fetched from does not.
FieldGraph ==
  [key \in Keys |->
     ToSet(Field(key).inputs)
       \cup ({Field(key).link_filter, Field(key).after_or_equal} \ {None})
       \cup UNION {{c.field : c \in rule.conditions} : rule \in {r \in ToSet(schema.rules) : r.target = key}}]

\* A visit of every key, depth first, comes to no key it is in the middle of.
Acyclic(graph) ==
  \E rank \in [Keys -> 1..Len(Order)] : \A key \in Keys : \A dep \in graph[key] : rank[dep] < rank[key]

validate_schema == FieldsValid /\ Acyclic(ColumnGraph) /\ Acyclic(FieldGraph)

-----------------------------------------------------------------------------
(* What a field's value depends on.  have is a dict: a function from some keys. *)

Value(have, key) == IF key \in DOMAIN have THEN have[key] ELSE {}

Number(value) == IF value = {} THEN 0 ELSE CHOOSE n \in value : TRUE

matches(condition, have) ==
  LET actual == Value(have, condition.field) IN
    CASE condition.op = "empty"     -> actual = {}
      [] condition.op = "not_empty" -> actual # {}
      [] condition.op = "eq"        -> IF TypeOf(condition.field) \in NumberTypes
                                       THEN Number(actual) = Number(condition.value)
                                       ELSE actual = condition.value

Triggered(rule, have) ==
  IF rule.join = "and" THEN \A c \in rule.conditions : matches(c, have)
                       ELSE \E c \in rule.conditions : matches(c, have)

\* Some rule of the action is triggered; a field without one is visible.
RuleSays(key, action, have) ==
  \E rule \in ToSet(Enabled) : rule.target = key /\ rule.action = action /\ Triggered(rule, have)

visible(key, have) ==
  (\E rule \in ToSet(Enabled) : rule.target = key /\ rule.action = "visible") => RuleSays(key, "visible", have)
required(key, have) == Field(key).required \/ RuleSays(key, "required", have)
readonly(key, have) == Field(key).readonly \/ RuleSays(key, "readonly", have)

\* Mutation of ChainTerms: no operator binds more strongly than another.
ChainTermsFlat(args, ops) == [args |-> args, ops |-> ops]

\* Products are taken as they come; what is left is added and subtracted.
ChainTerms(args, ops) ==
  FoldLeft(LAMBDA done, i :
             IF ops[i] = "multiply"
             THEN [done EXCEPT !.args[Len(done.args)] = done.args[Len(done.args)] * args[i + 1]]
             ELSE [args |-> Append(done.args, args[i + 1]), ops |-> Append(done.ops, ops[i])],
           [args |-> <<args[1]>>, ops |-> <<>>], [i \in 1..Len(ops) |-> i])

Chain(args, ops) ==
  LET left == ChainTerms(args, ops) IN
    FoldLeft(LAMBDA sum, i : IF left.ops[i] = "subtract" THEN sum - left.args[i + 1] ELSE sum + left.args[i + 1],
             left.args[1], [i \in 1..Len(left.ops) |-> i])

\* What an expression comes to depends on the fields it names.
Expression(reads, have) == MapThenSumSet(LAMBDA key : Number(Value(have, key)), reads)

calculate(field, have) ==
  IF field.reads # {} THEN Expression(field.reads, have)
  ELSE Chain([i \in 1..Len(field.inputs) |-> Number(Value(have, field.inputs[i]))], field.ops)

fetched(field, have) ==
  LET record == Value(have, field.fetch_from) IN
    IF record = {} THEN {} ELSE {AttributeOf[Number(record)]}

-----------------------------------------------------------------------------
(* validate_values *)

\* Computed in this order before the field itself.
Deps(key) ==
  LET field == Field(key)
      conditions == [i \in 1..Len(Enabled) |->
                       IF Enabled[i].target = key
                       THEN SetToSeq({c.field : c \in Enabled[i].conditions}) ELSE <<>>] IN
    SelectSeq(<<field.link_filter, field.fetch_from>>, LAMBDA dep : dep # None)
      \o FlattenSeq(conditions) \o field.inputs

Begin(given) ==
  [key \in Keys |-> IF key \in DOMAIN given /\ ~Field(key).readonly THEN given[key] ELSE Field(key).default]

\* The field's value is refused by check.
Refused(key, value, have) ==
  \/ value = {} /\ required(key, have)
  \/ value # {} /\ TypeOf(key) \in NumberTypes /\ (Number(value) > Limit \/ Number(value) < -Limit)
  \/ /\ value # {} /\ TypeOf(key) = "Link"
     /\ \/ Number(value) \notin Records
        \/ /\ Field(key).link_filter # None
           /\ {AttributeOf[Number(value)]} # Value(have, Field(key).link_filter)

\* Mutation of NewValue: a rule makes a field read-only for the client's eyes only.
NewValueStaticReadonly(key, have) ==
  LET field == Field(key) IN
    IF field.fetch_from # None THEN fetched(field, have)
    ELSE IF field.type = "Formula" THEN {calculate(field, have)}
    ELSE IF field.readonly THEN field.default
    ELSE Value(have, key)

NewValue(key, have) ==
  LET field == Field(key) IN
    IF field.fetch_from # None THEN fetched(field, have)
    ELSE IF field.type = "Formula" THEN {calculate(field, have)}
    ELSE IF readonly(key, have) THEN field.default
    ELSE Value(have, key)

Fail(why) == phase' = "failed" /\ reason' = why /\ stack' = <<>> /\ UNCHANGED <<values, calculated>>

Call(key) == stack' = Append(stack, [key |-> key, deps |-> Deps(key)])

\* The next call compute makes.
ComputeDep ==
  /\ stack # <<>> /\ Last(stack).deps # <<>>
  /\ LET dep == Head(Last(stack).deps)
         popped == [stack EXCEPT ![Len(stack)].deps = Tail(Last(stack).deps)] IN
       \/ dep \in calculated /\ stack' = popped /\ UNCHANGED <<phase, reason, values, calculated>>
       \/ (\E i \in DOMAIN stack : stack[i].key = dep) /\ Fail("cycle")
       \/ /\ dep \notin calculated /\ \A i \in DOMAIN stack : stack[i].key # dep
          /\ stack' = Append(popped, [key |-> dep, deps |-> Deps(dep)])
          /\ UNCHANGED <<phase, reason, values, calculated>>
  /\ UNCHANGED <<schema, stored>>

\* What a call does once its dependencies are computed.
ComputeField ==
  /\ stack # <<>> /\ Last(stack).deps = <<>>
  /\ LET key == Last(stack).key
         value == NewValue(key, values) IN
       IF visible(key, values) /\ Refused(key, value, values) THEN Fail("value")
       ELSE /\ values' = IF visible(key, values) THEN (key :> value) @@ values
                         ELSE Restrict(values, DOMAIN values \ {key})
            /\ calculated' = calculated \cup {key}
            /\ stack' = Front(stack)
            /\ UNCHANGED <<phase, reason>>
  /\ UNCHANGED <<schema, stored>>

ComputeNext ==
  /\ phase = "evaluating" /\ stack = <<>> /\ calculated # Keys
  /\ Call(Order[CHOOSE i \in DOMAIN Order : /\ Order[i] \notin calculated
                                            /\ \A j \in 1..(i - 1) : Order[j] \in calculated])
  /\ UNCHANGED <<schema, phase, reason, values, calculated, stored>>

\* The comparisons between fields, when all are computed.
Comparable(key, other) == other # None /\ Value(values, key) # {} /\ Value(values, other) # {}

Conclude ==
  /\ phase = "evaluating" /\ calculated = Keys
  /\ IF \E key \in Keys :
          LET field == Field(key) IN
            \/ Comparable(key, field.not_equal) /\ Value(values, key) = Value(values, field.not_equal)
            \/ /\ Comparable(key, field.after_or_equal)
               /\ Number(Value(values, key)) < Number(Value(values, field.after_or_equal))
     THEN Fail("value")
     ELSE phase' = "stored" /\ UNCHANGED <<reason, values, stack, calculated>>
  /\ UNCHANGED <<schema, stored>>

-----------------------------------------------------------------------------
Init ==
  /\ schema \in Schemas
  /\ phase = "designed" /\ reason = "" /\ values = <<>> /\ stack = <<>> /\ calculated = {}
  /\ stored = {}

Publish ==
  /\ phase = "designed"
  /\ phase' = IF validate_schema THEN "published" ELSE "refused"
  /\ UNCHANGED <<schema, reason, values, stack, calculated, stored>>

Start(given) ==
  /\ values' = Begin(given) /\ calculated' = {} /\ stack' = <<>>
  /\ phase' = "evaluating" /\ UNCHANGED <<schema, reason>>

\* What may be sent for a field: anything sensible, and for a field that is not
\* open to the client an empty value or a wrong one.
Offered(key) ==
  {{}} \cup {{n} : n \in IF TypeOf(key) = "Link" THEN Records
                         ELSE IF TypeOf(key) = "Formula" \/ Field(key).readonly \/ Field(key).fetch_from # None
                              THEN {Limit} ELSE Numbers}

Submit ==
  /\ phase = "published"
  /\ \E left \in SUBSET {key \in Keys : Field(key).default # {}} :
       \E given \in {g \in [Keys \ left -> UNION {Offered(key) : key \in Keys}] :
                        \A key \in Keys \ left : g[key] \in Offered(key)} :
         Start(given)
  /\ UNCHANGED stored

\* Fields whose value is the client's to choose.
ClientOwned(have) ==
  {key \in Keys : /\ visible(key, have) /\ ~readonly(key, have)
                  /\ TypeOf(key) # "Formula" /\ Field(key).fetch_from = None}

\* What was stored is sent again, as an action on a task or an edit does, with
\* any value in a field that is not the client's.
SendAgain ==
  /\ phase = "stored" /\ stored = {}
  /\ stored' = {values}
  /\ \/ Start(values)
     \/ \E key \in Keys \ ClientOwned(values) : \E value \in Offered(key) : Start((key :> value) @@ values)

Next == Publish \/ Submit \/ ComputeNext \/ ComputeDep \/ ComputeField \/ Conclude \/ SendAgain

Spec == Init /\ [][Next]_vars

-----------------------------------------------------------------------------
(* Properties *)

TypeOK ==
  /\ phase \in {"designed", "published", "evaluating", "stored", "failed", "refused"}
  /\ reason \in {"", "cycle", "value"}
  /\ DOMAIN values \subseteq Keys /\ calculated \subseteq Keys
  /\ \A i \in DOMAIN stack : stack[i].key \in Keys

\* The formula's operands, by the definition of its operators: a sum of products.
Meaning(args, ops) ==
  LET n == Len(args)
      starts == {i \in 1..n : i = 1 \/ ops[i - 1] # "multiply"}
      product(i) == FoldLeft(LAMBDA a, b : a * b, 1,
                       SubSeq(args, i, CHOOSE j \in i..n : /\ \A k \in i..(j - 1) : ops[k] = "multiply"
                                                           /\ j = n \/ ops[j] # "multiply")) IN
    MapThenSumSet(LAMBDA i : IF i > 1 /\ ops[i - 1] = "subtract" THEN 0 - product(i) ELSE product(i), starts)

\* A field whose value compute leaves as it was sent.
Steady(key) ==
  /\ TypeOf(key) = "Number" /\ Field(key).fetch_from = None /\ ~Field(key).readonly
  /\ \A rule \in ToSet(Enabled) : rule.target # key

\* Expressions name no field that may be computed after them.
Foreseen == \A key \in Keys : \A read \in Field(key).reads : read \in ToSet(Field(key).inputs) \/ Steady(read)

\* A published schema is evaluated without meeting a cycle, unless a rule takes
\* part in it together with a fetched field: "Column formulas are evaluated in
\* dependency order, like top-level fields." (form_schema.py:337).
CyclesNeedFetching ==
  reason = "cycle" => \E key \in Keys : Field(key).fetch_from # None

\* What is stored agrees with itself: which fields are hidden, required or
\* read-only follows from the values stored, and so do the values of formulas,
\* fetched fields and the records a filter allows, whatever the order of fields.
ValuesAgree ==
  phase = "stored" /\ Foreseen =>
    \A key \in Keys :
      LET field == Field(key) IN
        IF ~visible(key, values) THEN key \notin DOMAIN values
        ELSE /\ required(key, values) => Value(values, key) # {}
             /\ field.fetch_from # None => Value(values, key) = fetched(field, values)
             /\ field.type = "Formula" /\ field.reads = {} =>
                  Value(values, key) =
                    {Meaning([i \in 1..Len(field.inputs) |-> Number(Value(values, field.inputs[i]))], field.ops)}
             /\ field.type = "Formula" /\ field.reads # {} => Value(values, key) = {calculate(field, values)}
             /\ field.fetch_from = None /\ field.type # "Formula" /\ readonly(key, values) =>
                  Value(values, key) = field.default
             /\ field.link_filter # None /\ Value(values, key) # {} =>
                  {AttributeOf[Number(Value(values, key))]} = Value(values, field.link_filter)

\* A published schema can be evaluated, and its evaluation leaves nothing that a
\* rule, a formula or a filter would change again (validate_schema, validate_values).
Settled == TypeOK /\ CyclesNeedFetching /\ ValuesAgree

\* What was stored is accepted again and stored unchanged, and what is sent for
\* a field that is hidden, read-only or derived has no effect: "Derived field:
\* always read from the database, never from the client." (form_schema.py:850).
ClientHasNoSay ==
  stored # {} /\ phase \in {"stored", "failed"} /\ Foreseen => phase = "stored" /\ stored = {values}
=============================================================================
