------------------------------ MODULE MCFormValues ------------------------------
EXTENDS FormValues, TLC

FormKeys == {"a", "b", "c"}

\* A field computed from, checked against or fetched from another one.
Settings(key) ==
  LET others == FormKeys \ {key} IN
    {Plain("Link"), [Plain("Number") EXCEPT !.required = TRUE, !.default = {1}], [Plain("Number") EXCEPT !.readonly = TRUE, !.default = {1}]}
      \cup {[Plain("Formula") EXCEPT !.inputs = <<x, y, y>>, !.ops = <<"subtract", "multiply">>] :
              x \in others, y \in others}
      \cup {[Plain("Formula") EXCEPT !.reads = {x}] : x \in others}
      \cup {[Plain("Link") EXCEPT !.link_filter = x] : x \in others}
      \cup {[Plain("Number") EXCEPT !.fetch_from = x] : x \in others}
      \cup {[Plain("Number") EXCEPT !.not_equal = x] : x \in others}

Condition(field, op) == [field |-> field, op |-> op, value |-> {1}]

Rule(target, action, join, conditions) ==
  [target |-> target, action |-> action, join |-> join, conditions |-> conditions, enabled |-> TRUE]

\* One rule, two rules, two conditions, a disabled rule.
FormRules ==
  {<<>>} \cup {<<Rule(t[1], "visible", "and", {Condition(t[2], "not_empty")})>> :
                 t \in {<<"a", "b">>, <<"a", "c">>, <<"b", "c">>, <<"c", "a">>}}
         \cup {<<Rule(t[1], "readonly", "and", {Condition(t[2], "eq")})>> :
                 t \in {<<"a", "b">>, <<"b", "c">>, <<"c", "b">>}}
         \cup {<<Rule("b", "required", "or", {Condition("a", "empty"), Condition("c", "eq")})>>,
               <<Rule("a", "visible", "and", {Condition("b", "empty"), Condition("c", "eq")}),
                 [Rule("b", "visible", "and", {Condition("a", "eq")}) EXCEPT !.enabled = FALSE]>>,
               <<Rule("c", "visible", "and", {Condition("b", "eq")}), Rule("b", "readonly", "and", {Condition("a", "eq")})>>}

\* One field is a plain number, or all are dates.
FormFields ==
  LET designs == UNION {Settings(key) : key \in FormKeys}
      pairs(key) == {f \in [FormKeys \ {key} -> designs] : \A k \in DOMAIN f : f[k] \in Settings(k)}
      dates == {Plain("Date"), [Plain("Date") EXCEPT !.after_or_equal = "a"], [Plain("Date") EXCEPT !.after_or_equal = "b"]} IN
    UNION {{(key :> Plain("Number")) @@ f : f \in pairs(key)} : key \in FormKeys} \cup [FormKeys -> dates]

FormSchemas == [fields : FormFields, rules : FormRules]
Attributes == <<2, 1>>
FormOrder == <<"a", "b", "c">>
=============================================================================
