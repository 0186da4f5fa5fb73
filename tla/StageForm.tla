------------------------------- MODULE StageForm -------------------------------
(* The form of a stage: what the designer sends is normalised and saved,      *)
(* checked once more when the workflow is activated, filled in by the handler *)
(* of a task against the values of the request, and may be sent again.        *)
EXTENDS Integers, Sequences

CONSTANTS
  Order,          \* the keys of the fields
  Configs,        \* what a designer may send for the fields: a setting for each key
  Requests,       \* what requests hold: [amount, rows], amount empty or one number
  Amounts,        \* the numbers and texts a handler enters
  Options         \* the texts a choice offers

VARIABLES
  phase,          \* "designed", "saved", "active", "completed" or "refused"
  fields,         \* the settings, as sent or as saved
  request,        \* the values of the request
  response,       \* what was sent; an empty value is {}
  result          \* what was stored

vars == <<phase, fields, request, response, result>>

Keys == {Order[i] : i \in DOMAIN Order}
Field(key) == fields[key]

\* A field that carries no setting; given_required is the handler's column of a table.
Plain(type) ==
  [type |-> type, required |-> FALSE, options |-> {}, visible_when |-> {}, min |-> {}, max_from_request |-> FALSE,
   reason_required |-> FALSE, reason_field |-> "", rows_from_request |-> FALSE, given_required |-> FALSE]

\* Values as they are sent: a number, the same number as text, text, and rows.
Number(n) == <<"number", n>>
Text(n) == <<"text", n>>
Rows(rows) == <<"rows", rows>>
Blank == Text(0)

The(value) == CHOOSE v \in value : TRUE

-----------------------------------------------------------------------------
(* _normalize_form_fields *)

\* _field_extensions, and what a type needs.
SettingsValid(field) ==
  /\ field.min # {} \/ field.max_from_request \/ field.reason_required \/ field.reason_field # "" => field.type = "Number"
  /\ field.reason_required => field.reason_field # ""
  /\ field.rows_from_request => field.type = "Table"
  /\ field.type = "Choice" => field.options # {}

\* Fields refer to other fields of the same form.
ReferencesValid(form) ==
  \A key \in Keys :
    /\ \A rule \in form[key].visible_when : rule.field \in Keys \ {key}
    /\ form[key].reason_field # "" => form[key].reason_field \in Keys /\ form[form[key].reason_field].type = "Text"

\* Mutation of Normalized: only the settings that check a value by themselves are kept.
NormalizedOwn(field) == [field EXCEPT !.options = IF field.type = "Choice" THEN @ ELSE {}, !.reason_field = ""]

\* Options are kept for a choice only.
Normalized(field) == [field EXCEPT !.options = IF field.type = "Choice" THEN @ ELSE {}]

FormValid(form) == (\A key \in Keys : SettingsValid(form[key])) /\ ReferencesValid(form)

-----------------------------------------------------------------------------
(* normalize_form_response *)

\* A hidden field counts as unset.
RuleHolds(field, values, shown) == \A rule \in field.visible_when : rule.field \in shown /\ values[rule.field] = {rule.equals}

\* Mutation of VisibleFields: each rule is looked at once.
VisibleFieldsOnce(raw) == {key \in Keys : RuleHolds(Field(key), raw, Keys)}

\* _visibility: until nothing changes.
VisibleFields(raw) ==
  LET shown[n \in Nat] ==
        IF n = 0 THEN Keys ELSE LET before == shown[n - 1] IN {key \in Keys : RuleHolds(Field(key), raw, before)} IN
    shown[Len(Order) + 1]

\* The number a value stands for.
NumberOf(value) == {Number(v[2]) : v \in {w \in value : w[1] \in {"number", "text"} /\ w # Blank}}

\* A row of a table: what was asked for, and what the handler gives.
RowAccepted(field, row) == field.given_required => row.given # {}

\* The value of a visible field is accepted: Accepted; it is stored as Stored.
Accepted(field, value) ==
  /\ field.required => value # {} /\ (field.type = "Text" => value # {Blank})
  /\ value # {} =>
       CASE field.type = "Number" -> NumberOf(value) # {}
         [] field.type = "Choice" -> The(value) \in field.options
         [] field.type = "Text"   -> The(value)[1] = "text"
         [] field.type = "Table"  -> /\ The(value)[1] = "rows"
                                     /\ \A i \in DOMAIN The(value)[2] : RowAccepted(field, The(value)[2][i])

Stored(field, value) ==
  CASE field.type = "Number" -> NumberOf(value)
    [] field.type = "Text"   -> value \ {Blank}
    [] OTHER                 -> value

normalize_form_response(raw) ==
  LET shown == VisibleFields(raw) IN
    {r \in {[key \in Keys |-> IF key \in shown THEN Stored(Field(key), raw[key]) ELSE {}]} :
       \A key \in shown : Accepted(Field(key), raw[key])}

-----------------------------------------------------------------------------
(* validate_request_bounds *)

Seeded(given) == {Rows([i \in DOMAIN request.rows |-> [asked |-> {request.rows[i]}, given |-> given]])}

\* project_request_rows: the rows asked for are there, and are not changed.
Projected(values) ==
  [key \in Keys |-> IF Field(key).rows_from_request /\ values[key] = {} THEN Seeded({}) ELSE values[key]]

RowsKept(value) ==
  LET rows == The(value)[2] IN
    Len(rows) = Len(request.rows) /\ \A i \in DOMAIN rows : rows[i].asked = {request.rows[i]}

\* Mutation of WithinRows: what is given is not compared with what was asked for.
WithinRowsAny(value) == TRUE

\* max_from_row of the handler's column.
WithinRows(value) ==
  \A i \in DOMAIN The(value)[2] : \A given \in The(value)[2][i].given : given <= request.rows[i]

WithinBounds(field, values, value) ==
  LET n == The(value)[2] IN
    /\ \A m \in field.min : n > m
    /\ field.max_from_request => request.amount # {} /\ n <= The(request.amount)
    /\ field.reason_required =>
         request.amount # {} /\ (n < The(request.amount) => values[field.reason_field] # {})

BoundsHold(values) ==
  \A key \in Keys :
    /\ Field(key).type = "Number" /\ values[key] # {} => WithinBounds(Field(key), values, values[key])
    /\ Field(key).rows_from_request => RowsKept(values[key]) /\ WithinRows(values[key])

\* What completing the task with a response stores; {} if it is refused.
Completed(raw) == {r \in {Projected(n) : n \in normalize_form_response(raw)} : BoundsHold(r)}

-----------------------------------------------------------------------------
(* What is done with the form *)

Init ==
  /\ phase = "designed" /\ fields \in Configs /\ request \in Requests
  /\ response = [key \in Keys |-> {}] /\ result = {}

save_stage_settings ==
  /\ phase = "designed"
  /\ IF FormValid(fields)
     THEN phase' = "saved" /\ fields' = [key \in Keys |-> Normalized(Field(key))]
     ELSE phase' = "refused" /\ UNCHANGED fields
  /\ UNCHANGED <<request, response, result>>

\* Activation normalises once more what was saved, but does not write it.
activate ==
  /\ phase = "saved"
  /\ phase' = IF FormValid(fields) THEN "active" ELSE "refused"
  /\ UNCHANGED <<fields, request, response, result>>

\* What a handler may send for a field.
Sent(field) ==
  {{}} \cup
    CASE field.type = "Number" -> {{v} : v \in Amounts}
      [] field.type = "Choice" -> {{v} : v \in Options}
      [] field.type = "Text"   -> {{Blank}, {Text(1)}}
      [] field.type = "Table"  ->
           {{Rows(rows)} : rows \in UNION {[1..n -> [asked : {{}, {2}}, given : {{}, {2}, {3}}]] : n \in 0..Len(request.rows)}}

complete_workflow_task(raw) ==
  /\ phase \in {"active", "completed"}
  /\ response' = raw /\ result' = Completed(raw)
  /\ phase' = IF result' = {} THEN "refused" ELSE "completed"
  /\ UNCHANGED <<fields, request>>

Fill ==
  /\ phase = "active"
  /\ \E raw \in [Keys -> UNION {Sent(Field(key)) : key \in Keys}] :
       (\A key \in Keys : raw[key] \in Sent(Field(key))) /\ complete_workflow_task(raw)

\* A task that has come back is completed with what was stored.
SendAgain == \E stored \in result : response # stored /\ complete_workflow_task(stored)

Next == save_stage_settings \/ activate \/ Fill \/ SendAgain

Spec == Init /\ [][Next]_vars

-----------------------------------------------------------------------------
(* Properties *)

TypeOK ==
  /\ phase \in {"designed", "saved", "active", "completed", "refused"}
  /\ DOMAIN fields = Keys /\ DOMAIN response = Keys
  /\ \A stored \in result : DOMAIN stored = Keys

\* A stage form that was saved is accepted, as it is, by the activation of the
\* workflow: the check is that of the saving, and what it keeps passes it.
SavedStands == phase = "saved" /\ phase' # "saved" => phase' = "active"

\* Numbers are sent as numbers: rules compare what is sent with what they hold.
SentAsStored == \A key \in Keys : Field(key).type = "Number" => \A v \in response[key] : v[1] = "number"

\* A response that was stored agrees with itself and with the request: a field
\* its rules hide is empty ("a hidden field counts as unset",
\* workflow_response.py:90), a field they show is filled in if it has to be,
\* numbers keep within their bounds, a reduction has its reason, and the rows
\* asked for stand ("Seed and protect request-derived table rows while
\* retaining handler values.", workflow_step_validation.py:30).
ResponseSettled ==
  phase = "completed" /\ SentAsStored =>
    \A values \in result : \A key \in Keys :
      LET field == Field(key)
          value == values[key] IN
        /\ ~RuleHolds(field, values, Keys) => value = {} \/ (field.rows_from_request /\ value = Seeded({}))
        /\ RuleHolds(field, values, Keys) /\ field.required => value # {}
        /\ field.type = "Number" => \A v \in value :
             /\ \A m \in field.min : v[2] > m
             /\ field.max_from_request => \A amount \in request.amount : v[2] <= amount
             /\ field.reason_required /\ (\E amount \in request.amount : v[2] < amount) =>
                  \E reason \in values[field.reason_field] : reason # Blank
        /\ field.rows_from_request => \A v \in value : \A i \in DOMAIN request.rows :
             v[2][i].asked = {request.rows[i]} /\ \A given \in v[2][i].given : given <= request.rows[i]

\* What was stored is accepted when it is sent again, and stored unchanged,
\* unless a table was left out whose rows the handler has to fill in.
ResentStands ==
  phase = "completed" /\ SentAsStored /\ (\A key \in Keys : ~Field(key).given_required) =>
    phase' = "completed" /\ result' = result

\* What one step of the form's life has accepted the next one does not refuse
\* or change, and what it accepts agrees with itself (_normalize_form_fields,
\* normalize_form_response).
AcceptedStands == [][vars' # vars => (TypeOK /\ ResponseSettled)' /\ SavedStands /\ ResentStands]_vars
=============================================================================
