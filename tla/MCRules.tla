-------------------------------- MODULE MCRules --------------------------------
(* Instances of components that share no rows: a behaviour is about one.      *)
EXTENDS MCFormValues

CONSTANTS
  Components,
  StageConfigs, StageRequests     \* of StageForm

VARIABLES
  component,                                   \* what the behaviour is about
  requests, applications, entries,             \* Leave
  stages, routes, status,                      \* Designer
  progress, fields, request, response, result  \* StageForm

leaveVars == <<requests, applications, entries>>

designerVars == <<stages, routes, status>>

stageFormVars == <<progress, fields, request, response, result>>

formVars == <<schema, phase, reason, values, stack, calculated, stored>>

\* Two days, the second a holiday, of two slots each.
L == INSTANCE Leave WITH
       Days <- {1, 2}, Holidays <- {2}, Times <- {<<0, 1>>, <<0, 2>>, <<2, 3>>},
       WorkingSlots <- 2, Allocation <- 3, MaxRequests <- 2, MaxApplications <- 1

\* A decision named by hand, in English; saving a decision names it in Persian.
D == INSTANCE Designer WITH
       Kinds <- {"Approval", "Condition", "System Action", "End"},
       Labels <- {[text |-> "Approve", persian |-> FALSE]},
       MaxStages <- 4, MaxRoutes <- 3

StageTexts == {<<"text", 1>>, <<"text", 2>>}

S == INSTANCE StageForm WITH
       Order <- <<"a", "b", "c">>, Configs <- StageConfigs, Requests <- StageRequests, phase <- progress,
       Amounts <- {<<"number", 1>>, <<"number", 2>>, <<"number", 3>>, <<"text", 2>>}, Options <- StageTexts

Shown(key, value) == {[field |-> key, equals |-> value]}

\* A choice, a number bounded by the request, and a text or a table; what
\* shows one of them may be any other, in a circle too.
StageFields ==
  LET rulesA == {{}, Shown("b", S!Number(1)), Shown("c", S!Text(1))}
      rulesB == {{}, Shown("a", S!Text(1)), Shown("c", S!Text(1))}
      rulesC == {{}, Shown("a", S!Text(1)), Shown("b", S!Number(3))}
      choices == {[S!Plain("Choice") EXCEPT !.visible_when = rule, !.options = o, !.required = TRUE] :
                    o \in {{}, StageTexts}, rule \in rulesA}
      numbers == {[S!Plain("Number") EXCEPT !.visible_when = rule, !.required = TRUE, !.min = min,
                     !.max_from_request = bound, !.reason_required = bound, !.reason_field = key] :
                    rule \in rulesB, min \in {{}, {1}}, bound \in BOOLEAN, key \in {"", "c"}}
      texts == {[S!Plain("Text") EXCEPT !.visible_when = rule, !.required = r, !.options = {<<"text", 1>>}] :
                  rule \in rulesC, r \in BOOLEAN}
      tables == {[S!Plain("Table") EXCEPT !.visible_when = rule, !.rows_from_request = TRUE, !.given_required = r] :
                   rule \in rulesC, r \in BOOLEAN} IN
    {("a" :> t[1]) @@ ("b" :> t[2]) @@ ("c" :> t[3]) : t \in choices \X numbers \X (texts \cup tables)}

StageAmounts == {[amount |-> amount, rows |-> <<2>>] : amount \in {{}, {2}}}

\* What a component that the behaviour is not about starts with.
AnySchema == CHOOSE s \in Schemas : TRUE
AnyFields == CHOOSE f \in StageConfigs : TRUE
AnyRequest == CHOOSE r \in StageRequests : TRUE

RulesInit ==
  /\ component \in Components
  /\ component = "form" \/ schema = AnySchema
  /\ component = "stage" \/ (fields = AnyFields /\ request = AnyRequest)
  /\ Init /\ L!Init /\ D!Init /\ S!Init

FormStep == component = "form" /\ Next /\ UNCHANGED <<component, leaveVars, designerVars, stageFormVars>>

LeaveStep == component = "leave" /\ L!Next /\ UNCHANGED <<component, formVars, designerVars, stageFormVars>>

DesignerStep == component = "designer" /\ D!Next /\ UNCHANGED <<component, formVars, leaveVars, stageFormVars>>

StageStep == component = "stage" /\ S!Next /\ UNCHANGED <<component, formVars, leaveVars, designerVars>>

RulesNext == FormStep \/ LeaveStep \/ DesignerStep \/ StageStep

RulesSpec == RulesInit /\ [][RulesNext]_<<component, formVars, leaveVars, designerVars, stageFormVars>>

-----------------------------------------------------------------------------
(* The properties of the components.                                       *)

\* Leave is neither booked twice nor beyond what is left, whichever of its
\* three ways it is asked for (validate_leave_application, evaluate_leave).
LeaveKept == L!LeaveKept

\* "the total of the day must stay within the daily working hours"
\* (leave_hours.py:116-117): the hourly leave booked on a day.
DayLimitKept == L!DayLimitKept

\* A workflow that is activated runs, and the summary beside it tells the truth
\* (set_workflow_status, design_details_summary).
WorkflowsRun == D!WorkflowsRun

\* A stage form that was saved can be activated; what is filled in is settled,
\* and stands when it is sent again (_normalize_form_fields, normalize_form_response).
AcceptedStands == S!AcceptedStands

=============================================================================
