-------------------------------- MODULE Designer --------------------------------
(* The workflow designer: the operations that build the graph of stages and    *)
(* routes, the check that precedes activation, the summary shown beside it,    *)
(* and the routing rules of the runtime the graph is built for.                *)
EXTENDS Naturals, Sequences, FiniteSets

CONSTANTS
  Kinds,          \* the stage types the designer adds
  Labels,         \* what a route is named by hand: [text, persian]
  MaxStages, MaxRoutes

VARIABLES
  stages,         \* [kind, complete]; the first one is the start
  routes,         \* [from, to, label, action, result]: label and condition_json of a transition
  status          \* of the definition

vars == <<stages, routes, status>>

Nodes == DOMAIN stages
Kind(s) == stages[s].kind
From(s) == {r \in routes : r.from = s}

NoLabel == [text |-> "", persian |-> FALSE]
Continue == [text |-> "Continue", persian |-> FALSE]

\* ROUTE_ACTIONS: the decisions of a stage, the main one first.
RouteActions(kind) ==
  CASE kind = "Approval"      -> <<"Approve", "Reject", "Return">>
    [] kind = "User Task"     -> <<"Complete", "Reject", "Return">>
    [] kind = "System Action" -> <<"Success", "Error">>
    [] OTHER                  -> <<>>

Main(kind) == RouteActions(kind)[1]
Allowed(kind) == {RouteActions(kind)[i] : i \in DOMAIN RouteActions(kind)}
Decided(kind) == kind \in {"Approval", "User Task", "System Action"}

\* A Persian label that stands for a decision is that decision.
Canonical(label) == label.text

\* The decision a stored route is for.
ActionOf(r) == IF r.action # "" THEN r.action ELSE Canonical(r.label)

Route(from, to, label, action, result) ==
  [from |-> from, to |-> to, label |-> label, action |-> action, result |-> result]

-----------------------------------------------------------------------------
(* activation_requirements *)

\* _validate_saved_stage
StageValid(s) == stages[s].complete

\* _validate_saved_routes
RoutesValid(s) ==
  LET actions == {ActionOf(r) : r \in From(s)} IN
    CASE Kind(s) = "End"       -> From(s) = {}
      [] Kind(s) = "Condition" -> Cardinality(From(s)) = 2 /\ {r.result : r \in From(s)} = {"true", "false"}
      [] Kind(s) = "Start"     -> Cardinality(From(s)) = 1
      [] Decided(Kind(s))      -> \/ Cardinality(From(s)) = 1 /\ actions = {""}
                                  \/ /\ Cardinality(actions) = Cardinality(From(s))
                                     /\ Main(Kind(s)) \in actions /\ actions \subseteq Allowed(Kind(s))
      [] OTHER                 -> TRUE

\* The least set that holds some stages and is closed under the steps given.
Closure(some, Steps(_)) ==
  LET grow[n \in Nat] == IF n = 0 THEN some ELSE grow[n - 1] \cup UNION {Steps(s) : s \in grow[n - 1]} IN
    grow[Len(stages)]

Reached == Closure({1}, LAMBDA s : {r.to : r \in From(s)})
CanFinish == Closure({s \in Nodes : Kind(s) = "End"}, LAMBDA s : {r.from : r \in {q \in routes : q.to = s}})

\* Mutation of Connected: stages nobody comes to, or leaves, are no concern.
ConnectedAnyhow == TRUE

Connected == Reached = Nodes /\ CanFinish = Nodes

ActivationReady ==
  /\ \E s \in Nodes : Kind(s) = "End"
  /\ \A s \in Nodes : StageValid(s) /\ RoutesValid(s) /\ Kind(s) # "Wait"
  /\ Connected

-----------------------------------------------------------------------------
(* The routing of the runtime *)

\* _next_stage: only forward decisions fall back to a single route.
NextStage(s, action) ==
  LET named == {r \in From(s) : ActionOf(r) = action} IN
    IF named # {} THEN named
    ELSE IF Cardinality(From(s)) = 1 /\ action \in {"Complete", "Approve"} THEN From(s) ELSE {}

\* _system_route: a route without a condition counts as the success.
SystemRoute(s, outcome) ==
  {r \in From(s) : r.action = outcome \/ (outcome = "Success" /\ r.action = "")}

\* The routes one way out of a stage has; without any, the runtime either
\* stops ("Workflow has no next stage") or has an answer of its own.
Way(s, decision) ==
  CASE Kind(s) = "System Action" -> SystemRoute(s, decision)
    [] Kind(s) = "Condition"     -> {r \in From(s) : r.result = decision}
    [] OTHER                     -> NextStage(s, decision)

\* The ways out of a stage the runtime cannot do without.
Needed(s) ==
  CASE Kind(s) = "Start"     -> {"Complete"}
    [] Kind(s) = "Condition" -> {"true", "false"}
    [] Decided(Kind(s))      -> {Main(Kind(s))}
    [] OTHER                 -> {}

Ways(s) == Needed(s) \cup Allowed(Kind(s))

\* Wherever a request gets to it is told where to go, by one route only, and an
\* end can still be reached.
Runs ==
  LET steps(s) == UNION {{r.to : r \in Way(s, d)} : d \in Ways(s)}
      visited == Closure({1}, steps) IN
    \A s \in visited :
      /\ Kind(s) # "Wait"
      /\ \A d \in Needed(s) : Way(s, d) # {}
      /\ \A d \in Ways(s) : Cardinality(Way(s, d)) <= 1
      /\ \E e \in Closure({s}, steps) : Kind(e) = "End"

-----------------------------------------------------------------------------
(* design_details_summary *)

\* Mutation of RoutesComplete: the summary looks at each stage by itself.
RoutesCompleteAlone == \A s \in Nodes : RoutesValid(s)

StagesComplete == (\E s \in Nodes : Kind(s) = "End") /\ \A s \in Nodes : StageValid(s) /\ Kind(s) # "Wait"
RoutesComplete == (\A s \in Nodes : RoutesValid(s)) /\ Connected

-----------------------------------------------------------------------------
(* The operations of the designer *)

NewStage(kind) == [kind |-> kind, complete |-> kind = "End"]

Room(n) == Len(stages) < MaxStages /\ Cardinality(routes) + n <= MaxRoutes

add_workflow_stage(kind, after) ==
  /\ Room(1) /\ Kind(after) # "End" /\ From(after) = {}
  /\ stages' = Append(stages, NewStage(kind))
  /\ routes' = routes \cup {Route(after, Len(stages) + 1, NoLabel, "", "")}
  /\ UNCHANGED status

connect_workflow_stages(from, to, label) ==
  /\ Cardinality(routes) < MaxRoutes
  /\ from # to /\ Kind(from) # "End"
  /\ \A r \in From(from) : r.label # label
  /\ routes' = routes \cup {Route(from, to, label, Canonical(label), "")}
  /\ UNCHANGED <<stages, status>>

insert_workflow_stage(edge, kind) ==
  LET new == Len(stages) + 1 IN
    /\ Room(1)
    /\ stages' = Append(stages, NewStage(kind))
    /\ routes' = (routes \ {edge}) \cup {[edge EXCEPT !.to = new], Route(new, edge.to, Continue, "", "")}
    /\ UNCHANGED status

add_condition_branch(condition, kind, result) ==
  /\ Room(1) /\ Kind(condition) = "Condition"
  /\ \A r \in From(condition) : r.result # result
  /\ stages' = Append(stages, NewStage(kind))
  /\ routes' = routes \cup {Route(condition, Len(stages) + 1, [text |-> result, persian |-> FALSE], "", result)}
  /\ UNCHANGED status

\* save_stage_settings or, of the start, save_start_settings.
save_settings(s) ==
  /\ ~stages[s].complete
  /\ stages' = [stages EXCEPT ![s].complete = TRUE]
  /\ UNCHANGED <<routes, status>>

\* The routes saving a target for a decision replaces.
Replaced(s, action) ==
  {r \in From(s) : ActionOf(r) = action \/ (action = Main(Kind(s)) /\ ActionOf(r) = "")}

\* target is the set of the stage chosen, or empty to remove the route.
save_stage_routes(s, action, target) ==
  LET kept == routes \ Replaced(s, action) IN
    /\ Decided(Kind(s)) /\ action \in Allowed(Kind(s))
    /\ \A t \in target : t # s /\ Kind(t) # "Start"
    /\ Kind(s) = "System Action" /\ action = "Error" => \A t \in target : Kind(t) = "User Task"
    /\ routes' = kept \cup {Route(s, t, [text |-> action, persian |-> TRUE], action, "") : t \in target}
    /\ Cardinality(routes') <= MaxRoutes
    /\ UNCHANGED <<stages, status>>

set_workflow_status(new) ==
  /\ new # status
  /\ new = "Active" => ActivationReady
  /\ status' = new
  /\ UNCHANGED <<stages, routes>>

-----------------------------------------------------------------------------
Init ==
  /\ stages = <<[kind |-> "Start", complete |-> FALSE]>>
  /\ routes = {} /\ status = "Inactive"

Next ==
  \/ \E kind \in Kinds :
       \/ \E s \in Nodes : add_workflow_stage(kind, s)
       \/ \E edge \in routes : insert_workflow_stage(edge, kind)
       \/ \E s \in Nodes, result \in {"true", "false"} : add_condition_branch(s, kind, result)
  \/ \E s, t \in Nodes, label \in Labels : connect_workflow_stages(s, t, label)
  \/ \E s \in Nodes :
       \/ save_settings(s)
       \/ \E action \in {"Complete", "Approve", "Success", "Reject", "Error"} :
            \E target \in {{}} \cup {{t} : t \in Nodes} : save_stage_routes(s, action, target)
  \/ \E new \in {"Active", "Inactive"} : set_workflow_status(new)

Spec == Init /\ [][Next]_vars

-----------------------------------------------------------------------------
(* Properties *)

TypeOK ==
  /\ \A s \in Nodes : Kind(s) \in Kinds \cup {"Start"} /\ stages[s].complete \in BOOLEAN
  /\ \A r \in routes : r.from \in Nodes /\ r.to \in Nodes
  /\ status \in {"Active", "Inactive"}

\* A workflow that is activated runs: whatever is decided, a request in it is
\* told where to go by exactly one route and can still reach an end.
ActivatedRuns == status' = "Active" /\ status # "Active" => Runs'

\* The summary shows "the same checks" (workflow_contract.py:106): stages and
\* routes are reported complete exactly when the workflow could be activated.
SummaryAgrees == ActivationReady <=> (StagesComplete /\ RoutesComplete)

\* A designer is told the truth of a workflow, and what is activated runs
\* (set_workflow_status, design_details_summary).
WorkflowsRun == [][vars' # vars => (TypeOK /\ SummaryAgrees)' /\ ActivatedRuns]_vars
=============================================================================
