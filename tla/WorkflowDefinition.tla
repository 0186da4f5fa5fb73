------------------------- MODULE WorkflowDefinition -------------------------
(***************************************************************************)
(* A published workflow definition: the stages of the graph, their         *)
(* configuration (config_json of ASOUD Workflow Stage) and the routes      *)
(* between them (ASOUD Workflow Transition), with the pure functions the   *)
(* runtime uses to walk it (api/v1/workflow_runtime.py).                   *)
(***************************************************************************)
EXTENDS Naturals, FiniteSets

CONSTANTS
  Users,       \* enabled ERPNext users
  Initiator,   \* started_by: the user whose request the instance runs for
  Stages,      \* names of the stages of one definition
  Config,      \* the stage_type and config_json of each stage
  Routes       \* [from, to, action]: action is the one condition_json names

Kinds == {"Start", "User Task", "Approval", "Condition", "System Action", "End"}

Decisions == {"Complete", "Approve", "Reject", "Return"}

RouteActions == Decisions \cup {"Success", "Error", "True", "False", "None"}

InstanceStatuses == {"Running", "Completed", "Rejected", "Cancelled", "Failed"}

\* What normalize_stage_config stores; "users" is the target already resolved.
StageConfig ==
  [kind : Kinds, users : SUBSET Users, mode : {"Any", "All"},
   reject : BOOLEAN, return : BOOLEAN, form : BOOLEAN, draft : BOOLEAN,
   deadline : BOOLEAN, reassign : BOOLEAN, escalate : SUBSET Users,
   output : BOOLEAN,
   outcome : {"Completed", "Rejected", "Cancelled", "Stopped"}]

From(s) == {r \in Routes : r.from = s}

ASSUME DefinitionTypes ==
  /\ Initiator \in Users
  /\ Config \in [Stages -> StageConfig]
  /\ \A s \in Stages : IF Config[s].kind = "Approval" THEN Config[s].draft
                       ELSE Config[s].mode = "All"
  /\ Routes \subseteq [from : Stages, to : Stages, action : RouteActions]

\* What activation_requirements demands of the graph before it is Active.
Publishable ==
  /\ \E s \in Stages : /\ Config[s].kind = "Start"
                       /\ Cardinality(From(s)) = 1
                       /\ \A x \in Stages : Config[x].kind = "Start" => x = s
  /\ \E s \in Stages : Config[s].kind = "End"
  /\ \A r1, r2 \in Routes :
       (r1.from = r2.from /\ r1.action = r2.action) => r1 = r2
  /\ \A s \in Stages :
       LET named == {r.action : r \in From(s)} IN
       CASE Config[s].kind = "End" -> named = {}
         [] Config[s].kind = "Condition" -> named = {"True", "False"}
         [] Config[s].kind = "User Task" ->
              "Complete" \in named \/ named = {"None"}
         [] Config[s].kind = "Approval" ->
              "Approve" \in named \/ named = {"None"}
         [] Config[s].kind = "System Action" ->
              "Success" \in named \/ named = {"None"}
         [] OTHER -> TRUE

ASSUME DefinitionReady == Publishable

StartStage == CHOOSE s \in Stages : Config[s].kind = "Start"

Manual(s) == Config[s].kind \in {"User Task", "Approval"}

-----------------------------------------------------------------------------
(* Routing.  A route is a set of at most one target stage.                 *)

Targets(rs) == {r.to : r \in rs}

\* _next_stage: the named route; only Complete and Approve (and the start,
\* which passes no action) fall back to a single default route.
NextStage(s, action) ==
  LET named == {r \in From(s) : r.action = action} IN
  IF named # {} THEN Targets(named)
  ELSE IF action \in {"Complete", "Approve"} /\ Cardinality(From(s)) = 1
       THEN Targets(From(s))
       ELSE {}

\* _system_route: an unlabelled route counts as Success.
SystemRoute(s, outcome) ==
  Targets({r \in From(s) : \/ r.action = outcome
                           \/ outcome = "Success" /\ r.action = "None"})

-----------------------------------------------------------------------------
(* Stages the engine passes without a person.                              *)

\* One step of the recursion of _activate_stage: both results of a condition
\* and both outcomes of an inline action (_run_system_action) are possible.
PassOn(s) ==
  CASE Config[s].kind = "Condition" -> Targets(From(s))
    [] Config[s].kind = "System Action" ->
         SystemRoute(s, "Success") \cup SystemRoute(s, "Error")
    [] OTHER -> {}

\* Every stage that _activate_stage(s) may visit in one call: the least set
\* that holds s and is closed under PassOn.
Visited(s) ==
  {x \in Stages : \A P \in SUBSET Stages :
     (s \in P /\ \A y \in P : PassOn(y) \subseteq P) => x \in P}

\* Where _activate_stage may stop, and the status it stores there: it leaves
\* the status alone at a stage that waits for people, stores the outcome at an
\* End, and "Failed" at an action that fails and has no Error route.
Landings ==
  [s \in Stages |->
       {[stage |-> x, status |-> "Unchanged"] : x \in {y \in Visited(s) : Manual(y)}}
  \cup {[stage |-> x, status |-> IF Config[x].outcome = "Stopped"
                                 THEN "Cancelled" ELSE Config[x].outcome] :
            x \in {y \in Visited(s) : Config[y].kind = "End"}}
  \cup {[stage |-> x, status |-> "Failed"] :
            x \in {y \in Visited(s) : /\ Config[y].kind = "System Action"
                                      /\ SystemRoute(y, "Error") = {}}}]

-----------------------------------------------------------------------------
(* Who receives the task of a stage.                                       *)

\* The assignees of a stage: an approval avoids the initiator when anybody
\* else, or an escalation user, can take it.
Assignees(s) ==
  LET users  == Config[s].users
      others == users \ {Initiator}
      higher == Config[s].escalate \ {Initiator}
  IN IF Config[s].kind = "Approval" /\ Initiator \in users
     THEN IF others # {} THEN others
          ELSE IF higher # {} THEN higher ELSE users
     ELSE users

\* form_stage_name: the user task right after Start.
FormStage ==
  CHOOSE s \in NextStage(StartStage, "Complete") : TRUE

\* complete_workflow_task: the actions a stage and its configuration admit.
MayDecide(s, user, action) ==
  /\ action \in (IF Config[s].kind = "Approval" THEN {"Approve", "Reject", "Return"}
                                                ELSE {"Complete", "Reject", "Return"})
  /\ ~(Config[s].kind = "Approval" /\ user = Initiator)
  /\ action = "Reject" => Config[s].reject
  /\ action = "Return" => Config[s].return
=============================================================================
