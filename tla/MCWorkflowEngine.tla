-------------------------- MODULE MCWorkflowEngine --------------------------
(* Definitions of small workflows for TLC.                                 *)
EXTENDS WorkflowEngine

CONSTANTS ann, bob, cyd, w1, w2

MCUsers == {ann, bob, cyd}

Plain(kind, users) ==
  [kind |-> kind, users |-> users, mode |-> "All", reject |-> FALSE, return |-> FALSE,
   form |-> FALSE, draft |-> FALSE, deadline |-> FALSE, reassign |-> FALSE,
   escalate |-> {}, output |-> FALSE, outcome |-> "Completed"]

Route(a, b, action) == [from |-> a, to |-> b, action |-> action]

-----------------------------------------------------------------------------
(* A purchase: form, a condition on the amount, a board that must agree     *)
(* unanimously, an inline action, and an issue step with an output.         *)

BoardStages == {"start", "form", "gate", "board", "mail", "issue", "done", "refused"}

BoardConfig ==
  [s \in BoardStages |->
     CASE s = "start" -> Plain("Start", {})
       [] s = "form" -> [Plain("User Task", {ann}) EXCEPT !.form = TRUE, !.draft = TRUE]
       [] s = "gate" -> Plain("Condition", {})
       [] s = "board" -> [Plain("Approval", {ann, bob, cyd}) EXCEPT
                            !.draft = TRUE, !.reject = TRUE, !.return = TRUE, !.deadline = TRUE,
                            !.reassign = TRUE, !.escalate = {ann}]
       [] s = "mail" -> Plain("System Action", {})
       [] s = "issue" -> [Plain("User Task", {bob, cyd}) EXCEPT !.form = TRUE,
                            !.output = TRUE, !.reject = TRUE, !.return = TRUE]
       [] s = "done" -> Plain("End", {})
       [] OTHER -> [Plain("End", {}) EXCEPT !.outcome = "Stopped"]]

BoardRoutes ==
  {Route("start", "form", "None"), Route("form", "gate", "Complete"),
   Route("gate", "board", "True"), Route("gate", "mail", "False"),
   Route("board", "mail", "Approve"), Route("board", "form", "Return"),
   Route("mail", "issue", "Success"),
   Route("issue", "done", "Complete"), Route("issue", "refused", "Reject")}

-----------------------------------------------------------------------------
(* A leave: form, one manager, then any of two officers; no deadlines.      *)

LeaveStages == {"start", "form", "manager", "office", "done", "refused"}

Approver(users, mode) ==
  [Plain("Approval", users) EXCEPT !.mode = mode, !.draft = TRUE,
                                   !.reject = TRUE, !.return = TRUE]

LeaveConfig ==
  [s \in LeaveStages |->
     CASE s = "start" -> Plain("Start", {})
       [] s = "form" -> [Plain("User Task", {ann}) EXCEPT !.form = TRUE]
       [] s = "manager" -> Approver({bob}, "All")
       [] s = "office" -> Approver({bob, cyd}, "Any")
       [] s = "done" -> Plain("End", {})
       [] OTHER -> [Plain("End", {}) EXCEPT !.outcome = "Rejected"]]

LeaveRoutes ==
  {Route("start", "form", "None"), Route("form", "manager", "Complete"),
   Route("manager", "office", "Approve"), Route("office", "done", "Approve"),
   Route("office", "refused", "Reject")}

-----------------------------------------------------------------------------
(* Two forms in a row, each of which may be returned.                       *)

FormsStages == {"start", "form", "detail", "done"}

FormsConfig ==
  [s \in FormsStages |->
     CASE s = "start" -> Plain("Start", {})
       [] s = "done" -> Plain("End", {})
       [] OTHER -> [Plain("User Task", {IF s = "form" THEN ann ELSE bob}) EXCEPT
                      !.form = TRUE, !.return = TRUE]]

FormsRoutes ==
  {Route("start", "form", "None"), Route("form", "detail", "Complete"),
   Route("detail", "done", "Complete")}
=============================================================================
