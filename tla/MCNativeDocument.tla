--------------------------- MODULE MCNativeDocument ---------------------------
(* One delivery, whose calls overlap; requests of several kinds, whose      *)
(* calls are served one after another; and the user action that may come    *)
(* before either.  A behaviour is about one of them.                        *)
EXTENDS NativeDocument, TLC

CONSTANTS r1, r2, r3, r4, w1, w2, u1, u2, boss, NoAction

VARIABLES
  component,                              \* what the behaviour is about
  rows, serving,                          \* of the requests of several kinds
  rule, instance, tasks, members, acting  \* UserAction

actionVars == <<rule, instance, tasks, members, acting>>

nativeVars == <<component, db, txn, rows, serving, actionVars>>

Delivery == [r \in Requests |-> "Movement"]

\* Leave of the same days twice, a shift, a purchase.
Mixed == (r1 :> "Leave") @@ (r2 :> "Leave") @@ (r3 :> "Shift") @@ (r4 :> "Template")

S == INSTANCE NativeDocument WITH
       db <- rows, txn <- serving, Requests <- {r1, r2, r3, r4}, Kind <- Mixed, Workers <- {w1}, MaxDocs <- 4,
       DeskOps <- {"cancel"}

\* A queue, a person who may pass it on, a person with a supervisor.
Queue  == [delivery |-> "Shared", person |-> u1, allow_reassign |-> FALSE, supervised |-> TRUE]
Passed == [delivery |-> "Direct", person |-> u1, allow_reassign |-> TRUE, supervised |-> FALSE]
Late   == [delivery |-> "Direct", person |-> u1, allow_reassign |-> FALSE, supervised |-> TRUE]

A == INSTANCE UserAction WITH
       txn <- acting, Users <- {u1, u2}, Supervisor <- boss, Rules <- {Queue, Passed, Late}, Movable <- {u2},
       MaxVisits <- [r \in {Queue, Passed, Late} |-> IF r = Late THEN 2 ELSE 1], NoCall <- NoAction

NativeInit ==
  /\ component \in {"delivery", "mixed", "action"} /\ Init /\ S!Init /\ A!Init
  /\ component = "action" \/ rule = Queue

NativeNext ==
  \/ component = "delivery" /\ Next /\ UNCHANGED <<component, rows, serving, actionVars>>
  \/ component = "mixed" /\ S!Next /\ UNCHANGED <<component, db, txn, actionVars>>
  \/ component = "action" /\ A!Next /\ UNCHANGED <<component, db, txn, rows, serving>>

NativeSpec == NativeInit /\ [][NativeNext]_nativeVars

-----------------------------------------------------------------------------
(* Properties.                                                             *)

\* However calls overlap or are repeated, the answer of a requester stands; of
\* requests served one after another, what is voided is out of force and stays
\* so if it was blocked, none is left without a result, and no two book the
\* same (confirm, void, reissue, retry, period).
DocumentsHold == AnswerStands /\ S!ServedInTurn

\* An action is done once, by who has it, however claims, transfers, drafts,
\* deadlines and a withdrawal overlap (handle, escalate, complete_workflow_task).
ActionDoneOnce == A!ActionDoneOnce
===============================================================================
