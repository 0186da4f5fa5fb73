------------------------- MODULE MCAutomaticActions -------------------------
(* A small graph of automatic stages for TLC.                              *)
EXTENDS AutomaticActions

CONSTANTS w1, w2

None == {}

-----------------------------------------------------------------------------
(* Create a document, link it, have it checked; a failure goes to a person, *)
(* after whom an action kept from before versions runs first.               *)

ChainStages == {"check", "create", "gate", "legacy", "link", "repair", "done"}

ChainKind ==
  [s \in ChainStages |->
     CASE s \in {"check", "repair"} -> "Person"
       [] s \in {"create", "link"} -> "Queued"
       [] s = "gate" -> "Condition"
       [] s = "legacy" -> "Inline"
       [] OTHER -> "End"]

ChainSuccess ==
  [s \in ChainStages |->
     CASE s = "check" -> {"create", "done"}
       [] s = "create" -> {"gate"}
       [] s = "gate" -> {"link", "check"}
       [] s = "link" -> {"check"}
       [] s = "repair" -> {"legacy"}
       [] s = "legacy" -> {"create"}
       [] OTHER -> None]

ChainError ==
  [s \in ChainStages |-> IF s = "create" THEN {"repair"} ELSE None]
=============================================================================
