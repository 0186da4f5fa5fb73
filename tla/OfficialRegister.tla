--------------------------- MODULE OfficialRegister ---------------------------
(***************************************************************************)
(* What an office promises of the papers it issues, whatever their kind:   *)
(* a paper is drafted, perhaps reviewed, and issued at most once, under    *)
(* the next number of its series; what is issued stays as it was issued,   *)
(* and no number is given twice or lost.                                   *)
(***************************************************************************)
EXTENDS Naturals

CONSTANT Papers

VARIABLES
  stage,   \* of each paper
  number,  \* of each paper, 0 before it is issued
  issued   \* numbers given so far

registerVars == <<stage, number, issued>>

Stages == {"absent", "open", "review", "issued", "closed"}

RegisterInit ==
  /\ stage = [p \in Papers |-> "absent"]
  /\ number = [p \in Papers |-> 0]
  /\ issued = 0

\* A paper is drafted, or drafted again after it came to nothing.
Draft(p) ==
  /\ stage[p] \in {"absent", "closed"}
  /\ stage' = [stage EXCEPT ![p] = "open"]
  /\ UNCHANGED <<number, issued>>

Submit(p) ==
  /\ stage[p] \in {"open", "closed"}
  /\ stage' = [stage EXCEPT ![p] = "review"]
  /\ UNCHANGED <<number, issued>>

Issue(p) ==
  /\ stage[p] \in {"open", "review", "closed"}
  /\ stage' = [stage EXCEPT ![p] = "issued"]
  /\ number' = [number EXCEPT ![p] = issued + 1]
  /\ issued' = issued + 1

\* Rejected, cancelled or failed.
Close(p) ==
  /\ stage[p] \in {"open", "review"}
  /\ stage' = [stage EXCEPT ![p] = "closed"]
  /\ UNCHANGED <<number, issued>>

RegisterNext ==
  \E p \in Papers : Draft(p) \/ Submit(p) \/ Issue(p) \/ Close(p)

Spec == RegisterInit /\ [][RegisterNext]_registerVars

=============================================================================
