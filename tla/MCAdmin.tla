-------------------------------- MODULE MCAdmin --------------------------------
(* Directive, SetupReset, Roles and Personnel on small instances.  They    *)
(* share no rows: a behaviour is about one.                                *)
EXTENDS Directive, SetupReset, TLC

CONSTANTS
  Components, Humans, None,
  RolesOverlap,       \* calls of Roles that may overlap
  Identified          \* whether national ids are registered

VARIABLES
  component,                                                                              \* what the behaviour is about
  users, defs, given, local, access, unsettled, calls, granting,                          \* Roles
  profiles, employees, accounts, records, operations, effects, page, changes, filing      \* Personnel

rolesVars == <<users, defs, given, local, access, unsettled, calls, granting>>

personnelVars == <<profiles, employees, accounts, records, operations, effects, page, changes, filing>>

adminVars == <<vars, rolesVars, resetVars, personnelVars>>

allVars == <<component, adminVars>>

-----------------------------------------------------------------------------
(* Both executors at once, or one who may pass the duty on, with a         *)
(* reminder; the other may leave the team.                                 *)

FirstExecutor == CHOOSE u \in Executors : TRUE

Forms == {[users |-> Executors, primary |-> FirstExecutor, reminder |-> FALSE, mayPass |-> FALSE],
          [users |-> {FirstExecutor}, primary |-> FirstExecutor, reminder |-> TRUE, mayPass |-> TRUE]}

OtherExecutors == Executors \ {FirstExecutor}

-----------------------------------------------------------------------------
(* Two administrators, a definition that holds the administrator's role    *)
(* and one that does not.                                                  *)

Global(base, parent) == [there |-> TRUE, enabled |-> TRUE, scope |-> "global", base |-> base, parent |-> parent]

RoleSites ==
  {[users |-> [u \in Humans |-> [profile |-> "none", enabled |-> TRUE, base |-> {"SM"}, access |-> {}]],
    defs |-> ("X" :> Global({"HR"}, "none")) @@ ("Y" :> Global({"HR", "SM"}, "none"))]}

RoleEdits ==
  ("X" :> {Global({"HR"}, "none"), Global({"HR"}, "Y"), [Global({"HR"}, "none") EXCEPT !.enabled = FALSE],
           [Global({}, "none") EXCEPT !.scope = "office"]})
    @@ ("Y" :> {Global({"HR", "SM"}, "none"), Global({"HR", "SM"}, "X")})

R == INSTANCE Roles WITH
       txn <- granting, Users <- Humans, Codes <- {"X", "Y"}, BaseRoles <- {"SM", "HR"}, Admin <- "SM",
       NoCode <- "none", Overlapping <- RolesOverlap, First <- RoleSites, Edits <- RoleEdits,
       ByHand <- {{}, {"SM"}}, MaxCalls <- 5

-----------------------------------------------------------------------------
(* Two people and their logins; then the file of one person.               *)

P == INSTANCE Personnel WITH
       txn <- filing, receipts <- operations, Slots <- {1, 2}, Mobiles <- {"", "m1"}, Unset <- "",
       MobileOf <- [h \in Humans |-> {"m1"}], Requests <- {"q"}, NoRequest <- "none",
       Overlapping <- {"register", "invite", "unlink"},
       Served <- {"register", "invite", "unlink", "set_enabled", "save_party"}, MaxChanges <- 4

F == INSTANCE Personnel WITH
       txn <- filing, receipts <- operations, Slots <- {1}, Mobiles <- {"", "m1", "m2"}, Unset <- "",
       MobileOf <- [h \in Humans |-> {"m1"}], Requests <- {"q"}, NoRequest <- "none",
       Overlapping <- {"update", "desk"},
       Served <- {"save_party", "disable_party", "update", "add_record", "update_record", "desk"}, MaxChanges <- 4

-----------------------------------------------------------------------------

\* What the behaviour is not about starts in one way.
AdminInit ==
  /\ component \in Components
  /\ Init /\ R!Init /\ ResetInit
  /\ IF component = "logins" THEN P!Init
     ELSE F!Init /\ \A h \in Humans : accounts[h].there = (component = "files")

AdminNext ==
  \/ component = "directive" /\ Next /\ UNCHANGED <<component, rolesVars, resetVars, personnelVars>>
  \/ component = "roles" /\ R!Next /\ UNCHANGED <<component, vars, resetVars, personnelVars>>
  \/ component = "reset" /\ ResetNext /\ UNCHANGED <<component, vars, rolesVars, personnelVars>>
  \/ component = "logins" /\ P!Next /\ UNCHANGED <<component, vars, rolesVars, resetVars>>
  \/ component = "files" /\ F!Next /\ UNCHANGED <<component, vars, rolesVars, resetVars>>

AdminSpec == AdminInit /\ [][AdminNext]_allVars

Interchangeable == Permutations(Workers) \cup Permutations(Keys) \cup Permutations(Humans)

-----------------------------------------------------------------------------
(* The properties of Roles and Personnel.                                  *)

\* Whatever is assigned, disabled or edited, by whichever way, the site keeps
\* an active named administrator once it has one (guard_user_change).
AdminRemains == R!AdminRemains

\* A user holds what has been assigned to it through every later call, and no
\* access role but those of what it holds; definitions form no ring; and the last
\* active administrator stays one (attach_roles, ASOUDRoleDefinition.validate,
\* guard_user_change).
RolesHold == R!RolesHold

\* However registrations, invitations and withdrawals of access overlap, a login
\* that may do an employee's work is of one Employee and of one person; and what
\* lists show of personnel is what HR has, whichever side was written last
\* (register, sync_employee_access, delete_employee_access, refresh_profile_cache).
PersonnelAgrees ==
  /\ component = "logins" => P!OneLogin
  /\ component = "files" => F!CacheTellsEmployee

\* An edit replaces what its client saw, in the Employee and in the check-ins, and
\* a request that is repeated is carried out once (profile_revision, revision,
\* _receipt).
EditsAsSeen == F!EditsAsSeen

=============================================================================
