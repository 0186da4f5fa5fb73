--------------------------------- MODULE Roles ---------------------------------
(***************************************************************************)
(* Role definitions of the site, the users they are given to, and the      *)
(* roles that users hold in consequence.  A definition owns a native Role  *)
(* Profile with its base roles; users hold it by that profile or by an     *)
(* assignment, and every save of a user works out what it adds.            *)
(*                                                                         *)
(* A call reads the snapshot that its first query takes.  The locks on the *)
(* System Manager role and on the user come later, so they order the calls *)
(* that take them without showing one what another committed.  A row that  *)
(* is saved must not have changed since it was read.  Calls are those of   *)
(* the built-in administrator, whom no gate refuses.                       *)
(***************************************************************************)
EXTENDS Naturals, FiniteSets, FiniteSetsExt

CONSTANTS
  Users, Codes,
  BaseRoles,    \* native roles a definition may have
  Admin,        \* System Manager, one of them
  NoCode,       \* no definition
  Workers,
  Overlapping,  \* calls that may overlap others of them, the rest are served alone
  First,        \* users and definitions of a site before the first call
  Edits,        \* definition to the rows that may be saved of it
  ByHand,       \* base roles the Desk may give an account
  MaxCalls      \* bound: calls of a behaviour

VARIABLES
  users,     \* User: profile, enabled, base roles and access roles
  defs,      \* ASOUD Role Definition with its Role Profile
  given,     \* ASOUD Access Assignment: <<user, code>>
  local,     \* ASOUD Office Role Assignment of one office: <<user, code>>
  access,    \* roles that carry permissions: <<"all", code>> or <<user, code>>
  unsettled, \* definitions whose profile users are to be saved again
  calls,     \* the calls so far
  txn

vars == <<users, defs, given, local, access, unsettled, calls, txn>>

Grants == Users \X Codes

User == [profile : Codes \cup {NoCode}, enabled : BOOLEAN, base : SUBSET BaseRoles,
         access : SUBSET ((Users \cup {"all"}) \X Codes)]

Definition == [there : BOOLEAN, enabled : BOOLEAN, scope : {"global", "office"}, base : SUBSET BaseRoles,
               parent : Codes \cup {NoCode}]

Site == [users |-> users, defs |-> defs, given |-> given, local |-> local, access |-> access]

Idle == [op |-> "none"]

-----------------------------------------------------------------------------
(* What a save of a user leaves; s is the site as the call reads it.       *)

HeldCodes(s, u, profile) == {c \in Codes : c = profile \/ <<u, c>> \in s.given}

\* Frappe: the roles of a profile replace those a user had.
Populated(s, row) == IF row.profile = NoCode THEN row.base ELSE s.defs[row.profile].base

AttachRoles(s, u, row) ==
  LET codes == {c \in HeldCodes(s, u, row.profile) : s.defs[c].enabled}
  IN [row EXCEPT !.base = Populated(s, row) \cup UNION {s.defs[c].base : c \in codes},
                 !.access = {r \in s.access : r[2] \in codes /\ (r[1] = "all" \/ (r[1] = u /\ r \in s.given))}]

ActiveAdmin(row) == row.enabled /\ Admin \in row.base

\* Mutation of ActiveNamedAdmins: disabled holders count.
ActiveNamedAdminsAll(s, except) == {u \in Users \ {except} : Admin \in s.users[u].base}

ActiveNamedAdmins(s, except) == {u \in Users \ {except} : ActiveAdmin(s.users[u])}

\* Would the change leave the site without an active administrator?
AdminChangeViolation(was, will, others) == was /\ ~will /\ others = {}

\* The site with a user saved, none if a hook refuses: a profile must be of an
\* enabled definition, and the last active administrator stays one.
SavedUser(s, u, row) ==
  LET new == AttachRoles(s, u, row)
  IN IF /\ row.profile = NoCode \/ s.defs[row.profile].enabled
        /\ ~AdminChangeViolation(ActiveAdmin(s.users[u]), ActiveAdmin(new), ActiveNamedAdmins(s, u))
     THEN {[s EXCEPT !.users[u] = new]}
     ELSE {}

\* Some users saved as they are, one after another: none may be refused.
SavedUsers(s, some) == FoldSet(LAMBDA u, sites : UNION {SavedUser(t, u, t.users[u]) : t \in sites}, {s}, some)

-----------------------------------------------------------------------------
(* The calls: a site that may be committed, with the users saved.          *)

Outcome(sites, saved) == {[site |-> s, saved |-> saved] : s \in sites}

ProfileUsers(s, c) == {u \in Users : s.users[u].profile = c}

Assigned(s, c) == {u \in Users : <<u, c>> \in s.given}

\* Mutation of NoCycle: a definition may be the parent of its parent.
NoCycleDirect(s, c, parent) == parent # c

NoCycle(s, c, parent) ==
  LET Above[n \in 0..Cardinality(Codes)] ==
        IF n = 0 THEN {parent} ELSE {s.defs[x].parent : x \in Above[n - 1] \ {NoCode}}
  IN \A n \in 0..Cardinality(Codes) : c \notin Above[n]

\* Mutation of MayDisable: assignments are not looked for.
MayDisableAssigned(s, c) == ProfileUsers(s, c) = {}

MayDisable(s, c) == ProfileUsers(s, c) = {} /\ Assigned(s, c) = {}

\* Base roles are kept as they are while assignments rely on them.
SaveRole(s, a) ==
  LET old == s.defs[a.code]
  IN Outcome(IF /\ a.row.base # old.base \/ ~old.there => Assigned(s, a.code) = {}
                /\ Admin \in a.row.base => a.row.scope = "global"
                /\ a.row.parent = NoCode \/ s.defs[a.row.parent].there
                /\ NoCycle(s, a.code, a.row.parent)
                /\ a.row.enabled \/ MayDisable(s, a.code)
             THEN {[s EXCEPT !.defs[a.code] = a.row]} ELSE {}, {})

\* The access of a definition, or of one user beside it.
Apply(s, a) ==
  LET forOne == a.user \in Users
      role == <<IF forOne THEN a.user ELSE "all", a.code>>
      now == [s EXCEPT !.access = @ \cup {role}, !.given = IF forOne THEN @ \cup {role} ELSE @]
      affected == IF forOne THEN {a.user} ELSE ProfileUsers(s, a.code) \cup Assigned(s, a.code)
  IN Outcome(IF s.defs[a.code].there /\ s.defs[a.code].enabled THEN SavedUsers(now, affected) ELSE {}, affected)

Assign(s, a) ==
  LET d == s.defs[a.code]  grant == <<a.user, a.code>>
      now == [s EXCEPT !.access = @ \cup {grant}, !.given = @ \cup {grant}]
  IN CASE ~d.there \/ ~d.enabled -> {}
       [] d.scope = "office" -> Outcome({[s EXCEPT !.local = @ \cup {grant}]}, {})
       [] OTHER -> Outcome(SavedUsers(now, {a.user}), {a.user})

\* Base roles no other assignment and no profile gives.
Orphans(s, a) ==
  LET p == s.users[a.user].profile
  IN (s.defs[a.code].base \ {"Employee"})
       \ ((IF p = NoCode THEN {} ELSE s.defs[p].base)
            \cup UNION {s.defs[c].base : c \in {x \in Codes \ {a.code} : <<a.user, x>> \in s.given}})

Unassign(s, a) ==
  LET grant == <<a.user, a.code>>
      now == [s EXCEPT !.given = @ \ {grant}]
      row == [s.users[a.user] EXCEPT !.base = @ \ Orphans(s, a)]
  IN CASE ~s.defs[a.code].there -> {}
       [] s.defs[a.code].scope = "office" -> Outcome({[s EXCEPT !.local = @ \ {grant}]}, {})
       [] grant \notin s.given -> {}
       [] OTHER -> Outcome(SavedUser(now, a.user, row), {a.user})

\* update_user and the Desk: status, profile and roles.
SaveAccount(s, a) == Outcome(SavedUser(s, a.user, [a.row EXCEPT !.access = {}]), {a.user})

\* Frappe saves the users of a profile whose roles changed.
Settle(s, a) == Outcome(SavedUsers(s, ProfileUsers(s, a.code)), ProfileUsers(s, a.code))

Result(s, a) ==
  CASE a.op = "save_role" -> SaveRole(s, a) [] a.op = "apply" -> Apply(s, a) [] a.op = "assign" -> Assign(s, a)
    [] a.op = "unassign" -> Unassign(s, a) [] a.op = "account" -> SaveAccount(s, a) [] a.op = "settle" -> Settle(s, a)

\* One thing of an account is changed at a time.
AccountChanges(u) ==
  {[users[u] EXCEPT !.enabled = ~@]} \cup {[users[u] EXCEPT !.base = b] : b \in ByHand}
    \cup {[users[u] EXCEPT !.profile = p] : p \in {c \in Codes : defs[c].there} \cup {NoCode}}

Calls ==
  UNION {[op : {"save_role"}, code : {c}, row : Edits[c]] : c \in Codes}
    \cup [op : {"apply"}, code : Codes, user : Users \cup {"all"}]
    \cup [op : {"assign", "unassign"}, code : Codes, user : Users]
    \cup [op : {"settle"}, code : unsettled]
    \cup UNION {[op : {"account"}, user : {u}, row : AccountChanges(u)] : u \in Users}

Init ==
  /\ \E f \in First : users = f.users /\ defs = f.defs
  /\ given = {} /\ local = {} /\ access = {} /\ unsettled = {} /\ calls = 0
  /\ txn = [w \in Workers |-> Idle]

\* The call a commits what it made of the site r it read.
Committed(r, a) ==
  \E o \in Result(r, a) :
    LET s == o.site
        inserted == s.given \ r.given
    IN /\ \A u \in o.saved : users[u] = r.users[u]
       /\ \A c \in Codes : s.defs[c] # r.defs[c] => defs[c] = r.defs[c]
       /\ inserted \cap given = {} /\ (s.local \ r.local) \cap local = {}
       /\ users' = [u \in Users |-> IF u \in o.saved THEN s.users[u] ELSE users[u]]
       /\ defs' = [c \in Codes |-> IF s.defs[c] # r.defs[c] THEN s.defs[c] ELSE defs[c]]
       /\ given' = (given \ (r.given \ s.given)) \cup inserted
       /\ local' = (local \ (r.local \ s.local)) \cup (s.local \ r.local)
       /\ access' = access \cup (s.access \ r.access)
       /\ unsettled' = CASE a.op = "settle" -> unsettled \ {a.code}
                         [] a.op = "save_role" -> IF a.row.base # r.defs[a.code].base THEN unsettled \cup {a.code} ELSE unsettled
                         [] OTHER -> unsettled

Serve ==
  /\ calls < MaxCalls /\ \A w \in Workers : txn[w] = Idle
  /\ \E a \in Calls : a.op \notin Overlapping /\ Committed(Site, a)
  /\ calls' = calls + 1
  /\ UNCHANGED txn

\* Calls that cannot succeed on what they read need not begin.
Begin(w) ==
  /\ calls < MaxCalls /\ txn[w] = Idle
  /\ \E a \in Calls :
       /\ a.op \in Overlapping /\ (Result(Site, a)) # {}
       /\ txn' = [txn EXCEPT ![w] = [op |-> a.op, call |-> a, read |-> Site]]
  /\ calls' = calls + 1
  /\ UNCHANGED <<users, defs, given, local, access, unsettled>>

Commit(w) ==
  /\ txn[w] # Idle
  /\ Committed(txn[w].read, txn[w].call)
  /\ txn' = [txn EXCEPT ![w] = Idle]
  /\ UNCHANGED calls

\* A conflict, a deadlock or a lost connection leaves nothing; a job that
\* fails is not repeated.
Fail(w) ==
  /\ txn[w] # Idle
  /\ txn' = [txn EXCEPT ![w] = Idle]
  /\ UNCHANGED <<users, defs, given, local, access, unsettled, calls>>

LoseJob ==
  /\ \E c \in unsettled : unsettled' = unsettled \ {c}
  /\ UNCHANGED <<users, defs, given, local, access, calls, txn>>

Next == Serve \/ LoseJob \/ \E w \in Workers : Begin(w) \/ Commit(w) \/ Fail(w)

Spec == Init /\ [][Next]_vars

-----------------------------------------------------------------------------
(* Properties.                                                             *)

\* Rows have the shape of their DocTypes.
TypeOK ==
  /\ users \in [Users -> User] /\ defs \in [Codes -> Definition]
  /\ given \subseteq Grants /\ local \subseteq Grants /\ unsettled \subseteq Codes

KeepsAdmin == (\E u \in Users : ActiveAdmin(users[u])) => \E u \in Users : ActiveAdmin(users'[u])

\* Whatever is assigned, disabled or edited, by whichever way, the site keeps
\* an active named administrator once it has one (guard_user_change).
AdminRemains == [][KeepsAdmin]_vars

\* A user holds what has been assigned to it, through every later call: the
\* base roles and the access roles of a definition that is still enabled; and
\* no access role but those of what it holds.
Granted ==
  \A u \in Users :
    /\ \A c \in Codes : <<u, c>> \in given =>
         /\ defs[c].enabled /\ defs[c].base \subseteq users[u].base
         /\ {r \in access : r[2] = c /\ r[1] \in {"all", u}} \subseteq users[u].access
    /\ \A r \in users[u].access : r[2] \in HeldCodes(Site, u, users[u].profile)

\* No set of definitions holds the parents of all its members, whatever order
\* definitions are moved in (ASOUDRoleDefinition.validate).
ParentsAcyclic == \A ring \in SUBSET Codes \ {{}} : \E c \in ring : defs[c].parent \notin ring

\* Users and definitions agree however assignments, edits and profiles overlap:
\* what is assigned is held, and nothing else is (attach_roles, save_role); and
\* the last active administrator stays one.
RolesHold == [][vars' # vars => TypeOK' /\ Granted' /\ ParentsAcyclic' /\ KeepsAdmin]_vars
=============================================================================
