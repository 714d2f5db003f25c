-------------------------------- MODULE Access --------------------------------
(***************************************************************************)
(* Users, roles, menus and their assignment in the Go backend              *)
(* (user_service.go, role_service.go, menu_service.go) and the permission  *)
(* check in front of every handler (permission_service.go, service.go      *)
(* RequirePermission).                                                     *)
(*                                                                         *)
(* A request reads its actor's roles, then the menus whose permission      *)
(* codes these give, then whatever its handler checks, and at last writes  *)
(* one row or, in a transaction, one set of assignments.  Every read is a  *)
(* statement of its own.  Roles, users and menus are deleted logically and *)
(* keep their status and their assignments.                                *)
(*                                                                         *)
(* Abstracted: names, passwords and contact data; of the codes of roles    *)
(* only which role has SUPER_ADMIN; the tree of menus (Hierarchy).  A      *)
(* request may come from a deleted or disabled user: a session outlives    *)
(* its user (Sessions).                                                    *)
(***************************************************************************)
EXTENDS Naturals, FiniteSets

CONSTANTS
    Users, Roles, Menus,
    Super,         \* the builtin role; its code is SUPER_ADMIN until it is renamed
    NoRole,        \* no role has that code
    Code,          \* the menu that carries the permission code of each operation
    Requests,      \* the requests that can be in progress at one time
    MaxRequests    \* bound on the requests in all

\* The operations whose handler calls assertNotSuperAdminTarget first.
GuardedOps == {"assignRoles", "deleteUser", "userStatus"}
UserOps == GuardedOps \cup {"updateUser"}
RoleOps == {"deleteRole", "roleStatus", "updateRole", "assignMenus"}
MenuOps == {"deleteMenu", "menuStatus"}
CreateOps == {"createUser", "createRole"}
DeleteOps == {"deleteUser", "deleteRole", "deleteMenu"}
StatusOps == {"userStatus", "updateUser", "roleStatus", "menuStatus"}
Ops == UserOps \cup RoleOps \cup MenuOps \cup CreateOps

\* The operations that look for their target and write without asking for it again.
LookupOps == {"assignRoles", "assignMenus", "updateUser"}

Ids == Users \cup Roles \cup Menus

ASSUME AccessAssumption ==
    /\ Users \cap Roles = {} /\ Users \cap Menus = {} /\ Roles \cap Menus = {}
    /\ Super \in Roles /\ NoRole \notin Ids
    /\ Code \in [Ops -> Menus]
    /\ MaxRequests \in Nat

VARIABLES
    known,       \* the rows of sys_user, sys_role and sys_menu
    enabled,     \* those with status 1
    deleted,     \* those with deleted 1
    holds,       \* sys_user_role
    grants,      \* sys_role_menu
    superRole,   \* the row of sys_role with code SUPER_ADMIN, which is a unique key
    req,         \* the requests: where each is, who does what to what, with what
    begun,       \* how many requests there have been
    raced,       \* the roles that were given away while their deletion was under way
    outrun,      \* the requests for which SUPER_ADMIN moved between guard and write
    bereft       \* the requests whose target was deleted between lookup and write

rows == <<known, enabled, deleted, holds, grants, superRole>>
history == <<raced, outrun, bereft>>
vars == <<rows, req, begun, history>>

\* "permitSuper" is "permitMenus" for an actor in whose roles SUPER_ADMIN was seen.
Control == {"idle", "permitMenus", "permitSuper", "guardActor", "guardTarget",
            "findUser", "findRoles", "findRole", "countHolders", "findMenus", "write"}

\* on, named: the status, and whether SUPER_ADMIN is the code, that is to be written.
Request == [at : Control \ {"idle"}, op : Ops, actor : Users, target : Ids,
            picks : SUBSET Ids, on : BOOLEAN, named : BOOLEAN]

Idle == [at |-> "idle"]

TypeOK ==
    /\ known \subseteq Ids /\ enabled \subseteq Ids /\ deleted \subseteq Ids
    /\ holds \subseteq Users \X Roles
    /\ grants \subseteq Roles \X Menus
    /\ superRole \in Roles \cup {NoRole}
    /\ req \in [Requests -> Request \cup {Idle}]
    /\ begun \in 0..MaxRequests
    /\ raced \subseteq Roles
    /\ outrun \subseteq Requests /\ bereft \subseteq Requests

Live == known \ deleted

\* A data base as the seed leaves it: somebody holds SUPER_ADMIN.
Init ==
    /\ known \in {K \in SUBSET Ids : Super \in K /\ Menus \subseteq K}
    /\ enabled = known
    /\ deleted = {}
    /\ holds \in SUBSET ((Users \cap known) \X (Roles \cap known))
    /\ \E u \in Users : <<u, Super>> \in holds
    /\ grants \in SUBSET ((Roles \cap known) \X Menus)
    /\ superRole = Super
    /\ req = [r \in Requests |-> Idle]
    /\ begun = 0
    /\ raced = {}
    /\ outrun = {} /\ bereft = {}

-----------------------------------------------------------------------------
(* permission_service.go *)

\* roleCodes contains SUPER_ADMIN.
isSuper(u) == <<u, superRole>> \in holds /\ superRole \in Live \cap enabled

\* permissionCodes: menus are filtered by status, not by deleted; the roles between
\* the user and the menus by nothing.
permissionCodes(u, super) ==
    {n \in Menus \cap known \cap enabled :
        super \/ \E p \in Roles : <<u, p>> \in holds /\ <<p, n>> \in grants}

-----------------------------------------------------------------------------
(* The requests. *)

goto(r, c) == req' = [req EXCEPT ![r].at = c] /\ UNCHANGED begun

finish(r) == req' = [req EXCEPT ![r] = Idle] /\ UNCHANGED begun

\* A check: the request goes on when it passes and is refused when it does not.
check(r, passes, c) ==
    /\ \/ passes /\ goto(r, c)
       \/ ~passes /\ finish(r)
    /\ UNCHANGED rows

\* Requests name rows that were handed out, in lists without duplicates; creating
\* takes a new id.
targets(o) ==
    IF o \in UserOps THEN Users \cap known
    ELSE IF o \in RoleOps THEN Roles \cap known
    ELSE IF o \in MenuOps THEN Menus \cap known
    ELSE IF o = "createUser" THEN Users \ known ELSE Roles \ known

lists(o) ==
    IF o = "assignRoles" THEN SUBSET (Roles \cap known)
    ELSE IF o = "assignMenus" THEN SUBSET (Menus \cap known) ELSE {{}}

statuses(o) == IF o \in StatusOps \cup CreateOps \cup {"updateRole"} THEN BOOLEAN ELSE {FALSE}

codes(o) == IF o \in {"updateRole", "createRole"} THEN BOOLEAN ELSE {FALSE}

\* Where RequirePermission goes on after it has read the roles of actor a.
permit(a) == IF isSuper(a) THEN "permitSuper" ELSE "permitMenus"

\* A request comes, and RequirePermission reads the roles of its actor.
Begin(r) ==
    \E o \in Ops :
    \E a \in Users \cap known, t \in targets(o), S \in lists(o), b \in statuses(o), d \in codes(o) :
        /\ req[r].at = "idle" /\ begun < MaxRequests
        /\ req' = [req EXCEPT ![r] =
              [at |-> permit(a), op |-> o, actor |-> a, target |-> t,
               picks |-> S, on |-> b, named |-> d]]
        /\ begun' = begun + 1
        /\ UNCHANGED rows

\* Mutant: DeleteUser does not call assertNotSuperAdminTarget.
firstBug(o) ==
    IF o \in {"assignRoles", "userStatus"} THEN "guardActor"
    ELSE IF o \in {"deleteUser", "updateUser"} THEN "findUser"
    ELSE IF o \in {"deleteRole", "assignMenus"} THEN "findRole" ELSE "write"

\* The statement a handler starts with.
first(o) ==
    IF o \in GuardedOps THEN "guardActor"
    ELSE IF o = "updateUser" THEN "findUser"
    ELSE IF o \in {"deleteRole", "assignMenus"} THEN "findRole" ELSE "write"

PermitMenus(r) ==
    /\ req[r].at \in {"permitMenus", "permitSuper"}
    /\ check(r, Code[req[r].op] \in permissionCodes(req[r].actor, req[r].at = "permitSuper"),
             first(req[r].op))

\* Nobody deletes or disables himself; assertNotSuperAdminTarget lets SUPER_ADMIN
\* through and asks for the roles of the target otherwise.
againstSelf(r) ==
    /\ req[r].target = req[r].actor
    /\ req[r].op = "deleteUser" \/ (req[r].op = "userStatus" /\ ~req[r].on)

afterGuard(o) == IF o = "userStatus" THEN "write" ELSE "findUser"

GuardActor(r) ==
    /\ req[r].at = "guardActor"
    /\ check(r, ~againstSelf(r),
             IF isSuper(req[r].actor) THEN afterGuard(req[r].op) ELSE "guardTarget")

GuardTarget(r) ==
    /\ req[r].at = "guardTarget"
    /\ check(r, ~isSuper(req[r].target), afterGuard(req[r].op))

\* userDetail.
FindUser(r) ==
    /\ req[r].at = "findUser"
    /\ check(r, req[r].target \in Live,
             IF req[r].op = "assignRoles" THEN "findRoles" ELSE "write")

\* assertExistingRoles.
FindRoles(r) ==
    /\ req[r].at = "findRoles"
    /\ check(r, req[r].picks \subseteq Live, "write")

\* Mutant: DeleteRole does not count the users of the role.
FindRoleBug(r) ==
    /\ req[r].at = "findRole"
    /\ check(r, req[r].target \in Live /\ ~(req[r].op = "deleteRole" /\ req[r].target = Super),
             IF req[r].op = "deleteRole" THEN "write" ELSE "findMenus")

\* DeleteRole also refuses the builtin role.
FindRole(r) ==
    /\ req[r].at = "findRole"
    /\ check(r, req[r].target \in Live /\ ~(req[r].op = "deleteRole" /\ req[r].target = Super),
             IF req[r].op = "deleteRole" THEN "countHolders" ELSE "findMenus")

CountHolders(r) ==
    /\ req[r].at = "countHolders"
    /\ check(r, \A u \in Users : <<u, req[r].target>> \notin holds, "write")

\* assertExistingMenus.
FindMenus(r) ==
    /\ req[r].at = "findMenus"
    /\ check(r, req[r].picks \subseteq Live, "write")

write(r, o) == req[r].at = "write" /\ req[r].op = o /\ finish(r)

\* Mutant: the columns are swapped.
AssignRolesBug(r) ==
    /\ write(r, "assignRoles")
    /\ holds' = {h \in holds : h[1] # req[r].target} \cup (req[r].picks \X {req[r].target})
    /\ UNCHANGED <<known, enabled, deleted, grants, superRole>>

AssignRoles(r) ==
    /\ write(r, "assignRoles")
    /\ holds' = {h \in holds : h[1] # req[r].target} \cup ({req[r].target} \X req[r].picks)
    /\ UNCHANGED <<known, enabled, deleted, grants, superRole>>

AssignMenus(r) ==
    /\ write(r, "assignMenus")
    /\ grants' = {g \in grants : g[1] # req[r].target} \cup ({req[r].target} \X req[r].picks)
    /\ UNCHANGED <<known, enabled, deleted, holds, superRole>>

Delete(r) ==
    /\ \E o \in DeleteOps : write(r, o)
    /\ deleted' = deleted \cup {req[r].target}
    /\ UNCHANGED <<known, enabled, holds, grants, superRole>>

\* Mutant: no UPDATE of a status asks for deleted = 0.
SetStatusBug(r) ==
    /\ \E o \in StatusOps : write(r, o)
    /\ enabled' = IF req[r].on THEN enabled \cup {req[r].target}
                  ELSE enabled \ {req[r].target}
    /\ UNCHANGED <<known, deleted, holds, grants, superRole>>

\* Only UpdateUser writes without deleted = 0.
SetStatus(r) ==
    /\ \E o \in StatusOps : write(r, o)
    /\ enabled' = IF req[r].op # "updateUser" /\ req[r].target \in deleted THEN enabled
                  ELSE IF req[r].on THEN enabled \cup {req[r].target}
                  ELSE enabled \ {req[r].target}
    /\ UNCHANGED <<known, deleted, holds, grants, superRole>>

\* UpdateRole writes code and status without a check; the unique key, which counts
\* deleted rows, makes a request for a code that is taken end as Fail does.
UpdateRole(r) ==
    /\ write(r, "updateRole")
    /\ \/ req[r].target \in deleted /\ UNCHANGED <<enabled, superRole>>
       \/ /\ req[r].target \notin deleted
          /\ req[r].named => superRole \in {req[r].target, NoRole}
          /\ superRole' = IF req[r].named THEN req[r].target
                          ELSE IF superRole = req[r].target THEN NoRole ELSE superRole
          /\ enabled' = IF req[r].on THEN enabled \cup {req[r].target}
                        ELSE enabled \ {req[r].target}
    /\ UNCHANGED <<known, deleted, holds, grants>>

\* The id is new: of two requests for one id, the model drops the second, as the
\* unique key does with one of two requests for one code.
Create(r) ==
    /\ \E o \in CreateOps : write(r, o)
    /\ req[r].target \notin known
    /\ req[r].named => superRole = NoRole
    /\ superRole' = IF req[r].named THEN req[r].target ELSE superRole
    /\ known' = known \cup {req[r].target}
    /\ enabled' = IF req[r].on THEN enabled \cup {req[r].target} ELSE enabled
    /\ UNCHANGED <<deleted, holds, grants>>

\* The data base fails or the server stops.
Fail(r) ==
    /\ req[r].at # "idle"
    /\ finish(r)
    /\ UNCHANGED rows

Step(r) ==
    \/ Begin(r) \/ PermitMenus(r)
    \/ GuardActor(r) \/ GuardTarget(r)
    \/ FindUser(r) \/ FindRoles(r) \/ FindRole(r) \/ CountHolders(r) \/ FindMenus(r)
    \/ AssignRoles(r) \/ AssignMenus(r) \/ Delete(r) \/ SetStatus(r) \/ UpdateRole(r)
    \/ Create(r) \/ Fail(r)

\* r has found all it asked for and is going to write.
about(r, o) == req[r].at = "write" /\ req[r].op = o

\* The roles that one request is about to give to a user and another to delete.
Contested ==
    {p \in Roles : \E q, r \in Requests :
        about(q, "assignRoles") /\ p \in req[q].picks
        /\ about(r, "deleteRole") /\ req[r].target = p}

\* What is contested is raced for until its deletion is given up.
Race ==
    raced' = {p \in raced \cup Contested' :
                p \in deleted' \/ \E r \in Requests :
                                    about(r, "deleteRole")' /\ req'[r].target = p}

\* r is past assertNotSuperAdminTarget, but has not written yet.
guarded(r) ==
    req[r].at \in {"findUser", "findRoles", "write"} /\ req[r].op \in GuardedOps

\* From its guard to its write a request is outrun as soon as its actor loses
\* SUPER_ADMIN or its target gets it.
Overtake ==
    outrun' = {r \in Requests :
                 /\ guarded(r)'
                 /\ \/ r \in outrun
                    \/ guarded(r) /\ isSuper(req[r].actor) /\ ~isSuper(req[r].actor)'
                    \/ guarded(r) /\ ~isSuper(req[r].target) /\ isSuper(req[r].target)'}

\* r has looked its target up, but has not written yet.
found(r) ==
    req[r].at \in {"findRoles", "findMenus", "write"} /\ req[r].op \in LookupOps

\* From its lookup to its write a request is bereft as soon as its target is deleted.
Bereave ==
    bereft' = {r \in Requests :
                 /\ found(r)'
                 /\ r \in bereft \/ (found(r) /\ req[r].target \in deleted' \ deleted)}

Next == (\E r \in Requests : Step(r)) /\ Race /\ Overtake /\ Bereave

Spec == Init /\ [][Next]_vars

-----------------------------------------------------------------------------
(* What must hold. *)

\* Nobody holds a deleted role, so that it gives nobody a permission code although the
\* query for these does not look at the roles: DeleteRole counts the users of the
\* role, assignUserRoles the roles of the user.  It fails only for a role that one
\* request deleted while another, past its lookup of the role, was about to give it.
DeletedRoleHasNoHolder ==
    \A h \in holds : h[2] \in deleted => h[2] \in raced

\* r writes, and x is what it writes to.
Writes(r, x) == req[r].at = "write" /\ req'[r].at = "idle" /\ req[r].target = x

\* Status, code and assignments of x stay.
Untouched(x) ==
    /\ x \in enabled <=> x \in enabled'
    /\ superRole = x <=> superRole' = x
    /\ \A p \in Roles : <<x, p>> \in holds <=> <<x, p>> \in holds'
    /\ \A n \in Menus : <<x, n>> \in grants <=> <<x, n>> \in grants'

\* Whoever holds SUPER_ADMIN is deleted, and his status and his roles change, only by
\* a request of an actor who holds it too, whatever other requests do to the roles
\* meanwhile.  Two requests get through: one for which SUPER_ADMIN was taken from the
\* actor or given to the target after the guard had asked and before the write, which
\* does not ask again; and UpdateUser, which writes the status and never asks.
SuperUsersAreProtected ==
    [][\A u \in Users \cap known : isSuper(u) =>
          \/ Untouched(u) /\ (u \in deleted <=> u \in deleted')
          \/ \E r \in Requests :
                /\ Writes(r, u)
                /\ isSuper(req[r].actor) \/ r \in outrun \/ req[r].op = "updateUser"]_vars

\* What was deleted stays deleted, with the status, the code and the assignments it
\* had.  Only an assignment, or UpdateUser, that had found the row before it was
\* deleted still writes to it.
DeletedIsLeftAlone ==
    [][/\ deleted \subseteq deleted'
       /\ \A t \in deleted : Untouched(t) \/ \E r \in bereft : Writes(r, t)]_vars

\* Only menus that exist give permission codes.
DeletedMenuGrantsNothing ==
    \A u \in Users : permissionCodes(u, isSuper(u)) \cap deleted = {}

=============================================================================
