----------------------------- MODULE AccessProofs -----------------------------
(***************************************************************************)
(* The properties of Access for any number of users, roles, menus,         *)
(* requests, and requests at a time.                                       *)
(***************************************************************************)
EXTENDS Access, TLAPS

USE AccessAssumption

-----------------------------------------------------------------------------
(* Types.  TypeOK alone is not inductive: what an operation writes has the      *)
(* right type because its request names rows of the right table.                *)

Matches(q) ==
    q.at # "idle" =>
        /\ q.op \in UserOps => q.target \in Users
        /\ q.op \in RoleOps => q.target \in Roles
        /\ q.op \in MenuOps => q.target \in Menus
        /\ q.named => q.target \in Roles
        /\ q.op = "assignRoles" => q.picks \subseteq Roles
        /\ q.op = "assignMenus" => q.picks \subseteq Menus

TypeInv == TypeOK /\ \A r \in Requests : Matches(req[r])

\* A check that passes or not.
LEMMA CheckKeepsTypes ==
    ASSUME TypeInv, NEW r \in Requests, NEW c \in Control \ {"idle"},
           req[r].at # "idle", goto(r, c) \/ finish(r), UNCHANGED rows,
           raced' \subseteq Roles, outrun' \subseteq Requests, bereft' \subseteq Requests
    PROVE  TypeInv'
<1> USE DEF TypeInv, TypeOK
<1>1. req[r] \in Request  BY DEF Idle
<1>2. req' \in [Requests -> Request \cup {Idle}] /\ \A q \in Requests : Matches(req'[q])
  <2>1. CASE goto(r, c)
    <3>1. req'[r] = [req[r] EXCEPT !.at = c] /\ \A q \in Requests : q # r => req'[q] = req[q]
      BY <2>1 DEF goto
    <3>2. req'[r] \in Request  BY <1>1, <3>1 DEF Request
    <3>3. Matches(req'[r])  BY <1>1, <3>1 DEF Request, Matches
    <3> QED  BY <2>1, <3>1, <3>2, <3>3 DEF goto
  <2>2. CASE finish(r)  BY <2>2 DEF finish, Matches, Idle
  <2> QED  BY <2>1, <2>2
<1> QED  BY <1>2 DEF goto, finish, rows

LEMMA StepKeepsTypes ==
    ASSUME TypeInv, NEW r \in Requests, Step(r), Race, Overtake, Bereave
    PROVE  TypeInv'
<1> USE DEF TypeInv, TypeOK
<1>0. raced' \subseteq Roles /\ outrun' \subseteq Requests /\ bereft' \subseteq Requests
  BY DEF Race, Contested, Overtake, Bereave
<1>1. CASE Begin(r)
  <2>0. PICK o \in Ops :
           \E a \in Users \cap known, t \in targets(o), S \in lists(o), b \in statuses(o), d \in codes(o) :
              /\ begun < MaxRequests
              /\ req' = [req EXCEPT ![r] =
                    [at |-> permit(a), op |-> o, actor |-> a, target |-> t,
                     picks |-> S, on |-> b, named |-> d]]
              /\ begun' = begun + 1
              /\ UNCHANGED rows
    BY <1>1 DEF Begin
  <2>1. PICK a \in Users \cap known, t \in targets(o), S \in lists(o), b \in statuses(o), d \in codes(o) :
           /\ begun < MaxRequests
           /\ req' = [req EXCEPT ![r] =
                 [at |-> permit(a), op |-> o, actor |-> a, target |-> t,
                  picks |-> S, on |-> b, named |-> d]]
           /\ begun' = begun + 1
           /\ UNCHANGED rows
    BY <2>0
  <2>2. t \in Ids /\ S \in SUBSET Ids /\ b \in BOOLEAN /\ d \in BOOLEAN
    BY DEF targets, lists, statuses, codes, Ids
  <2>3. [at |-> permit(a), op |-> o, actor |-> a, target |-> t,
         picks |-> S, on |-> b, named |-> d] \in Request
    BY <2>2 DEF Request, Control, permit
  <2>4. req' \in [Requests -> Request \cup {Idle}]  BY <2>1, <2>3
  <2>7. /\ o \in UserOps => t \in Users
        /\ o \in RoleOps => t \in Roles
        /\ o \in MenuOps => t \in Menus
        /\ d => t \in Roles
        /\ o = "assignRoles" => S \subseteq Roles
        /\ o = "assignMenus" => S \subseteq Menus
    BY DEF targets, lists, codes, UserOps, GuardedOps, RoleOps, MenuOps
  <2>8. \A q \in Requests : Matches(req'[q])  BY <2>1, <2>7 DEF Matches
  <2>5. begun' \in 0..MaxRequests  BY <2>1
  <2> QED  BY <1>0, <2>1, <2>4, <2>5, <2>8 DEF rows
<1>2. CASE PermitMenus(r)
  <2>1. first(req[r].op) \in Control \ {"idle"}  BY DEF first, Control
  <2> QED  BY <1>2, <2>1, <1>0, CheckKeepsTypes DEF PermitMenus, check
<1>3. CASE GuardActor(r)
  <2>1. (IF isSuper(req[r].actor) THEN afterGuard(req[r].op) ELSE "guardTarget")
          \in Control \ {"idle"}
    BY DEF afterGuard, Control
  <2> QED  BY <1>3, <2>1, <1>0, CheckKeepsTypes DEF GuardActor, check
<1>4. CASE GuardTarget(r)
  <2>1. afterGuard(req[r].op) \in Control \ {"idle"}  BY DEF afterGuard, Control
  <2> QED  BY <1>4, <2>1, <1>0, CheckKeepsTypes DEF GuardTarget, check
<1>5. CASE FindUser(r)
  <2>1. (IF req[r].op = "assignRoles" THEN "findRoles" ELSE "write") \in Control \ {"idle"}
    BY DEF Control
  <2> QED  BY <1>5, <2>1, <1>0, CheckKeepsTypes DEF FindUser, check
<1>6. CASE FindRoles(r)  BY <1>6, <1>0, CheckKeepsTypes DEF FindRoles, check, Control
<1>7. CASE FindRole(r)
  <2>1. (IF req[r].op = "deleteRole" THEN "countHolders" ELSE "findMenus")
          \in Control \ {"idle"}
    BY DEF Control
  <2> QED  BY <1>7, <2>1, <1>0, CheckKeepsTypes DEF FindRole, check
<1>8. CASE CountHolders(r)  BY <1>8, <1>0, CheckKeepsTypes DEF CountHolders, check, Control
<1>9. CASE FindMenus(r)  BY <1>9, <1>0, CheckKeepsTypes DEF FindMenus, check, Control
<1>10. ASSUME finish(r), known' \subseteq Ids, enabled' \subseteq Ids, deleted' \subseteq Ids,
              holds' \subseteq Users \X Roles, grants' \subseteq Roles \X Menus,
              superRole' \in Roles \cup {NoRole}
       PROVE  TypeInv'
  BY <1>0, <1>10 DEF finish, Matches, Idle
<1>11. CASE AssignRoles(r)
  <2>1. req[r] \in Request  BY <1>11 DEF AssignRoles, write, Idle
  <2>2. req[r].target \in Users /\ req[r].picks \subseteq Roles
    BY <1>11, <2>1 DEF AssignRoles, write, Matches, UserOps, GuardedOps
  <2> QED  BY <1>10, <1>11, <2>2 DEF AssignRoles, write
<1>12. CASE AssignMenus(r)
  <2>1. req[r] \in Request  BY <1>12 DEF AssignMenus, write, Idle
  <2>2. req[r].target \in Roles /\ req[r].picks \subseteq Menus
    BY <1>12, <2>1 DEF AssignMenus, write, Matches, RoleOps
  <2> QED  BY <1>10, <1>12, <2>2 DEF AssignMenus, write
<1>13. CASE Delete(r) \/ SetStatus(r) \/ Create(r)
  <2>1. req[r] \in Request  BY <1>13 DEF Delete, SetStatus, Create, write, Idle
  <2>2. req[r].target \in Ids  BY <2>1 DEF Request
  <2>3. CASE Delete(r) \/ SetStatus(r)
    BY <1>10, <2>2, <2>3 DEF Delete, SetStatus, write
  <2>4. CASE Create(r)
    <3>1. req[r].named => req[r].target \in Roles
      BY <2>1, <2>4 DEF Create, write, Matches
    <3> QED  BY <1>10, <2>2, <2>4, <3>1 DEF Create, write
  <2> QED  BY <1>13, <2>3, <2>4
<1>14. CASE UpdateRole(r)
  <2>1. req[r] \in Request  BY <1>14 DEF UpdateRole, write, Idle
  <2>2. req[r].target \in Roles  BY <1>14, <2>1 DEF UpdateRole, write, Matches, RoleOps
  <2>3. superRole' \in Roles \cup {NoRole} /\ enabled' \subseteq Ids
    BY <1>14, <2>2 DEF UpdateRole, Ids
  <2> QED  BY <1>10, <1>14, <2>3 DEF UpdateRole, write
<1>15. CASE Fail(r)  BY <1>10, <1>15 DEF Fail, rows
<1> QED
  BY <1>1, <1>2, <1>3, <1>4, <1>5, <1>6, <1>7, <1>8, <1>9, <1>11, <1>12, <1>13,
     <1>14, <1>15 DEF Step

LEMMA TypesAreKept == Spec => []TypeInv
<1>1. Init => TypeInv
  <2> SUFFICES ASSUME Init  PROVE TypeInv  OBVIOUS
  <2>1. known \subseteq Ids /\ enabled \subseteq Ids /\ deleted \subseteq Ids  BY DEF Init
  <2>2. holds \subseteq Users \X Roles /\ grants \subseteq Roles \X Menus  BY DEF Init
  <2>3. req \in [Requests -> Request \cup {Idle}]  BY DEF Init
  <2>4. \A r \in Requests : Matches(req[r])  BY DEF Init, Matches, Idle
  <2>5. begun \in 0..MaxRequests  BY AccessAssumption DEF Init
  <2>6. raced \subseteq Roles /\ outrun \subseteq Requests /\ bereft \subseteq Requests
    BY DEF Init
  <2>7. superRole \in Roles \cup {NoRole}  BY AccessAssumption DEF Init
  <2> QED  BY <2>1, <2>2, <2>3, <2>4, <2>5, <2>6, <2>7 DEF TypeInv, TypeOK
<1>2. TypeInv /\ [Next]_vars => TypeInv'
  <2>1. CASE UNCHANGED vars  BY <2>1 DEF vars, rows, history, TypeInv, TypeOK
  <2> QED  BY <2>1, StepKeepsTypes DEF Next
<1> QED  BY <1>1, <1>2, PTL DEF Spec

\* The rows, the assignments and the requests keep their types.
THEOREM TypeCorrect == Spec => []TypeOK
<1>1. TypeInv => TypeOK  BY DEF TypeInv
<1> QED  BY <1>1, TypesAreKept, PTL

-----------------------------------------------------------------------------
(***************************************************************************)
(* What checks are worth.  The inductive invariant: what a request has     *)
(* found out about its actor, its target and the roles it writes is still  *)
(* so when it writes, unless it is outrun or bereft, or the role is raced  *)
(* for.                                                                    *)
(***************************************************************************)

\* Where each operation can be.
OnPath(r) ==
    /\ req[r].at \in {"guardActor", "guardTarget"} => req[r].op \in GuardedOps
    /\ req[r].at = "findUser" => req[r].op \in {"assignRoles", "deleteUser", "updateUser"}
    /\ req[r].at = "findRoles" => req[r].op = "assignRoles"
    /\ req[r].at = "findRole" => req[r].op \in {"deleteRole", "assignMenus"}
    /\ req[r].at = "countHolders" => req[r].op = "deleteRole"
    /\ req[r].at = "findMenus" => req[r].op = "assignMenus"

\* What the guard of request r found out: its actor may do this to its target.
Entitled(r) == guarded(r) => isSuper(req[r].actor) \/ ~isSuper(req[r].target)

\* What the lookup of request r found out: its target exists.
Finds(r) == found(r) => req[r].target \notin deleted

\* What request r found out about role p.
Relies(r, p) ==
    /\ about(r, "assignRoles") /\ p \in req[r].picks => p \notin deleted
    /\ about(r, "deleteRole") /\ req[r].target = p => \A u \in Users : <<u, p>> \notin holds

AccessInv ==
    /\ \A r \in Requests : req[r].at # "idle" => OnPath(r)
    /\ \A r \in Requests \ outrun : Entitled(r)
    /\ \A r \in Requests \ bereft : Finds(r)
    /\ \A r \in Requests, p \in Roles \ raced : Relies(r, p)
    /\ Contested \subseteq raced
    /\ DeletedRoleHasNoHolder

LEMMA OnlyOneMoves ==
    ASSUME NEW r \in Requests, Step(r), TypeInv
    PROVE  \A q \in Requests : q # r => req'[q] = req[q]
<1> USE DEF TypeInv, TypeOK
<1>1. CASE Begin(r)  BY <1>1 DEF Begin
<1>2. ASSUME NEW c, goto(r, c) \/ finish(r)
      PROVE  \A q \in Requests : q # r => req'[q] = req[q]
  BY <1>2 DEF goto, finish
<1>3. CASE PermitMenus(r) \/ GuardActor(r) \/ GuardTarget(r) \/ FindUser(r)
           \/ FindRoles(r) \/ FindRole(r) \/ CountHolders(r) \/ FindMenus(r)
  <2>1. \E c : goto(r, c) \/ finish(r)
    BY <1>3 DEF PermitMenus, GuardActor, GuardTarget, FindUser, FindRoles, FindRole,
       CountHolders, FindMenus, check
  <2> QED  BY <1>2, <2>1
<1>4. CASE AssignRoles(r) \/ AssignMenus(r) \/ Delete(r) \/ SetStatus(r) \/ UpdateRole(r)
           \/ Create(r) \/ Fail(r)
  <2>1. finish(r)
    BY <1>4 DEF AssignRoles, AssignMenus, Delete, SetStatus, UpdateRole, Create, Fail, write
  <2> QED  BY <1>2, <2>1
<1> QED  BY <1>1, <1>3, <1>4 DEF Step

\* The requests that do not move, and are neither outrun nor bereft, know what they knew.
LEMMA OthersKeep ==
    ASSUME TypeInv, AccessInv, NEW r \in Requests, Step(r), Overtake, Bereave,
           NEW q \in Requests, q # r
    PROVE  /\ req'[q].at # "idle" => OnPath(q)'
           /\ q \notin outrun' => Entitled(q)'
           /\ q \notin bereft' => Finds(q)'
<1>1. req'[q] = req[q]  BY OnlyOneMoves
<1>2. req'[q].at # "idle" => OnPath(q)'  BY <1>1 DEF AccessInv, OnPath
<1>3. ASSUME q \notin outrun', guarded(q)'  PROVE Entitled(q)'
  <2>1. q \notin outrun /\ guarded(q)  BY <1>1, <1>3 DEF Overtake, guarded
  <2>2. Entitled(q)  BY <2>1 DEF AccessInv
  <2> QED  BY <1>1, <1>3, <2>1, <2>2 DEF Entitled, Overtake
<1>4. ASSUME q \notin bereft', found(q)'  PROVE Finds(q)'
  <2>1. q \notin bereft /\ found(q)  BY <1>1, <1>4 DEF Bereave, found
  <2>2. Finds(q)  BY <2>1 DEF AccessInv
  <2> QED  BY <1>1, <1>4, <2>1, <2>2 DEF Finds, Bereave
<1> QED  BY <1>2, <1>3, <1>4 DEF Entitled, Finds

\* A role that was raced for is, as long as it is gone or going to be deleted.
LEMMA RaceGoesOn ==
    ASSUME TypeInv, Race, NEW p \in Roles \ raced', p \in raced
    PROVE  /\ p \notin deleted'
           /\ \A r \in Requests : ~(about(r, "deleteRole")' /\ req'[r].target = p)
BY DEF Race

LEMMA ContestIsRace ==
    ASSUME Race
    PROVE  Contested' \subseteq raced'
BY DEF Race, Contested

\* A request that goes on without a write.
LEMMA CheckKeepsInv ==
    ASSUME TypeInv, AccessInv, NEW r \in Requests, Step(r), Race, Overtake, Bereave, UNCHANGED rows,
           req'[r].at # "idle" => OnPath(r)',
           r \notin outrun => Entitled(r)', r \notin bereft => Finds(r)',
           \A p \in Roles \ raced : Relies(r, p)'
    PROVE  AccessInv'
<1>1. Entitled(r)' \/ r \in outrun'  BY DEF Overtake, Entitled
<1>2. Finds(r)' \/ r \in bereft'  BY DEF Bereave, Finds
<1>3. \A q \in Requests : /\ req'[q].at # "idle" => OnPath(q)'
                          /\ q \notin outrun' => Entitled(q)'
                          /\ q \notin bereft' => Finds(q)'
  BY <1>1, <1>2, OthersKeep
<1>4. ASSUME NEW q \in Requests, NEW p \in Roles \ raced'  PROVE Relies(q, p)'
  <2>1. CASE p \in raced  BY <2>1, RaceGoesOn DEF Relies
  <2>2. CASE p \notin raced /\ q # r
    <3>1. Relies(q, p) /\ req'[q] = req[q]  BY <2>2, OnlyOneMoves DEF AccessInv
    <3> QED  BY <3>1 DEF Relies, about, rows
  <2> QED  BY <2>1, <2>2
<1>5. DeletedRoleHasNoHolder'
  <2> SUFFICES ASSUME NEW h \in holds', h[2] \in deleted'  PROVE h[2] \in raced'
    BY DEF DeletedRoleHasNoHolder
  <2>1. h \in holds /\ h[2] \in deleted /\ h[2] \in Roles
    BY DEF rows, TypeInv, TypeOK
  <2>2. h[2] \in raced  BY <2>1 DEF AccessInv, DeletedRoleHasNoHolder
  <2> QED  BY <2>1, <2>2, RaceGoesOn
<1>6. \A q \in Requests \ outrun' : Entitled(q)'  BY <1>3
<1>7. \A q \in Requests \ bereft' : Finds(q)'  BY <1>3
<1> QED  BY <1>3, <1>4, <1>5, <1>6, <1>7, ContestIsRace DEF AccessInv

\* A request that passes a check keeps what it is and moves to c.
LEMMA CheckMoves ==
    ASSUME TypeInv, NEW r \in Requests, NEW c \in Control, goto(r, c), req[r].at # "idle"
    PROVE  /\ req'[r].at = c
           /\ req'[r].op = req[r].op /\ req'[r].actor = req[r].actor
           /\ req'[r].target = req[r].target /\ req'[r].picks = req[r].picks
<1>1. req[r] \in Request  BY DEF TypeInv, TypeOK, Idle
<1> QED  BY <1>1 DEF goto, Request, TypeInv, TypeOK

\* It knows what it knew when it goes on to another question.
LEMMA PassKeepsInv ==
    ASSUME TypeInv, AccessInv, NEW r \in Requests, Step(r), Race, Overtake, Bereave, UNCHANGED rows,
           NEW c \in Control, goto(r, c), req[r].at # "idle",
           OnPath(r)', r \notin outrun => Entitled(r)', r \notin bereft => Finds(r)',
           c = "write" => req[r].op \notin {"assignRoles", "deleteRole"}
    PROVE  AccessInv'
<1>1. req'[r].at = c /\ req'[r].op = req[r].op  BY CheckMoves
<1>2. \A p \in Roles : Relies(r, p)'  BY <1>1 DEF Relies, about
<1> QED  BY <1>2, CheckKeepsInv

\* A step that ends its request: what the others rely on.
LEMMA EndKeepsInv ==
    ASSUME TypeInv, AccessInv, NEW r \in Requests, Step(r), Race, Overtake, Bereave, finish(r),
           \A q \in Requests, p \in Roles \ raced : q # r => Relies(q, p)',
           \A h \in holds' : h[2] \in deleted' /\ h[2] \notin raced => h[2] \in raced',
           holds' \subseteq Users \X Roles
    PROVE  AccessInv'
<1>1. req'[r].at = "idle"  BY DEF finish, TypeInv, TypeOK, Idle
<1>2. \A q \in Requests : /\ req'[q].at # "idle" => OnPath(q)'
                          /\ q \notin outrun' => Entitled(q)'
                          /\ q \notin bereft' => Finds(q)'
  BY <1>1, OthersKeep DEF Entitled, guarded, Finds, found
<1>3. ASSUME NEW q \in Requests, NEW p \in Roles \ raced'  PROVE Relies(q, p)'
  <2>1. CASE p \in raced  BY <2>1, RaceGoesOn DEF Relies
  <2>2. CASE q = r  BY <1>1, <2>2 DEF Relies, about
  <2> QED  BY <1>3, <2>1, <2>2
<1>4. DeletedRoleHasNoHolder'
  <2> SUFFICES ASSUME NEW h \in holds', h[2] \in deleted'  PROVE h[2] \in raced'
    BY DEF DeletedRoleHasNoHolder
  <2>1. h[2] \in Roles  OBVIOUS
  <2> QED  BY <2>1, RaceGoesOn
<1>5. \A q \in Requests \ outrun' : Entitled(q)'  BY <1>2
<1>6. \A q \in Requests \ bereft' : Finds(q)'  BY <1>2
<1> QED  BY <1>2, <1>3, <1>4, <1>5, <1>6, ContestIsRace DEF AccessInv

\* One that leaves users' roles and deletions alone.
LEMMA EndWithoutHoldersKeepsInv ==
    ASSUME TypeInv, AccessInv, NEW r \in Requests, Step(r), Race, Overtake, Bereave, finish(r),
           UNCHANGED <<holds, deleted>>
    PROVE  AccessInv'
<1>1. ASSUME NEW q \in Requests, NEW p \in Roles \ raced, q # r  PROVE Relies(q, p)'
  <2>1. Relies(q, p) /\ req'[q] = req[q]  BY <1>1, OnlyOneMoves DEF AccessInv
  <2> QED  BY <2>1 DEF Relies, about
<1>2. \A h \in holds' : h[2] \in deleted' /\ h[2] \notin raced => h[2] \in raced'
  BY DEF AccessInv, DeletedRoleHasNoHolder
<1> QED  BY <1>1, <1>2, EndKeepsInv DEF TypeInv, TypeOK

LEMMA StepKeepsAccessInv ==
    ASSUME TypeInv, AccessInv, NEW r \in Requests, Step(r), Race, Overtake, Bereave
    PROVE  AccessInv'
<1>1. /\ req[r].at # "idle" => OnPath(r) /\ req[r] \in Request
      /\ r \notin outrun => Entitled(r)
      /\ r \notin bereft => Finds(r)
      /\ Matches(req[r])
  BY DEF AccessInv, TypeInv, TypeOK, Idle
<1>2. ASSUME finish(r), UNCHANGED rows  PROVE AccessInv'
  BY <1>2, EndWithoutHoldersKeepsInv DEF rows
<1>3. CASE Begin(r)
  <2>1. UNCHANGED rows /\ req'[r].at \in {"permitMenus", "permitSuper"}
    BY <1>3 DEF Begin, TypeInv, TypeOK, permit
  <2>2. OnPath(r)' /\ Entitled(r)' /\ Finds(r)' /\ \A p \in Roles : Relies(r, p)'
    BY <2>1 DEF OnPath, Entitled, guarded, Finds, found, LookupOps, about, Relies
  <2> QED  BY <2>1, <2>2, CheckKeepsInv
<1>4. CASE PermitMenus(r)
  <2> DEFINE c == first(req[r].op)
  <2>1. CASE goto(r, c)
    <3>1. c \in Control  BY DEF first, Control
    <3>2. UNCHANGED rows /\ req[r].at # "idle" /\ req'[r].at = c /\ req'[r].op = req[r].op
      BY <1>4, <2>1, <3>1, CheckMoves DEF PermitMenus, check
    <3>3. OnPath(r)' /\ Entitled(r)' /\ Finds(r)'
      BY <3>2 DEF OnPath, Entitled, guarded, Finds, found, LookupOps, about, first,
         GuardedOps
    <3>4. c = "write" => req[r].op \notin {"assignRoles", "deleteRole"}
      BY DEF first, GuardedOps
    <3> HIDE DEF c
    <3> QED  BY <2>1, <3>1, <3>2, <3>3, <3>4, PassKeepsInv
  <2> QED  BY <1>2, <1>4, <2>1 DEF PermitMenus, check
<1>5. CASE GuardActor(r)
  <2> DEFINE c == afterGuard(req[r].op)
  <2>1. CASE isSuper(req[r].actor) /\ goto(r, c)
    <3>1. c \in Control  BY DEF afterGuard, Control
    <3>2. /\ UNCHANGED rows /\ req[r].at = "guardActor" /\ req'[r].at = c
          /\ req'[r].op = req[r].op /\ req'[r].actor = req[r].actor
      BY <1>5, <2>1, <3>1, CheckMoves DEF GuardActor, check
    <3>3. req[r].op \in GuardedOps  BY <1>1, <3>2 DEF OnPath
    <3>4. OnPath(r)' /\ Entitled(r)' /\ Finds(r)'
      BY <2>1, <3>2, <3>3 DEF OnPath, Entitled, guarded, Finds, found, LookupOps, about,
         afterGuard, GuardedOps, isSuper, Live, rows
    <3>5. c = "write" => req[r].op \notin {"assignRoles", "deleteRole"}
      BY DEF afterGuard
    <3> HIDE DEF c
    <3> QED  BY <2>1, <3>1, <3>2, <3>4, <3>5, PassKeepsInv
  <2>2. CASE goto(r, "guardTarget")
    <3>1. /\ UNCHANGED rows /\ req[r].at = "guardActor" /\ req'[r].at = "guardTarget"
          /\ req'[r].op = req[r].op
      BY <1>5, <2>2, CheckMoves DEF GuardActor, check, Control
    <3>2. OnPath(r)' /\ Entitled(r)' /\ Finds(r)'
      BY <1>1, <3>1 DEF OnPath, Entitled, guarded, Finds, found, LookupOps, about
    <3> QED  BY <2>2, <3>1, <3>2, PassKeepsInv DEF Control
  <2> QED  BY <1>2, <1>5, <2>1, <2>2 DEF GuardActor, check
<1>6. CASE GuardTarget(r)
  <2> DEFINE c == afterGuard(req[r].op)
  <2>1. CASE ~isSuper(req[r].target) /\ goto(r, c)
    <3>1. c \in Control  BY DEF afterGuard, Control
    <3>2. /\ UNCHANGED rows /\ req[r].at = "guardTarget" /\ req'[r].at = c
          /\ req'[r].op = req[r].op /\ req'[r].target = req[r].target
      BY <1>6, <2>1, <3>1, CheckMoves DEF GuardTarget, check
    <3>3. req[r].op \in GuardedOps  BY <1>1, <3>2 DEF OnPath
    <3>4. OnPath(r)' /\ Entitled(r)' /\ Finds(r)'
      BY <2>1, <3>2, <3>3 DEF OnPath, Entitled, guarded, Finds, found, LookupOps, about,
         afterGuard, GuardedOps, isSuper, Live, rows
    <3>5. c = "write" => req[r].op \notin {"assignRoles", "deleteRole"}
      BY DEF afterGuard
    <3> HIDE DEF c
    <3> QED  BY <2>1, <3>1, <3>2, <3>4, <3>5, PassKeepsInv
  <2> QED  BY <1>2, <1>6, <2>1 DEF GuardTarget, check
<1>7. CASE FindUser(r)
  <2> DEFINE c == IF req[r].op = "assignRoles" THEN "findRoles" ELSE "write"
  <2>1. CASE req[r].target \in Live /\ goto(r, c)
    <3>1. c \in Control  BY DEF Control
    <3>2. /\ UNCHANGED rows /\ req[r].at = "findUser" /\ req'[r].at = c
          /\ req'[r].op = req[r].op /\ req'[r].actor = req[r].actor
          /\ req'[r].target = req[r].target
      BY <1>7, <2>1, <3>1, CheckMoves DEF FindUser, check
    <3>3. OnPath(r)'  BY <1>1, <3>2 DEF OnPath
    <3>4. (r \notin outrun => Entitled(r)') /\ (r \notin bereft => Finds(r)')
      BY <1>1, <2>1, <3>2 DEF Entitled, guarded, Finds, found, LookupOps, OnPath, about,
         isSuper, Live, rows
    <3>5. c = "write" => req[r].op \notin {"assignRoles", "deleteRole"}
      BY <1>1, <3>2 DEF OnPath
    <3> HIDE DEF c
    <3> QED  BY <2>1, <3>1, <3>2, <3>3, <3>4, <3>5, PassKeepsInv
  <2> QED  BY <1>2, <1>7, <2>1 DEF FindUser, check
<1>8. CASE FindRoles(r)
  <2>1. CASE req[r].picks \subseteq Live /\ goto(r, "write")
    <3>1. /\ UNCHANGED rows /\ req[r].at = "findRoles" /\ req'[r].at = "write"
          /\ req'[r].op = req[r].op /\ req'[r].actor = req[r].actor
          /\ req'[r].target = req[r].target /\ req'[r].picks = req[r].picks
      BY <1>8, <2>1, CheckMoves DEF FindRoles, check, Control
    <3>2. OnPath(r)' /\ req[r].op = "assignRoles"  BY <1>1, <3>1 DEF OnPath
    <3>3. (r \notin outrun => Entitled(r)') /\ (r \notin bereft => Finds(r)')
      BY <1>1, <2>1, <3>1, <3>2 DEF Entitled, guarded, Finds, found, LookupOps, about,
         isSuper, Live, rows
    <3>4. \A p \in Roles : Relies(r, p)'
      BY <2>1, <3>1, <3>2 DEF Relies, about, Live, rows
    <3> QED  BY <3>1, <3>2, <3>3, <3>4, CheckKeepsInv
  <2> QED  BY <1>2, <1>8, <2>1 DEF FindRoles, check
<1>9. CASE FindRole(r)
  <2> DEFINE c == IF req[r].op = "deleteRole" THEN "countHolders" ELSE "findMenus"
  <2>1. CASE req[r].target \in Live /\ goto(r, c)
    <3>1. c \in Control /\ c # "write"  BY DEF Control
    <3>2. /\ UNCHANGED rows /\ req[r].at = "findRole" /\ req'[r].at = c
          /\ req'[r].op = req[r].op /\ req'[r].target = req[r].target
      BY <1>9, <2>1, <3>1, CheckMoves DEF FindRole, check
    <3>3. OnPath(r)' /\ Entitled(r)' /\ Finds(r)'
      BY <1>1, <2>1, <3>2 DEF OnPath, Entitled, guarded, Finds, found, LookupOps, about,
         Live, rows
    <3> HIDE DEF c
    <3> QED  BY <2>1, <3>1, <3>2, <3>3, PassKeepsInv
  <2> QED  BY <1>2, <1>9, <2>1 DEF FindRole, check
<1>10. CASE CountHolders(r)
  <2>1. CASE (\A u \in Users : <<u, req[r].target>> \notin holds) /\ goto(r, "write")
    <3>1. /\ UNCHANGED rows /\ req[r].at = "countHolders" /\ req'[r].at = "write"
          /\ req'[r].op = req[r].op /\ req'[r].target = req[r].target
      BY <1>10, <2>1, CheckMoves DEF CountHolders, check, Control
    <3>2. req[r].op = "deleteRole"  BY <1>1, <3>1 DEF OnPath
    <3>3. OnPath(r)' /\ Entitled(r)' /\ Finds(r)'
      BY <3>1, <3>2 DEF OnPath, Entitled, guarded, Finds, found, LookupOps, about,
         GuardedOps
    <3>4. \A p \in Roles : Relies(r, p)'
      BY <2>1, <3>1, <3>2 DEF Relies, about, rows
    <3> QED  BY <3>1, <3>3, <3>4, CheckKeepsInv
  <2> QED  BY <1>2, <1>10, <2>1 DEF CountHolders, check
<1>11. CASE FindMenus(r)
  <2>1. CASE goto(r, "write")
    <3>1. /\ UNCHANGED rows /\ req[r].at = "findMenus" /\ req'[r].at = "write"
          /\ req'[r].op = req[r].op /\ req'[r].target = req[r].target
      BY <1>11, <2>1, CheckMoves DEF FindMenus, check, Control
    <3>2. req[r].op = "assignMenus"  BY <1>1, <3>1 DEF OnPath
    <3>3. OnPath(r)' /\ (r \notin outrun => Entitled(r)') /\ (r \notin bereft => Finds(r)')
      BY <1>1, <3>1, <3>2 DEF OnPath, Entitled, guarded, Finds, found, LookupOps, about,
         GuardedOps, rows
    <3> QED  BY <2>1, <3>1, <3>2, <3>3, PassKeepsInv DEF Control
  <2> QED  BY <1>2, <1>11, <2>1 DEF FindMenus, check
<1>12. CASE AssignRoles(r)
  <2>1. /\ finish(r) /\ UNCHANGED deleted /\ about(r, "assignRoles")
        /\ holds' = {h \in holds : h[1] # req[r].target} \cup ({req[r].target} \X req[r].picks)
        /\ req[r].target \in Users /\ req[r].picks \subseteq Roles
    BY <1>1, <1>12 DEF AssignRoles, write, about, Matches, UserOps, GuardedOps
  <2>2. ASSUME NEW q \in Requests, NEW p \in Roles \ raced, q # r  PROVE Relies(q, p)'
    <3>1. Relies(q, p) /\ req'[q] = req[q]  BY <2>2, OnlyOneMoves DEF AccessInv
    <3>2. about(q, "deleteRole") /\ req[q].target = p => p \notin req[r].picks
      BY <2>1, <2>2 DEF AccessInv, Contested
    <3>3. p \notin req[r].picks => \A u \in Users : <<u, p>> \in holds' => <<u, p>> \in holds
      BY <2>1
    <3> QED  BY <2>1, <3>1, <3>2, <3>3 DEF Relies, about
  <2>3. ASSUME NEW h \in holds', h[2] \in deleted', h[2] \notin raced  PROVE h[2] \in raced'
    <3>1. CASE h \in holds  BY <2>1, <2>3, <3>1 DEF AccessInv, DeletedRoleHasNoHolder
    <3>2. CASE h[2] \in req[r].picks
      BY <2>1, <2>3, <3>2 DEF AccessInv, Relies
    <3> QED  BY <2>1, <2>3, <3>1, <3>2
  <2>4. holds' \subseteq Users \X Roles  BY <2>1 DEF TypeInv, TypeOK
  <2> QED  BY <2>1, <2>2, <2>3, <2>4, EndKeepsInv
<1>13. CASE Delete(r)
  <2>1. /\ finish(r) /\ UNCHANGED holds /\ deleted' = deleted \cup {req[r].target}
        /\ req[r].at = "write" /\ req[r].op \in DeleteOps
    BY <1>13 DEF Delete, write
  <2>2. req[r].op # "deleteRole" => req[r].target \notin Roles
    BY <1>1, <2>1, AccessAssumption DEF Matches, UserOps, GuardedOps, MenuOps, DeleteOps
  <2>3. ASSUME NEW q \in Requests, NEW p \in Roles \ raced, q # r  PROVE Relies(q, p)'
    <3>1. Relies(q, p) /\ req'[q] = req[q]  BY <2>3, OnlyOneMoves DEF AccessInv
    <3>2. about(q, "assignRoles") /\ p \in req[q].picks => req[r].target # p
      BY <2>1, <2>2, <2>3 DEF AccessInv, Contested, about
    <3> QED  BY <2>1, <3>1, <3>2 DEF Relies, about
  <2>4. ASSUME NEW h \in holds', h[2] \in deleted', h[2] \notin raced  PROVE h[2] \in raced'
    <3>1. h \in holds /\ h \in Users \X Roles  BY <2>1 DEF TypeInv, TypeOK
    <3>2. CASE h[2] \in deleted  BY <2>4, <3>1, <3>2 DEF AccessInv, DeletedRoleHasNoHolder
    <3>3. CASE h[2] = req[r].target
      <4>1. about(r, "deleteRole")  BY <2>1, <2>2, <3>1, <3>3 DEF about
      <4>2. Relies(r, h[2])  BY <2>4, <3>1 DEF AccessInv
      <4> QED  BY <3>1, <3>3, <4>1, <4>2 DEF Relies
    <3> QED  BY <2>1, <2>4, <3>2, <3>3
  <2> QED  BY <2>1, <2>3, <2>4, EndKeepsInv DEF TypeInv, TypeOK
<1>14. CASE AssignMenus(r) \/ SetStatus(r) \/ UpdateRole(r) \/ Create(r)
  <2>1. UNCHANGED <<holds, deleted>> /\ finish(r)
    BY <1>14 DEF AssignMenus, SetStatus, UpdateRole, Create, write
  <2> QED  BY <2>1, EndWithoutHoldersKeepsInv
<1>15. CASE Fail(r)  BY <1>2, <1>15 DEF Fail
<1> QED
  BY <1>3, <1>4, <1>5, <1>6, <1>7, <1>8, <1>9, <1>10, <1>11, <1>12, <1>13,
     <1>14, <1>15 DEF Step

LEMMA AccessInvHolds == Spec => [](TypeInv /\ AccessInv)
<1>1. Init => AccessInv
  BY DEF Init, AccessInv, DeletedRoleHasNoHolder, Contested, Relies, about, Entitled,
     guarded,
     Finds, found, Idle
<1>2. TypeInv /\ AccessInv /\ [Next]_vars => AccessInv'
  <2>1. CASE UNCHANGED vars
    BY <2>1 DEF vars, rows, history, AccessInv, DeletedRoleHasNoHolder, Contested, Relies,
       about, OnPath, Entitled, guarded, Finds, found, LookupOps, isSuper, Live
  <2> QED  BY <2>1, StepKeepsAccessInv DEF Next
<1> QED  BY <1>1, <1>2, TypesAreKept, PTL DEF Spec

\* Nobody holds a deleted role but one that was given away in a race with its deletion.
THEOREM DeletedRolesHaveNoHolders == Spec => []DeletedRoleHasNoHolder
<1>1. AccessInv => DeletedRoleHasNoHolder  BY DEF AccessInv
<1> QED  BY <1>1, AccessInvHolds, PTL

\* The rows a request writes to, unless it creates one, are rows that exist.
NamesKnown ==
    /\ deleted \subseteq known
    /\ \A r \in Requests :
          req[r].at # "idle" /\ req[r].op \notin CreateOps => req[r].target \in known

\* What one step does to its own request and to the rows.
LEMMA StepMoves ==
    ASSUME TypeInv, NEW r \in Requests, Step(r)
    PROVE  \/ Begin(r) /\ UNCHANGED rows
           \/ /\ UNCHANGED rows /\ req[r].at # "idle"
              /\ req'[r].op = req[r].op /\ req'[r].target = req[r].target
           \/ /\ AssignRoles(r) \/ AssignMenus(r) \/ Delete(r) \/ SetStatus(r)
                 \/ UpdateRole(r) \/ Create(r)
              /\ req[r] \in Request /\ req[r].at = "write" /\ req'[r].at = "idle"
           \/ UNCHANGED rows /\ req'[r].at = "idle"
<1>1. CASE Begin(r)  BY <1>1 DEF Begin
<1>2. ASSUME NEW c \in Control, req[r].at # "idle", UNCHANGED rows, goto(r, c) \/ finish(r)
      PROVE  \/ /\ UNCHANGED rows /\ req[r].at # "idle"
                /\ req'[r].op = req[r].op /\ req'[r].target = req[r].target
             \/ UNCHANGED rows /\ req'[r].at = "idle"
  <2>1. CASE goto(r, c)  BY <1>2, <2>1, CheckMoves
  <2>2. CASE finish(r)  BY <1>2, <2>2 DEF finish, TypeInv, TypeOK, Idle
  <2> QED  BY <1>2, <2>1, <2>2
<1>3. CASE PermitMenus(r) \/ GuardActor(r) \/ GuardTarget(r) \/ FindUser(r)
           \/ FindRoles(r) \/ FindRole(r) \/ CountHolders(r) \/ FindMenus(r) \/ Fail(r)
  <2>1. req[r].at # "idle" /\ UNCHANGED rows /\ \E c \in Control : goto(r, c) \/ finish(r)
    BY <1>3 DEF PermitMenus, GuardActor, GuardTarget, FindUser, FindRoles, FindRole,
       CountHolders, FindMenus, Fail, check, first, afterGuard, Control
  <2> QED  BY <1>2, <2>1
<1>4. CASE AssignRoles(r) \/ AssignMenus(r) \/ Delete(r) \/ SetStatus(r) \/ UpdateRole(r)
           \/ Create(r)
  <2>1. req[r].at = "write" /\ finish(r)
    BY <1>4 DEF AssignRoles, AssignMenus, Delete, SetStatus, UpdateRole, Create, write
  <2>2. req[r] \in Request /\ req'[r].at = "idle"
    BY <2>1 DEF finish, TypeInv, TypeOK, Idle
  <2> QED  BY <1>4, <2>1, <2>2
<1> QED  BY <1>1, <1>3, <1>4 DEF Step

LEMMA NamesStayKnown == Spec => []NamesKnown
<1>1. Init => NamesKnown  BY DEF Init, NamesKnown, Idle
<1>2. ASSUME TypeInv, NamesKnown, NEW r \in Requests, Step(r)
      PROVE  NamesKnown'
  <2>1. known \subseteq known'
    BY <1>2, StepMoves DEF rows, AssignRoles, AssignMenus, Delete, SetStatus, UpdateRole,
       Create
  <2>2. deleted' \subseteq known'
    <3>1. CASE Delete(r)
      <4>1. req[r].at # "idle" /\ req[r].op \notin CreateOps
        BY <3>1 DEF Delete, write, DeleteOps, CreateOps
      <4> QED  BY <1>2, <3>1, <4>1 DEF Delete, NamesKnown
    <3>2. CASE ~Delete(r)
      BY <1>2, <2>1, <3>2, StepMoves
         DEF rows, AssignRoles, AssignMenus, SetStatus, UpdateRole, Create, NamesKnown
    <3> QED  BY <3>1, <3>2
  <2>3. ASSUME NEW q \in Requests, req'[q].at # "idle", req'[q].op \notin CreateOps
        PROVE  req'[q].target \in known'
    <3>1. CASE q # r  BY <1>2, <2>1, <2>3, <3>1, OnlyOneMoves DEF NamesKnown
    <3>2. CASE q = r /\ Begin(r)
      <4>1. PICK o \in Ops :
              \E a \in Users \cap known, t \in targets(o), S \in lists(o), b \in statuses(o), d \in codes(o) :
                 req' = [req EXCEPT ![r] =
                    [at |-> permit(a), op |-> o, actor |-> a, target |-> t,
                     picks |-> S, on |-> b, named |-> d]]
        BY <3>2 DEF Begin
      <4>2. PICK t \in targets(o) : req'[r].op = o /\ req'[r].target = t
        BY <1>2, <4>1 DEF TypeInv, TypeOK
      <4>3. o \notin CreateOps => t \in known
        BY DEF targets, Ops, UserOps, GuardedOps, RoleOps, MenuOps, CreateOps
      <4> QED  BY <2>1, <2>3, <3>2, <4>2, <4>3
    <3>3. CASE q = r /\ ~Begin(r)
      BY <1>2, <2>1, <2>3, <3>3, StepMoves DEF NamesKnown
    <3> QED  BY <3>1, <3>2, <3>3
  <2> QED  BY <2>2, <2>3 DEF NamesKnown
<1>3. TypeInv /\ NamesKnown /\ [Next]_vars => NamesKnown'
  <2>1. CASE UNCHANGED vars  BY <2>1 DEF vars, rows, NamesKnown
  <2> QED  BY <1>2, <2>1 DEF Next
<1> QED  BY <1>1, <1>3, TypesAreKept, PTL DEF Spec

\* A request writes to its own target and to nothing else.
LEMMA OnlyTargetIsTouched ==
    ASSUME TypeInv, NamesKnown, NEW r \in Requests, Step(r), NEW x \in known
    PROVE  \/ Untouched(x) /\ (x \in deleted <=> x \in deleted')
           \/ Writes(r, x) /\ req[r].op \notin CreateOps
<1>1. CASE UNCHANGED rows  BY <1>1 DEF rows, Untouched
<1>2. x \in Ids /\ superRole # NoRole => superRole \in Roles
  BY DEF TypeInv, TypeOK
<1>3. ASSUME req[r] \in Request, req[r].at = "write", req'[r].at = "idle"
      PROVE  req[r].target = x => Writes(r, x)
  BY <1>3 DEF Writes
<1>4. CASE AssignRoles(r) \/ AssignMenus(r) \/ Delete(r) \/ SetStatus(r)
  <2>1. req[r].op \notin CreateOps
    BY <1>4 DEF AssignRoles, AssignMenus, Delete, SetStatus, write, DeleteOps, StatusOps,
       CreateOps
  <2>2. req[r].target # x => Untouched(x) /\ (x \in deleted <=> x \in deleted')
    BY <1>4 DEF AssignRoles, AssignMenus, Delete, SetStatus, Untouched
  <2>3. req[r].target = x => Writes(r, x)
    BY <1>3, <1>4, StepMoves DEF AssignRoles, AssignMenus, Delete, SetStatus, write,
       finish, TypeInv, TypeOK, Idle, Writes
  <2> QED  BY <2>1, <2>2, <2>3
<1>5. CASE UpdateRole(r)
  <2>1. req[r].op = "updateRole" /\ req[r].at = "write" /\ req'[r].at = "idle"
    BY <1>5 DEF UpdateRole, write, finish, TypeInv, TypeOK, Idle
  <2>2. req[r].target # x => Untouched(x) /\ (x \in deleted <=> x \in deleted')
    BY <1>2, <1>5, AccessAssumption DEF UpdateRole, Untouched, TypeInv, TypeOK
  <2> QED  BY <2>1, <2>2 DEF Writes, CreateOps
<1>6. CASE Create(r)
  <2>1. req[r].target # x  BY <1>6 DEF Create
  <2>2. Untouched(x) /\ (x \in deleted <=> x \in deleted')
    BY <1>2, <1>6, <2>1, AccessAssumption DEF Create, Untouched, TypeInv, TypeOK
  <2> QED  BY <2>2
<1> QED  BY <1>1, <1>4, <1>5, <1>6, StepMoves

\* Who holds SUPER_ADMIN is deleted, and his status and his roles change, only by an actor
\* who holds it too, or through UpdateUser, unless SUPER_ADMIN was taken from the actor or
\* given to the target between the guard and the write.
THEOREM SuperUsersStayProtected == Spec => SuperUsersAreProtected
<1>1. ASSUME TypeInv, AccessInv, NamesKnown, NEW r \in Requests, Step(r),
             NEW u \in Users \cap known, isSuper(u)
      PROVE  \/ Untouched(u) /\ (u \in deleted <=> u \in deleted')
             \/ /\ Writes(r, u)
                /\ isSuper(req[r].actor) \/ r \in outrun \/ req[r].op = "updateUser"
  <2>1. ASSUME Writes(r, u), req[r].op \in GuardedOps
        PROVE  isSuper(req[r].actor) \/ r \in outrun
    BY <1>1, <2>1 DEF AccessInv, Entitled, guarded, Writes
  <2>2. ASSUME Writes(r, u), req[r].op \notin CreateOps
        PROVE  req[r].op \in GuardedOps \cup {"updateUser"}
    <3>1. req[r] \in Request /\ Matches(req[r]) /\ req[r].at # "idle"
      BY <1>1, <2>2 DEF Writes, TypeInv, TypeOK, Idle
    <3>2. req[r].op \in Ops /\ req[r].target \in Users
      BY <2>2, <3>1 DEF Request, Writes
    <3> QED  BY <2>2, <3>1, <3>2, AccessAssumption DEF Matches, Ops, UserOps
  <2> QED  BY <1>1, <2>1, <2>2, OnlyTargetIsTouched
<1>2. TypeInv /\ AccessInv /\ NamesKnown /\ [Next]_vars =>
        [\A u \in Users \cap known : isSuper(u) =>
            \/ Untouched(u) /\ (u \in deleted <=> u \in deleted')
            \/ \E r \in Requests :
                  /\ Writes(r, u)
                  /\ isSuper(req[r].actor) \/ r \in outrun \/ req[r].op = "updateUser"]_vars
  BY <1>1 DEF Next
<1> QED  BY <1>2, AccessInvHolds, NamesStayKnown, PTL DEF Spec, SuperUsersAreProtected

\* Deletion is for good, and to a deleted row only a request that had found it before its
\* deletion still writes: status, code and assignments stay otherwise.
THEOREM DeletedRowsAreLeftAlone == Spec => DeletedIsLeftAlone
<1>1. ASSUME TypeInv, AccessInv, NamesKnown, NEW r \in Requests, Step(r)
      PROVE  /\ deleted \subseteq deleted'
             /\ \A t \in deleted : Untouched(t) \/ (r \in bereft /\ Writes(r, t))
  <2>1. deleted \subseteq deleted'
    BY <1>1, StepMoves DEF rows, AssignRoles, AssignMenus, Delete, SetStatus, UpdateRole,
       Create
  <2>2. ASSUME NEW t \in deleted, ~Untouched(t)
        PROVE  r \in bereft /\ Writes(r, t)
    <3>1. Writes(r, t) /\ req[r].op \notin CreateOps
      BY <1>1, <2>2, OnlyTargetIsTouched DEF NamesKnown
    <3>2. req[r].target = t /\ req[r].at = "write"  BY <3>1 DEF Writes
    <3>3. CASE req[r].op \in LookupOps
      BY <1>1, <2>2, <3>1, <3>2, <3>3 DEF AccessInv, Finds, found
    <3>4. CASE req[r].op \notin LookupOps
      <4>1. Delete(r) \/ SetStatus(r) \/ UpdateRole(r) \/ Create(r) \/ UNCHANGED rows
        BY <1>1, <3>4, StepMoves, <3>2 DEF AssignRoles, AssignMenus, write, LookupOps
      <4>2. Untouched(t)
        BY <1>1, <2>2, <3>1, <3>2, <3>4, <4>1
           DEF Delete, SetStatus, UpdateRole, Create, rows, Untouched, write, LookupOps, CreateOps
      <4> QED  BY <2>2, <4>2
    <3> QED  BY <3>3, <3>4
  <2> QED  BY <2>1, <2>2
<1>2. TypeInv /\ AccessInv /\ NamesKnown /\ [Next]_vars =>
        [/\ deleted \subseteq deleted'
         /\ \A t \in deleted : Untouched(t) \/ \E r \in bereft : Writes(r, t)]_vars
  BY <1>1 DEF Next
<1> QED  BY <1>2, AccessInvHolds, NamesStayKnown, PTL DEF Spec, DeletedIsLeftAlone

=============================================================================
