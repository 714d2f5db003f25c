------------------------------ MODULE Hierarchy ------------------------------
(***************************************************************************)
(* The two trees of the Go backend: menus (menu_service.go) and            *)
(* departments with the users assigned to them (dept_service.go,           *)
(* user_service.go saveUser).                                              *)
(*                                                                         *)
(* Every save and delete first asks the database a few questions and then  *)
(* writes one row, each in a statement of its own and outside of any       *)
(* transaction; requests run concurrently, and a request may end between   *)
(* two statements.  Deletion is logical: a deleted row keeps its parent.   *)
(*                                                                         *)
(* Abstracted: names, codes, sort keys and status of a row, the leader of  *)
(* a department.  The ids a request names are ids the server handed out.   *)
(***************************************************************************)
EXTENDS FiniteSets

CONSTANTS
    Nodes,      \* ids that NewID may give to rows
    Root,       \* parent_id 0
    Members,    \* users
    Requests,   \* the requests that can be in progress at one time
    QueriesFail \* whether a walk may fail to read the rows

ASSUME RootAssumption == Root \notin Nodes

\* An id has 64 bits.
ASSUME NodesAssumption == IsFiniteSet(Nodes)

ASSUME QueriesFailAssumption == QueriesFail \in BOOLEAN

VARIABLES
    table,            \* "menu" or "dept"
    state,            \* "absent", "live" or "deleted"
    parent,           \* parent_id of each row
    dept,             \* dept_id of each user, Root for none
    pc,               \* where each request is
    id,               \* the row a request is about, or Root
    to,               \* the parent or department a request names, or Root
    member,           \* the user whose department a request saves
    doubtful,         \* the requests whose walk may have given a wrong answer
    dubious,          \* the live rows that such a request moved last
    raced             \* the rows that were contested while their deletion was under way

rows == <<state, parent, dept>>
requests == <<pc, id, to, member>>
history == <<doubtful, dubious, raced>>
vars == <<table, rows, requests, history>>

Control == {"idle", "createParent", "createInsert", "moveParent", "moveWalk", "moveUpdate",
            "deleteChildren", "deleteMembers", "deleteErase", "joinDept", "joinAssign"}

TypeOK ==
    /\ table \in {"menu", "dept"}
    /\ state \in [Nodes -> {"absent", "live", "deleted"}]
    /\ parent \in [Nodes -> Nodes \cup {Root}]
    /\ dept \in [Members -> Nodes \cup {Root}]
    /\ pc \in [Requests -> Control]
    /\ id \in [Requests -> Nodes \cup {Root}]
    /\ to \in [Requests -> Nodes \cup {Root}]
    /\ member \in [Requests -> SUBSET Members]
    /\ doubtful \subseteq Requests
    /\ dubious \subseteq Nodes
    /\ raced \subseteq Nodes

Init ==
    /\ table \in {"menu", "dept"}
    /\ state = [n \in Nodes |-> "absent"]
    /\ parent = [n \in Nodes |-> Root]
    /\ dept = [u \in Members |-> Root]
    /\ pc = [r \in Requests |-> "idle"]
    /\ id = [r \in Requests |-> Root]
    /\ to = [r \in Requests |-> Root]
    /\ member = [r \in Requests |-> {}]
    /\ doubtful = {}
    /\ dubious = {}
    /\ raced = {}

-----------------------------------------------------------------------------
(* What the statements read. *)

Live == {n \in Nodes : state[n] = "live"}
Known == {n \in Nodes : state[n] # "absent"}

ChildrenOf(n) == {m \in Live : parent[m] = n}

ClosedDownwards(S) == \A m \in S : ChildrenOf(m) \subseteq S

\* The rows that walking down the live rows from n meets.
Descendants(n) ==
    {m \in Live : \A S \in SUBSET Live :
        ChildrenOf(n) \subseteq S /\ ClosedDownwards(S) => m \in S}

\* Mutant: only the rows directly below are refused.
isDescendantBug(n, m) == m \in ChildrenOf(n)

\* isMenuDescendant, isDeptDescendant.
isDescendant(n, m) == m \in Descendants(n)

onCycle(n) == isDescendant(n, n)

\* Deleting, re-parenting or joining a row that does not exist changes no row.
Exists(n) == n \in Live \cup {Root}

-----------------------------------------------------------------------------
(* The requests, statement by statement. *)

\* r starts at control point p.
begin(r, p, n, target, users) ==
    /\ pc[r] = "idle"
    /\ pc' = [pc EXCEPT ![r] = p]
    /\ id' = [id EXCEPT ![r] = n]
    /\ to' = [to EXCEPT ![r] = target]
    /\ member' = [member EXCEPT ![r] = users]
    /\ UNCHANGED <<table, rows, doubtful, dubious>>

goto(r, p) ==
    /\ pc' = [pc EXCEPT ![r] = p]
    /\ UNCHANGED <<id, to, member, table, dubious>>

leave(r) ==
    /\ pc' = [pc EXCEPT ![r] = "idle"]
    /\ id' = [id EXCEPT ![r] = Root]
    /\ to' = [to EXCEPT ![r] = Root]
    /\ member' = [member EXCEPT ![r] = {}]
    /\ UNCHANGED table

finish(r) ==
    /\ leave(r)
    /\ doubtful' = doubtful \ {r}
    /\ UNCHANGED dubious

BeginCreate(r) ==
    \E n \in Known \cup {Root} : begin(r, "createParent", Root, n, {})

\* saveMenu looks up the parent first, saveDept the descendants.
BeginMove(r) ==
    \E n \in Known, m \in Known \cup {Root} :
        begin(r, IF table = "menu" THEN "moveParent" ELSE "moveWalk", n, m, {})

BeginDelete(r) == \E n \in Known : begin(r, "deleteChildren", n, Root, {})

\* CreateUser or UpdateUser.
BeginJoin(r) ==
    /\ table = "dept"
    /\ \E u \in Members, n \in Known \cup {Root} : begin(r, "joinDept", Root, n, {u})

afterParent(r) ==
    IF pc[r] = "createParent" THEN "createInsert"
    ELSE IF table = "menu" THEN "moveWalk" ELSE "moveUpdate"

\* A count of live rows with the parent's id; parent_id 0 is not looked up.
CheckParent(r) ==
    /\ pc[r] \in {"createParent", "moveParent"}
    /\ \/ ~Exists(to[r]) /\ finish(r)
       \/ Exists(to[r]) /\ goto(r, afterParent(r)) /\ UNCHANGED doubtful
    /\ UNCHANGED rows

Insert(r) ==
    /\ pc[r] = "createInsert"
    /\ \E n \in Nodes :
        /\ state[n] = "absent"
        /\ state' = [state EXCEPT ![n] = "live"]
        /\ parent' = [parent EXCEPT ![n] = to[r]]
    /\ finish(r)
    /\ UNCHANGED dept

\* Mutant: saveDept does not look up the new parent.
afterWalkBug == "moveUpdate"

afterWalk == IF table = "menu" THEN "moveUpdate" ELSE "moveParent"

\* The row's own id and a row that the walk finds below it are refused as parent.
WalkRefuses(r) ==
    /\ pc[r] = "moveWalk"
    /\ to[r] = id[r] \/ isDescendant(id[r], to[r])
    /\ finish(r)
    /\ UNCHANGED rows

\* Nothing is read for parent_id 0.
WalkAccepts(r) ==
    /\ pc[r] = "moveWalk"
    /\ to[r] # id[r]
    /\ \/ to[r] = Root
       \/ ~isDescendant(id[r], to[r]) /\ ~onCycle(id[r])
    /\ goto(r, afterWalk)
    /\ UNCHANGED <<rows, doubtful>>

\* The error of the query is dropped: no rows, no descendants.
WalkReadsNothing(r) ==
    /\ pc[r] = "moveWalk" /\ QueriesFail
    /\ to[r] \notin {Root, id[r]}
    /\ goto(r, afterWalk)
    /\ doubtful' = doubtful \cup {r}
    /\ UNCHANGED rows

\* A walk that goes round a cycle recurses until the stack overflows, which ends
\* the server and every request with it.  It finds a row on the cycle in any case,
\* one off it when that branch is read first.
WalkOverflows(r) ==
    /\ pc[r] = "moveWalk"
    /\ to[r] \notin {Root, id[r]}
    /\ onCycle(id[r])
    /\ ~onCycle(to[r]) \/ ~isDescendant(id[r], to[r])
    /\ pc' = [q \in Requests |-> "idle"]
    /\ id' = [q \in Requests |-> Root]
    /\ to' = [q \in Requests |-> Root]
    /\ member' = [q \in Requests |-> {}]
    /\ doubtful' = {}
    /\ UNCHANGED <<table, rows, dubious>>

\* r has walked, and is going to write without another walk.
walked(r) ==
    /\ to[r] # Root
    /\ pc[r] = "moveUpdate" \/ (table = "dept" /\ pc[r] = "moveParent")

\* r puts its row under its new parent: the walk of every other request that is past
\* it read another tree.
move(r) ==
    /\ parent' = [parent EXCEPT ![id[r]] = to[r]]
    /\ dubious' = IF r \in doubtful THEN dubious \cup {id[r]} ELSE dubious \ {id[r]}
    /\ doubtful' = (doubtful \cup {q \in Requests : walked(q)}) \ {r}
    /\ leave(r)

\* Mutant: UPDATE ... WHERE id = ?.
UpdateBug(r) ==
    /\ pc[r] = "moveUpdate"
    /\ move(r)
    /\ UNCHANGED <<state, dept>>

\* UPDATE ... WHERE id = ? AND deleted = 0.
Update(r) ==
    /\ pc[r] = "moveUpdate"
    /\ \/ id[r] \in Live /\ move(r)
       \/ id[r] \notin Live /\ finish(r) /\ UNCHANGED parent
    /\ UNCHANGED <<state, dept>>

CountChildren(r) ==
    /\ pc[r] = "deleteChildren"
    /\ \/ ChildrenOf(id[r]) # {} /\ finish(r)
       \/ /\ ChildrenOf(id[r]) = {}
          /\ goto(r, IF table = "menu" THEN "deleteErase" ELSE "deleteMembers")
          /\ UNCHANGED doubtful
    /\ UNCHANGED rows

\* DeleteDept also counts the users of the department.
CountMembers(r) ==
    /\ pc[r] = "deleteMembers"
    /\ \/ id[r] \in {dept[u] : u \in Members} /\ finish(r)
       \/ /\ id[r] \notin {dept[u] : u \in Members}
          /\ goto(r, "deleteErase")
          /\ UNCHANGED doubtful
    /\ UNCHANGED rows

\* Mutant: the row is removed from the table.
EraseBug(r) ==
    /\ pc[r] = "deleteErase"
    /\ state' = [n \in Nodes \ {id[r]} |-> state[n]]
    /\ finish(r)
    /\ UNCHANGED <<parent, dept>>

Erase(r) ==
    /\ pc[r] = "deleteErase"
    /\ state' = [state EXCEPT ![id[r]] = "deleted"]
    /\ dubious' = dubious \ {id[r]}
    /\ leave(r)
    /\ UNCHANGED <<parent, dept, doubtful>>

\* saveUser: the department is counted, then the user is written.
CheckDept(r) ==
    /\ pc[r] = "joinDept"
    /\ \/ ~Exists(to[r]) /\ finish(r)
       \/ Exists(to[r]) /\ goto(r, "joinAssign") /\ UNCHANGED doubtful
    /\ UNCHANGED rows

Assign(r) ==
    /\ pc[r] = "joinAssign"
    /\ dept' = [u \in Members |-> IF u \in member[r] THEN to[r] ELSE dept[u]]
    /\ finish(r)
    /\ UNCHANGED <<state, parent>>

\* The database fails or the server stops.
Fail(r) ==
    /\ pc[r] # "idle"
    /\ finish(r)
    /\ UNCHANGED rows

Step(r) ==
    \/ BeginCreate(r) \/ BeginMove(r) \/ BeginDelete(r) \/ BeginJoin(r)
    \/ CheckParent(r) \/ Insert(r)
    \/ WalkRefuses(r) \/ WalkAccepts(r) \/ WalkReadsNothing(r) \/ WalkOverflows(r)
    \/ Update(r)
    \/ CountChildren(r) \/ CountMembers(r) \/ Erase(r)
    \/ CheckDept(r) \/ Assign(r)
    \/ Fail(r)

\* r has looked n up and is going to refer to it; r has found that nothing hangs
\* under n and is going to delete it.
lookedUp(r, n) ==
    /\ to[r] = n
    /\ \/ pc[r] \in {"createInsert", "moveUpdate", "joinAssign"}
       \/ table = "menu" /\ pc[r] = "moveWalk"

counted(r, n) == id[r] = n /\ pc[r] \in {"deleteMembers", "deleteErase"}

\* The rows that one request is about to refer to and another to delete, each after
\* its checks.
Contested ==
    {n \in Nodes : \E q, r \in Requests :
        /\ lookedUp(q, n) /\ counted(r, n)
        /\ pc[q] = "joinAssign" => pc[r] = "deleteErase"}

\* What is contested is raced for until its deletion is given up.
Race ==
    raced' = {n \in raced \cup Contested' :
                n \notin Live' \/ \E r \in Requests : counted(r, n)'}

Next == (\E r \in Requests : Step(r)) /\ Race

Spec == Init /\ [][Next]_vars

-----------------------------------------------------------------------------
(* What must hold. *)

\* Walking up from a row of R within R ends: every set of such rows has one whose
\* parent is outside of it.
NoCycleAmong(R) == \A S \in SUBSET R : S # {} => \E n \in S : parent[n] \notin S

\* No row becomes its own ancestor: "a department cannot be put under itself or its
\* sub-departments", however the requests interleave.
NoCycle == NoCycleAmong(Live)

\* Every cycle goes through a row that was put there wrongly: between the walk for it
\* and the write another row was moved, or the walk could not read the tree.  Deletes
\* and creates may run between the statements of an update, and what happened to
\* other rows, or earlier, does no harm.
CycleNeedsRaceOrError == NoCycleAmong(Live \ dubious)

\* A live row hangs under a live row and a user's department exists, but for those
\* under a row that was deleted by one request while another, past its lookup of that
\* row, was about to put them there.
NoStrandingUnlessRaced ==
    /\ \A n \in Live : Exists(parent[n]) \/ parent[n] \in raced
    /\ \A u \in Members : Exists(dept[u]) \/ dept[u] \in raced

\* A row that a delete took away stays away and keeps its place: no late update
\* of a concurrent request moves or revives it.
DeletedStaysPut ==
    [][\A n \in Nodes : state[n] = "deleted" =>
          state'[n] = "deleted" /\ parent'[n] = parent[n]]_vars

=============================================================================
