--------------------------- MODULE HierarchyProofs ---------------------------
(***************************************************************************)
(* The properties of Hierarchy and TreeView for any number of rows, users  *)
(* and concurrent requests.                                                *)
(***************************************************************************)
EXTENDS TreeView, FiniteSetTheorems, SequenceTheorems, TLAPS

USE RootAssumption

-----------------------------------------------------------------------------
(* The steps of a request. *)

\* How a request begins.
LEMMA BeginOutcome ==
    ASSUME NEW r \in Requests,
           BeginCreate(r) \/ BeginMove(r) \/ BeginDelete(r) \/ BeginJoin(r)
    PROVE  \E c \in {"createParent", "moveParent", "moveWalk", "deleteChildren", "joinDept"},
              n, m \in Known \cup {Root}, U \in SUBSET Members :
               /\ begin(r, c, n, m, U)
               /\ c \in {"moveParent", "moveWalk"} =>
                      c = IF table = "menu" THEN "moveParent" ELSE "moveWalk"
               /\ c = "joinDept" => table = "dept"
<1>1. CASE BeginCreate(r)  BY <1>1 DEF BeginCreate
<1>2. CASE BeginMove(r)
  <2>1. PICK n \in Known, m \in Known \cup {Root} :
            begin(r, IF table = "menu" THEN "moveParent" ELSE "moveWalk", n, m, {})
    BY <1>2 DEF BeginMove
  <2> QED  BY <2>1
<1>3. CASE BeginDelete(r)  BY <1>3 DEF BeginDelete
<1>4. CASE BeginJoin(r)
  <2>1. PICK u \in Members, m \in Known \cup {Root} : begin(r, "joinDept", Root, m, {u})
    BY <1>4 DEF BeginJoin
  <2> QED  BY <1>4, <2>1 DEF BeginJoin
<1> QED  BY <1>1, <1>2, <1>3, <1>4

\* The steps that write no row: a request begins, goes on, or ends.
Goes(r, c) == pc[r] # "idle" /\ goto(r, c) /\ UNCHANGED rows

\* What the steps come to.
LEMMA StepOutcome ==
    ASSUME NEW r \in Requests, Step(r)
    PROVE  \/ BeginCreate(r) \/ BeginMove(r) \/ BeginDelete(r) \/ BeginJoin(r)
           \/ finish(r) /\ UNCHANGED rows
           \/ Insert(r) \/ Erase(r) \/ Assign(r) \/ WalkOverflows(r)
           \/ WalkAccepts(r) \/ WalkReadsNothing(r)
           \/ id[r] \in Live /\ Update(r)
           \/ /\ pc[r] \in {"createParent", "moveParent"} /\ Exists(to[r])
              /\ Goes(r, afterParent(r)) /\ UNCHANGED doubtful
           \/ /\ pc[r] = "deleteChildren" /\ ChildrenOf(id[r]) = {}
              /\ Goes(r, IF table = "menu" THEN "deleteErase" ELSE "deleteMembers")
              /\ UNCHANGED doubtful
           \/ /\ pc[r] = "deleteMembers" /\ id[r] \notin {dept[u] : u \in Members}
              /\ Goes(r, "deleteErase") /\ UNCHANGED doubtful
           \/ /\ pc[r] = "joinDept" /\ Exists(to[r])
              /\ Goes(r, "joinAssign") /\ UNCHANGED doubtful
<1>1. CASE CheckParent(r)  BY <1>1, Zenon DEF CheckParent, Goes
<1>2. CASE CountChildren(r)  BY <1>2, Zenon DEF CountChildren, Goes
<1>3. CASE CountMembers(r)  BY <1>3, Zenon DEF CountMembers, Goes
<1>4. CASE CheckDept(r)  BY <1>4, Zenon DEF CheckDept, Goes
<1>5. CASE WalkRefuses(r) \/ Fail(r)  BY <1>5, Zenon DEF WalkRefuses, Fail
<1>6. CASE Update(r) /\ id[r] \notin Live  BY <1>6 DEF Update, rows
<1> QED  BY <1>1, <1>2, <1>3, <1>4, <1>5, <1>6, Zenon DEF Step

\* A step of one request leaves the others where they are, unless it ends the server.
LEMMA OthersStay ==
    ASSUME TypeOK, NEW r \in Requests, Step(r), NEW q \in Requests, q # r
    PROVE  \/ pc'[q] = pc[q] /\ id'[q] = id[q] /\ to'[q] = to[q]
           \/ pc'[q] = "idle" /\ id'[q] = Root /\ to'[q] = Root
<1> USE DEF TypeOK
<1>1. CASE BeginCreate(r) \/ BeginMove(r) \/ BeginDelete(r) \/ BeginJoin(r)
  BY <1>1, BeginOutcome DEF begin
<1>2. CASE leave(r)  BY <1>2 DEF leave
<1>3. CASE \E c \in Control : goto(r, c)  BY <1>3 DEF goto
<1>4. CASE WalkOverflows(r)  BY <1>4 DEF WalkOverflows
<1>5. CASE WalkAccepts(r) \/ WalkReadsNothing(r)
  BY <1>3, <1>5 DEF WalkAccepts, WalkReadsNothing, afterWalk, Control
<1>6. finish(r) \/ Insert(r) \/ Erase(r) \/ Assign(r) \/ (id[r] \in Live /\ Update(r))
        => leave(r)
  BY DEF finish, Insert, Erase, Assign, Update, move
<1>7. \A c : Goes(r, c) => goto(r, c)  BY DEF Goes
<1>8. afterParent(r) \in Control  BY DEF afterParent, Control
<1> QED  BY <1>1, <1>2, <1>3, <1>4, <1>5, <1>6, <1>7, <1>8, StepOutcome DEF Control

\* The table is the same in every step.
LEMMA SameTable ==
    ASSUME NEW r \in Requests, Step(r)
    PROVE  table' = table
<1>1. CASE BeginCreate(r) \/ BeginMove(r) \/ BeginDelete(r) \/ BeginJoin(r)
  BY <1>1, BeginOutcome DEF begin
<1>2. leave(r) \/ (\E c : goto(r, c)) => table' = table  BY DEF leave, goto
<1>3. WalkOverflows(r) => table' = table  BY DEF WalkOverflows
<1>4. WalkAccepts(r) \/ WalkReadsNothing(r) \/ (\E c : Goes(r, c)) => \E c : goto(r, c)
  BY DEF WalkAccepts, WalkReadsNothing, Goes
<1>5. finish(r) \/ Insert(r) \/ Erase(r) \/ Assign(r) \/ (id[r] \in Live /\ Update(r))
        => leave(r)
  BY DEF finish, Insert, Erase, Assign, Update, move
<1> QED  BY <1>1, <1>2, <1>3, <1>4, <1>5, StepOutcome

-----------------------------------------------------------------------------
(* Types. *)

\* Every step of a request keeps the state in its types.
LEMMA StepKeepsTypes ==
    ASSUME TypeOK, NEW r \in Requests, Step(r), Race
    PROVE  TypeOK'
<1> USE DEF TypeOK, Control
<1>1. raced' \subseteq Nodes  BY DEF Race, Contested
<1>2. table' \in {"menu", "dept"}  BY SameTable
<1>3. CASE BeginCreate(r) \/ BeginMove(r) \/ BeginDelete(r) \/ BeginJoin(r)
  <2>1. PICK c \in Control, n, m \in Nodes \cup {Root}, U \in SUBSET Members :
            begin(r, c, n, m, U)
    BY <1>3, BeginOutcome DEF Known
  <2> QED  BY <1>1, <1>2, <2>1 DEF begin, rows
<1>4. ASSUME leave(r)
      PROVE  /\ pc' \in [Requests -> Control]
             /\ id' \in [Requests -> Nodes \cup {Root}]
             /\ to' \in [Requests -> Nodes \cup {Root}]
             /\ member' \in [Requests -> SUBSET Members]
  BY <1>4 DEF leave
<1>5. ASSUME finish(r)
      PROVE  leave(r) /\ doubtful' \subseteq Requests /\ dubious' \subseteq Nodes
  BY <1>5 DEF finish
<1>6. CASE finish(r) /\ UNCHANGED rows  BY <1>1, <1>2, <1>4, <1>5, <1>6 DEF rows
<1>7. CASE \E c \in Control : goto(r, c) /\ UNCHANGED rows /\ doubtful' \subseteq Requests
  BY <1>1, <1>2, <1>7 DEF goto, rows
<1>8. CASE Insert(r)
  <2>1. PICK n \in Nodes : /\ state' = [state EXCEPT ![n] = "live"]
                           /\ parent' = [parent EXCEPT ![n] = to[r]]
    BY <1>8 DEF Insert
  <2> QED  BY <1>1, <1>2, <1>4, <1>5, <1>8, <2>1 DEF Insert
<1>9. CASE Erase(r)  BY <1>1, <1>2, <1>4, <1>9 DEF Erase
<1>10. CASE Assign(r)
  <2>1. dept' \in [Members -> Nodes \cup {Root}]  BY <1>10 DEF Assign
  <2> QED  BY <1>1, <1>2, <1>4, <1>5, <1>10, <2>1 DEF Assign
<1>11. CASE WalkOverflows(r)  BY <1>1, <1>2, <1>11 DEF WalkOverflows, rows
<1>12. CASE WalkAccepts(r) \/ WalkReadsNothing(r)
  BY <1>7, <1>12 DEF WalkAccepts, WalkReadsNothing, afterWalk
<1>13. CASE id[r] \in Live /\ Update(r)
  <2>1. move(r) /\ UNCHANGED <<state, dept>> /\ id[r] \in Nodes
    BY <1>13 DEF Update, Live
  <2>2. parent' \in [Nodes -> Nodes \cup {Root}]  BY <2>1 DEF move
  <2>3. doubtful' \subseteq Requests /\ dubious' \subseteq Nodes  BY <2>1 DEF move
  <2> QED  BY <1>1, <1>2, <1>4, <2>1, <2>2, <2>3 DEF move
<1>14. CASE \E c \in Control : Goes(r, c) /\ UNCHANGED doubtful
  BY <1>7, <1>14 DEF Goes
<1>15. afterParent(r) \in Control  BY DEF afterParent
<1> QED
  BY <1>3, <1>6, <1>8, <1>9, <1>10, <1>11, <1>12, <1>13, <1>14, <1>15, StepOutcome

\* The state of both trees and of the requests on them keeps its types.
THEOREM TypeCorrect == Spec => []TypeOK
<1>1. Init => TypeOK
  <2> SUFFICES ASSUME Init  PROVE TypeOK  OBVIOUS
  <2>1. /\ table \in {"menu", "dept"}
        /\ state \in [Nodes -> {"absent", "live", "deleted"}]
        /\ parent \in [Nodes -> Nodes \cup {Root}]
        /\ dept \in [Members -> Nodes \cup {Root}]
    BY DEF Init
  <2>2. /\ pc \in [Requests -> Control]
        /\ id \in [Requests -> Nodes \cup {Root}]
        /\ to \in [Requests -> Nodes \cup {Root}]
        /\ member \in [Requests -> SUBSET Members]
    BY DEF Init, Control
  <2> QED  BY <2>1, <2>2 DEF Init, TypeOK
<1>2. TypeOK /\ [Next]_vars => TypeOK'
  <2>1. CASE UNCHANGED vars
    BY <2>1 DEF vars, rows, requests, history, TypeOK
  <2> QED  BY <2>1, StepKeepsTypes DEF Next
<1> QED  BY <1>1, <1>2, PTL DEF Spec

-----------------------------------------------------------------------------
(* Deleted rows. *)

\* No late write moves or revives a row that a delete took away: inserts take an
\* unused id, updates are conditional on deleted = 0.
THEOREM DeletedRowsStayPut == Spec => DeletedStaysPut
<1>1. ASSUME TypeOK, [Next]_vars, NEW n \in Nodes, state[n] = "deleted"
      PROVE  state'[n] = "deleted" /\ parent'[n] = parent[n]
  <2>1. CASE UNCHANGED rows  BY <1>1, <2>1 DEF rows
  <2>2. ASSUME NEW r \in Requests, Insert(r)
        PROVE  state'[n] = "deleted" /\ parent'[n] = parent[n]
    BY <1>1, <2>2 DEF Insert, TypeOK
  <2>3. ASSUME NEW r \in Requests, Update(r), id[r] \in Live
        PROVE  state'[n] = "deleted" /\ parent'[n] = parent[n]
    BY <1>1, <2>3 DEF Update, move, TypeOK, Live
  <2>4. ASSUME NEW r \in Requests, Erase(r)
        PROVE  state'[n] = "deleted" /\ parent'[n] = parent[n]
    BY <1>1, <2>4 DEF Erase, TypeOK
  <2>5. ASSUME NEW r \in Requests, Assign(r)
        PROVE  state'[n] = "deleted" /\ parent'[n] = parent[n]
    BY <1>1, <2>5 DEF Assign
  <2>6. ASSUME NEW r \in Requests, Step(r)
        PROVE  \/ UNCHANGED rows
               \/ Insert(r) \/ Erase(r) \/ Assign(r)
               \/ id[r] \in Live /\ Update(r)
    <3>1. BeginCreate(r) \/ BeginMove(r) \/ BeginDelete(r) \/ BeginJoin(r) => UNCHANGED rows
      BY <2>6, BeginOutcome DEF begin
    <3>2. WalkOverflows(r) \/ WalkAccepts(r) \/ WalkReadsNothing(r) => UNCHANGED rows
      BY DEF WalkOverflows, WalkAccepts, WalkReadsNothing
    <3>3. \A c : Goes(r, c) => UNCHANGED rows  BY DEF Goes
    <3> QED  BY <2>6, <3>1, <3>2, <3>3, StepOutcome
  <2>7. CASE UNCHANGED vars  BY <2>1, <2>7 DEF vars
  <2> QED  BY <1>1, <2>1, <2>2, <2>3, <2>4, <2>5, <2>6, <2>7 DEF Next
<1>2. TypeOK /\ [Next]_vars =>
        [\A n \in Nodes : state[n] = "deleted" =>
            state'[n] = "deleted" /\ parent'[n] = parent[n]]_vars
  BY <1>1
<1> QED  BY <1>2, TypeCorrect, PTL DEF Spec, DeletedStaysPut

-----------------------------------------------------------------------------
(***************************************************************************)
(* Cycles.  The inductive invariant: a parent is a row that exists or did, *)
(* and from the walk on, as long as no other row was moved, the row that   *)
(* an update moves is cut off from its new parent by a set of live rows    *)
(* that holds all that hangs below it.  Inserts and deletes add a row to   *)
(* that set or take one away, and neither lets the new parent in.          *)
(***************************************************************************)

ParentsKnown == \A n \in Known : parent[n] \in Known \cup {Root}

RequestsKnown ==
    \A r \in Requests : id[r] \in Known \cup {Root} /\ to[r] \in Known \cup {Root}

\* S holds all that hangs below n.
Below(n, S) == ChildrenOf(n) \subseteq S /\ ClosedDownwards(S)

Separated(r) ==
    /\ to[r] # id[r]
    /\ \E S \in SUBSET Live : Below(id[r], S) /\ to[r] \notin S

MovesSeparated == \A r \in Requests \ doubtful : walked(r) => Separated(r)

CycleInv ==
    /\ ParentsKnown
    /\ RequestsKnown
    /\ MovesSeparated
    /\ CycleNeedsRaceOrError

\* Parents and what the requests name stay rows that exist or did.
LEMMA StepKeepsParentsKnown ==
    ASSUME TypeOK, ParentsKnown, RequestsKnown, NEW r \in Requests, Step(r)
    PROVE  ParentsKnown' /\ RequestsKnown'
<1> USE DEF TypeOK, ParentsKnown, RequestsKnown, Known
<1>1. ASSUME Known \subseteq Known',
             id'[r] \in Known \cup {Root} /\ to'[r] \in Known \cup {Root}
      PROVE  RequestsKnown'
  BY <1>1, OthersStay
<1>2. leave(r) => id'[r] = Root /\ to'[r] = Root  BY DEF leave
<1>3. CASE Insert(r)
  <2>1. PICK n \in Nodes : /\ state[n] = "absent"
                           /\ state' = [state EXCEPT ![n] = "live"]
                           /\ parent' = [parent EXCEPT ![n] = to[r]]
    BY <1>3 DEF Insert
  <2>2. Known' = Known \cup {n}  BY <2>1
  <2>3. ParentsKnown'  BY <2>1, <2>2
  <2> QED  BY <1>1, <1>2, <1>3, <2>2, <2>3 DEF Insert, finish
<1>4. CASE id[r] \in Live /\ Update(r)
  <2>1. move(r) /\ UNCHANGED state  BY <1>4 DEF Update
  <2>2. ParentsKnown'  BY <2>1 DEF move
  <2> QED  BY <1>1, <1>2, <2>1, <2>2 DEF move
<1>5. CASE Erase(r)
  <2>1. Known' = Known /\ UNCHANGED parent  BY <1>5 DEF Erase
  <2> QED  BY <1>1, <1>2, <1>5, <2>1 DEF Erase
<1>6. CASE BeginCreate(r) \/ BeginMove(r) \/ BeginDelete(r) \/ BeginJoin(r)
  <2>1. UNCHANGED <<state, parent>>
        /\ id'[r] \in Known \cup {Root} /\ to'[r] \in Known \cup {Root}
    BY <1>6, BeginOutcome DEF begin, rows
  <2> QED  BY <1>1, <2>1
<1>7. CASE Assign(r) \/ (finish(r) /\ UNCHANGED rows)
  <2>1. UNCHANGED <<state, parent>> /\ leave(r)  BY <1>7 DEF Assign, finish, rows
  <2> QED  BY <1>1, <1>2, <2>1
<1>8. CASE WalkOverflows(r)
  <2>1. UNCHANGED <<state, parent>> /\ id'[r] = Root /\ to'[r] = Root
    BY <1>8 DEF WalkOverflows, rows
  <2> QED  BY <1>1, <2>1
<1>9. CASE \E c : goto(r, c) /\ UNCHANGED rows
  <2>1. UNCHANGED <<state, parent, id, to>>  BY <1>9 DEF goto, rows
  <2> QED  BY <1>1, <2>1
<1>10. WalkAccepts(r) \/ WalkReadsNothing(r) \/ (\E c : Goes(r, c))
         => \E c : goto(r, c) /\ UNCHANGED rows
  BY DEF WalkAccepts, WalkReadsNothing, Goes
<1> QED  BY <1>3, <1>4, <1>5, <1>6, <1>7, <1>8, <1>9, <1>10, StepOutcome

\* A step that changes no row, and after which only requests that had walked before
\* have walked without a doubt.
LEMMA SameTreeKeepsCycleInv ==
    ASSUME MovesSeparated, CycleNeedsRaceOrError, UNCHANGED <<state, parent, dubious>>,
           \A q \in Requests \ doubtful' : walked(q)' =>
               walked(q) /\ q \notin doubtful /\ id'[q] = id[q] /\ to'[q] = to[q]
    PROVE  MovesSeparated' /\ CycleNeedsRaceOrError'
<1>1. Live' = Live  BY DEF Live
<1>2. CycleNeedsRaceOrError'
  BY <1>1 DEF CycleNeedsRaceOrError, NoCycleAmong
<1>3. ASSUME NEW q \in Requests \ doubtful', walked(q)'  PROVE Separated(q)'
  <2>1. Separated(q) /\ id'[q] = id[q] /\ to'[q] = to[q]  BY <1>3 DEF MovesSeparated
  <2>2. PICK S \in SUBSET Live : Below(id[q], S) /\ to[q] \notin S  BY <2>1 DEF Separated
  <2>3. Below(id[q], S)'  BY <1>1, <2>1, <2>2 DEF Below, ClosedDownwards, ChildrenOf
  <2> QED  BY <1>1, <2>1, <2>2, <2>3 DEF Separated
<1> QED  BY <1>2, <1>3 DEF MovesSeparated

\* A request that writes and is not an update leaves the walks of the others as good
\* as they were.
LEMMA WalksStay ==
    ASSUME TypeOK, NEW r \in Requests, Step(r), leave(r), doubtful \subseteq doubtful' \cup {r}
    PROVE  \A q \in Requests \ doubtful' : walked(q)' =>
               walked(q) /\ q \notin doubtful /\ id'[q] = id[q] /\ to'[q] = to[q]
BY OthersStay, SameTable DEF leave, walked, TypeOK

\* A new row has nothing below it, so it can be added to what is below another.
LEMMA InsertKeepsCycleInv ==
    ASSUME TypeOK, CycleInv, NEW r \in Requests, Insert(r)
    PROVE  MovesSeparated' /\ CycleNeedsRaceOrError'
<1> USE DEF TypeOK
<1>1. PICK n \in Nodes : /\ state[n] = "absent"
                         /\ state' = [state EXCEPT ![n] = "live"]
                         /\ parent' = [parent EXCEPT ![n] = to[r]]
  BY DEF Insert
<1>2. Live' = Live \cup {n} /\ n \notin Live /\ dubious' = dubious
  BY <1>1 DEF Live, Insert, finish
<1>3. \A q \in Requests : to[q] # n
  BY <1>1 DEF CycleInv, RequestsKnown, Known
<1>4. \A m \in Live : parent[m] # n  BY <1>1 DEF CycleInv, ParentsKnown, Known, Live
<1>5. /\ \A m \in Live : parent'[m] = parent[m]
      /\ parent'[n] = to[r]
  BY <1>1, <1>2 DEF Live
<1>6. ASSUME NEW S \in SUBSET (Live' \ dubious'), S # {}
      PROVE  \E m \in S : parent'[m] \notin S
  <2>1. CASE S \ {n} = {}  BY <1>3, <1>5, <1>6, <2>1
  <2>2. CASE S \ {n} # {}
    <3>1. PICK m \in S \ {n} : parent[m] \notin S \ {n}
      BY <1>2, <2>2 DEF CycleInv, CycleNeedsRaceOrError, NoCycleAmong
    <3> QED  BY <1>2, <1>4, <1>5, <3>1
  <2> QED  BY <2>1, <2>2
<1>7. ASSUME NEW q \in Requests \ doubtful', walked(q)'  PROVE Separated(q)'
  <2>1. walked(q) /\ q \notin doubtful /\ id'[q] = id[q] /\ to'[q] = to[q]
    <3>1. Step(r) /\ leave(r) /\ doubtful \subseteq doubtful' \cup {r}
      BY DEF Step, Insert, finish
    <3> QED  BY <1>7, <3>1, WalksStay
  <2>2. PICK S \in SUBSET Live : Below(id[q], S) /\ to[q] \notin S
    BY <2>1 DEF CycleInv, MovesSeparated, Separated
  <2>3. \A m \in Nodes \cup {Root} : ChildrenOf(m)' \subseteq ChildrenOf(m) \cup {n}
    BY <1>2, <1>5 DEF ChildrenOf
  <2>4. ChildrenOf(n)' = {}  BY <1>2, <1>3, <1>4, <1>5 DEF ChildrenOf
  <2>5. Below(id[q], S \cup {n})'
    BY <1>2, <2>1, <2>2, <2>3, <2>4 DEF Below, ClosedDownwards, Live
  <2>6. to[q] # id[q]  BY <2>1 DEF CycleInv, MovesSeparated, Separated
  <2> QED  BY <1>2, <1>3, <2>1, <2>2, <2>5, <2>6 DEF Separated
<1> QED  BY <1>6, <1>7 DEF CycleNeedsRaceOrError, NoCycleAmong, MovesSeparated

\* A deleted row leaves every set of live rows it was in.
LEMMA EraseKeepsCycleInv ==
    ASSUME TypeOK, CycleInv, NEW r \in Requests, Erase(r)
    PROVE  MovesSeparated' /\ CycleNeedsRaceOrError'
<1> USE DEF TypeOK
<1>1. Live' \subseteq Live /\ Live' \ dubious' \subseteq Live \ dubious /\ UNCHANGED parent
  BY DEF Erase, Live
<1>2. CycleNeedsRaceOrError'
  BY <1>1 DEF CycleInv, CycleNeedsRaceOrError, NoCycleAmong
<1>3. ASSUME NEW q \in Requests \ doubtful', walked(q)'  PROVE Separated(q)'
  <2>1. walked(q) /\ q \notin doubtful /\ id'[q] = id[q] /\ to'[q] = to[q]
    <3>1. Step(r) /\ leave(r) /\ doubtful \subseteq doubtful' \cup {r}
      BY DEF Step, Erase
    <3> QED  BY <1>3, <3>1, WalksStay
  <2>2. PICK S \in SUBSET Live : Below(id[q], S) /\ to[q] \notin S
    BY <2>1 DEF CycleInv, MovesSeparated, Separated
  <2>3. \A m : ChildrenOf(m)' \subseteq ChildrenOf(m) \cap Live'
    BY <1>1 DEF ChildrenOf
  <2>4. PICK T \in SUBSET Live' : T = S \cap Live'  OBVIOUS
  <2>5. Below(id[q], T)'  BY <2>1, <2>2, <2>3, <2>4 DEF Below, ClosedDownwards
  <2>6. to[q] # id[q]  BY <2>1 DEF CycleInv, MovesSeparated, Separated
  <2> QED  BY <2>1, <2>2, <2>4, <2>5, <2>6 DEF Separated
<1> QED  BY <1>2, <1>3 DEF MovesSeparated

\* The walk of a request cuts its row off from the new parent.
LEMMA WalkSeparates ==
    ASSUME TypeOK, CycleInv, NEW r \in Requests, WalkAccepts(r), to[r] # Root
    PROVE  Separated(r)'
<1> USE DEF TypeOK
<1>1. UNCHANGED <<state, parent, id, to>>  BY DEF WalkAccepts, rows, goto
<1>2. Live' = Live  BY <1>1 DEF Live
<1>3. PICK S \in SUBSET Live : Below(id[r], S) /\ to[r] \notin S
  <2>1. CASE to[r] \notin Live
    BY <2>1 DEF Below, ClosedDownwards, ChildrenOf
  <2>2. CASE to[r] \in Live
    <3>1. to[r] \notin Descendants(id[r])
      BY <2>2 DEF WalkAccepts, isDescendant, Live
    <3> QED  BY <2>2, <3>1 DEF Descendants, Below
  <2> QED  BY <2>1, <2>2
<1>4. Below(id[r], S)'  BY <1>1, <1>2, <1>3 DEF Below, ClosedDownwards, ChildrenOf
<1>5. to[r] # id[r]  BY DEF WalkAccepts
<1> QED  BY <1>1, <1>2, <1>3, <1>4, <1>5 DEF Separated

\* The write of an update: without a doubt its row is cut off from the new parent, and
\* with one it is out of consideration; whoever else has walked has reason to doubt.
LEMMA UpdateKeepsCycleInv ==
    ASSUME TypeOK, CycleInv, NEW r \in Requests, id[r] \in Live, Update(r)
    PROVE  MovesSeparated' /\ CycleNeedsRaceOrError'
<1> USE DEF TypeOK
<1>1. move(r) /\ UNCHANGED state /\ Live' = Live  BY DEF Update, Live
<1>2. MovesSeparated'
  <2>1. ASSUME NEW q \in Requests \ doubtful', walked(q)'  PROVE FALSE
    <3>1. q # r /\ walked(q)  BY <1>1, <2>1 DEF move, leave, walked
    <3> QED  BY <1>1, <2>1, <3>1 DEF move
  <2> QED  BY <2>1 DEF MovesSeparated
<1>3. /\ \A m \in Nodes : m # id[r] => parent'[m] = parent[m]
      /\ parent'[id[r]] = to[r]
  BY <1>1 DEF move, Live
<1>4. CASE r \in doubtful
  <2>1. Live' \ dubious' \subseteq Live \ dubious /\ id[r] \in dubious'
    BY <1>1, <1>4 DEF move
  <2> QED
    BY <1>2, <1>3, <2>1 DEF CycleInv, CycleNeedsRaceOrError, NoCycleAmong, Live
<1>5. CASE r \notin doubtful
  <2>1. Live' \ dubious' = (Live \ dubious) \cup {id[r]}  BY <1>1, <1>5 DEF move
  <2>2. ASSUME NEW S \in SUBSET (Live' \ dubious'), S # {}
        PROVE  \E m \in S : parent'[m] \notin S
    <3>1. CASE id[r] \notin S
      BY <1>3, <2>1, <2>2, <3>1 DEF CycleInv, CycleNeedsRaceOrError, NoCycleAmong, Live
    <3>2. CASE id[r] \in S /\ to[r] \notin S  BY <1>3, <3>2
    <3>3. CASE id[r] \in S /\ to[r] \in S
      <4>1. Separated(r)
        <5>1. to[r] # Root /\ walked(r)  BY <2>2, <3>3 DEF Live, walked, Update
        <5> QED  BY <1>5, <5>1 DEF CycleInv, MovesSeparated
      <4>2. PICK B \in SUBSET Live : Below(id[r], B) /\ to[r] \notin B
        BY <4>1 DEF Separated
      <4> DEFINE T == S \ (B \cup {id[r]})
      <4>3. T \subseteq Live \ dubious /\ T # {}
        BY <2>1, <3>3, <4>1, <4>2 DEF Separated
      <4>4. PICK m \in T : parent[m] \notin T
        BY <4>3 DEF CycleInv, CycleNeedsRaceOrError, NoCycleAmong
      <4>5. parent[m] \notin B \cup {id[r]}
        BY <4>2, <4>3, <4>4 DEF Below, ClosedDownwards, ChildrenOf
      <4> QED  BY <1>3, <4>3, <4>4, <4>5 DEF Live
    <3> QED  BY <3>1, <3>2, <3>3
  <2> QED  BY <1>2, <2>2 DEF CycleNeedsRaceOrError, NoCycleAmong
<1> QED  BY <1>4, <1>5

LEMMA StepKeepsCycleInv ==
    ASSUME TypeOK, CycleInv, NEW r \in Requests, Step(r)
    PROVE  CycleInv'
<1> USE DEF TypeOK
<1>1. ParentsKnown' /\ RequestsKnown'  BY StepKeepsParentsKnown DEF CycleInv
<1>2. SUFFICES MovesSeparated' /\ CycleNeedsRaceOrError'  BY <1>1 DEF CycleInv
<1>3. MovesSeparated /\ CycleNeedsRaceOrError /\ table' = table
  BY SameTable DEF CycleInv
<1>4. CASE Insert(r)  BY <1>4, InsertKeepsCycleInv
<1>5. CASE Erase(r)  BY <1>5, EraseKeepsCycleInv
<1>6. CASE id[r] \in Live /\ Update(r)  BY <1>6, UpdateKeepsCycleInv
<1>7. CASE Assign(r) \/ (finish(r) /\ UNCHANGED rows)
  <2>1. finish(r) /\ UNCHANGED <<state, parent>>  BY <1>7 DEF Assign, rows
  <2>2. leave(r) /\ doubtful \subseteq doubtful' \cup {r} /\ UNCHANGED dubious
    BY <2>1 DEF finish
  <2> QED  BY <1>3, <2>1, <2>2, WalksStay, SameTreeKeepsCycleInv
<1>8. CASE BeginCreate(r) \/ BeginMove(r) \/ BeginDelete(r) \/ BeginJoin(r)
  <2>1. ~walked(r)' /\ UNCHANGED <<state, parent, doubtful, dubious>>
    BY <1>3, <1>8, BeginOutcome DEF begin, rows, walked
  <2>2. ASSUME NEW q \in Requests \ doubtful', walked(q)'
        PROVE  walked(q) /\ q \notin doubtful /\ id'[q] = id[q] /\ to'[q] = to[q]
    BY <1>3, <2>1, <2>2, OthersStay DEF walked
  <2> QED  BY <1>3, <2>1, <2>2, SameTreeKeepsCycleInv
<1>9. CASE WalkAccepts(r)
  <2>1. UNCHANGED <<state, parent, id, to, doubtful, dubious>>
    BY <1>9 DEF WalkAccepts, goto, rows
  <2>2. Live' = Live  BY <2>1 DEF Live
  <2>3. CycleNeedsRaceOrError'
    BY <1>3, <2>1, <2>2 DEF CycleNeedsRaceOrError, NoCycleAmong
  <2>4. ASSUME NEW q \in Requests \ doubtful', walked(q)'  PROVE Separated(q)'
    <3>1. CASE q = r
      <4>1. to[r] # Root  BY <2>1, <2>4, <3>1 DEF walked
      <4> QED  BY <1>9, <3>1, <4>1, WalkSeparates
    <3>2. CASE q # r
      <4>1. walked(q)  BY <1>3, <2>4, <3>2, OthersStay DEF walked
      <4>2. PICK S \in SUBSET Live : Below(id[q], S) /\ to[q] \notin S
        BY <1>3, <2>1, <2>4, <4>1 DEF MovesSeparated, Separated
      <4>3. Below(id[q], S)'
        BY <2>1, <2>2, <4>2 DEF Below, ClosedDownwards, ChildrenOf
      <4>4. to[q] # id[q]  BY <1>3, <2>1, <2>4, <4>1 DEF MovesSeparated, Separated
      <4> QED  BY <2>1, <2>2, <4>2, <4>3, <4>4 DEF Separated
    <3> QED  BY <3>1, <3>2
  <2> QED  BY <2>3, <2>4 DEF MovesSeparated
<1>10. CASE WalkReadsNothing(r)
  <2>1. /\ UNCHANGED <<state, parent, id, to, dubious>>
        /\ doubtful' = doubtful \cup {r}
    BY <1>10 DEF WalkReadsNothing, goto, rows
  <2>2. ASSUME NEW q \in Requests \ doubtful', walked(q)'
        PROVE  walked(q) /\ q \notin doubtful /\ id'[q] = id[q] /\ to'[q] = to[q]
    BY <1>3, <2>1, <2>2, OthersStay DEF walked
  <2> QED  BY <1>3, <2>1, <2>2, SameTreeKeepsCycleInv
<1>11. ASSUME NEW c, Goes(r, c), UNCHANGED doubtful, pc'[r] # "moveUpdate" \/ walked(r) \/ to[r] = Root,
              table = "dept" => c # "moveParent"
       PROVE  MovesSeparated' /\ CycleNeedsRaceOrError'
  <2>1. UNCHANGED <<state, parent, id, to, dubious>> /\ pc'[r] = c
    BY <1>11 DEF Goes, goto, rows
  <2>2. ASSUME NEW q \in Requests \ doubtful', walked(q)'
        PROVE  walked(q) /\ q \notin doubtful /\ id'[q] = id[q] /\ to'[q] = to[q]
    <3>1. CASE q = r  BY <1>3, <1>11, <2>1, <2>2, <3>1 DEF walked
    <3>2. CASE q # r  BY <1>3, <1>11, <2>1, <2>2, <3>2, OthersStay DEF walked
    <3> QED  BY <3>1, <3>2
  <2> QED  BY <1>3, <1>11, <2>1, <2>2, SameTreeKeepsCycleInv
<1>12. CASE /\ pc[r] \in {"createParent", "moveParent"}
            /\ Goes(r, afterParent(r)) /\ UNCHANGED doubtful
  <2>1. pc'[r] = afterParent(r)  BY <1>12 DEF Goes, goto
  <2>2. afterParent(r) = "moveUpdate" => walked(r) \/ to[r] = Root
    BY <1>12 DEF afterParent, walked
  <2> QED  BY <1>11, <1>12, <2>1, <2>2 DEF afterParent
<1>13. CASE \E c \in {"deleteErase", "deleteMembers", "joinAssign"} :
                Goes(r, c) /\ UNCHANGED doubtful
  <2>1. PICK c \in {"deleteErase", "deleteMembers", "joinAssign"} :
            Goes(r, c) /\ UNCHANGED doubtful
    BY <1>13
  <2>2. pc'[r] = c  BY <2>1 DEF Goes, goto
  <2> QED  BY <1>11, <2>1, <2>2
<1>14. CASE WalkOverflows(r)
  <2>1. UNCHANGED <<state, parent, dubious>> /\ \A q \in Requests : ~walked(q)'
    BY <1>14 DEF WalkOverflows, walked, rows
  <2> QED  BY <1>3, <2>1, SameTreeKeepsCycleInv
<1> QED
  BY <1>4, <1>5, <1>6, <1>7, <1>8, <1>9, <1>10, <1>12, <1>13, <1>14, StepOutcome

\* Every cycle goes through a row that was moved when another had been since its walk,
\* or whose walk could not read the tree: for any tree, whatever else runs in between.
THEOREM CyclesNeedRaceOrError == Spec => []CycleNeedsRaceOrError
<1>1. Init => CycleInv
  BY DEF Init, CycleInv, ParentsKnown, RequestsKnown, CycleNeedsRaceOrError, NoCycleAmong,
     Live, MovesSeparated, walked, Known
<1>2. TypeOK /\ CycleInv /\ [Next]_vars => CycleInv'
  <2>1. CASE UNCHANGED vars
    BY <2>1 DEF vars, rows, requests, history, CycleInv, ParentsKnown, RequestsKnown,
       CycleNeedsRaceOrError, NoCycleAmong, Live, MovesSeparated, Separated, walked, Known,
       Below, ClosedDownwards, ChildrenOf
  <2> QED  BY <2>1, StepKeepsCycleInv DEF Next
<1>3. CycleInv => CycleNeedsRaceOrError  BY DEF CycleInv
<1> QED  BY <1>1, <1>2, <1>3, TypeCorrect, PTL DEF Spec

-----------------------------------------------------------------------------
(***************************************************************************)
(* Stranding.  The inductive invariant: what a request has looked up or    *)
(* counted is still so, unless another has made the opposite check of the  *)
(* same row and the two race for it.                                       *)
(***************************************************************************)

MenusHaveNoMembers ==
    table = "menu" =>
        /\ \A u \in Members : dept[u] = Root
        /\ \A r \in Requests : pc[r] \notin {"joinDept", "joinAssign"}

Vacant(n) == \A u \in Members : dept[u] # n

\* What request r found out about row n and relies on.
Relies(r, n) ==
    /\ lookedUp(r, n) => n \in Live
    /\ counted(r, n) => ChildrenOf(n) = {}
    /\ counted(r, n) /\ pc[r] = "deleteErase" => Vacant(n)

StrandInv ==
    /\ MenusHaveNoMembers
    /\ Contested \subseteq raced
    /\ \A r \in Requests, n \in Nodes \ raced : Relies(r, n)
    /\ NoStrandingUnlessRaced

\* A row that was raced for is, as long as it is gone or going to be deleted.
LEMMA RaceGoesOn ==
    ASSUME TypeOK, Race, NEW n \in Nodes \ raced', n \in raced
    PROVE  n \in Live' /\ \A r \in Requests : ~counted(r, n)'
BY DEF Race

LEMMA ContestIsRace ==
    ASSUME TypeOK, Race
    PROVE  Contested' \subseteq raced'
BY DEF Race, Contested

\* What is raced for may be left aside, so it is enough to look at the other rows.
LEMMA RelyOnOthers ==
    ASSUME TypeOK, StrandInv, Race, NEW r \in Requests, NEW n \in Nodes \ raced',
           n \notin raced => Relies(r, n)'
    PROVE  Relies(r, n)'
BY RaceGoesOn DEF Relies

\* In the table of menus no user is assigned to a row.
LEMMA StepKeepsMenusWithoutMembers ==
    ASSUME TypeOK, MenusHaveNoMembers, NEW r \in Requests, Step(r)
    PROVE  MenusHaveNoMembers'
<1> USE DEF TypeOK
<1> SUFFICES ASSUME table = "menu"  PROVE MenusHaveNoMembers'
  BY SameTable DEF MenusHaveNoMembers
<1> DEFINE Join == {"joinDept", "joinAssign"}
<1>1. pc[r] \notin Join /\ \A u \in Members : dept[u] = Root
  BY DEF MenusHaveNoMembers
<1>2. ASSUME UNCHANGED dept, pc'[r] \notin Join  PROVE MenusHaveNoMembers'
  <2>1. \A q \in Requests : pc'[q] \notin Join
    BY <1>2, OthersStay DEF MenusHaveNoMembers
  <2> QED  BY <1>1, <1>2, <2>1 DEF MenusHaveNoMembers
<1>3. CASE BeginCreate(r) \/ BeginMove(r) \/ BeginDelete(r) \/ BeginJoin(r)
  <2>1. UNCHANGED dept /\ pc'[r] \notin Join
    BY <1>3, BeginOutcome DEF begin, rows
  <2> QED  BY <1>2, <2>1
<1>4. CASE (finish(r) /\ UNCHANGED rows) \/ Insert(r) \/ Erase(r) \/ (id[r] \in Live /\ Update(r))
  <2>1. leave(r) /\ UNCHANGED dept
    BY <1>4 DEF finish, Insert, Erase, Update, move, rows
  <2> QED  BY <1>2, <2>1 DEF leave
<1>5. CASE WalkOverflows(r)  BY <1>2, <1>5 DEF WalkOverflows, rows
<1>6. CASE WalkAccepts(r) \/ WalkReadsNothing(r)
  <2>1. UNCHANGED dept /\ pc'[r] = afterWalk
    BY <1>6 DEF WalkAccepts, WalkReadsNothing, goto, rows
  <2> QED  BY <1>2, <2>1 DEF afterWalk
<1>7. CASE \E c \in {"deleteErase", "deleteMembers", afterParent(r)} : Goes(r, c)
  <2>1. UNCHANGED dept /\ pc'[r] \in {"deleteErase", "deleteMembers", afterParent(r)}
    BY <1>7 DEF Goes, goto, rows
  <2>2. afterParent(r) \notin Join  BY DEF afterParent
  <2> QED  BY <1>2, <2>1, <2>2
<1>8. ~Assign(r) /\ pc[r] # "joinDept"  BY <1>1 DEF Assign
<1> QED  BY <1>3, <1>4, <1>5, <1>6, <1>7, <1>8, StepOutcome

\* A step that changes no row: what its own request has found out is enough.
LEMMA SameRowsKeepRelying ==
    ASSUME TypeOK, StrandInv, NEW r \in Requests, Step(r), Race, UNCHANGED rows,
           \A n \in Nodes \ raced : Relies(r, n)'
    PROVE  /\ \A q \in Requests, n \in Nodes \ raced' : Relies(q, n)'
           /\ NoStrandingUnlessRaced'
<1> USE DEF TypeOK
<1>1. UNCHANGED <<state, parent, dept>>  BY DEF rows
<1>2. Live' = Live /\ (\A n : Exists(n)' <=> Exists(n))  BY <1>1 DEF Live, Exists
<1>3. \A n : ChildrenOf(n)' = ChildrenOf(n) /\ (Vacant(n)' <=> Vacant(n))
  BY <1>1, <1>2 DEF ChildrenOf, Vacant
<1>4. ASSUME NEW q \in Requests, q # r, NEW n \in Nodes \ raced
      PROVE  Relies(q, n)'
  <2>1. /\ lookedUp(q, n)' => lookedUp(q, n)
        /\ counted(q, n)' => counted(q, n) /\ pc'[q] = pc[q]
    BY <1>4, OthersStay, SameTable DEF lookedUp, counted
  <2>2. Relies(q, n)  BY <1>4 DEF StrandInv
  <2> QED  BY <1>2, <1>3, <2>1, <2>2 DEF Relies
<1>5. ASSUME NEW q \in Requests, NEW n \in Nodes \ raced'
      PROVE  Relies(q, n)'
  <2>1. n \notin raced => Relies(q, n)'  BY <1>4, <1>5
  <2> QED  BY <2>1, RelyOnOthers
<1>6. \A n \in Nodes : ~Exists(n) /\ n \in raced => n \in raced'
  BY <1>2, RaceGoesOn DEF Exists
<1>7. NoStrandingUnlessRaced'
  BY <1>1, <1>2, <1>6 DEF StrandInv, NoStrandingUnlessRaced, Exists, Live
<1> QED  BY <1>5, <1>7

\* A row that was there, or was raced for, is there or is raced for after a step that
\* does not delete it.
LEMMA ThereOrRaced ==
    ASSUME TypeOK, Race, NEW n \in Nodes \cup {Root},
           n \in Live \cup raced \cup {Root}, n \in Live => n \in Live'
    PROVE  n \in Live' \cup raced' \cup {Root}
BY RaceGoesOn

NoStrandingAfter ==
    /\ \A n \in Live' : parent'[n] \in Live' \cup raced' \cup {Root}
    /\ \A u \in Members : dept'[u] \in Live' \cup raced' \cup {Root}

LEMMA NoStrandingMeans ==
    /\ NoStrandingAfter <=> NoStrandingUnlessRaced'
    /\ NoStrandingUnlessRaced <=>
         /\ \A n \in Live : parent[n] \in Live \cup raced \cup {Root}
         /\ \A u \in Members : dept[u] \in Live \cup raced \cup {Root}
BY DEF NoStrandingAfter, NoStrandingUnlessRaced, Exists

\* A step that writes and ends its request: what the others have found out still holds
\* unless their row is raced for.
LEMMA WritesKeepRelying ==
    ASSUME TypeOK, StrandInv, NEW r \in Requests, Race,
           Insert(r) \/ Erase(r) \/ Assign(r) \/ (id[r] \in Live /\ Update(r))
    PROVE  /\ \A q \in Requests, n \in Nodes \ raced' : Relies(q, n)'
           /\ NoStrandingUnlessRaced'
<1> USE DEF TypeOK
<1>1. Step(r) /\ leave(r) /\ pc[r] # "idle" /\ table' = table
  BY DEF Step, Insert, Erase, Assign, Update, move, finish, leave
<1>2. SUFFICES /\ \A q \in Requests, n \in (Nodes \ raced) \ raced' :
                      q # r => Relies(q, n)'
               /\ NoStrandingUnlessRaced'
  <2>1. ASSUME NEW q \in Requests, NEW n \in Nodes \ raced',
               \A p \in Requests : p # r /\ n \notin raced => Relies(p, n)'
        PROVE  Relies(q, n)'
    <3>1. Relies(r, n)'  BY <1>1 DEF leave, Relies, lookedUp, counted
    <3> QED  BY <2>1, <3>1, RelyOnOthers
  <2> QED  BY <2>1
<1>3. ASSUME NEW q \in Requests, q # r, NEW n \in Nodes \ raced
      PROVE  /\ Relies(q, n)
             /\ lookedUp(q, n)' => lookedUp(q, n) /\ pc'[q] = pc[q]
             /\ counted(q, n)' => counted(q, n) /\ pc'[q] = pc[q]
             /\ lookedUp(r, n) /\ counted(q, n) => pc[r] = "joinAssign" /\ pc[q] # "deleteErase"
             /\ lookedUp(q, n) /\ counted(r, n) => pc[q] = "joinAssign" /\ pc[r] # "deleteErase"
  BY <1>1, <1>3, OthersStay DEF StrandInv, Contested, lookedUp, counted
<1>4. \A n \in Nodes : n \in raced /\ n \notin Live' => n \in raced'
  BY RaceGoesOn
<1>5. \A n \in Nodes : lookedUp(r, n) => n \in Live \cup raced
  BY DEF StrandInv, Relies
<1> DEFINE There == Live' \cup raced' \cup {Root}
<1>10. /\ \A n \in Live : parent[n] \in Live \cup raced \cup {Root}
       /\ \A u \in Members : dept[u] \in Live \cup raced \cup {Root}
  BY NoStrandingMeans DEF StrandInv
<1>11. ASSUME \A n \in Live : n \in Live'
       PROVE  /\ \A n \in Live : parent[n] \in There
              /\ \A u \in Members : dept[u] \in There
  <2>1. \A n \in Live : n \in Nodes  BY DEF Live
  <2> QED  BY <1>10, <1>11, <2>1, ThereOrRaced
<1>12. ASSUME \A n \in Live : n \in Live', lookedUp(r, to[r])
       PROVE  to[r] \in There
  <2>1. to[r] \in Nodes \cup {Root}  OBVIOUS
  <2>2. to[r] \in Live \cup raced \cup {Root}  BY <1>5, <1>12, <2>1
  <2> QED  BY <1>12, <2>1, <2>2, ThereOrRaced
<1>6. CASE Insert(r)
  <2>1. PICK m \in Nodes : /\ state[m] = "absent"
                           /\ state' = [state EXCEPT ![m] = "live"]
                           /\ parent' = [parent EXCEPT ![m] = to[r]]
    BY <1>6 DEF Insert
  <2>2. Live' = Live \cup {m} /\ UNCHANGED dept /\ lookedUp(r, to[r]) /\ pc[r] = "createInsert"
    BY <1>6, <2>1 DEF Live, Insert, lookedUp
  <2>3. /\ parent'[m] = to[r]
        /\ \A n \in Live : parent'[n] = parent[n]
    BY <2>1 DEF Live
  <2>4. ASSUME NEW q \in Requests, q # r, NEW n \in Nodes \ raced  PROVE Relies(q, n)'
    <3>1. counted(q, n) => n # to[r]  BY <1>3, <2>2, <2>4
    <3>2. n # to[r] => ChildrenOf(n)' \subseteq ChildrenOf(n)  BY <2>2, <2>3 DEF ChildrenOf
    <3>3. Vacant(n)' <=> Vacant(n)  BY <2>2 DEF Vacant
    <3> QED  BY <1>3, <2>2, <2>4, <3>1, <3>2, <3>3 DEF Relies
  <2>5. NoStrandingAfter
    BY <1>11, <1>12, <2>2, <2>3 DEF NoStrandingAfter
  <2> QED  BY <2>4, <2>5, NoStrandingMeans
<1>7. CASE id[r] \in Live /\ Update(r)
  <2>1. /\ Live' = Live /\ UNCHANGED dept /\ lookedUp(r, to[r]) /\ pc[r] = "moveUpdate"
        /\ parent' = [parent EXCEPT ![id[r]] = to[r]]
    BY <1>7 DEF Live, Update, move, lookedUp
  <2>2. \A n \in Live' : parent'[n] = to[r] \/ parent'[n] = parent[n]
    BY <2>1 DEF Live
  <2>3. ASSUME NEW q \in Requests, q # r, NEW n \in Nodes \ raced  PROVE Relies(q, n)'
    <3>1. counted(q, n) => n # to[r]  BY <1>3, <2>1, <2>3
    <3>2. n # to[r] => ChildrenOf(n)' \subseteq ChildrenOf(n)
      BY <2>1, <2>2 DEF ChildrenOf
    <3>3. Vacant(n)' <=> Vacant(n)  BY <2>1 DEF Vacant
    <3> QED  BY <1>3, <2>1, <2>3, <3>1, <3>2, <3>3 DEF Relies
  <2>4. NoStrandingAfter
    BY <1>11, <1>12, <2>1, <2>2 DEF NoStrandingAfter
  <2> QED  BY <2>3, <2>4, NoStrandingMeans
<1>8. CASE Erase(r)
  <2>1. /\ Live' = Live \ {id[r]} /\ UNCHANGED <<parent, dept>>
        /\ counted(r, id[r]) /\ pc[r] = "deleteErase"
    BY <1>8 DEF Live, Erase, counted
  <2>2. ASSUME NEW q \in Requests, q # r, NEW n \in Nodes \ raced  PROVE Relies(q, n)'
    <3>1. lookedUp(q, n) => n # id[r]  BY <1>3, <2>1, <2>2
    <3>2. ChildrenOf(n)' \subseteq ChildrenOf(n) /\ (Vacant(n)' <=> Vacant(n))
      BY <2>1 DEF ChildrenOf, Vacant
    <3> QED  BY <1>3, <2>1, <2>2, <3>1, <3>2 DEF Relies
  <2>3. id[r] \in Nodes \ raced => ChildrenOf(id[r]) = {} /\ Vacant(id[r])
    BY <2>1 DEF StrandInv, Relies
  <2>4. \A n \in Live' : parent[n] \in raced' \/ Exists(parent[n])'
    <3> SUFFICES ASSUME NEW n \in Live', parent[n] \notin raced'  PROVE Exists(parent[n])'
      OBVIOUS
    <3>1. n \in Live /\ n \in Nodes /\ parent[n] \in Nodes \cup {Root}  BY <2>1 DEF Live
    <3>2. Exists(parent[n]) \/ parent[n] \in raced
      BY <3>1 DEF StrandInv, NoStrandingUnlessRaced
    <3>3. parent[n] # Root => parent[n] \in Live
      BY <1>4, <2>1, <3>1, <3>2 DEF Exists
    <3>4. parent[n] = id[r] => parent[n] \in raced \/ parent[n] = Root
      BY <2>3, <3>1 DEF ChildrenOf
    <3> QED  BY <1>4, <2>1, <3>1, <3>3, <3>4 DEF Exists
  <2>5. \A u \in Members : dept[u] \in raced' \/ Exists(dept[u])'
    <3> SUFFICES ASSUME NEW u \in Members, dept[u] \notin raced'  PROVE Exists(dept[u])'
      OBVIOUS
    <3>1. dept[u] \in Nodes \cup {Root}  OBVIOUS
    <3>2. Exists(dept[u]) \/ dept[u] \in raced  BY DEF StrandInv, NoStrandingUnlessRaced
    <3>3. dept[u] # Root => dept[u] \in Live  BY <1>4, <2>1, <3>1, <3>2 DEF Exists
    <3>4. dept[u] = id[r] => dept[u] \in raced \/ dept[u] = Root
      BY <2>3, <3>1 DEF Vacant
    <3> QED  BY <1>4, <2>1, <3>1, <3>3, <3>4 DEF Exists
  <2>6. NoStrandingUnlessRaced'
    BY <2>1, <2>4, <2>5 DEF NoStrandingUnlessRaced
  <2> QED  BY <2>2, <2>6
<1>9. CASE Assign(r)
  <2>1. /\ UNCHANGED <<state, parent>> /\ lookedUp(r, to[r]) /\ pc[r] = "joinAssign"
        /\ \A u \in Members : dept'[u] \in {dept[u], to[r]}
    BY <1>9 DEF Assign, lookedUp
  <2>2. Live' = Live  BY <2>1 DEF Live
  <2>3. ASSUME NEW q \in Requests, q # r, NEW n \in Nodes \ raced  PROVE Relies(q, n)'
    <3>1. counted(q, n) /\ pc[q] = "deleteErase" => n # to[r]  BY <1>3, <2>1, <2>3
    <3>2. ChildrenOf(n)' = ChildrenOf(n)  BY <2>1, <2>2 DEF ChildrenOf
    <3>3. n # to[r] => (Vacant(n) => Vacant(n)')  BY <2>1 DEF Vacant
    <3> QED  BY <1>3, <2>2, <2>3, <3>1, <3>2, <3>3 DEF Relies
  <2>4. NoStrandingAfter
    BY <1>11, <1>12, <2>1, <2>2 DEF NoStrandingAfter
  <2> QED  BY <2>3, <2>4, NoStrandingMeans
<1> QED  BY <1>6, <1>7, <1>8, <1>9

LEMMA StepKeepsStrandInv ==
    ASSUME TypeOK, StrandInv, NEW r \in Requests, Step(r), Race
    PROVE  StrandInv'
<1> USE DEF TypeOK
<1>1. MenusHaveNoMembers' /\ Contested' \subseteq raced' /\ table' = table
  BY StepKeepsMenusWithoutMembers, ContestIsRace, SameTable DEF StrandInv
<1>2. SUFFICES /\ \A q \in Requests, n \in Nodes \ raced' : Relies(q, n)'
               /\ NoStrandingUnlessRaced'
  BY <1>1 DEF StrandInv
<1>3. CASE Insert(r) \/ Erase(r) \/ Assign(r) \/ (id[r] \in Live /\ Update(r))
  BY <1>3, WritesKeepRelying
<1>4. ASSUME UNCHANGED rows, \A n \in Nodes : ~lookedUp(r, n)' /\ ~counted(r, n)'
      PROVE  /\ \A q \in Requests, n \in Nodes \ raced' : Relies(q, n)'
             /\ NoStrandingUnlessRaced'
  BY <1>4, SameRowsKeepRelying DEF Relies
<1>5. CASE BeginCreate(r) \/ BeginMove(r) \/ BeginDelete(r) \/ BeginJoin(r)
  <2>1. UNCHANGED rows /\ \A n \in Nodes : ~lookedUp(r, n)' /\ ~counted(r, n)'
    BY <1>1, <1>5, BeginOutcome DEF begin, lookedUp, counted
  <2> QED  BY <1>4, <2>1
<1>6. CASE finish(r) /\ UNCHANGED rows
  BY <1>4, <1>6 DEF finish, leave, lookedUp, counted
<1>7. CASE WalkOverflows(r)
  BY <1>4, <1>7 DEF WalkOverflows, lookedUp, counted
<1>8. CASE WalkAccepts(r) \/ WalkReadsNothing(r)
  <2>1. UNCHANGED <<rows, id, to>> /\ pc[r] = "moveWalk" /\ pc'[r] = afterWalk
    BY <1>8 DEF WalkAccepts, WalkReadsNothing, goto
  <2>2. \A n \in Nodes : (lookedUp(r, n)' => lookedUp(r, n)) /\ ~counted(r, n)'
    BY <1>1, <2>1 DEF lookedUp, counted, afterWalk
  <2>3. \A n \in Nodes \ raced : Relies(r, n)'
    BY <2>1, <2>2 DEF StrandInv, Relies, rows, Live
  <2> QED  BY <2>1, <2>3, SameRowsKeepRelying
<1>9. CASE /\ pc[r] \in {"createParent", "moveParent"} /\ Exists(to[r])
           /\ Goes(r, afterParent(r))
  <2>1. UNCHANGED <<rows, id, to>> /\ pc'[r] = afterParent(r)
    BY <1>9 DEF Goes, goto
  <2>2. \A n \in Nodes : (lookedUp(r, n)' => n \in Live) /\ ~counted(r, n)'
    BY <1>9, <2>1 DEF lookedUp, counted, afterParent, Exists
  <2>3. \A n \in Nodes \ raced : Relies(r, n)'
    BY <2>1, <2>2 DEF Relies, rows, Live
  <2> QED  BY <2>1, <2>3, SameRowsKeepRelying
<1>10. CASE /\ pc[r] = "deleteChildren" /\ ChildrenOf(id[r]) = {}
            /\ Goes(r, IF table = "menu" THEN "deleteErase" ELSE "deleteMembers")
  <2>1. /\ UNCHANGED <<rows, id, to>>
        /\ pc'[r] = IF table = "menu" THEN "deleteErase" ELSE "deleteMembers"
    BY <1>10 DEF Goes, goto
  <2>2. \A n \in Nodes : ~lookedUp(r, n)' /\ (counted(r, n)' => n = id[r])
    BY <2>1 DEF lookedUp, counted
  <2>3. pc'[r] = "deleteErase" => \A n \in Nodes : Vacant(n)'
    BY <1>1, <2>1 DEF MenusHaveNoMembers, Vacant
  <2>4. ChildrenOf(id[r])' = {}  BY <1>10, <2>1 DEF ChildrenOf, rows, Live
  <2>5. \A n \in Nodes \ raced : Relies(r, n)'  BY <2>1, <2>2, <2>3, <2>4 DEF Relies
  <2> QED  BY <2>1, <2>5, SameRowsKeepRelying
<1>11. CASE /\ pc[r] = "deleteMembers" /\ id[r] \notin {dept[u] : u \in Members}
            /\ Goes(r, "deleteErase")
  <2>1. UNCHANGED <<rows, id, to>> /\ pc'[r] = "deleteErase"
    BY <1>11 DEF Goes, goto
  <2>2. \A n \in Nodes : ~lookedUp(r, n)' /\ (counted(r, n)' => n = id[r] /\ counted(r, n))
    BY <1>11, <2>1 DEF lookedUp, counted
  <2>3. Vacant(id[r])'  BY <1>11, <2>1 DEF Vacant, rows
  <2>4. \A n \in Nodes \ raced : counted(r, n) => ChildrenOf(n)' = {}
    BY <2>1 DEF StrandInv, Relies, ChildrenOf, rows, Live
  <2>5. \A n \in Nodes \ raced : Relies(r, n)'  BY <2>1, <2>2, <2>3, <2>4 DEF Relies
  <2> QED  BY <2>1, <2>5, SameRowsKeepRelying
<1>12. CASE pc[r] = "joinDept" /\ Exists(to[r]) /\ Goes(r, "joinAssign")
  <2>1. UNCHANGED <<rows, id, to>> /\ pc'[r] = "joinAssign"
    BY <1>12 DEF Goes, goto
  <2>2. \A n \in Nodes : (lookedUp(r, n)' => n \in Live) /\ ~counted(r, n)'
    BY <1>12, <2>1 DEF lookedUp, counted, Exists
  <2>3. \A n \in Nodes \ raced : Relies(r, n)'
    BY <2>1, <2>2 DEF Relies, rows, Live
  <2> QED  BY <2>1, <2>3, SameRowsKeepRelying
<1> QED
  BY <1>3, <1>5, <1>6, <1>7, <1>8, <1>9, <1>10, <1>11, <1>12, StepOutcome

\* A live row is left with a deleted parent, or a user with a deleted department, only
\* where the deletion of that very row raced with the request that referred to it.
THEOREM StrandingNeedsRace == Spec => []NoStrandingUnlessRaced
<1>1. Init => StrandInv
  BY DEF Init, StrandInv, MenusHaveNoMembers, NoStrandingUnlessRaced, Contested, Relies,
     lookedUp, counted, Exists, Live
<1>2. TypeOK /\ StrandInv /\ [Next]_vars => StrandInv'
  <2>1. CASE UNCHANGED vars
    BY <2>1 DEF vars, rows, requests, history, StrandInv, MenusHaveNoMembers, Contested,
       NoStrandingUnlessRaced, Relies, lookedUp, counted, Exists, Live, ChildrenOf, Vacant
  <2> QED  BY <2>1, StepKeepsStrandInv DEF Next
<1>3. StrandInv => NoStrandingUnlessRaced  BY DEF StrandInv
<1> QED  BY <1>1, <1>2, <1>3, TypeCorrect, PTL DEF Spec

-----------------------------------------------------------------------------
(***************************************************************************)
(* Loops, for the lists.  A loop of the code is a function of the number   *)
(* of its turns.  That such a function exists is shown by giving one, and  *)
(* that there is no other by a smallest turn at which two would differ.    *)
(***************************************************************************)

\* Instead of an induction: what fails for some finite set fails for one of which
\* no proper part fails.
LEMMA SmallestSet ==
    ASSUME NEW F, F # {}, \A T \in F : IsFiniteSet(T)
    PROVE  \E T \in F : \A U \in F : U \subseteq T => U = T
<1>1. F \subseteq FiniteSubsetsOf(UNION F)  BY DEF FiniteSubsetsOf
<1>2. PICK T \in F : \A U \in F : <<U, T>> \notin StrictSubsetOrdering(UNION F)
  BY <1>1, WFMin, FS_StrictSubsetOrderingWellFounded
<1>3. ASSUME NEW U \in F, U \subseteq T, U # T  PROVE FALSE
  <2>1. <<U, T>> \in (SUBSET UNION F) \X (SUBSET UNION F)  OBVIOUS
  <2>2. <<U, T>> \in StrictSubsetOrdering(UNION F)  BY <1>3, <2>1 DEF StrictSubsetOrdering
  <2> QED  BY <1>2, <2>2
<1> QED  BY <1>3

\* What fails for some number fails for a smallest one.
LEMMA SmallestNumber ==
    ASSUME NEW N \in SUBSET Nat, N # {}
    PROVE  \E m \in N : \A n \in N : m <= n
<1> DEFINE F == {0 .. n : n \in N}
<1>1. \A T \in F : IsFiniteSet(T)  BY FS_Interval
<1>2. PICK T \in F : \A U \in F : U \subseteq T => U = T
  <2>1. F # {}  OBVIOUS
  <2> HIDE DEF F
  <2> QED  BY <1>1, <2>1, SmallestSet
<1>3. PICK m \in N : T = 0 .. m  BY <1>2
<1>4. ASSUME NEW n \in N, n < m  PROVE FALSE
  <2>1. 0 .. n \in F /\ 0 .. n \subseteq 0 .. m  BY <1>4
  <2>2. 0 .. n = 0 .. m  BY <1>2, <1>3, <2>1
  <2> QED  BY <1>4, <2>2
<1> QED  BY <1>4

\* Two loops that start alike and step alike are alike.
LEMMA LoopsAgree ==
    ASSUME NEW N \in Nat, NEW g, NEW h, g[0] = h[0],
           \A i \in 1 .. N : g[i - 1] = h[i - 1] => g[i] = h[i]
    PROVE  \A i \in 0 .. N : g[i] = h[i]
<1> DEFINE Wrong == {i \in 0 .. N : g[i] # h[i]}
<1>1. SUFFICES ASSUME Wrong # {}  PROVE FALSE  OBVIOUS
<1>2. PICK i \in Wrong : \A j \in Wrong : i <= j
  <2>1. Wrong \in SUBSET Nat  OBVIOUS
  <2> QED  BY ONLY <1>1, <2>1, SmallestNumber
<1>3. i \in 1 .. N /\ i - 1 \in 0 .. N /\ i - 1 \notin Wrong  BY <1>2
<1> QED  BY <1>2, <1>3

-----------------------------------------------------------------------------
(***************************************************************************)
(* The lists.  The loop invariant: after i rows, what is below a row are   *)
(* the paths that begin with a child of it among the i rows and go on      *)
(* along rows that come before their parents.                              *)
(***************************************************************************)

\* An order of a set names each of its members once.
LEMMA OrderFacts ==
    ASSUME NEW S, IsFiniteSet(S), NEW order \in Orders(S)
    PROVE  /\ order \in Seq(S)
           /\ Range(order) = S
           /\ \A i, j \in 1 .. Len(order) : order[i] = order[j] => i = j
<1>1. /\ order \in [1 .. Cardinality(S) -> S]
      /\ \A i, j \in 1 .. Cardinality(S) : i # j => order[i] # order[j]
  BY DEF Orders, SetToSeqs
<1>2. Cardinality(S) \in Nat  BY FS_CardinalityType
<1>3. order \in Seq(S) /\ Len(order) = Cardinality(S)  BY <1>1, <1>2
<1>4. order \in Injection(1 .. Cardinality(S), S)
  BY <1>1 DEF Injection, IsInjective
<1>5. Cardinality(1 .. Cardinality(S)) = Cardinality(S)  BY <1>2, FS_Interval
<1>6. order \in Surjection(1 .. Cardinality(S), S)
  BY <1>4, <1>5, FS_Injection
<1>7. Range(order) = S
  BY <1>1, <1>6 DEF Surjection, Range
<1> QED  BY <1>1, <1>3, <1>7

\* The orders of subsets are the sequences that name no row twice.
LEMMA OrdersOfSubsets ==
    ASSUME NEW S, IsFiniteSet(S), NEW p
    PROVE  p \in UNION {Orders(T) : T \in SUBSET S} <=>
               /\ p \in Seq(S)
               /\ \A i, j \in 1 .. Len(p) : p[i] = p[j] => i = j
<1>1. ASSUME NEW T \in SUBSET S, p \in Orders(T)
      PROVE  /\ p \in Seq(S)
             /\ \A i, j \in 1 .. Len(p) : p[i] = p[j] => i = j
  <2>1. IsFiniteSet(T)  BY FS_Subset
  <2> QED  BY <1>1, <2>1, OrderFacts, SeqMonotonic
<1>2. ASSUME p \in Seq(S), \A i, j \in 1 .. Len(p) : p[i] = p[j] => i = j
      PROVE  p \in Orders(Range(p)) /\ Range(p) \in SUBSET S
  <2>1. p \in [1 .. Len(p) -> S] /\ Len(p) \in Nat  BY <1>2
  <2>2. p \in [1 .. Len(p) -> Range(p)] /\ Range(p) \in SUBSET S  BY <2>1 DEF Range
  <2>3. p \in Bijection(1 .. Len(p), Range(p))
    BY <1>2, <2>2 DEF Bijection, Injection, Surjection, IsInjective, Range
  <2>4. Cardinality(Range(p)) = Len(p)
    BY <2>1, <2>3, FS_CountingElements DEF ExistsBijection
  <2> QED  BY <1>2, <2>2, <2>4 DEF Orders, SetToSeqs
<1> QED  BY <1>1, <1>2

\* What is below n after i rows: the paths from a child of n among them down along
\* rows that come before their parents.
PathsBelow(order, n, i) ==
    {p \in Seq(Range(order)) :
        /\ p # <<>>
        /\ \E j \in 1 .. i : p[1] = order[j]
        /\ parent[p[1]] = n
        /\ \A k \in 2 .. Len(p) : parent[p[k]] = p[k - 1] /\ before(order, p[k], p[k - 1])}

\* Putting a row on top of a path.
LEMMA PutOnTop ==
    ASSUME NEW S, NEW n \in S, NEW p \in Seq(S)
    PROVE  /\ <<n>> \o p \in Seq(S)
           /\ Len(<<n>> \o p) = Len(p) + 1
           /\ (<<n>> \o p)[1] = n
           /\ \A k \in 2 .. Len(p) + 1 : (<<n>> \o p)[k] = p[k - 1]
<1>1. <<n>> \in Seq(S) /\ Len(<<n>>) = 1 /\ <<n>>[1] = n  OBVIOUS
<1>2. Len(p) \in Nat  OBVIOUS
<1> QED  BY <1>1, <1>2, ConcatProperties

\* Taking the top row off a path.
LEMMA TakeOffTop ==
    ASSUME NEW S, NEW p \in Seq(S), p # <<>>
    PROVE  /\ Tail(p) \in Seq(S)
           /\ Len(Tail(p)) = Len(p) - 1
           /\ \A k \in 1 .. Len(Tail(p)) : Tail(p)[k] = p[k + 1]
           /\ p = <<p[1]>> \o Tail(p)
           /\ p[1] \in S
<1>1. /\ Tail(p) \in Seq(S)
      /\ Len(Tail(p)) = Len(p) - 1
      /\ \A k \in 1 .. Len(Tail(p)) : Tail(p)[k] = p[k + 1]
  BY HeadTailProperties
<1>2. Len(p) \in Nat \ {0} /\ p[1] \in S  BY EmptySeq, ElementOfSeq, LenProperties
<1>3. p = <<p[1]>> \o Tail(p)
  <2> DEFINE q == <<p[1]>> \o Tail(p)
  <2>1. /\ q \in Seq(S)
        /\ Len(q) = Len(p)
        /\ q[1] = p[1]
        /\ \A k \in 2 .. Len(p) : q[k] = Tail(p)[k - 1]
    BY <1>1, <1>2, PutOnTop
  <2>2. \A k \in 1 .. Len(p) : q[k] = p[k]
    <3> TAKE k \in 1 .. Len(p)
    <3>1. CASE k = 1  BY <2>1, <3>1
    <3>2. CASE k \in 2 .. Len(p)
      <4>1. k - 1 \in 1 .. Len(Tail(p))  BY <1>1, <1>2, <3>2
      <4>2. Tail(p)[k - 1] = p[(k - 1) + 1]  BY <1>1, <4>1
      <4> QED  BY <2>1, <3>2, <4>2
    <3> QED  BY <1>2, <3>1, <3>2
  <2> HIDE DEF q
  <2>3. p = q  BY <2>1, <2>2, SeqEqual
  <2> QED  BY <2>3 DEF q
<1> QED  BY <1>1, <1>2, <1>3

\* The paths of a row m and of what is below it after i rows.
LEMMA PathsUnder ==
    ASSUME NEW S, NEW order \in Seq(S), Range(order) = S,
           NEW i \in Nat, NEW m \in S, NEW p
    PROVE  p \in under(m, PathsBelow(order, m, i)) <=>
               /\ p \in Seq(S) /\ p # <<>> /\ p[1] = m
               /\ Len(p) >= 2 => \E j \in 1 .. i : p[2] = order[j]
               /\ \A k \in 2 .. Len(p) : parent[p[k]] = p[k - 1]
               /\ \A k \in 3 .. Len(p) : before(order, p[k], p[k - 1])
<1>1. ASSUME NEW q \in PathsBelow(order, m, i), p = <<m>> \o q
      PROVE  /\ p \in Seq(S) /\ p # <<>> /\ p[1] = m
             /\ \E j \in 1 .. i : p[2] = order[j]
             /\ \A k \in 2 .. Len(p) : parent[p[k]] = p[k - 1]
             /\ \A k \in 3 .. Len(p) : before(order, p[k], p[k - 1])
  <2>1. /\ q \in Seq(S) /\ q # <<>> /\ parent[q[1]] = m
        /\ \E j \in 1 .. i : q[1] = order[j]
        /\ \A k \in 2 .. Len(q) : parent[q[k]] = q[k - 1] /\ before(order, q[k], q[k - 1])
    BY <1>1 DEF PathsBelow
  <2>2. /\ p \in Seq(S) /\ Len(p) = Len(q) + 1 /\ p[1] = m
        /\ \A k \in 2 .. Len(q) + 1 : p[k] = q[k - 1]
    BY <1>1, <2>1, PutOnTop
  <2>3. Len(q) \in Nat \ {0} /\ p # <<>>  BY <2>1, <2>2, EmptySeq
  <2>4. p[2] = q[1]  BY <2>2, <2>3
  <2>5. ASSUME NEW k \in 3 .. Len(p)
        PROVE  parent[p[k]] = p[k - 1] /\ before(order, p[k], p[k - 1])
    <3>1. k - 1 \in 2 .. Len(q) /\ k \in 2 .. Len(q) + 1 /\ k - 1 \in 2 .. Len(q) + 1
      BY <2>2, <2>3
    <3>2. p[k] = q[k - 1] /\ p[k - 1] = q[(k - 1) - 1]  BY <2>2, <3>1
    <3> QED  BY <2>1, <3>1, <3>2
  <2>6. \A k \in 2 .. Len(p) : parent[p[k]] = p[k - 1]
    <3> TAKE k \in 2 .. Len(p)
    <3>1. CASE k = 2  BY <2>1, <2>2, <2>4, <3>1
    <3>2. CASE k \in 3 .. Len(p)  BY <2>5, <3>2
    <3> QED  BY <2>2, <2>3, <3>1, <3>2
  <2> QED  BY <2>1, <2>2, <2>3, <2>4, <2>5, <2>6
<1>2. ASSUME p = <<m>>
      PROVE  p \in Seq(S) /\ p # <<>> /\ p[1] = m /\ Len(p) = 1
  BY <1>2
<1>3. ASSUME p \in Seq(S), p # <<>>, p[1] = m,
             Len(p) >= 2 => \E j \in 1 .. i : p[2] = order[j],
             \A k \in 2 .. Len(p) : parent[p[k]] = p[k - 1],
             \A k \in 3 .. Len(p) : before(order, p[k], p[k - 1])
      PROVE  p = <<m>> \/ \E q \in PathsBelow(order, m, i) : p = <<m>> \o q
  <2>1. /\ Tail(p) \in Seq(S) /\ p = <<m>> \o Tail(p)
        /\ Len(p) \in Nat /\ Len(Tail(p)) = Len(p) - 1
        /\ \A k \in 1 .. Len(Tail(p)) : Tail(p)[k] = p[k + 1]
    BY <1>3, TakeOffTop, LenProperties
  <2>2. CASE Tail(p) = <<>>
    <3>1. <<m>> \in Seq(S)  OBVIOUS
    <3> QED  BY <2>1, <2>2, <3>1, ConcatEmptySeq
  <2>3. CASE Tail(p) # <<>>
    <3>1. Len(Tail(p)) \in Nat \ {0}  BY <2>1, <2>3, EmptySeq
    <3>2. Tail(p)[1] = p[2] /\ 2 \in 2 .. Len(p)  BY <2>1, <3>1
    <3>3. parent[Tail(p)[1]] = m /\ \E j \in 1 .. i : Tail(p)[1] = order[j]
      BY <1>3, <2>1, <3>1, <3>2
    <3>4. ASSUME NEW k \in 2 .. Len(Tail(p))
          PROVE  /\ parent[Tail(p)[k]] = Tail(p)[k - 1]
                 /\ before(order, Tail(p)[k], Tail(p)[k - 1])
      <4>1. k \in 1 .. Len(Tail(p)) /\ k - 1 \in 1 .. Len(Tail(p)) /\ k + 1 \in 3 .. Len(p)
        BY <2>1, <3>1
      <4>2. Tail(p)[k] = p[k + 1] /\ Tail(p)[k - 1] = p[(k + 1) - 1]  BY <2>1, <4>1
      <4>3. k + 1 \in 2 .. Len(p)  BY <4>1
      <4> QED  BY <1>3, <4>1, <4>2, <4>3
    <3>5. Tail(p) \in PathsBelow(order, m, i)
      BY <2>1, <2>3, <3>3, <3>4 DEF PathsBelow
    <3> QED  BY <2>1, <3>5
  <2> QED  BY <2>2, <2>3
<1>4. p \in under(m, PathsBelow(order, m, i)) <=>
          p = <<m>> \/ \E q \in PathsBelow(order, m, i) : p = <<m>> \o q
  BY DEF under
<1> DEFINE First == Len(p) >= 2 => \E j \in 1 .. i : p[2] = order[j]
           Climbs2 == \A k \in 2 .. Len(p) : parent[p[k]] = p[k - 1]
           Ordered == \A k \in 3 .. Len(p) : before(order, p[k], p[k - 1])
           Rest == First /\ Climbs2 /\ Ordered
           Hangs == \E q \in PathsBelow(order, m, i) : p = <<m>> \o q
<1>5. p = <<m>> => p \in Seq(S) /\ p # <<>> /\ p[1] = m /\ Rest
  <2>1. Len(p) = 1 => Rest  OBVIOUS
  <2> HIDE DEF Rest
  <2> QED  BY <1>2, <2>1
<1>6. Hangs => p \in Seq(S) /\ p # <<>> /\ p[1] = m /\ Rest  BY <1>1
<1>7. p \in Seq(S) /\ p # <<>> /\ p[1] = m /\ Rest => p = <<m>> \/ Hangs  BY <1>3
<1>8. Rest <=> First /\ Climbs2 /\ Ordered  OBVIOUS
<1> HIDE DEF Rest, Hangs
<1>9. p \in under(m, PathsBelow(order, m, i)) <=> p = <<m>> \/ Hangs  BY <1>4 DEF Hangs
<1>10. p \in under(m, PathsBelow(order, m, i)) <=>
          p \in Seq(S) /\ p # <<>> /\ p[1] = m /\ Rest
  BY ONLY <1>5, <1>6, <1>7, <1>9
<1> QED  BY ONLY <1>8, <1>10

\* The i-th row adds to what is below its parent, and only there, itself and what
\* is below it by then.
LEMMA RowAddsPaths ==
    ASSUME NEW S, NEW order \in Seq(S), Range(order) = S,
           \A i, j \in 1 .. Len(order) : order[i] = order[j] => i = j,
           NEW i \in 1 .. Len(order), NEW n, NEW p
    PROVE  p \in PathsBelow(order, n, i) <=>
               \/ p \in PathsBelow(order, n, i - 1)
               \/ /\ parent[order[i]] = n
                  /\ p \in under(order[i], PathsBelow(order, order[i], i - 1))
<1>1. Len(order) \in Nat /\ DOMAIN order = 1 .. Len(order) /\ order[i] \in S
  BY LenProperties, ElementOfSeq
<1>2. i - 1 \in Nat  BY <1>1
<1>3. ASSUME p \in PathsBelow(order, n, i), p \notin PathsBelow(order, n, i - 1)
      PROVE  parent[order[i]] = n /\ p \in under(order[i], PathsBelow(order, order[i], i - 1))
  <2>1. /\ p \in Seq(S) /\ p # <<>> /\ p[1] = order[i] /\ parent[p[1]] = n
        /\ \A k \in 2 .. Len(p) : parent[p[k]] = p[k - 1] /\ before(order, p[k], p[k - 1])
    BY <1>1, <1>3 DEF PathsBelow
  <2>2. ASSUME Len(p) >= 2  PROVE \E j \in 1 .. i - 1 : p[2] = order[j]
    <3>1. before(order, p[2], order[i])  BY <2>1, <2>2
    <3> QED  BY <1>1, <3>1 DEF before
  <2>3. parent[order[i]] = n  BY <2>1
  <2>4. \A k \in 3 .. Len(p) : before(order, p[k], p[k - 1])
    <3>1. Len(p) \in Nat  BY <2>1, LenProperties
    <3> QED  BY <2>1, <3>1
  <2>5. p \in under(order[i], PathsBelow(order, order[i], i - 1))
    BY <1>1, <1>2, <2>1, <2>2, <2>4, PathsUnder
  <2> QED  BY <2>3, <2>5
<1>4. ASSUME parent[order[i]] = n, p \in under(order[i], PathsBelow(order, order[i], i - 1))
      PROVE  p \in PathsBelow(order, n, i)
  <2>1. /\ p \in Seq(S) /\ p # <<>> /\ p[1] = order[i]
        /\ Len(p) >= 2 => \E j \in 1 .. i - 1 : p[2] = order[j]
        /\ \A k \in 2 .. Len(p) : parent[p[k]] = p[k - 1]
        /\ \A k \in 3 .. Len(p) : before(order, p[k], p[k - 1])
    <3> DEFINE m == order[i]
               h == i - 1
    <3>1. m \in S /\ h \in Nat /\ p \in under(m, PathsBelow(order, m, h))
      BY <1>1, <1>2, <1>4
    <3> HIDE DEF m, h
    <3>2. /\ p \in Seq(S) /\ p # <<>> /\ p[1] = m
          /\ Len(p) >= 2 => \E j \in 1 .. h : p[2] = order[j]
          /\ \A k \in 2 .. Len(p) : parent[p[k]] = p[k - 1]
          /\ \A k \in 3 .. Len(p) : before(order, p[k], p[k - 1])
      BY <3>1, PathsUnder
    <3> QED  BY <3>2 DEF m, h
  <2>2. ASSUME Len(p) >= 2  PROVE before(order, p[2], p[1])
    <3>1. PICK j \in 1 .. i - 1 : p[2] = order[j]  BY <2>1, <2>2
    <3>2. j \in DOMAIN order /\ i \in DOMAIN order /\ j < i  BY <1>1
    <3> QED  BY <2>1, <3>1, <3>2 DEF before
  <2>3. Len(p) \in Nat  BY <2>1, LenProperties
  <2>4. ASSUME NEW k \in 2 .. Len(p)  PROVE before(order, p[k], p[k - 1])
    <3>1. CASE k = 2  BY <2>2, <2>3, <3>1
    <3>2. CASE k \in 3 .. Len(p)  BY <2>1, <3>2
    <3> QED  BY <2>3, <3>1, <3>2
  <2> QED  BY <1>4, <2>1, <2>4 DEF PathsBelow
<1> QED  BY <1>3, <1>4 DEF PathsBelow

\* So a turn of the loop keeps its invariant: what is below each row are these paths.
LEMMA AttachAddsPaths ==
    ASSUME NEW S \in SUBSET Nodes, parent \in [Nodes -> Nodes \cup {Root}],
           NEW order \in Seq(S), Range(order) = S,
           \A i, j \in 1 .. Len(order) : order[i] = order[j] => i = j,
           NEW i \in 1 .. Len(order)
    PROVE  attach(S, [n \in S |-> PathsBelow(order, n, i - 1)], order[i])
               = [n \in S |-> PathsBelow(order, n, i)]
<1> DEFINE old == [n \in S |-> PathsBelow(order, n, i - 1)]
           new == attach(S, old, order[i])
<1>1. order[i] \in S  BY ElementOfSeq
<1>2. ASSUME NEW n, NEW p
      PROVE  p \in PathsBelow(order, n, i) <=>
                 \/ p \in PathsBelow(order, n, i - 1)
                 \/ /\ parent[order[i]] = n
                    /\ p \in under(order[i], PathsBelow(order, order[i], i - 1))
  BY RowAddsPaths
<1>3. ASSUME NEW n \in S
      PROVE  PathsBelow(order, n, i) =
                 IF parent[order[i]] = n
                 THEN PathsBelow(order, n, i - 1)
                      \cup under(order[i], PathsBelow(order, order[i], i - 1))
                 ELSE PathsBelow(order, n, i - 1)
  BY ONLY <1>2
<1>4. CASE parent[order[i]] \notin S
  <2>1. new = old  BY <1>4 DEF attach, above
  <2> QED  BY <1>3, <1>4, <2>1
<1>5. CASE parent[order[i]] \in S
  <2>1. above(S, order[i]) = parent[order[i]] /\ above(S, order[i]) # Root
    BY <1>5, RootAssumption DEF above
  <2>2. new = [old EXCEPT ![parent[order[i]]] = @ \cup under(order[i], old[order[i]])]
    BY <2>1 DEF attach
  <2>3. ASSUME NEW n \in S  PROVE new[n] = PathsBelow(order, n, i)
    <3>1. new[n] = IF parent[order[i]] = n
                   THEN PathsBelow(order, n, i - 1) \cup under(order[i], old[order[i]])
                   ELSE PathsBelow(order, n, i - 1)
      BY <1>5, <2>2
    <3>2. old[order[i]] = PathsBelow(order, order[i], i - 1)  BY <1>1
    <3> QED  BY <1>3, <3>1, <3>2
  <2>4. new = [n \in S |-> new[n]]  BY <2>2
  <2>5. new = [n \in S |-> PathsBelow(order, n, i)]
    <3> HIDE DEF new
    <3> QED  BY <2>3, <2>4
  <2> QED  BY <2>5
<1> QED  BY <1>4, <1>5

\* The loop of buildMenuTree and buildDeptTree ends with them, and the list is made
\* of the roots and what is below them.
LEMMA ViewIsMadeOfPaths ==
    ASSUME parent \in [Nodes -> Nodes \cup {Root}],
           NEW order, Range(order) \in SUBSET Nodes, order \in Seq(Range(order)),
           \A i, j \in 1 .. Len(order) : order[i] = order[j] => i = j
    PROVE  View(order) = UNION {under(n, PathsBelow(order, n, Len(order))) :
                                   n \in {m \in Range(order) : above(Range(order), m) = Root}}
<1> DEFINE S == Range(order)
           N == Len(order)
           turn(g, i) == IF i = 0 THEN [n \in S |-> {}] ELSE attach(S, g[i - 1], order[i])
           below == CHOOSE g : g = [i \in 0 .. N |-> turn(g, i)]
           paths == [i \in 0 .. N |-> [n \in S |-> PathsBelow(order, n, i)]]
<1>1. View(order) = UNION {under(n, below[N][n]) : n \in {m \in S : above(S, m) = Root}}
  BY Zenon DEF View
<1>2. N \in Nat  BY LenProperties
<1>3. \A i \in 0 .. N : paths[i] = turn(paths, i)
  <2> TAKE i \in 0 .. N
  <2>1. CASE i = 0
    <3>1. [n \in S |-> PathsBelow(order, n, 0)] = [n \in S |-> {}]  BY DEF PathsBelow
    <3> QED  BY <2>1, <3>1
  <2>2. CASE i # 0
    <3>1. i \in 1 .. N /\ i - 1 \in 0 .. N  BY <1>2, <2>2
    <3>2. paths[i] = attach(S, paths[i - 1], order[i])  BY <3>1, AttachAddsPaths
    <3> QED  BY <2>2, <3>2
  <2> QED  BY <2>1, <2>2
<1>4. paths = [i \in 0 .. N |-> turn(paths, i)]
  <2>1. paths = [i \in 0 .. N |-> paths[i]]  OBVIOUS
  <2> HIDE DEF paths, turn
  <2> QED  BY <1>3, <2>1
<1>5. below = [i \in 0 .. N |-> turn(below, i)]
  <2> HIDE DEF paths, turn
  <2> QED  BY <1>4
<1>6. \A i \in 0 .. N : below[i] = paths[i]
  <2>1. \A i \in 0 .. N : below[i] = turn(below, i)
    <3> HIDE DEF below, turn
    <3> QED  BY <1>5
  <2> HIDE DEF paths, below
  <2>2. below[0] = paths[0]
    <3>1. 0 \in 0 .. N /\ turn(below, 0) = turn(paths, 0)  BY <1>2
    <3> HIDE DEF turn
    <3> QED  BY <1>3, <2>1, <3>1
  <2>3. ASSUME NEW i \in 1 .. N, below[i - 1] = paths[i - 1]  PROVE below[i] = paths[i]
    <3>1. i \in 0 .. N /\ i # 0  BY <1>2
    <3>2. turn(below, i) = turn(paths, i)  BY <2>3
    <3> HIDE DEF turn
    <3> QED  BY <1>3, <2>1, <3>1, <3>2
  <2> HIDE DEF turn, N
  <2>4. \A i \in 1 .. N : below[i - 1] = paths[i - 1] => below[i] = paths[i]  BY <2>3
  <2> QED  BY ONLY <1>2, <2>2, <2>4, LoopsAgree
<1>7. below[N] = [n \in S |-> PathsBelow(order, n, N)]
  <2>1. N \in 0 .. N  BY <1>2
  <2> HIDE DEF below, N
  <2> QED  BY <1>6, <2>1
<1> HIDE DEF below
<1> QED  BY <1>1, <1>7

\* Along a path whose rows come before their parents, any row comes before all that
\* are above it.
LEMMA PathsDescend ==
    ASSUME NEW order, DOMAIN order = 1 .. Len(order), Len(order) \in Nat,
           \A i, j \in 1 .. Len(order) : order[i] = order[j] => i = j,
           NEW p, Len(p) \in Nat, \A k \in 3 .. Len(p) : before(order, p[k], p[k - 1]),
           NEW i \in 2 .. Len(p), NEW j \in i + 1 .. Len(p)
    PROVE  before(order, p[j], p[i])
<1> DEFINE Wrong == {k \in i + 1 .. Len(p) : ~ before(order, p[k], p[i])}
<1>1. SUFFICES ASSUME Wrong # {}  PROVE FALSE  OBVIOUS
<1>2. PICK k \in Wrong : \A l \in Wrong : k <= l
  <2>1. Wrong \in SUBSET Nat  OBVIOUS
  <2> QED  BY ONLY <1>1, <2>1, SmallestNumber
<1>3. before(order, p[k], p[k - 1])  OBVIOUS
<1>4. k # i + 1  BY <1>3
<1>5. before(order, p[k - 1], p[i])  BY <1>2, <1>4
<1> QED  BY <1>3, <1>5 DEF before

\* A list shows exactly the paths of the tree whose rows come from below.
LEMMA ViewIsItsPaths ==
    ASSUME NEW S \in SUBSET Nodes, parent \in [Nodes -> Nodes \cup {Root}],
           NEW order \in Orders(S)
    PROVE  View(order) = {p \in TruePaths(S) :
                             \A i \in 3 .. Len(p) : before(order, p[i], p[i - 1])}
<1>1. IsFiniteSet(S)  BY NodesAssumption, FS_Subset
<1>2. /\ order \in Seq(S) /\ Range(order) = S
      /\ \A i, j \in 1 .. Len(order) : order[i] = order[j] => i = j
  BY <1>1, OrderFacts
<1>3. Len(order) \in Nat /\ DOMAIN order = 1 .. Len(order)  BY <1>2, LenProperties
<1> DEFINE Shown(p) ==
        /\ p \in Seq(S) /\ p # <<>> /\ above(S, p[1]) = Root
        /\ \A k \in 2 .. Len(p) : parent[p[k]] = p[k - 1]
        /\ \A k \in 3 .. Len(p) : before(order, p[k], p[k - 1])
<1>4. ASSUME NEW p  PROVE p \in View(order) <=> Shown(p)
  <2>1. p \in View(order) <=>
            \E m \in S : above(S, m) = Root /\ p \in under(m, PathsBelow(order, m, Len(order)))
    BY <1>2, ViewIsMadeOfPaths
  <2>2. ASSUME NEW m \in S
        PROVE  p \in under(m, PathsBelow(order, m, Len(order))) <=>
                   /\ p \in Seq(S) /\ p # <<>> /\ p[1] = m
                   /\ Len(p) >= 2 => \E j \in 1 .. Len(order) : p[2] = order[j]
                   /\ \A k \in 2 .. Len(p) : parent[p[k]] = p[k - 1]
                   /\ \A k \in 3 .. Len(p) : before(order, p[k], p[k - 1])
    BY <1>2, <1>3, PathsUnder
  <2>3. ASSUME p \in Seq(S), Len(p) >= 2  PROVE \E j \in 1 .. Len(order) : p[2] = order[j]
    <3>1. p[2] \in S  BY <2>3, ElementOfSeq, LenProperties
    <3> QED  BY <1>2, <1>3, <3>1 DEF Range
  <2>4. ASSUME p \in Seq(S), p # <<>>  PROVE p[1] \in S
    BY <2>4, TakeOffTop
  <2> QED  BY <2>1, <2>2, <2>3, <2>4
<1>5. ASSUME NEW p, Shown(p), NEW i \in 1 .. Len(p), NEW j \in 1 .. Len(p), i < j
      PROVE  p[i] # p[j]
  <2>1. Len(p) \in Nat /\ \A k \in 1 .. Len(p) : p[k] \in S
    BY <1>5, LenProperties, ElementOfSeq
  <2>2. CASE i = 1
    <3>1. parent[p[j]] = p[j - 1] /\ p[j - 1] \in S  BY <1>5, <2>1, <2>2
    <3>2. parent[p[1]] \notin S  BY <1>5, RootAssumption DEF above
    <3> QED  BY <2>2, <3>1, <3>2
  <2>3. CASE i # 1
    <3>1. i \in 2 .. Len(p) /\ j \in i + 1 .. Len(p)  BY <1>5, <2>1, <2>3
    <3>2. before(order, p[j], p[i])  BY <1>2, <1>3, <1>5, <2>1, <3>1, PathsDescend
    <3> QED  BY <1>2, <1>3, <3>2 DEF before
  <2> QED  BY <2>2, <2>3
<1>6. ASSUME NEW p, Shown(p), NEW i \in 1 .. Len(p), NEW j \in 1 .. Len(p), p[i] = p[j]
      PROVE  i = j
  <2>1. i \in Int /\ j \in Int  OBVIOUS
  <2>2. ~ (i < j) /\ ~ (j < i)  BY <1>5, <1>6
  <2> QED  BY <2>1, <2>2
<1>7. ASSUME NEW p
      PROVE  p \in TruePaths(S) /\ (\A k \in 3 .. Len(p) : before(order, p[k], p[k - 1]))
                 <=> Shown(p)
  <2>1. p \in UNION {Orders(T) : T \in SUBSET S} <=>
            p \in Seq(S) /\ \A i, j \in 1 .. Len(p) : p[i] = p[j] => i = j
    BY <1>1, OrdersOfSubsets
  <2> QED  BY <1>6, <2>1 DEF TruePaths
<1> HIDE DEF Shown
<1> QED  BY <1>4, <1>7

\* Whatever forest, or cycle, the requests have left behind, a list of any live rows
\* in any order shows the two uppermost levels and, of the deeper rows, those whose
\* paths come from below, each in its place.
THEOREM ListsShowWhatComesFirst == Spec => []ViewShowsWhatComesFirst
<1>1. TypeOK => ViewShowsWhatComesFirst
  <2>1. ASSUME TypeOK, NEW S \in SUBSET Live, NEW order \in Orders(S)
        PROVE  View(order) = {p \in TruePaths(S) :
                                 \A i \in 3 .. Len(p) : before(order, p[i], p[i - 1])}
    <3>1. S \in SUBSET Nodes /\ parent \in [Nodes -> Nodes \cup {Root}]
      BY <2>1 DEF Live, TypeOK
    <3> QED  BY <3>1, ViewIsItsPaths
  <2> QED  BY <2>1 DEF ViewShowsWhatComesFirst
<1> QED  BY <1>1, TypeCorrect, PTL

-----------------------------------------------------------------------------
(***************************************************************************)
(* The menus of a user.  The loop invariant: the menus passed after i      *)
(* grants are those from which the way down leads to one of the i, which   *)
(* is the least set that holds the grants in S and, with a menu, its       *)
(* parent in S.                                                            *)
(***************************************************************************)

\* T holds, with a row, its parent if that is in S.
ClosedUpwards(S, T) == \A n \in T : parent[n] \in S => parent[n] \in T

\* The rows that the way up from n through S passes.
WayUp(S, n) ==
    {m \in S : \A T \in SUBSET S : (n \in S => n \in T) /\ ClosedUpwards(S, T) => m \in T}

\* The way up from n is n and the way up from its parent through the other rows.
LEMMA WayUpStep ==
    ASSUME NEW S, NEW n \in S
    PROVE  WayUp(S, n) = {n} \cup WayUp(S \ {n}, parent[n])
<1>1. n \in WayUp(S, n)  BY DEF WayUp
<1>2. ASSUME NEW m \in WayUp(S, n), m # n  PROVE m \in WayUp(S \ {n}, parent[n])
  <2>1. ASSUME NEW T \in SUBSET (S \ {n}), parent[n] \in S \ {n} => parent[n] \in T,
               ClosedUpwards(S \ {n}, T)
        PROVE  m \in T
    <3>1. T \cup {n} \in SUBSET S /\ ClosedUpwards(S, T \cup {n})
      BY <2>1 DEF ClosedUpwards
    <3>2. m \in T \cup {n}  BY <3>1 DEF WayUp
    <3> QED  BY <1>2, <3>2
  <2> QED  BY <1>2, <2>1 DEF WayUp
<1>3. ASSUME NEW m \in WayUp(S \ {n}, parent[n])  PROVE m \in WayUp(S, n)
  <2>1. ASSUME NEW T \in SUBSET S, n \in T, ClosedUpwards(S, T)
        PROVE  m \in T
    <3>1. /\ T \ {n} \in SUBSET (S \ {n})
          /\ parent[n] \in S \ {n} => parent[n] \in T \ {n}
          /\ ClosedUpwards(S \ {n}, T \ {n})
      BY <2>1 DEF ClosedUpwards
    <3>2. m \in T \ {n}  BY <3>1 DEF WayUp
    <3> QED  BY <3>2
  <2> QED  BY <2>1 DEF WayUp
<1> QED  BY <1>1, <1>2, <1>3

\* There is no way up from outside of S.
LEMMA NoWayUp ==
    ASSUME NEW S, NEW n, n \notin S
    PROVE  WayUp(S, n) = {}
<1>1. {} \in SUBSET S /\ ClosedUpwards(S, {})  BY DEF ClosedUpwards
<1> QED  BY <1>1 DEF WayUp

\* The loop of menuTreeForUser that goes up from one menu ends, and adds its way up
\* through the menus that no earlier way has passed.
LEMMA ClimbAddsWayUp ==
    ASSUME NEW S \in SUBSET Nodes, parent \in [Nodes -> Nodes \cup {Root}],
           NEW n \in Nodes \cup {Root}, NEW seen \in SUBSET Nodes
    PROVE  climb(S, n, seen) = seen \cup WayUp(S \ seen, n)
<1> DEFINE turn(g, c) == IF c.current \notin S \/ c.current \in c.passed THEN c.passed
                         ELSE g[climber(parent[c.current], c.passed \cup {c.current})]
           way == CHOOSE g : g = [c \in Climbs |-> turn(g, c)]
           up == [c \in Climbs |-> c.passed \cup WayUp(S \ c.passed, c.current)]
<1>1. climb(S, n, seen) = way[climber(n, seen)]  BY Zenon DEF climb
<1>2. ASSUME NEW m \in Nodes \cup {Root}, NEW passed \in SUBSET Nodes
      PROVE  /\ climber(m, passed) \in Climbs
             /\ climber(m, passed).current = m
             /\ climber(m, passed).passed = passed
  BY DEF Climbs, climber
<1>3. ASSUME NEW c \in Climbs, c.current \in S \ c.passed
      PROVE  /\ parent[c.current] \in Nodes \cup {Root}
             /\ c.passed \cup {c.current} \in SUBSET Nodes
  BY <1>3 DEF Climbs
<1>4. ASSUME NEW c \in Climbs  PROVE up[c] = turn(up, c)
  <2>1. CASE c.current \notin S \ c.passed
    <3>1. WayUp(S \ c.passed, c.current) = {}  BY <2>1, NoWayUp
    <3> QED  BY <2>1, <3>1
  <2>2. CASE c.current \in S \ c.passed
    <3> DEFINE next == climber(parent[c.current], c.passed \cup {c.current})
    <3>1. WayUp(S \ c.passed, c.current) =
              {c.current} \cup WayUp((S \ c.passed) \ {c.current}, parent[c.current])
      BY <2>2, WayUpStep
    <3>2. (S \ c.passed) \ {c.current} = S \ (c.passed \cup {c.current})  OBVIOUS
    <3>3. /\ next \in Climbs
          /\ next.current = parent[c.current]
          /\ next.passed = c.passed \cup {c.current}
      BY <1>2, <1>3, <2>2
    <3> HIDE DEF next
    <3>4. up[next] = (c.passed \cup {c.current})
                     \cup WayUp(S \ (c.passed \cup {c.current}), parent[c.current])
      BY <3>3
    <3>5. turn(up, c) = up[next]  BY <2>2 DEF next
    <3>6. up[c] = c.passed \cup WayUp(S \ c.passed, c.current)  OBVIOUS
    <3> HIDE DEF up, turn
    <3> QED  BY <3>1, <3>2, <3>4, <3>5, <3>6
  <2> QED  BY <2>1, <2>2
<1>5. way = [c \in Climbs |-> turn(way, c)]
  <2>1. up = [c \in Climbs |-> up[c]]  OBVIOUS
  <2>2. up = [c \in Climbs |-> turn(up, c)]
    <3> HIDE DEF up, turn
    <3> QED  BY <1>4, <2>1
  <2> HIDE DEF up, turn
  <2> QED  BY <2>2
<1>6. \A c \in Climbs : way[c] = turn(way, c)
  <2> HIDE DEF way, turn
  <2> QED  BY <1>5
<1> DEFINE Wrong == {c \in Climbs : way[c] # up[c]}
           F == {Nodes \ c.passed : c \in Wrong}
<1>7. Wrong = {}
  <2> SUFFICES ASSUME Wrong # {}  PROVE FALSE  OBVIOUS
  <2>1. \A T \in F : IsFiniteSet(T)
    <3> HIDE DEF Wrong
    <3> QED  BY NodesAssumption, FS_Subset
  <2>2. PICK T \in F : \A U \in F : U \subseteq T => U = T
    <3>1. F # {}
      <4>1. PICK c : c \in Wrong  OBVIOUS
      <4>2. Nodes \ c.passed \in F  BY <4>1
      <4> HIDE DEF F
      <4> QED  BY <4>2
    <3> HIDE DEF F
    <3> QED  BY <2>1, <3>1, SmallestSet
  <2>3. PICK c \in Wrong : T = Nodes \ c.passed
    <3> HIDE DEF Wrong
    <3> QED  OBVIOUS
  <2> DEFINE next == climber(parent[c.current], c.passed \cup {c.current})
  <2>4. c \in Climbs /\ way[c] # up[c]
    <3> HIDE DEF way, up
    <3> QED  BY <2>3
  <2>5. turn(way, c) # turn(up, c)
    <3> HIDE DEF way, up, turn
    <3> QED  BY <1>4, <1>6, <2>4
  <2>6. c.current \in S \ c.passed /\ way[next] # up[next]
    <3> HIDE DEF way, up
    <3> QED  BY <2>5
  <2>7. next \in Climbs /\ next.passed = c.passed \cup {c.current}
    BY <1>2, <1>3, <2>4, <2>6
  <2>8. Nodes \ (c.passed \cup {c.current}) \in F
    <3>1. next \in Wrong
      <4> HIDE DEF way, up, next
      <4> QED  BY <2>6, <2>7
    <3> HIDE DEF Wrong, next
    <3> QED  BY <2>7, <3>1
  <2>9. Nodes \ (c.passed \cup {c.current}) = Nodes \ c.passed
    <3> HIDE DEF F, Wrong
    <3> QED  BY <2>2, <2>3, <2>8
  <2> QED  BY <2>6, <2>9
<1>8. way[climber(n, seen)] = seen \cup WayUp(S \ seen, n)
  <2>1. climber(n, seen) \notin Wrong  BY <1>7
  <2>2. way[climber(n, seen)] = up[climber(n, seen)]
    <3> HIDE DEF way, up
    <3> QED  BY <1>2, <2>1
  <2>3. up[climber(n, seen)] = seen \cup WayUp(S \ seen, n)  BY <1>2
  <2> HIDE DEF way, up
  <2> QED  BY <2>2, <2>3
<1> HIDE DEF way
<1> QED  BY <1>1, <1>8

\* The rows of S from which the way down leads to one that is in G.
LeadingTo(S, G) ==
    {m \in S : \A T \in SUBSET S : G \cap S \subseteq T /\ ClosedUpwards(S, T) => m \in T}

\* They hold what is granted, and with a row its parent.
LEMMA LeadingToIsClosed ==
    ASSUME NEW S, NEW G
    PROVE  /\ G \cap S \subseteq LeadingTo(S, G)
           /\ ClosedUpwards(S, LeadingTo(S, G))
BY DEF LeadingTo, ClosedUpwards

\* One more grant adds its way up through the other rows.
LEMMA GrantAddsWayUp ==
    ASSUME NEW S, NEW G, NEW n, NEW H, H = G \cup {n}
    PROVE  LeadingTo(S, H) = LeadingTo(S, G) \cup WayUp(S \ LeadingTo(S, G), n)
<1> DEFINE A == LeadingTo(S, G)
<1>1. A \subseteq S /\ G \cap S \subseteq A /\ ClosedUpwards(S, A)
  <2>1. A \subseteq S  BY DEF LeadingTo
  <2> QED  BY <2>1, LeadingToIsClosed
<1>2. ASSUME NEW T \in SUBSET S, G \cap S \subseteq T, ClosedUpwards(S, T)
      PROVE  A \subseteq T
  BY <1>2 DEF LeadingTo
<1> HIDE DEF A
<1>3. ASSUME NEW m \in A  PROVE m \in LeadingTo(S, H)
  BY <1>1, <1>2, <1>3 DEF LeadingTo
<1>4. ASSUME NEW m \in WayUp(S \ A, n)  PROVE m \in LeadingTo(S, H)
  <2>1. ASSUME NEW T \in SUBSET S, H \cap S \subseteq T, ClosedUpwards(S, T)
        PROVE  m \in T
    <3>1. /\ T \ A \in SUBSET (S \ A)
          /\ n \in S \ A => n \in T \ A
          /\ ClosedUpwards(S \ A, T \ A)
      BY <2>1 DEF ClosedUpwards
    <3>2. m \in T \ A  BY <3>1 DEF WayUp
    <3> QED  BY <3>2
  <2> QED  BY <2>1 DEF LeadingTo, WayUp
<1>5. ASSUME NEW m \in LeadingTo(S, H), m \notin A  PROVE m \in WayUp(S \ A, n)
  <2>1. ASSUME NEW T \in SUBSET (S \ A), n \in S \ A => n \in T, ClosedUpwards(S \ A, T)
        PROVE  m \in T
    <3>1. /\ A \cup T \in SUBSET S
          /\ H \cap S \subseteq A \cup T
          /\ ClosedUpwards(S, A \cup T)
      BY <1>1, <2>1 DEF ClosedUpwards
    <3>2. m \in A \cup T  BY <3>1 DEF LeadingTo
    <3> QED  BY <1>5, <3>2
  <2> QED  BY <1>5, <2>1 DEF LeadingTo, WayUp
<1>6. LeadingTo(S, H) = A \cup WayUp(S \ A, n)  BY <1>3, <1>4, <1>5
<1> QED  BY <1>6 DEF A

\* The loop of menuTreeForUser ends with the menus that lead to a granted one, in
\* whatever order the grants come.
LEMMA VisibleLeadsToGrants ==
    ASSUME NEW S \in SUBSET Nodes, parent \in [Nodes -> Nodes \cup {Root}],
           NEW granted \in Seq(Nodes)
    PROVE  visible(granted, S) = LeadingTo(S, Range(granted))
<1> DEFINE N == Len(granted)
           turn(g, i) == IF i = 0 THEN {} ELSE climb(S, granted[i], g[i - 1])
           seen == CHOOSE g : g = [i \in 0 .. N |-> turn(g, i)]
           led == [i \in 0 .. N |-> LeadingTo(S, {granted[j] : j \in 1 .. i})]
<1>1. visible(granted, S) = seen[N]  BY Zenon DEF visible
<1>2. N \in Nat /\ DOMAIN granted = 1 .. N  BY LenProperties
<1>3. \A i \in 0 .. N : led[i] = turn(led, i)
  <2> TAKE i \in 0 .. N
  <2>1. CASE i = 0
    <3>1. {granted[j] : j \in 1 .. 0} = {}  OBVIOUS
    <3>2. {} \in SUBSET S /\ {} \cap S \subseteq {} /\ ClosedUpwards(S, {})
      BY DEF ClosedUpwards
    <3>3. LeadingTo(S, {}) = {}  BY <3>2 DEF LeadingTo
    <3> QED  BY <2>1, <3>1, <3>3
  <2>2. CASE i # 0
    <3>1. i \in 1 .. N /\ i - 1 \in 0 .. N  BY <1>2, <2>2
    <3>2. {granted[j] : j \in 1 .. i} = {granted[j] : j \in 1 .. i - 1} \cup {granted[i]}
      BY <3>1
    <3>3. led[i] = led[i - 1] \cup WayUp(S \ led[i - 1], granted[i])
      <4> DEFINE G == {granted[j] : j \in 1 .. i - 1}
                 H == {granted[j] : j \in 1 .. i}
      <4>1. led[i - 1] = LeadingTo(S, G) /\ led[i] = LeadingTo(S, H)  BY <3>1
      <4>2. H = G \cup {granted[i]}  BY <3>2
      <4> HIDE DEF led, G, H
      <4>3. LeadingTo(S, H) = LeadingTo(S, G) \cup WayUp(S \ LeadingTo(S, G), granted[i])
        BY <4>2, GrantAddsWayUp
      <4> QED  BY <4>1, <4>3
    <3>4. granted[i] \in Nodes \cup {Root} /\ led[i - 1] \in SUBSET Nodes
      <4>1. granted[i] \in Nodes  BY <3>1, ElementOfSeq
      <4>2. led[i - 1] \in SUBSET S  BY <3>1 DEF LeadingTo
      <4> HIDE DEF led
      <4> QED  BY <4>1, <4>2
    <3>5. climb(S, granted[i], led[i - 1]) =
              led[i - 1] \cup WayUp(S \ led[i - 1], granted[i])
      <4> DEFINE T == led[i - 1]
      <4>1. granted[i] \in Nodes \cup {Root} /\ T \in SUBSET Nodes  BY <3>4
      <4> HIDE DEF T
      <4>2. climb(S, granted[i], T) = T \cup WayUp(S \ T, granted[i])
        BY <4>1, ClimbAddsWayUp
      <4> QED  BY <4>2 DEF T
    <3> HIDE DEF led
    <3> QED  BY <2>2, <3>3, <3>5
  <2> QED  BY <2>1, <2>2
<1>4. seen = [i \in 0 .. N |-> turn(seen, i)]
  <2>1. led = [i \in 0 .. N |-> led[i]]  OBVIOUS
  <2> HIDE DEF led, turn
  <2>2. led = [i \in 0 .. N |-> turn(led, i)]  BY <1>3, <2>1
  <2> QED  BY <2>2
<1>5. \A i \in 0 .. N : seen[i] = turn(seen, i)
  <2> HIDE DEF seen, turn
  <2> QED  BY <1>4
<1>6. \A i \in 0 .. N : seen[i] = led[i]
  <2>1. seen[0] = led[0]
    <3> HIDE DEF seen, led
    <3>1. 0 \in 0 .. N /\ turn(seen, 0) = turn(led, 0)  BY <1>2
    <3> HIDE DEF turn
    <3> QED  BY <1>3, <1>5, <3>1
  <2>2. \A i \in 1 .. N : seen[i - 1] = led[i - 1] => seen[i] = led[i]
    <3> HIDE DEF seen, led
    <3> TAKE i \in 1 .. N
    <3> HAVE seen[i - 1] = led[i - 1]
    <3>1. i \in 0 .. N  BY <1>2
    <3>2. turn(seen, i) = turn(led, i)  OBVIOUS
    <3> HIDE DEF turn
    <3> QED  BY <1>3, <1>5, <3>1, <3>2
  <2>3. N \in Nat  BY <1>2
  <2> HIDE DEF seen, led, N, turn
  <2> QED  BY ONLY <2>1, <2>2, <2>3, LoopsAgree, SMTT(20)
<1>7. seen[N] = LeadingTo(S, {granted[j] : j \in 1 .. N})
  <2>1. N \in 0 .. N  BY <1>2
  <2> HIDE DEF seen, N
  <2> QED  BY <1>6, <2>1
<1>8. Range(granted) = {granted[j] : j \in 1 .. N}  BY <1>2 DEF Range
<1> HIDE DEF seen
<1> QED  BY <1>1, <1>7, <1>8

\* A menu leads to a granted one exactly if there is a path of enabled menus from it
\* down to one: where the path up meets a row a second time, a part of it will do.
LEMMA LeadingToByPaths ==
    ASSUME NEW S, IsFiniteSet(S), NEW G
    PROVE  LeadingTo(S, G) =
               {m \in S : \E p \in UNION {Orders(T) : T \in SUBSET S} :
                   /\ p # <<>>
                   /\ p[1] = m /\ p[Len(p)] \in G
                   /\ \A i \in 2 .. Len(p) : parent[p[i]] = p[i - 1]}
<1> DEFINE Down(p, m) ==
               /\ p \in Seq(S) /\ \A i, j \in 1 .. Len(p) : p[i] = p[j] => i = j
               /\ p # <<>>
               /\ p[1] = m /\ p[Len(p)] \in G
               /\ \A i \in 2 .. Len(p) : parent[p[i]] = p[i - 1]
           A == {m \in S : \E p : Down(p, m)}
<1>1. A = {m \in S : \E p \in UNION {Orders(T) : T \in SUBSET S} :
                   /\ p # <<>>
                   /\ p[1] = m /\ p[Len(p)] \in G
                   /\ \A i \in 2 .. Len(p) : parent[p[i]] = p[i - 1]}
  BY OrdersOfSubsets
<1>2. ASSUME NEW m \in G \cap S  PROVE m \in A
  <2>1. Down(<<m>>, m)  OBVIOUS
  <2> HIDE DEF Down
  <2> QED  BY <2>1
<1>3. ASSUME NEW n \in A, parent[n] \in S  PROVE parent[n] \in A
  <2>1. PICK p : Down(p, n)  BY <1>3
  <2>2. Len(p) \in Nat \ {0} /\ \A k \in 1 .. Len(p) : p[k] \in S
    BY <2>1, EmptySeq, ElementOfSeq
  <2>3. CASE \A k \in 1 .. Len(p) : p[k] # parent[n]
    <3> DEFINE q == <<parent[n]>> \o p
    <3>1. /\ q \in Seq(S) /\ Len(q) = Len(p) + 1 /\ q[1] = parent[n]
          /\ \A k \in 2 .. Len(p) + 1 : q[k] = p[k - 1]
      BY <1>3, <2>1, PutOnTop
    <3> HIDE DEF q
    <3>2. ASSUME NEW i \in 1 .. Len(q), NEW j \in 1 .. Len(q), q[i] = q[j]  PROVE i = j
      <4>1. CASE i = 1 /\ j # 1
        <5>1. q[j] = p[j - 1] /\ j - 1 \in 1 .. Len(p)  BY <2>2, <3>1, <4>1
        <5> QED  BY <2>3, <3>1, <3>2, <4>1, <5>1
      <4>2. CASE i # 1 /\ j = 1
        <5>1. q[i] = p[i - 1] /\ i - 1 \in 1 .. Len(p)  BY <2>2, <3>1, <4>2
        <5> QED  BY <2>3, <3>1, <3>2, <4>2, <5>1
      <4>3. CASE i # 1 /\ j # 1
        <5>1. /\ i \in 2 .. Len(p) + 1 /\ i - 1 \in 1 .. Len(p)
              /\ j \in 2 .. Len(p) + 1 /\ j - 1 \in 1 .. Len(p)
          BY <2>2, <3>1, <4>3
        <5>2. p[i - 1] = p[j - 1]  BY <3>1, <3>2, <5>1
        <5>3. i - 1 = j - 1  BY ONLY <2>1, <5>1, <5>2
        <5> QED  BY <5>1, <5>3
      <4> QED  BY <4>1, <4>2, <4>3
    <3>3. ASSUME NEW k \in 2 .. Len(q)  PROVE parent[q[k]] = q[k - 1]
      <4>1. CASE k = 2  BY <2>1, <2>2, <3>1, <4>1
      <4>2. CASE k # 2
        <5>1. k \in 2 .. Len(p) + 1 /\ k - 1 \in 2 .. Len(p) /\ k - 1 \in 2 .. Len(p) + 1
          BY <2>2, <3>1, <4>2
        <5>2. q[k] = p[k - 1] /\ q[k - 1] = p[(k - 1) - 1]  BY <3>1, <5>1
        <5> QED  BY <2>1, <5>1, <5>2
      <4> QED  BY <4>1, <4>2
    <3>4. q # <<>> /\ q[Len(q)] = p[Len(p)]  BY <2>2, <3>1
    <3>5. Down(q, parent[n])  BY <2>1, <3>1, <3>2, <3>3, <3>4
    <3> HIDE DEF Down
    <3> QED  BY <1>3, <3>5
  <2>4. ASSUME NEW k \in 1 .. Len(p), p[k] = parent[n]  PROVE parent[n] \in A
    <3> DEFINE q == SubSeq(p, k, Len(p))
    <3>1. /\ q \in Seq(S) /\ Len(q) = Len(p) - k + 1
          /\ \A i \in 1 .. Len(p) - k + 1 : q[i] = p[k + i - 1]
      <4>1. k \in Int /\ Len(p) \in Int /\ k <= Len(p) /\ \A i \in k .. Len(p) : p[i] \in S
        BY <2>2
      <4> QED  BY <4>1, SubSeqProperties
    <3> HIDE DEF q
    <3>2. q # <<>> /\ q[1] = parent[n] /\ q[Len(q)] = p[Len(p)]
      <4>1. /\ Len(q) \in Nat \ {0} /\ k + 1 - 1 = k /\ k + Len(q) - 1 = Len(p)
            /\ 1 \in 1 .. Len(q) /\ Len(q) \in 1 .. Len(q)
        BY <2>2, <3>1
      <4>2. q[1] = p[k + 1 - 1] /\ q[Len(q)] = p[k + Len(q) - 1]  BY <3>1, <4>1
      <4> QED  BY <2>4, <4>1, <4>2
    <3>3. ASSUME NEW i \in 1 .. Len(q), NEW j \in 1 .. Len(q), q[i] = q[j]  PROVE i = j
      <4>1. k + i - 1 \in 1 .. Len(p) /\ k + j - 1 \in 1 .. Len(p)  BY <2>2, <3>1
      <4>2. p[k + i - 1] = p[k + j - 1]  BY <3>1, <3>3
      <4>3. k + i - 1 = k + j - 1
        <5> DEFINE a == k + i - 1
                   b == k + j - 1
        <5>1. a \in 1 .. Len(p) /\ b \in 1 .. Len(p) /\ p[a] = p[b]  BY <4>1, <4>2
        <5> HIDE DEF a, b
        <5>2. a = b  BY ONLY <2>1, <5>1
        <5> QED  BY <5>2 DEF a, b
      <4>4. k \in Int /\ i \in Int /\ j \in Int  BY <2>2, <3>1
      <4> QED  BY ONLY <4>3, <4>4
    <3>4. ASSUME NEW i \in 2 .. Len(q)  PROVE parent[q[i]] = q[i - 1]
      <4>1. Len(q) \in Int /\ i \in 1 .. Len(q) /\ i - 1 \in 1 .. Len(q)
        BY <2>2, <3>1
      <4>2. k + i - 1 \in 2 .. Len(p)  BY <2>2, <3>1
      <4>3. k + (i - 1) - 1 = (k + i - 1) - 1  BY <4>1
      <4>4. q[i] = p[k + i - 1] /\ q[i - 1] = p[k + (i - 1) - 1]  BY <3>1, <4>1
      <4>5. parent[p[k + i - 1]] = p[(k + i - 1) - 1]
        <5> DEFINE a == k + i - 1
        <5>1. a \in 2 .. Len(p)  BY <4>2
        <5> HIDE DEF a
        <5>2. parent[p[a]] = p[a - 1]  BY ONLY <2>1, <5>1
        <5> QED  BY <5>2 DEF a
      <4> QED  BY ONLY <4>3, <4>4, <4>5
    <3>5. Down(q, parent[n])  BY <2>1, <3>1, <3>2, <3>3, <3>4
    <3> HIDE DEF Down
    <3> QED  BY <1>3, <3>5
  <2> QED  BY <2>3, <2>4
<1>4. ASSUME NEW m \in A, NEW T \in SUBSET S, G \cap S \subseteq T, ClosedUpwards(S, T)
      PROVE  m \in T
  <2>1. PICK p : Down(p, m)  OBVIOUS
  <2>2. Len(p) \in Nat \ {0} /\ \A k \in 1 .. Len(p) : p[k] \in S
    BY <2>1, EmptySeq, ElementOfSeq
  <2> DEFINE Outside == {i \in 0 .. Len(p) - 1 : p[Len(p) - i] \notin T}
  <2>3. Outside = {}
    <3>0. SUFFICES ASSUME Outside # {}  PROVE FALSE  OBVIOUS
    <3>1. PICK i \in Outside : \A j \in Outside : i <= j
      <4>1. Outside \in SUBSET Nat  OBVIOUS
      <4> QED  BY ONLY <3>0, <4>1, SmallestNumber
    <3>2. i # 0  BY <1>4, <2>1, <2>2
    <3>3. i - 1 \in 0 .. Len(p) - 1 /\ i - 1 \notin Outside
      <4>1. i \in 0 .. Len(p) - 1  OBVIOUS
      <4>2. ~ (i <= i - 1)  BY <2>2, <4>1
      <4> HIDE DEF Outside
      <4> QED  BY <2>2, <3>1, <3>2, <4>1, <4>2
    <3>4. p[Len(p) - (i - 1)] \in T  BY <3>3
    <3>5. /\ Len(p) - (i - 1) \in 2 .. Len(p)
          /\ Len(p) - i = (Len(p) - (i - 1)) - 1
          /\ Len(p) - i \in 1 .. Len(p)
      BY <2>2, <3>2
    <3>6. parent[p[Len(p) - (i - 1)]] = p[Len(p) - i] /\ p[Len(p) - i] \in S
      BY <2>1, <2>2, <3>5
    <3>7. p[Len(p) - i] \in T  BY <1>4, <3>4, <3>6 DEF ClosedUpwards
    <3> QED  BY <3>7
  <2>4. Len(p) - 1 \in 0 .. Len(p) - 1 /\ Len(p) - (Len(p) - 1) = 1  BY <2>2
  <2>5. p[1] \in T  BY <2>3, <2>4
  <2> QED  BY <2>1, <2>5
<1>5. A \in SUBSET S /\ G \cap S \subseteq A /\ ClosedUpwards(S, A)
  <2>1. A \in SUBSET S  OBVIOUS
  <2> HIDE DEF A
  <2> QED  BY <1>2, <1>3, <2>1 DEF ClosedUpwards
<1>6. LeadingTo(S, G) = A
  <2> HIDE DEF A
  <2> QED  BY <1>4, <1>5 DEF LeadingTo
<1> HIDE DEF A
<1> QED  BY <1>1, <1>6

\* A user's menus are those that lead to a granted one, for every set of enabled
\* menus, every set of grants and every order they are read in, also when the menus
\* form a cycle.
THEOREM MenusOfUsersAreClosed == Spec => []UserMenusAreClosed
<1>1. TypeOK => UserMenusAreClosed
  <2>1. ASSUME TypeOK, NEW S \in SUBSET Live, NEW G \in SUBSET Live,
               NEW granted \in Orders(G)
        PROVE  visible(granted, S) =
                   {m \in S : \E p \in UNION {Orders(T) : T \in SUBSET S} :
                       /\ p # <<>>
                       /\ p[1] = m /\ p[Len(p)] \in G
                       /\ \A i \in 2 .. Len(p) : parent[p[i]] = p[i - 1]}
    <3>1. S \in SUBSET Nodes /\ G \in SUBSET Nodes
          /\ parent \in [Nodes -> Nodes \cup {Root}]
      BY <2>1 DEF Live, TypeOK
    <3>2. IsFiniteSet(S) /\ IsFiniteSet(G)  BY <3>1, NodesAssumption, FS_Subset
    <3>3. granted \in Seq(Nodes) /\ Range(granted) = G
      BY <3>1, <3>2, OrderFacts, SeqMonotonic
    <3>4. visible(granted, S) = LeadingTo(S, G)  BY <3>1, <3>3, VisibleLeadsToGrants
    <3> QED  BY <3>2, <3>4, LeadingToByPaths
  <2> QED  BY <2>1 DEF UserMenusAreClosed
<1> QED  BY <1>1, TypeCorrect, PTL

=============================================================================
