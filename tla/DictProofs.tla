------------------------------ MODULE DictProofs ------------------------------
(* Theorems about the dictionary, for every number of types, items and          *)
(* concurrent requests.                                                         *)
EXTENDS Dict, FiniteSetTheorems, TLAPS

-----------------------------------------------------------------------------
(* Type correctness, with what the control point says of a request. *)

NeedsType == {"findType", "clear", "write", "typeRow", "countItems", "deleteType"}

Shape ==
    /\ \A r \in Requests : req[r].at \in NeedsType => req[r].type \in Types
    /\ \A r \in Requests : req[r].at \in {"itemRow", "deleteItem"} => req[r].item \in Items
    /\ \A i \in Items \cap rows : typeOf[i] \in Types

TypeInv == TypeOK /\ Shape

LEMMA BeginKeepsRequests ==
    ASSUME TypeInv, NEW r \in Requests, NEW c \in Control, NEW i \in Items \cup {None},
           NEW t \in Types \cup {None}, NEW d \in BOOLEAN,
           c \in NeedsType => t \in Types,
           c \in {"itemRow", "deleteItem"} => i \in Items,
           begin(r, c, i, t, d), raced' \subseteq Types
    PROVE  TypeInv'
BY DEF TypeInv, TypeOK, Shape, begin, tables, Request, Idle, Control, NeedsType

LEMMA GotoKeepsRequests ==
    ASSUME TypeInv, NEW r \in Requests, req[r].at \in Control, NEW c \in Control,
           req[r].at \in NeedsType <=> c \in NeedsType,
           goto(r, c)
    PROVE  /\ req' \in [Requests -> Request \cup {Idle}]
           /\ \A q \in Requests : req'[q].at \in NeedsType => req'[q].type \in Types
           /\ \A q \in Requests : req'[q].at \in {"itemRow", "deleteItem"} => req'[q].item \in Items
<1>1. req[r] \in Request /\ req' = [req EXCEPT ![r].at = c]
  BY DEF TypeInv, TypeOK, Idle, Control, goto
<1>2. req'[r] = [req[r] EXCEPT !.at = c] /\ \A q \in Requests \ {r} : req'[q] = req[q]
  BY <1>1 DEF TypeInv, TypeOK
<1>3. req'[r] \in Request /\ req'[r].at = c /\ req'[r].item = req[r].item /\ req'[r].type = req[r].type
  BY <1>1, <1>2 DEF Request
<1>4. req' \in [Requests -> Request \cup {Idle}]
  BY <1>1, <1>2, <1>3 DEF TypeInv, TypeOK
<1>6. c \in NeedsType => req[r].type \in Types
  BY DEF TypeInv, Shape
<1>7. c \in {"itemRow", "deleteItem"} => req[r].item \in Items
  BY DEF TypeInv, Shape, NeedsType, Control
<1> QED  BY <1>2, <1>3, <1>4, <1>6, <1>7 DEF TypeInv, Shape

LEMMA FinishKeepsRequests ==
    ASSUME TypeInv, NEW r \in Requests, finish(r)
    PROVE  /\ req' \in [Requests -> Request \cup {Idle}]
           /\ \A q \in Requests : req'[q].at \in NeedsType => req'[q].type \in Types
           /\ \A q \in Requests : req'[q].at \in {"itemRow", "deleteItem"} => req'[q].item \in Items
BY DEF TypeInv, TypeOK, Shape, finish, Idle, NeedsType

LEMMA TypeInvInit == Init => TypeInv
<1> SUFFICES ASSUME Init PROVE TypeOK /\ Shape  BY DEF TypeInv
<1>1. TypeOK
  <2>1. req \in [Requests -> Request \cup {Idle}]  BY DEF Init
  <2> QED  BY <2>1 DEF Init, TypeOK
<1>2. Shape
  <2>1. \A r \in Requests : req[r].at = "idle"  BY DEF Init, Idle
  <2> QED  BY <2>1 DEF Init, Shape, NeedsType
<1> QED  BY <1>1, <1>2

LEMMA RacedKeepsTypes == ASSUME Race PROVE raced' \subseteq Types \cup raced
BY DEF Race, Contested

LEMMA StepKeepsTypes ==
    ASSUME TypeInv, NEW r \in Requests, Step(r), Race
    PROVE  TypeInv'
<1>0. raced' \subseteq Types  BY RacedKeepsTypes DEF TypeInv, TypeOK
<1>1. CASE BeginSave(r)
  BY <1>1, BeginKeepsRequests, <1>0 DEF BeginSave, Control, NeedsType
<1>2. CASE BeginDeleteType(r)
  BY <1>2, BeginKeepsRequests, <1>0 DEF BeginDeleteType, Control, NeedsType
<1>3. CASE BeginDeleteItem(r)
  BY <1>3, BeginKeepsRequests, <1>0 DEF BeginDeleteItem, Control, NeedsType
<1>4. CASE FindType(r)
  BY <1>4, GotoKeepsRequests, FinishKeepsRequests, <1>0
     DEF FindType, tables, Control, NeedsType, TypeInv, TypeOK, Shape
<1>5. CASE ClearDefault(r)
  BY <1>5, GotoKeepsRequests, <1>0
     DEF ClearDefault, tables, Control, NeedsType, TypeInv, TypeOK, Shape
<1>6. CASE Insert(r)
  BY <1>6, FinishKeepsRequests, <1>0
     DEF Insert, writeItem, NeedsType, TypeInv, TypeOK, Shape
<1>7. CASE Update(r)
  <2>1. req[r].item \in Items /\ req[r].type \in Types
    BY <1>7, DictAssumption DEF Update, TypeInv, TypeOK, Shape, NeedsType, Request, Idle
  <2> QED
    BY <1>7, <2>1, FinishKeepsRequests, <1>0 DEF Update, writeItem, TypeInv, TypeOK, Shape
<1>8. CASE UpdateNothing(r)
  BY <1>8, FinishKeepsRequests, <1>0
     DEF UpdateNothing, hurtBy, tables, NeedsType, TypeInv, TypeOK, Shape
<1>9. CASE TypeRow(r)
  BY <1>9, GotoKeepsRequests, FinishKeepsRequests, <1>0
     DEF TypeRow, tables, Control, NeedsType, TypeInv, TypeOK, Shape
<1>10. CASE CountItems(r)
  BY <1>10, GotoKeepsRequests, FinishKeepsRequests, <1>0
     DEF CountItems, tables, Control, NeedsType, TypeInv, TypeOK, Shape
<1>11. CASE DeleteType(r)
  <2>1. req[r].type \in Types
    BY <1>11 DEF DeleteType, TypeInv, Shape, NeedsType
  <2> QED
    BY <1>11, <2>1, FinishKeepsRequests, <1>0, DictAssumption DEF DeleteType, TypeInv, TypeOK, Shape
<1>12. CASE ItemRow(r)
  BY <1>12, GotoKeepsRequests, FinishKeepsRequests, <1>0
     DEF ItemRow, tables, Control, NeedsType, TypeInv, TypeOK, Shape
<1>13. CASE DeleteItem(r)
  BY <1>13, FinishKeepsRequests, <1>0 DEF DeleteItem, TypeInv, TypeOK, Shape
<1>14. CASE Fail(r)
  <2>1. hurtBy(r) \subseteq Types
    BY DEF hurtBy, TypeInv, Shape, NeedsType
  <2> QED
    BY <1>14, <2>1, FinishKeepsRequests, <1>0 DEF Fail, tables, TypeInv, TypeOK, Shape
<1> QED
  BY <1>1, <1>2, <1>3, <1>4, <1>5, <1>6, <1>7, <1>8, <1>9, <1>10, <1>11, <1>12, <1>13, <1>14
     DEF Step

LEMMA TypesAreKept == Spec => []TypeInv
<1>1. TypeInv /\ [Next]_vars => TypeInv'
  <2>1. ASSUME TypeInv, CreateDictType, Race PROVE TypeInv'
    BY <2>1, RacedKeepsTypes, DictAssumption DEF CreateDictType, TypeInv, TypeOK, Shape
  <2>2. ASSUME TypeInv, UNCHANGED vars PROVE TypeInv'
    BY <2>2 DEF vars, tables, TypeInv, TypeOK, Shape
  <2> QED  BY <2>1, <2>2, StepKeepsTypes DEF Next
<1> QED  BY <1>1, TypeInvInit, PTL DEF Spec

\* The rows, the defaults and the requests keep their types, and only rows that
\* there are can be defaults.
THEOREM TypeCorrect == Spec => []TypeOK
<1>1. TypeInv => TypeOK  BY DEF TypeInv
<1> QED  BY <1>1, TypesAreKept, PTL

-----------------------------------------------------------------------------
(* How many defaults a type has.  A save that has cleared the defaults and is    *)
(* about to write one holds a claim; the defaults nobody is about to write can   *)
(* be given to requests without a claim, one each.                               *)

Claims(t) == {r \in Requests : req[r].at = "write" /\ req[r].asDefault /\ req[r].type = t}

Settled(t) == {i \in DefaultsOf(t) : \A r \in Claims(t) : req[r].item # i}

Owners(S, R) == {f \in [S -> R] : \A i, j \in S : f[i] = f[j] => i = j}

BoundInv == \A t \in Types : Owners(Settled(t), Requests \ Claims(t)) # {}

\* Fewer defaults and no more claims: the owners still do.
LEMMA OwnersOfFewer ==
    ASSUME NEW S, NEW R, Owners(S, R) # {}, NEW S1 \in SUBSET S, NEW R1, R \subseteq R1
    PROVE  Owners(S1, R1) # {}
<1>1. PICK f \in Owners(S, R) : TRUE  OBVIOUS
<1>2. [i \in S1 |-> f[i]] \in Owners(S1, R1)  BY <1>1 DEF Owners
<1> QED  BY <1>2

\* One more default is owned by the request that gave up its claim.
LEMMA OwnersOfOneMore ==
    ASSUME NEW S, NEW R, Owners(S, R) # {}, NEW x, NEW r, r \notin R,
           NEW S1, S1 \subseteq S \cup {x}
    PROVE  Owners(S1, R \cup {r}) # {}
<1>1. PICK f \in Owners(S, R) : TRUE  OBVIOUS
<1>2. [i \in S1 |-> IF i \in S THEN f[i] ELSE r] \in Owners(S1, R \cup {r})
  BY <1>1 DEF Owners
<1> QED  BY <1>2

LEMMA OwnersOfNone == ASSUME NEW R PROVE Owners({}, R) # {}
<1>1. [i \in {} |-> i] \in Owners({}, R)  BY DEF Owners
<1> QED  BY <1>1

\* The request that holds a claim on t writes item x, or ends without writing it.
LEMMA ClaimEnds ==
    ASSUME BoundInv, NEW t \in Types, NEW r \in Requests, r \in Claims(t), NEW x,
           Claims(t)' = Claims(t) \ {r}, Settled(t)' \subseteq Settled(t) \cup {x}
    PROVE  Owners(Settled(t), Requests \ Claims(t))' # {}
<1>1. Owners(Settled(t), Requests \ Claims(t)) # {}  BY DEF BoundInv
<1>2. r \notin Requests \ Claims(t)  OBVIOUS
<1>3. (Requests \ Claims(t)) \cup {r} = Requests \ Claims(t)'  BY DEF Claims
<1>4. Owners(Settled(t)', (Requests \ Claims(t)) \cup {r}) # {}
  BY <1>1, <1>2, OwnersOfOneMore
<1>5. Owners(Settled(t)', Requests \ Claims(t)') # {}  BY <1>3, <1>4
<1> QED  BY <1>5 DEF Owners

\* Nothing is claimed and no default is added.
LEMMA ClaimsStay ==
    ASSUME BoundInv, NEW t \in Types,
           Claims(t)' = Claims(t), Settled(t)' \subseteq Settled(t)
    PROVE  Owners(Settled(t), Requests \ Claims(t))' # {}
<1>1. Owners(Settled(t), Requests \ Claims(t)) # {}  BY DEF BoundInv
<1>2. Owners(Settled(t)', Requests \ Claims(t)') # {}  BY <1>1, OwnersOfFewer
<1> QED  BY <1>2 DEF Owners

\* Only the defaults and the requests matter, and r is at no claim before or after.
LEMMA NoClaim ==
    ASSUME TypeInv, BoundInv, NEW t \in Types, NEW r \in Requests, r \notin Claims(t),
           NEW y, req' = [req EXCEPT ![r] = y],
           ~(y.at = "write" /\ y.asDefault /\ y.type = t),
           DefaultsOf(t)' \subseteq DefaultsOf(t)
    PROVE  Owners(Settled(t), Requests \ Claims(t))' # {}
<1>1. req'[r] = y /\ \A q \in Requests \ {r} : req'[q] = req[q]  BY DEF TypeInv, TypeOK
<1>2. Claims(t)' = Claims(t)  BY <1>1 DEF Claims
<1>3. \A q \in Claims(t) : req'[q] = req[q]  BY <1>1 DEF Claims
<1>4. Settled(t)' \subseteq Settled(t)  BY <1>2, <1>3 DEF Settled
<1> QED  BY <1>2, <1>4, ClaimsStay

\* r gives up its claim on t; if a default of t comes to be, it is x.
LEMMA ClaimGiven ==
    ASSUME TypeInv, BoundInv, NEW t \in Types, NEW r \in Requests, r \in Claims(t),
           NEW x, req' = [req EXCEPT ![r] = Idle],
           DefaultsOf(t)' \subseteq DefaultsOf(t) \cup {x}, req[r].item \in {x, None}
    PROVE  Owners(Settled(t), Requests \ Claims(t))' # {}
<1>1. req'[r] = Idle /\ \A q \in Requests \ {r} : req'[q] = req[q]  BY DEF TypeInv, TypeOK
<1>2. Claims(t)' = Claims(t) \ {r}  BY <1>1 DEF Claims, Idle
<1>3. \A q \in Claims(t) \ {r} : req'[q] = req[q]  BY <1>1 DEF Claims
<1>4. None \notin DefaultsOf(t)  BY DictAssumption DEF TypeInv, TypeOK, DefaultsOf
<1>5. Settled(t)' \subseteq Settled(t) \cup {x}  BY <1>2, <1>3, <1>4 DEF Settled
<1> QED  BY <1>2, <1>5, ClaimEnds

LEMMA ClearKeepsBound ==
    ASSUME TypeInv, BoundInv, NEW t \in Types, NEW r \in Requests, ClearDefault(r)
    PROVE  Owners(Settled(t), Requests \ Claims(t))' # {}
<1>1. req[r] \in Request /\ r \notin Claims(t)
  BY DEF ClearDefault, TypeInv, TypeOK, Idle, Claims
<1>2. /\ req'[r] = [req[r] EXCEPT !.at = "write"]
      /\ req'[r].at = "write" /\ req'[r].type = req[r].type /\ req'[r].item = req[r].item
  BY <1>1 DEF ClearDefault, goto, TypeInv, TypeOK, Request
<1>3. DefaultsOf(t)' \subseteq DefaultsOf(t)  BY DEF ClearDefault, DefaultsOf
<1>4. CASE req[r].type = t /\ req'[r].asDefault
  <2>1. r \in Claims(t)'  BY <1>2, <1>4 DEF Claims
  <2>2. \A i \in DefaultsOf(t)' : i = req'[r].item
    BY <1>2, <1>4 DEF ClearDefault, DefaultsOf
  <2>3. Settled(t)' = {}  BY <2>1, <2>2 DEF Settled
  <2>4. Owners({}, Requests \ Claims(t)') # {}  BY OwnersOfNone
  <2> QED  BY <2>3, <2>4 DEF Owners
<1>5. CASE ~(req[r].type = t /\ req'[r].asDefault)
  BY <1>1, <1>2, <1>3, <1>5, NoClaim DEF ClearDefault, goto
<1> QED  BY <1>4, <1>5

LEMMA WriteKeepsBound ==
    ASSUME TypeInv, BoundInv, NEW t \in Types, NEW r \in Requests, NEW i \in Items,
           req[r].at = "write", req[r].item \in {i, None}, writeItem(r, i), finish(r)
    PROVE  Owners(Settled(t), Requests \ Claims(t))' # {}
<1>1. CASE r \in Claims(t)
  <2>1. DefaultsOf(t)' \subseteq DefaultsOf(t) \cup {i}
    BY <1>1 DEF writeItem, DefaultsOf, TypeInv, TypeOK
  <2> QED  BY <1>1, <2>1, ClaimGiven DEF finish
<1>2. CASE r \notin Claims(t)
  <2>1. ~req[r].asDefault \/ req[r].type # t  BY <1>2 DEF Claims
  <2>2. DefaultsOf(t)' \subseteq DefaultsOf(t)
    BY <2>1 DEF writeItem, DefaultsOf, TypeInv, TypeOK
  <2> QED  BY <1>2, <2>2, NoClaim DEF finish, Idle
<1> QED  BY <1>1, <1>2

LEMMA BreakKeepsBound ==
    ASSUME TypeInv, BoundInv, NEW t \in Types, NEW r \in Requests,
           finish(r), UNCHANGED <<typeOf, defaults>>
    PROVE  Owners(Settled(t), Requests \ Claims(t))' # {}
<1>1. DefaultsOf(t)' = DefaultsOf(t)  BY DEF DefaultsOf
<1>2. CASE r \in Claims(t)  BY <1>1, <1>2, ClaimGiven DEF finish
<1>3. CASE r \notin Claims(t)  BY <1>1, <1>3, NoClaim DEF finish, Idle
<1> QED  BY <1>2, <1>3

LEMMA MoveKeepsBound ==
    ASSUME TypeInv, BoundInv, NEW t \in Types, NEW r \in Requests, NEW c \in Control,
           req[r].at \in Control \ {"write"}, goto(r, c), c = "write" => ~req[r].asDefault,
           UNCHANGED <<typeOf, defaults>>
    PROVE  Owners(Settled(t), Requests \ Claims(t))' # {}
<1>1. req[r] \in Request /\ r \notin Claims(t)
  BY DEF TypeInv, TypeOK, Idle, Control, Claims
<1>2. DefaultsOf(t)' = DefaultsOf(t)  BY DEF DefaultsOf
<1>3. [req[r] EXCEPT !.at = c].at = c /\ [req[r] EXCEPT !.at = c].asDefault = req[r].asDefault
  BY <1>1 DEF Request
<1> QED  BY <1>1, <1>2, <1>3, NoClaim DEF goto

LEMMA StepKeepsBound ==
    ASSUME TypeInv, BoundInv, NEW r \in Requests, Step(r)
    PROVE  BoundInv'
<1> SUFFICES ASSUME NEW t \in Types
             PROVE  Owners(Settled(t), Requests \ Claims(t))' # {}
  BY DEF BoundInv
<1>1. CASE BeginSave(r) \/ BeginDeleteType(r) \/ BeginDeleteItem(r)
  <2>1. PICK c, i, u, d : c \in Control \ {"write"} /\ begin(r, c, i, u, d)
    BY <1>1 DEF BeginSave, BeginDeleteType, BeginDeleteItem, Control
  <2>2. r \notin Claims(t) /\ DefaultsOf(t)' = DefaultsOf(t)
    BY <2>1 DEF begin, Claims, Idle, tables, DefaultsOf
  <2> QED  BY <2>1, <2>2, NoClaim DEF begin
<1>2. CASE FindType(r) \/ TypeRow(r) \/ CountItems(r) \/ ItemRow(r)
  BY <1>2, MoveKeepsBound, BreakKeepsBound
     DEF FindType, TypeRow, CountItems, ItemRow, tables, Control
<1>3. CASE ClearDefault(r)  BY <1>3, ClearKeepsBound
<1>4. CASE Insert(r)  BY <1>4, WriteKeepsBound DEF Insert
<1>5. CASE Update(r)
  <2>1. req[r].item \in Items
    BY <1>5, DictAssumption DEF Update, TypeInv, TypeOK, Request, Idle
  <2> QED  BY <1>5, <2>1, WriteKeepsBound DEF Update
<1>6. CASE UpdateNothing(r) \/ DeleteType(r) \/ Fail(r)
  BY <1>6, BreakKeepsBound DEF UpdateNothing, DeleteType, Fail, tables
<1>7. CASE DeleteItem(r)
  <2>1. r \notin Claims(t) /\ DefaultsOf(t)' \subseteq DefaultsOf(t)
    BY <1>7 DEF DeleteItem, Claims, DefaultsOf, TypeInv, TypeOK
  <2> QED  BY <1>7, <2>1, NoClaim DEF DeleteItem, finish, Idle
<1> QED  BY <1>1, <1>2, <1>3, <1>4, <1>5, <1>6, <1>7 DEF Step

LEMMA BoundHolds == Spec => []BoundInv
<1>1. Init => BoundInv
  <2> SUFFICES ASSUME Init, NEW t \in Types
               PROVE  Owners(Settled(t), Requests \ Claims(t)) # {}
    BY DEF BoundInv
  <2>1. Settled(t) = {}  BY DEF Init, Settled, DefaultsOf
  <2> QED  BY <2>1, OwnersOfNone
<1>2. TypeInv /\ BoundInv /\ [Next]_vars => BoundInv'
  <2>1. ASSUME BoundInv, CreateDictType \/ UNCHANGED vars PROVE BoundInv'
    <3>1. UNCHANGED <<typeOf, defaults, req>>  BY <2>1 DEF CreateDictType, vars, tables
    <3>2. \A t \in Types : Settled(t)' = Settled(t) /\ Claims(t)' = Claims(t)
      BY <3>1 DEF Settled, Claims, DefaultsOf
    <3> QED  BY <2>1, <3>2 DEF BoundInv, Owners
  <2> QED  BY <2>1, StepKeepsBound DEF Next
<1> QED  BY <1>1, <1>2, TypesAreKept, PTL DEF Spec

\* However saves interleave, a type has at most as many defaults as there can be
\* requests at one time: one, if there is only one.
THEOREM DefaultsBounded == Spec => []DefaultsAreBounded
<1> SUFFICES TypeInv /\ BoundInv => DefaultsAreBounded
  BY TypesAreKept, BoundHolds, PTL
<1> SUFFICES ASSUME TypeInv, BoundInv, NEW t \in Types
             PROVE  Cardinality(DefaultsOf(t)) <= Cardinality(Requests)
  BY DEF DefaultsAreBounded
<1>1. PICK f \in Owners(Settled(t), Requests \ Claims(t)) : TRUE  BY DEF BoundInv
<1> DEFINE owner(i) == IF i \in Settled(t) THEN f[i]
                       ELSE CHOOSE r \in Claims(t) : req[r].item = i
           g == [i \in DefaultsOf(t) |-> owner(i)]
<1>2. \A i \in DefaultsOf(t) \ Settled(t) :
          owner(i) \in Claims(t) /\ req[owner(i)].item = i
  BY DEF Settled
<1>3. \A i \in Settled(t) : owner(i) \in Requests \ Claims(t)
  BY <1>1 DEF Owners
<1>4. g \in [DefaultsOf(t) -> Requests]
  BY <1>2, <1>3 DEF Claims
<1>5. ASSUME NEW i \in DefaultsOf(t), NEW j \in DefaultsOf(t), owner(i) = owner(j)
      PROVE  i = j
  <2>1. CASE i \in Settled(t) /\ j \in Settled(t)
    BY <1>1, <1>5, <2>1 DEF Owners
  <2>2. CASE i \notin Settled(t) /\ j \notin Settled(t)
    BY <1>2, <1>5, <2>2
  <2>3. CASE ~(i \in Settled(t) <=> j \in Settled(t))
    BY <1>2, <1>3, <1>5, <2>3
  <2> QED  BY <2>1, <2>2, <2>3
<1>6. g \in Injection(DefaultsOf(t), Requests)
  <2>1. \A i \in DefaultsOf(t) : g[i] = owner(i)  OBVIOUS
  <2>2. ASSUME NEW i \in DefaultsOf(t), NEW j \in DefaultsOf(t), g[i] = g[j]
        PROVE  i = j
    <3>1. owner(i) = owner(j)  BY <2>1, <2>2
    <3> QED  BY <1>5, <3>1
  <2> HIDE DEF g, owner
  <2>3. DOMAIN g = DefaultsOf(t)  BY <1>4
  <2>4. IsInjective(g)  BY <2>2, <2>3 DEF IsInjective
  <2> QED  BY <1>4, <2>4 DEF Injection
<1>7. IsFiniteSet(Requests)  BY DictAssumption
<1> HIDE DEF g, owner
<1> QED  BY <1>6, <1>7, FS_Injection

-----------------------------------------------------------------------------
(* A default that was given stays. *)

LEMMA WriteKeepsDefault ==
    ASSUME TypeInv, DefaultIsKept, NEW r \in Requests, NEW i \in Items,
           req[r].at = "write", writeItem(r, i), finish(r)
    PROVE  DefaultIsKept'
<1> SUFFICES ASSUME NEW t \in kept' \ hurt', DefaultsOf(t)' = {}
             PROVE  \E q \in Claims(t) : req'[q] = req[q]
  BY DEF DefaultIsKept, Claims
<1>1. ~(req[r].asDefault /\ req[r].type = t)
  BY DEF writeItem, DefaultsOf, TypeInv, TypeOK
<1>2. t \in kept \ hurt /\ ~(i \in defaults /\ typeOf[i] = t)
  BY <1>1 DEF writeItem
<1>3. DefaultsOf(t) = {}
  BY <1>2 DEF writeItem, DefaultsOf, TypeInv, TypeOK
<1>4. PICK q \in Claims(t) : TRUE  BY <1>2, <1>3 DEF DefaultIsKept, Claims
<1> QED  BY <1>1, <1>4 DEF finish, Claims, TypeInv, TypeOK

\* A request ends, and leaves a type hurt if it held a claim on it.
LEMMA BreakKeepsDefault ==
    ASSUME TypeInv, DefaultIsKept, NEW r \in Requests,
           finish(r), hurt' = hurt \cup hurtBy(r), UNCHANGED <<typeOf, defaults, kept>>
    PROVE  DefaultIsKept'
<1> SUFFICES ASSUME NEW t \in kept' \ hurt', DefaultsOf(t)' = {}
             PROVE  \E q \in Claims(t) : req'[q] = req[q]
  BY DEF DefaultIsKept, Claims
<1>1. DefaultsOf(t) = {}  BY DEF DefaultsOf
<1>2. PICK q \in Claims(t) : TRUE  BY <1>1 DEF DefaultIsKept, Claims
<1>3. q # r  BY <1>2 DEF Claims, hurtBy
<1> QED  BY <1>2, <1>3 DEF finish, TypeInv, TypeOK

\* Nothing but the place of a request without a claim changes.
LEMMA MoveKeepsDefault ==
    ASSUME TypeInv, DefaultIsKept, NEW r \in Requests, NEW y, req' = [req EXCEPT ![r] = y],
           req[r].at # "write", UNCHANGED <<typeOf, defaults, kept, hurt>>
    PROVE  DefaultIsKept'
<1> SUFFICES ASSUME NEW t \in kept' \ hurt', DefaultsOf(t)' = {}
             PROVE  \E q \in Claims(t) : req'[q] = req[q]
  BY DEF DefaultIsKept, Claims
<1>1. DefaultsOf(t) = {}  BY DEF DefaultsOf
<1>2. PICK q \in Claims(t) : q # r  BY <1>1 DEF DefaultIsKept, Claims
<1> QED  BY <1>2 DEF TypeInv, TypeOK

LEMMA ClearKeepsDefault ==
    ASSUME TypeInv, DefaultIsKept, NEW r \in Requests, ClearDefault(r)
    PROVE  DefaultIsKept' \/ ~req[r].asDefault
<1> SUFFICES ASSUME req[r].asDefault, NEW t \in kept' \ hurt', DefaultsOf(t)' = {}
             PROVE  \E q \in Requests :
                        req'[q].at = "write" /\ req'[q].asDefault /\ req'[q].type = t
  BY DEF DefaultIsKept
<1>1. req[r] \in Request  BY DEF ClearDefault, TypeInv, TypeOK, Idle
<1>2. /\ req'[r].at = "write" /\ req'[r].asDefault /\ req'[r].type = req[r].type
      /\ \A q \in Requests \ {r} : req'[q] = req[q]
  BY <1>1 DEF ClearDefault, goto, TypeInv, TypeOK, Request
<1>3. CASE req[r].type # t
  <2>1. DefaultsOf(t) = {}  BY <1>3 DEF ClearDefault, DefaultsOf
  <2>2. PICK q \in Claims(t) : q # r
    BY <2>1 DEF DefaultIsKept, Claims, ClearDefault
  <2> QED  BY <1>2, <2>2 DEF Claims
<1> QED  BY <1>2, <1>3

\* Only a save that is to be the default clears.
ClearsForDefault == \A r \in Requests : req[r].at = "clear" => req[r].asDefault

LEMMA StepKeepsDefault ==
    ASSUME TypeInv, ClearsForDefault, DefaultIsKept, NEW r \in Requests, Step(r)
    PROVE  DefaultIsKept'
<1>1. CASE BeginSave(r) \/ BeginDeleteType(r) \/ BeginDeleteItem(r)
  <2>1. PICK c, i, t, d : begin(r, c, i, t, d)
    BY <1>1 DEF BeginSave, BeginDeleteType, BeginDeleteItem
  <2> DEFINE y == [at |-> c, item |-> i, type |-> t, asDefault |-> d]
  <2>2. req' = [req EXCEPT ![r] = y] /\ req[r].at # "write"
    BY <2>1 DEF begin, Idle
  <2>3. UNCHANGED <<typeOf, defaults, kept, hurt>>  BY <2>1 DEF begin, tables
  <2> HIDE DEF y
  <2> QED  BY <2>2, <2>3, MoveKeepsDefault
<1>2. CASE FindType(r) \/ TypeRow(r) \/ CountItems(r) \/ ItemRow(r)
  <2>1. PICK c : goto(r, c) \/ finish(r)
    BY <1>2 DEF FindType, TypeRow, CountItems, ItemRow
  <2> QED
    BY <1>2, <2>1, MoveKeepsDefault
       DEF FindType, TypeRow, CountItems, ItemRow, goto, finish, tables
<1>3. CASE ClearDefault(r)
  BY <1>3, ClearKeepsDefault DEF ClearsForDefault, ClearDefault
<1>4. CASE Insert(r)  BY <1>4, WriteKeepsDefault DEF Insert
<1>5. CASE Update(r)
  <2>1. req[r].item \in Items
    BY <1>5, DictAssumption DEF Update, TypeInv, TypeOK, Request, Idle
  <2> QED  BY <1>5, <2>1, WriteKeepsDefault DEF Update
<1>6. CASE UpdateNothing(r) \/ Fail(r)
  BY <1>6, BreakKeepsDefault DEF UpdateNothing, Fail, tables
<1>7. CASE DeleteType(r)
  BY <1>7, MoveKeepsDefault DEF DeleteType, finish
<1>8. CASE DeleteItem(r)
  <2> SUFFICES ASSUME NEW t \in kept' \ hurt', DefaultsOf(t)' = {}
               PROVE  \E q \in Claims(t) : req'[q] = req[q]
    BY DEF DefaultIsKept, Claims
  <2>1. t \in kept \ hurt /\ ~(req[r].item \in defaults /\ typeOf[req[r].item] = t)
    BY <1>8 DEF DeleteItem
  <2>2. DefaultsOf(t) = {}
    BY <1>8, <2>1 DEF DeleteItem, DefaultsOf, TypeInv, TypeOK
  <2>3. PICK q \in Claims(t) : q # r
    BY <1>8, <2>1, <2>2 DEF DefaultIsKept, Claims, DeleteItem
  <2> QED  BY <1>8, <2>3 DEF DeleteItem, finish, TypeInv, TypeOK
<1> QED  BY <1>1, <1>2, <1>3, <1>4, <1>5, <1>6, <1>7, <1>8 DEF Step

LEMMA ClearsHolds == Spec => []ClearsForDefault
<1>1. Init => ClearsForDefault  BY DEF Init, Idle, ClearsForDefault
<1>2. TypeInv /\ ClearsForDefault /\ [Next]_vars => ClearsForDefault'
  <2> SUFFICES ASSUME TypeInv, ClearsForDefault, Next \/ UNCHANGED vars,
                      NEW q \in Requests, req'[q].at = "clear"
               PROVE  req'[q].asDefault
    BY DEF ClearsForDefault
  <2>1. CASE req'[q] = req[q]  BY <2>1 DEF ClearsForDefault
  <2>2. ASSUME NEW r \in Requests, Step(r), req'[q] # req[q] PROVE req'[q].asDefault
    <3>1. CASE FindType(r)
      <4>1. req[r] \in Request  BY <3>1 DEF FindType, TypeInv, TypeOK, Idle
      <4> QED
        BY <2>2, <3>1, <4>1 DEF FindType, goto, finish, TypeInv, TypeOK, Request, Idle
    <3>2. CASE ~FindType(r)
      <4>1. \/ \E c, i, t, d : c \in Control \ {"clear"} /\ begin(r, c, i, t, d)
            \/ \E c \in Control \ {"clear"} : req[r] # Idle /\ goto(r, c)
            \/ finish(r)
        <5>1. CASE BeginSave(r) \/ BeginDeleteType(r) \/ BeginDeleteItem(r)
          BY <5>1 DEF BeginSave, BeginDeleteType, BeginDeleteItem, Control
        <5>2. CASE ClearDefault(r) \/ TypeRow(r) \/ CountItems(r) \/ ItemRow(r)
          BY <5>2 DEF ClearDefault, TypeRow, CountItems, ItemRow, Control, Idle
        <5>3. CASE \/ Insert(r) \/ Update(r) \/ UpdateNothing(r)
                   \/ DeleteType(r) \/ DeleteItem(r) \/ Fail(r)
          BY <5>3 DEF Insert, Update, UpdateNothing, DeleteType, DeleteItem, Fail
        <5> QED  BY <2>2, <3>2, <5>1, <5>2, <5>3 DEF Step
      <4> QED
        BY <2>2, <4>1 DEF begin, goto, finish, TypeInv, TypeOK, Request, Idle
    <3> QED  BY <3>1, <3>2
  <2> QED  BY <2>1, <2>2 DEF Next, CreateDictType, vars
<1> QED  BY <1>1, <1>2, TypesAreKept, PTL DEF Spec

\* A type that was given a default has one until a request takes it away, or a save
\* stops half-way, whatever else interleaves.
THEOREM DefaultsAreKept == Spec => []DefaultIsKept
<1>1. Init => DefaultIsKept  BY DEF Init, DefaultIsKept
<1>2. TypeInv /\ ClearsForDefault /\ DefaultIsKept /\ [Next]_vars => DefaultIsKept'
  <2>1. ASSUME DefaultIsKept, CreateDictType \/ UNCHANGED vars PROVE DefaultIsKept'
    BY <2>1 DEF CreateDictType, vars, tables, DefaultIsKept, DefaultsOf
  <2> QED  BY <2>1, StepKeepsDefault DEF Next
<1> QED  BY <1>1, <1>2, TypesAreKept, ClearsHolds, PTL DEF Spec

-----------------------------------------------------------------------------
(* Items and their types.  The inductive invariant: the type a save has looked   *)
(* up is still there, and the type a deletion has counted is still without       *)
(* items, unless they are about the same type and race for it.                   *)

Relies(r, t) ==
    /\ savesTo(r, t) => t \in rows
    /\ deletes(r, t) => ItemsOf(t) = {}

RaceInv ==
    /\ \A r \in Requests, t \in Types \ raced : Relies(r, t)
    /\ Contested \subseteq raced
    /\ ItemsHaveTypes

\* A type that was raced for is, as long as it is gone or going to be deleted.
LEMMA RaceGoesOn ==
    ASSUME Race, NEW t \in Types \ raced', t \in raced
    PROVE  t \in rows' /\ \A r \in Requests : ~deletes(r, t)'
BY DEF Race

LEMMA ContestIsRace ==
    ASSUME Race
    PROVE  Contested' \subseteq raced'
BY DEF Race, Contested

\* It is enough to look at the types that are not raced for.
LEMMA RestOfRaceInv ==
    ASSUME TypeInv, TypeInv', Race,
           \A r \in Requests, t \in Types \ raced : Relies(r, t)',
           \A i \in Items \cap rows' : typeOf'[i] \in rows' \cup raced
    PROVE  RaceInv'
<1>1. ASSUME NEW r \in Requests, NEW t \in Types \ raced'  PROVE Relies(r, t)'
  <2>1. CASE t \in raced  BY <2>1, RaceGoesOn DEF Relies
  <2> QED  BY <2>1
<1>2. ASSUME NEW i \in Items \cap rows'  PROVE typeOf'[i] \in rows' \cup raced'
  <2>1. typeOf'[i] \in Types  BY DEF TypeInv, Shape
  <2> QED  BY <2>1, RaceGoesOn
<1> QED  BY <1>1, <1>2, ContestIsRace DEF RaceInv, ItemsHaveTypes

\* A step that changes no row: the others rely on what they did.
LEMMA SameRowsKeepRelying ==
    ASSUME TypeInv, TypeInv', RaceInv, Race, UNCHANGED <<rows, typeOf>>, NEW r \in Requests,
           \A q \in Requests : q # r => req'[q] = req[q],
           \A t \in Types \ raced : Relies(r, t)'
    PROVE  RaceInv'
<1>1. \A t : ItemsOf(t)' = ItemsOf(t)  BY DEF ItemsOf
<1>2. ASSUME NEW q \in Requests, q # r, NEW t \in Types \ raced  PROVE Relies(q, t)'
  <2>1. Relies(q, t) /\ req'[q] = req[q]  BY <1>2 DEF RaceInv
  <2> QED  BY <1>1, <2>1 DEF Relies, savesTo, deletes
<1>3. \A i \in Items \cap rows' : typeOf'[i] \in rows' \cup raced
  BY DEF RaceInv, ItemsHaveTypes
<1> QED  BY <1>2, <1>3, RestOfRaceInv

\* A request that ends changes nothing for the others but rows and items.
LEMMA EndKeepsRelying ==
    ASSUME TypeInv, TypeInv', RaceInv, Race, NEW r \in Requests, finish(r),
           \A q \in Requests, t \in Types \ raced :
               q # r => (savesTo(q, t) => t \in rows') /\ (deletes(q, t) => ItemsOf(t)' = {}),
           \A i \in Items \cap rows' : typeOf'[i] \in rows' \cup raced
    PROVE  RaceInv'
<1>1. ASSUME NEW q \in Requests, NEW t \in Types \ raced  PROVE Relies(q, t)'
  <2>1. CASE q = r
    BY <2>1 DEF finish, TypeInv, TypeOK, Idle, Relies, savesTo, deletes
  <2>2. CASE q # r
    <3>1. req'[q] = req[q]  BY <2>2 DEF finish, TypeInv, TypeOK
    <3> QED  BY <1>1, <2>2, <3>1 DEF Relies, savesTo, deletes
  <2> QED  BY <2>1, <2>2
<1> QED  BY <1>1, RestOfRaceInv

\* An item gets a type, and the others are none the worse for it.
LEMMA WriteKeepsRelying ==
    ASSUME TypeInv, TypeInv', RaceInv, Race, NEW r \in Requests, NEW i \in Items,
           req[r].at = "write", writeItem(r, i), finish(r), rows' = rows \cup {i}
    PROVE  RaceInv'
<1> DEFINE u == req[r].type
<1>1. u \in Types /\ savesTo(r, u)  BY DEF TypeInv, Shape, NeedsType, savesTo
<1>2. u \in rows \cup raced  BY <1>1 DEF RaceInv, Relies
<1>3. \A j \in Items : typeOf'[j] = IF j = i THEN u ELSE typeOf[j]
  BY DEF writeItem, TypeInv, TypeOK
<1>4. ASSUME NEW q \in Requests, NEW t \in Types \ raced, q # r
      PROVE  (savesTo(q, t) => t \in rows') /\ (deletes(q, t) => ItemsOf(t)' = {})
  <2>1. Relies(q, t)  BY <1>4 DEF RaceInv
  <2>2. deletes(q, t) => t # u  BY <1>1, <1>4 DEF RaceInv, Contested
  <2>3. t # u => ItemsOf(t)' \subseteq ItemsOf(t)  BY <1>3 DEF ItemsOf
  <2> QED  BY <2>1, <2>2, <2>3 DEF Relies
<1>5. ASSUME NEW j \in Items \cap rows'  PROVE typeOf'[j] \in rows' \cup raced
  <2>1. CASE j = i  BY <1>2, <1>3, <2>1
  <2>2. CASE j # i  BY <1>3, <1>5, <2>2 DEF RaceInv, ItemsHaveTypes
  <2> QED  BY <2>1, <2>2
<1> QED  BY <1>4, <1>5, EndKeepsRelying

LEMMA GotoMoves ==
    ASSUME TypeInv, NEW r \in Requests, NEW c, req[r].at \in Control, goto(r, c)
    PROVE  /\ req'[r].at = c /\ req'[r].type = req[r].type
           /\ \A q \in Requests : q # r => req'[q] = req[q]
<1>1. req[r] \in Request  BY DEF Idle, Control, TypeInv, TypeOK
<1> QED  BY <1>1 DEF goto, TypeInv, TypeOK, Request

LEMMA StepKeepsRaceInv ==
    ASSUME TypeInv, TypeInv', RaceInv, NEW r \in Requests, Step(r), Race
    PROVE  RaceInv'
<1>1. CASE BeginSave(r) \/ BeginDeleteType(r) \/ BeginDeleteItem(r)
  <2>1. PICK c, i, t, d : c \in Control \ {"clear", "write", "deleteType"} /\ begin(r, c, i, t, d)
    BY <1>1 DEF BeginSave, BeginDeleteType, BeginDeleteItem, Control
  <2>2. req'[r].at = c /\ UNCHANGED tables /\ \A q \in Requests : q # r => req'[q] = req[q]
    BY <2>1 DEF begin, TypeInv, TypeOK
  <2>3. \A u \in Types : Relies(r, u)'  BY <2>1, <2>2 DEF Relies, savesTo, deletes
  <2> QED  BY <2>2, <2>3, SameRowsKeepRelying DEF tables
<1>2. ASSUME finish(r), UNCHANGED <<rows, typeOf>>  PROVE RaceInv'
  <2>1. \A q \in Requests : q # r => req'[q] = req[q]  BY <1>2 DEF finish, TypeInv, TypeOK
  <2>2. \A u \in Types : Relies(r, u)'
    BY <1>2 DEF finish, TypeInv, TypeOK, Idle, Relies, savesTo, deletes
  <2> QED  BY <1>2, <2>1, <2>2, SameRowsKeepRelying
<1>3. CASE FindType(r)
  <2> DEFINE c == IF req[r].asDefault THEN "clear" ELSE "write"
  <2>1. CASE req[r].type \in rows /\ goto(r, c)
    <3>1. UNCHANGED <<rows, typeOf>> /\ req[r].at \in Control
      BY <1>3 DEF FindType, tables, Control
    <3>2. /\ req'[r].at = c /\ req'[r].type = req[r].type
          /\ \A q \in Requests : q # r => req'[q] = req[q]
      BY <2>1, <3>1, GotoMoves
    <3>3. \A u \in Types : Relies(r, u)'
      BY <2>1, <3>1, <3>2 DEF Relies, savesTo, deletes
    <3> QED  BY <3>1, <3>2, <3>3, SameRowsKeepRelying
  <2> QED  BY <1>2, <1>3, <2>1 DEF FindType, tables
<1>4. CASE ClearDefault(r)
  <2>1. UNCHANGED <<rows, typeOf>> /\ req[r].at = "clear" /\ goto(r, "write")
    BY <1>4 DEF ClearDefault
  <2>2. /\ req'[r].at = "write" /\ req'[r].type = req[r].type
        /\ \A q \in Requests : q # r => req'[q] = req[q]
    BY <2>1, GotoMoves DEF Control
  <2>3. \A u \in Types \ raced : Relies(r, u)'
    BY <2>1, <2>2 DEF RaceInv, Relies, savesTo, deletes
  <2> QED  BY <2>1, <2>2, <2>3, SameRowsKeepRelying
<1>5. CASE TypeRow(r) \/ ItemRow(r)
  <2>1. ASSUME NEW c \in {"countItems", "deleteItem"}, goto(r, c)  PROVE RaceInv'
    <3>1. UNCHANGED <<rows, typeOf>> /\ req[r].at \in Control
      BY <1>5 DEF TypeRow, ItemRow, tables, Control
    <3>2. req'[r].at = c /\ \A q \in Requests : q # r => req'[q] = req[q]
      BY <2>1, <3>1, GotoMoves
    <3>3. \A u \in Types : Relies(r, u)'  BY <3>2 DEF Relies, savesTo, deletes
    <3> QED  BY <3>1, <3>2, <3>3, SameRowsKeepRelying
  <2> QED  BY <1>2, <1>5, <2>1 DEF TypeRow, ItemRow, tables
<1>6. CASE CountItems(r)
  <2>1. CASE ItemsOf(req[r].type) = {} /\ goto(r, "deleteType")
    <3>1. UNCHANGED <<rows, typeOf>> /\ req[r].at \in Control
      BY <1>6 DEF CountItems, tables, Control
    <3>2. /\ req'[r].at = "deleteType" /\ req'[r].type = req[r].type
          /\ \A q \in Requests : q # r => req'[q] = req[q]
      BY <2>1, <3>1, GotoMoves
    <3>3. \A u \in Types : Relies(r, u)'
      BY <2>1, <3>1, <3>2 DEF Relies, savesTo, deletes, ItemsOf
    <3> QED  BY <3>1, <3>2, <3>3, SameRowsKeepRelying
  <2> QED  BY <1>2, <1>6, <2>1 DEF CountItems, tables
<1>7. CASE Insert(r)  BY <1>7, WriteKeepsRelying DEF Insert
<1>8. CASE Update(r)
  <2>1. req[r].item \in Items
    BY <1>8, DictAssumption DEF Update, TypeInv, TypeOK, Request, Idle
  <2>2. rows' = rows \cup {req[r].item}  BY <1>8 DEF Update
  <2> QED  BY <1>8, <2>1, <2>2, WriteKeepsRelying DEF Update
<1>9. CASE UpdateNothing(r) \/ Fail(r)
  BY <1>2, <1>9 DEF UpdateNothing, Fail, tables
<1>10. CASE DeleteType(r)
  <2> DEFINE u == req[r].type
  <2>1. /\ u \in Types /\ deletes(r, u) /\ finish(r)
        /\ rows' = rows \ {u} /\ UNCHANGED typeOf
    BY <1>10 DEF DeleteType, TypeInv, Shape, NeedsType, deletes
  <2>2. ASSUME NEW q \in Requests, NEW t \in Types \ raced, q # r
        PROVE  (savesTo(q, t) => t \in rows') /\ (deletes(q, t) => ItemsOf(t)' = {})
    <3>1. Relies(q, t)  BY <2>2 DEF RaceInv
    <3>2. savesTo(q, t) => t # u  BY <2>1, <2>2 DEF RaceInv, Contested
    <3>3. ItemsOf(t)' \subseteq ItemsOf(t)  BY <2>1 DEF ItemsOf
    <3> QED  BY <2>1, <3>1, <3>2, <3>3 DEF Relies
  <2>3. ASSUME NEW i \in Items \cap rows'  PROVE typeOf'[i] \in rows' \cup raced
    <3>1. i \in rows /\ typeOf[i] \in rows \cup raced
      BY <2>1, <2>3 DEF RaceInv, ItemsHaveTypes
    <3>2. CASE typeOf[i] = u /\ u \notin raced
      <4>1. ItemsOf(u) = {}  BY <2>1, <3>2 DEF RaceInv, Relies
      <4> QED  BY <2>3, <3>1, <3>2, <4>1 DEF ItemsOf
    <3> QED  BY <2>1, <3>1, <3>2
  <2> QED  BY <2>1, <2>2, <2>3, EndKeepsRelying
<1>11. CASE DeleteItem(r)
  <2>1. req[r].item \in Items /\ finish(r) /\ rows' = rows \ {req[r].item}
    BY <1>11 DEF DeleteItem, TypeInv, Shape
  <2>2. \A i \in Items \cap rows' : i \in rows /\ typeOf'[i] = typeOf[i]
    BY <1>11, <2>1 DEF DeleteItem, TypeInv, TypeOK
  <2>3. \A t \in Types : (t \in rows => t \in rows') /\ ItemsOf(t)' \subseteq ItemsOf(t)
    BY <2>1, <2>2, DictAssumption DEF ItemsOf
  <2>4. \A q \in Requests, t \in Types \ raced :
           q # r => (savesTo(q, t) => t \in rows') /\ (deletes(q, t) => ItemsOf(t)' = {})
    BY <2>3 DEF RaceInv, Relies
  <2>5. ASSUME NEW i \in Items \cap rows'  PROVE typeOf'[i] \in rows' \cup raced
    <3>1. typeOf'[i] = typeOf[i] /\ typeOf[i] \in Types /\ typeOf[i] \in rows \cup raced
      BY <2>2, <2>5 DEF RaceInv, ItemsHaveTypes, TypeInv, Shape
    <3> QED  BY <2>3, <3>1
  <2> QED  BY <2>1, <2>4, <2>5, EndKeepsRelying
<1> QED
  BY <1>1, <1>3, <1>4, <1>5, <1>6, <1>7, <1>8, <1>9, <1>10, <1>11 DEF Step

\* An item is left without its type only where the deletion of that very type raced
\* with the request that wrote the item.
THEOREM ItemsKeepTypes == Spec => []ItemsHaveTypes
<1>1. Init => RaceInv
  BY DEF Init, Idle, RaceInv, Relies, savesTo, deletes, Contested, ItemsHaveTypes
<1>2. TypeInv /\ TypeInv' /\ RaceInv /\ [Next]_vars => RaceInv'
  <2>1. ASSUME TypeInv, TypeInv', RaceInv, CreateDictType, Race PROVE RaceInv'
    <3>1. /\ UNCHANGED <<req, typeOf>>
          /\ \A t \in Types : t \in rows => t \in rows'
          /\ Items \cap rows' = Items \cap rows
      BY <2>1, DictAssumption DEF CreateDictType
    <3>2. \A q \in Requests, t \in Types \ raced : Relies(q, t)'
      BY <2>1, <3>1 DEF RaceInv, Relies, savesTo, deletes, ItemsOf
    <3>3. ASSUME NEW i \in Items \cap rows'  PROVE typeOf'[i] \in rows' \cup raced
      <4>1. typeOf[i] \in Types /\ typeOf[i] \in rows \cup raced
        BY <2>1, <3>1, <3>3 DEF RaceInv, ItemsHaveTypes, TypeInv, Shape
      <4> QED  BY <3>1, <4>1
    <3> QED  BY <2>1, <3>2, <3>3, RestOfRaceInv
  <2>2. ASSUME RaceInv, UNCHANGED vars PROVE RaceInv'
    BY <2>2 DEF vars, tables, RaceInv, Relies, savesTo, deletes, Contested, ItemsOf,
       ItemsHaveTypes
  <2> QED  BY <2>1, <2>2, StepKeepsRaceInv DEF Next
<1>3. RaceInv => ItemsHaveTypes  BY DEF RaceInv
<1> QED  BY <1>1, <1>2, <1>3, TypesAreKept, PTL DEF Spec

=============================================================================
