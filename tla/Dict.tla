--------------------------------- MODULE Dict ---------------------------------
(***************************************************************************)
(* The dictionary of the Go backend (dict_service.go): types, their items, *)
(* and the one item of a type that is marked as its default.               *)
(*                                                                         *)
(* Saving an item counts its type, clears the defaults of the type if the  *)
(* item is to be the default, and writes the item; deleting a type counts  *)
(* its items first.  Each is a statement of its own, outside of any        *)
(* transaction.  Rows are removed from their tables, and there is no       *)
(* foreign key between the two.                                            *)
(*                                                                         *)
(* Abstracted: labels, values, sort keys, status, and the builtin flag,    *)
(* which makes a delete end early as Fail does.  Ids are not reused.       *)
(***************************************************************************)
EXTENDS Naturals, FiniteSets

CONSTANTS
    Types,      \* ids that NewID may give to rows of sys_dict_type
    Items,      \* ids that NewID may give to rows of sys_dict_item
    Requests,   \* the requests that can be in progress at one time
    None        \* no item, no type

ASSUME DictAssumption ==
    /\ Types \cap Items = {}
    /\ None \notin Types \cup Items
    /\ IsFiniteSet(Requests)

VARIABLES
    issued,      \* the ids given to rows so far
    rows,        \* the ids of the rows there are
    typeOf,      \* dict_type_id of each item
    defaults,    \* the items with is_default = 1
    req,         \* the requests: where each is, the item, the type, whether as default
    kept,        \* types that were given a default which no request took away
    hurt,        \* types a save was to give a default and did not, after clearing it
    raced        \* the types that were saved to while their deletion was under way

tables == <<issued, rows, typeOf, defaults>>
vars == <<tables, req, kept, hurt, raced>>

Control == {"findType", "clear", "write", "typeRow", "countItems", "deleteType",
            "itemRow", "deleteItem"}

Request == [at : Control, item : Items \cup {None}, type : Types \cup {None},
            asDefault : BOOLEAN]

Idle == [at |-> "idle", item |-> None, type |-> None, asDefault |-> FALSE]

TypeOK ==
    /\ issued \subseteq Types \cup Items
    /\ rows \subseteq issued
    /\ typeOf \in [Items -> Types \cup {None}]
    /\ defaults \subseteq Items \cap rows
    /\ req \in [Requests -> Request \cup {Idle}]
    /\ kept \subseteq Types /\ hurt \subseteq Types
    /\ raced \subseteq Types

Init ==
    /\ issued = {}
    /\ rows = {}
    /\ typeOf = [i \in Items |-> None]
    /\ defaults = {}
    /\ req = [r \in Requests |-> Idle]
    /\ kept = {}
    /\ hurt = {}
    /\ raced = {}

DefaultsOf(t) == {i \in defaults : typeOf[i] = t}
ItemsOf(t) == {i \in Items \cap rows : typeOf[i] = t}

-----------------------------------------------------------------------------
(* The requests, statement by statement. *)

begin(r, c, i, t, d) ==
    /\ req[r] = Idle
    /\ req' = [req EXCEPT ![r] = [at |-> c, item |-> i, type |-> t, asDefault |-> d]]
    /\ UNCHANGED <<tables, kept, hurt>>

goto(r, c) == req' = [req EXCEPT ![r].at = c]

finish(r) == req' = [req EXCEPT ![r] = Idle]

\* CreateDictType: one INSERT.
CreateDictType ==
    \E t \in Types \ issued :
        /\ issued' = issued \cup {t}
        /\ rows' = rows \cup {t}
        /\ UNCHANGED <<typeOf, defaults, req, kept, hurt>>

\* CreateDictItem, UpdateDictItem: saveDictItem with a new item or a given one.
BeginSave(r) ==
    \E i \in (Items \cap issued) \cup {None}, t \in Types \cap issued, d \in BOOLEAN :
        begin(r, "findType", i, t, d)

BeginDeleteType(r) == \E t \in Types \cap issued : begin(r, "typeRow", None, t, FALSE)

BeginDeleteItem(r) == \E i \in Items \cap issued : begin(r, "itemRow", i, None, FALSE)

FindType(r) ==
    /\ req[r].at = "findType"
    /\ \/ req[r].type \notin rows /\ finish(r)
       \/ /\ req[r].type \in rows
          /\ goto(r, IF req[r].asDefault THEN "clear" ELSE "write")
    /\ UNCHANGED <<tables, kept, hurt>>

\* Mutant: only a new item clears the default before it.
ClearDefaultBug(r) ==
    /\ req[r].at = "clear"
    /\ defaults' = IF req[r].item = None
                   THEN {i \in defaults : typeOf[i] # req[r].type} ELSE defaults
    /\ goto(r, "write")
    /\ UNCHANGED <<issued, rows, typeOf, kept, hurt>>

\* Mutant: the defaults of every type are cleared.
ClearAllBug(r) ==
    /\ req[r].at = "clear"
    /\ defaults' = {i \in defaults : i = req[r].item}
    /\ goto(r, "write")
    /\ UNCHANGED <<issued, rows, typeOf, kept, hurt>>

ClearDefault(r) ==
    /\ req[r].at = "clear"
    /\ defaults' = {i \in defaults : typeOf[i] # req[r].type \/ i = req[r].item}
    /\ goto(r, "write")
    /\ UNCHANGED <<issued, rows, typeOf, kept, hurt>>

\* Item i is written with the type and the default that r asks for.
writeItem(r, i) ==
    /\ typeOf' = [typeOf EXCEPT ![i] = req[r].type]
    /\ defaults' = IF req[r].asDefault THEN defaults \cup {i} ELSE defaults \ {i}
    /\ LET taken == IF i \in defaults THEN {typeOf[i]} ELSE {}
           given == IF req[r].asDefault THEN {req[r].type} ELSE {}
       IN  kept' = (kept \ taken) \cup given /\ hurt' = hurt \ given

Insert(r) ==
    /\ req[r].at = "write" /\ req[r].item = None
    /\ \E i \in Items \ issued :
        /\ issued' = issued \cup {i}
        /\ rows' = rows \cup {i}
        /\ writeItem(r, i)
    /\ finish(r)

\* Mutant: the row is put back if it is gone.
UpdateBug(r) ==
    /\ req[r].at = "write" /\ req[r].item \in Items
    /\ writeItem(r, req[r].item)
    /\ finish(r)
    /\ UNCHANGED <<issued, rows>>

Update(r) ==
    /\ req[r].at = "write" /\ req[r].item \in rows
    /\ writeItem(r, req[r].item)
    /\ finish(r)
    /\ UNCHANGED <<issued, rows>>

\* What r leaves undone when it ends without its write.
hurtBy(r) == IF req[r].at = "write" /\ req[r].asDefault THEN {req[r].type} ELSE {}

\* UPDATE ... WHERE id = ? finds no row; the answer is a success all the same.
UpdateNothing(r) ==
    /\ req[r].at = "write" /\ req[r].item \in Items \ rows
    /\ hurt' = hurt \cup hurtBy(r)
    /\ finish(r)
    /\ UNCHANGED <<tables, kept>>

TypeRow(r) ==
    /\ req[r].at = "typeRow"
    /\ \/ req[r].type \notin rows /\ finish(r)
       \/ req[r].type \in rows /\ goto(r, "countItems")
    /\ UNCHANGED <<tables, kept, hurt>>

\* Mutant: the items of the type are not counted.
CountItemsBug(r) ==
    /\ req[r].at = "countItems"
    /\ goto(r, "deleteType")
    /\ UNCHANGED <<tables, kept, hurt>>

CountItems(r) ==
    /\ req[r].at = "countItems"
    /\ \/ ItemsOf(req[r].type) # {} /\ finish(r)
       \/ ItemsOf(req[r].type) = {} /\ goto(r, "deleteType")
    /\ UNCHANGED <<tables, kept, hurt>>

DeleteType(r) ==
    /\ req[r].at = "deleteType"
    /\ rows' = rows \ {req[r].type}
    /\ finish(r)
    /\ UNCHANGED <<issued, typeOf, defaults, kept, hurt>>

ItemRow(r) ==
    /\ req[r].at = "itemRow"
    /\ \/ req[r].item \notin rows /\ finish(r)
       \/ req[r].item \in rows /\ goto(r, "deleteItem")
    /\ UNCHANGED <<tables, kept, hurt>>

DeleteItem(r) ==
    /\ req[r].at = "deleteItem"
    /\ rows' = rows \ {req[r].item}
    /\ defaults' = defaults \ {req[r].item}
    /\ typeOf' = [typeOf EXCEPT ![req[r].item] = None]
    /\ kept' = IF req[r].item \in defaults THEN kept \ {typeOf[req[r].item]} ELSE kept
    /\ finish(r)
    /\ UNCHANGED <<issued, hurt>>

\* The request ends early: the row is builtin, the unique key refuses the value of
\* the item, the data base fails, the server stops.
Fail(r) ==
    /\ req[r] # Idle
    /\ hurt' = hurt \cup hurtBy(r)
    /\ finish(r)
    /\ UNCHANGED <<tables, kept>>

Step(r) ==
    \/ BeginSave(r) \/ BeginDeleteType(r) \/ BeginDeleteItem(r)
    \/ FindType(r) \/ ClearDefault(r) \/ Insert(r) \/ Update(r) \/ UpdateNothing(r)
    \/ TypeRow(r) \/ CountItems(r) \/ DeleteType(r)
    \/ ItemRow(r) \/ DeleteItem(r)
    \/ Fail(r)

\* r has found type t and is going to write an item of it; r has found t without items
\* and is going to delete it.
savesTo(r, t) == req[r].at \in {"clear", "write"} /\ req[r].type = t
deletes(r, t) == req[r].at = "deleteType" /\ req[r].type = t

\* The types that one request is about to save to and another to delete.
Contested == {t \in Types : \E q, r \in Requests : savesTo(q, t) /\ deletes(r, t)}

\* What is contested is raced for until its deletion is given up.
Race ==
    raced' = {t \in raced \cup Contested' :
                t \notin rows' \/ \E r \in Requests : deletes(r, t)'}

Next == (CreateDictType \/ \E r \in Requests : Step(r)) /\ Race

Spec == Init /\ [][Next]_vars

-----------------------------------------------------------------------------
(* What must hold. *)

\* Two saves can both leave their item as the default, since each clears before
\* either writes; but every save clears what all earlier ones left, so a type never
\* has more defaults than there are concurrent requests, and one if there is one.
DefaultsAreBounded ==
    \A t \in Types : Cardinality(DefaultsOf(t)) <= Cardinality(Requests)

\* A type keeps a default until a request takes it away or a save breaks off between
\* the clearing of the old default and the writing of the new one.
DefaultIsKept ==
    \A t \in kept \ hurt :
        \/ DefaultsOf(t) # {}
        \/ \E r \in Requests : req[r].at = "write" /\ req[r].asDefault /\ req[r].type = t

\* Every item belongs to a type that exists, unless that type was deleted by one request
\* while another, past its lookup of the type, was about to write an item of it.
ItemsHaveTypes ==
    \A i \in Items \cap rows : typeOf[i] \in rows \cup raced

=============================================================================
