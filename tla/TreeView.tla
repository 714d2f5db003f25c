------------------------------ MODULE TreeView ------------------------------
(***************************************************************************)
(* What the lists of menus and departments show of the rows in Hierarchy:  *)
(* buildMenuTree and buildDeptTree, and the menus of a user                *)
(* (menuTreeForUser).  The rows come ordered by their sort numbers, which  *)
(* an administrator chooses, so in any order.                              *)
(*                                                                         *)
(* A tree is the set of its paths from the top: a row is shown at the end  *)
(* of a path.                                                              *)
(***************************************************************************)
EXTENDS Hierarchy, SequencesExt

\* The rows may come in any order; a path is an order of some of them.
Orders(S) == SetToSeqs(S)

before(order, m, n) ==
    \E i, j \in DOMAIN order : i < j /\ order[i] = m /\ order[j] = n

above(S, n) == IF parent[n] \in S THEN parent[n] ELSE Root

under(n, paths) == {<<n>>} \cup {<<n>> \o p : p \in paths}

\* The copy of a row that goes into its parent has the children the row has got
\* by then.
attach(S, below, n) ==
    IF above(S, n) = Root THEN below
    ELSE [below EXCEPT ![above(S, n)] = @ \cup under(n, below[n])]

\* Mutant: a row without a parent among the rows is left out.
ViewBug(order) ==
    LET S == Range(order)
        below[i \in 0 .. Len(order)] ==
            IF i = 0 THEN [n \in S |-> {}] ELSE attach(S, below[i - 1], order[i])
    IN  UNION {under(n, below[Len(order)][n]) : n \in {m \in S : parent[m] = Root}}

\* Row after row goes into its parent; the roots are copied last.
View(order) ==
    LET S == Range(order)
        below[i \in 0 .. Len(order)] ==
            IF i = 0 THEN [n \in S |-> {}] ELSE attach(S, below[i - 1], order[i])
    IN  UNION {under(n, below[Len(order)][n]) : n \in {m \in S : above(S, m) = Root}}

\* A place on a way up, and the rows passed so far.
Climbs == [current : Nodes \cup {Root}, passed : SUBSET Nodes]

climber(n, seen) == [current |-> n, passed |-> seen]

\* Mutant: the way up goes through menus that are disabled.
climbBug(S, n, seen) ==
    LET way[c \in Climbs] ==
            IF c.current = Root \/ c.current \in c.passed THEN c.passed
            ELSE way[climber(parent[c.current], c.passed \cup {c.current})]
    IN  S \cap way[climber(n, seen)]

\* From n up, through the enabled menus in S, as far as no earlier way has been.
climb(S, n, seen) ==
    LET way[c \in Climbs] ==
            IF c.current \notin S \/ c.current \in c.passed THEN c.passed
            ELSE way[climber(parent[c.current], c.passed \cup {c.current})]
    IN  way[climber(n, seen)]

\* The menus of menuTreeForUser: the way up from each granted menu.
visible(granted, S) ==
    LET seen[i \in 0 .. Len(granted)] ==
            IF i = 0 THEN {} ELSE climb(S, granted[i], seen[i - 1])
    IN  seen[Len(granted)]

-----------------------------------------------------------------------------
(* What must hold, between requests. *)

quiet == \A r \in Requests : pc[r] = "idle"

\* The paths of the rows in S: from a row whose parent is not among them down.
TruePaths(S) ==
    {p \in UNION {Orders(T) : T \in SUBSET S} :
        /\ p # <<>>
        /\ above(S, p[1]) = Root
        /\ \A i \in 2 .. Len(p) : parent[p[i]] = p[i - 1]}

\* A list shows the two uppermost levels whole, and a deeper row exactly if the
\* rows on its path come from below: each before its parent, the second level
\* aside.  It shows no row in a wrong place, and none that is on a cycle; a row
\* whose parent is deleted, disabled or a button stands at the top.
ViewShowsWhatComesFirst ==
    quiet =>
        \A S \in SUBSET Live : \A order \in Orders(S) :
            View(order) = {p \in TruePaths(S) :
                              \A i \in 3 .. Len(p) : before(order, p[i], p[i - 1])}

\* A user's menus are the enabled ones from which enabled menus lead down to one
\* that is granted, in whatever order the grants come and wherever two ways up
\* meet.
UserMenusAreClosed ==
    quiet =>
        \A S, G \in SUBSET Live : \A granted \in Orders(G) :
            visible(granted, S) =
                {m \in S : \E p \in UNION {Orders(T) : T \in SUBSET S} :
                    /\ p # <<>>
                    /\ p[1] = m /\ p[Len(p)] \in G
                    /\ \A i \in 2 .. Len(p) : parent[p[i]] = p[i - 1]}

\* The list of the menus and that of the departments is their tree: it shows
\* every live row that is not on a cycle.
EveryRowIsShown ==
    quiet /\ NoCycle =>
        \A order \in Orders(Live) : \A n \in Live : \E p \in View(order) : p[Len(p)] = n

=============================================================================
