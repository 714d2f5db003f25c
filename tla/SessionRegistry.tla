--------------------------- MODULE SessionRegistry ---------------------------
(***************************************************************************)
(* What the session store promises, without requests, copies or time.      *)
(* A session is open from its login on and may enter its slot any number   *)
(* of times while it is open; once it is closed it is out of its slot and  *)
(* never enters it again.  A slot holds one session at most.               *)
(***************************************************************************)
CONSTANTS
    Session,   \* the sessions a login may create
    Slot,      \* one slot per user and device class
    slotOf,    \* the slot a session is for
    None       \* an empty slot

VARIABLES slot, open, closed

vars == <<slot, open, closed>>

Init ==
    /\ slot = [k \in Slot |-> None]
    /\ open = {}
    /\ closed = {}

\* A login creates a session.
Open(s) ==
    /\ s \notin open \cup closed
    /\ open' = open \cup {s}
    /\ UNCHANGED <<slot, closed>>

\* Open sessions that are out of their slots may be closed, for good.
Close ==
    \E S \in SUBSET open :
        /\ open' = open \ S
        /\ closed' = closed \cup S
        /\ \A s \in S : slot'[slotOf[s]] # s

\* An open session enters its slot; the one that was there may close.
Enter(s) ==
    /\ s \in open
    /\ slot' = [slot EXCEPT ![slotOf[s]] = s]
    /\ Close

\* Sessions leave their slots: removed, evicted or out of time.
Leave(K) ==
    /\ slot' = [k \in Slot |-> IF k \in K THEN None ELSE slot[k]]
    /\ Close

Next ==
    \/ \E s \in Session : Open(s) \/ Enter(s)
    \/ \E K \in SUBSET Slot : Leave(K)

Spec == Init /\ [][Next]_vars

=============================================================================
