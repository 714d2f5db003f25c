--------------------------- MODULE SessionContract ---------------------------
(* The session store of the backend implements SessionRegistry: a session is  *)
(* open while it is in Redis or a request carries it, closed after that.      *)
EXTENDS Sessions

OpenSessions == {s \in issued : ~Dead(s)}
ClosedSessions == {s \in issued : Dead(s)}

Registry == INSTANCE SessionRegistry WITH
    Session <- SessionData,
    Slot <- Keys,
    slotOf <- [s \in SessionData |-> onlineSessionKey(s)],
    None <- NoSession,
    slot <- redis,
    open <- OpenSessions,
    closed <- ClosedSessions

\* Whatever the interleaving of logins, authenticated requests, removals and
\* expiries, the store behaves as the registry: closing a session is final.
RegistryContract == Registry!Spec

=============================================================================
