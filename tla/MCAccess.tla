------------------------------ MODULE MCAccess ------------------------------
(* An administrator, a user, SUPER_ADMIN and another role, one menu for all     *)
(* operations, and two requests in all, which may overlap.                      *)
EXTENDS Access, TLC

CONSTANTS root, user, super, role, menu, r1, r2

MCUsers == {root, user}
MCRoles == {super, role}
MCMenus == {menu}
MCRequests == {r1, r2}
MCCode == [o \in Ops |-> menu]
MCSymmetry == Permutations(MCUsers) \cup Permutations(MCRequests)
=============================================================================
