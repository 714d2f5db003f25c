---------------------------- MODULE MCHierarchy -----------------------------
(* Both trees with three rows, one user and two concurrent requests.         *)
EXTENDS TreeView, TLC

CONSTANTS a, b, c, u1, r1, r2

MCNodes == {a, b, c}
MCMembers == {u1}
MCRequests == {r1, r2}
MCSymmetry == Permutations(MCNodes) \cup Permutations(MCRequests)
=============================================================================
