-------------------------------- MODULE MCDict --------------------------------
(* Two types and three items, one more than there are concurrent requests.     *)
EXTENDS Dict, TLC

CONSTANTS t1, t2, i1, i2, i3, r1, r2

MCTypes == {t1, t2}
MCItems == {i1, i2, i3}
MCRequests == {r1, r2}
MCSymmetry == Permutations(MCTypes) \cup Permutations(MCItems) \cup Permutations(MCRequests)
=============================================================================
