---------------------------- MODULE MCLoginLimit ----------------------------
(* LoginLimit on a small instance.  The failure limit is smaller than the    *)
(* number of concurrent logins, so that they can exceed it together.  The    *)
(* counters of two usernames share nothing: one username is enough.          *)
EXTENDS LoginLimit

CONSTANTS n1, r1, r2, r3

MCNames == {n1}
MCRequests == {r1, r2, r3}
=============================================================================
