----------------------------- MODULE MCSessions -----------------------------
(* Sessions on a small instance: two accounts, three device names of which   *)
(* two share a slot, two tokens, two requests in progress at a time.  There  *)
(* is no symmetry set, because one of the properties is a liveness property. *)
EXTENDS SessionContract

CONSTANTS u1, u2, t1, t2, r1, r2

MCUsers == {u1, u2}
MCDeviceNames == {"web", "pc", "phone"}
MCTokens == {t1, t2}
MCRequests == {r1, r2}
=============================================================================
