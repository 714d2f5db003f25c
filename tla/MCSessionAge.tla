---------------------------- MODULE MCSessionAge ----------------------------
(* One account, one device, one token: enough to keep a session in use.      *)
EXTENDS SessionAge

CONSTANTS u1, t1, r1

MCUsers == {u1}
MCDeviceNames == {"web"}
MCTokens == {t1}
MCRequests == {r1}
=============================================================================
