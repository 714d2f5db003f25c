-------------------------------- MODULE MCApi --------------------------------
(* Every route, one request at a time.                                        *)
EXTENDS Api
=============================================================================
