------------------------------- MODULE MCJobs -------------------------------
(* One job, two runs at a time and another caller of NewID, over two         *)
(* milliseconds with two numbers each.                                       *)
EXTENDS Jobs

CONSTANTS j1, g1, g2, o1

MCJobIds == {j1}
MCRuns == {g1, g2}
MCOthers == {o1}
MCCallers == {g1, g2, o1}
=============================================================================
