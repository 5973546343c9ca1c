--------------------------- MODULE MCEpubCommit ---------------------------
EXTENDS EpubCommit, TLC

CONSTANTS p1, p2, q1, P, Q, X, Y, pid

MCProcessOf == p1 :> P @@ p2 :> P @@ q1 :> Q
MCPidOf == P :> pid @@ Q :> pid
MCOutputOf == p1 :> X @@ p2 :> Y @@ q1 :> X
=============================================================================
