------------------------- MODULE MCClusterListener -------------------------
(* Three servers, the last on a port the dashboard has no place for.        *)
EXTENDS ClusterListener, TLC

MCPortOf == 1 :> 2551 @@ 2 :> 2559 @@ 3 :> 2560
MCValidPort == 2551 .. 2559
=============================================================================
