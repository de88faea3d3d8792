---------------------------- MODULE MCDashboard ----------------------------
(* Two servers and a polled port where none runs.                           *)
EXTENDS Dashboard, TLC

MCPortOf == 1 :> 2551 @@ 2 :> 2552
MCValidPort == 2551 .. 2553
=============================================================================
