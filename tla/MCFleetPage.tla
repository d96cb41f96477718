---------------------------- MODULE MCFleetPage ----------------------------
(* Small instances of FleetPage for TLC.                                   *)
EXTENDS FleetPage
=============================================================================
