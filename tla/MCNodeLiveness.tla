--------------------------- MODULE MCNodeLiveness ---------------------------
(* Small instances of NodeLiveness for TLC.                                *)
EXTENDS NodeLiveness

=============================================================================
