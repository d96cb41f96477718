--------------------------- MODULE MCFleetAccess ---------------------------
(* Small instances of FleetAccess for TLC.                                 *)
EXTENDS FleetAccess, TLC

(* Users, ids, connections and requests are interchangeable.               *)
Symmetry ==
    Permutations(Users) \cup Permutations(Orgs) \cup Permutations(Conns)
        \cup Permutations(Requests)
=============================================================================
