----------------------------- MODULE MCNodeAuth -----------------------------
(* Small instances of NodeAuth for TLC.                                    *)
EXTENDS NodeAuth, TLC

(* Attempts and headers are interchangeable in the safety run.             *)
Symmetry == Permutations(Attempts) \cup Permutations(Headers)
=============================================================================
