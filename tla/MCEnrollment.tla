---------------------------- MODULE MCEnrollment ----------------------------
(* Small instances of Enrollment for TLC.                                  *)
EXTENDS Enrollment, TLC

(* Requests, codes, good keys and organizations are interchangeable in the *)
(* safety runs: nothing in the specification picks one of them.            *)
Symmetry == Permutations(Reqs) \cup Permutations(Codes) \cup Permutations(ValidKeys)
                \cup Permutations(Orgs)
=============================================================================
