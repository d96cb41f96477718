-------------------------- MODULE AtomicEnrollment --------------------------
(***************************************************************************)
(* What enrollment promises, without requests, awaits or clocks: a code is *)
(* spent in the same step that creates its one node, or it is burned.      *)
(***************************************************************************)
CONSTANTS Orgs, NoOrg, Codes, Keys

VARIABLES
    orgs,     \* the organizations that exist
    ledger,   \* what became of each code
    issuer,   \* the organization that minted each code
    fleet     \* the enrolled machines: [publicKey, orgId, code]

vars == <<orgs, ledger, issuer, fleet>>

Init ==
    /\ orgs = Orgs
    /\ ledger = [c \in Codes |-> "none"]
    /\ issuer = [c \in Codes |-> NoOrg]
    /\ fleet = {}

Mint(c, o) ==
    /\ ledger[c] = "none"
    /\ o \in orgs
    /\ ledger' = [ledger EXCEPT ![c] = "redeemable"]
    /\ issuer' = [issuer EXCEPT ![c] = o]
    /\ UNCHANGED <<orgs, fleet>>

(* The code pays for exactly one machine, whose key nobody else holds.     *)
Enroll(c, k) ==
    /\ ledger[c] = "redeemable"
    /\ \A n \in fleet : n.publicKey # k
    /\ ledger' = [ledger EXCEPT ![c] = "spent"]
    /\ fleet' = fleet \cup {[publicKey |-> k, orgId |-> issuer[c], code |-> c]}
    /\ UNCHANGED <<orgs, issuer>>

(* The code is lost with an enrollment that failed.                        *)
Burn(c) ==
    /\ ledger[c] = "redeemable"
    /\ ledger' = [ledger EXCEPT ![c] = "spent"]
    /\ UNCHANGED <<orgs, issuer, fleet>>

DeleteOrg(o) ==
    /\ o \in orgs
    /\ orgs' = orgs \ {o}
    /\ ledger' = [c \in Codes |-> IF issuer[c] = o THEN "gone" ELSE ledger[c]]
    /\ fleet' = {n \in fleet : n.orgId # o}
    /\ UNCHANGED issuer

Next ==
    \/ \E c \in Codes, o \in Orgs : Mint(c, o)
    \/ \E c \in Codes, k \in Keys : Enroll(c, k)
    \/ \E c \in Codes : Burn(c)
    \/ \E o \in Orgs : DeleteOrg(o)

Spec == Init /\ [][Next]_vars
=============================================================================
