-------------------------- MODULE EnrollmentProofs --------------------------
(***************************************************************************)
(* Proofs about Enrollment, for any number of organizations, codes, keys   *)
(* and concurrent requests.                                                *)
(***************************************************************************)
EXTENDS Enrollment, TLAPS

(* The organization of a live code exists, that of a deleted one does not. *)
OwnerInv ==
    \A c \in Codes :
        /\ status[c] \in {"open", "used"} => owner[c] \in orgs
        /\ status[c] = "gone" => owner[c] \notin orgs

(* What a request knows between its claim and its insert or release: the   *)
(* row it read is still the row of its code, the code is not open, and no  *)
(* node was enrolled with it.                                              *)
HolderInv ==
    \A r \in Reqs : pc[r] \in {"expiry", "release", "insert"} =>
        /\ status[code[r]] \in {"used", "gone"}
        /\ rowOrg[r] = owner[code[r]]
        /\ rowExpiry[r] = expiresAt[code[r]]
        /\ \A n \in nodes : n.code # code[r]

(* One holder per code: the conditional UPDATE has one winner.             *)
ClaimExclusive ==
    \A q, r \in Reqs :
        /\ pc[q] \in {"expiry", "release", "insert"}
        /\ pc[r] \in {"expiry", "release", "insert"}
        /\ code[q] = code[r]
        => q = r

(* A request past its argument check has a good key, and one about to      *)
(* insert has found its code unexpired.                                    *)
CheckedInv ==
    \A r \in Reqs :
        /\ pc[r] \notin {"idle", "done"} => key[r] \in ValidKeys
        /\ pc[r] = "insert" => checkedAt[r] <= rowExpiry[r]

(* A node row is the work of a request that is past its insert.            *)
AuthorInv ==
    \A n \in nodes : pc[n.id] \in {"orgname", "done"} /\ n.publicKey = key[n.id]

IInv ==
    /\ TypeOK
    /\ OwnerInv
    /\ HolderInv
    /\ ClaimExclusive
    /\ CheckedInv
    /\ AuthorInv
    /\ EnrolledByItsCode
    /\ OneNodePerCode
    /\ OneNodePerKey

(* The types of the columns and of the locals of a request are preserved   *)
(* by every step of enrollNode and redeemPairingCode.                      *)
LEMMA TypeStep == TypeOK /\ [Next]_vars => TypeOK'
<1> SUFFICES ASSUME TypeOK, [Next]_vars PROVE TypeOK'
  OBVIOUS
<1> USE EnrollmentAssumption DEF TypeOK, CodeStatus, Await, Answer, NodeRow, db, args, row
<1>1. ASSUME NEW c \in Codes, NEW o \in Orgs, Mint(c, o) PROVE TypeOK'
  BY <1>1 DEF Mint
<1>2. ASSUME NEW r \in Reqs, Arrive(r) PROVE TypeOK'
  <2>1. {n.id : n \in {m \in nodes : m.publicKey = key[r]}} \in SUBSET Reqs
    OBVIOUS
  <2>2. before' \in [Reqs -> SUBSET Reqs]
    BY <1>2, <2>1 DEF Arrive
  <2> QED BY <1>2, <2>2 DEF Arrive, Goto, Reply
<1>3. ASSUME NEW r \in Reqs, PreCheck(r) PROVE TypeOK'
  BY <1>3 DEF PreCheck, Goto, Reply
<1>4. ASSUME NEW r \in Reqs, Claim(r) PROVE TypeOK'
  BY <1>4 DEF Claim, Goto
<1>5. ASSUME NEW r \in Reqs, ClaimNothing(r) PROVE TypeOK'
  BY <1>5 DEF ClaimNothing, Goto
<1>6. ASSUME NEW r \in Reqs, Diagnose(r) PROVE TypeOK'
  BY <1>6 DEF Diagnose, Reply
<1>7. ASSUME NEW r \in Reqs, CheckExpiry(r) PROVE TypeOK'
  BY <1>7 DEF CheckExpiry, Goto
<1>8. ASSUME NEW r \in Reqs, Release(r) PROVE TypeOK'
  BY <1>8 DEF Release, Reply, Reopened
<1>9. ASSUME NEW r \in Reqs, InsertNode(r), rowOrg[r] \in Orgs PROVE TypeOK'
  BY <1>9 DEF InsertNode, NewNode, Goto
<1>10. ASSUME NEW r \in Reqs, InsertFails(r) PROVE TypeOK'
  BY <1>10 DEF InsertFails, Reply
<1>11. ASSUME NEW r \in Reqs, Respond(r) PROVE TypeOK'
  BY <1>11 DEF Respond, Reply
<1>12. ASSUME NEW r \in Reqs, Abort(r) PROVE TypeOK'
  BY <1>12 DEF Abort, Reply
<1>13. ASSUME NEW o \in Orgs, DeleteOrg(o) PROVE TypeOK'
  BY <1>13 DEF DeleteOrg
<1>14. CASE Tick
  BY <1>14 DEF Tick
<1>15. CASE UNCHANGED vars
  BY <1>15 DEF vars
<1>16. \A r \in Reqs : InsertNode(r) => rowOrg[r] \in Orgs
  BY DEF InsertNode, Insertable
<1> QED
  BY <1>1, <1>2, <1>3, <1>4, <1>5, <1>6, <1>7, <1>8, <1>9, <1>10, <1>11,
     <1>12, <1>13, <1>14, <1>15, <1>16 DEF Next, Step

(* Every reachable state of the enrollment service is well typed.          *)
THEOREM TypeCorrect == Spec => []TypeOK
<1>1. Init => TypeOK
  BY EnrollmentAssumption DEF Init, TypeOK, CodeStatus, Await, Answer, NodeRow
<1> QED BY <1>1, TypeStep, PTL DEF Spec

(***************************************************************************)
(* The inductive step, one lemma per group of actions.  Steps that leave   *)
(* the tables alone disturb only what depends on pc.                       *)
(***************************************************************************)

(* A request that moves between awaits, without touching a table, neither  *)
(* starts holding a code nor learns anything new.                          *)
LEMMA LocalStep ==
    ASSUME IInv, TypeOK', UNCHANGED <<orgs, status, owner, expiresAt, nodes, code, key,
                                      rowOrg, rowExpiry>>,
           NEW r \in Reqs, NEW p \in Await, pc' = [pc EXCEPT ![r] = p],
           \/ p \notin {"idle", "expiry", "release", "insert"}
           \/ pc[r] = "expiry" /\ p \in {"release", "insert"},
           pc[r] \notin {"idle", "done"} \/ key[r] \in ValidKeys \/ p = "done",
           pc[r] \notin {"orgname", "done"} \/ p = "done",
           \/ checkedAt' = checkedAt /\ p # "insert"
           \/ p = "insert" /\ checkedAt' = [checkedAt EXCEPT ![r] = clock]
                           /\ clock <= rowExpiry[r]
    PROVE  IInv'
<1> USE DEF IInv, TypeOK
<1>1. OwnerInv'
  BY DEF OwnerInv
<1>2. HolderInv'
  BY DEF HolderInv
<1>3. ClaimExclusive'
  BY DEF ClaimExclusive
<1>4. CheckedInv'
  BY DEF CheckedInv
<1>5. AuthorInv'
  BY DEF AuthorInv, NodeRow
<1>6. EnrolledByItsCode' /\ OneNodePerCode' /\ OneNodePerKey'
  BY DEF EnrolledByItsCode, OneNodePerCode, OneNodePerKey
<1> QED BY <1>1, <1>2, <1>3, <1>4, <1>5, <1>6

(* The claim makes r the only holder of a code that was open, so one that  *)
(* enrolled nobody.                                                        *)
LEMMA ClaimStep == ASSUME IInv, TypeOK', NEW r \in Reqs, Claim(r) PROVE IInv'
<1> USE DEF IInv, TypeOK, Claim, Goto, Claimable, args
<1>1. code[r] \in Codes /\ status[code[r]] = "open"
  OBVIOUS
<1>2. OwnerInv'
  BY <1>1 DEF OwnerInv
<1>3. HolderInv'
  BY <1>1 DEF HolderInv, EnrolledByItsCode
<1>4. ClaimExclusive'
  BY <1>1 DEF ClaimExclusive, HolderInv
<1>5. CheckedInv'
  BY DEF CheckedInv
<1>6. AuthorInv'
  BY DEF AuthorInv, NodeRow
<1>7. EnrolledByItsCode' /\ OneNodePerCode' /\ OneNodePerKey'
  BY <1>1 DEF EnrolledByItsCode, OneNodePerCode, OneNodePerKey, NodeRow
<1> QED BY <1>2, <1>3, <1>4, <1>5, <1>6, <1>7

(* The release reopens a code nobody else holds and nobody enrolled with.  *)
LEMMA ReleaseStep == ASSUME IInv, TypeOK', NEW r \in Reqs, Release(r) PROVE IInv'
<1> USE DEF IInv, TypeOK, Release, Reply, Reopened, args, row
<1>1. code[r] \in Codes /\ status[code[r]] \in {"used", "gone"}
  BY DEF HolderInv
<1>2. \A n \in nodes : n.code # code[r]
  BY DEF HolderInv
<1>3. OwnerInv'
  BY <1>1 DEF OwnerInv
<1>4. HolderInv'
  BY <1>1 DEF HolderInv, ClaimExclusive
<1>5. ClaimExclusive'
  BY DEF ClaimExclusive
<1>6. CheckedInv'
  BY DEF CheckedInv
<1>7. AuthorInv'
  BY DEF AuthorInv, NodeRow
<1>8. EnrolledByItsCode' /\ OneNodePerCode' /\ OneNodePerKey'
  BY <1>1, <1>2 DEF EnrolledByItsCode, OneNodePerCode, OneNodePerKey, NodeRow
<1> QED BY <1>3, <1>4, <1>5, <1>6, <1>7, <1>8

(* The insert adds the first node of its code and of its key.              *)
LEMMA InsertStep == ASSUME IInv, TypeOK', NEW r \in Reqs, InsertNode(r) PROVE IInv'
<1> USE DEF IInv, TypeOK, InsertNode, Goto, Insertable, args, row
<1> DEFINE m == NewNode(r)
<1>1. /\ m.id = r /\ m.publicKey = key[r] /\ m.orgId = rowOrg[r]
      /\ m.code = code[r] /\ m.checkedAt = checkedAt[r]
  BY DEF NewNode
<1>2. nodes' = nodes \cup {m}
  OBVIOUS
<1>3. code[r] \in Codes /\ status[code[r]] = "used" /\ owner[code[r]] = rowOrg[r]
  BY DEF HolderInv, OwnerInv
<1>4. (\A n \in nodes : n.code # code[r]) /\ (\A n \in nodes : n.publicKey # key[r])
  BY DEF HolderInv, KeyEnrolled
<1> HIDE DEF m
<1>5. OwnerInv'
  BY DEF OwnerInv
<1>6. HolderInv'
  BY <1>1, <1>2 DEF HolderInv, ClaimExclusive
<1>7. ClaimExclusive'
  BY DEF ClaimExclusive
<1>8. CheckedInv'
  BY DEF CheckedInv
<1>9. AuthorInv'
  BY <1>1, <1>2 DEF AuthorInv, NodeRow
<1>10. EnrolledByItsCode'
  BY <1>1, <1>2, <1>3 DEF EnrolledByItsCode, CheckedInv, HolderInv
<1>11. OneNodePerCode' /\ OneNodePerKey'
  BY <1>1, <1>2, <1>4 DEF OneNodePerCode, OneNodePerKey
<1> QED BY <1>5, <1>6, <1>7, <1>8, <1>9, <1>10, <1>11

(* Minting and deleting change the tables under the feet of the requests.  *)
LEMMA EnvironmentStep ==
    ASSUME IInv, TypeOK',
           \/ \E c \in Codes, o \in Orgs : Mint(c, o)
           \/ \E o \in Orgs : DeleteOrg(o)
           \/ Tick
    PROVE  IInv'
<1> USE DEF IInv, TypeOK
<1>1. ASSUME NEW c \in Codes, NEW o \in Orgs, Mint(c, o) PROVE IInv'
  <2> USE <1>1 DEF Mint, args, row
  <2>1. OwnerInv'
    BY DEF OwnerInv
  <2>2. HolderInv'
    BY DEF HolderInv
  <2>3. ClaimExclusive' /\ CheckedInv'
    BY DEF ClaimExclusive, CheckedInv
  <2>4. AuthorInv' /\ OneNodePerCode' /\ OneNodePerKey'
    BY DEF AuthorInv, OneNodePerCode, OneNodePerKey
  <2>5. EnrolledByItsCode'
    BY DEF EnrolledByItsCode, NodeRow
  <2> QED BY <2>1, <2>2, <2>3, <2>4, <2>5
<1>2. ASSUME NEW o \in Orgs, DeleteOrg(o) PROVE IInv'
  <2> USE <1>2 DEF DeleteOrg, args, row
  <2>1. OwnerInv'
    BY EnrollmentAssumption DEF OwnerInv, CodeStatus
  <2>2. HolderInv'
    BY DEF HolderInv
  <2>3. ClaimExclusive' /\ CheckedInv'
    BY DEF ClaimExclusive, CheckedInv
  <2>4. AuthorInv' /\ OneNodePerCode' /\ OneNodePerKey'
    BY DEF AuthorInv, OneNodePerCode, OneNodePerKey
  <2>5. EnrolledByItsCode'
    BY DEF EnrolledByItsCode, NodeRow
  <2> QED BY <2>1, <2>2, <2>3, <2>4, <2>5
<1>3. CASE Tick
  <2> USE <1>3 DEF Tick, db, args, row
  <2>1. OwnerInv' /\ HolderInv' /\ ClaimExclusive' /\ CheckedInv'
    BY DEF OwnerInv, HolderInv, ClaimExclusive, CheckedInv
  <2>2. AuthorInv' /\ OneNodePerCode' /\ OneNodePerKey' /\ EnrolledByItsCode'
    BY DEF AuthorInv, OneNodePerCode, OneNodePerKey, EnrolledByItsCode
  <2> QED BY <2>1, <2>2
<1> QED BY <1>1, <1>2, <1>3

(* The invariant is inductive.                                             *)
LEMMA InvStep == IInv /\ [Next]_vars => IInv'
<1> SUFFICES ASSUME IInv, [Next]_vars PROVE IInv'
  OBVIOUS
<1>0. TypeOK /\ TypeOK'
  BY TypeStep DEF IInv
<1> USE DEF Await
<1>1. ASSUME NEW r \in Reqs, Arrive(r) PROVE IInv'
  BY <1>0, <1>1, LocalStep DEF Arrive, Goto, Reply, db, row
<1>2. ASSUME NEW r \in Reqs, PreCheck(r) PROVE IInv'
  BY <1>0, <1>2, LocalStep DEF PreCheck, Goto, Reply, db, args, row
<1>3. ASSUME NEW r \in Reqs, ClaimNothing(r) PROVE IInv'
  BY <1>0, <1>3, LocalStep DEF ClaimNothing, Goto, db, args, row
<1>4. ASSUME NEW r \in Reqs, Diagnose(r) PROVE IInv'
  BY <1>0, <1>4, LocalStep DEF Diagnose, Reply, db, args, row
<1>5. ASSUME NEW r \in Reqs, CheckExpiry(r) PROVE IInv'
  <2>1. CASE Expired(rowExpiry[r])
    BY <1>0, <1>5, <2>1, LocalStep DEF CheckExpiry, Goto, db, args
  <2>2. CASE ~Expired(rowExpiry[r])
    <3>1. clock <= rowExpiry[r]
      BY <1>0, <2>2 DEF Expired, TypeOK
    <3> QED BY <1>0, <1>5, <2>2, <3>1, LocalStep DEF CheckExpiry, Goto, db, args
  <2> QED BY <2>1, <2>2
<1>6. ASSUME NEW r \in Reqs, InsertFails(r) PROVE IInv'
  BY <1>0, <1>6, LocalStep DEF InsertFails, Reply, db, args, row
<1>7. ASSUME NEW r \in Reqs, Respond(r) PROVE IInv'
  BY <1>0, <1>7, LocalStep DEF Respond, Reply, db, args, row
<1>8. ASSUME NEW r \in Reqs, Abort(r) PROVE IInv'
  BY <1>0, <1>8, LocalStep DEF Abort, Reply, db, args, row
<1>9. CASE UNCHANGED vars
  BY <1>0, <1>9 DEF vars, db, args, row, IInv, OwnerInv, HolderInv, ClaimExclusive,
     CheckedInv, AuthorInv, EnrolledByItsCode, OneNodePerCode, OneNodePerKey
<1> QED
  BY <1>0, <1>1, <1>2, <1>3, <1>4, <1>5, <1>6, <1>7, <1>8, <1>9,
     ClaimStep, ReleaseStep, InsertStep, EnvironmentStep DEF Next, Step

(* Enrollment keeps the whole invariant, from the empty tables on.         *)
THEOREM Inductive == Spec => []IInv
<1>1. Init => IInv
  <2> SUFFICES ASSUME Init PROVE IInv
    OBVIOUS
  <2>1. TypeOK
    BY EnrollmentAssumption DEF Init, TypeOK, CodeStatus, Await, Answer, NodeRow
  <2> QED
    BY <2>1 DEF Init, IInv, OwnerInv, HolderInv, ClaimExclusive, CheckedInv, AuthorInv,
       EnrolledByItsCode, OneNodePerCode, OneNodePerKey
<1> QED BY <1>1, InvStep, PTL DEF Spec

(* "Two agents racing one code produce exactly one winner" (pairing.ts:41),*)
(* for any number of agents, codes, failures and deletions.                *)
THEOREM SingleUse == Spec => []OneNodePerCode
<1>1. IInv => OneNodePerCode
  BY DEF IInv
<1> QED BY <1>1, Inductive, PTL

(* A public key is enrolled at most once in all organizations (nodes.ts:37)*)
(* although the check and the insert are separate statements.              *)
THEOREM SingleIdentity == Spec => []OneNodePerKey
<1>1. IInv => OneNodePerKey
  BY DEF IInv
<1> QED BY <1>1, Inductive, PTL

(* Every node sits in the organization that minted its code, which had not *)
(* expired when it was checked and stays used (pairing.ts:45-65).          *)
THEOREM RightTenant == Spec => []EnrolledByItsCode
<1>1. IInv => EnrolledByItsCode
  BY DEF IInv
<1> QED BY <1>1, Inductive, PTL

(***************************************************************************)
(* What becomes of a code, and of a second enroll on one machine.  These   *)
(* two properties look back at what a request answered and at what it saw  *)
(* when it arrived, so they need an invariant about the past of their own. *)
(***************************************************************************)

(* A request is answered once, with its last step.                         *)
AnswerInv == \A r \in Reqs : pc[r] # "done" => answer[r] = "none"

(* No row is read before the claim.                                        *)
UnclaimedInv == \A r \in Reqs : pc[r] \in {"idle", "precheck", "claim"} => rowOrg[r] = NoOrg

(* The nodes that held the request's key when it arrived were the work of  *)
(* finished inserts, so none of them can be inserted again.                *)
BeforeInv ==
    \A r \in Reqs : \A q \in before[r] : pc[q] \in {"orgname", "done"} /\ key[q] = key[r]

(* Past the check of the key, none of them exists any more.                *)
PassedInv ==
    \A r \in Reqs :
        (rowOrg[r] # NoOrg \/ pc[r] \notin {"idle", "precheck", "done"}) =>
            \A n \in nodes : n.id \notin before[r]

HInv == AnswerInv /\ UnclaimedInv /\ BeforeInv /\ PassedInv /\ CodeIsAccountedFor

(* A request that goes on, or is answered, without touching a table.  If   *)
(* it held a code, it still does or its answer says why the code is lost.  *)
LEMMA MoveStep ==
    ASSUME IInv, HInv, TypeOK', UNCHANGED <<status, nodes, code, key, rowOrg, before>>,
           NEW r \in Reqs, NEW p \in Await, pc' = [pc EXCEPT ![r] = p],
           pc[r] \notin {"idle", "done"},
           \A q \in Reqs \ {r} : answer'[q] = answer[q],
           p # "done" => answer'[r] = answer[r],
           p \notin {"idle", "precheck", "claim"} \/ pc[r] = "precheck",
           pc[r] = "precheck" => p = "done" \/ (p = "claim" /\ ~KeyEnrolled(key[r])),
           pc[r] = "orgname" => p = "done",
           pc[r] \in {"expiry", "release", "insert"} =>
               \/ p \in {"expiry", "release", "insert"}
               \/ p = "done" /\ answer'[r] \in {"already_enrolled", "internal"}
    PROVE  HInv'
<1> USE DEF IInv, HInv, TypeOK
<1>1. AnswerInv'
  BY DEF AnswerInv
<1>2. UnclaimedInv'
  BY DEF UnclaimedInv
<1>3. BeforeInv'
  BY DEF BeforeInv
<1>4. PassedInv'
  BY DEF PassedInv, UnclaimedInv, BeforeInv, AuthorInv, KeyEnrolled, NodeRow
<1>5. CodeIsAccountedFor'
  <2> SUFFICES ASSUME NEW c \in Codes, status[c] = "used", \A n \in nodes : n.code # c
               PROVE  \E q \in Reqs :
                         \/ Holds(q, c)'
                         \/ /\ code[q] = c
                            /\ rowOrg[q] # NoOrg
                            /\ answer'[q] \in {"already_enrolled", "internal"}
    BY DEF CodeIsAccountedFor
  <2>1. PICK q \in Reqs :
              \/ Holds(q, c)
              \/ /\ code[q] = c
                 /\ rowOrg[q] # NoOrg
                 /\ answer[q] \in {"already_enrolled", "internal"}
    BY DEF CodeIsAccountedFor
  <2>2. CASE q # r
    BY <2>1, <2>2 DEF Holds
  <2>3. CASE q = r
    <3>1. answer[r] = "none"
      BY DEF AnswerInv
    <3>2. Holds(r, c)
      BY <2>1, <2>3, <3>1
    <3>3. rowOrg[r] # NoOrg
      BY <3>2, EnrollmentAssumption DEF Holds, HolderInv, OwnerInv
    <3> QED BY <3>2, <3>3 DEF Holds
  <2> QED BY <2>2, <2>3
<1> QED BY <1>1, <1>2, <1>3, <1>4, <1>5

(* Steps that only change the tables, or start a request.                  *)
LEMMA TableStep ==
    ASSUME IInv, HInv, TypeOK',
           \/ \E c \in Codes, o \in Orgs : Mint(c, o)
           \/ \E o \in Orgs : DeleteOrg(o)
           \/ \E r \in Reqs : Arrive(r)
    PROVE  HInv'
<1> USE DEF IInv, HInv, TypeOK
<1>1. ASSUME NEW c \in Codes, NEW o \in Orgs, Mint(c, o) PROVE HInv'
  <2> USE <1>1 DEF Mint, args, row
  <2>1. AnswerInv' /\ UnclaimedInv' /\ BeforeInv' /\ PassedInv'
    BY DEF AnswerInv, UnclaimedInv, BeforeInv, PassedInv
  <2>2. CodeIsAccountedFor'
    BY DEF CodeIsAccountedFor, Holds
  <2> QED BY <2>1, <2>2
<1>2. ASSUME NEW o \in Orgs, DeleteOrg(o) PROVE HInv'
  <2> USE <1>2 DEF DeleteOrg, args, row
  <2>1. AnswerInv' /\ UnclaimedInv' /\ BeforeInv' /\ PassedInv'
    BY DEF AnswerInv, UnclaimedInv, BeforeInv, PassedInv
  <2>2. CodeIsAccountedFor'
    BY DEF CodeIsAccountedFor, Holds, EnrolledByItsCode
  <2> QED BY <2>1, <2>2
<1>3. ASSUME NEW r \in Reqs, Arrive(r) PROVE HInv'
  <2> USE <1>3 DEF Arrive, Goto, Reply, db, row
  <2>1. AnswerInv'
    BY DEF AnswerInv
  <2>2. UnclaimedInv'
    BY DEF UnclaimedInv
  <2>3. BeforeInv'
    BY DEF BeforeInv, AuthorInv, NodeRow
  <2>4. PassedInv'
    BY DEF PassedInv, UnclaimedInv
  <2>5. CodeIsAccountedFor'
    BY DEF CodeIsAccountedFor, Holds, UnclaimedInv
  <2> QED BY <2>1, <2>2, <2>3, <2>4, <2>5
<1> QED BY <1>1, <1>2, <1>3

(* The claim makes the code its holder's; the release makes it nobody's;   *)
(* the insert gives it a node.                                             *)
LEMMA CodeStep ==
    ASSUME IInv, HInv, TypeOK', NEW r \in Reqs, Claim(r) \/ Release(r) \/ InsertNode(r)
    PROVE  HInv'
<1> USE DEF IInv, HInv, TypeOK
<1>1. CASE Claim(r)
  <2> USE <1>1 DEF Claim, Goto, Claimable, args
  <2>1. AnswerInv' /\ UnclaimedInv' /\ BeforeInv'
    BY DEF AnswerInv, UnclaimedInv, BeforeInv
  <2>2. PassedInv'
    BY DEF PassedInv
  <2>3. CodeIsAccountedFor'
    BY DEF CodeIsAccountedFor, Holds, UnclaimedInv
  <2> QED BY <2>1, <2>2, <2>3
<1>2. CASE Release(r)
  <2> USE <1>2 DEF Release, Reply, Reopened, args, row
  <2>1. AnswerInv' /\ UnclaimedInv' /\ BeforeInv'
    BY DEF AnswerInv, UnclaimedInv, BeforeInv
  <2>2. PassedInv'
    BY DEF PassedInv
  <2>3. CodeIsAccountedFor'
    BY DEF CodeIsAccountedFor, Holds
  <2> QED BY <2>1, <2>2, <2>3
<1>3. CASE InsertNode(r)
  <2> USE <1>3 DEF InsertNode, Goto, args, row
  <2> DEFINE m == NewNode(r)
  <2>1. m.id = r /\ m.code = code[r] /\ nodes' = nodes \cup {m}
    BY DEF NewNode
  <2> HIDE DEF m
  <2>2. AnswerInv' /\ UnclaimedInv' /\ BeforeInv'
    BY DEF AnswerInv, UnclaimedInv, BeforeInv
  <2>3. PassedInv'
    BY <2>1 DEF PassedInv, BeforeInv
  <2>4. CodeIsAccountedFor'
    BY <2>1 DEF CodeIsAccountedFor, Holds
  <2> QED BY <2>2, <2>3, <2>4
<1> QED BY <1>1, <1>2, <1>3

(* The invariant about the past is inductive, given the one before.        *)
LEMMA PastStep == IInv /\ HInv /\ [Next]_vars => HInv'
<1> SUFFICES ASSUME IInv, HInv, [Next]_vars PROVE HInv'
  OBVIOUS
<1>0. TypeOK /\ TypeOK'
  BY TypeStep DEF IInv
<1> USE DEF Await, TypeOK
<1>1. ASSUME NEW r \in Reqs, PreCheck(r) PROVE HInv'
  BY <1>0, <1>1, MoveStep DEF PreCheck, Goto, Reply, db, args, row
<1>2. ASSUME NEW r \in Reqs, ClaimNothing(r) PROVE HInv'
  BY <1>0, <1>2, MoveStep DEF ClaimNothing, Goto, db, args, row
<1>3. ASSUME NEW r \in Reqs, Diagnose(r) PROVE HInv'
  BY <1>0, <1>3, MoveStep DEF Diagnose, Reply, db, args, row
<1>4. ASSUME NEW r \in Reqs, CheckExpiry(r) PROVE HInv'
  BY <1>0, <1>4, MoveStep DEF CheckExpiry, Goto, db, args
<1>5. ASSUME NEW r \in Reqs, InsertFails(r) PROVE HInv'
  BY <1>0, <1>5, MoveStep DEF InsertFails, Reply, db, args, row
<1>6. ASSUME NEW r \in Reqs, Respond(r) PROVE HInv'
  BY <1>0, <1>6, MoveStep DEF Respond, Reply, db, args, row
<1>7. ASSUME NEW r \in Reqs, Abort(r) PROVE HInv'
  BY <1>0, <1>7, MoveStep DEF Abort, Reply, db, args, row
<1>8. CASE Tick \/ UNCHANGED vars
  BY <1>8 DEF Tick, vars, db, args, row, HInv, AnswerInv, UnclaimedInv, BeforeInv,
     PassedInv, CodeIsAccountedFor, Holds
<1> QED
  BY <1>0, <1>1, <1>2, <1>3, <1>4, <1>5, <1>6, <1>7, <1>8, TableStep, CodeStep
     DEF Next, Step

(* Enrollment keeps it, from the empty tables on.                          *)
LEMMA PastInductive == Spec => []HInv
<1>1. Init => HInv
  BY DEF Init, HInv, AnswerInv, UnclaimedInv, BeforeInv, PassedInv, CodeIsAccountedFor
<1> QED BY <1>1, Inductive, PastStep, PTL DEF Spec

(* No pairing code is lost without a node, a request at work on it or an   *)
(* answer that says so, for any number of concurrent calls that fail or    *)
(* die anywhere (pairing.ts:45-65, nodes.ts:44-61).                        *)
THEOREM NoCodeVanishes == Spec => []CodeIsAccountedFor
<1>1. HInv => CodeIsAccountedFor
  BY DEF HInv
<1> QED BY <1>1, PastInductive, PTL

(* An enroll on a machine that is enrolled already claims no code, for any *)
(* interleaving with other calls (nodes.ts:36-37).                         *)
THEOREM ReRunIsFree == Spec => []ReRunKeepsCode
<1>1. HInv => ReRunKeepsCode
  BY DEF HInv, PassedInv, ReRunKeepsCode
<1> QED BY <1>1, PastInductive, PTL

(***************************************************************************)
(* Enrollment implements AtomicEnrollment.  Under the mapping a code stays *)
(* redeemable while a request holds it, so what matters of a step is which *)
(* codes it makes held, and what becomes of the ones it lets go.           *)
(***************************************************************************)
Held(c) == \E r \in Reqs : Holds(r, c)

(* The abstract ledger, code by code.                                      *)
ByCode ==
    \A c \in Codes :
        /\ status[c] = "open" => Ledger[c] = "redeemable"
        /\ status[c] = "used" /\ Held(c) => Ledger[c] = "redeemable"
        /\ status[c] = "used" /\ ~Held(c) => Ledger[c] = "spent"
        /\ status[c] \in {"none", "gone"} => Ledger[c] = status[c]

(* The cases of the mapping, before and after a step.                      *)
LEMMA LedgerOf == ByCode /\ ByCode'
<1>1. ByCode
  BY DEF ByCode, Ledger, Held
<1> QED BY <1>1, PTL

(* A step that leaves every code in its abstract state, and the tables of  *)
(* organizations and nodes alone, is invisible.                            *)
LEMMA Invisible ==
    ASSUME TypeOK, TypeOK', UNCHANGED <<orgs, owner, nodes>>,
           \A c \in Codes :
               \/ status'[c] = status[c] /\ (status[c] = "used" => (Held(c)' <=> Held(c)))
               \/ /\ status[c] = "open" \/ (status[c] = "used" /\ Held(c))
                  /\ status'[c] = "open" \/ (status'[c] = "used" /\ Held(c)')
    PROVE  UNCHANGED Atomic!vars
<1>1. \A c \in Codes : Ledger'[c] = Ledger[c]
  <2> SUFFICES ASSUME NEW c \in Codes PROVE Ledger'[c] = Ledger[c]
    OBVIOUS
  <2>1. status[c] \in CodeStatus /\ status'[c] \in CodeStatus
    BY DEF TypeOK
  <2> QED BY <2>1, LedgerOf DEF CodeStatus, ByCode
<1> QED BY <1>1 DEF Atomic!vars, Fleet, Ledger

(* A request that holds its code and lets go of it without enrolling loses *)
(* it: the code is burned, unless it was deleted meanwhile.                *)
LEMMA LetGo ==
    ASSUME IInv, TypeOK', UNCHANGED <<orgs, status, owner, nodes, code>>,
           NEW r \in Reqs, pc' = [pc EXCEPT ![r] = "done"]
    PROVE  [Atomic!Next]_Atomic!vars
<1> USE DEF IInv, TypeOK
<1> DEFINE c == code[r]
<1>1. \A d \in Codes \ {c} : Held(d)' <=> Held(d)
  BY DEF Held, Holds
<1>2. c \in Codes /\ (Held(c)' => Held(c))
  BY DEF Held, Holds
<1>3. CASE status[c] = "used" /\ Held(c) /\ ~Held(c)'
  <2>1. Ledger[c] = "redeemable" /\ Ledger'[c] = "spent"
    BY <1>2, <1>3, LedgerOf DEF ByCode
  <2>2. \A d \in Codes \ {c} : Ledger'[d] = Ledger[d]
    BY <1>1, LedgerOf DEF ByCode, CodeStatus
  <2>3. Ledger' = [Ledger EXCEPT ![c] = "spent"]
    BY <2>1, <2>2 DEF Ledger
  <2>4. Atomic!Burn(c)
    BY <2>1, <2>3 DEF Atomic!Burn, Fleet
  <2> QED BY <1>2, <2>4 DEF Atomic!Next
<1>4. CASE ~(status[c] = "used" /\ Held(c) /\ ~Held(c)')
  BY <1>1, <1>2, <1>4, Invisible
<1> QED BY <1>3, <1>4

(* The claim and the release move a code between open and held, both of    *)
(* which are redeemable.                                                   *)
LEMMA ClaimInvisible ==
    ASSUME IInv, TypeOK', NEW r \in Reqs, Claim(r) \/ Release(r)
    PROVE  UNCHANGED Atomic!vars
<1> USE DEF IInv, TypeOK
<1> DEFINE c == code[r]
<1>0. UNCHANGED <<orgs, owner, nodes, code>> /\ c \in Codes
  BY DEF Claim, Release, args, row
<1>1. \A d \in Codes \ {c} : status'[d] = status[d] /\ (Held(d)' <=> Held(d))
  BY DEF Held, Holds, Claim, Release, Goto, Reply, args
<1>2. CASE Claim(r)
  <2>1. status[c] = "open" /\ status'[c] = "used" /\ Held(c)'
    BY <1>2 DEF Claim, Claimable, Goto, Held, Holds, args
  <2> QED BY <1>0, <1>1, <2>1, Invisible
<1>3. CASE Release(r)
  <2>1. Held(c) /\ status[c] \in {"used", "gone"}
    BY <1>3 DEF Release, Held, Holds, HolderInv
  <2>2. status'[c] = Reopened(status[c])
    BY <1>3 DEF Release
  <2> QED BY <1>0, <1>1, <2>1, <2>2, Invisible DEF Reopened
<1> QED BY <1>2, <1>3

(* The insert is the enrollment: the code that was held is spent in the    *)
(* step that creates its node.                                             *)
LEMMA InsertEnrolls ==
    ASSUME IInv, TypeOK', NEW r \in Reqs, InsertNode(r)
    PROVE  Atomic!Next
<1> USE DEF IInv, TypeOK
<1> DEFINE c == code[r]
<1>0. /\ c \in Codes /\ key[r] \in Keys
      /\ UNCHANGED <<orgs, owner, status, code>>
      /\ pc[r] = "insert" /\ pc' = [pc EXCEPT ![r] = "orgname"]
      /\ rowOrg[r] \in orgs /\ ~KeyEnrolled(key[r])
      /\ nodes' = nodes \cup {NewNode(r)}
  BY DEF InsertNode, Insertable, Goto, args
<1>1. status[c] = "used" /\ rowOrg[r] = owner[c] /\ Held(c)
  BY <1>0 DEF HolderInv, OwnerInv, Held, Holds
<1>2. ~Held(c)'
  BY <1>0 DEF ClaimExclusive, Held, Holds
<1>3. \A d \in Codes \ {c} : Held(d)' <=> Held(d)
  BY <1>0 DEF Held, Holds
<1>4. Ledger[c] = "redeemable" /\ Ledger'[c] = "spent"
  BY <1>0, <1>1, <1>2, LedgerOf DEF ByCode
<1>5. \A d \in Codes \ {c} : Ledger'[d] = Ledger[d]
  BY <1>0, <1>3, LedgerOf DEF ByCode, CodeStatus
<1>6. Ledger' = [Ledger EXCEPT ![c] = "spent"]
  BY <1>4, <1>5 DEF Ledger
<1>7. \A n \in Fleet : n.publicKey # key[r]
  BY <1>0 DEF Fleet, KeyEnrolled
<1>8. Fleet' = Fleet \cup {[publicKey |-> key[r], orgId |-> owner[c], code |-> c]}
  <2> DEFINE m == NewNode(r)
  <2>1. m.publicKey = key[r] /\ m.orgId = owner[c] /\ m.code = c
    BY <1>1 DEF NewNode
  <2>2. nodes' = nodes \cup {m}
    BY <1>0
  <2> HIDE DEF m
  <2> QED BY <2>1, <2>2 DEF Fleet
<1>9. Atomic!Enroll(c, key[r])
  BY <1>0, <1>4, <1>6, <1>7, <1>8 DEF Atomic!Enroll
<1> QED BY <1>0, <1>9 DEF Atomic!Next

(* Minting a code and deleting an organization are steps of both.          *)
LEMMA SameInBoth ==
    ASSUME IInv, TypeOK', \/ \E c \in Codes, o \in Orgs : Mint(c, o)
                         \/ \E o \in Orgs : DeleteOrg(o)
    PROVE  Atomic!Next
<1> USE DEF IInv, TypeOK
<1>1. ASSUME NEW c \in Codes, NEW o \in Orgs, Mint(c, o) PROVE Atomic!Next
  <2>1. \A d \in Codes : Held(d)' <=> Held(d)
    BY <1>1 DEF Mint, Held, Holds, args
  <2>2. Ledger[c] = "none" /\ Ledger'[c] = "redeemable"
    BY <1>1, LedgerOf DEF Mint, ByCode
  <2>3. \A d \in Codes \ {c} : Ledger'[d] = Ledger[d]
    BY <1>1, <2>1, LedgerOf DEF Mint, ByCode, CodeStatus
  <2>4. Ledger' = [Ledger EXCEPT ![c] = "redeemable"]
    BY <2>2, <2>3 DEF Ledger
  <2>5. Atomic!Mint(c, o)
    BY <1>1, <2>2, <2>4 DEF Mint, Atomic!Mint, Fleet
  <2> QED BY <2>5 DEF Atomic!Next
<1>2. ASSUME NEW o \in Orgs, DeleteOrg(o) PROVE Atomic!Next
  <2>1. \A d \in Codes : Held(d)' <=> Held(d)
    BY <1>2 DEF DeleteOrg, Held, Holds, args
  <2>2. \A d \in Codes : Ledger'[d] = IF owner[d] = o THEN "gone" ELSE Ledger[d]
    BY <1>2, <2>1, LedgerOf DEF DeleteOrg, ByCode, CodeStatus
  <2>3. Ledger' = [d \in Codes |-> IF owner[d] = o THEN "gone" ELSE Ledger[d]]
    BY <2>2 DEF Ledger
  <2>4. Fleet' = {n \in Fleet : n.orgId # o}
    BY <1>2 DEF DeleteOrg, Fleet
  <2>5. Atomic!DeleteOrg(o)
    BY <1>2, <2>3, <2>4 DEF DeleteOrg, Atomic!DeleteOrg
  <2> QED BY <2>5 DEF Atomic!Next
<1> QED BY <1>1, <1>2

(* Enrollment implements AtomicEnrollment: of all the statements a request *)
(* runs, only the insert is seen, and it spends the code and creates the   *)
(* node at once; a code is otherwise lost with a failed request, or kept   *)
(* (pairing.ts:45-65, nodes.ts:44-61).                                     *)
THEOREM EnrollmentIsAtomic == Spec => RefinesAtomic
<1>1. Init => Atomic!Init
  BY DEF Init, Atomic!Init, Ledger, Fleet
<1>2. IInv /\ [Next]_vars => [Atomic!Next]_Atomic!vars
  <2> SUFFICES ASSUME IInv, [Next]_vars PROVE [Atomic!Next]_Atomic!vars
    OBVIOUS
  <2>0. TypeOK /\ TypeOK'
    BY TypeStep DEF IInv
  <2>1. ASSUME NEW r \in Reqs,
               InsertFails(r) \/ Abort(r) \/ Respond(r) \/ Diagnose(r)
        PROVE  [Atomic!Next]_Atomic!vars
    BY <2>0, <2>1, LetGo DEF InsertFails, Abort, Respond, Diagnose, Reply, db, args
  <2>2. ASSUME UNCHANGED <<db, code>>, \A c \in Codes : Held(c)' <=> Held(c)
        PROVE  UNCHANGED Atomic!vars
    BY <2>0, <2>2, Invisible DEF db
  <2>3. ASSUME NEW r \in Reqs, Arrive(r) \/ PreCheck(r) \/ ClaimNothing(r) \/ CheckExpiry(r)
        PROVE  UNCHANGED Atomic!vars
    <3>1. UNCHANGED <<db, code>>
      BY <2>3 DEF Arrive, PreCheck, ClaimNothing, CheckExpiry, args
    <3>2. \A q \in Reqs, c \in Codes : Holds(q, c)' <=> Holds(q, c)
      BY <2>0, <2>3 DEF Arrive, PreCheck, ClaimNothing, CheckExpiry, Goto, Reply, args,
         TypeOK, Holds
    <3> QED BY <2>2, <3>1, <3>2 DEF Held
  <2>4. CASE Tick \/ UNCHANGED vars
    BY <2>2, <2>4 DEF Tick, vars, args, Held, Holds
  <2> QED
    BY <2>0, <2>1, <2>3, <2>4, ClaimInvisible, InsertEnrolls, SameInBoth DEF Next, Step
<1> QED BY <1>1, <1>2, Inductive, PTL DEF Spec, RefinesAtomic, Atomic!Spec
=============================================================================
