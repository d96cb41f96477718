----------------------------- MODULE Enrollment -----------------------------
(***************************************************************************)
(* Pairing codes and node enrollment in the control plane:                 *)
(* domain/pairing.ts, enrollNode in domain/nodes.ts, the Enroll handler of *)
(* rpc/node-service.ts and CreatePairingCode of rpc/fleet-service.ts.      *)
(*                                                                         *)
(* Every request runs as an async function against Postgres, so the model  *)
(* splits a request at each await: what one request read is stale as soon  *)
(* as another one is scheduled.  A single SQL statement is atomic.  The    *)
(* database may fail any statement, and the process may die at any await.  *)
(*                                                                         *)
(* A pairing code is a member of Codes: the row of the code is found by an *)
(* HMAC of its normalised spelling, and two codes never share a row.  A    *)
(* node row is identified by the request that inserted it.                 *)
(***************************************************************************)
EXTENDS Naturals

CONSTANTS
    Orgs,       \* organizations (tenants)
    NoOrg,      \* the orgId of a row that was not read
    Codes,      \* spellings of pairing codes, minted or not
    Keys,       \* public keys an agent may present
    ValidKeys,  \* the keys that are 32 bytes long
    Reqs,       \* Enroll calls, each made once
    TTL,        \* PAIRING_CODE_TTL_MS
    MaxTime     \* bound on the clock

ASSUME EnrollmentAssumption ==
    /\ NoOrg \notin Orgs
    /\ ValidKeys \subseteq Keys
    /\ TTL \in Nat
    /\ MaxTime \in Nat

VARIABLES
    clock,      \* Date.now() of the control plane
    orgs,       \* rows of organization
    status,     \* pairing_codes: absent, used_at null ("open") or set ("used")
    owner,      \* pairing_codes.org_id
    expiresAt,  \* pairing_codes.expires_at
    nodes,      \* rows of nodes, with the code and the time of its expiry check
    pc,         \* the await each request is at
    code,       \* the pairing code each request presented
    key,        \* the public key each request presented
    rowOrg,     \* row.orgId of the code a request claimed
    rowExpiry,  \* row.expiresAt of the code a request claimed
    checkedAt,  \* when the request's expiry check passed
    answer,     \* what the request was answered
    before      \* history: the nodes holding the request's key when it arrived

db   == <<orgs, status, owner, expiresAt, nodes>>
args == <<code, key, before>>
row  == <<rowOrg, rowExpiry, checkedAt>>
vars == <<clock, db, pc, args, row, answer>>

CodeStatus == {"none", "open", "used", "gone"}
Await      == {"idle", "precheck", "claim", "diagnose", "expiry", "release",
               "insert", "orgname", "done"}
Answer     == {"none", "bad_key", "already_enrolled", "unknown", "already_used",
               "expired", "internal", "ok"}
NodeRow    == [id : Reqs, publicKey : Keys, orgId : Orgs, code : Codes,
               checkedAt : Nat]

KeyEnrolled(k) == \E n \in nodes : n.publicKey = k

(* The code is claimed by r, which has neither inserted nor released yet.  *)
Holds(r, c) == code[r] = c /\ pc[r] \in {"expiry", "release", "insert"}

(* Mutant: a code lives for ever.                                          *)
ExpiredNever(t) == FALSE

Expired(t) == t < clock

Init ==
    /\ clock = 0
    /\ orgs = Orgs
    /\ status = [c \in Codes |-> "none"]
    /\ owner = [c \in Codes |-> NoOrg]
    /\ expiresAt = [c \in Codes |-> 0]
    /\ nodes = {}
    /\ pc = [r \in Reqs |-> "idle"]
    /\ code \in [Reqs -> Codes]
    /\ key \in [Reqs -> Keys]
    /\ rowOrg = [r \in Reqs |-> NoOrg]
    /\ rowExpiry = [r \in Reqs |-> 0]
    /\ checkedAt = [r \in Reqs |-> 0]
    /\ answer = [r \in Reqs |-> "none"]
    /\ before = [r \in Reqs |-> {}]

(***************************************************************************)
(* The steps of a request                                                  *)
(***************************************************************************)
Goto(r, p) == pc' = [pc EXCEPT ![r] = p] /\ UNCHANGED answer

Reply(r, a) ==
    /\ pc' = [pc EXCEPT ![r] = "done"]
    /\ answer' = [answer EXCEPT ![r] = a]

(* CreatePairingCode: the insert fails, and changes nothing, on a code that *)
(* exists or an organization that does not.                                 *)
Mint(c, o) ==
    /\ status[c] = "none"
    /\ o \in orgs
    /\ status' = [status EXCEPT ![c] = "open"]
    /\ owner' = [owner EXCEPT ![c] = o]
    /\ expiresAt' = [expiresAt EXCEPT ![c] = clock + TTL]
    /\ UNCHANGED <<clock, orgs, nodes, pc, args, row, answer>>

Arrive(r) ==
    /\ pc[r] = "idle"
    /\ before' = [before EXCEPT ![r] = {n.id : n \in {m \in nodes : m.publicKey = key[r]}}]
    /\ IF key[r] \in ValidKeys THEN Goto(r, "precheck") ELSE Reply(r, "bad_key")
    /\ UNCHANGED <<clock, db, code, key, row>>

(* Mutant: the key is not looked up before the redeem.                     *)
PreCheckSkipped(r) ==
    /\ pc[r] = "precheck"
    /\ Goto(r, "claim")
    /\ UNCHANGED <<clock, db, args, row>>

PreCheck(r) ==
    /\ pc[r] = "precheck"
    /\ IF KeyEnrolled(key[r]) THEN Reply(r, "already_enrolled") ELSE Goto(r, "claim")
    /\ UNCHANGED <<clock, db, args, row>>

(* Mutant: the claim does not ask for used_at IS NULL.                     *)
ClaimableTwice(c) == status[c] \in {"open", "used"}

(* The conditional UPDATE ... WHERE used_at IS NULL RETURNING *.           *)
Claimable(c) == status[c] = "open"

Claim(r) ==
    /\ pc[r] = "claim"
    /\ Claimable(code[r])
    /\ status' = [status EXCEPT ![code[r]] = "used"]
    /\ rowOrg' = [rowOrg EXCEPT ![r] = owner[code[r]]]
    /\ rowExpiry' = [rowExpiry EXCEPT ![r] = expiresAt[code[r]]]
    /\ Goto(r, "expiry")
    /\ UNCHANGED <<clock, orgs, owner, expiresAt, nodes, args, checkedAt>>

ClaimNothing(r) ==
    /\ pc[r] = "claim"
    /\ ~Claimable(code[r])
    /\ Goto(r, "diagnose")
    /\ UNCHANGED <<clock, db, args, row>>

(* The second look, to say why nothing was claimed.                        *)
Diagnose(r) ==
    /\ pc[r] = "diagnose"
    /\ Reply(r, IF status[code[r]] \in {"open", "used"} THEN "already_used" ELSE "unknown")
    /\ UNCHANGED <<clock, db, args, row>>

CheckExpiry(r) ==
    /\ pc[r] = "expiry"
    /\ IF Expired(rowExpiry[r])
         THEN Goto(r, "release") /\ UNCHANGED checkedAt
         ELSE Goto(r, "insert") /\ checkedAt' = [checkedAt EXCEPT ![r] = clock]
    /\ UNCHANGED <<clock, db, args, rowOrg, rowExpiry>>

(* Mutant: an expired code is not released.                                *)
NotReopened(s) == s

(* Mutant: the release writes the wrong column value.                      *)
ReopenedAsNull(s) == "null"

(* UPDATE ... SET used_at = NULL WHERE id: no row left, nothing changed.   *)
Reopened(s) == IF s = "gone" THEN "gone" ELSE "open"

Release(r) ==
    /\ pc[r] = "release"
    /\ status' = [status EXCEPT ![code[r]] = Reopened(@)]
    /\ Reply(r, "expired")
    /\ UNCHANGED <<clock, orgs, owner, expiresAt, nodes, args, row>>

NewNode(r) == [id |-> r, publicKey |-> key[r], orgId |-> rowOrg[r],
               code |-> code[r], checkedAt |-> checkedAt[r]]

(* Mutant: no unique index on public_key.                                  *)
InsertableNoIndex(r) == rowOrg[r] \in orgs

(* Mutant: no foreign key on organization.                                 *)
InsertableNoForeignKey(r) == ~KeyEnrolled(key[r])

(* The foreign key on organization and the unique index on public_key.     *)
Insertable(r) == rowOrg[r] \in orgs /\ ~KeyEnrolled(key[r])

InsertNode(r) ==
    /\ pc[r] = "insert"
    /\ Insertable(r)
    /\ nodes' = nodes \cup {NewNode(r)}
    /\ Goto(r, "orgname")
    /\ UNCHANGED <<clock, orgs, status, owner, expiresAt, args, row>>

(* A unique violation is reported as such, and is raised before the foreign*)
(* key is looked at; any other failure is internal.  Neither gives the code*)
(* back.                                                                   *)
InsertFails(r) ==
    /\ pc[r] = "insert"
    /\ ~Insertable(r)
    /\ Reply(r, IF KeyEnrolled(key[r]) THEN "already_enrolled" ELSE "internal")
    /\ UNCHANGED <<clock, db, args, row>>

(* The name of the organization is read last, "" if it is gone.            *)
Respond(r) ==
    /\ pc[r] = "orgname"
    /\ Reply(r, "ok")
    /\ UNCHANGED <<clock, db, args, row>>

(* A statement fails, its reply is lost, or the process dies: at an await, *)
(* with the statements before it done.                                     *)
Abort(r) ==
    /\ pc[r] \notin {"idle", "done"}
    /\ Reply(r, "internal")
    /\ UNCHANGED <<clock, db, args, row>>

(***************************************************************************)
(* The environment                                                         *)
(***************************************************************************)

(* Deleting an organization (Better Auth) cascades to its codes and nodes. *)
DeleteOrg(o) ==
    /\ o \in orgs
    /\ orgs' = orgs \ {o}
    /\ status' = [c \in Codes |-> IF owner[c] = o THEN "gone" ELSE status[c]]
    /\ nodes' = {n \in nodes : n.orgId # o}
    /\ UNCHANGED <<clock, owner, expiresAt, pc, args, row, answer>>

Tick ==
    /\ clock < MaxTime
    /\ clock' = clock + 1
    /\ UNCHANGED <<db, pc, args, row, answer>>

(* What the event loop runs for r, once the call has arrived.              *)
Step(r) ==
    \/ PreCheck(r) \/ Claim(r) \/ ClaimNothing(r) \/ Diagnose(r)
    \/ CheckExpiry(r) \/ Release(r) \/ InsertNode(r) \/ InsertFails(r)
    \/ Respond(r)

Next ==
    \/ \E c \in Codes, o \in Orgs : Mint(c, o)
    \/ \E r \in Reqs : Arrive(r) \/ Step(r) \/ Abort(r)
    \/ \E o \in Orgs : DeleteOrg(o)
    \/ Tick

Spec == Init /\ [][Next]_vars
-----------------------------------------------------------------------------
(***************************************************************************)
(* Properties                                                              *)
(***************************************************************************)

(* Every column and every local of a request holds a value of its type.    *)
TypeOK ==
    /\ clock \in Nat
    /\ orgs \subseteq Orgs
    /\ status \in [Codes -> CodeStatus]
    /\ owner \in [Codes -> Orgs \cup {NoOrg}]
    /\ expiresAt \in [Codes -> Nat]
    /\ nodes \subseteq NodeRow
    /\ pc \in [Reqs -> Await]
    /\ code \in [Reqs -> Codes]
    /\ key \in [Reqs -> Keys]
    /\ rowOrg \in [Reqs -> Orgs \cup {NoOrg}]
    /\ rowExpiry \in [Reqs -> Nat]
    /\ checkedAt \in [Reqs -> Nat]
    /\ answer \in [Reqs -> Answer]
    /\ before \in [Reqs -> SUBSET Reqs]

(* "Two agents racing one code produce exactly one winner" (pairing.ts:41):*)
(* no two node rows were enrolled with the same code, whatever requests    *)
(* claim, release, fail and die in between.                                *)
OneNodePerCode == \A m, n \in nodes : m.code = n.code => m = n

(* "One machine must not hold identities in two tenants" (nodes.ts:37): a  *)
(* public key has one node row in all organizations, also when requests    *)
(* with one key pass the check before the redeem together.                 *)
OneNodePerKey == \A m, n \in nodes : m.publicKey = n.publicKey => m = n

(* A node joins the organization that minted the code it presented, with a *)
(* well-formed key, and the code had not expired when it was looked at;    *)
(* its code stays used, so a release never reopens a code that worked.     *)
EnrolledByItsCode ==
    \A n \in nodes :
        /\ n.publicKey \in ValidKeys
        /\ n.orgId \in orgs
        /\ owner[n.code] = n.orgId
        /\ n.checkedAt <= expiresAt[n.code]
        /\ status[n.code] = "used"

(* A used code is never lost without a reason: it enrolled a node, a       *)
(* request is about to decide on it, or the request that claimed it lost   *)
(* the race for its key or failed with an internal error.  In particular   *)
(* every expired code that was looked at is reopened (pairing.ts:59-60).   *)
CodeIsAccountedFor ==
    \A c \in Codes : status[c] = "used" =>
        \/ \E n \in nodes : n.code = c
        \/ \E r \in Reqs :
              \/ Holds(r, c)
              \/ /\ code[r] = c
                 /\ rowOrg[r] # NoOrg
                 /\ answer[r] \in {"already_enrolled", "internal"}

(* "Re-running enroll on an already-enrolled machine doesn't burn a single-*)
(* use code" (nodes.ts:36-37): a request that arrived when its key was     *)
(* enrolled claims no code as long as that node exists.                    *)
ReRunKeepsCode ==
    \A r \in Reqs : rowOrg[r] # NoOrg => \A n \in nodes : n.id \notin before[r]

(* Enrollment implements the atomic one (nodes.ts:29-66): a claimed code is *)
(* still redeemable until its request inserts the node, and spent with it. *)
Ledger == [c \in Codes |->
    CASE status[c] = "open" -> "redeemable"
      [] status[c] = "used" /\ (\E r \in Reqs : Holds(r, c)) -> "redeemable"
      [] status[c] = "used" /\ ~(\E r \in Reqs : Holds(r, c)) -> "spent"
      [] OTHER -> status[c]]

Fleet == {[publicKey |-> n.publicKey, orgId |-> n.orgId, code |-> n.code] : n \in nodes}

Atomic == INSTANCE AtomicEnrollment
    WITH ledger <- Ledger, issuer <- owner, fleet <- Fleet

(* Every step of enrollment is one step of the atomic specification or none:*)
(* the claim, the release and the checks are invisible, the insert is the  *)
(* enrollment (pairing.ts:45-65, nodes.ts:44-61).                          *)
RefinesAtomic == Atomic!Spec
=============================================================================
