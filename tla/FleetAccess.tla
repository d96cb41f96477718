---------------------------- MODULE FleetAccess ----------------------------
(***************************************************************************)
(* Which organization a browser request works for, and what it then sees:  *)
(* the sign-up hook (auth/auth.ts), requireSession and its self-heal       *)
(* (auth/session.ts), the organization routes forwarded to Better Auth     *)
(* (server.ts), the FleetService handlers (rpc/fleet-service.ts) and       *)
(* withOrg over pooled connections (packages/db/src/client.ts) under the   *)
(* row-level security of migration 0001.                                   *)
(*                                                                         *)
(* Requests of one or several users run concurrently; each await lets the  *)
(* others in.  The tenant tables are one set of rows, of which only the    *)
(* organization matters.  A user has one session.  Each organization has   *)
(* one member, the user it was created for.                                *)
(***************************************************************************)
EXTENDS Naturals, FiniteSets

CONSTANTS
    Users, NoUser,
    Orgs, NoOrg,  \* ids that generateId may return
    Conns, NoConn,  \* the pool of `db`
    Requests,
    Faults,       \* subset of {"create", "query"}: what may fail
    MaxDeletes    \* bound on deleted organizations

ASSUME AccessAssumption ==
    /\ NoUser \notin Users /\ NoOrg \notin Orgs /\ NoConn \notin Conns
    /\ Faults \subseteq {"create", "query"}
    /\ MaxDeletes \in Nat

VARIABLES
    account,  \* per user: "none", "hook" while sign-up runs its hook, "ready"
    owner,    \* per organization id: the user it was created for
    orgs,     \* the organizations that exist
    active,   \* per user: activeOrganizationId of the session
    deletes,
    rows,     \* organizations that have rows in nodes, devices, pairing_codes
    setting,  \* per connection: app.current_org_id
    user, op, org, conn, pc,  \* per request
    saw,      \* per request: organizations it was shown, or whose rows
    bareSaw,  \* the same for queries outside withOrg
    personal, \* history: the organizations of ensurePersonalOrganization
    raced     \* history: users for whom two of its calls were under way

tables   == <<owner, orgs, active, deletes, rows, personal>>
requests == <<user, op, org, conn, pc, saw>>
vars     == <<account, tables, setting, requests, bareSaw, raced>>

Init ==
    /\ account = [u \in Users |-> "none"]
    /\ owner = [o \in Orgs |-> NoUser]
    /\ orgs = {} /\ deletes = 0 /\ rows = {} /\ personal = {}
    /\ active = [u \in Users |-> NoOrg]
    /\ setting = [c \in Conns |-> NoOrg]
    /\ user = [r \in Requests |-> NoUser]
    /\ op = [r \in Requests |-> "list"]
    /\ org = [r \in Requests |-> NoOrg]
    /\ conn = [r \in Requests |-> NoConn]
    /\ pc = [r \in Requests |-> "idle"]
    /\ saw = [r \in Requests |-> {}]
    /\ bareSaw = {}
    /\ raced = {}

(* listNodes, getNode, createPairingCode and GET /api/me                   *)
Ops == {"list", "get", "mint", "me"}

OrgsOf(u) == {o \in orgs : owner[o] = u}

(***************************************************************************)
(* Sign-up, and the organization it creates                                *)
(***************************************************************************)
SignUp(u) ==
    /\ account[u] = "none"
    /\ account' = [account EXCEPT ![u] = "hook"]
    /\ UNCHANGED <<tables, setting, requests, bareSaw, raced>>

(* createOrganization: an id and a slug nobody has.                        *)
Create(u, o) ==
    /\ owner[o] = NoUser
    /\ owner' = [owner EXCEPT ![o] = u]
    /\ orgs' = orgs \cup {o}

(* ensurePersonalOrganization passes no headers, so no session is touched. *)
CreatePersonal(u, o) ==
    /\ Create(u, o)
    /\ personal' = personal \cup {o}
    /\ UNCHANGED <<active, deletes, rows>>

HookCreates(u) ==
    /\ account[u] = "hook"
    /\ \E o \in Orgs : CreatePersonal(u, o)
    /\ account' = [account EXCEPT ![u] = "ready"]
    /\ UNCHANGED <<setting, requests, bareSaw, raced>>

(* A failing hook is logged; the user exists already.                      *)
HookFails(u) ==
    /\ account[u] = "hook"
    /\ "create" \in Faults
    /\ account' = [account EXCEPT ![u] = "ready"]
    /\ UNCHANGED <<tables, setting, requests, bareSaw, raced>>

(***************************************************************************)
(* The organization() plugin, served under /api/auth/organization          *)
(***************************************************************************)

(* POST create: any signed-in user, any number of times; the new one       *)
(* becomes the session's.                                                  *)
CreateOrganization(u) ==
    /\ account[u] # "none"
    /\ \E o \in Orgs : Create(u, o) /\ active' = [active EXCEPT ![u] = o]
    /\ UNCHANGED <<account, deletes, rows, personal, setting, requests, bareSaw, raced>>

(* POST set-active, to none too, as in the session of a new sign-in.       *)
SetActive(u) ==
    /\ \E o \in OrgsOf(u) \cup {NoOrg} : active' = [active EXCEPT ![u] = o]
    /\ UNCHANGED <<account, owner, orgs, deletes, rows, personal, setting, requests, bareSaw, raced>>

(***************************************************************************)
(* requireSession                                                          *)
(***************************************************************************)

(* getSession; a session exists from the moment the user does.  With an    *)
(* active organization nothing is looked up.                               *)
Arrive(r) ==
    /\ pc[r] \in {"idle", "done"}
    /\ \E u \in Users, o \in Ops :
          /\ account[u] # "none"
          /\ user' = [user EXCEPT ![r] = u]
          /\ op' = [op EXCEPT ![r] = o]
          /\ org' = [org EXCEPT ![r] = active[u]]
          /\ pc' = [pc EXCEPT ![r] = IF active[u] = NoOrg THEN "lookup" ELSE "query"]
    /\ saw' = [saw EXCEPT ![r] = {}]
    /\ UNCHANGED <<account, tables, setting, conn, bareSaw, raced>>

(* An error is the answer; nothing of the request is left.                 *)
Refuse(r) ==
    /\ pc' = [pc EXCEPT ![r] = "idle"]
    /\ user' = [user EXCEPT ![r] = NoUser]
    /\ op' = [op EXCEPT ![r] = "list"]
    /\ org' = [org EXCEPT ![r] = NoOrg]
    /\ saw' = [saw EXCEPT ![r] = {}]

(* A call of ensurePersonalOrganization for u is under way.                *)
Creating(u) == account[u] = "hook" \/ \E q \in Requests : pc[q] = "heal" /\ user[q] = u

(* Mutant: the repair does not wait for the lookup's answer.               *)
LacksOrgAssumed(r) == TRUE

LacksOrg(r) == OrgsOf(user[r]) = {}

(* (await listOrganizations())[0]: the list has no order.                  *)
Lookup(r) ==
    /\ pc[r] = "lookup"
    /\ ~LacksOrg(r)
    /\ \E o \in OrgsOf(user[r]) : org' = [org EXCEPT ![r] = o]
    /\ pc' = [pc EXCEPT ![r] = "query"]
    /\ UNCHANGED <<account, tables, setting, user, op, conn, saw, bareSaw, raced>>

LookupEmpty(r) ==
    /\ pc[r] = "lookup"
    /\ LacksOrg(r)
    /\ pc' = [pc EXCEPT ![r] = "heal"]
    /\ raced' = IF Creating(user[r]) THEN raced \cup {user[r]} ELSE raced
    /\ UNCHANGED <<account, tables, setting, user, op, org, conn, saw, bareSaw>>

(* listOrganizations fails, here or when /api/me asks again: internal.     *)
ListFails(r) ==
    /\ pc[r] = "lookup" \/ (pc[r] = "query" /\ op[r] = "me")
    /\ "query" \in Faults
    /\ Refuse(r)
    /\ UNCHANGED <<account, tables, setting, conn, bareSaw, raced>>

(* Mutant: a request without an organization is answered as an empty fleet.*)
SelfHealNot(r) ==
    /\ pc[r] = "heal"
    /\ pc' = [pc EXCEPT ![r] = "done"]
    /\ UNCHANGED <<account, tables, setting, user, op, org, conn, saw, bareSaw, raced>>

SelfHeal(r) ==
    /\ pc[r] = "heal"
    /\ \E o \in Orgs : CreatePersonal(user[r], o) /\ org' = [org EXCEPT ![r] = o]
    /\ pc' = [pc EXCEPT ![r] = "query"]
    /\ UNCHANGED <<account, setting, user, op, conn, saw, bareSaw, raced>>

(* The repair failed: 403, which FleetService turns into unauthenticated.  *)
SelfHealFails(r) ==
    /\ pc[r] = "heal"
    /\ "create" \in Faults \/ \A o \in Orgs : owner[o] # NoUser
    /\ Refuse(r)
    /\ UNCHANGED <<account, tables, setting, conn, bareSaw, raced>>

(***************************************************************************)
(* withOrg                                                                 *)
(***************************************************************************)
Free(c) == \A r \in Requests : conn[r] # c

(* begin, and set_config('app.current_org_id', orgId, true)                *)
Begin(r) ==
    /\ pc[r] = "query" /\ op[r] # "me"
    /\ \E c \in Conns :
          /\ Free(c)
          /\ conn' = [conn EXCEPT ![r] = c]
          /\ setting' = [setting EXCEPT ![c] = org[r]]
    /\ pc' = [pc EXCEPT ![r] = "tx"]
    /\ UNCHANGED <<account, tables, user, op, org, saw, bareSaw, raced>>

(* Mutant: set_config(..., false) outlives the transaction.                *)
AfterTransactionKept(r) == setting

(* The setting is local to the transaction, however that ends.             *)
AfterTransaction(r) == [setting EXCEPT ![conn[r]] = NoOrg]

End(r) ==
    /\ setting' = AfterTransaction(r)
    /\ conn' = [conn EXCEPT ![r] = NoConn]
    /\ pc' = [pc EXCEPT ![r] = "done"]

(* Mutant: the queries run on ownerDb.                                     *)
VisibleToOwner(c) == rows

(* The policies: org_id = current_setting('app.current_org_id', true)      *)
Visible(c) == {o \in rows : o = setting[c]}

List(r) ==
    /\ pc[r] = "tx" /\ op[r] = "list"
    /\ saw' = [saw EXCEPT ![r] = Visible(conn[r])]
    /\ End(r)
    /\ UNCHANGED <<account, tables, user, op, org, bareSaw, raced>>

(* The node asked for, of any organization: of another one than that of    *)
(* the transaction, or of none, it is the same NotFound.                   *)
Get(r) ==
    /\ pc[r] = "tx" /\ op[r] = "get"
    /\ \E o \in Orgs : saw' = [saw EXCEPT ![r] = Visible(conn[r]) \cap {o}]
    /\ End(r)
    /\ UNCHANGED <<account, tables, user, op, org, bareSaw, raced>>

(* ~isUuid(req.nodeId): NotFound, without a query.                         *)
GetMalformed(r) ==
    /\ pc[r] = "query" /\ op[r] = "get"
    /\ pc' = [pc EXCEPT ![r] = "done"]
    /\ UNCHANGED <<account, tables, setting, user, op, org, conn, saw, bareSaw, raced>>

(* /api/me lists the organizations again and names the one found before.   *)
Me(r) ==
    /\ pc[r] = "query" /\ op[r] = "me"
    /\ saw' = [saw EXCEPT ![r] = OrgsOf(user[r]) \cap {org[r]}]
    /\ pc' = [pc EXCEPT ![r] = "done"]
    /\ UNCHANGED <<account, tables, setting, user, op, org, conn, bareSaw, raced>>

(* Mutant: pairing_codes has no foreign key.                               *)
WriteUnchecked(r) ==
    /\ pc[r] = "tx" /\ op[r] = "mint"
    /\ rows' = rows \cup {org[r]}
    /\ End(r)
    /\ UNCHANGED <<account, owner, orgs, active, deletes, personal, user, op, org, saw, bareSaw, raced>>

(* mintPairingCode (and, for a node's stream, the rows of its devices):    *)
(* the policy's WITH CHECK and the foreign key admit it.                   *)
Write(r) ==
    /\ pc[r] = "tx" /\ op[r] = "mint"
    /\ org[r] = setting[conn[r]] /\ org[r] \in orgs
    /\ rows' = rows \cup {org[r]}
    /\ End(r)
    /\ UNCHANGED <<account, owner, orgs, active, deletes, personal, user, op, org, saw, bareSaw, raced>>

(* The organization is gone, or the query fails: rollback.                 *)
Rollback(r) ==
    /\ pc[r] = "tx"
    /\ "query" \in Faults \/ (op[r] = "mint" /\ org[r] \notin orgs)
    /\ End(r)
    /\ UNCHANGED <<account, tables, user, op, org, saw, bareSaw, raced>>

(* A query on `db` outside withOrg gets any connection that is free.       *)
BareQuery ==
    /\ \E c \in Conns : Free(c) /\ bareSaw' = bareSaw \cup Visible(c)
    /\ UNCHANGED <<account, tables, setting, requests, raced>>

(* Rows go with their organization (on delete cascade).  The session that  *)
(* deletes it forgets it; another one keeps the id of one that is gone.    *)
DeleteOrg ==
    /\ deletes < MaxDeletes
    /\ deletes' = deletes + 1
    /\ \E o \in orgs :
          /\ orgs' = orgs \ {o} /\ rows' = rows \ {o}
          /\ active' \in {active, [u \in Users |-> IF active[u] = o THEN NoOrg ELSE active[u]]}
    /\ UNCHANGED <<account, owner, personal, setting, requests, bareSaw, raced>>

Serve(r) ==
    \/ Lookup(r) \/ LookupEmpty(r) \/ ListFails(r) \/ SelfHeal(r) \/ SelfHealFails(r)
    \/ Begin(r) \/ List(r) \/ Get(r) \/ Write(r) \/ Rollback(r)
    \/ GetMalformed(r) \/ Me(r)

Next ==
    \/ \E u \in Users :
          SignUp(u) \/ HookCreates(u) \/ HookFails(u) \/ CreateOrganization(u) \/ SetActive(u)
    \/ \E r \in Requests : Arrive(r) \/ Serve(r)
    \/ BareQuery \/ DeleteOrg

Spec == Init /\ [][Next]_vars

(***************************************************************************)
(* Properties                                                              *)
(***************************************************************************)

(* Types of the tables, the pool and the requests' locals.                 *)
TypeOK ==
    /\ account \in [Users -> {"none", "hook", "ready"}]
    /\ owner \in [Orgs -> Users \cup {NoUser}]
    /\ orgs \subseteq Orgs /\ rows \subseteq orgs /\ deletes \in 0..MaxDeletes
    /\ active \in [Users -> Orgs \cup {NoOrg}]
    /\ setting \in [Conns -> Orgs \cup {NoOrg}]
    /\ user \in [Requests -> Users \cup {NoUser}]
    /\ op \in [Requests -> Ops]
    /\ org \in [Requests -> Orgs \cup {NoOrg}]
    /\ conn \in [Requests -> Conns \cup {NoConn}]
    /\ pc \in [Requests -> {"idle", "lookup", "heal", "query", "tx", "done"}]
    /\ saw \in [Requests -> SUBSET Orgs]
    /\ bareSaw \subseteq Orgs
    /\ personal \subseteq Orgs /\ raced \subseteq Users

(* Whoever used the connection before, and however that ended, a request   *)
(* is only shown rows of organizations that were created for its user      *)
(* (requireSession, withOrg and the policies together).                    *)
OnlyOwnRows ==
    \A r \in Requests : \A o \in saw[r] : owner[o] = user[r]

(* A query on the application's connection that is not inside withOrg sees *)
(* no rows, also on a connection withOrg has used before.                  *)
BareQuerySeesNothing == bareSaw = {}

(* ensurePersonalOrganization makes one organization per user: a user has  *)
(* two of its only if two calls overlapped, the hook and a repair, or the  *)
(* repairs of two requests that both found none (selfHealOrganization does *)
(* not look again before it creates).  Organizations the user creates over *)
(* the plugin's route, or activates, never bring about another one.        *)
SecondOrgNeedsRace ==
    \A u \in Users : Cardinality(OrgsOf(u) \cap personal) > 1 => u \in raced

(* "A user is therefore never permanently org-less": whatever became of    *)
(* the hook, and whichever of several requests repaired it, a request that *)
(* is not refused leaves its user with an organization, the one it worked  *)
(* for, which /api/me can name; unless somebody deletes one                *)
(* (requireSession).                                                       *)
ServedMeansOrg ==
    \A r \in Requests :
        (pc[r] = "done" /\ deletes = 0) =>
            /\ org[r] \in OrgsOf(user[r])
            /\ op[r] = "me" => saw[r] = {org[r]}
=============================================================================
