-------------------------- MODULE FleetAccessProofs --------------------------
(***************************************************************************)
(* Proofs about FleetAccess, for any number of users, organizations,       *)
(* pooled connections and concurrent requests, and any faults.             *)
(***************************************************************************)
EXTENDS FleetAccess, FiniteSetTheorems, TLAPS

(* A request has the session of a user who exists, from its arrival on.    *)
UserInv ==
    \A r \in Requests :
        IF pc[r] = "idle" THEN saw[r] = {} /\ org[r] = NoOrg
        ELSE user[r] \in Users /\ account[user[r]] # "none"

(* The organization a request works for was created for its user, and is   *)
(* still there if nothing was deleted.                                     *)
OrgInv ==
    \A r \in Requests :
        /\ org[r] # NoOrg => owner[org[r]] = user[r] /\ (deletes = 0 => org[r] \in orgs)
        /\ pc[r] \in {"query", "tx", "done"} => org[r] # NoOrg

(* The same for the active organization of a session.                      *)
ActiveInv ==
    \A u \in Users : active[u] # NoOrg =>
        owner[active[u]] = u /\ (deletes = 0 => active[u] \in orgs)

(* Nobody's organization is one of no user, or of one who does not exist.  *)
OwnerInv ==
    /\ \A o \in orgs : owner[o] \in Users /\ account[owner[o]] # "none"
    /\ \A o \in personal : owner[o] # NoUser

(* A connection is lent to one transaction, and carries its setting then   *)
(* and none at any other time.                                             *)
PoolInv ==
    /\ \A r \in Requests :
          IF pc[r] = "tx" THEN conn[r] \in Conns /\ setting[conn[r]] = org[r] /\ op[r] # "me"
          ELSE conn[r] = NoConn
    /\ \A q, r \in Requests : conn[q] = conn[r] /\ conn[q] # NoConn => q = r
    /\ \A c \in Conns : Free(c) => setting[c] = NoOrg

(* What /api/me answered.                                                  *)
MeInv ==
    \A r \in Requests :
        pc[r] = "done" /\ op[r] = "me" /\ deletes = 0 => saw[r] = {org[r]}

(* As long as no two calls of ensurePersonalOrganization for u overlapped: *)
(* there is one at a time, and only while u has no organization of it.     *)
PersonalOf(u) == OrgsOf(u) \cap personal

OneAtATime(u) ==
    /\ \A o, p \in PersonalOf(u) : o = p
    /\ Creating(u) => PersonalOf(u) = {}
    /\ \A q \in Requests : pc[q] = "heal" /\ user[q] = u =>
          /\ account[u] # "hook"
          /\ \A r \in Requests : pc[r] = "heal" /\ user[r] = u => q = r

RaceInv == \A u \in Users : u \notin raced => OneAtATime(u)

IInv ==
    /\ TypeOK
    /\ UserInv
    /\ OrgInv
    /\ ActiveInv
    /\ OwnerInv
    /\ PoolInv
    /\ OnlyOwnRows
    /\ BareQuerySeesNothing
    /\ MeInv
    /\ RaceInv

(* Types are kept: rows only for organizations that exist, among others    *)
(* (the foreign key and its cascade).                                      *)
LEMMA TypeStep == TypeOK /\ UserInv /\ [Next]_vars => TypeOK'
<1> SUFFICES ASSUME TypeOK, UserInv, [Next]_vars PROVE TypeOK'
  OBVIOUS
<1> USE AccessAssumption DEF TypeOK, Ops, tables, requests
<1>1. ASSUME NEW u \in Users, SignUp(u) PROVE TypeOK'
  BY <1>1 DEF SignUp
<1>2. ASSUME NEW u \in Users, HookCreates(u) PROVE TypeOK'
  BY <1>2 DEF HookCreates, CreatePersonal, Create
<1>3. ASSUME NEW u \in Users, HookFails(u) PROVE TypeOK'
  BY <1>3 DEF HookFails
<1>4. ASSUME NEW r \in Requests, Arrive(r) PROVE TypeOK'
  BY <1>4 DEF Arrive
<1>5. ASSUME NEW r \in Requests, Lookup(r) PROVE TypeOK'
  BY <1>5 DEF Lookup, OrgsOf
<1>6. ASSUME NEW r \in Requests, LookupEmpty(r) PROVE TypeOK'
  BY <1>6 DEF LookupEmpty, UserInv
<1>7. ASSUME NEW r \in Requests, SelfHeal(r) PROVE TypeOK'
  BY <1>7 DEF SelfHeal, CreatePersonal, Create
<1>8. ASSUME NEW r \in Requests, SelfHealFails(r) PROVE TypeOK'
  BY <1>8 DEF SelfHealFails, Refuse
<1>9. ASSUME NEW r \in Requests, Begin(r) PROVE TypeOK'
  BY <1>9 DEF Begin
<1>10. ASSUME NEW r \in Requests, List(r) PROVE TypeOK'
  BY <1>10 DEF List, End, AfterTransaction, Visible
<1>11. ASSUME NEW r \in Requests, Get(r) PROVE TypeOK'
  <2>1. PICK o \in Orgs : saw' = [saw EXCEPT ![r] = Visible(conn[r]) \cap {o}]
    BY <1>11 DEF Get
  <2>2. Visible(conn[r]) \cap {o} \in SUBSET Orgs
    BY DEF Visible
  <2>3. saw' \in [Requests -> SUBSET Orgs]
    BY <2>1, <2>2
  <2> QED BY <1>11, <2>3 DEF Get, End, AfterTransaction
<1>12. ASSUME NEW r \in Requests, Write(r) PROVE TypeOK'
  BY <1>12 DEF Write, End, AfterTransaction
<1>13. ASSUME NEW r \in Requests, Rollback(r) PROVE TypeOK'
  BY <1>13 DEF Rollback, End, AfterTransaction
<1>14. ASSUME NEW r \in Requests, GetMalformed(r) PROVE TypeOK'
  BY <1>14 DEF GetMalformed
<1>15. ASSUME NEW r \in Requests, Me(r) PROVE TypeOK'
  <2>1. OrgsOf(user[r]) \cap {org[r]} \in SUBSET Orgs
    BY DEF OrgsOf
  <2> QED BY <1>15, <2>1 DEF Me
<1>16. CASE BareQuery
  BY <1>16 DEF BareQuery, Visible
<1>17. CASE DeleteOrg
  BY <1>17 DEF DeleteOrg
<1>18. CASE UNCHANGED vars
  BY <1>18 DEF vars
<1>19. ASSUME NEW u \in Users, CreateOrganization(u) PROVE TypeOK'
  BY <1>19 DEF CreateOrganization, Create
<1>20. ASSUME NEW u \in Users, SetActive(u) PROVE TypeOK'
  BY <1>20 DEF SetActive, OrgsOf
<1>21. ASSUME NEW r \in Requests, ListFails(r) PROVE TypeOK'
  BY <1>21 DEF ListFails, Refuse
<1> QED
  BY <1>1, <1>2, <1>3, <1>4, <1>5, <1>6, <1>7, <1>8, <1>9, <1>10, <1>11, <1>12, <1>13,
     <1>14, <1>15, <1>16, <1>17, <1>18, <1>19, <1>20, <1>21
     DEF Next, Serve

(* Requests keep the user and the organization they were given, and an id  *)
(* that has an owner is not handed out again.                              *)
LEMMA OwnerStep == ASSUME IInv, TypeOK', [Next]_vars PROVE UserInv' /\ OrgInv' /\ ActiveInv' /\ OwnerInv'
<1> USE AccessAssumption DEF IInv, TypeOK, tables, requests, UserInv, OrgInv, ActiveInv, OwnerInv
<1>1. ASSUME NEW u \in Users, SignUp(u) PROVE UserInv' /\ OrgInv' /\ ActiveInv' /\ OwnerInv'
  BY <1>1 DEF SignUp
<1>2. ASSUME NEW u \in Users, HookCreates(u) PROVE UserInv' /\ OrgInv' /\ ActiveInv' /\ OwnerInv'
  BY <1>2 DEF HookCreates, CreatePersonal, Create
<1>3. ASSUME NEW u \in Users, HookFails(u) PROVE UserInv' /\ OrgInv' /\ ActiveInv' /\ OwnerInv'
  BY <1>3 DEF HookFails
<1>4. ASSUME NEW r \in Requests, Arrive(r) PROVE UserInv' /\ OrgInv' /\ ActiveInv' /\ OwnerInv'
  BY <1>4 DEF Arrive
<1>5. ASSUME NEW r \in Requests, Lookup(r) PROVE UserInv' /\ OrgInv' /\ ActiveInv' /\ OwnerInv'
  BY <1>5 DEF Lookup, OrgsOf
<1>6. ASSUME NEW r \in Requests, LookupEmpty(r) PROVE UserInv' /\ OrgInv' /\ ActiveInv' /\ OwnerInv'
  BY <1>6 DEF LookupEmpty
<1>7. ASSUME NEW r \in Requests, SelfHeal(r) PROVE UserInv' /\ OrgInv' /\ ActiveInv' /\ OwnerInv'
  BY <1>7 DEF SelfHeal, CreatePersonal, Create
<1>8. ASSUME NEW r \in Requests, SelfHealFails(r) PROVE UserInv' /\ OrgInv' /\ ActiveInv' /\ OwnerInv'
  BY <1>8 DEF SelfHealFails, Refuse
<1>9. ASSUME NEW r \in Requests, Begin(r) PROVE UserInv' /\ OrgInv' /\ ActiveInv' /\ OwnerInv'
  BY <1>9 DEF Begin
<1>10. ASSUME NEW r \in Requests, List(r) PROVE UserInv' /\ OrgInv' /\ ActiveInv' /\ OwnerInv'
  BY <1>10 DEF List, End
<1>11. ASSUME NEW r \in Requests, Get(r) PROVE UserInv' /\ OrgInv' /\ ActiveInv' /\ OwnerInv'
  BY <1>11 DEF Get, End
<1>12. ASSUME NEW r \in Requests, Write(r) PROVE UserInv' /\ OrgInv' /\ ActiveInv' /\ OwnerInv'
  BY <1>12 DEF Write, End
<1>13. ASSUME NEW r \in Requests, Rollback(r) PROVE UserInv' /\ OrgInv' /\ ActiveInv' /\ OwnerInv'
  BY <1>13 DEF Rollback, End
<1>14. ASSUME NEW r \in Requests, GetMalformed(r) PROVE UserInv' /\ OrgInv' /\ ActiveInv' /\ OwnerInv'
  BY <1>14 DEF GetMalformed
<1>15. ASSUME NEW r \in Requests, Me(r) PROVE UserInv' /\ OrgInv' /\ ActiveInv' /\ OwnerInv'
  BY <1>15 DEF Me
<1>16. CASE BareQuery
  BY <1>16 DEF BareQuery
<1>17. CASE DeleteOrg
  BY <1>17 DEF DeleteOrg
<1>18. CASE UNCHANGED vars
  BY <1>18 DEF vars
<1>19. ASSUME NEW u \in Users, CreateOrganization(u) PROVE UserInv' /\ OrgInv' /\ ActiveInv' /\ OwnerInv'
  BY <1>19 DEF CreateOrganization, Create
<1>20. ASSUME NEW u \in Users, SetActive(u) PROVE UserInv' /\ OrgInv' /\ ActiveInv' /\ OwnerInv'
  BY <1>20 DEF SetActive, OrgsOf
<1>21. ASSUME NEW r \in Requests, ListFails(r) PROVE UserInv' /\ OrgInv' /\ ActiveInv' /\ OwnerInv'
  BY <1>21 DEF ListFails, Refuse
<1> QED
  BY <1>1, <1>2, <1>3, <1>4, <1>5, <1>6, <1>7, <1>8, <1>9, <1>10, <1>11, <1>12, <1>13,
     <1>14, <1>15, <1>16, <1>17, <1>18, <1>19, <1>20, <1>21
     DEF Next, Serve

(* A connection comes back to the pool without its setting, however the    *)
(* transaction ended, so that the next one starts from none.               *)
LEMMA PoolStep == ASSUME IInv, TypeOK', [Next]_vars PROVE PoolInv'
<1> USE AccessAssumption DEF IInv, TypeOK, tables, requests, PoolInv, Free, OrgInv
<1>1. ASSUME NEW u \in Users, SignUp(u) PROVE PoolInv'
  BY <1>1 DEF SignUp
<1>2. ASSUME NEW u \in Users, HookCreates(u) PROVE PoolInv'
  BY <1>2 DEF HookCreates
<1>3. ASSUME NEW u \in Users, HookFails(u) PROVE PoolInv'
  BY <1>3 DEF HookFails
<1>4. ASSUME NEW r \in Requests, Arrive(r) PROVE PoolInv'
  BY <1>4 DEF Arrive
<1>5. ASSUME NEW r \in Requests, Lookup(r) PROVE PoolInv'
  BY <1>5 DEF Lookup
<1>6. ASSUME NEW r \in Requests, LookupEmpty(r) PROVE PoolInv'
  BY <1>6 DEF LookupEmpty
<1>7. ASSUME NEW r \in Requests, SelfHeal(r) PROVE PoolInv'
  BY <1>7 DEF SelfHeal
<1>8. ASSUME NEW r \in Requests, SelfHealFails(r) PROVE PoolInv'
  BY <1>8 DEF SelfHealFails, Refuse
<1>9. ASSUME NEW r \in Requests, Begin(r) PROVE PoolInv'
  BY <1>9 DEF Begin
<1>10. ASSUME NEW r \in Requests, List(r) PROVE PoolInv'
  BY <1>10 DEF List, End, AfterTransaction
<1>11. ASSUME NEW r \in Requests, Get(r) PROVE PoolInv'
  BY <1>11 DEF Get, End, AfterTransaction
<1>12. ASSUME NEW r \in Requests, Write(r) PROVE PoolInv'
  BY <1>12 DEF Write, End, AfterTransaction
<1>13. ASSUME NEW r \in Requests, Rollback(r) PROVE PoolInv'
  BY <1>13 DEF Rollback, End, AfterTransaction
<1>14. ASSUME NEW r \in Requests, GetMalformed(r) PROVE PoolInv'
  BY <1>14 DEF GetMalformed
<1>15. ASSUME NEW r \in Requests, Me(r) PROVE PoolInv'
  BY <1>15 DEF Me
<1>16. CASE BareQuery
  BY <1>16 DEF BareQuery
<1>17. CASE DeleteOrg
  BY <1>17 DEF DeleteOrg
<1>18. CASE UNCHANGED vars
  BY <1>18 DEF vars
<1>19. ASSUME NEW u \in Users, CreateOrganization(u) PROVE PoolInv'
  BY <1>19 DEF CreateOrganization
<1>20. ASSUME NEW u \in Users, SetActive(u) PROVE PoolInv'
  BY <1>20 DEF SetActive
<1>21. ASSUME NEW r \in Requests, ListFails(r) PROVE PoolInv'
  BY <1>21 DEF ListFails, Refuse
<1> QED
  BY <1>1, <1>2, <1>3, <1>4, <1>5, <1>6, <1>7, <1>8, <1>9, <1>10, <1>11, <1>12, <1>13,
     <1>14, <1>15, <1>16, <1>17, <1>18, <1>19, <1>20, <1>21
     DEF Next, Serve

(* What a request is shown is of its own organization: the setting of its  *)
(* connection is the organization found for its user.                      *)
LEMMA SawStep == ASSUME IInv, TypeOK', [Next]_vars PROVE OnlyOwnRows' /\ BareQuerySeesNothing' /\ MeInv'
<1> USE AccessAssumption DEF IInv, TypeOK, tables, requests, OnlyOwnRows, BareQuerySeesNothing, MeInv, UserInv, OrgInv,
        ActiveInv, PoolInv
<1>1. ASSUME NEW u \in Users, SignUp(u) PROVE OnlyOwnRows' /\ BareQuerySeesNothing' /\ MeInv'
  BY <1>1 DEF SignUp
<1>2. ASSUME NEW u \in Users, HookCreates(u) PROVE OnlyOwnRows' /\ BareQuerySeesNothing' /\ MeInv'
  BY <1>2 DEF HookCreates, CreatePersonal, Create
<1>3. ASSUME NEW u \in Users, HookFails(u) PROVE OnlyOwnRows' /\ BareQuerySeesNothing' /\ MeInv'
  BY <1>3 DEF HookFails
<1>4. ASSUME NEW r \in Requests, Arrive(r) PROVE OnlyOwnRows' /\ BareQuerySeesNothing' /\ MeInv'
  BY <1>4 DEF Arrive
<1>5. ASSUME NEW r \in Requests, Lookup(r) PROVE OnlyOwnRows' /\ BareQuerySeesNothing' /\ MeInv'
  BY <1>5 DEF Lookup
<1>6. ASSUME NEW r \in Requests, LookupEmpty(r) PROVE OnlyOwnRows' /\ BareQuerySeesNothing' /\ MeInv'
  BY <1>6 DEF LookupEmpty
<1>7. ASSUME NEW r \in Requests, SelfHeal(r) PROVE OnlyOwnRows' /\ BareQuerySeesNothing' /\ MeInv'
  BY <1>7 DEF SelfHeal, CreatePersonal, Create
<1>8. ASSUME NEW r \in Requests, SelfHealFails(r) PROVE OnlyOwnRows' /\ BareQuerySeesNothing' /\ MeInv'
  BY <1>8 DEF SelfHealFails, Refuse
<1>9. ASSUME NEW r \in Requests, Begin(r) PROVE OnlyOwnRows' /\ BareQuerySeesNothing' /\ MeInv'
  BY <1>9 DEF Begin
<1>10. ASSUME NEW r \in Requests, List(r) PROVE OnlyOwnRows' /\ BareQuerySeesNothing' /\ MeInv'
  BY <1>10 DEF List, End, Visible
<1>11. ASSUME NEW r \in Requests, Get(r) PROVE OnlyOwnRows' /\ BareQuerySeesNothing' /\ MeInv'
  BY <1>11 DEF Get, End, Visible
<1>12. ASSUME NEW r \in Requests, Write(r) PROVE OnlyOwnRows' /\ BareQuerySeesNothing' /\ MeInv'
  BY <1>12 DEF Write, End
<1>13. ASSUME NEW r \in Requests, Rollback(r) PROVE OnlyOwnRows' /\ BareQuerySeesNothing' /\ MeInv'
  BY <1>13 DEF Rollback, End
<1>14. ASSUME NEW r \in Requests, GetMalformed(r) PROVE OnlyOwnRows' /\ BareQuerySeesNothing' /\ MeInv'
  BY <1>14 DEF GetMalformed
<1>15. ASSUME NEW r \in Requests, Me(r) PROVE OnlyOwnRows' /\ BareQuerySeesNothing' /\ MeInv'
  BY <1>15 DEF Me, OrgsOf
<1>16. CASE BareQuery
  BY <1>16 DEF BareQuery, Visible
<1>17. CASE DeleteOrg
  BY <1>17 DEF DeleteOrg
<1>18. CASE UNCHANGED vars
  BY <1>18 DEF vars
<1>19. ASSUME NEW u \in Users, CreateOrganization(u) PROVE OnlyOwnRows' /\ BareQuerySeesNothing' /\ MeInv'
  BY <1>19 DEF CreateOrganization, Create
<1>20. ASSUME NEW u \in Users, SetActive(u) PROVE OnlyOwnRows' /\ BareQuerySeesNothing' /\ MeInv'
  BY <1>20 DEF SetActive
<1>21. ASSUME NEW r \in Requests, ListFails(r) PROVE OnlyOwnRows' /\ BareQuerySeesNothing' /\ MeInv'
  BY <1>21 DEF ListFails, Refuse
<1> QED
  BY <1>1, <1>2, <1>3, <1>4, <1>5, <1>6, <1>7, <1>8, <1>9, <1>10, <1>11, <1>12, <1>13,
     <1>14, <1>15, <1>16, <1>17, <1>18, <1>19, <1>20, <1>21
     DEF Next, Serve

(* A creation starts only for a user without an organization, and while    *)
(* none is under way it is the only one: else the user is in `raced`.      *)
LEMMA RaceStep == ASSUME IInv, TypeOK', [Next]_vars PROVE RaceInv'
<1> SUFFICES ASSUME NEW u \in Users, u \notin raced' PROVE OneAtATime(u)'
  BY DEF RaceInv
<1>0. u \notin raced
  BY DEF Next, Serve, SignUp, HookCreates, HookFails, Arrive, Lookup, LookupEmpty, SelfHeal,
     SelfHealFails, Begin, List, Get, Write, Rollback, GetMalformed, Me, BareQuery,
     DeleteOrg, CreateOrganization, SetActive, ListFails, vars
<1>00. OneAtATime(u)
  BY <1>0 DEF IInv, RaceInv
<1> USE <1>00, AccessAssumption DEF IInv, TypeOK, tables, requests, OneAtATime, Creating,
        PersonalOf, OrgsOf, UserInv, OwnerInv
<1>1. ASSUME NEW v \in Users, SignUp(v) PROVE OneAtATime(u)'
  BY <1>1 DEF SignUp
<1>2. ASSUME NEW v \in Users, HookCreates(v) PROVE OneAtATime(u)'
  BY <1>2 DEF HookCreates, CreatePersonal, Create
<1>3. ASSUME NEW v \in Users, HookFails(v) PROVE OneAtATime(u)'
  BY <1>3 DEF HookFails
<1>4. ASSUME NEW r \in Requests, Arrive(r) PROVE OneAtATime(u)'
  BY <1>4 DEF Arrive
<1>5. ASSUME NEW r \in Requests, Lookup(r) PROVE OneAtATime(u)'
  BY <1>5 DEF Lookup
<1>6. ASSUME NEW r \in Requests, LookupEmpty(r) PROVE OneAtATime(u)'
  BY <1>6 DEF LookupEmpty, LacksOrg
<1>7. ASSUME NEW r \in Requests, SelfHeal(r) PROVE OneAtATime(u)'
  BY <1>7 DEF SelfHeal, CreatePersonal, Create
<1>8. ASSUME NEW r \in Requests, SelfHealFails(r) PROVE OneAtATime(u)'
  BY <1>8 DEF SelfHealFails, Refuse
<1>9. ASSUME NEW r \in Requests, Begin(r) PROVE OneAtATime(u)'
  BY <1>9 DEF Begin
<1>10. ASSUME NEW r \in Requests, List(r) PROVE OneAtATime(u)'
  BY <1>10 DEF List, End
<1>11. ASSUME NEW r \in Requests, Get(r) PROVE OneAtATime(u)'
  BY <1>11 DEF Get, End
<1>12. ASSUME NEW r \in Requests, Write(r) PROVE OneAtATime(u)'
  BY <1>12 DEF Write, End
<1>13. ASSUME NEW r \in Requests, Rollback(r) PROVE OneAtATime(u)'
  BY <1>13 DEF Rollback, End
<1>14. ASSUME NEW r \in Requests, GetMalformed(r) PROVE OneAtATime(u)'
  BY <1>14 DEF GetMalformed
<1>15. ASSUME NEW r \in Requests, Me(r) PROVE OneAtATime(u)'
  BY <1>15 DEF Me
<1>16. CASE BareQuery
  BY <1>16 DEF BareQuery
<1>17. CASE DeleteOrg
  BY <1>17 DEF DeleteOrg
<1>18. CASE UNCHANGED vars
  BY <1>18 DEF vars
<1>19. ASSUME NEW v \in Users, CreateOrganization(v) PROVE OneAtATime(u)'
  BY <1>19 DEF CreateOrganization, Create
<1>20. ASSUME NEW v \in Users, SetActive(v) PROVE OneAtATime(u)'
  BY <1>20 DEF SetActive
<1>21. ASSUME NEW r \in Requests, ListFails(r) PROVE OneAtATime(u)'
  BY <1>21 DEF ListFails, Refuse
<1> QED
  BY <1>1, <1>2, <1>3, <1>4, <1>5, <1>6, <1>7, <1>8, <1>9, <1>10, <1>11, <1>12, <1>13,
     <1>14, <1>15, <1>16, <1>17, <1>18, <1>19, <1>20, <1>21
     DEF Next, Serve

(* The invariant holds from the empty tables on.                           *)
THEOREM Inductive == Spec => []IInv
<1>1. Init => IInv
  BY AccessAssumption DEF Init, IInv, TypeOK, Ops, UserInv, OrgInv, ActiveInv, OwnerInv, PoolInv, Free,
     OnlyOwnRows, BareQuerySeesNothing, MeInv, RaceInv, OneAtATime, PersonalOf, OrgsOf,
     Creating
<1>2. IInv /\ [Next]_vars => IInv'
  <2> SUFFICES ASSUME IInv, [Next]_vars PROVE IInv'
    OBVIOUS
  <2>1. TypeOK'
    BY TypeStep DEF IInv
  <2> QED BY <2>1, OwnerStep, PoolStep, SawStep, RaceStep DEF IInv
<1> QED BY <1>1, <1>2, PTL DEF Spec

(* The tables keep their types and the foreign keys hold.                  *)
THEOREM TypeCorrect == Spec => []TypeOK
<1>1. IInv => TypeOK
  BY DEF IInv
<1> QED BY <1>1, Inductive, PTL

(* Tenant isolation: whatever requests share the pool and however their    *)
(* transactions end, a request is shown only what belongs to organizations *)
(* created for its user (session.ts, client.ts, migration 0001).           *)
THEOREM TenantIsolation == Spec => []OnlyOwnRows
<1>1. IInv => OnlyOwnRows
  BY DEF IInv
<1> QED BY <1>1, Inductive, PTL

(* A query that forgot withOrg sees no row on any pooled connection        *)
(* (client.ts: the setting is local to the transaction).                   *)
THEOREM ForgottenScopeIsEmpty == Spec => []BareQuerySeesNothing
<1>1. IInv => BareQuerySeesNothing
  BY DEF IInv
<1> QED BY <1>1, Inductive, PTL

(* Only an overlap of two calls of ensurePersonalOrganization gives a user *)
(* two organizations of it (auth.ts's hook, session.ts's                   *)
(* selfHealOrganization), whatever the user creates besides.               *)
THEOREM SecondOrgIsARace == Spec => []SecondOrgNeedsRace
<1>1. IInv => SecondOrgNeedsRace
  <2> SUFFICES ASSUME IInv, NEW u \in Users, u \notin raced
               PROVE  ~(Cardinality(PersonalOf(u)) > 1)
    BY DEF SecondOrgNeedsRace, PersonalOf
  <2>1. \A o, p \in PersonalOf(u) : o = p
    BY DEF IInv, RaceInv, OneAtATime
  <2>2. CASE PersonalOf(u) = {}
    BY <2>2, FS_EmptySet
  <2>3. ASSUME NEW o \in PersonalOf(u) PROVE ~(Cardinality(PersonalOf(u)) > 1)
    <3>1. PersonalOf(u) = {o}
      BY <2>1, <2>3
    <3>2. Cardinality({o}) = 1
      BY FS_Singleton
    <3> QED BY <3>1, <3>2
  <2> QED BY <2>2, <2>3
<1> QED BY <1>1, Inductive, PTL

(* "A user is therefore never permanently org-less": a request that was    *)
(* served worked for an organization of its user, which exists unless some *)
(* organization was deleted (session.ts, server.ts's /api/me).             *)
THEOREM ServedHasOrg == Spec => []ServedMeansOrg
<1>1. IInv => ServedMeansOrg
  BY AccessAssumption DEF IInv, TypeOK, OrgInv, MeInv, ServedMeansOrg, OrgsOf
<1> QED BY <1>1, Inductive, PTL
=============================================================================
