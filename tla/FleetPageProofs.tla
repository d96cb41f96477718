--------------------------- MODULE FleetPageProofs ---------------------------
(***************************************************************************)
(* Proofs about FleetPage, for any number of users who take turns at the   *)
(* tab, any codes, machines and calls under way.                           *)
(***************************************************************************)
EXTENDS FleetPage, TLAPS

(* The state the proofs depend on.                                         *)
TypeInv ==
    /\ cookie \in Users \cup {NoUser}
    /\ hosts \subseteq Users
    /\ issuer \in [Codes -> Users \cup {NoUser}]
    /\ DOMAIN ledger = Codes
    /\ fleet \subseteq [publicKey : Keys, orgId : Users \cup {NoUser}, code : Codes]
    /\ dialog \in [open : BOOLEAN, code : Codes \cup {NoCode}, busy : BOOLEAN]
    /\ mints \subseteq [by : Users \cup {NoUser}, code : Codes \cup {NoCode}]
    /\ fetches \subseteq [by : Users \cup {NoUser}, nodes : {NoData} \cup NodeLists]

(* Nothing of the page is there when it is not mounted, and while it is    *)
(* only cookies of its users are sent.                                     *)
PageInv ==
    /\ ~Mounted => dialog = Closed /\ mints = {} /\ hosts = {} /\ ~own
    /\ Mounted => cookie \in hosts \cup {NoUser}

(* The dialog has one call under way at most, and shows no code meanwhile. *)
(* (The last conjunct is the bound on the codes of an instance.)           *)
CallInv ==
    /\ \A m, n \in mints : m = n
    /\ mints # {} => dialog.busy /\ dialog.code = NoCode
    /\ \A m \in mints : m.code = NoCode => \E c \in Codes : ledger[c] = "none"

(* What the dialog shows, or is about to show, is of the page's users.     *)
OwnerInv ==
    /\ \A m \in mints :
          /\ m.by \in hosts \cup {NoUser}
          /\ m.code # NoCode => issuer[m.code] \in hosts
    /\ dialog.code # NoCode => issuer[dialog.code] \in hosts

(* The query has one fetch at a time; after the first answer to the page's *)
(* users no fetch of anybody before is left.                               *)
FetchInv ==
    /\ \A f, g \in fetches : f = g
    /\ \A f \in fetches : f.nodes # NoData => f.by \in Users
    /\ own =>
          /\ data # NoData /\ data.of \in hosts
          /\ \A f \in fetches : f.by \in hosts \cup {NoUser}

IInv == TypeInv /\ PageInv /\ CallInv /\ OwnerInv /\ FetchInv

(* Mounting and unmounting: a page starts empty, for the user whose cookie *)
(* is sent, and gains one with every other cookie.                         *)
LEMMA RenderStep ==
    ASSUME IInv, Render, UNCHANGED <<ledger, issuer, fleet>>,
           cookie' \in Users \cup {NoUser},
           UNCHANGED query \/ (fetches' = {} /\ ~Mounted')
    PROVE  IInv'
<1> USE DEF IInv, Render, query
<1>1. CASE Mounted /\ Mounted'
  <2> USE <1>1
  <2>1. UNCHANGED <<dialog, mints, own, data, fetches>>
    OBVIOUS
  <2>2. hosts \subseteq hosts' /\ hosts' \subseteq Users /\ cookie' \in hosts' \cup {NoUser}
    BY DEF TypeInv
  <2>3. TypeInv'
    BY <2>1, <2>2 DEF TypeInv
  <2>4. PageInv'
    BY <2>1, <2>2 DEF PageInv
  <2>5. CallInv'
    BY <2>1 DEF CallInv
  <2>6. OwnerInv'
    BY <2>1, <2>2 DEF OwnerInv
  <2>7. FetchInv'
    BY <2>1, <2>2 DEF FetchInv
  <2> QED BY <2>3, <2>4, <2>5, <2>6, <2>7
<1>2. CASE ~(Mounted /\ Mounted')
  <2> USE <1>2
  <2>1. dialog' = Closed /\ mints' = {} /\ ~own'
        /\ hosts' = IF Mounted' THEN {cookie'} \ {NoUser} ELSE {}
    OBVIOUS
  <2>2. TypeInv'
    BY <2>1 DEF TypeInv, Closed
  <2>3. PageInv'
    BY <2>1 DEF PageInv
  <2>4. CallInv' /\ OwnerInv'
    BY <2>1 DEF CallInv, OwnerInv, Closed
  <2>5. FetchInv'
    BY <2>1 DEF FetchInv
  <2> QED BY <2>2, <2>3, <2>4, <2>5
<1> QED BY <1>1, <1>2

(* What does not reach the page, the query or the server's tables, and at  *)
(* most takes the cookie away.                                             *)
LEMMA AsideStep ==
    ASSUME IInv, UNCHANGED <<ledger, issuer, fleet, session, route, query, page>>,
           cookie' \in {cookie, NoUser}
    PROVE  IInv'
<1> USE DEF IInv, query, page
<1>1. Mounted' = Mounted
  BY DEF Mounted
<1>2. TypeInv' /\ PageInv'
  BY <1>1 DEF TypeInv, PageInv
<1>3. CallInv' /\ OwnerInv' /\ FetchInv'
  BY DEF CallInv, OwnerInv, FetchInv
<1> QED BY <1>2, <1>3

(* The query: its one fetch belongs to the cookie it was sent with.        *)
LEMMA QueryStep ==
    ASSUME IInv,
           \/ Fetch \/ Collect
           \/ \E f \in fetches : ServeList(f) \/ ListArrives(f) \/ Retry(f) \/ GiveUp(f)
    PROVE  IInv'
<1> USE DEF IInv
<1>0. /\ UNCHANGED <<server, cookie, session, route, dialog, mints, hosts>>
      /\ Mounted' = Mounted
  BY DEF Fetch, Collect, ServeList, ListArrives, Retry, GiveUp, page, Mounted
<1>1. CallInv' /\ OwnerInv'
  BY <1>0 DEF CallInv, OwnerInv, server
<1>2. ASSUME fetches' \subseteq [by : Users \cup {NoUser}, nodes : {NoData} \cup NodeLists],
             own' => own \/ Mounted
      PROVE  TypeInv' /\ PageInv'
  BY <1>0, <1>2 DEF TypeInv, PageInv, server
<1>3. CASE Fetch
  <2>1. fetches' = {[by |-> cookie, nodes |-> NoData]} /\ UNCHANGED <<data, own>>
    BY <1>3 DEF Fetch, CanFetch, page
  <2>2. TypeInv' /\ PageInv'
    BY <1>2, <2>1 DEF TypeInv
  <2>3. FetchInv'
    BY <1>0, <2>1 DEF FetchInv, PageInv
  <2> QED BY <1>1, <2>2, <2>3
<1>4. CASE Collect
  <2>1. fetches' = fetches /\ UNCHANGED own /\ ~Mounted
    BY <1>4 DEF Collect, page
  <2>2. TypeInv' /\ PageInv'
    BY <1>2, <2>1 DEF TypeInv
  <2>3. FetchInv'
    BY <1>0, <2>1 DEF FetchInv, PageInv
  <2> QED BY <1>1, <2>2, <2>3
<1>5. ASSUME NEW f \in fetches, ServeList(f) PROVE IInv'
  <2> DEFINE g == [f EXCEPT !.nodes = NodesOf(f.by)]
  <2>1. f \in [by : Users \cup {NoUser}, nodes : {NoData} \cup NodeLists]
    BY DEF TypeInv
  <2>2. f.by \in Users /\ fetches = {f} /\ UNCHANGED <<data, own>>
    BY <1>5, <2>1 DEF ServeList, FetchInv, page
  <2>3. NodesOf(f.by) \in NodeLists
    BY <2>2 DEF TypeInv, NodesOf, NodeLists
  <2>4. fetches' = {g} /\ g.by = f.by
    BY <1>5, <2>1, <2>2 DEF ServeList
  <2>5. g \in [by : Users \cup {NoUser}, nodes : {NoData} \cup NodeLists]
    BY <2>1, <2>3
  <2> HIDE DEF g
  <2>6. TypeInv' /\ PageInv'
    BY <1>2, <2>2, <2>4, <2>5
  <2>7. FetchInv'
    BY <1>0, <2>2, <2>4 DEF FetchInv
  <2> QED BY <1>1, <2>6, <2>7
<1>6. ASSUME NEW f \in fetches, ListArrives(f) PROVE IInv'
  <2>1. fetches = {f} /\ fetches' = {}
    BY <1>6 DEF ListArrives, FetchInv
  <2>2. f.by \in Users /\ f.nodes \in NodeLists
    BY <1>6 DEF ListArrives, FetchInv, TypeInv
  <2>3. data' = [of |-> f.by, nodes |-> f.nodes] /\ data' # NoData /\ data'.of = f.by
    BY <1>6, <2>2, PageAssumption DEF ListArrives
  <2>4. own' => own \/ (Mounted /\ f.by \in hosts)
    BY <1>6 DEF ListArrives
  <2>5. TypeInv' /\ PageInv'
    BY <1>2, <2>1, <2>4
  <2>6. FetchInv'
    BY <1>0, <2>1, <2>2, <2>3, <2>4, PageAssumption DEF FetchInv
  <2> QED BY <1>1, <2>5, <2>6
<1>7. ASSUME NEW f \in fetches, Retry(f) PROVE IInv'
  <2>1. fetches' = {[by |-> cookie, nodes |-> NoData]} /\ UNCHANGED <<data, own>>
    BY <1>7 DEF Retry, FetchInv, page
  <2>2. TypeInv' /\ PageInv'
    BY <1>2, <2>1 DEF TypeInv
  <2>3. FetchInv'
    BY <1>0, <2>1 DEF FetchInv, PageInv
  <2> QED BY <1>1, <2>2, <2>3
<1>8. ASSUME NEW f \in fetches, GiveUp(f) PROVE IInv'
  <2>1. fetches' \subseteq fetches /\ UNCHANGED <<data, own>>
    BY <1>8 DEF GiveUp, page
  <2>2. TypeInv' /\ PageInv'
    BY <1>2, <2>1 DEF TypeInv
  <2>3. FetchInv'
    BY <1>0, <2>1 DEF FetchInv
  <2> QED BY <1>1, <2>2, <2>3
<1> QED BY <1>3, <1>4, <1>5, <1>6, <1>7, <1>8

(* The dialog: the button is disabled from the click to the answer, so no  *)
(* second call is made and no code is overwritten.                         *)
LEMMA DialogStep ==
    ASSUME IInv,
           \/ OpenDialog \/ ClickGenerate \/ CloseDialog
           \/ \E m \in mints : ServeMint(m) \/ MintArrives(m) \/ MintFails(m)
    PROVE  IInv'
<1> USE PageAssumption DEF IInv
<1>0. UNCHANGED elsewhere /\ fleet' = fleet
  BY DEF OpenDialog, ClickGenerate, CloseDialog, ServeMint, MintArrives, MintFails, server,
     Server!Mint
<1>1. UNCHANGED <<cookie, hosts, own, data, fetches>> /\ Mounted' = Mounted
  BY <1>0 DEF elsewhere, query, Mounted
<1>2. FetchInv'
  BY <1>1 DEF FetchInv
<1>3. mints # {} => Mounted
  BY DEF PageInv
<1>4. CASE OpenDialog
  <2>1. /\ UNCHANGED <<ledger, issuer, mints>> /\ Mounted
        /\ dialog' = [dialog EXCEPT !.open = TRUE]
    BY <1>4 DEF OpenDialog, server
  <2>2. TypeInv'
    BY <1>0, <1>1, <2>1 DEF TypeInv
  <2>3. PageInv' /\ CallInv' /\ OwnerInv'
    BY <1>1, <2>1 DEF PageInv, CallInv, OwnerInv, TypeInv
  <2> QED BY <1>2, <2>2, <2>3
<1>5. CASE ClickGenerate
  <2>1. /\ UNCHANGED <<ledger, issuer>> /\ Mounted
        /\ dialog.code = NoCode /\ ~dialog.busy
        /\ \E c \in Codes : ledger[c] = "none"
        /\ dialog' = [dialog EXCEPT !.busy = TRUE]
        /\ mints' = mints \cup {[by |-> cookie, code |-> NoCode]}
    BY <1>5 DEF ClickGenerate, server
  <2>2. mints = {}
    BY <2>1 DEF CallInv
  <2>3. TypeInv'
    <3>1. dialog' \in [open : BOOLEAN, code : Codes \cup {NoCode}, busy : BOOLEAN]
      BY <2>1 DEF TypeInv
    <3>2. mints' \subseteq [by : Users \cup {NoUser}, code : Codes \cup {NoCode}]
      BY <2>1, <2>2 DEF TypeInv
    <3> QED BY <1>0, <1>1, <2>1, <3>1, <3>2 DEF TypeInv
  <2>4. PageInv' /\ CallInv' /\ OwnerInv'
    BY <1>1, <2>1, <2>2 DEF PageInv, CallInv, OwnerInv, TypeInv
  <2> QED BY <1>2, <2>3, <2>4
<1>6. CASE CloseDialog
  <2>1. /\ UNCHANGED <<ledger, issuer, mints>> /\ Mounted
        /\ dialog' = [Closed EXCEPT !.busy = dialog.busy]
    BY <1>6 DEF CloseDialog, server
  <2>2. TypeInv'
    BY <1>0, <1>1, <2>1 DEF TypeInv, Closed
  <2>3. PageInv' /\ CallInv' /\ OwnerInv'
    BY <1>1, <2>1 DEF PageInv, CallInv, OwnerInv, TypeInv, Closed
  <2> QED BY <1>2, <2>2, <2>3
<1>7. ASSUME NEW m \in mints, ServeMint(m) PROVE IInv'
  <2> DEFINE c == CHOOSE c \in Codes : ledger[c] = "none"
             n == [m EXCEPT !.code = c]
  <2>1. m \in [by : Users \cup {NoUser}, code : Codes \cup {NoCode}] /\ mints = {m}
    BY DEF TypeInv, CallInv
  <2>2. m.code = NoCode /\ m.by \in Users /\ Server!Mint(c, m.by) /\ UNCHANGED dialog
    BY <1>7, <2>1 DEF ServeMint
  <2>3. c \in Codes
    BY <2>2 DEF CallInv
  <2>4. mints' = {n} /\ n.by = m.by /\ n.code = c
    BY <1>7, <2>1 DEF ServeMint
  <2>5. n \in [by : Users \cup {NoUser}, code : Codes \cup {NoCode}]
    BY <2>1, <2>3
  <2> HIDE DEF c, n
  <2>6. issuer' = [issuer EXCEPT ![c] = m.by] /\ DOMAIN ledger' = Codes
    BY <2>2 DEF Server!Mint, TypeInv
  <2>7. dialog.busy /\ dialog.code = NoCode
    BY DEF CallInv
  <2>8. TypeInv'
    BY <1>0, <1>1, <2>2, <2>4, <2>5, <2>6 DEF TypeInv
  <2>9. PageInv' /\ CallInv'
    BY <1>1, <1>3, <2>2, <2>3, <2>4, <2>7 DEF PageInv, CallInv
  <2>10. OwnerInv'
    BY <1>1, <2>2, <2>3, <2>4, <2>6, <2>7 DEF OwnerInv, TypeInv
  <2> QED BY <1>2, <2>8, <2>9, <2>10
<1>8. ASSUME NEW m \in mints, MintArrives(m) \/ MintFails(m) PROVE IInv'
  <2>1. mints = {m} /\ mints' = {} /\ UNCHANGED <<ledger, issuer>> /\ Mounted
    BY <1>3, <1>8 DEF CallInv, MintArrives, MintFails, server
  <2>2. \/ m.code # NoCode /\ dialog' = [dialog EXCEPT !.code = m.code, !.busy = FALSE]
        \/ dialog' = [dialog EXCEPT !.busy = FALSE]
    BY <1>8 DEF MintArrives, MintFails
  <2>3. TypeInv'
    BY <1>0, <1>1, <2>1, <2>2 DEF TypeInv
  <2>4. PageInv' /\ CallInv'
    BY <1>1, <2>1 DEF PageInv, CallInv
  <2>5. OwnerInv'
    BY <1>1, <2>1, <2>2 DEF OwnerInv, TypeInv
  <2> QED BY <1>2, <2>3, <2>4, <2>5
<1> QED BY <1>4, <1>5, <1>6, <1>7, <1>8

(* Machines enroll with codes that were minted.                            *)
LEMMA MachineStep == ASSUME IInv, Machine PROVE IInv'
<1> USE DEF IInv
<1>0. /\ UNCHANGED <<dialog, mints, cookie, hosts, own, data, fetches, issuer>>
      /\ Mounted' = Mounted
  BY DEF Machine, elsewhere, query, Mounted, Server!Enroll
<1>1. PICK c \in Codes, k \in Keys : Server!Enroll(c, k)
  BY DEF Machine
<1>2. TypeInv'
  BY <1>0, <1>1 DEF TypeInv, Server!Enroll
<1>3. CallInv'
  BY <1>0, <1>1 DEF CallInv, Server!Enroll, TypeInv
<1>4. PageInv' /\ OwnerInv' /\ FetchInv'
  BY <1>0 DEF PageInv, OwnerInv, FetchInv
<1> QED BY <1>2, <1>3, <1>4

(* The invariant is inductive.                                             *)
LEMMA InvStep == IInv /\ [Next]_vars => IInv'
<1> SUFFICES ASSUME IInv, [Next]_vars PROVE IInv'
  OBVIOUS
<1> USE DEF server, auth
<1>0. cookie \in Users \cup {NoUser}
  BY DEF IInv, TypeInv
<1>1. ASSUME LoadSession \/ SessionFails \/ Redirect \/ \E to \in {"fleet", "auth"} : Navigate(to) PROVE IInv'
  BY <1>0, <1>1, RenderStep DEF LoadSession, SessionFails, Redirect, Navigate
<1>2. CASE Reload
  <2>1. ~Mounted'
    BY <1>2, PageAssumption DEF Reload, Mounted
  <2> QED BY <1>0, <1>2, <2>1, RenderStep DEF Reload
<1>3. ASSUME NEW u \in Users, AuthSucceeds(u) PROVE IInv'
  BY <1>3, RenderStep DEF AuthSucceeds
<1>4. ASSUME EndSession \/ AuthRefused \/ AuthRejects \/ Weather
             \/ \E u \in Users : Submit(u) \/ StrayFails(u)
      PROVE  IInv'
  BY <1>4, AsideStep DEF EndSession, AuthRefused, AuthRejects, Weather, Submit, StrayFails
<1>5. CASE UNCHANGED vars
  BY <1>5, AsideStep DEF vars
<1> QED BY <1>1, <1>2, <1>3, <1>4, <1>5, QueryStep, DialogStep, MachineStep DEF Next

(* The invariant holds from the first load on.                             *)
THEOREM Inductive == Spec => []IInv
<1>1. Init => IInv
  BY PageAssumption DEF Init, Server!Init, IInv, TypeInv, PageInv, CallInv, OwnerInv,
     FetchInv, Closed, Mounted
<1> QED BY <1>1, InvStep, PTL DEF Spec

(* A code on display was minted for a user the tab has had since the page  *)
(* was mounted; whoever used the tab before and left a call under way, its *)
(* code does not turn up (AddNodeDialog.tsx:15-26).                        *)
THEOREM NoCodeFromBefore == Spec => []CodeOfThisPage
<1>1. IInv => CodeOfThisPage
  BY DEF IInv, OwnerInv, CodeOfThisPage, Displayed
<1> QED BY <1>1, Inductive, PTL

(* No late answer replaces a code on display (AddNodeDialog.tsx:15-26,     *)
(* 69-71: Close does not reset busy).                                      *)
THEOREM CodeIsNotReplaced == Spec => CodeStaysPut
<1>1. IInv /\ [Next]_vars => [Displayed /\ Displayed' => dialog'.code = dialog.code]_vars
  <2> SUFFICES ASSUME IInv, Next, Displayed, Displayed' PROVE dialog'.code = dialog.code
    OBVIOUS
  <2>1. mints = {} /\ Mounted /\ Mounted'
    BY DEF IInv, CallInv, Displayed
  <2>2. CASE UNCHANGED dialog
    BY <2>2
  <2>3. CASE OpenDialog \/ ClickGenerate
    BY <2>3 DEF OpenDialog, ClickGenerate, IInv, TypeInv
  <2>4. ~CloseDialog
    BY DEF CloseDialog, Closed, Displayed
  <2> QED
    BY <2>1, <2>2, <2>3, <2>4 DEF Next, LoadSession, SessionFails, Redirect, Reload, EndSession, Navigate,
       Submit, AuthSucceeds, StrayFails, AuthRefused, AuthRejects, Fetch, Collect, ServeList,
       ListArrives, Retry, GiveUp, Machine, Weather, Render, page
<1> QED BY <1>1, Inductive, PTL DEF Spec, CodeStaysPut

(* After one answer to a call of its users a page never shows machines of  *)
(* anybody before them again (fleet.tsx:6-12: one key for all users, one   *)
(* fetch at a time).                                                       *)
THEOREM NobodyElsesFleet == Spec => []OwnOnceFetched
<1>1. IInv => OwnOnceFetched
  BY DEF IInv, FetchInv, OwnOnceFetched
<1> QED BY <1>1, Inductive, PTL
=============================================================================
