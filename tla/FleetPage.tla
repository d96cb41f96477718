----------------------------- MODULE FleetPage -----------------------------
(***************************************************************************)
(* One browser tab of the web application in front of the server's         *)
(* enrollment promise (AtomicEnrollment): the router and the authenticated *)
(* layout (router.tsx, routes/root.tsx), the sign-in and sign-up forms     *)
(* (routes/auth.tsx), the polled fleet page (routes/fleet.tsx) and the     *)
(* pairing dialog (components/AddNodeDialog.tsx).                          *)
(*                                                                         *)
(* Every call the tab makes is sent, served and answered in separate steps *)
(* and may fail while the server is away.  What a component was waiting    *)
(* for when it was unmounted is lost to it, but not to the server, the     *)
(* cookie or the query cache.  A user has one organization, its own; the   *)
(* routes /sign-in and /sign-up are one route, "auth".                     *)
(***************************************************************************)
EXTENDS Naturals, FiniteSets

CONSTANTS
    Users, NoUser,
    Codes, NoCode,
    Keys,      \* of the machines that enroll
    MaxAuthCalls,  \* bound on sign-in and sign-up calls under way
    NoData,    \* the query has no data
    Loading    \* useSession is pending

(* What listNodes can answer.                                              *)
NodeLists == SUBSET [publicKey : Keys, orgId : Users, code : Codes]

ASSUME PageAssumption ==
    /\ NoUser \notin Users /\ Loading \notin Users \cup {NoUser}
    /\ NoCode \notin Codes
    /\ NoData \notin [of : Users, nodes : NodeLists]
    /\ MaxAuthCalls \in Nat

VARIABLES
    orgs, ledger, issuer, fleet,  \* the server
    outage,   \* calls fail
    cookie,   \* whose session cookie the browser sends
    session,  \* what useSession says; it lags behind the cookie
    route,    \* "fleet" or "auth"
    form,     \* the form shown: "idle" or "busy"
    signing,  \* whom its call signs in, NoUser if none is under way
    strays,   \* the same for forms that are gone
    data,     \* the cached answer of listNodes: [of, nodes]
    error,    \* the last fetch failed
    fetches,  \* listNodes calls under way: [by, nodes], NoData until served
    dialog,   \* [open, code, busy] of AddNodeDialog
    mints,    \* its calls under way: [by, code], NoCode until served
    hosts,    \* history: whose cookies the tab has had since the page mounted
    own       \* history: a call of one of them was answered on this page

Server == INSTANCE AtomicEnrollment WITH Orgs <- Users, NoOrg <- NoUser

server == <<orgs, ledger, issuer, fleet>>
auth   == <<form, signing, strays>>
query  == <<data, error, fetches>>
page   == <<dialog, mints, hosts, own>>
vars   == <<server, outage, cookie, session, route, auth, query, page>>

Closed == [open |-> FALSE, code |-> NoCode, busy |-> FALSE]

Init ==
    /\ Server!Init
    /\ outage = FALSE
    /\ cookie = NoUser /\ session = Loading /\ route = "fleet"
    /\ form = "idle" /\ signing = NoUser /\ strays = {}
    /\ data = NoData /\ error = FALSE /\ fetches = {}
    /\ dialog = Closed /\ mints = {}
    /\ hosts = {} /\ own = FALSE

(* RootLayout renders its outlet, and with it the fleet page.              *)
Mounted == route = "fleet" /\ session \in Users

(* Mutant: what the dialog waits for survives it (state kept outside it).  *)
RenderKeepsCall ==
    IF Mounted /\ Mounted'
    THEN /\ hosts' = hosts \cup ({cookie'} \ {NoUser})
         /\ UNCHANGED <<dialog, mints, own>>
    ELSE /\ dialog' = Closed /\ own' = FALSE
         /\ hosts' = IF Mounted' THEN {cookie'} \ {NoUser} ELSE {}
         /\ UNCHANGED mints

(* Unmounting the page drops the dialog's state, and the answer of its     *)
(* call, with the code the server may mint for it, is then nobody's.  A    *)
(* page that stays mounted keeps both, also when the user changes under it.*)
Render ==
    IF Mounted /\ Mounted'
    THEN /\ hosts' = hosts \cup ({cookie'} \ {NoUser})
         /\ UNCHANGED <<dialog, mints, own>>
    ELSE /\ dialog' = Closed /\ mints' = {} /\ own' = FALSE
         /\ hosts' = IF Mounted' THEN {cookie'} \ {NoUser} ELSE {}

(* The form goes, its call goes on.                                        *)
Leave ==
    /\ form' = "idle" /\ signing' = NoUser
    /\ strays' = strays \cup ({signing} \ {NoUser})

(***************************************************************************)
(* Session and navigation                                                  *)
(***************************************************************************)

(* useSession catches up with the cookie.                                  *)
LoadSession ==
    /\ session # cookie
    /\ session' = cookie
    /\ UNCHANGED <<server, outage, cookie, route, auth, query>>
    /\ Render

(* The session cannot be fetched and reads as none, whatever the cookie.   *)
SessionFails ==
    /\ outage /\ session # NoUser
    /\ session' = NoUser
    /\ UNCHANGED <<server, outage, cookie, route, auth, query>>
    /\ Render

(* RootLayout's effect, which a stale session can fire too.                *)
Redirect ==
    /\ route = "fleet" /\ session = NoUser
    /\ route' = "auth"
    /\ UNCHANGED <<server, outage, cookie, session, auth, query>>
    /\ Render

(* The browser's history and links, within the application.                *)
Navigate(to) ==
    /\ route' = to
    /\ Leave
    /\ UNCHANGED <<server, outage, cookie, session, query>>
    /\ Render

(* A new document: only the cookie survives.                               *)
Reload ==
    /\ session' = Loading /\ route' \in {"fleet", "auth"}
    /\ form' = "idle" /\ signing' = NoUser /\ strays' = {}
    /\ data' = NoData /\ error' = FALSE /\ fetches' = {}
    /\ UNCHANGED <<server, outage, cookie>>
    /\ Render

(* Signed out by the button, or the session expired.                       *)
EndSession ==
    /\ cookie # NoUser
    /\ cookie' = NoUser
    /\ UNCHANGED <<server, outage, session, route, auth, query, page>>

(***************************************************************************)
(* AuthForm and useAuthSubmit                                              *)
(***************************************************************************)

(* A disabled button while busy.                                           *)
Submit(u) ==
    /\ route = "auth" /\ form = "idle"
    /\ Cardinality(strays) < MaxAuthCalls
    /\ form' = "busy" /\ signing' = u
    /\ UNCHANGED <<server, outage, cookie, session, route, strays, query, page>>

(* The cookie is set and the tab navigates to the fleet, also for a form   *)
(* that is gone.                                                           *)
AuthSucceeds(u) ==
    /\ ~outage
    /\ u \in strays \cup {signing} /\ u # NoUser
    /\ cookie' = u
    /\ route' = "fleet"
    /\ form' = "idle" /\ signing' = NoUser
    /\ strays' = (strays \cup ({signing} \ {NoUser})) \ {u}
    /\ UNCHANGED <<server, outage, session, query>>
    /\ Render

(* result.error                                                            *)
AuthRefused ==
    /\ signing # NoUser
    /\ form' = "idle" /\ signing' = NoUser
    /\ UNCHANGED <<server, outage, cookie, session, route, strays, query, page>>

(* The call rejects: nothing resets busy.                                  *)
AuthRejects ==
    /\ outage /\ signing # NoUser
    /\ signing' = NoUser
    /\ UNCHANGED <<server, outage, cookie, session, route, form, strays, query, page>>

StrayFails(u) ==
    /\ u \in strays
    /\ strays' = strays \ {u}
    /\ UNCHANGED <<server, outage, cookie, session, route, form, signing, query, page>>

(***************************************************************************)
(* FleetRoute's query                                                      *)
(***************************************************************************)

(* Mutant: a key per fetch, so that a fetch does not wait for the last.    *)
CanFetchTwice == Cardinality(fetches) < 2

(* One key, one query, one fetch at a time.                                *)
CanFetch == fetches = {}

(* Mutant: no refetchInterval.                                             *)
FetchOnce ==
    /\ Mounted /\ CanFetch /\ data = NoData
    /\ fetches' = fetches \cup {[by |-> cookie, nodes |-> NoData]}
    /\ error' = FALSE
    /\ UNCHANGED <<server, outage, cookie, session, route, auth, data, page>>

(* On mount, on focus and every 3 s while mounted.  A query without data   *)
(* is pending again, one with data keeps its error until an answer.        *)
Fetch ==
    /\ Mounted /\ CanFetch
    /\ fetches' = fetches \cup {[by |-> cookie, nodes |-> NoData]}
    /\ error' = (error /\ data # NoData)
    /\ UNCHANGED <<server, outage, cookie, session, route, auth, data, page>>

(* listNodes                                                               *)
NodesOf(u) == {n \in fleet : n.orgId = u}

ServeList(f) ==
    /\ f.nodes = NoData /\ f.by # NoUser /\ ~outage
    /\ fetches' = (fetches \ {f}) \cup {[f EXCEPT !.nodes = NodesOf(f.by)]}
    /\ UNCHANGED <<server, outage, cookie, session, route, auth, data, error, page>>

(* The cache takes the answer whoever asked, and whether or not the page   *)
(* is still there.                                                         *)
ListArrives(f) ==
    /\ f.nodes # NoData
    /\ fetches' = fetches \ {f}
    /\ data' = [of |-> f.by, nodes |-> f.nodes]
    /\ error' = FALSE
    /\ own' = (own \/ (Mounted /\ f.by \in hosts))
    /\ UNCHANGED <<server, outage, cookie, session, route, auth, dialog, mints, hosts>>

(* Not signed in, or out of reach, on the way there or back.               *)
Failed(f) == outage \/ (f.nodes = NoData /\ f.by = NoUser)

(* Another attempt of the same fetch, with the cookie of now.              *)
Retry(f) ==
    /\ Failed(f) /\ Mounted
    /\ fetches' = (fetches \ {f}) \cup {[by |-> cookie, nodes |-> NoData]}
    /\ UNCHANGED <<server, outage, cookie, session, route, auth, data, error, page>>

(* Old data stays under the error.                                         *)
GiveUp(f) ==
    /\ Failed(f)
    /\ fetches' = fetches \ {f}
    /\ error' = TRUE
    /\ UNCHANGED <<server, outage, cookie, session, route, auth, data, page>>

(* Five minutes without a page and the query is collected.                 *)
Collect ==
    /\ ~Mounted /\ fetches = {} /\ data # NoData
    /\ data' = NoData /\ error' = FALSE
    /\ UNCHANGED <<server, outage, cookie, session, route, auth, fetches, page>>

(***************************************************************************)
(* AddNodeDialog                                                           *)
(***************************************************************************)
elsewhere == <<outage, cookie, session, route, auth, query, hosts, own>>

OpenDialog ==
    /\ Mounted /\ ~dialog.open
    /\ dialog' = [dialog EXCEPT !.open = TRUE]
    /\ UNCHANGED <<server, mints, elsewhere>>

(* mint(): the form shows the button until there is a code.  The last      *)
(* guard bounds the codes of an instance.                                  *)
ClickGenerate ==
    /\ Mounted /\ dialog.open /\ dialog.code = NoCode /\ ~dialog.busy
    /\ \E c \in Codes : ledger[c] = "none"
    /\ dialog' = [dialog EXCEPT !.busy = TRUE]
    /\ mints' = mints \cup {[by |-> cookie, code |-> NoCode]}
    /\ UNCHANGED <<server, elsewhere>>

(* createPairingCode: some code nobody has.                                *)
ServeMint(m) ==
    LET c == CHOOSE c \in Codes : ledger[c] = "none" IN
    /\ m.code = NoCode /\ m.by # NoUser /\ ~outage
    /\ Server!Mint(c, m.by)
    /\ mints' = (mints \ {m}) \cup {[m EXCEPT !.code = c]}
    /\ UNCHANGED <<dialog, elsewhere>>

(* setCode, also in a dialog that was closed meanwhile.                    *)
MintArrives(m) ==
    /\ m.code # NoCode
    /\ dialog' = [dialog EXCEPT !.code = m.code, !.busy = FALSE]
    /\ mints' = mints \ {m}
    /\ UNCHANGED <<server, elsewhere>>

(* Not signed in, or out of reach: a code minted already is lost.          *)
MintFailed(m) == outage \/ (m.code = NoCode /\ m.by = NoUser)

(* Mutant: no finally.                                                     *)
MintFailsBusy(m) ==
    /\ MintFailed(m)
    /\ mints' = mints \ {m}
    /\ UNCHANGED <<server, dialog, elsewhere>>

MintFails(m) ==
    /\ MintFailed(m)
    /\ dialog' = [dialog EXCEPT !.busy = FALSE]
    /\ mints' = mints \ {m}
    /\ UNCHANGED <<server, elsewhere>>

(* Mutant: Close resets all of the dialog's state.                         *)
CloseDialogIdle ==
    /\ Mounted /\ dialog.open
    /\ dialog' = Closed
    /\ UNCHANGED <<server, mints, elsewhere>>

(* Close leaves busy alone, and the call with it.                          *)
CloseDialog ==
    /\ Mounted /\ dialog.open
    /\ dialog' = [Closed EXCEPT !.busy = dialog.busy]
    /\ UNCHANGED <<server, mints, elsewhere>>

(***************************************************************************)
(* Around the tab                                                          *)
(***************************************************************************)

(* A code is used on some machine.  (One that runs out changes nothing of  *)
(* what the tab does.)                                                     *)
Machine ==
    /\ \E c \in Codes, k \in Keys : Server!Enroll(c, k)
    /\ UNCHANGED <<dialog, mints, elsewhere>>

Weather ==
    /\ outage' = ~outage
    /\ UNCHANGED <<server, cookie, session, route, auth, query, page>>

Next ==
    \/ LoadSession \/ SessionFails \/ Redirect \/ Reload \/ EndSession
    \/ \E to \in {"fleet", "auth"} : Navigate(to)
    \/ \E u \in Users : Submit(u) \/ AuthSucceeds(u) \/ StrayFails(u)
    \/ AuthRefused \/ AuthRejects
    \/ Fetch \/ Collect
    \/ \E f \in fetches : ServeList(f) \/ ListArrives(f) \/ Retry(f) \/ GiveUp(f)
    \/ OpenDialog \/ ClickGenerate \/ CloseDialog
    \/ \E m \in mints : ServeMint(m) \/ MintArrives(m) \/ MintFails(m)
    \/ Machine \/ Weather

(* Every call is answered or fails, and a mounted page goes on polling.    *)
Fairness ==
    /\ WF_vars(Fetch)
    /\ WF_vars(\E f \in fetches : ServeList(f) \/ ListArrives(f) \/ Retry(f) \/ GiveUp(f))
    /\ WF_vars(\E m \in mints : ServeMint(m) \/ MintArrives(m) \/ MintFails(m))

Spec == Init /\ [][Next]_vars /\ Fairness

(***************************************************************************)
(* Properties                                                              *)
(***************************************************************************)
Displayed == Mounted /\ dialog.open /\ dialog.code # NoCode

(* The code the dialog shows was minted for somebody who was signed in     *)
(* while this page was up: a call that a user left under way when the page *)
(* went away never shows its code on the page of the next user             *)
(* (AddNodeDialog).  It may be another than who is signed in now: the page *)
(* survives a change of user that does not unmount it.                     *)
CodeOfThisPage ==
    Displayed => issuer[dialog.code] \in hosts

(* A code on display is never replaced while somebody may be copying it:   *)
(* no late answer of an earlier call overwrites it (Close keeps `busy`, so *)
(* there is no earlier call).                                              *)
CodeStaysPut ==
    [][Displayed /\ Displayed' => dialog'.code = dialog.code]_vars

(* The cache is shared by whoever uses the tab, so a page may start with   *)
(* the previous user's machines; once it has had one answer to a call of   *)
(* its own users it never shows those of anybody before them again         *)
(* (FleetRoute's query).                                                   *)
OwnOnceFetched ==
    (Mounted /\ own) => data # NoData /\ data.of \in hosts

(* "watch nodes appear live": while a user stays on the page with the      *)
(* server in reach, it comes to show exactly their machines, whatever      *)
(* failed or was cached before (FleetRoute's refetchInterval).             *)
PageCatchesUp ==
    \A u \in Users :
        <>[](Mounted /\ cookie = u /\ ~outage)
            => <>[](data = [of |-> u, nodes |-> NodesOf(u)] /\ ~error)

(* "Generate pairing code" does not stay disabled: whatever happens to the *)
(* call, and although Close does not reset `busy` (mint's finally).        *)
ButtonComesBack == dialog.busy ~> ~dialog.busy
=============================================================================
