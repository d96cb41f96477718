-------------------------- MODULE DeviceInventory --------------------------
(***************************************************************************)
(* The devices of one node: the agent's discovery (inventory.go), the      *)
(* Connect handler that reads its reports and samples                      *)
(* (rpc/node-service.ts) and the transactions that store them:             *)
(* recordInventory and recordSamples (domain/nodes.ts).                    *)
(*                                                                         *)
(* A stream handles one message at a time.  An agent that reconnects has a *)
(* new stream while the server may still be storing what the old one sent, *)
(* so the transactions of several streams of the node interleave, one      *)
(* statement at a time, at PostgreSQL's READ COMMITTED:                    *)
(*   - a row that a transaction wrote is locked until it ends;             *)
(*   - an upsert waits for its row, then works on the last version of it;  *)
(*   - an UPDATE or DELETE picks its rows among the ones committed when it *)
(*     starts, waits for each, and skips the ones deleted meanwhile;       *)
(*   - of transactions that wait for one another, one is rolled back.      *)
(***************************************************************************)
EXTENDS Naturals, Sequences, FiniteSets, Relation

CONSTANTS
    Streams,      \* Connect streams of the node
    NoStream,
    LocalIds,     \* Device.local_id
    KnownKinds,   \* the kinds this control plane knows (KINDS of wire.ts)
    Discoveries,  \* what all probes together may find: [localId, kind]s in order
    MaxBatches,   \* bound on the sample batches of a stream
    NoRow,        \* no device row
    Untouched,    \* not written by the transaction
    Faults        \* a statement may fail for reasons of its own

(* What the table has of a device: the stream that inserted the row (its   *)
(* id), the one whose report wrote its facts, the kind, the last sample.   *)
Rows ==
    [by : Streams, from : Streams, kind : STRING,
     sample : {<<>>} \cup (Streams \X Nat)]

ASSUME InventoryAssumption ==
    /\ NoStream \notin Streams
    /\ Discoveries \subseteq Seq([localId : LocalIds, kind : STRING])
    /\ MaxBatches \in Nat
    /\ NoRow \notin Rows
    /\ Untouched \notin Rows
    /\ NoRow # Untouched
    /\ Faults \in BOOLEAN

VARIABLES
    devices,   \* the committed rows of the table, by localId
    write,     \* per stream: the rows its transaction has written
    picked,    \* per stream: the rows its UPDATE or DELETE has still to do
    pc,        \* per stream: what its handler does next
    report,    \* per stream: inv.Devices, once discovered
    todo,      \* per stream: indices of the devices still to upsert or sample
    batch,     \* per stream: how many batches of samples it has sent
    last,      \* history: the stream whose report was committed last
    met        \* history: streams whose report was not stored on its own

vars == <<devices, write, picked, pc, report, todo, batch, last, met>>

Init ==
    /\ devices = [d \in LocalIds |-> NoRow]
    /\ write = [s \in Streams |-> [d \in LocalIds |-> Untouched]]
    /\ picked = [s \in Streams |-> {}]
    /\ pc = [s \in Streams |-> "hello"]
    /\ report = [s \in Streams |-> <<>>]
    /\ todo = [s \in Streams |-> {}]
    /\ batch = [s \in Streams |-> 0]
    /\ last = NoStream
    /\ met = {}

(***************************************************************************)
(* Transactions                                                            *)
(***************************************************************************)
Locked(s, d) == \E t \in Streams \ {s} : write[t][d] # Untouched

(* The row as the statements of s see it.                                  *)
View(s, d) == IF write[s][d] = Untouched THEN devices[d] ELSE write[s][d]

(* A loop takes the devices of the report in order.                        *)
IsNext(s, i) == i \in todo[s] /\ \A j \in todo[s] : i <= j

(* The row a statement of s wants to write next, if any.                   *)
Wants(s) ==
    CASE pc[s] = "upsert" -> {report[s][i].localId : i \in {j \in todo[s] : IsNext(s, j)}}
      [] pc[s] \in {"delete", "update"} -> {p[1] : p \in picked[s]}
      [] OTHER -> {}

(* s cannot go on: each row it wants is locked (a DELETE takes its rows in *)
(* any order).                                                             *)
Waits(s, t) ==
    /\ s # t
    /\ Wants(s) # {}
    /\ \A d \in Wants(s) : Locked(s, d)
    /\ \E d \in Wants(s) : write[t][d] # Untouched

Deadlocked(s) ==
    TransitiveClosure([p \in Streams \X Streams |-> Waits(p[1], p[2])], Streams)[s, s]

InTransaction(s) == pc[s] \in {"upsert", "keep", "delete", "sample", "update"}
Storing(s)       == pc[s] \in {"upsert", "keep", "delete"}

(* Mutant: the connection goes back to the pool with the transaction open. *)
RolledBackLeftOpen(s) == write

(* What withOrg leaves of a transaction that failed.                       *)
RolledBack(s) == [write EXCEPT ![s] = [d \in LocalIds |-> Untouched]]

(* withOrg commits.                                                        *)
Commit(s) ==
    /\ devices' = [d \in LocalIds |-> View(s, d)]
    /\ write' = [write EXCEPT ![s] = [d \in LocalIds |-> Untouched]]

(* A statement fails, or is the victim of a deadlock: withOrg rejects, the *)
(* handler throws, the stream is over.                                     *)
Abort(s) ==
    /\ InTransaction(s)
    /\ Faults \/ Deadlocked(s)
    /\ write' = RolledBack(s)
    /\ picked' = [picked EXCEPT ![s] = {}]
    /\ todo' = [todo EXCEPT ![s] = {}]
    /\ pc' = [pc EXCEPT ![s] = "closed"]
    /\ UNCHANGED <<devices, report, batch, last, met>>

(***************************************************************************)
(* The report                                                              *)
(***************************************************************************)
(* Collect fails if two devices have the same LocalID.                     *)
Collects(found) ==
    \A i, j \in DOMAIN found : found[i].localId = found[j].localId => i = j

(* The devices of a report that have a kind this build knows.              *)
Known(devs) == {i \in DOMAIN devs : devs[i].kind \in KnownKinds}

(* keep: their ids.                                                        *)
Keep(devs) == {devs[i].localId : i \in Known(devs)}

(* A probe fails, or two find the same device: no report is sent.          *)
DiscoveryFails(s) ==
    /\ pc[s] = "hello"
    /\ Faults \/ \E found \in Discoveries : ~Collects(found)
    /\ pc' = [pc EXCEPT ![s] = "closed"]
    /\ UNCHANGED <<devices, write, picked, report, todo, batch, last, met>>

(* The handler reads an InventoryReport and starts the transaction.        *)
BeginInventory(s) ==
    /\ pc[s] = "hello"
    /\ \E found \in Discoveries :
          /\ Collects(found)
          /\ report' = [report EXCEPT ![s] = found]
          /\ todo' = [todo EXCEPT ![s] = Known(found)]
          /\ pc' = [pc EXCEPT ![s] = IF Known(found) = {} THEN "keep" ELSE "upsert"]
    /\ LET others == {t \in Streams \ {s} : Storing(t)}
       IN  met' = IF others = {} THEN met ELSE met \cup others \cup {s}
    /\ UNCHANGED <<devices, write, picked, batch, last>>

(* Mutant: on a conflict the row stays as it is.                           *)
UpsertedNothing(s, old, e) ==
    IF old = NoRow THEN [by |-> s, from |-> s, kind |-> e.kind, sample |-> <<>>] ELSE old

(* Mutant: on a conflict the whole row is replaced.                        *)
UpsertedWhole(s, old, e) ==
    [by |-> IF old = NoRow THEN s ELSE old.by, from |-> s, kind |-> e.kind, sample |-> <<>>]

(* insert ... on conflict do update set facts: a new row has the defaults  *)
(* of the table, an old one keeps its id and its sample.                   *)
Upserted(s, old, e) ==
    IF old = NoRow
    THEN [by |-> s, from |-> s, kind |-> e.kind, sample |-> <<>>]
    ELSE [old EXCEPT !.from = s, !.kind = e.kind]

Upsert(s) ==
    /\ pc[s] = "upsert"
    /\ \E i \in todo[s] :
          LET e == report[s][i] IN
          /\ IsNext(s, i)
          /\ ~Locked(s, e.localId)
          /\ write' = [write EXCEPT ![s][e.localId] = Upserted(s, View(s, e.localId), e)]
          /\ todo' = [todo EXCEPT ![s] = @ \ {i}]
          /\ pc' = [pc EXCEPT ![s] = IF todo[s] = {i} THEN "keep" ELSE @]
    /\ UNCHANGED <<devices, picked, report, batch, last, met>>

(* Mutant: with nothing to keep, nothing is deleted.                       *)
GoneUnlessEmpty(s) ==
    IF Known(report[s]) = {} THEN {}
    ELSE {d \in LocalIds : View(s, d) # NoRow /\ d \notin Keep(report[s])}

(* What the DELETE picks: the visible rows that are not in keep.           *)
Gone(s) == {d \in LocalIds : View(s, d) # NoRow /\ d \notin Keep(report[s])}

BeginDelete(s) ==
    /\ pc[s] = "keep"
    /\ picked' = [picked EXCEPT ![s] = {<<d, View(s, d).by>> : d \in Gone(s)}]
    /\ pc' = [pc EXCEPT ![s] = "delete"]
    /\ UNCHANGED <<devices, write, report, todo, batch, last, met>>

StillThere(p) == devices[p[1]] # NoRow /\ devices[p[1]].by = p[2]

DeleteRow(s) ==
    /\ pc[s] = "delete"
    /\ \E p \in picked[s] :
          /\ ~Locked(s, p[1])
          /\ write' = IF StillThere(p) THEN [write EXCEPT ![s][p[1]] = NoRow] ELSE write
          /\ picked' = [picked EXCEPT ![s] = @ \ {p}]
    /\ UNCHANGED <<devices, pc, report, todo, batch, last, met>>

CommitInventory(s) ==
    /\ pc[s] = "delete"
    /\ picked[s] = {}
    /\ Commit(s)
    /\ last' = s
    /\ pc' = [pc EXCEPT ![s] = "ready"]
    /\ UNCHANGED <<picked, report, todo, batch, met>>

(***************************************************************************)
(* Samples                                                                 *)
(***************************************************************************)

(* The agent samples the devices of its own report, in its order; the ones *)
(* that fail are left out, and nothing is sent if all do.                  *)
BeginSamples(s) ==
    /\ pc[s] = "ready"
    /\ batch[s] < MaxBatches
    /\ \E sampled \in (SUBSET DOMAIN report[s]) \ {{}} :
          todo' = [todo EXCEPT ![s] = sampled]
    /\ batch' = [batch EXCEPT ![s] = @ + 1]
    /\ pc' = [pc EXCEPT ![s] = "sample"]
    /\ UNCHANGED <<devices, write, picked, report, last, met>>

(* The UPDATE of the next sample picks its row, if there is one.           *)
BeginUpdate(s) ==
    /\ pc[s] = "sample"
    /\ \E i \in todo[s] :
          LET d == report[s][i].localId IN
          /\ IsNext(s, i)
          /\ picked' = [picked EXCEPT ![s] =
                IF devices[d] = NoRow THEN {} ELSE {<<d, devices[d].by>>}]
          /\ todo' = [todo EXCEPT ![s] = @ \ {i}]
    /\ pc' = [pc EXCEPT ![s] = "update"]
    /\ UNCHANGED <<devices, write, report, batch, last, met>>

MayWrite(s, p) == ~Locked(s, p[1])

Update(s) ==
    /\ pc[s] = "update"
    /\ \A p \in picked[s] : MayWrite(s, p)
    /\ write' = [write EXCEPT ![s] =
          [d \in LocalIds |->
              IF \E p \in picked[s] : p[1] = d /\ StillThere(p)
              THEN [devices[d] EXCEPT !.sample = <<s, batch[s]>>]
              ELSE write[s][d]]]
    /\ picked' = [picked EXCEPT ![s] = {}]
    /\ pc' = [pc EXCEPT ![s] = "sample"]
    /\ UNCHANGED <<devices, report, todo, batch, last, met>>

(* The heartbeat on the nodes row ends the transaction (see NodeLiveness). *)
CommitSamples(s) ==
    /\ pc[s] = "sample"
    /\ todo[s] = {}
    /\ Commit(s)
    /\ pc' = [pc EXCEPT ![s] = "ready"]
    /\ UNCHANGED <<picked, report, todo, batch, last, met>>

(* The stream ends between two messages.                                   *)
Close(s) ==
    /\ pc[s] \in {"hello", "ready"}
    /\ pc' = [pc EXCEPT ![s] = "closed"]
    /\ UNCHANGED <<devices, write, picked, report, todo, batch, last, met>>

Step(s) ==
    \/ Upsert(s) \/ BeginDelete(s) \/ DeleteRow(s) \/ CommitInventory(s)
    \/ BeginUpdate(s) \/ Update(s) \/ CommitSamples(s)

Next ==
    \E s \in Streams :
        \/ DiscoveryFails(s) \/ BeginInventory(s) \/ BeginSamples(s) \/ Close(s)
        \/ Step(s) \/ Abort(s)

Spec == Init /\ [][Next]_vars

(* The database executes every statement it can, and its deadlock detector *)
(* runs.  Nobody has to send a message.                                    *)
Fairness ==
    \A s \in Streams :
        /\ WF_vars(Step(s))
        /\ WF_vars(Deadlocked(s) /\ Abort(s))

FairSpec == Spec /\ Fairness

(***************************************************************************)
(* Properties                                                              *)
(***************************************************************************)

Stored == {d \in LocalIds : devices[d] # NoRow}

(* However transactions of the node's streams interleave, fail or          *)
(* deadlock, the report that was committed last is stored in full: each    *)
(* device it named with a known kind has a row with the facts of that      *)
(* report (recordInventory's upserts).                                     *)
LastReportStored ==
    last # NoStream =>
        \A i \in Known(report[last]) : LET e == report[last][i] IN
            /\ devices[e.localId] # NoRow
            /\ devices[e.localId].from = last
            /\ devices[e.localId].kind = e.kind

(* A report whose transaction overlapped no other report of the node is    *)
(* the complete list: nothing else is left in the table, and a report      *)
(* without a known device empties it (recordInventory's DELETE).           *)
ReportAloneIsComplete ==
    last \notin met \cup {NoStream} => Stored = Keep(report[last])

(* What docs/codebase.md says of every report: once all transactions are   *)
(* over, the devices are those of the report that was committed last.      *)
ReportIsComplete ==
    (last # NoStream /\ ~\E s \in Streams : InTransaction(s)) =>
        Stored = Keep(report[last])

(* The transactions implement AtomicInventory.                             *)
Atomic == INSTANCE AtomicInventory

(* Statement by statement, with locks, failures and deadlocks, the streams *)
(* change the table as if each report and each batch of samples were       *)
(* stored in one step: a report never loses a sample or puts an old one    *)
(* back, a sample never brings back a row or facts, a stream's sample is   *)
(* never replaced by an earlier one of its own, and only rows inserted by  *)
(* an overlapping report survive a report that does not name them          *)
(* (recordInventory and recordSamples, each in one withOrg).               *)
StoredAtomically == Atomic!Spec

(* No transaction of recordInventory or recordSamples waits for ever:      *)
(* deadlocks between two streams are broken by rolling one back, and a     *)
(* transaction that fails lets go of its rows (withOrg).                   *)
TransactionsEnd ==
    \A s \in Streams : InTransaction(s) ~> ~InTransaction(s)
=============================================================================
