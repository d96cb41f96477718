----------------------- MODULE DeviceInventoryProofs -----------------------
(***************************************************************************)
(* What DeviceInventory promises, for any number of streams, devices and   *)
(* batches, and whatever the agents discover: the report committed last is *)
(* stored in full, one stored on its own is the complete list, and the     *)
(* transactions implement AtomicInventory.                                 *)
(*                                                                         *)
(* The argument is about locks.  A row that a transaction has written is   *)
(* written by no other one until it ends, so what the transaction knew of  *)
(* the committed row when it wrote still holds when it commits.            *)
(***************************************************************************)
EXTENDS DeviceInventory, TLAPS

TypeInv ==
    /\ devices \in [LocalIds -> Rows \cup {NoRow}]
    /\ write \in [Streams -> [LocalIds -> Rows \cup {NoRow, Untouched}]]
    /\ picked \in [Streams -> SUBSET (LocalIds \X Streams)]
    /\ pc \in [Streams -> {"hello", "upsert", "keep", "delete", "ready", "sample",
                           "update", "closed"}]
    /\ report \in [Streams -> Seq([localId : LocalIds, kind : STRING])]
    /\ todo \in [Streams -> SUBSET Nat]
    /\ batch \in [Streams -> Nat]
    /\ last \in Streams \cup {NoStream}
    /\ met \in SUBSET Streams

(* A row is written by one transaction at a time, and by none that is over.*)
LockInv ==
    /\ \A s, t \in Streams : \A d \in LocalIds :
          write[s][d] # Untouched /\ write[t][d] # Untouched => s = t
    /\ \A s \in Streams : \A d \in LocalIds :
          write[s][d] # Untouched => InTransaction(s)

(* No device is twice in a report, and the loop is over its known ones.    *)
LoopInv ==
    \A s \in Streams :
        /\ Collects(report[s])
        /\ todo[s] \subseteq DOMAIN report[s]
        /\ pc[s] = "upsert" => todo[s] \subseteq Known(report[s])
        /\ pc[s] \in {"keep", "delete"} => todo[s] = {}

HasFacts(row, s, e) ==
    row \in Rows /\ row.from = s /\ row.kind = e.kind

(* The devices the loop has passed are written with their facts...         *)
PassedInv ==
    \A s \in Streams : Storing(s) =>
        \A i \in Known(report[s]) : i \notin todo[s] =>
            HasFacts(write[s][report[s][i].localId], s, report[s][i])

(* ...nothing but these is, and only other rows are deleted.               *)
WrittenInv ==
    \A s \in Streams : Storing(s) =>
        /\ \A d \in LocalIds : write[s][d] \in Rows => d \in Keep(report[s])
        /\ \A d \in LocalIds : write[s][d] = NoRow => pc[s] = "delete"
        /\ pc[s] = "delete" => \A p \in picked[s] : p[1] \notin Keep(report[s])

(* A report writes over the sample and the identity that are committed, or *)
(* inserts a row without a sample.                                         *)
KeepsInv ==
    \A s \in Streams : Storing(s) =>
        \A d \in LocalIds : write[s][d] \in Rows =>
            IF devices[d] = NoRow
            THEN write[s][d].by = s /\ write[s][d].sample = <<>>
            ELSE /\ write[s][d].by = devices[d].by
                 /\ write[s][d].sample = devices[d].sample

(* A sample writes over the identity and the facts that are committed.     *)
SampleInv ==
    \A s \in Streams : pc[s] \in {"sample", "update"} =>
        \A d \in LocalIds : write[s][d] # Untouched =>
            /\ devices[d] # NoRow
            /\ write[s][d] \in Rows
            /\ write[s][d].by = devices[d].by
            /\ write[s][d].from = devices[d].from
            /\ write[s][d].kind = devices[d].kind
            /\ write[s][d].sample = <<s, batch[s]>>

(* A committed sample is of a batch its stream has sent, and of an earlier *)
(* one than the batch it is storing.                                       *)
StampInv ==
    \A s \in Streams :
        /\ batch[s] <= MaxBatches
        /\ pc[s] \in {"sample", "update"} => batch[s] > 0
        /\ \A d \in LocalIds : \A m \in Nat :
              devices[d] # NoRow /\ devices[d].sample = <<s, m>> =>
                  /\ m <= batch[s]
                  /\ pc[s] \in {"sample", "update"} => m < batch[s]

(* Of two reports being stored at the same time both are in met.           *)
AloneInv ==
    \A s \in Streams : Storing(s) /\ s \notin met =>
        \A t \in Streams : Storing(t) => t = s

(* A DELETE has picked every row that is to go, but for rows inserted by   *)
(* reports that are stored at the same time.                               *)
GoneInv ==
    \A s \in Streams : pc[s] = "delete" =>
        \A d \in LocalIds : d \notin Keep(report[s]) /\ View(s, d) # NoRow =>
            \/ <<d, devices[d].by>> \in picked[s]
            \/ s \in met /\ devices[d].by \in met

LastInv ==
    /\ last # NoStream => pc[last] \in {"ready", "sample", "update", "closed"}
    /\ LastReportStored
    /\ ReportAloneIsComplete

IInv ==
    /\ TypeInv /\ LockInv /\ LoopInv /\ PassedInv /\ WrittenInv /\ KeepsInv
    /\ SampleInv /\ StampInv /\ AloneInv /\ GoneInv /\ LastInv

(***************************************************************************)
(* Each step preserves the invariant                                       *)
(***************************************************************************)
LEMMA Markers == NoRow \notin Rows /\ Untouched \notin Rows /\ NoRow # Untouched
  BY InventoryAssumption

LEMMA EntryOf ==
    ASSUME NEW S, NEW seq \in Seq(S), NEW i \in DOMAIN seq
    PROVE  i \in Nat /\ seq[i] \in S
  OBVIOUS

LEMMA ReportEntry ==
    ASSUME NEW devs \in Seq([localId : LocalIds, kind : STRING]), NEW i \in DOMAIN devs
    PROVE  i \in Nat /\ devs[i].localId \in LocalIds /\ devs[i].kind \in STRING
<1>1. i \in Nat /\ devs[i] \in [localId : LocalIds, kind : STRING]
  BY EntryOf
<1> QED
  BY <1>1

(* Only the program counter of s changes, and s has no transaction.        *)
LEMMA EndStep ==
    ASSUME IInv, NEW s \in Streams, DiscoveryFails(s) \/ Close(s)
    PROVE  IInv'
<1>1. /\ pc[s] \in {"hello", "ready"} /\ pc'[s] = "closed"
      /\ pc' \in [Streams -> {"hello", "upsert", "keep", "delete", "ready", "sample",
                              "update", "closed"}]
      /\ \A t \in Streams : t # s => pc'[t] = pc[t]
      /\ UNCHANGED <<devices, write, picked, report, todo, batch, last, met>>
  BY DEF IInv, TypeInv, DiscoveryFails, Close
<1>2. TypeInv'
  BY <1>1 DEF IInv, TypeInv
<1>3. LockInv'
  BY <1>1 DEF IInv, LockInv, InTransaction
<1>4. LoopInv'
  BY <1>1 DEF IInv, LoopInv
<1>5. PassedInv'
  BY <1>1 DEF IInv, PassedInv, Storing
<1>6. WrittenInv'
  BY <1>1 DEF IInv, WrittenInv, Storing
<1>7. KeepsInv'
  BY <1>1 DEF IInv, KeepsInv, Storing
<1>8. SampleInv'
  BY <1>1 DEF IInv, SampleInv
<1>9. StampInv'
  BY <1>1 DEF IInv, StampInv
<1>10. AloneInv'
  BY <1>1 DEF IInv, AloneInv, Storing
<1>11. GoneInv'
  BY <1>1 DEF IInv, GoneInv, View
<1>12. LastInv'
  BY <1>1 DEF IInv, TypeInv, LastInv, LastReportStored, ReportAloneIsComplete, Stored
<1> QED
  BY <1>2, <1>3, <1>4, <1>5, <1>6, <1>7, <1>8, <1>9, <1>10, <1>11, <1>12 DEF IInv

(* A report arrives: a transaction begins that has written nothing yet.    *)
LEMMA BeginInventoryStep ==
    ASSUME IInv, NEW s \in Streams, BeginInventory(s)
    PROVE  IInv'
<1>1. PICK found \in Discoveries :
          /\ Collects(found)
          /\ report' = [report EXCEPT ![s] = found]
          /\ todo' = [todo EXCEPT ![s] = Known(found)]
          /\ pc' = [pc EXCEPT ![s] = IF Known(found) = {} THEN "keep" ELSE "upsert"]
  BY DEF BeginInventory
<1>2. found \in Seq([localId : LocalIds, kind : STRING])
  BY InventoryAssumption
<1>3. Known(found) \in SUBSET Nat
  BY <1>2, ReportEntry DEF Known
<1>4. /\ pc[s] = "hello"
      /\ pc'[s] \in {"keep", "upsert"} /\ (pc'[s] = "keep" => Known(found) = {})
      /\ report'[s] = found /\ todo'[s] = Known(found)
      /\ \A t \in Streams : t # s =>
            pc'[t] = pc[t] /\ report'[t] = report[t] /\ todo'[t] = todo[t]
      /\ UNCHANGED <<devices, write, picked, batch, last>>
  BY <1>1 DEF IInv, TypeInv, BeginInventory
<1>5. /\ met \subseteq met' /\ met' \in SUBSET Streams
      /\ \A t \in Streams : t # s /\ Storing(t) => t \in met' /\ s \in met'
  BY DEF IInv, TypeInv, BeginInventory
<1>6. \A d \in LocalIds : write[s][d] = Untouched
  BY <1>4 DEF IInv, LockInv, InTransaction
<1>7. TypeInv'
  <2>1. report' \in [Streams -> Seq([localId : LocalIds, kind : STRING])]
    BY <1>1, <1>2 DEF IInv, TypeInv
  <2>2. todo' \in [Streams -> SUBSET Nat]
    BY <1>1, <1>3 DEF IInv, TypeInv
  <2>3. pc' \in [Streams -> {"hello", "upsert", "keep", "delete", "ready", "sample",
                             "update", "closed"}]
    BY <1>1 DEF IInv, TypeInv
  <2> QED
    BY <2>1, <2>2, <2>3, <1>4, <1>5 DEF IInv, TypeInv
<1>8. LockInv'
  BY <1>4, <1>6 DEF IInv, LockInv, InTransaction
<1>9. LoopInv'
  BY <1>1, <1>4 DEF IInv, LoopInv, Known
<1>10. PassedInv'
  BY <1>4 DEF IInv, PassedInv, Storing
<1>11. WrittenInv'
  BY <1>4, <1>6, Markers DEF IInv, WrittenInv, Storing
<1>12. KeepsInv'
  BY <1>4, <1>6, Markers DEF IInv, KeepsInv, Storing
<1>13. SampleInv'
  BY <1>4 DEF IInv, SampleInv
<1>14. StampInv'
  BY <1>4 DEF IInv, StampInv
<1>15. AloneInv'
  BY <1>4, <1>5 DEF IInv, AloneInv, Storing
<1>16. GoneInv'
  BY <1>4, <1>5 DEF IInv, GoneInv, View
<1>17. LastInv'
  BY <1>4, <1>5 DEF IInv, TypeInv, LastInv, LastReportStored, ReportAloneIsComplete, Stored
<1> QED
  BY <1>7, <1>8, <1>9, <1>10, <1>11, <1>12, <1>13, <1>14, <1>15, <1>16, <1>17 DEF IInv

(* A batch of samples arrives.                                             *)
LEMMA BeginSamplesStep ==
    ASSUME IInv, NEW s \in Streams, BeginSamples(s)
    PROVE  IInv'
<1>1. PICK sampled \in SUBSET DOMAIN report[s] : todo' = [todo EXCEPT ![s] = sampled]
  BY DEF BeginSamples
<1>2. sampled \in SUBSET Nat
  BY ReportEntry DEF IInv, TypeInv
<1>3. /\ pc[s] = "ready" /\ pc'[s] = "sample"
      /\ \A t \in Streams : t # s =>
            pc'[t] = pc[t] /\ todo'[t] = todo[t] /\ batch'[t] = batch[t]
      /\ UNCHANGED <<devices, write, picked, report, last, met>>
  BY <1>1 DEF IInv, TypeInv, BeginSamples
<1>4. \A d \in LocalIds : write[s][d] = Untouched
  BY <1>3 DEF IInv, LockInv, InTransaction
<1>5. TypeInv'
  <2>1. todo' \in [Streams -> SUBSET Nat]
    BY <1>1, <1>2 DEF IInv, TypeInv
  <2>2. batch' \in [Streams -> Nat]
    BY DEF IInv, TypeInv, BeginSamples
  <2>3. pc' \in [Streams -> {"hello", "upsert", "keep", "delete", "ready", "sample",
                             "update", "closed"}]
    BY DEF IInv, TypeInv, BeginSamples
  <2> QED
    BY <2>1, <2>2, <2>3, <1>3 DEF IInv, TypeInv
<1>6. LockInv'
  BY <1>3, <1>4 DEF IInv, LockInv, InTransaction
<1>7. LoopInv'
  <2>1. todo'[s] = sampled
    BY <1>1 DEF IInv, TypeInv
  <2> QED
    BY <2>1, <1>3 DEF IInv, LoopInv
<1>8. PassedInv'
  BY <1>3 DEF IInv, PassedInv, Storing
<1>9. WrittenInv'
  BY <1>3 DEF IInv, WrittenInv, Storing
<1>10. KeepsInv'
  BY <1>3 DEF IInv, KeepsInv, Storing
<1>11. SampleInv'
  BY <1>3, <1>4 DEF IInv, SampleInv
<1>12. StampInv'
  <2>1. /\ batch[s] < MaxBatches /\ batch'[s] = batch[s] + 1
        /\ \A t \in Streams : batch[t] \in Nat
        /\ MaxBatches \in Nat
    BY InventoryAssumption DEF IInv, TypeInv, BeginSamples
  <2> QED
    BY <2>1, <1>3 DEF IInv, StampInv
<1>13. AloneInv'
  BY <1>3 DEF IInv, AloneInv, Storing
<1>14. GoneInv'
  BY <1>3 DEF IInv, GoneInv, View
<1>15. LastInv'
  BY <1>3 DEF IInv, TypeInv, LastInv, LastReportStored, ReportAloneIsComplete, Stored
<1> QED
  BY <1>5, <1>6, <1>7, <1>8, <1>9, <1>10, <1>11, <1>12, <1>13, <1>14, <1>15 DEF IInv

(* The DELETE starts: it picks every row the transaction sees that the     *)
(* report does not have.                                                   *)
LEMMA BeginDeleteStep ==
    ASSUME IInv, NEW s \in Streams, BeginDelete(s)
    PROVE  IInv'
<1>1. /\ pc[s] = "keep" /\ pc'[s] = "delete"
      /\ picked'[s] = {<<d, View(s, d).by>> : d \in Gone(s)}
      /\ \A t \in Streams : t # s => pc'[t] = pc[t] /\ picked'[t] = picked[t]
      /\ UNCHANGED <<devices, write, report, todo, batch, last, met>>
  BY DEF IInv, TypeInv, BeginDelete
<1>2. \A d \in Gone(s) : d \in LocalIds /\ d \notin Keep(report[s]) /\ View(s, d) # NoRow
  BY DEF Gone
<1>3. \A d \in Gone(s) : write[s][d] = Untouched /\ devices[d] \in Rows
  BY <1>1, <1>2 DEF IInv, TypeInv, WrittenInv, Storing, View
<1>4. \A d \in Gone(s) : View(s, d).by = devices[d].by /\ devices[d].by \in Streams
  BY <1>3 DEF View, Rows
<1>5. TypeInv'
  <2>1. picked'[s] \in SUBSET (LocalIds \X Streams)
    BY <1>1, <1>2, <1>4
  <2>2. picked' \in [Streams -> SUBSET (LocalIds \X Streams)]
    BY <2>1, <1>1 DEF IInv, TypeInv, BeginDelete
  <2>3. pc' \in [Streams -> {"hello", "upsert", "keep", "delete", "ready", "sample",
                             "update", "closed"}]
    BY DEF IInv, TypeInv, BeginDelete
  <2> QED
    BY <2>2, <2>3, <1>1 DEF IInv, TypeInv
<1>6. LockInv'
  BY <1>1 DEF IInv, LockInv, InTransaction
<1>7. LoopInv'
  BY <1>1 DEF IInv, LoopInv
<1>8. PassedInv'
  BY <1>1 DEF IInv, PassedInv, Storing
<1>9. WrittenInv'
  BY <1>1, <1>2 DEF IInv, WrittenInv, Storing
<1>10. KeepsInv'
  BY <1>1 DEF IInv, KeepsInv, Storing
<1>11. SampleInv'
  BY <1>1 DEF IInv, SampleInv
<1>12. StampInv'
  BY <1>1 DEF IInv, StampInv
<1>13. AloneInv'
  BY <1>1 DEF IInv, AloneInv, Storing
<1>14. GoneInv'
  <2>1. ASSUME NEW d \in LocalIds, d \notin Keep(report[s]), View(s, d) # NoRow
        PROVE  <<d, devices[d].by>> \in picked'[s]
    <3>1. d \in Gone(s)
      BY <2>1 DEF Gone
    <3> QED
      BY <3>1, <1>1, <1>4
  <2> QED
    BY <2>1, <1>1 DEF IInv, GoneInv, View
<1>15. LastInv'
  BY <1>1 DEF IInv, TypeInv, LastInv, LastReportStored, ReportAloneIsComplete, Stored
<1> QED
  BY <1>5, <1>6, <1>7, <1>8, <1>9, <1>10, <1>11, <1>12, <1>13, <1>14, <1>15 DEF IInv

(* The UPDATE of a sample starts.                                          *)
LEMMA BeginUpdateStep ==
    ASSUME IInv, NEW s \in Streams, BeginUpdate(s)
    PROVE  IInv'
<1>1. PICK i \in todo[s] :
          /\ picked' = [picked EXCEPT ![s] =
                IF devices[report[s][i].localId] = NoRow THEN {}
                ELSE {<<report[s][i].localId, devices[report[s][i].localId].by>>}]
          /\ todo' = [todo EXCEPT ![s] = @ \ {i}]
  BY DEF BeginUpdate
<1>2. /\ pc[s] = "sample" /\ pc'[s] = "update"
      /\ \A t \in Streams : t # s =>
            pc'[t] = pc[t] /\ picked'[t] = picked[t] /\ todo'[t] = todo[t]
      /\ UNCHANGED <<devices, write, report, batch, last, met>>
  BY <1>1 DEF IInv, TypeInv, BeginUpdate
<1>3. TypeInv'
  <2>1. i \in DOMAIN report[s]
    BY <1>2 DEF IInv, LoopInv
  <2>2. report[s][i].localId \in LocalIds
    BY <2>1, ReportEntry DEF IInv, TypeInv
  <2>3. devices[report[s][i].localId] # NoRow => devices[report[s][i].localId].by \in Streams
    BY <2>2 DEF IInv, TypeInv, Rows
  <2>4. picked' \in [Streams -> SUBSET (LocalIds \X Streams)]
    BY <1>1, <2>2, <2>3 DEF IInv, TypeInv
  <2>5. todo' \in [Streams -> SUBSET Nat]
    BY <1>1 DEF IInv, TypeInv
  <2>6. pc' \in [Streams -> {"hello", "upsert", "keep", "delete", "ready", "sample",
                             "update", "closed"}]
    BY DEF IInv, TypeInv, BeginUpdate
  <2> QED
    BY <2>4, <2>5, <2>6, <1>2 DEF IInv, TypeInv
<1>4. LockInv'
  BY <1>2 DEF IInv, LockInv, InTransaction
<1>5. LoopInv'
  <2>1. todo'[s] \subseteq todo[s]
    BY <1>1 DEF IInv, TypeInv
  <2> QED
    BY <2>1, <1>2 DEF IInv, LoopInv
<1>6. PassedInv'
  BY <1>2 DEF IInv, PassedInv, Storing
<1>7. WrittenInv'
  BY <1>2 DEF IInv, WrittenInv, Storing
<1>8. KeepsInv'
  BY <1>2 DEF IInv, KeepsInv, Storing
<1>9. SampleInv'
  BY <1>2 DEF IInv, SampleInv
<1>10. StampInv'
  BY <1>2 DEF IInv, StampInv
<1>11. AloneInv'
  BY <1>2 DEF IInv, AloneInv, Storing
<1>12. GoneInv'
  BY <1>2 DEF IInv, GoneInv, View
<1>13. LastInv'
  BY <1>2 DEF IInv, TypeInv, LastInv, LastReportStored, ReportAloneIsComplete, Stored
<1> QED
  BY <1>3, <1>4, <1>5, <1>6, <1>7, <1>8, <1>9, <1>10, <1>11, <1>12, <1>13 DEF IInv

(* An upsert writes the next device with its facts, over the last version  *)
(* of the row, which nobody else has written.                              *)
LEMMA UpsertStep ==
    ASSUME IInv, NEW s \in Streams, Upsert(s)
    PROVE  IInv'
<1>1. PICK i \in todo[s] :
          /\ ~Locked(s, report[s][i].localId)
          /\ write' = [write EXCEPT ![s][report[s][i].localId] =
                Upserted(s, View(s, report[s][i].localId), report[s][i])]
          /\ todo' = [todo EXCEPT ![s] = @ \ {i}]
          /\ pc' = [pc EXCEPT ![s] = IF todo[s] = {i} THEN "keep" ELSE @]
  BY DEF Upsert
<1> DEFINE e == report[s][i]
           x == e.localId
           row == Upserted(s, View(s, x), e)
<1>2. i \in Known(report[s]) /\ x \in Keep(report[s]) /\ x \in LocalIds /\ e.kind \in STRING
  <2>1. i \in Known(report[s])
    BY DEF IInv, LoopInv, Upsert
  <2>2. i \in DOMAIN report[s]
    BY <2>1 DEF Known
  <2> QED
    BY <2>1, <2>2, ReportEntry DEF IInv, TypeInv, Keep
<1>3. View(s, x) \in Rows \cup {NoRow}
  BY <1>2 DEF IInv, TypeInv, View
<1>4. /\ HasFacts(row, s, e)
      /\ View(s, x) # NoRow => row.by = View(s, x).by /\ row.sample = View(s, x).sample
      /\ View(s, x) = NoRow => row.by = s /\ row.sample = <<>>
  BY <1>2, <1>3 DEF Upserted, HasFacts, Rows
<1> HIDE DEF row, x, e
<1>5. /\ pc[s] = "upsert" /\ pc'[s] \in {"upsert", "keep"}
      /\ pc'[s] = "keep" => todo'[s] = {}
      /\ todo'[s] = todo[s] \ {i}
      /\ \A t \in Streams : t # s => pc'[t] = pc[t] /\ todo'[t] = todo[t]
      /\ UNCHANGED <<devices, picked, report, batch, last, met>>
  BY <1>1 DEF IInv, TypeInv, Upsert
<1>6. /\ write'[s][x] = row
      /\ \A t \in Streams : \A d \in LocalIds : t # s \/ d # x => write'[t][d] = write[t][d]
      /\ write' \in [Streams -> [LocalIds -> Rows \cup {NoRow, Untouched}]]
  BY <1>1, <1>2, <1>4 DEF IInv, TypeInv, HasFacts, row, x, e
<1>7. \A t \in Streams : t # s => write[t][x] = Untouched
  BY <1>1 DEF Locked, x, e
<1>8. TypeInv'
  <2>1. todo' \in [Streams -> SUBSET Nat]
    BY <1>1 DEF IInv, TypeInv
  <2>2. pc' \in [Streams -> {"hello", "upsert", "keep", "delete", "ready", "sample",
                             "update", "closed"}]
    BY <1>1 DEF IInv, TypeInv
  <2> QED
    BY <2>1, <2>2, <1>5, <1>6 DEF IInv, TypeInv
<1>9. LockInv'
  BY <1>2, <1>5, <1>6, <1>7 DEF IInv, LockInv, InTransaction
<1>10. LoopInv'
  BY <1>5 DEF IInv, LoopInv
<1>11. PassedInv'
  <2> SUFFICES ASSUME NEW t \in Streams, Storing(t)', NEW j \in Known(report[t]), j \notin todo'[t]
               PROVE  HasFacts(write'[t][report[t][j].localId], t, report[t][j])
    BY <1>5 DEF PassedInv
  <2>1. report[t][j].localId \in LocalIds
    BY ReportEntry DEF IInv, TypeInv, Known
  <2>2. CASE t = s /\ j = i
    BY <2>2, <1>4, <1>6 DEF x, e
  <2>3. CASE t = s /\ j # i
    <3>1. report[t][j].localId # x
      BY <2>3, <1>2 DEF IInv, LoopInv, Collects, Known, x, e
    <3> QED
      BY <3>1, <2>1, <2>3, <1>5, <1>6 DEF IInv, PassedInv, Storing
  <2>4. CASE t # s
    BY <2>1, <2>4, <1>5, <1>6 DEF IInv, PassedInv, Storing
  <2> QED
    BY <2>2, <2>3, <2>4
<1>12. WrittenInv'
  BY <1>2, <1>4, <1>5, <1>6, Markers DEF IInv, WrittenInv, Storing, HasFacts
<1>13. KeepsInv'
  <2>1. devices[x] # NoRow => row.by = devices[x].by /\ row.sample = devices[x].sample
    BY <1>2, <1>3, <1>4, <1>5 DEF IInv, KeepsInv, WrittenInv, Storing, View
  <2>2. devices[x] = NoRow => row.by = s /\ row.sample = <<>>
    BY <1>2, <1>3, <1>4, <1>5 DEF IInv, KeepsInv, Storing, View
  <2> QED
    BY <2>1, <2>2, <1>2, <1>5, <1>6 DEF IInv, KeepsInv, Storing
<1>14. SampleInv'
  BY <1>5, <1>6 DEF IInv, SampleInv
<1>15. StampInv'
  BY <1>5 DEF IInv, StampInv
<1>16. AloneInv'
  BY <1>5 DEF IInv, AloneInv, Storing
<1>17. GoneInv'
  BY <1>5, <1>6 DEF IInv, GoneInv, View
<1>18. LastInv'
  BY <1>5 DEF IInv, TypeInv, LastInv, LastReportStored, ReportAloneIsComplete, Stored
<1> QED
  BY <1>8, <1>9, <1>10, <1>11, <1>12, <1>13, <1>14, <1>15, <1>16, <1>17, <1>18 DEF IInv

(* The DELETE reaches one of its rows, which nobody has written, and skips *)
(* it if it is not the row it picked.                                      *)
LEMMA DeleteRowStep ==
    ASSUME IInv, NEW s \in Streams, DeleteRow(s)
    PROVE  IInv'
<1>1. PICK p \in picked[s] :
          /\ ~Locked(s, p[1])
          /\ write' = IF StillThere(p) THEN [write EXCEPT ![s][p[1]] = NoRow] ELSE write
          /\ picked' = [picked EXCEPT ![s] = @ \ {p}]
  BY DEF DeleteRow
<1>2. p[1] \in LocalIds /\ p = <<p[1], p[2]>>
  BY DEF IInv, TypeInv
<1>3. /\ pc[s] = "delete" /\ p[1] \notin Keep(report[s])
      /\ picked'[s] = picked[s] \ {p}
      /\ \A t \in Streams : t # s => picked'[t] = picked[t]
      /\ UNCHANGED <<devices, pc, report, todo, batch, last, met>>
  BY <1>1 DEF IInv, TypeInv, WrittenInv, Storing, DeleteRow
<1>4. /\ \A t \in Streams : \A d \in LocalIds : t # s \/ d # p[1] => write'[t][d] = write[t][d]
      /\ IF StillThere(p) THEN write'[s][p[1]] = NoRow ELSE write' = write
      /\ write' \in [Streams -> [LocalIds -> Rows \cup {NoRow, Untouched}]]
  BY <1>1, <1>2 DEF IInv, TypeInv
<1>5. \A t \in Streams : t # s => write[t][p[1]] = Untouched
  BY <1>1 DEF Locked
<1>6. TypeInv'
  <2>1. picked' \in [Streams -> SUBSET (LocalIds \X Streams)]
    BY <1>1 DEF IInv, TypeInv
  <2> QED
    BY <2>1, <1>3, <1>4 DEF IInv, TypeInv
<1>7. LockInv'
  BY <1>2, <1>3, <1>4, <1>5 DEF IInv, LockInv, InTransaction
<1>8. LoopInv'
  BY <1>3 DEF IInv, LoopInv
<1>9. PassedInv'
  <2> SUFFICES ASSUME NEW t \in Streams, Storing(t), NEW j \in Known(report[t]), j \notin todo[t]
               PROVE  HasFacts(write'[t][report[t][j].localId], t, report[t][j])
    BY <1>3 DEF PassedInv, Storing
  <2>1. report[t][j].localId \in LocalIds
    BY ReportEntry DEF IInv, TypeInv, Known
  <2>2. t = s => report[t][j].localId # p[1]
    BY <1>3 DEF Keep
  <2> QED
    BY <2>1, <2>2, <1>4 DEF IInv, PassedInv
<1>10. WrittenInv'
  BY <1>2, <1>3, <1>4, Markers DEF IInv, WrittenInv, Storing
<1>11. KeepsInv'
  BY <1>2, <1>3, <1>4, Markers DEF IInv, KeepsInv, Storing
<1>12. SampleInv'
  BY <1>3, <1>4 DEF IInv, SampleInv
<1>13. StampInv'
  BY <1>3 DEF IInv, StampInv
<1>14. AloneInv'
  BY <1>3 DEF IInv, AloneInv, Storing
<1>15. GoneInv'
  <2> SUFFICES ASSUME NEW t \in Streams, pc[t] = "delete",
                      NEW d \in LocalIds, d \notin Keep(report[t]), View(t, d)' # NoRow,
                      ~(t \in met /\ devices[d].by \in met)
               PROVE  <<d, devices[d].by>> \in picked'[t]
    BY <1>3 DEF GoneInv
  <2>1. CASE t = s /\ d = p[1]
    <3>1. ~StillThere(p) /\ write' = write
      BY <2>1, <1>3, <1>4, Markers DEF View
    <3>2. View(s, d) # NoRow
      BY <3>1, <2>1, <1>3 DEF View
    <3>3. <<d, devices[d].by>> \in picked[s]
      BY <3>2, <2>1 DEF IInv, GoneInv
    <3>4. devices[d] # NoRow
      BY <3>2, <2>1, <1>3 DEF IInv, TypeInv, WrittenInv, Storing, View
    <3> QED
      BY <3>1, <3>3, <3>4, <2>1, <1>2, <1>3 DEF StillThere
  <2>2. CASE t # s \/ d # p[1]
    <3>1. View(t, d) # NoRow
      BY <2>2, <1>3, <1>4 DEF View
    <3>2. <<d, devices[d].by>> \in picked[t]
      BY <3>1 DEF IInv, GoneInv
    <3> QED
      BY <3>2, <2>2, <1>2, <1>3
  <2> QED
    BY <2>1, <2>2
<1>16. LastInv'
  BY <1>3 DEF IInv, LastInv, LastReportStored, ReportAloneIsComplete, Stored
<1> QED
  BY <1>6, <1>7, <1>8, <1>9, <1>10, <1>11, <1>12, <1>13, <1>14, <1>15, <1>16 DEF IInv

(* The UPDATE writes the sample over the committed row it picked, if that  *)
(* is still there.                                                         *)
LEMMA UpdateStep ==
    ASSUME IInv, NEW s \in Streams, Update(s)
    PROVE  IInv'
<1>1. /\ pc[s] = "update" /\ pc'[s] = "sample"
      /\ \A t \in Streams : t # s =>
            pc'[t] = pc[t] /\ picked'[t] = picked[t] /\ write'[t] = write[t]
      /\ UNCHANGED <<devices, report, todo, batch, last, met>>
  BY DEF IInv, TypeInv, Update
<1> DEFINE Hit(d) == \E p \in picked[s] : p[1] = d /\ StillThere(p)
           row(d) == [devices[d] EXCEPT !.sample = <<s, batch[s]>>]
<1>2. \A d \in LocalIds : write'[s][d] = IF Hit(d) THEN row(d) ELSE write[s][d]
  BY DEF IInv, TypeInv, Update
<1>3. ASSUME NEW d \in LocalIds, Hit(d)
      PROVE  /\ devices[d] \in Rows
             /\ \A t \in Streams : t # s => write[t][d] = Untouched
  BY <1>3 DEF IInv, TypeInv, StillThere, Update, MayWrite, Locked
<1>4. ASSUME NEW d \in LocalIds, Hit(d)
      PROVE  /\ row(d) \in Rows /\ row(d).by = devices[d].by
             /\ row(d).from = devices[d].from /\ row(d).kind = devices[d].kind
             /\ row(d).sample = <<s, batch[s]>>
  <2>1. devices[d] \in Rows /\ <<s, batch[s]>> \in Streams \X Nat
    BY <1>3, <1>4 DEF IInv, TypeInv
  <2> QED
    BY <2>1 DEF Rows
<1> HIDE DEF Hit, row
<1>5. TypeInv'
  <2>1. \A d \in LocalIds : write'[s][d] \in Rows \cup {NoRow, Untouched}
    BY <1>2, <1>4 DEF IInv, TypeInv
  <2>2. write' \in [Streams -> [LocalIds -> Rows \cup {NoRow, Untouched}]]
    BY <2>1 DEF IInv, TypeInv, Update
  <2>3. picked' \in [Streams -> SUBSET (LocalIds \X Streams)]
    BY DEF IInv, TypeInv, Update
  <2>4. pc' \in [Streams -> {"hello", "upsert", "keep", "delete", "ready", "sample",
                             "update", "closed"}]
    BY DEF IInv, TypeInv, Update
  <2> QED
    BY <2>2, <2>3, <2>4, <1>1 DEF IInv, TypeInv
<1>6. LockInv'
  BY <1>1, <1>2, <1>3 DEF IInv, LockInv, InTransaction
<1>7. LoopInv'
  BY <1>1 DEF IInv, LoopInv
<1>8. PassedInv'
  BY <1>1 DEF IInv, PassedInv, Storing
<1>9. WrittenInv'
  BY <1>1 DEF IInv, WrittenInv, Storing
<1>10. KeepsInv'
  BY <1>1 DEF IInv, KeepsInv, Storing
<1>11. SampleInv'
  BY <1>1, <1>2, <1>3, <1>4, Markers DEF IInv, SampleInv
<1>12. StampInv'
  BY <1>1 DEF IInv, StampInv
<1>13. AloneInv'
  BY <1>1 DEF IInv, AloneInv, Storing
<1>14. GoneInv'
  BY <1>1 DEF IInv, GoneInv, View
<1>15. LastInv'
  BY <1>1 DEF IInv, TypeInv, LastInv, LastReportStored, ReportAloneIsComplete, Stored
<1> QED
  BY <1>5, <1>6, <1>7, <1>8, <1>9, <1>10, <1>11, <1>12, <1>13, <1>14, <1>15 DEF IInv

(* A commit makes the transaction's rows the committed ones.  No row that  *)
(* another transaction has written changes by it.                          *)
LEMMA CommitEffect ==
    ASSUME IInv, NEW s \in Streams, Commit(s)
    PROVE  /\ \A d \in LocalIds : devices'[d] = View(s, d) /\ write'[s][d] = Untouched
           /\ \A t \in Streams : t # s => write'[t] = write[t]
           /\ \A t \in Streams : \A d \in LocalIds :
                 t # s /\ write[t][d] # Untouched => devices'[d] = devices[d]
           /\ devices' \in [LocalIds -> Rows \cup {NoRow}]
           /\ write' \in [Streams -> [LocalIds -> Rows \cup {NoRow, Untouched}]]
<1>1. \A d \in LocalIds : View(s, d) \in Rows \cup {NoRow}
  BY DEF IInv, TypeInv, View
<1>2. /\ \A d \in LocalIds : devices'[d] = View(s, d)
      /\ devices' \in [LocalIds -> Rows \cup {NoRow}]
  BY <1>1 DEF Commit
<1>3. /\ \A d \in LocalIds : write'[s][d] = Untouched
      /\ \A t \in Streams : t # s => write'[t] = write[t]
      /\ write' \in [Streams -> [LocalIds -> Rows \cup {NoRow, Untouched}]]
  BY DEF IInv, TypeInv, Commit
<1>4. \A t \in Streams : \A d \in LocalIds :
          t # s /\ write[t][d] # Untouched => devices'[d] = devices[d]
  BY <1>2 DEF IInv, LockInv, View
<1> QED
  BY <1>2, <1>3, <1>4

LEMMA CommitInventoryStep ==
    ASSUME IInv, NEW s \in Streams, CommitInventory(s)
    PROVE  IInv'
<1>1. /\ pc[s] = "delete" /\ pc'[s] = "ready" /\ picked[s] = {} /\ last' = s
      /\ \A t \in Streams : t # s => pc'[t] = pc[t]
      /\ UNCHANGED <<picked, report, todo, batch, met>>
  BY DEF IInv, TypeInv, CommitInventory
<1>2. /\ \A d \in LocalIds : devices'[d] = View(s, d) /\ write'[s][d] = Untouched
      /\ \A t \in Streams : t # s => write'[t] = write[t]
      /\ \A t \in Streams : \A d \in LocalIds :
            t # s /\ write[t][d] # Untouched => devices'[d] = devices[d]
      /\ devices' \in [LocalIds -> Rows \cup {NoRow}]
      /\ write' \in [Streams -> [LocalIds -> Rows \cup {NoRow, Untouched}]]
  BY CommitEffect DEF CommitInventory
<1>3. TypeInv'
  <2>1. pc' \in [Streams -> {"hello", "upsert", "keep", "delete", "ready", "sample",
                             "update", "closed"}]
    BY DEF IInv, TypeInv, CommitInventory
  <2> QED
    BY <2>1, <1>1, <1>2 DEF IInv, TypeInv
<1>4. LockInv'
  BY <1>1, <1>2 DEF IInv, LockInv, InTransaction
<1>5. LoopInv'
  BY <1>1 DEF IInv, LoopInv
<1>6. PassedInv'
  BY <1>1, <1>2 DEF IInv, PassedInv, Storing
<1>7. WrittenInv'
  BY <1>1, <1>2 DEF IInv, WrittenInv, Storing
<1>8. KeepsInv'
  BY <1>1, <1>2, Markers DEF IInv, KeepsInv, Storing
<1>9. SampleInv'
  BY <1>1, <1>2 DEF IInv, SampleInv
<1>10. StampInv'
  <2>1. ASSUME NEW d \in LocalIds, devices'[d] # NoRow
        PROVE  \/ devices[d] # NoRow /\ devices'[d].sample = devices[d].sample
               \/ devices'[d].sample = <<>>
    <3>1. write[s][d] \in Rows \cup {NoRow, Untouched} /\ devices'[d] = View(s, d)
      BY <1>2 DEF IInv, TypeInv
    <3>2. CASE write[s][d] = Untouched
      BY <3>1, <3>2, <2>1 DEF View
    <3>3. CASE write[s][d] # Untouched
      <4>1. devices'[d] = write[s][d] /\ write[s][d] \in Rows
        BY <3>1, <3>3, <2>1 DEF View
      <4> QED
        BY <4>1, <1>1 DEF IInv, KeepsInv, Storing
    <3> QED
      BY <3>2, <3>3
  <2>2. \A t, m : <<t, m>> # <<>>
    OBVIOUS
  <2> QED
    BY <2>1, <2>2, <1>1 DEF IInv, StampInv
<1>11. AloneInv'
  BY <1>1 DEF IInv, AloneInv, Storing
<1>12. GoneInv'
  <2> SUFFICES ASSUME NEW t \in Streams, t # s, pc[t] = "delete",
                      NEW d \in LocalIds, d \notin Keep(report[t]), View(t, d)' # NoRow
               PROVE  \/ <<d, devices'[d].by>> \in picked[t]
                      \/ t \in met /\ devices'[d].by \in met
    BY <1>1 DEF GoneInv
  <2>1. t \in met /\ s \in met
    BY <1>1 DEF IInv, AloneInv, Storing
  <2>2. write[t][d] = Untouched /\ devices'[d] = View(s, d) /\ View(s, d) # NoRow
    BY <1>2 DEF IInv, TypeInv, WrittenInv, Storing, View
  <2>3. CASE devices[d] = NoRow
    BY <2>1, <2>2, <2>3, <1>1 DEF IInv, TypeInv, KeepsInv, Storing, View
  <2>4. CASE devices[d] # NoRow
    <3>1. devices'[d].by = devices[d].by
      BY <2>2, <2>4, <1>1 DEF IInv, TypeInv, KeepsInv, Storing, View
    <3> QED
      BY <3>1, <2>2, <2>4 DEF IInv, GoneInv, View
  <2> QED
    BY <2>3, <2>4
<1>13. LastInv'
  <2>1. ASSUME NEW i \in Known(report[s])
        PROVE  /\ report[s][i].localId \in LocalIds
               /\ HasFacts(devices'[report[s][i].localId], s, report[s][i])
    <3>1. report[s][i].localId \in LocalIds
      BY ReportEntry DEF IInv, TypeInv, Known
    <3>2. HasFacts(write[s][report[s][i].localId], s, report[s][i])
      BY <1>1 DEF IInv, PassedInv, LoopInv, Storing
    <3>3. devices'[report[s][i].localId] = write[s][report[s][i].localId]
      BY <3>1, <3>2, <1>2, Markers DEF View, HasFacts
    <3> QED
      BY <3>1, <3>2, <3>3
  <2>2. LastReportStored'
    BY <2>1, <1>1, Markers DEF LastReportStored, HasFacts
  <2>3. ASSUME s \notin met
        PROVE  {d \in LocalIds : devices'[d] # NoRow} = Keep(report[s])
    <3>1. \A d \in Keep(report[s]) : d \in LocalIds /\ devices'[d] # NoRow
      BY <2>1, Markers DEF Keep, HasFacts
    <3>2. \A d \in LocalIds : d \notin Keep(report[s]) => devices'[d] = NoRow
      BY <2>3, <1>1, <1>2 DEF IInv, GoneInv
    <3> QED
      BY <3>1, <3>2
  <2>4. ReportAloneIsComplete'
    BY <2>3, <1>1 DEF ReportAloneIsComplete, Stored
  <2> QED
    BY <2>2, <2>4, <1>1 DEF LastInv
<1> QED
  BY <1>3, <1>4, <1>5, <1>6, <1>7, <1>8, <1>9, <1>10, <1>11, <1>12, <1>13 DEF IInv

LEMMA CommitSamplesStep ==
    ASSUME IInv, NEW s \in Streams, CommitSamples(s)
    PROVE  IInv'
<1>1. /\ pc[s] = "sample" /\ pc'[s] = "ready"
      /\ \A t \in Streams : t # s => pc'[t] = pc[t]
      /\ UNCHANGED <<picked, report, todo, batch, last, met>>
  BY DEF IInv, TypeInv, CommitSamples
<1>2. /\ \A d \in LocalIds : devices'[d] = View(s, d) /\ write'[s][d] = Untouched
      /\ \A t \in Streams : t # s => write'[t] = write[t]
      /\ \A t \in Streams : \A d \in LocalIds :
            t # s /\ write[t][d] # Untouched => devices'[d] = devices[d]
      /\ devices' \in [LocalIds -> Rows \cup {NoRow}]
      /\ write' \in [Streams -> [LocalIds -> Rows \cup {NoRow, Untouched}]]
  BY CommitEffect DEF CommitSamples
<1>3. \A d \in LocalIds :
          /\ devices'[d] # NoRow <=> devices[d] # NoRow
          /\ devices[d] # NoRow =>
                /\ devices'[d].by = devices[d].by
                /\ devices'[d].from = devices[d].from
                /\ devices'[d].kind = devices[d].kind
  BY <1>1, <1>2, Markers DEF IInv, SampleInv, View
<1>4. TypeInv'
  <2>1. pc' \in [Streams -> {"hello", "upsert", "keep", "delete", "ready", "sample",
                             "update", "closed"}]
    BY DEF IInv, TypeInv, CommitSamples
  <2> QED
    BY <2>1, <1>1, <1>2 DEF IInv, TypeInv
<1>5. LockInv'
  BY <1>1, <1>2 DEF IInv, LockInv, InTransaction
<1>6. LoopInv'
  BY <1>1 DEF IInv, LoopInv
<1>7. PassedInv'
  BY <1>1, <1>2 DEF IInv, PassedInv, Storing
<1>8. WrittenInv'
  BY <1>1, <1>2 DEF IInv, WrittenInv, Storing
<1>9. KeepsInv'
  BY <1>1, <1>2, Markers DEF IInv, KeepsInv, Storing
<1>10. SampleInv'
  BY <1>1, <1>2 DEF IInv, SampleInv
<1>11. StampInv'
  <2>1. \A d \in LocalIds : devices'[d] # NoRow =>
            \/ devices[d] # NoRow /\ devices'[d].sample = devices[d].sample
            \/ devices'[d].sample = <<s, batch[s]>>
    BY <1>1, <1>2, Markers DEF IInv, SampleInv, View
  <2>2. batch[s] \in Nat
    BY DEF IInv, TypeInv
  <2> QED
    BY <2>1, <2>2, <1>1 DEF IInv, StampInv
<1>12. AloneInv'
  BY <1>1 DEF IInv, AloneInv, Storing
<1>13. GoneInv'
  <2> SUFFICES ASSUME NEW t \in Streams, pc[t] = "delete", t # s,
                      NEW d \in LocalIds, d \notin Keep(report[t]), View(t, d)' # NoRow
               PROVE  \/ <<d, devices'[d].by>> \in picked[t]
                      \/ t \in met /\ devices'[d].by \in met
    BY <1>1 DEF GoneInv
  <2>1. View(t, d) # NoRow /\ devices[d] # NoRow
    BY <1>2, <1>3 DEF IInv, TypeInv, WrittenInv, Storing, View
  <2> QED
    BY <2>1, <1>3 DEF IInv, GoneInv
<1>14. LastInv'
  <2>1. \A t \in Streams : \A i \in Known(report[t]) : report[t][i].localId \in LocalIds
    BY ReportEntry DEF IInv, TypeInv, Known
  <2>2. LastReportStored'
    <3> SUFFICES ASSUME last \in Streams, NEW i \in Known(report[last])
                 PROVE  LET e == report[last][i] IN
                        /\ devices'[e.localId] # NoRow
                        /\ devices'[e.localId].from = last
                        /\ devices'[e.localId].kind = e.kind
      BY <1>1 DEF IInv, TypeInv, LastReportStored
    <3>1. LET e == report[last][i] IN
          /\ devices[e.localId] # NoRow
          /\ devices[e.localId].from = last
          /\ devices[e.localId].kind = e.kind
      BY InventoryAssumption DEF IInv, LastInv, LastReportStored
    <3> QED
      BY <3>1, <2>1, <1>3
  <2>3. Stored' = Stored
    BY <1>3 DEF Stored
  <2>4. ReportAloneIsComplete'
    BY <2>3, <1>1 DEF IInv, LastInv, ReportAloneIsComplete
  <2> QED
    BY <2>2, <2>4, <1>1 DEF IInv, TypeInv, LastInv
<1> QED
  BY <1>4, <1>5, <1>6, <1>7, <1>8, <1>9, <1>10, <1>11, <1>12, <1>13, <1>14 DEF IInv

(* A transaction that fails leaves the committed rows alone.               *)
LEMMA AbortStep ==
    ASSUME IInv, NEW s \in Streams, Abort(s)
    PROVE  IInv'
<1>1. /\ pc[s] \notin {"hello", "ready", "closed"} /\ pc'[s] = "closed" /\ todo'[s] = {}
      /\ \A d \in LocalIds : write'[s][d] = Untouched
      /\ \A t \in Streams : t # s =>
            /\ pc'[t] = pc[t] /\ write'[t] = write[t]
            /\ picked'[t] = picked[t] /\ todo'[t] = todo[t]
      /\ UNCHANGED <<devices, report, batch, last, met>>
  BY DEF IInv, TypeInv, Abort, RolledBack, InTransaction
<1>2. TypeInv'
  <2>1. write' \in [Streams -> [LocalIds -> Rows \cup {NoRow, Untouched}]]
    BY DEF IInv, TypeInv, Abort, RolledBack
  <2>2. /\ picked' \in [Streams -> SUBSET (LocalIds \X Streams)]
        /\ todo' \in [Streams -> SUBSET Nat]
    BY DEF IInv, TypeInv, Abort
  <2>3. pc' \in [Streams -> {"hello", "upsert", "keep", "delete", "ready", "sample",
                             "update", "closed"}]
    BY DEF IInv, TypeInv, Abort
  <2> QED
    BY <2>1, <2>2, <2>3, <1>1 DEF IInv, TypeInv
<1>3. LockInv'
  BY <1>1 DEF IInv, LockInv, InTransaction
<1>4. LoopInv'
  BY <1>1 DEF IInv, LoopInv
<1>5. PassedInv'
  BY <1>1 DEF IInv, PassedInv, Storing
<1>6. WrittenInv'
  BY <1>1 DEF IInv, WrittenInv, Storing
<1>7. KeepsInv'
  BY <1>1 DEF IInv, KeepsInv, Storing
<1>8. SampleInv'
  BY <1>1 DEF IInv, SampleInv
<1>9. StampInv'
  BY <1>1 DEF IInv, StampInv
<1>10. AloneInv'
  BY <1>1 DEF IInv, AloneInv, Storing
<1>11. GoneInv'
  BY <1>1 DEF IInv, GoneInv, View
<1>12. LastInv'
  BY <1>1 DEF IInv, TypeInv, LastInv, LastReportStored, ReportAloneIsComplete, Stored
<1> QED
  BY <1>2, <1>3, <1>4, <1>5, <1>6, <1>7, <1>8, <1>9, <1>10, <1>11, <1>12 DEF IInv

(***************************************************************************)
(* Theorems                                                                *)
(***************************************************************************)

(* The invariant the theorems below rest on: locks are exclusive, a report *)
(* writes what it says, samples change nothing else (all of recordInventory*)
(* and recordSamples).                                                     *)
THEOREM Inductive == Spec => []IInv
<1>1. Init => IInv
  <2> SUFFICES ASSUME Init PROVE IInv
    OBVIOUS
  <2>1. TypeInv
    BY DEF Init, TypeInv
  <2>2. /\ LockInv /\ LoopInv /\ PassedInv /\ WrittenInv /\ KeepsInv /\ SampleInv
        /\ StampInv /\ AloneInv /\ GoneInv
    BY InventoryAssumption DEF Init, LockInv, LoopInv, PassedInv, WrittenInv, KeepsInv,
       SampleInv, StampInv, AloneInv, GoneInv, Storing, Collects
  <2>3. LastInv
    BY DEF Init, LastInv, LastReportStored, ReportAloneIsComplete
  <2> QED
    BY <2>1, <2>2, <2>3 DEF IInv
<1>2. IInv /\ [Next]_vars => IInv'
  <2> SUFFICES ASSUME IInv, [Next]_vars PROVE IInv'
    OBVIOUS
  <2>1. CASE Next
    <3>1. PICK s \in Streams :
              \/ DiscoveryFails(s) \/ BeginInventory(s) \/ BeginSamples(s) \/ Close(s)
              \/ Step(s) \/ Abort(s)
      BY <2>1 DEF Next
    <3> QED
      BY <3>1, EndStep, BeginInventoryStep, BeginSamplesStep, BeginDeleteStep,
         BeginUpdateStep, UpsertStep, DeleteRowStep, UpdateStep, CommitInventoryStep,
         CommitSamplesStep, AbortStep DEF Step
  <2>2. CASE UNCHANGED vars
    <3>1. TypeInv'
      BY <2>2 DEF vars, IInv, TypeInv
    <3>2. LockInv' /\ LoopInv'
      BY <2>2 DEF vars, IInv, LockInv, LoopInv, InTransaction
    <3>3. PassedInv' /\ WrittenInv' /\ KeepsInv' /\ SampleInv'
      BY <2>2 DEF vars, IInv, PassedInv, WrittenInv, KeepsInv, SampleInv, Storing
    <3>4. StampInv' /\ AloneInv' /\ GoneInv'
      BY <2>2 DEF vars, IInv, StampInv, AloneInv, GoneInv, Storing, View
    <3>5. LastInv'
      BY <2>2 DEF vars, IInv, LastInv, LastReportStored, ReportAloneIsComplete, Stored
    <3> QED
      BY <3>1, <3>2, <3>3, <3>4, <3>5 DEF IInv
  <2> QED
    BY <2>1, <2>2
<1> QED
  BY <1>1, <1>2, PTL DEF Spec

(* However the transactions of any number of streams interleave, fail or   *)
(* deadlock, the report committed last is stored in full (recordInventory).*)
THEOREM LastReportWins == Spec => []LastReportStored
<1>1. IInv => LastReportStored
  BY DEF IInv, LastInv
<1> QED
  BY <1>1, Inductive, PTL

(* A report that overlapped no other report of the node is the complete    *)
(* list, whatever samples were stored meanwhile (recordInventory's DELETE).*)
THEOREM CompleteWhenAlone == Spec => []ReportAloneIsComplete
<1>1. IInv => ReportAloneIsComplete
  BY DEF IInv, LastInv
<1> QED
  BY <1>1, Inductive, PTL

(***************************************************************************)
(* The refinement of AtomicInventory                                       *)
(***************************************************************************)
LEMMA SameRow ==
    ASSUME NEW p \in Rows, NEW q \in Rows,
           p.by = q.by, p.from = q.from, p.kind = q.kind, p.sample = q.sample
    PROVE  p = q
  BY DEF Rows

(* What a report has written when it commits is what the abstract report   *)
(* makes of the committed row.                                             *)
LEMMA WrittenAsReported ==
    ASSUME IInv, NEW s \in Streams, pc[s] = "delete", NEW d \in Keep(report[s])
    PROVE  /\ d \in LocalIds /\ View(s, d) = write[s][d]
           /\ write[s][d].kind \in KnownKinds
           /\ write[s][d] = Atomic!Reported(s, devices[d], write[s][d].kind)
<1>1. PICK i \in Known(report[s]) : d = report[s][i].localId
  BY DEF Keep
<1>2. d \in LocalIds
  BY <1>1, ReportEntry DEF IInv, TypeInv, Known
<1>3. HasFacts(write[s][d], s, report[s][i])
  BY <1>1 DEF IInv, PassedInv, LoopInv, Storing
<1>4. /\ write[s][d] \in Rows /\ write[s][d].from = s
      /\ write[s][d].kind \in KnownKinds /\ write[s][d].kind \in STRING
  BY <1>1, <1>3 DEF HasFacts, Known, Rows
<1>5. View(s, d) = write[s][d]
  BY <1>4, Markers DEF View
<1>6. CASE devices[d] = NoRow
  <2>1. write[s][d].by = s /\ write[s][d].sample = <<>>
    BY <1>2, <1>4, <1>6 DEF IInv, KeepsInv, Storing
  <2> DEFINE row == [by |-> s, from |-> s, kind |-> write[s][d].kind, sample |-> <<>>]
  <2>2. /\ row \in Rows /\ row.by = s /\ row.from = s
        /\ row.kind = write[s][d].kind /\ row.sample = <<>>
    BY <1>4 DEF Rows
  <2>3. write[s][d] = row
    BY <1>4, <2>1, <2>2, SameRow
  <2> QED
    BY <1>2, <1>4, <1>5, <1>6, <2>3 DEF Atomic!Reported
<1>7. CASE devices[d] # NoRow
  <2>1. devices[d] \in Rows
    BY <1>2, <1>7 DEF IInv, TypeInv
  <2>2. write[s][d].by = devices[d].by /\ write[s][d].sample = devices[d].sample
    BY <1>2, <1>4, <1>7 DEF IInv, KeepsInv, Storing
  <2> DEFINE row == [devices[d] EXCEPT !.from = s, !.kind = write[s][d].kind]
  <2>3. /\ row \in Rows /\ row.by = devices[d].by /\ row.from = s
        /\ row.kind = write[s][d].kind /\ row.sample = devices[d].sample
    BY <1>4, <2>1 DEF Rows
  <2>4. write[s][d] = row
    <3> HIDE DEF row
    <3> QED
      BY <1>4, <2>2, <2>3, SameRow
  <2> QED
    BY <1>2, <1>4, <1>5, <1>7, <2>4 DEF Atomic!Reported
<1> QED
  BY <1>6, <1>7

(* The commit of a report is the abstract report.                          *)
LEMMA CommitReports ==
    ASSUME IInv, NEW s \in Streams, CommitInventory(s)
    PROVE  Atomic!Next
<1>1. /\ pc[s] = "delete" /\ picked[s] = {} /\ last' = s /\ met' = met
      /\ \A d \in LocalIds : devices'[d] = View(s, d)
      /\ devices' = [d \in LocalIds |-> View(s, d)]
  BY DEF CommitInventory, Commit
<1> DEFINE kinds == [d \in Keep(report[s]) |-> write[s][d].kind]
           stay == {d \in LocalIds \ Keep(report[s]) : View(s, d) # NoRow}
<1>2. kinds \in Atomic!Reports
  <2>1. Keep(report[s]) \in SUBSET LocalIds
    BY <1>1, WrittenAsReported
  <2>2. kinds \in [Keep(report[s]) -> KnownKinds]
    BY <1>1, WrittenAsReported
  <2> QED
    BY <2>1, <2>2 DEF Atomic!Reports
<1>3. ASSUME NEW d \in stay
      PROVE  /\ View(s, d) = devices[d] /\ devices[d] # NoRow
             /\ s \in met /\ devices[d].by \in met
  <2>1. write[s][d] = Untouched
    BY <1>1 DEF IInv, TypeInv, WrittenInv, Storing, View
  <2> QED
    BY <1>1, <2>1 DEF IInv, GoneInv, View
<1>4. s # last
  BY <1>1, InventoryAssumption DEF IInv, LastInv
<1>5. ASSUME NEW d \in LocalIds
      PROVE  View(s, d) = CASE d \in DOMAIN kinds ->
                                  Atomic!Reported(s, devices[d], kinds[d])
                            [] d \in stay \ DOMAIN kinds -> devices[d]
                            [] OTHER -> NoRow
  <2>1. CASE d \in Keep(report[s])
    <3>1. d \in DOMAIN kinds /\ kinds[d] = write[s][d].kind
      BY <2>1
    <3>2. View(s, d) = Atomic!Reported(s, devices[d], kinds[d])
      BY <3>1, <2>1, <1>1, WrittenAsReported
    <3> QED
      BY <3>1, <3>2
  <2>2. CASE d \in stay
    <3>1. d \notin DOMAIN kinds
      BY <2>2
    <3> QED
      BY <3>1, <2>2, <1>3
  <2>3. CASE d \notin Keep(report[s]) /\ d \notin stay
    <3>1. d \notin DOMAIN kinds /\ View(s, d) = NoRow
      BY <2>3
    <3> QED
      BY <3>1, <2>3
  <2> QED
    BY <2>1, <2>2, <2>3
<1>6. stay \in SUBSET LocalIds
  OBVIOUS
<1>7. Atomic!Report(s, kinds, stay)
  <2> HIDE DEF kinds, stay
  <2> QED
    BY <1>1, <1>3, <1>4, <1>5 DEF Atomic!Report
<1> HIDE DEF kinds, stay
<1> QED
  BY <1>2, <1>6, <1>7 DEF Atomic!Next

(* The commit of a batch is the abstract one.                              *)
LEMMA CommitSampled ==
    ASSUME IInv, NEW s \in Streams, CommitSamples(s)
    PROVE  Atomic!Next
<1>1. /\ pc[s] = "sample" /\ UNCHANGED <<last, met>>
      /\ devices' = [d \in LocalIds |-> View(s, d)]
  BY DEF CommitSamples, Commit
<1> DEFINE sampled == {d \in LocalIds : write[s][d] # Untouched}
           row(d) == [devices[d] EXCEPT !.sample = <<s, batch[s]>>]
<1>2. batch[s] \in 1..MaxBatches /\ batch[s] \in Nat
  BY <1>1, InventoryAssumption DEF IInv, TypeInv, StampInv
<1>3. ASSUME NEW d \in sampled
      PROVE  /\ devices[d] # NoRow
             /\ \A m \in 1..MaxBatches : devices[d].sample = <<s, m>> => m < batch[s]
  <2>1. devices[d] # NoRow
    BY <1>1 DEF IInv, SampleInv
  <2> QED
    BY <2>1, <1>1, InventoryAssumption DEF IInv, StampInv
<1>4. ASSUME NEW d \in sampled
      PROVE  View(s, d) = row(d)
  <2>1. devices[d] \in Rows /\ <<s, batch[s]>> \in Streams \X Nat
    BY <1>2, <1>3 DEF IInv, TypeInv
  <2>2. /\ row(d) \in Rows /\ row(d).by = devices[d].by /\ row(d).from = devices[d].from
        /\ row(d).kind = devices[d].kind /\ row(d).sample = <<s, batch[s]>>
    BY <2>1 DEF Rows
  <2> HIDE DEF row
  <2>3. /\ write[s][d] \in Rows
        /\ write[s][d].by = devices[d].by /\ write[s][d].from = devices[d].from
        /\ write[s][d].kind = devices[d].kind /\ write[s][d].sample = <<s, batch[s]>>
    BY <1>1 DEF IInv, SampleInv
  <2>4. write[s][d] = row(d)
    BY <2>2, <2>3, SameRow
  <2> QED
    BY <2>4 DEF View
<1>5. \A d \in LocalIds : View(s, d) = IF d \in sampled THEN row(d) ELSE devices[d]
  BY <1>4 DEF View
<1>6. sampled \in SUBSET LocalIds
  OBVIOUS
<1> HIDE DEF sampled
<1>7. Atomic!Samples(s, batch[s], sampled)
  BY <1>1, <1>3, <1>5 DEF Atomic!Samples
<1> QED
  BY <1>2, <1>6, <1>7 DEF Atomic!Next

(* A report that begins while others are stored: the overlap.              *)
LEMMA BeginOverlaps ==
    ASSUME IInv, NEW s \in Streams, BeginInventory(s)
    PROVE  Atomic!Next
<1>1. /\ pc[s] = "hello" /\ UNCHANGED <<devices, last>>
      /\ met \subseteq met' /\ met' \in SUBSET Streams
      /\ \A t \in met' \ met : t = s \/ Storing(t)
  BY DEF IInv, TypeInv, BeginInventory
<1>2. last \notin met' \ met
  BY <1>1, InventoryAssumption DEF IInv, LastInv, Storing
<1>3. met' \ met \in SUBSET (Streams \ {last}) /\ met' = met \cup (met' \ met)
  BY <1>1, <1>2
<1>4. Atomic!Overlap(met' \ met)
  BY <1>1, <1>3 DEF Atomic!Overlap
<1> QED
  BY <1>3, <1>4 DEF Atomic!Next

(* Statement by statement, with locks, rollbacks and deadlocks, the        *)
(* transactions of any number of streams implement the table in which a    *)
(* report and a batch of samples are one step each (recordInventory and    *)
(* recordSamples, each in one withOrg).                                    *)
THEOREM InventoryIsAtomic == Spec => StoredAtomically
<1>1. Init => Atomic!Init
  BY DEF Init, Atomic!Init
<1>2. IInv /\ [Next]_vars => [Atomic!Next]_Atomic!vars
  <2> SUFFICES ASSUME IInv, [Next]_vars PROVE [Atomic!Next]_Atomic!vars
    OBVIOUS
  <2>1. ASSUME NEW s \in Streams,
               \/ DiscoveryFails(s) \/ BeginSamples(s) \/ Close(s) \/ Abort(s)
               \/ Upsert(s) \/ BeginDelete(s) \/ DeleteRow(s)
               \/ BeginUpdate(s) \/ Update(s)
        PROVE  UNCHANGED Atomic!vars
    BY <2>1 DEF DiscoveryFails, BeginSamples, Close, Abort, Upsert, BeginDelete,
       DeleteRow, BeginUpdate, Update, Atomic!vars
  <2>2. CASE UNCHANGED vars
    BY <2>2 DEF vars, Atomic!vars
  <2> QED
    BY <2>1, <2>2, CommitReports, CommitSampled, BeginOverlaps DEF Next, Step
<1> QED
  BY <1>1, <1>2, Inductive, PTL DEF Spec, StoredAtomically, Atomic!Spec
=============================================================================
