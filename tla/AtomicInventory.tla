-------------------------- MODULE AtomicInventory --------------------------
(***************************************************************************)
(* What the device table of a node promises, without transactions, locks   *)
(* or rollbacks: a report is stored in one step, and so is a batch of      *)
(* samples.  The one thing that interleaving may show is a row of another  *)
(* report that was being stored at the same time.                          *)
(***************************************************************************)
EXTENDS Naturals

CONSTANTS Streams, NoStream, LocalIds, KnownKinds, MaxBatches, NoRow

VARIABLES
    devices,   \* the rows, by localId
    last,      \* the stream whose report was stored last
    met        \* streams whose report was not stored on its own

vars == <<devices, last, met>>

Init ==
    /\ devices = [d \in LocalIds |-> NoRow]
    /\ last = NoStream
    /\ met = {}

(* What a report may say: a kind for each of some devices.                 *)
Reports == UNION {[D -> KnownKinds] : D \in SUBSET LocalIds}

(* The row of a reported device: a new one has no sample, an old one keeps *)
(* its identity and its sample.                                            *)
Reported(s, old, kind) ==
    IF old = NoRow
    THEN [by |-> s, from |-> s, kind |-> kind, sample |-> <<>>]
    ELSE [old EXCEPT !.from = s, !.kind = kind]

(* The report of s becomes the table.  Rows it does not name go, except    *)
(* that, when other reports were being stored as well, some that they      *)
(* inserted may stay.                                                      *)
Report(s, kinds, stay) ==
    /\ s # last
    /\ \A d \in stay : s \in met /\ devices[d] # NoRow /\ devices[d].by \in met
    /\ devices' = [d \in LocalIds |->
          CASE d \in DOMAIN kinds -> Reported(s, devices[d], kinds[d])
            [] d \in stay \ DOMAIN kinds -> devices[d]
            [] OTHER -> NoRow]
    /\ last' = s
    /\ UNCHANGED met

(* The n-th batch of s: samples of devices that are there, none of them    *)
(* older than the one of the same stream that it replaces.                 *)
Samples(s, n, sampled) ==
    /\ \A d \in sampled :
          /\ devices[d] # NoRow
          /\ \A m \in 1..MaxBatches : devices[d].sample = <<s, m>> => m < n
    /\ devices' = [d \in LocalIds |->
          IF d \in sampled THEN [devices[d] EXCEPT !.sample = <<s, n>>] ELSE devices[d]]
    /\ UNCHANGED <<last, met>>

(* Reports begin to be stored at the same time; the last one is not among  *)
(* them, so that what was once stored alone stays so.                      *)
Overlap(streams) ==
    /\ met' = met \cup streams
    /\ UNCHANGED <<devices, last>>

Next ==
    \/ \E s \in Streams, kinds \in Reports, stay \in SUBSET LocalIds :
          Report(s, kinds, stay)
    \/ \E s \in Streams, n \in 1..MaxBatches, sampled \in SUBSET LocalIds :
          Samples(s, n, sampled)
    \/ \E streams \in SUBSET (Streams \ {last}) : Overlap(streams)

Spec == Init /\ [][Next]_vars
=============================================================================
