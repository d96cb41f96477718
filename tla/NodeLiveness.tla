---------------------------- MODULE NodeLiveness ----------------------------
(***************************************************************************)
(* Whether a node reads as online, degraded or offline: the heartbeats of  *)
(* markNodeOnline and recordSamples (domain/nodes.ts), driven by the       *)
(* Connect handler (rpc/node-service.ts), against the sweeper of           *)
(* jobs/offline-sweeper.ts and the process of main.ts.  One node; nodes do *)
(* not share rows.                                                         *)
(*                                                                         *)
(* A heartbeat takes new Date() when it builds its UPDATE and writes it    *)
(* when the transaction commits.  A sweep takes new Date() when it starts  *)
(* and runs two UPDATEs with it, each atomic (under READ COMMITTED an      *)
(* UPDATE that waited for a row reads it again).  Heartbeats of an old     *)
(* stream, whose messages the server has still to read, mix with those of  *)
(* the new one.                                                            *)
(*                                                                         *)
(* An instant is kept as its age, so that time need not be bounded:        *)
(* lastSeenAt < now - X is age(lastSeenAt) > age(now) + X.                 *)
(***************************************************************************)
EXTENDS Naturals

CONSTANTS
    Streams,     \* Connect streams of the node the server is still serving
    NoStream,
    Sweeps,      \* sweeps that may overlap
    INTERVAL,    \* SAMPLE_INTERVAL_MS
    JITTER,      \* how much later than INTERVAL the next heartbeat may come
    DELAY,       \* how long a heartbeat's transaction may take
    SLOW,        \* how long a sweep may take
    MaxCrashes   \* bound on stops and crashes of the control plane

DEGRADED_AFTER == INTERVAL * 3
OFFLINE_AFTER  == INTERVAL * 6
Cap            == OFFLINE_AFTER + SLOW + 1  \* older is not told apart

(* A healthy node misses no three heartbeats.  The delay counts twice: the *)
(* write of an old stream may be committed after a newer one, and set      *)
(* last_seen_at back by a delay, before the next one is late by a delay.   *)
ASSUME LivenessAssumption ==
    /\ NoStream \notin Streams
    /\ INTERVAL \in Nat \ {0}
    /\ JITTER \in Nat /\ DELAY \in Nat /\ SLOW \in Nat /\ MaxCrashes \in Nat
    /\ JITTER + 2 * DELAY <= 2 * INTERVAL

Never == Cap + 1  \* last_seen_at is null; no write is in flight

VARIABLES
    process,   \* the control plane: "up", "stopping" after a signal, or "down"
    crashes,
    status,    \* nodes.status
    lastSeen,  \* the age of nodes.last_seen_at, or Never
    beat,      \* the age of the timestamp a stream is about to commit, or Never
    open,      \* the streams the server is serving
    live,      \* the stream the agent is connected with
    joined,    \* a heartbeat of the live stream has been committed
    quiet,     \* the age of the live stream's last heartbeat
    pc,        \* what each sweep does next
    now        \* the age of each sweep's `now`

vars == <<process, crashes, status, lastSeen, beat, open, live, joined, quiet, pc, now>>

Init ==
    /\ process = "up" /\ crashes = 0
    /\ status = "offline" /\ lastSeen = Never
    /\ beat = [s \in Streams |-> Never]
    /\ open = {} /\ live = NoStream /\ joined = FALSE /\ quiet = 0
    /\ pc = [w \in Sweeps |-> "idle"]
    /\ now = [w \in Sweeps |-> 0]

Running == process # "down"

(***************************************************************************)
(* The Connect handler: one message at a time, in the order of its stream  *)
(***************************************************************************)

(* The agent (re)connects: the stream is new, a Hello is its first message.*)
Hello(s) ==
    /\ process = "up"
    /\ s \notin open
    /\ open' = open \cup {s}
    /\ beat' = [beat EXCEPT ![s] = 0]
    /\ live' = s /\ joined' = FALSE /\ quiet' = 0
    /\ UNCHANGED <<process, crashes, status, lastSeen, pc, now>>

(* A batch of samples of the live stream, or one an old stream still holds.*)
Samples(s) ==
    /\ Running
    /\ s \in open /\ beat[s] = Never
    /\ beat' = [beat EXCEPT ![s] = 0]
    /\ quiet' = IF s = live THEN 0 ELSE quiet
    /\ UNCHANGED <<process, crashes, status, lastSeen, open, live, joined, pc, now>>

(* Mutant: a heartbeat leaves the status to someone else.                  *)
HeartbeatStatusKept == status

(* The status a heartbeat writes.                                          *)
HeartbeatStatus == "online"

(* The transaction of a heartbeat commits.                                 *)
Commit(s) ==
    /\ Running
    /\ beat[s] # Never
    /\ status' = HeartbeatStatus
    /\ lastSeen' = beat[s]
    /\ beat' = [beat EXCEPT ![s] = Never]
    /\ joined' = (joined \/ s = live)
    /\ UNCHANGED <<process, crashes, open, live, quiet, pc, now>>

(* Its transaction fails: the handler throws and the stream ends.          *)
Rollback(s) ==
    /\ Running
    /\ beat[s] # Never
    /\ beat' = [beat EXCEPT ![s] = Never]
    /\ open' = open \ {s}
    /\ live' = IF s = live THEN NoStream ELSE live
    /\ joined' = (joined /\ s # live)
    /\ UNCHANGED <<process, crashes, status, lastSeen, quiet, pc, now>>

(* The request side of a stream the agent left ends, all messages read.    *)
EndOfStream(s) ==
    /\ Running
    /\ s \in open /\ s # live /\ beat[s] = Never
    /\ open' = open \ {s}
    /\ UNCHANGED <<process, crashes, status, lastSeen, beat, live, joined, quiet, pc, now>>

(* The agent stops, sleeps or loses the network.  An agent whose probes    *)
(* all fail sends no batch either.                                         *)
Silence ==
    /\ live # NoStream
    /\ live' = NoStream /\ joined' = FALSE
    /\ UNCHANGED <<process, crashes, status, lastSeen, beat, open, quiet, pc, now>>

(***************************************************************************)
(* The sweeper                                                             *)
(***************************************************************************)
SilentFor(w, limit) == lastSeen # Never /\ lastSeen > now[w] + limit

(* The timer does not wait for the sweep before.                           *)
StartSweep(w) ==
    /\ process = "up"
    /\ pc[w] = "idle"
    /\ pc' = [pc EXCEPT ![w] = "offline"]
    /\ now' = [now EXCEPT ![w] = 0]
    /\ UNCHANGED <<process, crashes, status, lastSeen, beat, open, live, joined, quiet>>

(* Mutant: a degraded node is not swept to offline.                        *)
SweptOfflineFromOnline(w) == status = "online" /\ SilentFor(w, OFFLINE_AFTER)

(* The WHERE of the first UPDATE.                                          *)
SweptOffline(w) == status # "offline" /\ SilentFor(w, OFFLINE_AFTER)

SweepOffline(w) ==
    /\ Running
    /\ pc[w] = "offline"
    /\ status' = IF SweptOffline(w) THEN "offline" ELSE status
    /\ pc' = [pc EXCEPT ![w] = "degraded"]
    /\ UNCHANGED <<process, crashes, lastSeen, beat, open, live, joined, quiet, now>>

(* Mutant: one missed heartbeat is enough.                                 *)
SweptDegradedEarly(w) == status = "online" /\ SilentFor(w, INTERVAL)

(* The WHERE of the second UPDATE.                                         *)
SweptDegraded(w) == status = "online" /\ SilentFor(w, DEGRADED_AFTER)

SweepDegraded(w) ==
    /\ Running
    /\ pc[w] = "degraded"
    /\ status' = IF SweptDegraded(w) THEN "degraded" ELSE status
    /\ pc' = [pc EXCEPT ![w] = "idle"]
    /\ now' = [now EXCEPT ![w] = 0]
    /\ UNCHANGED <<process, crashes, lastSeen, beat, open, live, joined, quiet>>

(***************************************************************************)
(* The process                                                             *)
(***************************************************************************)

(* Every stream and every write in flight ends with the process.           *)
Die ==
    /\ process' = "down"
    /\ beat' = [s \in Streams |-> Never]
    /\ open' = {} /\ live' = NoStream /\ joined' = FALSE
    /\ pc' = [w \in Sweeps |-> "idle"]
    /\ now' = [w \in Sweeps |-> 0]
    /\ UNCHANGED <<status, lastSeen, quiet>>

(* `void sweepOfflineNodes()`: nobody handles its rejection, so a query    *)
(* that fails ends the process.                                            *)
SweepFails(w) ==
    /\ Running /\ crashes < MaxCrashes
    /\ pc[w] # "idle"
    /\ crashes' = crashes + 1
    /\ Die

(* SIGTERM: the sweeper's timer is cleared at once, the listeners close.   *)
Shutdown ==
    /\ process = "up" /\ crashes < MaxCrashes
    /\ process' = "stopping" /\ crashes' = crashes + 1
    /\ UNCHANGED <<status, lastSeen, beat, open, live, joined, quiet, pc, now>>

(* close() resolves when the streams have ended, or the supervisor's       *)
(* patience does.                                                          *)
Exit ==
    /\ process = "stopping"
    /\ Die
    /\ UNCHANGED crashes

Restart ==
    /\ process = "down"
    /\ process' = "up"
    /\ UNCHANGED <<crashes, status, lastSeen, beat, open, live, joined, quiet, pc, now>>

(***************************************************************************)
(* Time                                                                    *)
(***************************************************************************)
Older(a) == IF a < Cap THEN a + 1 ELSE a

(* Time passes, within the bounds on the agent, the writes and the sweeps. *)
Tick ==
    /\ live # NoStream => quiet < INTERVAL + JITTER
    /\ \A s \in Streams : beat[s] = Never \/ beat[s] < DELAY
    /\ \A w \in Sweeps : pc[w] = "idle" \/ now[w] < SLOW
    /\ lastSeen' = Older(lastSeen)
    /\ beat' = [s \in Streams |-> Older(beat[s])]
    /\ quiet' = Older(quiet)
    /\ now' = [w \in Sweeps |-> IF pc[w] = "idle" THEN 0 ELSE now[w] + 1]
    /\ UNCHANGED <<process, crashes, open, status, live, joined, pc>>

Sweep(w) == SweepOffline(w) \/ SweepDegraded(w)

Next ==
    \/ \E s \in Streams : Hello(s) \/ Samples(s) \/ Commit(s) \/ Rollback(s)
                             \/ EndOfStream(s)
    \/ \E w \in Sweeps : StartSweep(w) \/ Sweep(w) \/ SweepFails(w)
    \/ Silence \/ Shutdown \/ Exit \/ Restart \/ Tick

Spec == Init /\ [][Next]_vars

(* setInterval fires for ever, the database answers, the process is stopped*)
(* when told to and restarted, and time passes.                            *)
FairSpec ==
    /\ Spec
    /\ WF_vars(Tick) /\ WF_vars(Exit) /\ WF_vars(Restart)
    /\ \A w \in Sweeps : WF_vars(StartSweep(w)) /\ WF_vars(Sweep(w))
-----------------------------------------------------------------------------
(***************************************************************************)
(* Properties                                                              *)
(***************************************************************************)

(* A node that was ever seen reads as degraded or offline only if it has   *)
(* been silent for as long as that takes, by the time in its row: no sweep *)
(* with an old `now`, and no overlap of sweeps, marks a node whose         *)
(* heartbeat came in meanwhile (offline-sweeper.ts:15-23).                 *)
StatusIsEarned ==
    /\ status = "degraded" => lastSeen # Never /\ lastSeen > DEGRADED_AFTER
    /\ status = "offline" => lastSeen = Never \/ lastSeen > OFFLINE_AFTER

(* "Changing SAMPLE_INTERVAL_MS can't make healthy nodes flap" (offline-   *)
(* sweeper.ts:5-6): a connected node that sends its heartbeats reads as    *)
(* online, also while late writes of an older stream are committed.        *)
HealthyIsOnline == joined => status = "online"

(* No heartbeat is on its way and none will be sent by the live stream.    *)
Silent == live = NoStream /\ \A s \in Streams : beat[s] = Never

(* A node that falls silent for good ends up offline and stays so, even if *)
(* the sweeper takes the process down on the way, or a signal stops the    *)
(* sweeper first (offline-sweeper.ts:15-30, main.ts:13-21).                *)
SilentGoesOffline == <>[]Silent => <>[](status = "offline")
=============================================================================
