------------------------- MODULE NodeLivenessProofs -------------------------
(***************************************************************************)
(* Proofs about NodeLiveness, for any number of streams and overlapping    *)
(* sweeps, any interval, and any jitter and delay a healthy node may have. *)
(***************************************************************************)
EXTENDS NodeLiveness, TLAPS

(* Ages are kept up to Cap; Never is none of them.                         *)
TypeInv ==
    /\ status \in {"online", "degraded", "offline"}
    /\ lastSeen \in 0..Never
    /\ beat \in [Streams -> 0..Never]
    /\ open \subseteq Streams
    /\ live \in Streams \cup {NoStream}
    /\ quiet \in 0..Cap
    /\ pc \in [Sweeps -> {"idle", "offline", "degraded"}]
    /\ now \in [Sweeps -> Nat]

(* A write in flight is no older than its transaction may take.            *)
BeatInv == \A s \in Streams : beat[s] = Never \/ beat[s] <= DELAY

(* The live stream's last heartbeat is not overdue, and it is the one in   *)
(* flight if there is one.                                                 *)
QuietInv ==
    live # NoStream =>
        /\ quiet <= INTERVAL + JITTER
        /\ beat[live] # Never => beat[live] = quiet

(* How old the row of a healthy node can be.  An old stream sets it back   *)
(* by a delay at most; until the next heartbeat of the live stream is      *)
(* committed it ages by another.                                           *)
FreshInv ==
    joined =>
        /\ live # NoStream
        /\ IF beat[live] = Never THEN lastSeen <= quiet + DELAY
           ELSE lastSeen <= INTERVAL + JITTER + DELAY + quiet

IInv ==
    /\ TypeInv
    /\ BeatInv
    /\ QuietInv
    /\ FreshInv
    /\ StatusIsEarned
    /\ HealthyIsOnline

(* The constants as numbers.                                               *)
LEMMA Numbers ==
    /\ INTERVAL \in Nat /\ INTERVAL > 0 /\ JITTER \in Nat /\ DELAY \in Nat /\ SLOW \in Nat
    /\ DEGRADED_AFTER \in Nat /\ OFFLINE_AFTER \in Nat /\ Cap \in Nat /\ Never \in Nat
    /\ INTERVAL + JITTER + DELAY + DELAY <= DEGRADED_AFTER
    /\ DEGRADED_AFTER < OFFLINE_AFTER /\ OFFLINE_AFTER < Cap /\ Never = Cap + 1
    /\ NoStream \notin Streams
BY LivenessAssumption DEF DEGRADED_AFTER, OFFLINE_AFTER, Cap, Never

(* The row of a healthy node is too young for either sweep.                *)
LEMMA HealthyIsYoung ==
    ASSUME IInv, joined PROVE live \in Streams /\ lastSeen <= DEGRADED_AFTER
BY Numbers DEF IInv, TypeInv, BeatInv, QuietInv, FreshInv

(* An age grows by one until it is no longer told apart.                   *)
LEMMA OlderIs ==
    ASSUME NEW a \in 0..Never
    PROVE  /\ Older(a) \in 0..Never
           /\ a < Cap => Older(a) = a + 1
           /\ a >= Cap => Older(a) = a
BY Numbers DEF Older

(* Heartbeats: only a commit writes the row, and what it writes is young.  *)
LEMMA StreamStep ==
    ASSUME IInv, NEW s \in Streams,
           Hello(s) \/ Samples(s) \/ Commit(s) \/ Rollback(s) \/ EndOfStream(s)
    PROVE  IInv'
<1> USE Numbers DEF IInv, TypeInv, BeatInv, QuietInv, FreshInv, StatusIsEarned,
        HealthyIsOnline
<1>1. CASE Hello(s)
  <2>1. TypeInv'
    BY <1>1 DEF Hello
  <2>2. BeatInv' /\ QuietInv'
    BY <1>1 DEF Hello
  <2>3. FreshInv' /\ StatusIsEarned' /\ HealthyIsOnline'
    BY <1>1 DEF Hello
  <2> QED BY <2>1, <2>2, <2>3
<1>2. CASE Samples(s)
  BY <1>2 DEF Samples
<1>3. CASE Commit(s)
  <2>1. TypeInv' /\ BeatInv'
    BY <1>3 DEF Commit, HeartbeatStatus
  <2>2. QuietInv'
    BY <1>3 DEF Commit
  <2>3. joined' => live # NoStream /\ (joined \/ s = live)
    BY <1>3 DEF Commit
  <2>4. FreshInv'
    BY <1>3, <2>3 DEF Commit
  <2>5. StatusIsEarned' /\ HealthyIsOnline'
    BY <1>3 DEF Commit, HeartbeatStatus
  <2> QED BY <2>1, <2>2, <2>4, <2>5
<1>4. CASE Rollback(s)
  <2>1. TypeInv'
    BY <1>4 DEF Rollback
  <2>2. BeatInv' /\ QuietInv'
    BY <1>4 DEF Rollback
  <2>3. FreshInv'
    BY <1>4 DEF Rollback
  <2>4. StatusIsEarned' /\ HealthyIsOnline'
    BY <1>4 DEF Rollback
  <2> QED BY <2>1, <2>2, <2>3, <2>4
<1>5. CASE EndOfStream(s)
  BY <1>5 DEF EndOfStream
<1> QED BY <1>1, <1>2, <1>3, <1>4, <1>5

(* Sweeps: each UPDATE looks at the age the row has when it runs, with a   *)
(* `now` that can only be older than that.                                 *)
LEMMA SweepStep ==
    ASSUME IInv, NEW w \in Sweeps, StartSweep(w) \/ SweepOffline(w) \/ SweepDegraded(w)
    PROVE  IInv'
<1> USE Numbers DEF IInv, TypeInv
<1>1. CASE StartSweep(w)
  BY <1>1 DEF StartSweep, BeatInv, QuietInv, FreshInv, StatusIsEarned, HealthyIsOnline
<1>2. CASE SweepOffline(w)
  <2>1. TypeInv' /\ BeatInv' /\ QuietInv' /\ FreshInv'
    BY <1>2 DEF SweepOffline, BeatInv, QuietInv, FreshInv
  <2>2. StatusIsEarned'
    BY <1>2 DEF SweepOffline, SweptOffline, SilentFor, StatusIsEarned
  <2>3. HealthyIsOnline'
    BY <1>2, HealthyIsYoung DEF SweepOffline, SweptOffline, SilentFor, HealthyIsOnline
  <2> QED BY <2>1, <2>2, <2>3
<1>3. CASE SweepDegraded(w)
  <2>1. TypeInv' /\ BeatInv' /\ QuietInv' /\ FreshInv'
    BY <1>3 DEF SweepDegraded, BeatInv, QuietInv, FreshInv
  <2>2. StatusIsEarned'
    BY <1>3 DEF SweepDegraded, SweptDegraded, SilentFor, StatusIsEarned
  <2>3. HealthyIsOnline'
    BY <1>3, HealthyIsYoung DEF SweepDegraded, SweptDegraded, SilentFor, HealthyIsOnline
  <2> QED BY <2>1, <2>2, <2>3
<1> QED BY <1>1, <1>2, <1>3

(* The process stops, dies and starts again; no stream survives that.      *)
LEMMA ProcessStep ==
    ASSUME IInv, Silence \/ Shutdown \/ Exit \/ Restart \/ \E w \in Sweeps : SweepFails(w)
    PROVE  IInv'
<1> USE Numbers DEF IInv, TypeInv, BeatInv, QuietInv, FreshInv, StatusIsEarned,
        HealthyIsOnline
<1>1. CASE Silence
  BY <1>1 DEF Silence
<1>2. CASE Shutdown
  BY <1>2 DEF Shutdown
<1>3. CASE Exit \/ \E w \in Sweeps : SweepFails(w)
  <2>1. TypeInv'
    BY <1>3 DEF Exit, SweepFails, Die
  <2>2. BeatInv' /\ QuietInv'
    BY <1>3 DEF Exit, SweepFails, Die
  <2>3. FreshInv' /\ StatusIsEarned' /\ HealthyIsOnline'
    BY <1>3 DEF Exit, SweepFails, Die
  <2> QED BY <2>1, <2>2, <2>3
<1>4. CASE Restart
  BY <1>4 DEF Restart
<1> QED BY <1>1, <1>2, <1>3, <1>4

(* Time: the bounds of a healthy node leave the row younger than three     *)
(* intervals.                                                              *)
LEMMA TimeStep == ASSUME IInv, Tick PROVE IInv'
<1> USE Numbers DEF IInv, TypeInv, Tick
<1>1. /\ lastSeen' \in 0..Never /\ lastSeen' >= lastSeen
      /\ lastSeen < Cap => lastSeen' = lastSeen + 1
      /\ lastSeen = Never <=> lastSeen' = Never
  BY OlderIs
<1>2. quiet' \in 0..Cap /\ (quiet < Cap => quiet' = quiet + 1)
  BY DEF Older
<1>3. \A s \in Streams :
        /\ beat'[s] \in 0..Never
        /\ beat[s] = Never <=> beat'[s] = Never
        /\ beat[s] # Never => beat'[s] = beat[s] + 1 /\ beat'[s] <= DELAY
  BY OlderIs DEF BeatInv
<1>4. TypeInv'
  BY <1>1, <1>2, <1>3
<1>5. BeatInv'
  BY <1>3 DEF BeatInv
<1>6. QuietInv'
  BY <1>2, <1>3 DEF QuietInv
<1>7. FreshInv'
  BY <1>1, <1>2, <1>3, HealthyIsYoung DEF FreshInv, QuietInv
<1>8. StatusIsEarned' /\ HealthyIsOnline'
  BY <1>1 DEF StatusIsEarned, HealthyIsOnline
<1> QED BY <1>4, <1>5, <1>6, <1>7, <1>8

(* The invariant holds from a node that was never seen on.                 *)
THEOREM Inductive == Spec => []IInv
<1>1. Init => IInv
  <2> SUFFICES ASSUME Init PROVE IInv
    OBVIOUS
  <2>1. TypeInv
    BY Numbers DEF Init, TypeInv
  <2>2. BeatInv /\ QuietInv /\ FreshInv
    BY Numbers DEF Init, BeatInv, QuietInv, FreshInv
  <2>3. StatusIsEarned /\ HealthyIsOnline
    BY DEF Init, StatusIsEarned, HealthyIsOnline
  <2> QED BY <2>1, <2>2, <2>3 DEF IInv
<1>2. IInv /\ [Next]_vars => IInv'
  <2> SUFFICES ASSUME IInv, [Next]_vars PROVE IInv'
    OBVIOUS
  <2>1. CASE UNCHANGED vars
    BY <2>1 DEF vars, IInv, TypeInv, BeatInv, QuietInv, FreshInv, StatusIsEarned,
       HealthyIsOnline
  <2> QED BY <2>1, StreamStep, SweepStep, ProcessStep, TimeStep DEF Next, Sweep
<1> QED BY <1>1, <1>2, PTL DEF Spec

(* However sweeps overlap, stall and fail, a node reads as degraded or     *)
(* offline only after the silence that takes (offline-sweeper.ts:15-23).   *)
THEOREM NoEarlyVerdict == Spec => []StatusIsEarned
<1>1. IInv => StatusIsEarned
  BY DEF IInv
<1> QED BY <1>1, Inductive, PTL

(* "Changing SAMPLE_INTERVAL_MS can't make healthy nodes flap"             *)
(* (offline-sweeper.ts:5-6): for every interval, as long as the jitter and *)
(* twice the delay of a write stay within two intervals.                   *)
THEOREM HealthyNeverFlaps == Spec => []HealthyIsOnline
<1>1. IInv => HealthyIsOnline
  BY DEF IInv
<1> QED BY <1>1, Inductive, PTL
=============================================================================
