--------------------------- MODULE NodeAuthProofs ---------------------------
(***************************************************************************)
(* Proofs about NodeAuth, for every window, clock error, delay and number  *)
(* of deliveries that satisfy NodeAuthAssumption.                          *)
(***************************************************************************)
EXTENDS NodeAuth, TLAPS

InFlight(a) == pc[a] \in {"lookup", "nonce"}

(* An agent's clock runs ahead by MaxAhead at most.                        *)
StampInv == \A h \in signed : stamp[h] <= clock + MaxAhead

(* An entry of Redis outlives its header's timestamp by two windows, less  *)
(* the agent's clock error.                                                *)
MemoryInv ==
    \A h \in Headers : memory[h] # Never =>
        /\ h \in signed
        /\ memory[h] >= stamp[h] - MaxAhead + 2 * SKEW

(* What a handler knows while it awaits Postgres or Redis.                 *)
FlightInv ==
    \A a \in Attempts :
        /\ InFlight(a) =>
             /\ carries[a] \in signed
             /\ Distance(arrivedAt[a], stamp[carries[a]]) <= SKEW
             /\ clock <= arrivedAt[a] + MaxDelay
        /\ pc[a] = "nonce" =>
             /\ signer[carries[a]] \notin Unparsable
             /\ keyOf[nodeId[carries[a]]] \in {signer[carries[a]], NoKey}
        /\ pc[a] # "done" => answer[a] = "none"

(* The header of an accepted attempt has been written to Redis.            *)
AcceptedInv ==
    \A a \in Attempts : answer[a] = "ok" =>
        memory[carries[a]] # Never /\ carries[a] \in signed

IInv ==
    /\ TypeOK
    /\ StampInv
    /\ MemoryInv
    /\ FlightInv
    /\ AcceptedInv
    /\ OneNonceOneUse
    /\ LetInWithinWindow

(* The types are preserved by the agent, the handler and time.             *)
LEMMA TypeStep == TypeOK /\ [Next]_vars => TypeOK'
<1> SUFFICES ASSUME TypeOK, [Next]_vars PROVE TypeOK'
  OBVIOUS
<1> USE NodeAuthAssumption DEF TypeOK, Await, Answer, Never, header, attempt
<1>1. ASSUME NEW n \in Nodes, Forget(n) PROVE TypeOK'
  BY <1>1 DEF Forget
<1>2. ASSUME NEW h \in Headers, NEW off \in (-MaxBehind)..MaxAhead, AuthHeader(h, off)
      PROVE TypeOK'
  BY <1>2 DEF AuthHeader
<1>3. ASSUME NEW a \in Attempts, RefuseMalformed(a) PROVE TypeOK'
  BY <1>3 DEF RefuseMalformed, Reply
<1>4. ASSUME NEW a \in Attempts, Receive(a) PROVE TypeOK'
  BY <1>4 DEF Receive, Reply, Goto
<1>5. ASSUME NEW a \in Attempts, Lookup(a) PROVE TypeOK'
  BY <1>5 DEF Lookup, Verdict, Reply, Goto
<1>6. ASSUME NEW a \in Attempts, RememberNonce(a) \/ LoseNonceAnswer(a) PROVE TypeOK'
  BY <1>6 DEF RememberNonce, LoseNonceAnswer, Retention, Reply
<1>7. ASSUME NEW a \in Attempts, RefuseNonce(a) \/ Abort(a) PROVE TypeOK'
  BY <1>7 DEF RefuseNonce, Abort, Reply
<1>8. CASE Tick
  BY <1>8 DEF Tick
<1>9. CASE UNCHANGED vars
  BY <1>9 DEF vars
<1> QED
  BY <1>1, <1>2, <1>3, <1>4, <1>5, <1>6, <1>7, <1>8, <1>9 DEF Next, Authenticate

(* An attempt that is about to write its nonce finds the entry of any      *)
(* earlier one alive: this is where the clock error, the delay and the two *)
(* windows meet.                                                           *)
LEMMA EntryOutlivesAttempt ==
    ASSUME IInv, NEW a \in Attempts, pc[a] = "nonce", memory[carries[a]] # Never
    PROVE  Remembered(carries[a])
<1> DEFINE h == carries[a]
<1>1. h \in Headers /\ stamp[h] \in Int /\ memory[h] \in Int /\ arrivedAt[a] \in Nat /\ clock \in Nat
  BY DEF IInv, TypeOK
<1>2. Distance(arrivedAt[a], stamp[h]) <= SKEW /\ clock <= arrivedAt[a] + MaxDelay
  BY DEF IInv, FlightInv, InFlight
<1>3. arrivedAt[a] <= stamp[h] + SKEW
  BY <1>1, <1>2, NodeAuthAssumption DEF Distance
<1>4. memory[h] >= stamp[h] - MaxAhead + 2 * SKEW
  BY <1>1 DEF IInv, MemoryInv
<1>5. clock <= memory[h]
  BY <1>1, <1>2, <1>3, <1>4, NodeAuthAssumption
<1> QED BY <1>5 DEF Remembered

(* An attempt that is answered without touching Redis.                     *)
LEMMA AnswerStep ==
    ASSUME IInv, TypeOK', NEW a \in Attempts, NEW x \in Answer, Reply(a, x),
           pc[a] # "done", x # "ok",
           UNCHANGED <<clock, keyOf, signed, nodeId, signer, stamp, memory, carries>>,
           arrivedAt' = arrivedAt \/ arrivedAt' = [arrivedAt EXCEPT ![a] = clock]
    PROVE  IInv'
<1> USE DEF IInv, TypeOK, Reply
<1>1. StampInv'
  BY DEF StampInv
<1>2. MemoryInv'
  BY DEF MemoryInv
<1>3. FlightInv'
  BY DEF FlightInv, InFlight
<1>4. AcceptedInv'
  BY DEF AcceptedInv
<1>5. OneNonceOneUse'
  BY DEF OneNonceOneUse
<1>6. LetInWithinWindow'
  BY DEF LetInWithinWindow, FlightInv
<1> QED BY <1>1, <1>2, <1>3, <1>4, <1>5, <1>6

(* An attempt that goes on to its next await.                              *)
LEMMA GotoStep ==
    ASSUME IInv, TypeOK', NEW a \in Attempts, Receive(a) \/ Lookup(a),
           NEW p \in {"lookup", "nonce"}, Goto(a, p)
    PROVE  IInv'
<1> USE DEF IInv, TypeOK, Goto, Receive, Lookup, Reply, header
<1>0. pc[a] # "done" /\ pc' = [pc EXCEPT ![a] = p] /\ answer' = answer
      /\ UNCHANGED <<clock, keyOf, signed, nodeId, signer, stamp, memory, carries>>
  OBVIOUS
<1>1. StampInv'
  BY DEF StampInv
<1>2. MemoryInv'
  BY <1>0 DEF MemoryInv
<1>3. FlightInv'
  <2>1. CASE Receive(a)
    <3>1. InWindow(stamp[carries[a]]) /\ p = "lookup"
      BY <2>1
    <3> QED BY <2>1, <3>1, NodeAuthAssumption DEF FlightInv, InFlight, InWindow
  <2>2. CASE Lookup(a)
    <3>1. Verdict(keyOf[nodeId[carries[a]]], carries[a]) = "ok" /\ p = "nonce"
      BY <2>2
    <3>2. keyOf[nodeId[carries[a]]] = signer[carries[a]] /\ signer[carries[a]] \notin Unparsable
      BY <3>1, NodeAuthAssumption DEF Verdict
    <3> QED BY <2>2, <3>1, <3>2 DEF FlightInv, InFlight
  <2> QED BY <2>1, <2>2
<1>4. AcceptedInv'
  BY <1>0 DEF AcceptedInv
<1>5. OneNonceOneUse'
  BY <1>0 DEF OneNonceOneUse
<1>6. LetInWithinWindow'
  BY <1>0 DEF LetInWithinWindow, FlightInv
<1> QED BY <1>1, <1>2, <1>3, <1>4, <1>5, <1>6

(* An attempt writes its nonce; no earlier attempt can have.               *)
LEMMA NonceStep ==
    ASSUME IInv, TypeOK', NEW a \in Attempts, RememberNonce(a) \/ LoseNonceAnswer(a)
    PROVE  IInv'
<1> USE DEF IInv, TypeOK, header
<1> DEFINE h == carries[a]
<1>1. /\ pc[a] = "nonce" /\ pc' = [pc EXCEPT ![a] = "done"]
      /\ memory' = [memory EXCEPT ![h] = clock + 2 * SKEW]
      /\ UNCHANGED <<clock, keyOf, signed, nodeId, signer, stamp, carries, arrivedAt>>
      /\ \E x \in {"ok", "internal"} : answer' = [answer EXCEPT ![a] = x]
  BY DEF RememberNonce, LoseNonceAnswer, Reply, Retention
<1>2. ~Remembered(h)
  BY DEF RememberNonce, LoseNonceAnswer
<1>3. memory[h] = Never
  BY <1>1, <1>2, EntryOutlivesAttempt
<1>4. h \in Headers /\ h \in signed
  BY <1>1 DEF FlightInv, InFlight
<1>5. clock + 2 * SKEW # Never /\ clock + 2 * SKEW >= stamp[h] - MaxAhead + 2 * SKEW
  BY <1>4, NodeAuthAssumption DEF StampInv, Never
<1> HIDE DEF h
<1>6. StampInv'
  BY <1>1 DEF StampInv
<1>7. MemoryInv'
  BY <1>1, <1>4, <1>5 DEF MemoryInv, h
<1>8. FlightInv'
  BY <1>1 DEF FlightInv, InFlight
<1>9. AcceptedInv'
  BY <1>1, <1>4, <1>5 DEF AcceptedInv, h
<1>10. OneNonceOneUse'
  BY <1>1, <1>3 DEF OneNonceOneUse, AcceptedInv, h
<1>11. LetInWithinWindow'
  BY <1>1 DEF LetInWithinWindow, FlightInv, InFlight
<1> QED BY <1>6, <1>7, <1>8, <1>9, <1>10, <1>11

(* The agents, the deletion of nodes, and time.                            *)
LEMMA EnvironmentStep ==
    ASSUME IInv, TypeOK',
           \/ \E n \in Nodes : Forget(n)
           \/ \E h \in Headers, off \in (-MaxBehind)..MaxAhead : AuthHeader(h, off)
           \/ Tick
    PROVE  IInv'
<1> USE DEF IInv, TypeOK, header, attempt
<1>0. UNCHANGED <<memory, pc, carries, arrivedAt, answer, nodeId, signer>>
  BY DEF Forget, AuthHeader, Tick
<1>1. OneNonceOneUse'
  BY <1>0 DEF OneNonceOneUse
<1>2. ASSUME NEW n \in Nodes, Forget(n) PROVE IInv'
  <2> USE <1>0, <1>2 DEF Forget
  <2>1. StampInv' /\ MemoryInv' /\ AcceptedInv'
    BY DEF StampInv, MemoryInv, AcceptedInv
  <2>2. FlightInv' /\ LetInWithinWindow'
    BY DEF FlightInv, InFlight, LetInWithinWindow
  <2> QED BY <1>1, <2>1, <2>2
<1>3. ASSUME NEW h \in Headers, NEW off \in (-MaxBehind)..MaxAhead, AuthHeader(h, off)
      PROVE IInv'
  <2> USE <1>0, <1>3 DEF AuthHeader
  <2>1. StampInv'
    BY NodeAuthAssumption DEF StampInv
  <2>2. MemoryInv' /\ AcceptedInv'
    BY DEF MemoryInv, AcceptedInv
  <2>3. FlightInv' /\ LetInWithinWindow'
    BY DEF FlightInv, InFlight, LetInWithinWindow, AcceptedInv
  <2> QED BY <1>1, <2>1, <2>2, <2>3
<1>4. CASE Tick
  <2> USE <1>0, <1>4 DEF Tick
  <2>1. StampInv' /\ MemoryInv' /\ AcceptedInv'
    BY NodeAuthAssumption DEF StampInv, MemoryInv, AcceptedInv
  <2>2. FlightInv' /\ LetInWithinWindow'
    BY NodeAuthAssumption DEF FlightInv, InFlight, LetInWithinWindow
  <2> QED BY <1>1, <2>1, <2>2
<1> QED BY <1>2, <1>3, <1>4

(* The invariant is inductive.                                             *)
LEMMA InvStep == IInv /\ [Next]_vars => IInv'
<1> SUFFICES ASSUME IInv, [Next]_vars PROVE IInv'
  OBVIOUS
<1>0. TypeOK /\ TypeOK'
  BY TypeStep DEF IInv
<1> USE DEF Answer
<1>1. ASSUME NEW a \in Attempts, RefuseMalformed(a) PROVE IInv'
  BY <1>0, <1>1, AnswerStep DEF RefuseMalformed, header
<1>2. ASSUME NEW a \in Attempts, Receive(a) PROVE IInv'
  BY <1>0, <1>2, AnswerStep, GotoStep DEF Receive, header
<1>3. ASSUME NEW a \in Attempts, Lookup(a) PROVE IInv'
  <2> DEFINE v == Verdict(keyOf[nodeId[carries[a]]], carries[a])
  <2>1. v \in {"unknown", "invalid_key", "invalid_signature", "ok"}
    BY DEF Verdict
  <2> HIDE DEF v
  <2>2. CASE v = "ok"
    BY <1>0, <1>3, <2>2, GotoStep DEF Lookup, v
  <2>3. CASE v # "ok"
    <3>1. Reply(a, v) /\ pc[a] = "lookup"
          /\ UNCHANGED <<clock, keyOf, signed, nodeId, signer, stamp, memory, carries, arrivedAt>>
      BY <1>3, <2>3 DEF Lookup, v, header
    <3> QED BY <1>0, <2>1, <2>3, <3>1, AnswerStep
  <2> QED BY <2>2, <2>3
<1>4. ASSUME NEW a \in Attempts, RefuseNonce(a) PROVE IInv'
  BY <1>0, <1>4, AnswerStep DEF RefuseNonce, header
<1>5. ASSUME NEW a \in Attempts, Abort(a) PROVE IInv'
  BY <1>0, <1>5, AnswerStep DEF Abort, header
<1>6. CASE UNCHANGED vars
  <2> USE <1>6 DEF vars, header, attempt, IInv
  <2>1. StampInv' /\ MemoryInv' /\ FlightInv' /\ AcceptedInv'
    BY DEF StampInv, MemoryInv, FlightInv, InFlight, AcceptedInv
  <2>2. OneNonceOneUse' /\ LetInWithinWindow'
    BY DEF OneNonceOneUse, LetInWithinWindow
  <2> QED BY <1>0, <2>1, <2>2
<1> QED
  BY <1>0, <1>1, <1>2, <1>3, <1>4, <1>5, <1>6, NonceStep, EnvironmentStep
     DEF Next, Authenticate

(* The whole invariant holds from the first request on.                    *)
THEOREM Inductive == Spec => []IInv
<1>1. Init => IInv
  BY NodeAuthAssumption DEF Init, IInv, TypeOK, Await, Answer, Never, StampInv, MemoryInv,
     FlightInv, InFlight, AcceptedInv, OneNonceOneUse, LetInWithinWindow
<1> QED BY <1>1, InvStep, PTL DEF Spec

(* "One nonce, one use" (node-auth.ts:75-78), as long as the agents' clock *)
(* error and the handler's delay together fit in the window.               *)
THEOREM NonceUsedOnce == Spec => []OneNonceOneUse
<1>1. IInv => OneNonceOneUse
  BY DEF IInv
<1> QED BY <1>1, Inductive, PTL

(* Every accepted stream was signed, in time, by its node's own key        *)
(* (node-auth.ts:46-73).                                                   *)
THEOREM OnlyOwnKey == Spec => []LetInWithinWindow
<1>1. IInv => LetInWithinWindow
  BY DEF IInv
<1> QED BY <1>1, Inductive, PTL

(***************************************************************************)
(* The refinement of LastingNonces                                         *)
(***************************************************************************)

(* An answer that leaves Redis alone.                                      *)
LEMMA TurnedAway ==
    ASSUME IInv, NEW a \in Attempts, pc[a] # "done", UNCHANGED <<memory, carries>>,
           NEW x \in {"malformed", "stale", "unknown", "invalid_key", "invalid_signature",
                      "internal"},
           Reply(a, x)
    PROVE  Lasting!Next
<1>1. answer[a] = "none" /\ answer' = [answer EXCEPT ![a] = x] /\ Used' = Used
  BY DEF IInv, FlightInv, Reply, Used
<1> QED
  BY <1>1 DEF Lasting!Next, Lasting!TurnAway, Lasting!Tell

(* A nonce is written for a header that was never used before.             *)
LEMMA FirstUse ==
    ASSUME IInv, NEW a \in Attempts, RememberNonce(a) \/ LoseNonceAnswer(a)
    PROVE  Lasting!Next
<1>1. /\ pc[a] = "nonce" /\ ~Remembered(carries[a]) /\ carries' = carries
      /\ memory' = [memory EXCEPT ![carries[a]] = clock + 2 * SKEW]
      /\ \E x \in {"ok", "internal"} : answer' = [answer EXCEPT ![a] = x]
  BY DEF RememberNonce, LoseNonceAnswer, Reply, Retention
<1>2. memory[carries[a]] = Never /\ answer[a] = "none"
  BY <1>1, EntryOutlivesAttempt DEF IInv, FlightInv
<1>3. carries[a] \in Headers /\ memory \in [Headers -> Int] /\ clock + 2 * SKEW # Never
  BY NodeAuthAssumption DEF IInv, TypeOK, Never
<1>4. carries[a] \notin Used /\ Used' = Used \cup {carries[a]}
  BY <1>1, <1>2, <1>3 DEF Used
<1> QED
  BY <1>1, <1>2, <1>4 DEF Lasting!Next, Lasting!Use, Lasting!Tell

(* A replay is refused because its header was used.                        *)
LEMMA SecondUse ==
    ASSUME IInv, NEW a \in Attempts, RefuseNonce(a)
    PROVE  Lasting!Next
<1>1. /\ answer[a] = "none" /\ answer' = [answer EXCEPT ![a] = "replayed"]
      /\ Used' = Used /\ carries' = carries
  BY DEF IInv, FlightInv, RefuseNonce, Reply, Used
<1>2. carries[a] \in Used
  BY DEF IInv, TypeOK, RefuseNonce, Remembered, Used
<1> QED
  BY <1>1, <1>2 DEF Lasting!Next, Lasting!RefuseReplay, Lasting!Tell

(* The memory that expires implements the one that lasts: whether an       *)
(* attempt is let in or refused as a replay depends only on whether its    *)
(* header was ever used, for all windows, clock errors and delays that     *)
(* satisfy NodeAuthAssumption (node-auth.ts:75-78).                        *)
THEOREM ExpiryIsInvisible == Spec => NeverForgets
<1>1. Init => Lasting!Init
  BY DEF Init, Lasting!Init, Used
<1>2. IInv /\ [Next]_vars => [Lasting!Next]_Lasting!vars
  <2> SUFFICES ASSUME IInv, [Next]_vars PROVE [Lasting!Next]_Lasting!vars
    OBVIOUS
  <2>1. ASSUME NEW a \in Attempts, RefuseMalformed(a) \/ Abort(a)
        PROVE  Lasting!Next
    BY <2>1, TurnedAway DEF RefuseMalformed, Abort
  <2>2. ASSUME NEW a \in Attempts, Receive(a) \/ Lookup(a)
        PROVE  [Lasting!Next]_Lasting!vars
    <3>1. pc[a] # "done" /\ UNCHANGED <<memory, carries>>
      BY <2>2 DEF Receive, Lookup
    <3>2. \/ UNCHANGED answer
          \/ \E x \in {"stale", "unknown", "invalid_key", "invalid_signature"} : Reply(a, x)
      <4>1. CASE Receive(a)
        BY <4>1 DEF Receive, Goto
      <4>2. CASE Lookup(a)
        BY <4>2 DEF Lookup, Verdict, Goto
      <4> QED
        BY <2>2, <4>1, <4>2
    <3>3. CASE UNCHANGED answer
      BY <3>1, <3>3 DEF Lasting!vars, Used
    <3> QED
      BY <3>1, <3>2, <3>3, TurnedAway
  <2>3. CASE \/ \E n \in Nodes : Forget(n)
             \/ \E h \in Headers, off \in (-MaxBehind)..MaxAhead : AuthHeader(h, off)
             \/ Tick \/ UNCHANGED vars
    <3>1. UNCHANGED <<memory, carries, answer>>
      BY <2>3 DEF Forget, AuthHeader, Tick, vars, attempt
    <3> QED
      BY <3>1 DEF Lasting!vars, Used
  <2> QED
    BY <2>1, <2>2, <2>3, FirstUse, SecondUse DEF Next, Authenticate
<1> QED
  BY <1>1, <1>2, Inductive, PTL DEF Spec, NeverForgets, Lasting!Spec
=============================================================================
