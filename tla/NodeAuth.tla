------------------------------ MODULE NodeAuth ------------------------------
(***************************************************************************)
(* Authentication of a node's stream: AuthHeader in the agent's            *)
(* transport/client.go and authenticateNode in rpc/node-auth.ts.           *)
(*                                                                         *)
(* The agent signs a fresh header, with a random nonce and its own clock,  *)
(* for every connection attempt; HTTP/2 clients and proxies may deliver a  *)
(* request more than once and late.  The handler awaits Postgres and then  *)
(* Redis, so the timestamp it checked has aged when the nonce is written.  *)
(*                                                                         *)
(* A header is named by its nonce: 16 random bytes do not repeat.          *)
(***************************************************************************)
EXTENDS Integers

CONSTANTS
    Nodes,      \* node ids
    Keys,       \* Ed25519 keys
    Unparsable, \* stored keys node:crypto refuses
    NoKey,      \* there is no row for the node id
    Headers,    \* authorization headers the agents build
    Attempts,   \* Connect calls that reach a replica of the control plane
    SKEW,       \* NODE_AUTH_SKEW_MS
    MaxBehind,  \* how far an agent's clock may run behind the server's
    MaxAhead,   \* how far an agent's clock may run ahead of the server's
    MaxDelay,   \* how long the handler may wait for Postgres and Redis
    MaxTime     \* bound on the clock

(* The nonce is remembered for twice the window.  That is enough only if   *)
(* the clock error and the delay of the handler fit in one window.         *)
ASSUME NodeAuthAssumption ==
    /\ NoKey \notin Keys
    /\ SKEW \in Nat /\ MaxBehind \in Nat /\ MaxAhead \in Nat
    /\ MaxDelay \in Nat /\ MaxTime \in Nat
    /\ MaxAhead + MaxDelay <= SKEW

VARIABLES
    clock,      \* Date.now() of the control plane, and Redis' clock
    keyOf,      \* nodes.public_key by node id, NoKey without a row
    signed,     \* the headers built so far
    nodeId,     \* the node id in a header
    signer,     \* the key a header is signed with
    stamp,      \* the unixMillis of a header
    memory,     \* Redis: when the entry of a nonce expires, by header
    pc,         \* the await each attempt is at
    carries,    \* the header an attempt carries
    arrivedAt,  \* when an attempt's timestamp was checked
    answer      \* what an attempt was answered

header  == <<signed, nodeId, signer, stamp>>
attempt == <<pc, carries, arrivedAt, answer>>
vars    == <<clock, keyOf, header, memory, attempt>>

Await  == {"idle", "lookup", "nonce", "done"}
Answer == {"none", "malformed", "stale", "unknown", "invalid_key", "invalid_signature",
           "replayed", "internal", "ok"}
Never  == -1  \* no entry was ever written

Init ==
    /\ clock = 0
    /\ keyOf \in [Nodes -> Keys \cup {NoKey}]
    /\ signed = {}
    /\ nodeId \in [Headers -> Nodes]
    /\ signer \in [Headers -> Keys]
    /\ stamp = [h \in Headers |-> 0]
    /\ memory = [h \in Headers |-> Never]
    /\ pc = [a \in Attempts |-> "idle"]
    /\ carries \in [Attempts -> Headers]
    /\ arrivedAt = [a \in Attempts |-> 0]
    /\ answer = [a \in Attempts |-> "none"]

Goto(a, p) == pc' = [pc EXCEPT ![a] = p] /\ UNCHANGED answer

Reply(a, x) ==
    /\ pc' = [pc EXCEPT ![a] = "done"]
    /\ answer' = [answer EXCEPT ![a] = x]

(***************************************************************************)
(* The nodes table: an enrolled node keeps its key until its organization  *)
(* is deleted, and a node id is never given out again.                     *)
(***************************************************************************)
Forget(n) ==
    /\ keyOf[n] # NoKey
    /\ keyOf' = [keyOf EXCEPT ![n] = NoKey]
    /\ UNCHANGED <<clock, header, memory, attempt>>

(***************************************************************************)
(* The agent                                                               *)
(***************************************************************************)

(* AuthHeader: the timestamp is the agent's clock, off by at most the      *)
(* bounds on its error.                                                    *)
AuthHeader(h, off) ==
    /\ h \notin signed
    /\ signed' = signed \cup {h}
    /\ stamp' = [stamp EXCEPT ![h] = clock + off]
    /\ UNCHANGED <<clock, keyOf, nodeId, signer, memory, attempt>>

(***************************************************************************)
(* authenticateNode                                                        *)
(***************************************************************************)
Distance(x, y) == IF x <= y THEN y - x ELSE x - y

InWindow(t) == Distance(clock, t) <= SKEW

(* No header, the wrong scheme, not four fields, no UUID or no number.     *)
RefuseMalformed(a) ==
    /\ pc[a] = "idle"
    /\ Reply(a, "malformed")
    /\ UNCHANGED <<clock, keyOf, header, memory, carries, arrivedAt>>

(* A header arrives, for the first time or again, and its age is checked.  *)
Receive(a) ==
    /\ pc[a] = "idle"
    /\ carries[a] \in signed
    /\ arrivedAt' = [arrivedAt EXCEPT ![a] = clock]
    /\ IF InWindow(stamp[carries[a]]) THEN Goto(a, "lookup") ELSE Reply(a, "stale")
    /\ UNCHANGED <<clock, keyOf, header, memory, carries>>

(* Mutant: the signature is not verified.                                  *)
VerdictIgnoringKey(k, h) == IF k = NoKey THEN "unknown" ELSE "ok"

(* The key of the row the select returned, and the verdict on it.          *)
Verdict(k, h) ==
    CASE k = NoKey         -> "unknown"
      [] k \in Unparsable  -> "invalid_key"
      [] k \in Keys \ Unparsable /\ signer[h] # k -> "invalid_signature"
      [] OTHER             -> "ok"

Lookup(a) ==
    LET v == Verdict(keyOf[nodeId[carries[a]]], carries[a])
    IN  /\ pc[a] = "lookup"
        /\ IF v = "ok" THEN Goto(a, "nonce") ELSE Reply(a, v)
        /\ UNCHANGED <<clock, keyOf, header, memory, carries, arrivedAt>>

(* Redis keeps a key through the millisecond it expires in.                *)
Remembered(h) == memory[h] # Never /\ clock <= memory[h]

(* Mutant: nonces are kept for one window.                                 *)
RetentionOneWindow == SKEW

Retention == 2 * SKEW

(* SET key 1 PX 2*SKEW NX, and the answer it decides.                      *)
RememberNonce(a) ==
    /\ pc[a] = "nonce"
    /\ ~Remembered(carries[a])
    /\ memory' = [memory EXCEPT ![carries[a]] = clock + Retention]
    /\ Reply(a, "ok")
    /\ UNCHANGED <<clock, keyOf, header, carries, arrivedAt>>

RefuseNonce(a) ==
    /\ pc[a] = "nonce"
    /\ Remembered(carries[a])
    /\ Reply(a, "replayed")
    /\ UNCHANGED <<clock, keyOf, header, memory, carries, arrivedAt>>

(* Redis stored the nonce and the connection broke before its answer.      *)
LoseNonceAnswer(a) ==
    /\ pc[a] = "nonce"
    /\ ~Remembered(carries[a])
    /\ memory' = [memory EXCEPT ![carries[a]] = clock + Retention]
    /\ Reply(a, "internal")
    /\ UNCHANGED <<clock, keyOf, header, carries, arrivedAt>>

(* Mutant: a failure of Redis is taken for a nonce that exists.            *)
AbortAsReplay(a) ==
    /\ pc[a] \in {"lookup", "nonce"}
    /\ Reply(a, "replayed")
    /\ UNCHANGED <<clock, keyOf, header, memory, carries, arrivedAt>>

(* Postgres or Redis fails a command, or the replica dies.                 *)
Abort(a) ==
    /\ pc[a] \in {"lookup", "nonce"}
    /\ Reply(a, "internal")
    /\ UNCHANGED <<clock, keyOf, header, memory, carries, arrivedAt>>

(* Time passes, but no handler waits longer than MaxDelay.                 *)
Tick ==
    /\ clock < MaxTime
    /\ \A a \in Attempts : pc[a] \in {"lookup", "nonce"} => clock < arrivedAt[a] + MaxDelay
    /\ clock' = clock + 1
    /\ UNCHANGED <<keyOf, header, memory, attempt>>

Authenticate(a) == Lookup(a) \/ RememberNonce(a) \/ RefuseNonce(a)

Next ==
    \/ \E n \in Nodes : Forget(n)
    \/ \E h \in Headers, off \in (-MaxBehind)..MaxAhead : AuthHeader(h, off)
    \/ \E a \in Attempts : RefuseMalformed(a) \/ Receive(a) \/ Authenticate(a)
                              \/ LoseNonceAnswer(a) \/ Abort(a)
    \/ Tick

Spec == Init /\ [][Next]_vars
-----------------------------------------------------------------------------
(***************************************************************************)
(* Properties                                                              *)
(***************************************************************************)

(* The nonces, the headers and the locals of an attempt keep their types.  *)
TypeOK ==
    /\ clock \in Nat
    /\ keyOf \in [Nodes -> Keys \cup {NoKey}]
    /\ signed \subseteq Headers
    /\ nodeId \in [Headers -> Nodes]
    /\ signer \in [Headers -> Keys]
    /\ stamp \in [Headers -> Int]
    /\ memory \in [Headers -> Int]
    /\ pc \in [Attempts -> Await]
    /\ carries \in [Attempts -> Headers]
    /\ arrivedAt \in [Attempts -> Nat]
    /\ answer \in [Attempts -> Answer]

(* "One nonce, one use" (node-auth.ts:75): however often and however late  *)
(* a header is delivered, at most one attempt is let in with it.  The      *)
(* entry in Redis outlives every attempt that passed the timestamp check,  *)
(* although the check and the write are two awaits apart.                  *)
OneNonceOneUse ==
    \A a, b \in Attempts :
        answer[a] = "ok" /\ answer[b] = "ok" /\ carries[a] = carries[b] => a = b

(* The headers whose nonce was ever written.                               *)
Used == {h \in Headers : memory[h] # Never}

Lasting == INSTANCE LastingNonces WITH used <- Used

(* Redis forgets a nonce after two windows, and yet attempts are answered  *)
(* as if it never did: a header that was used is refused as a replay for   *)
(* ever, and one that was not is never refused as one, however late it is  *)
(* delivered and whichever reply of Redis is lost (node-auth.ts:75-78).    *)
NeverForgets == Lasting!Spec

(* An authenticated stream was opened by a header whose own timestamp was  *)
(* within the window when it arrived and whose signer is the key some row  *)
(* of that node id held: it is never a stranger's, though the row may be   *)
(* gone by now (node-auth.ts:46-73).                                       *)
LetInWithinWindow ==
    \A a \in Attempts : answer[a] = "ok" =>
        /\ Distance(arrivedAt[a], stamp[carries[a]]) <= SKEW
        /\ signer[carries[a]] \notin Unparsable
        /\ keyOf[nodeId[carries[a]]] \in {signer[carries[a]], NoKey}
=============================================================================
