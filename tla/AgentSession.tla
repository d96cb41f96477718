---------------------------- MODULE AgentSession ----------------------------
(***************************************************************************)
(* The agent's connection to the control plane: Session.Run and            *)
(* connectOnce (internal/transport/session.go) over the HTTP/2 client of   *)
(* client.go.                                                              *)
(*                                                                         *)
(* Run is one goroutine; each connection that gets as far as its inventory *)
(* starts a second one, which reads what the server sends and cancels the  *)
(* connection's context when the stream ends.  The network may lose a      *)
(* connection silently, the server may hang up, probes may fail, and the   *)
(* process may be told to stop, all at any point.  What the messages say   *)
(* is in DeviceInventory and NodeLiveness; here they are sent or not.      *)
(***************************************************************************)
EXTENDS Naturals, FiniteSets

CONSTANTS
    Conns,       \* streams, reused once nothing refers to them
    NoConn,
    MinBackoff,  \* Session.MinBackoff
    MaxBackoff   \* Session.MaxBackoff

(* The defaults of Run, one second and thirty, are such a pair.            *)
ASSUME SessionAssumption ==
    /\ NoConn \notin Conns
    /\ MinBackoff \in Nat \ {0}
    /\ MaxBackoff \in Nat
    /\ MinBackoff <= MaxBackoff

VARIABLES
    trouble,    \* the network, the server or a probe may fail now
    cancelled,  \* the context of Run: SIGINT or SIGTERM came
    at,         \* where Run is
    backoff,
    conn,       \* the stream of connectOnce
    link,       \* per stream, as the agent's HTTP/2 client has it
    acked,      \* per stream: its HelloAck has arrived
    done,       \* per stream: its context is cancelled
    reader      \* per stream: the goroutine that reads it

sessionVars == <<trouble, cancelled, at, backoff, conn, link, acked, done, reader>>

(* "dead": packets are lost and nobody has noticed.                        *)
LinkStates == {"none", "new", "open", "dead", "ended"}
Connected  == {"hello", "ack", "collect", "inventory", "select", "send"}

SessionInit ==
    /\ trouble = TRUE
    /\ cancelled = FALSE
    /\ at = "connect"
    /\ backoff = MinBackoff
    /\ conn = NoConn
    /\ link = [c \in Conns |-> "none"]
    /\ acked = [c \in Conns |-> FALSE]
    /\ done = [c \in Conns |-> FALSE]
    /\ reader = [c \in Conns |-> "none"]

(***************************************************************************)
(* Leaving connectOnce                                                     *)
(***************************************************************************)

(* Mutant: connectOnce has no `defer cancel()`.                            *)
HangUpNot == UNCHANGED <<link, done>>

(* defer cancel(): the context is done and the stream is reset.            *)
HangUp ==
    /\ done' = [done EXCEPT ![conn] = TRUE]
    /\ link' = [link EXCEPT ![conn] = "ended"]

(* Mutant: Run does not look at its context after connectOnce.             *)
AfterConnectAlwaysWait == "wait"

(* Run stops if its context is done, and otherwise waits.                  *)
AfterConnect == IF cancelled THEN "stopped" ELSE "wait"

(* connectOnce returns, with or without an error.                          *)
Return ==
    /\ HangUp
    /\ conn' = NoConn
    /\ at' = AfterConnect
    /\ UNCHANGED <<trouble, cancelled, backoff, acked, reader>>

(* Send and Receive fail once the stream has ended or its context is done. *)
Broken(c) == done[c] \/ link[c] = "ended"

(***************************************************************************)
(* connectOnce                                                             *)
(***************************************************************************)
Connect ==
    /\ at = "connect"
    /\ \E c \in Conns :
          /\ reader[c] # "reading" /\ link[c] \in {"none", "ended"}
          /\ conn' = c
          /\ link' = [link EXCEPT ![c] = "new"]
          /\ acked' = [acked EXCEPT ![c] = FALSE]
          /\ done' = [done EXCEPT ![c] = cancelled]
          /\ reader' = [reader EXCEPT ![c] = "none"]
    /\ at' = "hello"
    /\ UNCHANGED <<trouble, cancelled, backoff>>

(* inventory.Host fails, or inventory.Collect.                             *)
FactsFail ==
    /\ at \in {"hello", "collect"}
    /\ trouble
    /\ Return

SendHello ==
    /\ at = "hello"
    /\ IF Broken(conn)
       THEN Return
       ELSE /\ link' = [link EXCEPT ![conn] = IF @ = "new" THEN "open" ELSE @]
            /\ at' = "ack"
            /\ UNCHANGED <<trouble, cancelled, backoff, conn, acked, done, reader>>

(* Receive has no timeout: it ends with a message, the stream or the       *)
(* context.                                                                *)
ReceiveAck ==
    /\ at = "ack"
    /\ \/ Broken(conn) /\ Return
       \/ /\ acked[conn] /\ ~done[conn]
          /\ at' = "collect"
          /\ UNCHANGED <<trouble, cancelled, backoff, conn, link, acked, done, reader>>

Collect ==
    /\ at = "collect"
    /\ at' = "inventory"
    /\ UNCHANGED <<trouble, cancelled, backoff, conn, link, acked, done, reader>>

(* The inventory is sent, the reader and the ticker are started.           *)
SendInventory ==
    /\ at = "inventory"
    /\ IF Broken(conn)
       THEN Return
       ELSE /\ reader' = [reader EXCEPT ![conn] = "reading"]
            /\ at' = "select"
            /\ UNCHANGED <<trouble, cancelled, backoff, conn, link, acked, done>>

(* case <-ctx.Done()                                                       *)
SelectDone ==
    /\ at = "select"
    /\ done[conn]
    /\ Return

(* case <-ticker.C, which may win although the context is done.  When all  *)
(* devices fail to sample, nothing is sent and the loop goes on.           *)
SelectTick ==
    /\ at = "select"
    /\ at' = "send"
    /\ UNCHANGED <<trouble, cancelled, backoff, conn, link, acked, done, reader>>

SendSamples ==
    /\ at = "send"
    /\ IF Broken(conn)
       THEN Return
       ELSE /\ at' = "select"
            /\ UNCHANGED <<trouble, cancelled, backoff, conn, link, acked, done, reader>>

(* The reader's Receive fails, and it cancels the context the sampler      *)
(* selects on.  A message from the server is only logged.                  *)
ReaderEnds(c) ==
    /\ reader[c] = "reading"
    /\ Broken(c)
    /\ reader' = [reader EXCEPT ![c] = "over"]
    /\ done' = [done EXCEPT ![c] = TRUE]
    /\ UNCHANGED <<trouble, cancelled, at, backoff, conn, link, acked>>

(***************************************************************************)
(* Run between two connections                                             *)
(***************************************************************************)
StopWaiting ==
    /\ at = "wait"
    /\ cancelled
    /\ at' = "stopped"
    /\ UNCHANGED <<trouble, cancelled, backoff, conn, link, acked, done, reader>>

(* Mutant: the backoff is doubled without a limit.                         *)
LongerUnbounded(b) == b * 2

Longer(b) == IF b * 2 <= MaxBackoff THEN b * 2 ELSE MaxBackoff

(* The timer, at most `backoff` later.                                     *)
Retry ==
    /\ at = "wait"
    /\ at' = "connect"
    /\ backoff' = Longer(backoff)
    /\ UNCHANGED <<trouble, cancelled, conn, link, acked, done, reader>>

(***************************************************************************)
(* The server, the network and the operator                                *)
(***************************************************************************)

(* The server yields the HelloAck as soon as the header is verified.       *)
ServerAcks(c) ==
    /\ link[c] = "open"
    /\ ~acked[c]
    /\ acked' = [acked EXCEPT ![c] = TRUE]
    /\ UNCHANGED <<trouble, cancelled, at, backoff, conn, link, done, reader>>

(* The dial fails, the server refuses the header, restarts or hangs up.    *)
ServerEnds(c) ==
    /\ trouble
    /\ link[c] \in {"new", "open"}
    /\ link' = [link EXCEPT ![c] = "ended"]
    /\ UNCHANGED <<trouble, cancelled, at, backoff, conn, acked, done, reader>>

LinkDies(c) ==
    /\ trouble
    /\ link[c] = "open"
    /\ link' = [link EXCEPT ![c] = "dead"]
    /\ UNCHANGED <<trouble, cancelled, at, backoff, conn, acked, done, reader>>

(* Mutant: an http2.Transport without ReadIdleTimeout sends no pings.      *)
PingTimeoutNever(c) == FALSE

(* ReadIdleTimeout and PingTimeout: a dead connection is noticed.          *)
PingTimeout(c) ==
    /\ link[c] = "dead"
    /\ link' = [link EXCEPT ![c] = "ended"]
    /\ UNCHANGED <<trouble, cancelled, at, backoff, conn, acked, done, reader>>

Weather ==
    /\ trouble' = ~trouble
    /\ UNCHANGED <<cancelled, at, backoff, conn, link, acked, done, reader>>

(* SIGINT or SIGTERM: the context of Run is done, and with it those made   *)
(* from it.                                                                *)
Cancel ==
    /\ ~cancelled
    /\ cancelled' = TRUE
    /\ done' = [c \in Conns |-> done[c] \/ c = conn]
    /\ UNCHANGED <<trouble, at, backoff, conn, link, acked, reader>>

Run ==
    \/ Connect \/ SendHello \/ ReceiveAck \/ Collect \/ SendInventory
    \/ SelectDone \/ SelectTick \/ SendSamples \/ StopWaiting \/ Retry

SessionNext ==
    \/ Run \/ FactsFail \/ Weather \/ Cancel
    \/ \E c \in Conns :
          ReaderEnds(c) \/ ServerAcks(c) \/ ServerEnds(c) \/ LinkDies(c) \/ PingTimeout(c)

SessionSpec == SessionInit /\ [][SessionNext]_sessionVars

(* Goroutines are scheduled, timers fire, HTTP/2 pings are sent, and a     *)
(* server that is reached answers.  Nothing makes the trouble end, and     *)
(* nothing makes a select prefer the context to the ticker.                *)
Fairness ==
    /\ WF_sessionVars(Run)
    /\ \A c \in Conns :
          /\ WF_sessionVars(ReaderEnds(c))
          /\ WF_sessionVars(ServerAcks(c))
          /\ WF_sessionVars(PingTimeout(c))

FairSpec == SessionSpec /\ Fairness

(***************************************************************************)
(* Properties                                                              *)
(***************************************************************************)

(* Locals of Run and of the streams keep their types; the backoff stays    *)
(* between the two bounds of the Session.                                  *)
TypeOK ==
    /\ trouble \in BOOLEAN /\ cancelled \in BOOLEAN
    /\ at \in Connected \cup {"connect", "wait", "stopped"}
    /\ backoff \in MinBackoff..MaxBackoff
    /\ conn \in Conns \cup {NoConn}
    /\ (conn = NoConn) <=> (at \notin Connected)
    /\ link \in [Conns -> LinkStates]
    /\ acked \in [Conns -> BOOLEAN] /\ done \in [Conns -> BOOLEAN]
    /\ reader \in [Conns -> {"none", "reading", "over"}]

(* However a connection ended, its stream was given up before the next is  *)
(* opened: in the agent's own view, which learns of a dead link only by    *)
(* its pings, no old stream stays open beside the new one, and none after  *)
(* Run has returned (defer cancel).                                        *)
OneLiveStream ==
    \A c \in Conns : link[c] \in {"new", "open", "dead"} => c = conn

(* Run returns once its context is done, "from whatever state it was in":  *)
(* dialling, waiting for an ack that never comes, sampling, backing off.   *)
RunReturns == cancelled ~> at = "stopped"

(* When trouble ends for good, the agent is connected and sampling on a    *)
(* working stream from some point on, whatever it was doing: backing off,  *)
(* or holding a connection that had died silently (the HTTP/2 pings), or   *)
(* one the server had hung up (the reader cancels the sampler).            *)
ReconnectsWhenWell ==
    (<>[]~trouble /\ []~cancelled) =>
        <>[](at \in {"select", "send"} /\ link[conn] = "open")
=============================================================================
