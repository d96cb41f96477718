--------------------------- MODULE LastingNonces ---------------------------
(***************************************************************************)
(* What the memory of nonces promises, without clocks, windows or expiry:  *)
(* a header that was used stays used for ever, and that alone decides      *)
(* between letting an attempt in and refusing it as a replay.              *)
(***************************************************************************)
CONSTANTS Headers, Attempts

VARIABLES
    used,      \* the headers whose nonce was taken, never forgotten
    carries,   \* the header an attempt carries
    answer     \* what an attempt was answered

vars == <<used, carries, answer>>

Init ==
    /\ used = {}
    /\ carries \in [Attempts -> Headers]
    /\ answer = [a \in Attempts |-> "none"]

Tell(a, x) ==
    /\ answer[a] = "none"
    /\ answer' = [answer EXCEPT ![a] = x]
    /\ UNCHANGED carries

(* The first use of the header, known to the agent or not.                 *)
Use(a) ==
    /\ carries[a] \notin used
    /\ used' = used \cup {carries[a]}
    /\ \E x \in {"ok", "internal"} : Tell(a, x)

RefuseReplay(a) ==
    /\ carries[a] \in used
    /\ Tell(a, "replayed")
    /\ UNCHANGED used

(* The attempt fails, or is refused, before its nonce counts.              *)
TurnAway(a) ==
    /\ \E x \in {"malformed", "stale", "unknown", "invalid_key", "invalid_signature",
                 "internal"} : Tell(a, x)
    /\ UNCHANGED used

Next == \E a \in Attempts : Use(a) \/ RefuseReplay(a) \/ TurnAway(a)

Spec == Init /\ [][Next]_vars
=============================================================================
