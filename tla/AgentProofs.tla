----------------------------- MODULE AgentProofs -----------------------------
(***************************************************************************)
(* Proofs about the agent: its commands and stores (AgentIdentity), for    *)
(* any directories, keys and node ids and any of the faults, and its       *)
(* session (AgentSession), for any number of streams and any backoffs.     *)
(***************************************************************************)
EXTENDS AgentIdentity, AgentSession, TLAPS

Places == {"idle", "get", "fallback", "fallback_locked", "set", "write", "enroll", "save",
           "install", "service", "keychain", "file", "file_locked", "clear"}

(* The stores, the locals of the command and those of `run`.               *)
TypeInv ==
    /\ keychain \in [Users -> [Dirs -> Keys \cup {NoKey}]]
    /\ file \in [Dirs -> Keys \cup {NoKey}]
    /\ config \in [Dirs -> NodeIds \cup {NoNode}]
    /\ minted \subseteq Keys
    /\ registered \in [NodeIds -> Keys \cup {NoKey}]
    /\ pc \in Places
    /\ who \in Users
    /\ dir \in Dirs
    /\ priv \in Keys \cup {NoKey}
    /\ nodeId \in NodeIds \cup {NoNode}
    /\ servedFrom \in Dirs
    /\ runWho \in Users
    /\ runDir \in Dirs

(* A command that has not ended has no outcome.                            *)
BusyInv == pc # "idle" => outcome = "none"

(* Every stored key was generated, and so was every key `run` saw.         *)
MintedInv ==
    /\ \A u \in Users, d \in Dirs : {keychain[u][d], file[d]} \subseteq minted \cup {NoKey}
    /\ runHad \subseteq minted

(* A key that was just generated is nowhere yet, and `run` has not seen it.*)
NewKeyInv ==
    pc \in {"set", "write"} =>
        /\ priv \in minted
        /\ priv \notin runHad
        /\ \A u \in Users, d \in Dirs : priv \notin {keychain[u][d], file[d]}

(* From the Enroll call on the key is stored; the server has it for the    *)
(* node it answered, unless it has forgotten that node.                    *)
EnrollInv ==
    /\ pc \in {"enroll", "save"} => priv \in {keychain[who][dir], file[dir]}
    /\ pc = "save" => nodeId \in NodeIds /\ registered[nodeId] \in {priv, NoKey}
    /\ outcome \in {"enrolled", "save_failed"} => nodeId \in NodeIds

(* What uninstall has removed so far.                                      *)
UninstallInv ==
    /\ pc \in {"file", "clear"} => keychain[who][dir] = NoKey
    /\ pc = "clear" => file[dir] = NoKey
    /\ pc \in {"keychain", "file", "file_locked", "clear"} => ~service \/ orphan

(* Once `run` found the keychain readable and empty, no key it saw is there*)
(* again: what enroll puts there meanwhile is new.                         *)
RunInv ==
    runPc = "file" /\ runOutcome = "missing_identity" =>
        keychain[runWho][runDir] \notin runHad

IInv ==
    /\ TypeInv
    /\ BusyInv
    /\ MintedInv
    /\ NewKeyInv
    /\ EnrollInv
    /\ UninstallInv
    /\ RunInv
    /\ UninstallIsClean
    /\ EnrolledKeyIsStored
    /\ ServiceHasEnrollment

(* enroll: a key is stored before the server hears of it.                  *)
LEMMA EnrollSteps ==
    ASSUME IInv,
           \/ \E u \in Users, p \in {"get", "install", "service"} :
                 \E d \in DirsOf(u) : Begin(u, d, p)
           \/ GetKey \/ UseFile \/ SetKeychain \/ WriteFile \/ EnrollRejected \/ SaveConfig
           \/ \E k \in Keys : GenerateKey(k)
           \/ \E n \in NodeIds, o \in {"answered", "lost"} : EnrollAccepted(n, o)
    PROVE  IInv'
<1> USE AgentAssumption DEF IInv, TypeInv, Places, BusyInv, MintedInv, NewKeyInv, EnrollInv,
        UninstallInv, RunInv, UninstallIsClean, EnrolledKeyIsStored, ServiceHasEnrollment,
        Enrolled, Dirs, Users, others, history, stores, server, locals, command, running
<1>1. ASSUME NEW u \in Users, NEW d \in DirsOf(u), NEW p \in {"get", "install", "service"},
             Begin(u, d, p)
      PROVE  IInv'
  BY <1>1 DEF Begin, DirsOf
<1>2. CASE GetKey
  BY <1>2 DEF GetKey, InKeychain, Goto
<1>3. CASE UseFile
  BY <1>3 DEF UseFile, Goto
<1>4. ASSUME NEW k \in Keys, GenerateKey(k) PROVE IInv'
  BY <1>4 DEF GenerateKey, MustGenerate, Goto
<1>5. CASE SetKeychain
  BY <1>5 DEF SetKeychain, AfterFailedSet, Goto
<1>6. CASE WriteFile
  BY <1>6 DEF WriteFile, Goto
<1>7. CASE EnrollRejected
  BY <1>7 DEF EnrollRejected, Fail, Exit
<1>8. ASSUME NEW n \in NodeIds, NEW o \in {"answered", "lost"}, EnrollAccepted(n, o) PROVE IInv'
  BY <1>8 DEF EnrollAccepted, Goto, Exit
<1>9. CASE SaveConfig
  BY <1>9 DEF SaveConfig, Exit
<1> QED BY <1>1, <1>2, <1>3, <1>4, <1>5, <1>6, <1>7, <1>8, <1>9

(* install, uninstall, and commands that fail or are killed.               *)
LEMMA OtherSteps ==
    ASSUME IInv,
           \/ InstallRefused \/ Install \/ InstallFails
           \/ RemoveService \/ DeleteKeychain \/ DeleteFile \/ ClearEnrollment
           \/ WriteFails \/ ReadFails \/ Crash
    PROVE  IInv'
<1> USE AgentAssumption DEF IInv, TypeInv, Places, BusyInv, MintedInv, NewKeyInv, EnrollInv,
        UninstallInv, RunInv, UninstallIsClean, EnrolledKeyIsStored, ServiceHasEnrollment,
        Enrolled, Dirs, Users, others, history, stores, server, locals, command, running
<1>1. CASE InstallRefused
  BY <1>1 DEF InstallRefused, Exit
<1>2. CASE Install
  BY <1>2 DEF Install, MayInstall, Exit
<1>3. CASE InstallFails
  BY <1>3 DEF InstallFails, Fail, Exit
<1>4. CASE RemoveService
  BY <1>4 DEF RemoveService, Goto
<1>5. CASE DeleteKeychain
  BY <1>5 DEF DeleteKeychain, Goto
<1>6. CASE DeleteFile
  BY <1>6 DEF DeleteFile, Goto, Exit
<1>7. CASE ClearEnrollment
  BY <1>7 DEF ClearEnrollment, Exit
<1>8. CASE WriteFails
  BY <1>8 DEF WriteFails, DiskError, Exit
<1>9. CASE Crash
  BY <1>9 DEF Crash, Fail, Exit
<1>10. CASE ReadFails
  BY <1>10 DEF ReadFails, Fail, Exit
<1> QED BY <1>1, <1>2, <1>3, <1>4, <1>5, <1>6, <1>7, <1>8, <1>9, <1>10

(* `run` and what happens around the commands.                             *)
LEMMA RunSteps ==
    ASSUME IInv,
           \/ RunCommand
           \/ \E u \in Users : ToggleKeychain(u)
           \/ \E n \in NodeIds : Forget(n)
    PROVE  IInv'
<1> USE AgentAssumption DEF IInv, TypeInv, Places, BusyInv, MintedInv, NewKeyInv, EnrollInv,
        UninstallInv, RunInv, UninstallIsClean, EnrolledKeyIsStored, ServiceHasEnrollment,
        Enrolled, Dirs, Users, others, history, stores, server, locals, command, running
<1>1. ASSUME NEW u \in Users, NEW d \in DirsOf(u), RunConfig(u, d) PROVE IInv'
  BY <1>1 DEF RunConfig, RunExit, runUnchanged, DirsOf
<1>2. CASE RunKeychain
  BY <1>2 DEF RunKeychain, InKeychain, RunGoto, runUnchanged
<1>3. CASE RunFile
  BY <1>3 DEF RunFile, RunGoto, RunExit, runUnchanged
<1>4. CASE Dial
  BY <1>4 DEF Dial, runUnchanged
<1>5. CASE RunStops
  BY <1>5 DEF RunStops, RunExit, runUnchanged
<1>6. ASSUME NEW u \in Users, ToggleKeychain(u) PROVE IInv'
  BY <1>6 DEF ToggleKeychain
<1>7. ASSUME NEW n \in NodeIds, Forget(n) PROVE IInv'
  BY <1>7 DEF Forget
<1>8. CASE RunReadFails
  BY <1>8 DEF RunReadFails, RunExit, runUnchanged
<1> QED BY <1>1, <1>2, <1>3, <1>4, <1>5, <1>6, <1>7, <1>8 DEF RunCommand

(* The invariant holds from a machine the agent has never run on.          *)
THEOREM Inductive == Spec => []IInv
<1>1. Init => IInv
  BY AgentAssumption DEF Init, IInv, TypeInv, Places, BusyInv, MintedInv, NewKeyInv,
     EnrollInv, UninstallInv, RunInv, UninstallIsClean, EnrolledKeyIsStored,
     ServiceHasEnrollment, Dirs, Users
<1>2. IInv /\ [Next]_vars => IInv'
  <2> SUFFICES ASSUME IInv, [Next]_vars PROVE IInv'
    OBVIOUS
  <2>1. CASE UNCHANGED vars
    BY <2>1 DEF vars, history, stores, server, locals, command, running, IInv, TypeInv, BusyInv,
       MintedInv, NewKeyInv, EnrollInv, UninstallInv, RunInv, UninstallIsClean,
       EnrolledKeyIsStored, ServiceHasEnrollment, Enrolled
  <2> QED BY <2>1, EnrollSteps, OtherSteps, RunSteps DEF Next, Enroll, Uninstall
<1> QED BY <1>1, <1>2, PTL DEF Spec

(* An uninstall that says it succeeded left nothing behind, whatever the   *)
(* keychain did while it ran (main.go:168-193).                            *)
THEOREM CleanUninstall == Spec => []UninstallIsClean
<1>1. IInv => UninstallIsClean
  BY DEF IInv
<1> QED BY <1>1, Inductive, PTL

(* Whether enroll succeeded, lost the server's answer or could not save    *)
(* config.json, the key the server took is stored, also when the keychain  *)
(* was locked half way (identity.go:75-111, main.go:93-106).               *)
THEOREM StoredBeforeEnrolled == Spec => []EnrolledKeyIsStored
<1>1. IInv => EnrolledKeyIsStored
  BY DEF IInv
<1> QED BY <1>1, Inductive, PTL

(* A registered service still has the enrollment install checked, or is    *)
(* one uninstall reported it could not remove (service.go:29-30); for any  *)
(* directories MODELHUB_CONFIG_DIR names.                                  *)
THEOREM ServiceIsEnrolled == Spec => []ServiceHasEnrollment
<1>1. IInv => ServiceHasEnrollment
  BY DEF IInv
<1> QED BY <1>1, Inductive, PTL

(* `run` tells the operator to re-enroll only when no key it could have    *)
(* used is left, although the two stores are read one after the other and  *)
(* commands change them in between (identity.go:54).                       *)
THEOREM NoKeyThrownAway == Spec => ReEnrollOnlyWithoutKey
<1>1. IInv /\ [Next]_vars =>
        [runPc = "file" /\ runPc' = "idle" /\ runOutcome' = "missing_identity" =>
            runHad \cap {keychain[runWho][runDir], file[runDir]} = {}]_vars
  <2> SUFFICES ASSUME IInv, Next,
                      runPc = "file", runPc' = "idle", runOutcome' = "missing_identity"
               PROVE  runHad \cap {keychain[runWho][runDir], file[runDir]} = {}
    OBVIOUS
  <2>1. RunFile
    BY DEF Next, Begin, Enroll, GetKey, UseFile, GenerateKey, SetKeychain, WriteFile,
       EnrollRejected, EnrollAccepted, SaveConfig, WriteFails, InstallRefused, Install,
       InstallFails, Uninstall, RemoveService, DeleteKeychain, DeleteFile, ClearEnrollment,
       RunCommand, RunConfig, RunKeychain, RunFile, RunReadFails, RunGoto, RunExit, Dial,
       RunStops, ReadFails, Fail, ToggleKeychain, Crash, Forget, others, running
  <2>2. file[runDir] = NoKey /\ runOutcome = "missing_identity"
    BY <2>1 DEF RunFile, RunGoto, RunExit
  <2> QED BY <2>2, AgentAssumption DEF IInv, TypeInv, MintedInv, RunInv
<1> QED BY <1>1, Inductive, PTL DEF Spec, ReEnrollOnlyWithoutKey

(***************************************************************************)
(* The session                                                             *)
(***************************************************************************)
SessionInv == TypeOK /\ OneLiveStream

(* connectOnce returns: the stream it used is ended, so none is left.      *)
LEMMA ReturnStep ==
    ASSUME SessionInv, at \in Connected, Return
    PROVE  SessionInv'
  BY DEF Return, HangUp, AfterConnect, SessionInv, TypeOK,
     OneLiveStream, Connected, LinkStates

(* connectOnce dials, when no other stream is live.                        *)
LEMMA DialStep ==
    ASSUME SessionInv, Connect
    PROVE  SessionInv'
  BY SessionAssumption DEF Connect, SessionInv, TypeOK,
     OneLiveStream, Connected, LinkStates

(* The other steps of connectOnce.                                         *)
LEMMA GoOnStep ==
    ASSUME SessionInv,
           \/ SendHello \/ ReceiveAck \/ Collect
           \/ SendInventory \/ SelectDone \/ SelectTick
           \/ SendSamples \/ FactsFail
    PROVE  SessionInv'
<1>1. CASE Return
  BY <1>1, ReturnStep DEF SendHello, ReceiveAck, Collect,
     SendInventory, SelectDone, SelectTick, SendSamples,
     FactsFail, Connected
<1>2. CASE ~Return
  BY <1>2 DEF SendHello, ReceiveAck, Collect,
     SendInventory, SelectDone, SelectTick, SendSamples,
     FactsFail, SessionInv, TypeOK, OneLiveStream,
     Connected, LinkStates
<1> QED BY <1>1, <1>2

(* Between two connections; doubling keeps the backoff within its bounds.  *)
LEMMA WaitStep ==
    ASSUME SessionInv, StopWaiting \/ Retry
    PROVE  SessionInv'
  BY SessionAssumption DEF StopWaiting, Retry, Longer, SessionInv,
     TypeOK, OneLiveStream, Connected, LinkStates

(* The reader, the server, the network and the operator.                   *)
LEMMA OutsideStep ==
    ASSUME SessionInv,
           \/ Weather \/ Cancel
           \/ \E c \in Conns :
                 \/ ReaderEnds(c) \/ ServerAcks(c) \/ ServerEnds(c)
                 \/ LinkDies(c) \/ PingTimeout(c)
    PROVE  SessionInv'
  BY DEF Weather, Cancel, ReaderEnds, ServerAcks,
     ServerEnds, LinkDies, PingTimeout, SessionInv, TypeOK,
     OneLiveStream, Connected, LinkStates

(* The two properties of the session are inductive together: a stream is   *)
(* given up only because conn names it (Return of connectOnce).            *)
THEOREM SessionInductive == SessionSpec => []SessionInv
<1>1. SessionInit => SessionInv
  <2> SUFFICES ASSUME SessionInit PROVE SessionInv
    OBVIOUS
  <2>1. backoff \in MinBackoff..MaxBackoff
    BY SessionAssumption DEF SessionInit
  <2>2. trouble \in BOOLEAN /\ cancelled \in BOOLEAN
    BY Zenon DEF SessionInit
  <2>3. /\ acked \in [Conns -> BOOLEAN] /\ done \in [Conns -> BOOLEAN]
        /\ link \in [Conns -> LinkStates]
        /\ reader \in [Conns -> {"none", "reading", "over"}]
    BY Zenon DEF SessionInit, LinkStates
  <2>4. OneLiveStream
    BY DEF SessionInit, OneLiveStream
  <2> QED
    BY <2>1, <2>2, <2>3, <2>4 DEF SessionInit, SessionInv, TypeOK, Connected
<1>2. SessionInv /\ [SessionNext]_sessionVars => SessionInv'
  <2> SUFFICES ASSUME SessionInv, [SessionNext]_sessionVars PROVE SessionInv'
    OBVIOUS
  <2>1. CASE UNCHANGED sessionVars
    BY <2>1 DEF sessionVars, SessionInv, TypeOK, OneLiveStream
  <2> QED
    BY <2>1, DialStep, GoOnStep, WaitStep, OutsideStep DEF SessionNext, Run
<1> QED BY <1>1, <1>2, PTL DEF SessionSpec

(* The backoff stays between its bounds, and Run has a stream exactly      *)
(* while it is inside connectOnce (session.go:31-136).                     *)
THEOREM SessionTypes == SessionSpec => []TypeOK
<1>1. SessionInv => TypeOK
  BY DEF SessionInv
<1> QED BY <1>1, SessionInductive, PTL

(* For any number of reconnects the agent holds at most one stream open,   *)
(* and none after Run has returned (`defer cancel()` of connectOnce).      *)
THEOREM NoStreamLeftOpen == SessionSpec => []OneLiveStream
<1>1. SessionInv => OneLiveStream
  BY DEF SessionInv
<1> QED BY <1>1, SessionInductive, PTL
=============================================================================
