---------------------------- MODULE AgentIdentity ----------------------------
(***************************************************************************)
(* The agent's commands and what they leave on the machine: enroll, run,   *)
(* install and uninstall of cmd/agent/main.go, config.json                 *)
(* (internal/config/config.go), the node's key (identity.go) and the       *)
(* system service (internal/service/service.go).                           *)
(*                                                                         *)
(* The key lives in the OS keychain or in a file, the enrollment in a      *)
(* second file, the registration at the server and the service in the      *)
(* service manager: five stores written one after the other.  A command    *)
(* may be killed between any two writes and a write may fail.  The         *)
(* operator runs one command at a time; `run` reads the stores meanwhile.  *)
(***************************************************************************)
EXTENDS Naturals

CONSTANTS
    UserDirs, \* values of config.Dir() for a command without root
    RootDirs, \* values of config.Dir() for a command with root
    RootDir,  \* the machine-wide directory: root's without MODELHUB_CONFIG_DIR
    Keys,     \* Ed25519 keys that can be generated
    NoKey,
    NodeIds,  \* ids the server can hand out
    NoNode,
    Faults    \* what may go wrong, a subset of AllFaults

AllFaults == {"keychain", "disk", "crash", "network"}

Dirs  == UserDirs \cup RootDirs
Users == {"user", "root"}

(* config.Dir(): MODELHUB_CONFIG_DIR can name any directory, so who runs a *)
(* command does not decide where it works.                                 *)
DirsOf(u) == IF u = "root" THEN RootDirs ELSE UserDirs

ASSUME AgentAssumption ==
    /\ RootDir \in RootDirs
    /\ NoKey \notin Keys
    /\ NoNode \notin NodeIds
    /\ Faults \subseteq AllFaults

VARIABLES
    unlocked,   \* the users whose OS keychain can be read and written
    keychain,   \* the entry in a user's keychain, by directory (keyringAccount)
    file,       \* identity.key, by directory
    config,     \* the node id in config.json, by directory
    service,    \* the service is registered
    minted,     \* keys generated so far
    registered, \* the server's nodes: the key of a node id
    issued,     \* node ids handed out so far
    pc,         \* where the operator's command is ("_locked": the keychain failed it)
    who,        \* who runs it: os.Geteuid()
    dir,        \* its config.Dir()
    priv,       \* the key it works with
    nodeId,     \* result.NodeID
    outcome,    \* how the last command ended
    orphan,     \* history: removing the service failed
    servedFrom, \* history: the directory whose enrollment the service's install saw
    runPc,      \* where `run` is
    runWho, runDir, runNode, runKey, runOutcome,
    runHad      \* history: the keys stored when `run` started

stores  == <<keychain, file, config, service>>
server  == <<registered, issued>>
locals  == <<who, dir, priv, nodeId>>
command == <<pc, locals, outcome>>
history == <<orphan, servedFrom>>
running == <<runPc, runWho, runDir, runNode, runKey, runOutcome, runHad>>
others  == <<unlocked, minted, server, history, running>>
vars    == <<unlocked, stores, minted, server, command, history, running>>

Init ==
    /\ unlocked = Users
    /\ keychain = [u \in Users |-> [d \in Dirs |-> NoKey]]
    /\ file = [d \in Dirs |-> NoKey]
    /\ config = [d \in Dirs |-> NoNode]
    /\ service = FALSE
    /\ minted = {}
    /\ registered = [n \in NodeIds |-> NoKey]
    /\ issued = {}
    /\ pc = "idle" /\ who = "root" /\ dir = RootDir /\ priv = NoKey
    /\ nodeId = NoNode /\ outcome = "none"
    /\ orphan = FALSE /\ servedFrom = RootDir
    /\ runPc = "idle" /\ runWho = "root" /\ runDir = RootDir /\ runNode = NoNode /\ runKey = NoKey
    /\ runOutcome = "none" /\ runHad = {}

Enrolled(d) == config[d] # NoNode

(* keyring.Get as u: every user has a keychain of its own.                 *)
InKeychain(u, d) == u \in unlocked /\ keychain[u][d] # NoKey

(* The command goes on, ends, or ends with an error whose locals tell      *)
(* nothing; what it stored stays.                                          *)
Goto(p) == pc' = p /\ UNCHANGED outcome
Exit(o) == pc' = "idle" /\ outcome' = o
Fail ==
    /\ Exit("failed")
    /\ who' = "root" /\ dir' = RootDir /\ priv' = NoKey /\ nodeId' = NoNode
    /\ UNCHANGED <<others, stores>>

(***************************************************************************)
(* enroll: LoadOrCreate, the Enroll call, Save                             *)
(***************************************************************************)
Begin(u, d, p) ==
    /\ pc = "idle"
    /\ pc' = p
    /\ who' = u /\ dir' = d
    /\ priv' = NoKey /\ nodeId' = NoNode
    /\ outcome' = "none"
    /\ UNCHANGED <<others, stores>>

(* keyring.Get                                                             *)
GetKey ==
    /\ pc = "get"
    /\ IF InKeychain(who, dir)
         THEN priv' = keychain[who][dir] /\ Goto("enroll")
         ELSE UNCHANGED priv /\ Goto(IF who \in unlocked THEN "fallback" ELSE "fallback_locked")
    /\ UNCHANGED <<others, stores, who, dir, nodeId>>

(* loadOrCreateFallback: an existing file wins over a new key.             *)
UseFile ==
    /\ pc \in {"fallback", "fallback_locked"}
    /\ file[dir] # NoKey
    /\ priv' = file[dir]
    /\ Goto("enroll")
    /\ UNCHANGED <<others, stores, who, dir, nodeId>>

MustGenerate == file[dir] = NoKey

GenerateKey(k) ==
    /\ pc \in {"fallback", "fallback_locked"}
    /\ MustGenerate
    /\ k \notin minted
    /\ minted' = minted \cup {k}
    /\ priv' = k
    /\ Goto(IF pc = "fallback" THEN "set" ELSE "write")
    /\ UNCHANGED <<unlocked, stores, server, who, dir, nodeId, history, running>>

(* Mutant: no fallback when keyring.Set fails.                             *)
AfterFailedSetGoOn == "enroll"

AfterFailedSet == "write"

(* keyring.Set, and the file when the keychain was locked meanwhile.       *)
SetKeychain ==
    /\ pc = "set"
    /\ IF who \in unlocked
         THEN keychain' = [keychain EXCEPT ![who][dir] = priv] /\ Goto("enroll")
         ELSE UNCHANGED keychain /\ Goto(AfterFailedSet)
    /\ UNCHANGED <<others, file, config, service, locals>>

(* writeFile renames a finished temporary file: all of it or nothing.      *)
WriteFile ==
    /\ pc = "write"
    /\ file' = [file EXCEPT ![dir] = priv]
    /\ Goto("enroll")
    /\ UNCHANGED <<others, keychain, config, service, locals>>

(* The server knows the key, refuses the code, or host facts are missing.  *)
EnrollRejected ==
    /\ pc = "enroll"
    /\ Fail

(* The server creates a node for a key it does not know; its answer may    *)
(* not come back.                                                          *)
EnrollAccepted(n, o) ==
    /\ pc = "enroll"
    /\ \A m \in NodeIds : registered[m] # priv
    /\ n \notin issued
    /\ issued' = issued \cup {n}
    /\ registered' = [registered EXCEPT ![n] = priv]
    /\ \/ o = "answered" /\ nodeId' = n /\ Goto("save")
       \/ o = "lost" /\ "network" \in Faults /\ UNCHANGED nodeId /\ Exit("reply_lost")
    /\ UNCHANGED <<unlocked, stores, minted, who, dir, priv, history, running>>

SaveConfig ==
    /\ pc = "save"
    /\ config' = [config EXCEPT ![dir] = nodeId]
    /\ Exit("enrolled")
    /\ UNCHANGED <<others, keychain, file, service, locals>>

(* A write of the key, the config or its blank fails, or the file cannot   *)
(* be removed; what the command did before stays.                          *)
DiskError == [write |-> "failed", save |-> "save_failed", file |-> "identity_failed",
              file_locked |-> "identity_failed", clear |-> "identity_failed"]

WriteFails ==
    /\ pc \in DOMAIN DiskError /\ "disk" \in Faults
    /\ pc \in {"file", "file_locked"} => file[dir] # NoKey
    /\ Exit(DiskError[pc])
    /\ UNCHANGED <<others, stores, locals>>

(* What enroll or install loads is unreadable or malformed: the keychain's *)
(* entry (decodeKey), identity.key or config.json.  An error, never taken  *)
(* for a missing key or a missing enrollment.                              *)
ReadFails ==
    /\ pc \in {"get", "fallback", "fallback_locked", "install"} /\ "disk" \in Faults
    /\ pc = "get" => InKeychain(who, dir)
    /\ Fail

(***************************************************************************)
(* install                                                                 *)
(***************************************************************************)
(* Mutant: install does not look at the config.                            *)
MayInstallAlways(d) == TRUE

MayInstall(d) == Enrolled(d)

InstallRefused ==
    /\ pc = "install"
    /\ ~MayInstall(dir)
    /\ Exit("not_enrolled")
    /\ UNCHANGED <<others, stores, locals>>

(* Only root may register a service; a second registration is an error.    *)
(* Starting what was registered can fail: the error leaves it registered.  *)
Install ==
    /\ pc = "install"
    /\ MayInstall(dir)
    /\ who = "root" /\ ~service
    /\ service' = TRUE
    /\ servedFrom' = dir
    /\ Exit("installed") \/ ("disk" \in Faults /\ Exit("failed"))
    /\ UNCHANGED <<unlocked, minted, server, orphan, running, keychain, file, config, locals>>

InstallFails ==
    /\ pc = "install"
    /\ MayInstall(dir)
    /\ who # "root" \/ service \/ "disk" \in Faults
    /\ Fail

(***************************************************************************)
(* uninstall: the service, both copies of the key, the enrollment          *)
(***************************************************************************)

(* The error of removing the service is reported at the end; the command   *)
(* goes on.  Only root can remove a service.                               *)
RemoveService ==
    /\ pc = "service"
    /\ \/ who = "root" /\ service' = FALSE /\ orphan' = FALSE /\ servedFrom' = RootDir
       \/ /\ who # "root" \/ ~service \/ "disk" \in Faults
          /\ orphan' = service
          /\ UNCHANGED <<service, servedFrom>>
    /\ Goto("keychain")
    /\ UNCHANGED <<unlocked, keychain, file, config, minted, server, locals, running>>

DeleteKeychain ==
    /\ pc = "keychain"
    /\ IF who \in unlocked
         THEN keychain' = [keychain EXCEPT ![who][dir] = NoKey] /\ Goto("file")
         ELSE UNCHANGED keychain /\ Goto("file_locked")
    /\ UNCHANGED <<others, file, config, service, locals>>

(* Mutant: the file is looked at only when the keychain failed.            *)
DeleteFileIfLocked ==
    /\ pc \in {"file", "file_locked"}
    /\ file' = IF pc = "file_locked" THEN [file EXCEPT ![dir] = NoKey] ELSE file
    /\ IF pc = "file_locked" THEN Exit("identity_failed") ELSE Goto("clear")
    /\ UNCHANGED <<others, keychain, config, service, locals>>

(* os.Remove, then ClearEnrollment only if both deletions worked.          *)
DeleteFile ==
    /\ pc \in {"file", "file_locked"}
    /\ file' = [file EXCEPT ![dir] = NoKey]
    /\ IF pc = "file_locked" THEN Exit("identity_failed") ELSE Goto("clear")
    /\ UNCHANGED <<others, keychain, config, service, locals>>

ClearEnrollment ==
    /\ pc = "clear"
    /\ config' = [config EXCEPT ![dir] = NoNode]
    /\ Exit("removed")
    /\ UNCHANGED <<others, keychain, file, service, locals>>

(***************************************************************************)
(* run: loadEnrolled, Identity.Load, and the session that dials with what  *)
(* was loaded for as long as the process lives.                            *)
(***************************************************************************)
runUnchanged == <<unlocked, stores, minted, server, command, history>>

(* The process ends; nothing it had loaded is left.                        *)
RunExit(o) ==
    /\ runPc' = "idle" /\ runOutcome' = o
    /\ runWho' = "root" /\ runDir' = RootDir
    /\ runNode' = NoNode /\ runKey' = NoKey /\ runHad' = {}

RunGoto(p, o) == runPc' = p /\ runOutcome' = o /\ UNCHANGED <<runWho, runDir, runNode, runHad>>

RunConfig(u, d) ==
    /\ runPc = "idle"
    /\ IF Enrolled(d)
         THEN /\ runPc' = "keychain" /\ runOutcome' = "none"
              /\ runWho' = u /\ runDir' = d
              /\ runNode' = config[d] /\ runKey' = NoKey
              /\ runHad' = {keychain[u][d], file[d]} \ {NoKey}
         ELSE RunExit("not_enrolled")
    /\ UNCHANGED runUnchanged

RunKeychain ==
    /\ runPc = "keychain"
    /\ IF InKeychain(runWho, runDir)
         THEN runKey' = keychain[runWho][runDir] /\ RunGoto("dial", "none")
         ELSE /\ UNCHANGED runKey
              /\ RunGoto("file", IF runWho \in unlocked THEN "missing_identity" ELSE "failed")
    /\ UNCHANGED runUnchanged

(* Mutant: a keychain that cannot be read counts as empty.                 *)
RunFileAlwaysMissing ==
    /\ runPc = "file"
    /\ IF file[runDir] # NoKey
         THEN runKey' = file[runDir] /\ RunGoto("dial", "none")
         ELSE RunExit("missing_identity")
    /\ UNCHANGED runUnchanged

(* Without a file the error of the keychain decides what is reported.      *)
RunFile ==
    /\ runPc = "file"
    /\ IF file[runDir] # NoKey
         THEN runKey' = file[runDir] /\ RunGoto("dial", "none")
         ELSE RunExit(runOutcome)
    /\ UNCHANGED runUnchanged

(* As ReadFails, for what run loads.                                       *)
RunReadFails ==
    /\ runPc \in {"idle", "keychain", "file"} /\ "disk" \in Faults
    /\ runPc = "keychain" => InKeychain(runWho, runDir)
    /\ RunExit("failed")
    /\ UNCHANGED runUnchanged

(* Session.Run: every attempt signs with the same key for the same node.   *)
Dial ==
    /\ runPc = "dial"
    /\ runOutcome' = CASE registered[runNode] = NoKey  -> "unknown_node"
                       [] registered[runNode] = runKey -> "connected"
                       [] OTHER                        -> "bad_signature"
    /\ UNCHANGED <<runUnchanged, runPc, runWho, runDir, runNode, runKey, runHad>>

RunStops ==
    /\ runPc = "dial"
    /\ RunExit("none")
    /\ UNCHANGED runUnchanged

(***************************************************************************)
(* The environment                                                         *)
(***************************************************************************)

(* A login keyring is locked or unlocked, or D-Bus comes and goes.         *)
ToggleKeychain(u) ==
    /\ "keychain" \in Faults
    /\ unlocked' = IF u \in unlocked THEN unlocked \ {u} ELSE unlocked \cup {u}
    /\ UNCHANGED <<stores, minted, server, command, history, running>>

(* The command is killed.                                                  *)
Crash ==
    /\ "crash" \in Faults
    /\ pc # "idle"
    /\ Fail

(* The organization, and with it the node, is deleted.                     *)
Forget(n) ==
    /\ registered[n] # NoKey
    /\ registered' = [registered EXCEPT ![n] = NoKey]
    /\ UNCHANGED <<unlocked, stores, minted, issued, command, history, running>>

Enroll ==
    \/ GetKey \/ UseFile \/ (\E k \in Keys : GenerateKey(k)) \/ SetKeychain
    \/ WriteFile \/ EnrollRejected \/ SaveConfig
    \/ \E n \in NodeIds, o \in {"answered", "lost"} : EnrollAccepted(n, o)

Uninstall ==
    RemoveService \/ DeleteKeychain \/ DeleteFile \/ ClearEnrollment

RunCommand ==
    \/ \E u \in Users : \E d \in DirsOf(u) : RunConfig(u, d)
    \/ RunKeychain \/ RunFile \/ RunReadFails \/ Dial \/ RunStops

Next ==
    \/ \E u \in Users, p \in {"get", "install", "service"} :
          \E d \in DirsOf(u) : Begin(u, d, p)
    \/ Enroll \/ InstallRefused \/ Install \/ InstallFails \/ Uninstall \/ RunCommand
    \/ WriteFails \/ ReadFails \/ Crash \/ (\E u \in Users : ToggleKeychain(u))
    \/ \E n \in NodeIds : Forget(n)

Spec == Init /\ [][Next]_vars
-----------------------------------------------------------------------------
(***************************************************************************)
(* Properties                                                              *)
(***************************************************************************)

(* An uninstall that reports success leaves no key in either place and no  *)
(* enrollment for whoever ran it, whatever the keychain did while it ran   *)
(* (main.go:168-193).                                                      *)
UninstallIsClean ==
    outcome = "removed" =>
        keychain[who][dir] = NoKey /\ file[dir] = NoKey /\ ~Enrolled(dir)

(* When enroll returns after the server took the key, with success, with   *)
(* the answer lost (main.go:93) or with config.json not saved (main.go:98),*)
(* that key is in a store, so a retry works with the key the server has,   *)
(* also when the keychain locks between keyring.Get and keyring.Set        *)
(* (identity.go:75-111).  With an answer, the server has it for the node   *)
(* the answer named, and with success config.json names that node.         *)
EnrolledKeyIsStored ==
    /\ outcome \in {"enrolled", "save_failed", "reply_lost"} =>
          priv \in {keychain[who][dir], file[dir]}
    /\ outcome \in {"enrolled", "save_failed"} => registered[nodeId] \in {priv, NoKey}
    /\ outcome = "enrolled" => config[dir] = nodeId

(* "A keychain that can't be read is never reported as ErrNoIdentity"      *)
(* (identity.go:54): when run tells the operator to re-enroll, no key that *)
(* it could have read when it started is left to be thrown away.           *)
ReEnrollOnlyWithoutKey ==
    [][runPc = "file" /\ runPc' = "idle" /\ runOutcome' = "missing_identity" =>
          runHad \cap {keychain[runWho][runDir], file[runDir]} = {}]_vars

(* "Callers must check that the node is enrolled first" (service.go:29-30):*)
(* while a service is registered, the directory whose enrollment install   *)
(* checked is still enrolled, unless removing the service failed, which    *)
(* uninstall reports.  That directory is the service's own when install    *)
(* ran without MODELHUB_CONFIG_DIR; with it the service still works in     *)
(* RootDir, about which the check says nothing.                            *)
ServiceHasEnrollment == service => Enrolled(servedFrom) \/ orphan

(* "The identity and the enrollment have to go together" (install.md:65-69,*)
(* config.go:75-77): when uninstall returns, with or without an error, no  *)
(* enrollment is left without a key behind it.                             *)
RemovedTogether ==
    outcome \in {"removed", "identity_failed"} /\ Enrolled(dir) =>
        keychain[who][dir] # NoKey \/ file[dir] # NoKey

(* The installation steps of install.md:24-25 and 43-44: enroll, then sudo *)
(* install.  A sudo install without MODELHUB_CONFIG_DIR does not say "not  *)
(* enrolled" on a machine that was enrolled and never uninstalled.         *)
InstallFindsEnrollment ==
    outcome = "not_enrolled" /\ who = "root" /\ dir = RootDir => \A d \in Dirs : ~Enrolled(d)
=============================================================================
