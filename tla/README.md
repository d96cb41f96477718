# Model Hub: specifications and proofs

TLA+ specifications of Model Hub, a control plane (TypeScript, Postgres, Redis)
and an agent (Go) that together keep a fleet of machines, their GPUs and their
memory visible to the organizations that own them. Each module is translated
from the source; TLC checks small instances of it, and TLAPS proves the most
important properties for instances of any size. Paths below are relative to
`src/`; `PROJECT.json` maps every definition to the lines it stands for and lists
the runs, the mutants each property was tried against, the hazards and the
findings.

    tlc -workers 2 -config Enrollment.cfg MCEnrollment     # one run
    tlapm EnrollmentProofs.tla                             # one set of proofs

Contents: 1 inventory, 2 modules, 3 runs, 4 proofs, 5 disagreements between the
code and its documentation, 6 what is not modelled, 7 plan.

## 1. Inventory

### The system

A browser talks to the control plane over HTTP/1.1 (`apps/control-plane/src/
server.ts`, `buildApp`), agents over cleartext HTTP/2 (`buildAgentApp`). The
control plane is one Node.js process per replica: handlers are async functions, so
they interleave at every `await`. All shared state is in Postgres, except the
nonces of authorization headers, which are in Redis. Tenant tables are protected by
row-level security; code with an organization goes through `withOrg` on the
application's pool, code that has none yet (enrollment, node authentication, the
sweeper) uses `ownerDb`.

The life of a machine: a signed-in user mints a pairing code; the operator runs
`enroll` with it, which creates a key, calls `Enroll` and saves the node id; `run`
(or the installed service) opens a `Connect` stream with a signed header, sends a
Hello, its inventory and then samples; a sweeper marks nodes that fall silent; the
web page polls `ListNodes`, for which a memory budget is computed for each device.

### Components

| Component | State | Operations | What is hard |
|---|---|---|---|
| Pairing codes, enrollment (`domain/pairing.ts`, `enrollNode` in `domain/nodes.ts`) | `pairing_codes`, `nodes`, `organization` | mint, key check, claim, diagnose, release, insert | five awaits per request, several requests for one code or one key, a failure or a deleted organization between any two |
| Node authentication (`rpc/node-auth.ts`, `AuthHeader` in `transport/client.go`) | `nodes.public_key`, nonces in Redis | sign, check the window, look up, verify, remember the nonce | duplicate and late delivery, clock error, an aged timestamp check, a lost reply of Redis |
| Node liveness (`jobs/offline-sweeper.ts`, `main.ts`, `markNodeOnline`, `recordSamples`) | `nodes.status`, `nodes.last_seen_at` | heartbeat, two-pass sweep, shutdown | overlapping sweeps with old times, heartbeats of old streams, a failing sweep that ends the process, a signal that stops the sweeper first |
| Device inventory (`recordInventory`, `recordSamples`, `inventory.go`) | `devices` | report, sample | transactions of an old and a new stream at READ COMMITTED, deadlocks |
| Memory budget (`packages/core/src/memory.ts`, `domain/wire.ts`, `transport/proto.go`) | a device row | translate, store, `computeBudget`, `deviceView` | clamps and minimums at their limits, enum values one side does not know |
| Organizations, tenancy (`auth/`, `rpc/fleet-service.ts`, `/api/me` of `server.ts`, `packages/db/src/client.ts`, migration 0001) | `organization`, members, `app.current_org_id` of pooled connections, the session's active organization | sign-up hook, create, activate, delete, `requireSession`, `withOrg` | a setting that outlives its transaction, a failing hook, concurrent repairs |
| Agent commands (`cmd/agent/main.go`, `internal/config`, `internal/service`) | keychain, key file, `config.json`, service, the server's row | enroll, run, install, uninstall | five stores written one after the other, each of which can fail or be the last |
| Agent session (`transport/session.go`) | two goroutines, contexts, streams, backoff | dial, hello, ack, inventory, sample, reconnect | cancellation at any point, silent loss of the connection, goroutines left behind |
| Web application (`apps/web/src`) | the session cookie, the client's copy of the session, the query cache, the state of the forms and of the dialog | sign in and out, navigate, poll, mint, show and close | calls that outlive the component that made them, one tab used by several people, a client-side session that lags behind the cookie |
| Hardware probes, server wiring, rendering, generated code | none of their own that others rely on | | see section 6 |

### How they interact

* `FleetService.createPairingCode` writes the code that `NodeService.enroll`
  claims: `Enrollment` has both.
* `enrollNode` writes the public key that `authenticateNode` reads; it is never
  updated, and disappears only with its organization (`Forget` in `NodeAuth` and
  in `AgentIdentity`).
* `Connect` authenticates first, and then applies the messages of its stream one
  after the other. The agent closes its old stream before it opens a new one
  (`OneLiveStream` in `AgentSession`), but the server may still be storing what the
  old one sent: hence several streams per node in `NodeLiveness` and
  `DeviceInventory`.
* `recordSamples` writes both a device's sample (`DeviceInventory`,
  `MemoryBudget`) and the node's heartbeat (`NodeLiveness`).
* The sweeper and the handlers share the process: a sweep that rejects takes down
  the streams (`SweepFails`).
* The page shows what `listNodes` answers and the code `createPairingCode` answers;
  the machine on which the operator types that code changes what the next poll
  finds. `FleetPage` composes one tab with `AtomicEnrollment`, which `Enrollment`
  is shown to implement.
* All browser reads, and the writes of a node's stream, run in `withOrg`
  (`FleetAccess`).

## 2. Modules

Every component has a module with its state, one action per step, and its
properties; an `MC` module for TLC; and a `Proofs` module that extends it (the two of
the agent share `AgentProofs`). No module uses a recursive operator. Definitions
marked "Mutant" are never used by the specifications: they are plausible mistakes in
the definition that follows them, and each property was seen to fail with one of them.

**Enrollment.** One action per await of `enrollNode` and `redeemPairingCode`:
`Arrive` (argument check), `PreCheck` (nodes.ts:40), `Claim` / `ClaimNothing` (the
conditional UPDATE), `Diagnose`, `CheckExpiry`, `Release`, `InsertNode` /
`InsertFails` (unique index, foreign key), `Respond`. `Abort` is a failed statement,
a lost reply or a dead process at any await. `Mint`, `DeleteOrg` (with its cascade)
and `Tick` are the environment. A code is its identity: generation, spelling and
HMAC are injective for the purpose of every property. A node row is named by the
request that inserted it, and carries the code and the time of its expiry check.
`before` is history.

**AtomicEnrollment.** What enrollment promises: a code is spent in the step that
creates its one node, or burned. `Enrollment` implements it under the mapping
`Ledger` (a claimed code counts as redeemable until its request inserts, fails or
releases) and `Fleet`.

**NodeAuth.** `AuthHeader` signs with the agent's clock, off by `MaxBehind` to
`MaxAhead`. `Receive` is the window check, `Lookup` the row with the verdict on key
and signature, `RememberNonce` / `RefuseNonce` the `SET ... PX NX`.
`LoseNonceAnswer` and `Abort` are failures. Attempts name the header they carry, so
that one header may arrive many times. `Tick` keeps every handler within
`MaxDelay`: without such a bound the nonce's expiry would prove nothing.

**LastingNonces.** What the memory of nonces promises: a header that was used stays
used for ever, and that alone decides between letting an attempt in and refusing it
as a replay. It has no clock, no window and no expiry. `NodeAuth` implements it, with
the headers whose nonce was ever written for `used`.

**NodeLiveness.** One node. A heartbeat (`Hello`, `Samples`) takes its time first
and writes it later (`Commit`, `Rollback`). A sweep takes its time, then runs two
UPDATEs (`SweepOffline`, `SweepDegraded`); sweeps overlap. `SweepFails` ends the
process, because nobody handles the rejection of `void sweepOfflineNodes()`.
`Shutdown` is the signal handler of `main.ts`: no new sweep and no new stream, while
the streams that are open go on, until `Exit`. Times
are kept as ages, so that time needs no bound; ages past `Cap` are not told apart.

**DeviceInventory.** One node, several streams. The statements of `recordInventory`
and `recordSamples` are separate actions on a small model of READ COMMITTED:
`devices` are the committed rows, `write[s]` the rows a transaction has written and
therefore locked, `picked[s]` the rows an UPDATE or DELETE chose when it started and
has still to get to. A row keeps the stream that inserted it as its identity, so
that a DELETE which waited skips a row that was deleted and inserted anew.
The loops go through a report by index, in its order (`IsNext`): over the devices of a
known kind to upsert, over those that could be sampled to update. `Deadlocked` is the
transitive closure of who waits for whom. The foreign keys add
no waits: an insert takes a key-share lock on the node's row, which the heartbeat's
update of other columns does not conflict with.

**AtomicInventory.** What the device table promises: a report is stored in one step
(`Report`), a batch of samples in one step (`Samples`). A reported device keeps its
identity and sample or gets a new row without one; a sample changes nothing else, is
given only to rows that are there, and follows the earlier ones of its stream. Of the
rows a report does not name, only those that an overlapping report inserted may stay.
`DeviceInventory` implements it with its own `devices`, `last` and `met`: statements
are invisible, commits are the steps.

**MemoryBudget.** One device row, filled by `Report` and `Sample` through
`kindProto` / `pressureProto` of the agent and `kindName` / `pressureName` of the
server, each with values the other side may not know. `computeBudget` and the
operators before it have the code's fractions; the two minimums and all sizes are
parameters. `deviceView` is what travels to the browser and `Notice` what
`DeviceMemoryBar` makes of it.

**FleetAccess.** Users, their organizations, requests, and the pool. `SignUp` with
`HookCreates` / `HookFails`; the `organization()` plugin that `server.ts` forwards to
(`CreateOrganization`, `SetActive`, `DeleteOrg`); then per request `Arrive`, which
takes the session's `activeOrganizationId` if it has one, even that of an organization
which is gone, or else `Lookup` / `LookupEmpty` / `ListFails`, `SelfHeal` /
`SelfHealFails`; then `Begin` (the transaction and `set_config(..., true)`), and `List`,
`Get`, `Write` or `Rollback`. A malformed id ends before the transaction
(`GetMalformed`), and `/api/me` looks the organizations up a second time (`Me`).
`BareQuery` is a query outside `withOrg`. Of the tenant tables
only the organization of their rows is kept. `personal` is history: which
organizations `ensurePersonalOrganization` made, as opposed to the user.

**AgentIdentity.** The operator's command is one process with a program counter,
`run` a second one that reads what the first writes. `Begin` starts enroll, install
or uninstall as a user or as root, in one of the directories `config.Dir()` may return
for them (`DirsOf`): `MODELHUB_CONFIG_DIR` can name any directory, so being root and
working in `RootDir` are two things. A user and root have a keychain each, which locks
on its own; the files they share. A program counter that ends in `_locked` remembers
that the keychain failed. `WriteFails`, `ReadFails` and `RunReadFails` (a key or a
config that is unreadable or malformed ends the command and changes nothing),
`ToggleKeychain`, `Crash` and lost answers are enabled by the constant `Faults`.
`servedFrom` is history: the directory whose enrollment the service's `install` saw.

**AgentSession.** `Run` and `connectOnce` as one process, a reader per stream, and
the link of each stream as the HTTP/2 client has it: `dead` means that packets are
lost and nobody has noticed. `trouble` says whether the network, the server and the
probes may fail at the moment; `Weather` switches it.

**FleetPage.** One tab over `AtomicEnrollment`. `Mounted` is what `RootLayout`
renders; `Render` is what mounting and unmounting the page does to the dialog, and
every step that can change the route or the session includes it. The two forms are
one (`Submit`, `AuthSucceeds`, `AuthRefused`, `AuthRejects`); a form that was left
has calls under way that can still set the cookie and navigate (`strays`). The query
is `Fetch`, `ServeList`, `ListArrives`, `Retry`, `GiveUp` and `Collect`, the dialog
`OpenDialog`, `ClickGenerate`, `ServeMint`, `MintArrives`, `MintFails` and
`CloseDialog`. `SessionFails` is a session fetch that fails, which shows nobody signed
in under a valid cookie. A request carries the cookie of the moment it is sent. `hosts`
and `own` are history: whose cookie the tab has had while this page was mounted, and
whether a call of one of them was answered on it. What react-query does (one fetch of a key at a time, a retry sends the request
anew, data is kept under an error and collected when nobody looks), what React does
(state goes with its component) and what the Better Auth client does (the session
it shows lags behind the cookie) is modelled from how the code uses them.

## 3. Runs

| Run | Shows |
|---|---|
| `enrollment` | safety of three requests over two codes, two keys and a malformed one, two organizations, and refinement of `AtomicEnrollment` |
| `node_auth` | one header delivered three times, with clock error and delay that just fit in the window: used once, signed by its node, and replays told apart as `LastingNonces` does (refinement) |
| `node_liveness` | two streams, two overlapping sweeps, a crash or a shutdown: the status is earned, a healthy node reads online, and a node that falls silent ends up offline, whatever became of the process |
| `device_inventory` | two streams with all interleavings of statements, failures and deadlocks: the last report is stored in full, a report stored alone is complete, every transaction ends, deadlocks included, and refinement of `AtomicInventory` |
| `device_report_union` (violation) | see section 5 |
| `agent_session` | no stream is left open, `Run` returns when cancelled, the agent reconnects once trouble is over |
| `memory_budget` | what is offered fits, reserves stay free, load never adds room, pressure stops offers and the page says so, of these devices only |
| `fleet_access` | no request sees rows of another user, a bare query sees none, a second personal organization needs a race, a served request worked for an organization of its user |
| `agent_identity` | a user, and root with and without `MODELHUB_CONFIG_DIR`, all faults: uninstall is clean, a key the server took is stored however enroll ends, `run` does not send the operator to re-enroll while a key is there, the enrollment `install` checked stays as long as the service |
| `agent_locked_uninstall`, `agent_doc_steps` (violations) | see section 5 |
| `fleet_page` | two users in turn at one tab: the code on display is of a user this page has had, never of one before it, and is never replaced; so is the list once there was an answer, and it catches up with the fleet; the button comes back |

### Bounds, and why they are enough

* `enrollment`: three requests are needed for a claim, a release and a retry of the
  same code to overlap; two codes, keys and organizations for every mix of them, and
  one key of the wrong length. One tick is the whole life of a code (`TTL = 0`), as
  time matters only against `expires_at`.
* `node_auth`: headers share no state, so one header is enough, delivered three
  times: an accepted one, one that is late, and a third. `MaxAhead + MaxDelay = SKEW`
  is the tight case; with one more, TLC finds a header used twice. `MaxTime = 7`
  exceeds the life of a nonce plus a window.
* `node_liveness`: `JITTER + 2 * DELAY = 2 * INTERVAL` is the tight case; one more of
  either and a healthy node is marked degraded. Two sweeps overlap as far as `SLOW`
  allows; more would only repeat the same two UPDATEs.
* `device_inventory`: two devices and two streams are the least that can deadlock,
  and two batches the least that can be put in the wrong order. The discoveries
  include both orders of two devices, a kind the server does not know, a duplicate and
  an empty one.
* `memory_budget`: sizes on both sides of each minimum, limits below and above the
  size, use beyond the size. The proofs remove these bounds.
* `fleet_access`: a pool of one connection makes requests of two users follow each
  other on it; two organizations let each user have one, or one user have both, of
  either origin. One deletion leaves a session with the id of one that is gone.
* `agent_identity`: two keys and two node ids allow a re-enrollment after an
  uninstall or a lost answer. Root has its own directory and, by the override, the
  user's: that is a service installed from elsewhere, and one directory used by two
  users whose keychains differ.
* `agent_session`: three streams are one in use and two whose readers have still to
  end. Streams are reused once nothing refers to them, so behaviours are not bounded.

* `fleet_page`: two users are the least for a tab to change hands, two codes the
  least for one to replace the other, and one machine makes the list change. Codes
  are interchangeable, so a mint takes the first that is free. `MaxAuthCalls = 1`: a
  second sign-in is submitted once the calls of abandoned forms are over.

Deadlock is not checked where the system really may stop: all requests or attempts
used up, all streams closed, the agent stopped, nothing left for the operator to do.

### Fairness

Only the four specifications with a liveness property assume any.

* `NodeLiveness`: time passes, `setInterval` fires, the sweeps' queries settle, and
  a process that was told to stop or has crashed is gone and started again in the
  end, by whoever operates it: the repository has no supervisor of its own. On its
  own a process that stops waits for the agents' streams, with the sweeper stopped.
  Crashes and shutdowns together are bounded by `MaxCrashes`.
* `DeviceInventory`: Postgres executes a statement that need not wait, and its
  deadlock detector runs. No stream has to send anything.
* `AgentSession`: goroutines are scheduled, timers fire, HTTP/2 pings are sent, and a
  server that is reached answers. Trouble need not end.
* `FleetPage`: a call is answered or fails, and a mounted page polls (react-query's
  interval, fleet.tsx:11). Nothing is assumed of the users, the network, the client's
  session or the machines; `PageCatchesUp` speaks of a user who stays on the page with
  the server in reach. The polling is that of a visible tab: by default react-query
  does not poll in the background, and goes on when the tab is looked at again.

## 4. Proofs

| Module | Theorem | States |
|---|---|---|
| `EnrollmentProofs` | `TypeCorrect` | `[]TypeOK` |
| | `SingleUse` | `[]OneNodePerCode` |
| | `SingleIdentity` | `[]OneNodePerKey` |
| | `RightTenant` | `[]EnrolledByItsCode` |
| | `NoCodeVanishes` | `[]CodeIsAccountedFor` |
| | `ReRunIsFree` | `[]ReRunKeepsCode` |
| | `EnrollmentIsAtomic` | `RefinesAtomic`, the refinement of `AtomicEnrollment` |
| `NodeAuthProofs` | `NonceUsedOnce` | `[]OneNonceOneUse` |
| | `OnlyOwnKey` | `[]LetInWithinWindow` |
| | `ExpiryIsInvisible` | `NeverForgets`, the refinement of `LastingNonces` |
| `MemoryBudgetProofs` | `TypeCorrect` | `[]TypeOK` |
| | `OfferAlwaysFits` | `[]OfferFits` |
| | `ReserveAlwaysFree` | `[]ReserveStaysFree` |
| | `PressureAlwaysStops` | `[]PressureStopsOffers` |
| | `LoadAddsNoRoom` | `LoadNeverAddsRoom`, an action property |
| `NodeLivenessProofs` | `NoEarlyVerdict` | `[]StatusIsEarned` |
| | `HealthyNeverFlaps` | `[]HealthyIsOnline` |
| `FleetAccessProofs` | `TypeCorrect` | `[]TypeOK` |
| | `TenantIsolation` | `[]OnlyOwnRows` |
| | `ForgottenScopeIsEmpty` | `[]BareQuerySeesNothing` |
| | `SecondOrgIsARace` | `[]SecondOrgNeedsRace` |
| | `ServedHasOrg` | `[]ServedMeansOrg` |
| `DeviceInventoryProofs` | `LastReportWins` | `[]LastReportStored` |
| | `CompleteWhenAlone` | `[]ReportAloneIsComplete` |
| | `InventoryIsAtomic` | `StoredAtomically`, the refinement of `AtomicInventory` |
| `AgentProofs` | `CleanUninstall` | `[]UninstallIsClean` |
| | `StoredBeforeEnrolled` | `[]EnrolledKeyIsStored` |
| | `ServiceIsEnrolled` | `[]ServiceHasEnrollment` |
| | `NoKeyThrownAway` | `ReEnrollOnlyWithoutKey`, an action property |
| | `SessionTypes` | `[]TypeOK` of `AgentSession` |
| | `NoStreamLeftOpen` | `[]OneLiveStream` |
| `FleetPageProofs` | `NoCodeFromBefore` | `[]CodeOfThisPage` |
| | `CodeIsNotReplaced` | `CodeStaysPut`, an action property |
| | `NobodyElsesFleet` | `[]OwnOnceFetched` |

Every invariant, every action property and every refinement of a passing run is the
statement of a theorem. They hold for all values of the constants that satisfy the named
assumption of the module: any number of requests, streams, users, keys, devices or
sizes. The assumptions ask for types, and that markers such as `NoRow` or `NoData`
are not values they stand in for. Three also say something of the system:

* `NodeAuthAssumption`: `MaxAhead + MaxDelay <= SKEW`. An agent's clock may be ahead,
  and a handler may wait, by no more than one window together. The code states no such
  bound; it is what "twice the skew window" (node-auth.ts:75-76) needs.
* `LivenessAssumption`: `JITTER + 2 * DELAY <= 2 * INTERVAL`. The code's margin is three
  intervals from the last heartbeat; a heartbeat may be late, an older stream may set
  the time back by one commit delay, and the next write takes another.
* `SessionAssumption`: the smaller backoff is not above the larger one, as
  it is with the defaults of `Run`.

Each inductive invariant was checked with TLC on the instance of the component's run
before it was proved.

**Enrollment.** `OneNodePerCode` is not inductive: an insert preserves it only if no
node has the code of the request that inserts. The invariant `IInv` therefore says
what a request knows between its claim and its insert or release (`HolderInv`: the
row it read is still its code's row, the code is not open, and no node has it), that
it is alone in that (`ClaimExclusive`, from the conditional UPDATE), that its key and
the time of its check are good (`CheckedInv`), who inserted a node (`AuthorInv`), and
that live codes have live organizations (`OwnerInv`). `Release`, the step that could
reopen a code that worked, is safe because its request holds the code. Steps that
touch no table are one lemma, `LocalStep`.

Two properties are about the past of a request, and need a second invariant, `HInv`:
a request has no answer before it is done and no row before its claim; the nodes that
held its key when it arrived were inserted by requests that will not insert again
(`BeforeInv`), and past the check of the key none of them exists (`PassedInv`).

The refinement is argued code by code. A code that a request holds is redeemable in
the abstract ledger, so `Claim` and `Release` are invisible (`ClaimInvisible`),
`InsertNode` is the abstract `Enroll` (`InsertEnrolls`), and a request that fails
while it holds a code burns it (`LetGo`). `IInv` is what makes the insert a legal
abstract step: the code is still held, by nobody else, and its organization exists.

**NodeAuth.** The key fact is that a nonce's entry outlives every attempt that may
still use its header (`EntryOutlivesAttempt`). `MemoryInv` bounds the expiry from
below by the header's stamp plus two windows less the clock error, `FlightInv` bounds
how old the check of an attempt in flight can be, and the assumption closes the gap.
The same fact gives the refinement of `LastingNonces`: an attempt that finds no entry
carries a header whose nonce was never written (`FirstUse`), so that expiry cannot be
told from a memory without end.

**MemoryBudget.** The lemmas bound the operators: a percentage of at most a hundred
is at most its base, `clamp` is between its limits, and `OfferUnderCeiling` says that
an offer above zero is at most what the ceiling leaves after both counts of use and
the headroom. The theorems follow for each kind of device. `PressureStopsOffers` is
about the probe's last word, so its invariant (`PressureKept`) says that the row has
what both translations make of that word; `NoticeOfPressure` does the rest.

**NodeLiveness.** `StatusIsEarned` needs that a sweep's `now` is never ahead of the
clock. `HealthyIsOnline` needs a bound on the age of the row, and the bound depends on
where the live stream is: between two heartbeats the row is at most one delay older
than the last one sent; while a heartbeat is in flight it may have aged by an interval
with its jitter more (`FreshInv`). `QuietInv` and `BeatInv` bound the terms, and the
assumption keeps the sum under `DEGRADED_AFTER`.

**FleetAccess.** `PoolInv` ties the setting of a connection to the one request that has
borrowed it and says that a free connection has none, which is what the `true` of
`set_config(..., true)` buys; `OrgInv` ties that request's organization to its user,
and `ActiveInv` that of a session, whether or not it still exists.
`OnlyOwnRows` and `BareQuerySeesNothing` follow for every step that reads. For
`SecondOrgNeedsRace`, `OneAtATime` says that a user nobody raced for has at most one
personal organization, and none while one is being created.

**DeviceInventory.** The argument is about locks: a row that a transaction has written
is written by no other until it ends (`LockInv`), so what the transaction knew of the
committed row still holds when it commits. `PassedInv` has the devices the upserts
have passed, with their facts, and needs that no device is twice in a report
(`Collect`); `WrittenInv` says that nothing else is written; `KeepsInv` that a report
writes over the sample and identity that are committed; `SampleInv` that a sample
writes over committed facts. For completeness, `AloneInv` says that the DELETE of a
report that is alone has picked every row that is to go, and that its pick stays good:
samples change no row's identity.

The refinement of `AtomicInventory` needs to know exactly what a commit changes.
`KeepsInv` therefore also says what a row is that a report inserts, `SampleInv` which
sample a batch has written, and `StampInv` that a committed sample of a stream is older
than the batch it is storing. `GoneInv` extends the argument about the DELETE to
reports that overlap: a row it missed was inserted by another report, and both reports
are in `met`. With these the commit of a report is the abstract `Report`
(`CommitReports`, from `WrittenAsReported` row by row), the commit of a batch the
abstract `Samples` (`CommitSampled`), a report that begins beside others `Overlap`, and
every other statement, rollback and deadlock is invisible. That a row which stays keeps
its sample, and that no sample brings back a deleted row, are parts of it.

**AgentIdentity.** The stores are written one after the other, so the invariant says
what is true between two writes: a new key is nowhere yet (`NewKeyInv`), a key that is
being enrolled is stored and the server's (`EnrollInv`), what uninstall has removed
(`UninstallInv`). `run` reads the keychain, then the file: a key it could have used
cannot come back to the keychain behind it, because what `enroll` puts there is new
(`RunInv`, `MintedInv`).

**AgentSession.** Its two invariants are inductive together (`SessionInductive`). They
are in `AgentProofs` as well, which extends both modules of the agent; their variables,
`SessionInit`, `SessionNext` and `SessionSpec` have names of their own for that.

**FleetPage.** `CallInv` says that the dialog has one call under way at most, because
closing it does not reset `busy`, and `PageInv` that nothing of the dialog outlives
its page and that every cookie sent from it is of one of its `hosts`. Hence whatever
is about to be shown is one of theirs (`OwnerInv`), and no late answer replaces a code.
`FetchInv` has one fetch at a time; after the first answer to one of the page's users
none of anybody before is left.

**Only model-checked.** Liveness under fairness is out of the prover's reach and stays
with TLC: `SilentGoesOffline`, `TransactionsEnd`, `RunReturns`, `ReconnectsWhenWell`,
`PageCatchesUp` and `ButtonComesBack`. So does `Deadlocked`, a transitive closure: the
proofs of `DeviceInventory` let any transaction be rolled back at any time, and do not
depend on when the detector says so. The three runs of section 5 are counterexamples.

## 5. Disagreements between the code and its documentation

Each is a run that TLC must find violated; `PROJECT.json` quotes both sides.

* `agent_locked_uninstall`: with an unreadable keychain `uninstall` removes the key
  file and leaves the enrollment, which `config.go` says must go together.
* `agent_doc_steps`: the documented steps, `enroll` as the user and `sudo install`,
  use two different directories; `install` finds no enrollment.
* `device_report_union`: two reports of one node stored at the same time leave the
  union of their devices, though a report is documented as the complete list.

Two more are visible in the models and have no run. An expired code is released "so
a retry sees expired again" (pairing.ts:59), but a retry that comes between the claim
and the release of another is told "already used". The agent sends an unknown
pressure as UNSPECIFIED so that it does not read as normal (proto.go:59); the server
records it as normal (nodes.ts:129), on purpose by its own comment (nodes.ts:114-116).

Things the models made visible that contradict no statement:

* `enroll` run again while the keychain is locked mints a second key into the file
  (identity.go:80); while it stays locked, `run` loads that key, and once it is
  readable the first one, which the server has for another node or for none.
* The query of the fleet page has one key for everybody (fleet.tsx:8) and sign-out
  clears nothing: the next user of a tab may see the previous one's machines until
  the first answer of their own. `OwnOnceFetched` says that it ends there.
* A page can change hands without being unmounted: a form that was left signs the next
  user in while `RootLayout` keeps its outlet (root.tsx:13-26). The dialog then still
  shows the first user's code, and until the next answer the list their machines.
  `CodeOfThisPage` and `OwnOnceFetched` therefore speak of all users a page has had.
* `sudo modelhub-agent install` with `MODELHUB_CONFIG_DIR` looks for the enrollment in
  that directory, but the service it registers gets no environment and works in
  `/etc/modelhub`, of which the check says nothing. `ServiceHasEnrollment` is about the
  directory that was checked.
* A directory that a user and root share by that override has one config and one key
  file but two keychains: the key of its enrollment may be in the other one's.
* A session whose active organization another session deleted keeps its id
  (session.ts:22 does not look it up): lists are empty and minting fails, no repair
  runs, and nothing of anybody else is shown.
* `submit` of the forms has no `finally` (auth.tsx:31): a call that rejects leaves the
  form disabled until the user leaves it. `mint` of the dialog has one.
* After a sign-in `RootLayout` may act on the session from before and lead back to
  `/sign-in` (root.tsx:10), and a form that was left can still sign its user in and
  navigate (auth.tsx:65).

Three more: the nonce's
lifetime is enough only under the bound of section 4; a healthy node cannot flap as
long as jitter and twice the commit delay stay within two intervals; and a user who
races their own sign-up may end up with two personal organizations, of which
`listOrganizations()[0]` picks either. `SecondOrgNeedsRace` says that a race is the only
way to two *personal* ones; the `organization()` routes let a user create more, and the
session then names the one in use.

## 6. What is not modelled

* Hardware probes: calls into NVML, sysctl and gopsutil. What they may return is an
  input of `DeviceInventory`, `MemoryBudget` and `AgentSession`.
* Cryptography: Ed25519, HMAC and random numbers are ideal.
* Better Auth's passwords, members and invitations: an organization has the one member
  it was created for. Creating, activating and deleting organizations is modelled, with
  one session per user (`DeleteOrg` lets it be another session that deletes).
* Host facts, names and other columns that are copied and decide nothing.
* Of the web application: what is typed into fields, the wording of errors, formats
  and widths; a second tab of the same browser, which shares the cookie; and what
  React, react-query and Better Auth's client do beyond section 2.
* Of the server: the health check, the environment's defaults, and of the routes
  forwarded under `/api/auth` those not named above.
* Generated code (but for the order of the pressures), and migrations as such.
* Floating point: `floor(total * fraction)` is taken exactly. JavaScript's product
  can differ by one byte, on which no property depends.
* `listNodes` reads nodes and devices in two snapshots; the model reads once.

## 7. Plan

Done: the modules of section 2, a theorem for every invariant, action property and
refinement of the runs, and abstract specifications of enrollment, of the memory of
nonces and of the device table. What would add something, in this order:

1. An abstract specification of `FleetAccess` in which a request reads the rows of its
   user in one step and there is no pool. `OnlyOwnRows` and `BareQuerySeesNothing` have
   its substance.
2. A composition of `AgentSession`, `NodeAuth` and `NodeLiveness`: reconnects with
   fresh headers against a server that is behind, to check that an agent which keeps
   reconnecting is not refused as its own replay and reads online in the end.
   `LastingNonces` is the part of `NodeAuth` it would use.
