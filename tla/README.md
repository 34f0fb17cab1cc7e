# A TLA+ model of doctmcp

doctmcp lets a public MCP client work on a user's own machine. A *local agent*
(`apps/agent`) runs the MCP tools and keeps an outbound WebSocket to the *server*
(`apps/server`), which authenticates public requests, pairs devices with owners
and routes tool calls to the session of the right device. This directory holds
TLA+ modules for the parts of that system that keep state and run concurrently,
TLC configurations that check them on small instances, and TLAPS proofs of the
properties that matter most.

`PROJECT.json` is the index: components, runs, the source lines each definition
stands for, the hazards of the code and the properties that watch them, the
theorems. This file explains how to read it.

## 1. Inventory

| component (source) | state | operations | interacts with | module |
|---|---|---|---|---|
| server runtime (`server-runtime.ts`, `device-credential-lifecycle.ts`) | per device: mutation marker count, count of verifications and of ready leases in flight, drain waiters, lifecycle lock; `stopPromise` | authenticate, validate, lease, revoke / rotate / issue, evict, publish, stop | called by the gateway and the pairing code; evicts in the registry | DeviceSessions |
| bridge gateway (`gateway.ts`) | connections with state, session and timers | open, hello, pong, close, fail, stop | awaits the runtime inside hello and pong | DeviceSessions, Bridge |
| session registry (`device-session-registry.ts`) | device → session | register (evicts the older), evict, evictGeneration, isLive, clear | written by the gateway and the runtime | DeviceSessions |
| credential store (`device-credential.ts`, SQLite twin) | device → id, version, digest, status | verify, issue, rotate (compare and swap), revoke | read by verification, written under the lock | DeviceSessions, CredentialSessions |
| pairing session repository (`pairing.ts`, SQLite twin) | sessions, code index, tombstones, operation queue | create, cancel, get, claim, prune | creates the device inside a claim | PairingLedger, PairingSessions |
| public pairing endpoint (`public-pairing-endpoint.ts`) | none of its own | POST /pairing/sessions: create, register the channel, cancel when that fails | pairing service, channel table | PairingSessions |
| abuse guard (`pairing-abuse-guard.ts`) | bounded table of fixed windows | attempt, sweep | start and claim paths | — |
| completion service (`pairing-credential-completion.ts`, SQLite twin) | completion records, cache of promises in flight | claimAndIssue, resume, acknowledge, forget | two stores and the lifecycle lock | PairingCompletion |
| pairing channel (`pairing-channel.ts`, `pairing-channel-route.ts`) | per session: socket, delivery, waiters, deadline | register, attach, deliver, acknowledge, cancel, expire, close | local client over a socket; completion record | PairingChannel |
| local pairing client (`apps/agent/src/pairing-client.ts`) | socket, reconnect loop, promise for the credential | start, reconnect, store, acknowledge, close | channel route; credential provider | PairingChannel |
| reconnect controller (`local-bridge-reconnect.ts`) | state, attempt, generation, timers, failure count | start, stop, attempt, finalize, backoff | builds a transport for each attempt | LocalReconnect |
| agent transport (`bridge-server-transport.ts`) | queue, bytes, current message, timers, close promises | start, send, pump, frames, fail, close | WebSocket | BridgeServerTransport, Bridge |
| server transport (`bridge-client-transport.ts`) | queue, bytes, drain loop, state | start, send, drain, fail, close | gateway session | BridgeClientTransport, Bridge |
| routed clients (`routed-device-mcp-client-registry.ts`) | session → connecting or open client; open entries; the tools a device listed last | getClient, call, list tools, close | one server transport for each client | RoutedClients, RoutedCalls |
| device routing (`device-routing.ts`) | none | resolve, availability snapshots | repositories and the session registry | DeviceRouting, RoutedCalls |
| public MCP endpoint (`public-mcp-endpoint.ts`) | per owner: the last call at the gate of `devices_pair` | devices_list, devices_pair, the routed tools | routing, routed clients, completion service, pairing channel | PairingSessions, PairingChannel, RoutedCalls |
| file tools (`filesystem-write.ts`, `filesystem-delete.ts`, `filesystem-read.ts`, `workspace.ts`) | the workspace on disk | write, patch, mkdir, move, delete, read, list, stat, search | file system; each other, through it | WorkspaceTree, FileTools, FileReads |
| shell.exec (`shell-exec.ts`) | one call's output, timers, termination | spawn, data, timeout, abort, kill, close | operating system | ShellExec |
| public MCP authentication, device repository, SQLite assembly, start-up, agent CLI, credential file, schemas, scripts | — | — | — | see section 8 |

How the parts meet. A local agent posts a pairing session, attaches a channel to
it with a proof, and shows a code to its user. The user's public MCP client
calls `devices_pair` with the code: the claim creates the device, the completion
service issues its first credential under the device's lifecycle lock, and the
channel delivers it; the agent stores it and acknowledges. From then on the
reconnect controller opens a bridge with the credential: the gateway verifies
it, registers the session, and the router hands the session's MCP client to tool
calls of the owner. A revoke or rotate takes the lifecycle lock, drains what is
in flight, replaces the generation and evicts its session.

What is hard here. Everything runs on an event loop, so the code between two
awaits is atomic, and every await is a point where other tasks run. The
properties are aimed at what that allows:

* a verification, lease or lookup that is stale by the time it is used
  (handshakes, heartbeats, acknowledgements, routing, resume);
* two stores that cannot be written together, and a crash between them
  (completion);
* locks, drains and shared promises that must be handed on after a failure;
* sockets that drop, stay half open or are replaced, with frames in flight;
* `close`, `stop` and expiry that come at any await, and late results that must
  not revive anything;
* bounded queues, tables and budgets at their limit;
* calls of file tools that look at a path and use it some awaits later, while
  other calls and a crash come between;
* events of a process tree in any order.

Every such place is a hazard in `PROJECT.json` at its line, with the properties
that would catch it going wrong.

## 2. Modules and their order

1. **DeviceSessions** with its abstract specification **CredentialSessions** and
   the mapping **DeviceSessionsRefinement**: the core.
2. **PairingLedger** (abstract: the SQLite transactions), **PairingSessions**
   (detailed: the in-memory repository with its queue, the endpoints, the owner's
   gate and the channel table), **PairingSessionsRefinement**.
3. **PairingCompletion**, **PairingChannel**: the first credential, from the
   issue to the acknowledged delivery.
4. **LocalReconnect**: when a bridge is opened.
5. **BridgeServerTransport** and **BridgeClientTransport**, one end each, composed
   with the gateway's session by **Bridge**.
6. **DeviceRouting** (which session) and **RoutedClients** (which client), composed
   by **RoutedCalls**: a public call from its request to its answer.
7. **ShellExec**: a small component with hard edges.
8. **WorkspaceTree** (what node:fs does to a tree of paths), **FileTools** (the calls
   that change it) and **FileReads** (the calls that read it, and the whole).
9. **DeviceSessionsProofs**, **PairingLedgerProofs**, **PairingSessionsProofs**,
   **PairingCompletionProofs**, **PairingChannelProofs**, **RoutedCallsProofs**,
   **BridgeProofs** (Bridge and LocalReconnect), **AgentToolsProofs** (FileReads and
   ShellExec).

The modules of a composition have no `Next` of their own: their actions are
joined, and constrained by each other, in the module that composes them.

Each `MCx` module extends `x` with symmetry sets, views and constant definitions.
A step of a module is the code between two awaits, or one access to a store. A
definition whose comment begins with "Mutant" or "A mutant" is a wrong version of the one
after it; it is used only to show that a property notices the mistake.

### Correspondence with the code

**DeviceSessions.** `conn[c]` is the state of a gateway connection, `registry[d]`
the session the registry has for a device. A *handshake* `h` is one handling of
`bridge.hello`: `Hello`, `VerifyRead` (the store's answer), `Authenticate` (the
re-check after the await), `TakeReadyLease`, `ValidateRead`, `BecomeReady`. An
*operation* `o` is one run of `runCredentialLifecycleOperation`: `BeginOperation`
(marker), `ReadSnapshot`, `AcquireLock`, `AuthDrainPhase` and `EnterBody` (the two
drains), `Commit`, `Complete` / `Invalidate` / `Publish` (eviction),
`ReleaseLock`, `EndOperation`. A *heartbeat* is the validation after a pong.
`Stop`, `StopConnections`, `FinalizeConnections` and `StopClear` are the parts of
`stop()` between its awaits. A credential generation is its version: the id and
the secret are drawn afresh with every version.

**PairingCompletion.** `rec` is the completion record, `active` the device's
credential; a call walks through `pc`. `PutPending`, `PutRecovering`, `SwapRecord`
and `PutDelivered` are the writes of the completion repository, each one SQLite
transaction; the actions are what the service and the runtime do around them.
`Crash` ends the calls in flight, forgets what is in memory and keeps both stores;
calls not yet begun find what it left. `StartWrapped` and `StartResume` are the
runtime's wrappers, which decide whether the lifecycle lock is taken.

**PairingChannel.** Two queues of frames for each socket, `up` and `down`; `fin`
is a close event; `Drop` loses what is in flight and lets each end learn of it
on its own. `storing` and `acking` are the two long awaits in which everything
else may happen.

**PairingLedger / PairingSessions.** In the ledger an operation is one step, as it
is one immediate transaction in SQLite. In PairingSessions it waits in the
in-memory repository's queue, and a claim keeps its turn while the device is
created. The refinement says that the queue gives what the transaction gives.
The in-memory repository keeps the codes of the last 100,000 pruned sessions only
(`MaxTombstones`), where SQLite keeps them all. The refinement holds as long as
that bound is not exceeded, which is the case in the run: there are as many
tombstones as codes. `RememberingStepsAreLedgerSteps` says what holds whatever the
bound: a step that loses no tombstone is a step of the ledger.

A call of `devices_pair` is a caller that takes its place at its owner's gate
(`StartClaim`), counts the devices when the call before it has left
(`CountDevices`), waits for the repository (`RunClaim`, `CreateDevice`) and leaves
the gate when the credential is issued or anything before it has failed (`Leaves`).
`prev` is the promise it awaits, `tail` the gate's map of last promises.

**LocalReconnect.** A *run* is one execution of `#startAttempt` with its
transport; `current` is `#currentAttempt`. What a promise continuation does right
after the event that settles it is part of the event's step.

**BridgeServerTransport / BridgeClientTransport.** `queue` holds the sizes and
numbers of waiting messages; the pump and the timers are the code's. The agent's
socket reports `bufferedAmount`, which is taken to count the transport's own
frames only. The drain is a microtask in the code; in the model other events may
come before it, which allows more behaviours than the program has. The agent's
`socket.close` may throw wherever it is called (`Abandon`): the transport is then
closed at once and the socket stays as it is, with nobody listening.

**Bridge.** Both transports and the gateway's connection between them, which is
`"connecting"` until the agent's socket opens and its hello is on the way
(`AgentOpens`). `Hello` is the gateway's handling of `bridge.hello`, which has left
the agent's buffer: it opens the session or refuses. Each end then sees the other only through the
acknowledgement, `bridge.close` and the end of the socket or session. What the
messages carry does not matter to either transport, so a message that arrives is
not a step of its own.

**RoutedClients.** A *connect* is one execution of `#connect`. The MCP SDK's
client is external: its `connect` starts the transport and awaits `initialize`,
and closes the transport when that fails.

**DeviceRouting.** A request reads device and credential in two awaits while the
environment rotates, revokes, registers and evicts; the answer is compared with
what was true since the request began (`since`, `recent`).

**RoutedCalls.** `Begin`, `Route`, `GetClient`, `Resume`, `CallEnds` are the parts
of one public call; a session that closes leaves the registry and its transport
in one step (`SessionCloses`), as `finalizeConnection` does. `catalog` has the
session whose list of tools is kept for a device; sessions are numbered in the
order they register, so that an older list is a smaller number.

**ShellExec.** One call of `runProcess` on POSIX against a tree of processes that
fork, detach, write, close their pipe and exit as they like. Output is counted
in units and the two streams are one pipe, as they share the budget.

**WorkspaceTree / FileTools / FileReads.** The workspace is a function from the
paths that exist to `Dir` or a file; `data[f]` is the blocks in a file, `want[f]`
those it is to have. A call is where it is (`pc`) and what it has seen; each
action is the code between two awaits, with the call of node:fs it makes last.
`Fails` is what a handler does when that call throws: `Fault` lets it throw at any
await, and the guards of WorkspaceTree when the tree has changed. The resolver of
paths does not throw: it takes any error of `realpath` for a path that is not
there, and the call goes on with that (`Overlooks`). `want` of a
patch is what it read and its own block; two blocks make a file that can be torn.
A reader keeps the queue of directories of its walk (`Scan`, `Entry`) and the
limits of a search (`SearchFile`); `stayed` is history, the part of the tree
nobody has touched since the reader began. node:fs is external: `rename` replaces
in one step, `rm` with recursive takes one entry after another.

## 3. Runs

Every run lists its properties and one sentence on what it shows in
`PROJECT.json`. The bounds:

| run | checks | instance | why it is enough |
|---|---|---|---|
| sessions | `Inv`, `RevokedIsNotReady`, `AuthenticatedIsFresh`, `ImplementsCredentialSessions` | 1 device, 2 connections, 2 handshakes, 2 operations, 2 generations | two sessions compete for a device while two mutations queue; devices share nothing but `stop()` |
| sessions_live | `OperationsReturn`, `ClosedLeavesRegistry` | 1 handshake, 2 operations | two operations queue for lock and drains, with a lease in flight |
| completion | `Inv`, `NoCallIsStuck`, `AcknowledgedIsActive`, `RecoveryRespectsMutations`, `ResumeSucceeds` | 4 calls, 1 crash, 1 mutation, 2 recovery steps | a claim, its secret forgotten, a resume that is interrupted, and the next one |
| completion_delivered | `DeliveredIsTerminal` (does not hold) | 3 calls | see section 6 |
| channel | `Inv`, `PairedIsDelivered`, `OneActiveSocket`, `ClientSettles` | 2 sockets (a socket may be used again), 2 calls, 2 reconnects | an old half-open socket and its successor; two `devices_pair` share a delivery |
| ledger | `IInv`, `CodeIsSingleUse` | 3 ids, 3 codes, capacity 2, clock to 4 | pruning, reuse of an id, codes that come again, a clock that is set back |
| pairing_sessions | `Inv`, `ClaimableHasChannel`, `WithinDeviceLimit`, `ImplementsPairingLedger` | 2 ids, 2 codes, 3 callers, 2 owners, limit of 1 device, capacity 2, 1 channel, clock to 3 | create, claim and prune queue behind each other; the table and the channels are full; three claims of one owner at its limit, or of two owners with one session |
| reconnect | `Inv`, `FinalStays`, `ResetOnlyWhenStable`, `StopEnds` | 3 runs, 5 lives, 2 failures | an old run finalizing, a current one, the next; start / stop / start |
| bridge | `BridgeInv`, `PromisesSettle`, `EndsTogether` | 2 messages / 3 bytes, sizes 1 and 2, 3 sends, 2 replies | the queue is full by count and by bytes, and empties, with either end failing and a `socket.close` that throws |
| routed_calls | `Inv`, `NeverStale`, `ReturnsLiveMatch`, `CatalogNeverOlder` | 1 device, 2 owners, 2 callers, 2 generations, 2 sessions, 3 connects | a foreign owner; a mutation, a replaced session and a failed connect within one call |
| shell_exec | `OutputIsExact`, `NoSurvivors`, `TerminationReturns` | leader, 2 descendants (1 may detach), budget 2, 4 units | output below, at and above the budget; a child that exits first |
| file_tools | `Inv`, `ReplaceIsAtomic`, `WhatStaysIsFound`, `ReadIsOneVersion`, `OnlyMovesTakeUnasked` | 2 changing calls of 10 requests, 1 reader of 5, 1 file and 2 directories, 1 failure or crash | two calls on one path, its directory or its destination; a walk that meets a moved directory; more entries and files than the limits let through; files of two blocks, of which one is checked for zeros |

`Inv` of a module is the conjunction of its type invariant with the facts that the
other properties rest on: `RecordTracksActive` and `SingleFlight` in
PairingCompletion, `PendingIsSent`, `NoOrphanCalls` and `DeliveredIsStored` in
PairingChannel, `IndexAgrees`, `TombsAreApart` and `ClaimStillHolds` in
PairingSessions, `OneConnection` and `StateHasDriver` in LocalReconnect, `RightClient`
and the `Inv` of DeviceRouting and of RoutedClients (`EntriesAreOpen`,
`ReadyHasLiveClient`, `OneClient`, `NoneOutlivesClose`) in RoutedCalls, queues,
bounds, order, pumps and clean closes in Bridge (`BridgeInv`), the shape of the tree
and `NoTemporaryLeft` in FileReads. In DeviceSessions it is `IInv`, with the headline
`RegisteredIsActive` among its conjuncts, and what the refinement rests on. In all of
these it also has what makes it inductive, so that TLC checks on an instance the
formula that section 5 proves for all.

Every bound is a constant in a guard: `MaxGeneration`, `MaxRecoverySteps`,
`MaxCrashes`, `MaxMutations`, `MaxReconnects`, `MaxTime`, `MaxLives`, `MaxSends`,
`MaxReplies`, `MaxRegistrations`, `Connects`, `MaxWritten`, `MaxFailures`. `MaxRecoverySteps`, `MaxReconnects`, `MaxSessions`,
`MaxTombstones`, `MaxChannels`, `MaxDevices`, `MaxQueuedMessages`,
`MaxQueuedBytes`, `MaxOutput`, `MaxFiles`, `MaxFileSize`, `MaxBytes` and `MaxChecked`
(the 8192 bytes in which a zero makes a buffer binary) are limits of the code
itself, made small.

*Symmetry* is used in runs without liveness, over tasks, ids and codes that the
modules treat alike: sessions, completion, ledger, pairing_sessions, routed_calls
and file_tools.
*Views*: `LiveState` (MCDeviceSessions, MCPairingCompletion) and `View`
(MCPairingSessions) drop locals of finished tasks, what a call has read for a
phase it has left, and fields of sessions that are not stored. No action reads
them before they are written again, and the only conjuncts that mention them say
their type or that a time is not in the future.
*Deadlock* is not checked: every instance may come to rest, when its bounded
tasks are over, when the runtime has stopped, or when the environment does
nothing more. That nothing is stuck is stated by the liveness properties and by
`NoCallIsStuck`, `NoStall`, `StateHasDriver`, `NoOrphanCalls` and `PendingIsSent`.
`NoCallIsStuck` says it with ENABLED: as each call has finitely many steps, one
that can always go on means that all return.

## 4. Fairness

Weak fairness only, on what the event loop and its timers do by themselves: a
pending promise continuation runs, a timer that is armed fires, an event in the
queue is delivered, a repository call answers. No fairness on what users, peers
or processes choose: calls, connects, sends, drops, mutations, `stop()`. The
assumptions about the outside are these: a socket that is opening opens or
fails, one that is closing closes, and a buffer is flushed while the socket
is open (agent transport), whereas nobody closes a socket that the transport has
abandoned; a send on a gateway session is answered (server
transport); a connect and a call of the SDK's client end (they have timeouts); the
storage of a credential answers. In Bridge the WebSocket tells each end
that the other has closed it, and the gateway's session ends with its socket.
ShellExec assumes nothing of processes except that SIGKILL ends them. RoutedCalls,
PairingSessions, PairingLedger, PairingCompletion and the file tools are checked
for safety only.

## 5. What is proved

All theorems hold for every value of the constants under the assumptions named
in the modules: null values are distinct from the rest, tasks are finitely many
where they are counted, limits are natural numbers, positive where the code's are.
`MaxRecoverySteps` is at least 2, as the code's 16: with a single step a recovery
that is taken up after a crash could not end. `Retention >= TTL` is what the code's
defaults give. `Codes` is finite, as codes have a length and an alphabet.

**DeviceSessionsProofs.** `Inductive` proves `Spec => []Inv`, and `Inv` begins with
`IInv`. The safety properties are not inductive: that no stale generation is
registered depends on counters agreeing with the tasks they count. `IInv` adds to
the type invariant and the properties themselves:

* `Bindings`: a task that has started knows its connection and device, and
  registry and sessions point at each other;
* `CountsAreExact`: until the runtime has stopped, the counts of leases and of
  markers of a device are the cardinalities of the sets of tasks that hold one;
* `LockIsExclusive`: an operation past the lock is the head of its device's queue;
* `DrainedMeansNoLease`: when the drain lets an operation go on, no handshake
  holds a lease on its device, for one that starts later sees the marker;
* `ValidatedIsActive`: the second verification of a handshake stays right until
  the handshake registers;
* `ReplacedForever`: a replaced generation is never active again;
* `ShutDown`: once `gateway.stop()` has closed the connections, none is ready and
  every handshake in flight is on a connection that is closing.

From it follow `TypeCorrect`, `RegisteredSessionsAreActive`,
`LeasesExcludeMutations`, `ReadySessionsAreRegistered`,
`RevokedGenerationsAreNotReady` and `StoppedRuntimesAreEmpty`. The proof has one
step for each action, under it one for each conjunct that the action disturbs, and
counting lemmas about adding and removing one element of a finite set.

Two more results need three facts that `IInv` does not have.
`AuthenticatedHandshakesAreFresh` speaks of the moment a verification is used, one
await after the store answered: `StaleIsOverlapped` says that an answer which is out
of date overlaps an operation that still waits for it before it gives up its
marker, and `VerificationsAreCounted` that it waits for as many as there are. When
the marker is gone, so is every stale answer. `RuntimeImplementsCredentialSessions`
is the refinement: `Spec` implies the abstract specification of CredentialSessions,
each step being a connect, a disconnect, a replacement of the generation, the
shutdown or a stutter. The hard step is the commit, which the abstract specification allows only
as one with the eviction: `CommitIsUnseen` says that between the two the session
still registered is of the generation replaced, and the mapping keeps that one in
force until the eviction.

**PairingLedgerProofs.** `LedgerInvariant`: codes of stored sessions are unique and
are not those of tombstones, there is a device for each claimed session and for no
other, and a claim lies within the session's life. From it `SingleUse` (a code
pairs one device at most), `InTime` and the action property `FinalStays`.

**PairingSessionsProofs.** `DeviceLimit` proves `Spec => []WithinDeviceLimit` for
every number of owners, callers and devices. The gate is a chain of promises:
each call awaits the one that was last when it came, and the owner's entry goes
when the last call leaves. That two calls of one owner are never inside together
is not inductive; neither is that the links form a chain without an order on it.
`GateInv` therefore says that there is a rank of the callers (`Ordered`) such that
the owner's last call has the highest, and a call that is not the lowest of its
owner waits for one at least as high as every lower one. `FirstIsAlone` follows: a call
that awaits nobody is the lowest, and only it can be inside. A new call gets a rank
above the last one's; one that leaves is the lowest, so the rest keep their order.
`HasCounted` then carries the count over the awaits to the creation of the device.

`RepositoryAgrees` proves `Spec => []Inv` for the repository. What an operation drew
or read before it waited for the lock has to hold when its turn comes: `TaskIsTrue`
says what each phase may count on, `QueueIsWaiting` that the queue has each waiting
call once, `TombsAreApart` that a code has one tombstone and no session beside it.
Since every step that changes the sessions is of the call at the head of the queue,
only that call can make a task's memory false, and `TaskIsTrue` allows what it does.
`ClaimablesAreDelivered` needs `TimesAreOrdered` besides: a channel outlives the
session it was registered for, so no session is pending, in time and without one.

`RepositoryStepsAreLedgerSteps` proves that each step which loses no tombstone is a
step of PairingLedger or a stutter, under the mapping in which a claim in progress has
the clock at the time it has read. `RepositoryImplementsLedger` is the refinement the
run checks, under the hypothesis that there is room for a tombstone of every code. The tombstones
are distinct codes, hence never more than there are codes (`TombsAreApart`). The
instance of the run satisfies the hypothesis; the code, with 100,000 tombstones for
32^8 codes, does not in principle, and what it then has is the first theorem.

**PairingCompletionProofs.** `Inductive` proves `Spec => []Inv`. That the record names
the active credential is true at every await, but each step relies on more:

* `Phased`: what a call has read and how far it is go together;
* `Owned`: a call that went through the lock holds it until it ends, and the shared
  promise is of a call that runs or has resolved;
* `Shared`: while a call runs `#complete` its promise is the shared one or it has the
  lock and the promise was forgotten; then no other call runs, nothing is
  acknowledged, and a waiting call waits for that one (`SingleFlight`);
* `Recorded`: the record a running call has read is still the one stored, unless
  its retention is over;
* `Tracked`: unless an explicit mutation came between, each phase knows which of the
  record's two credentials is active. A crash may come at any of them.

`DeliveriesAreActive`, `RecoveriesRespectMutations` and `ResumesSucceed` follow, each
from the actions that can make its step. All but the type and the phases leave out
one corner, `Unshared`: a resume that saw the session before its claim runs without
the lock, and its promise is forgotten meanwhile. Nothing keeps two completions
apart there, and the properties do not hold.

**PairingChannelProofs.** `Inductive` proves `Spec => []Inv`. A recorded delivery is
stored (`DeliveredIsStored`) because any acknowledgement on its way is of a stored
credential (`AckIsStored`): a fact about every frame in two queues for each socket,
which the lemmas on frames carry through a frame taken, appended or dropped.
`AckIsRecorded` holds the answer of the completion service over the await, and
`AttachIsAlone` that one digest at most is being computed, with no socket attached.
From it follow `SuccessIsDelivered` and `SocketsAttachOneByOne`.

**BridgeProofs.** `BridgeInvariant` proves `BridgeSpec => []BridgeInv`, for every
number and size of messages and every limit. Three facts carry it:

* The byte count of a queue is the sum of its sizes, and the model takes the sum
  with a fold, which adds in an order of its own. `Least` (a set of naturals has a
  least element, from the library's well-foundedness of `<`) shows that the order
  does not matter, by the least size of an index set for which it would. Then what the
  first and the last element contribute (`TotalOfTail`, `TotalOfAppend`) is arithmetic.
* `NumbersAgree`: of the `n` sends accepted, the last `Len(queue)` wait, in the
  order of their numbers; what has gone out is 1, 2, 3, ... Order on the wire and a
  promise for each send follow.
* `StateAgrees`: what each state of a transport says of its timers, its promises, the
  send in progress and the bytes in the socket. Without it a pump could stall, or a
  close leave something behind, in a state no run reaches.

`EndsAgree`, a part of `BridgeInv`, has the last two for both ends. Each end has an
inductive invariant of its own (`AgentInv`, `ServerInv`); a step of the composition
is a step of one end, or of both through the link, and one lemma for each action
says that it keeps the end's invariant.

`ReconnectInvariant` proves `Spec => []Inv` of LocalReconnect, and from it follow
`FinalStaysAlways` and `ResetOnlyWhenStableAlways`. One connection at most
depends on the run of a generation: `RunAgrees` says what a run at each await is
to the controller, `OneActive` that one run of the current generation can still
act, `CurrentAgrees` that the current attempt is that run or the ready one. A
stale run finds another generation after its await and changes nothing. Two lemmas
carry the proof: `BeginRunInv` (a run begins where none can act) and
`TransitionInv` (the one that could act ends).

**RoutedCallsProofs.** `Invariant` proves `Spec => []Inv`. The clients and the
requests have an inductive invariant each, and two facts relate them: `RightClient`,
and that a kept list of tools is not newer than the device's entry (`CatalogAgrees`).

* Of the clients: a transport has its session's callbacks exactly while it is
  ready, and a connect whose transport is not ready has a session that is not ready
  either (`TransportsAgree`); a ready session that is bound has its connect in
  `#bySession` (`MapAgrees`). So a connect that begins finds its session unbound
  (`OneClient`), and a caller that drops what `#bySession` has by now drops
  nothing of a ready session. `TransportsCloseInv` is the one argument for all the ways a
  transport ends: a bad answer, its own failure, its session's end, `close()`.
* Of the requests: the active credential is the last one, and what a request has
  read is not older than what was active when it began (`CredentialsAgree`); an
  answer stays the device's entry while its session is ready (`AnswersAgree`).

`NeverStaleAlways`, `ReturnsLiveMatchAlways` and `CatalogNeverOlderAlways` follow:
only `Check` answers a request (`OnlyCheckAnswers`), and a list of tools that counts
comes from a session that is still the entry (`ListsOfEntry`).

**AgentToolsProofs.** The file tools, for every workspace they begin with, every set
of requests and every limit. `FileToolsAssumption` says that calls, files and names are
apart, that the first tree is a workspace (every parent is a directory, every file at
one place) and that requests are what the schemas of the tools accept;
`FileReadsAssumption` the same of reads, and that limits are natural numbers.

`ToolsInvariant` is about the calls that change the workspace:

* `ToolTypes`: the tree is a tree, whatever is created, moved or deleted in it;
* `CallsAgree`: what a call knows at each await fits how far it has come; what it
  looked up may be out of date by then, and nothing here relies on it;
* `ContentsAgree`: a file holds a beginning of the content it is to have, nothing
  before it is opened and all of it when it is renamed;
* `PlacesAgree`: the file at a temporary path is that of the call the path is named
  after, which makes a rename put in place what its own call wrote; the file of an
  overwrite or a patch is at another path only when it is whole and was put there.

`NoTemporaryStays`, `AtomicReplacement` (`ReplaceIsAtomic`) and `OnlyMovesTake`
(`OnlyMovesTakeUnasked`) follow, over interleaved calls, failures and crashes. The
last one holds although a look may overlook what is there: only a move renames
over what it has not seen, for `writeFile` with "wx", `mkdir` and `rmdir` fail then.

`FilesAndReadersHold` is `Spec => []Inv`. `ReadersInvariant` adds the reader to the
tree that changes under it. A walk notes paths it has yet to visit, and the tree it
noted them in is gone when it visits them. `WalksAreComplete` therefore speaks only of
`stayed`, what has been there unchanged since the read began: every such path that
the request asks for is in the answer, or has been listed and is to be looked at, or is
the file at hand, or lies below a directory that is queued or listed. What a call does can only make `stayed` smaller, and a file in it
that nobody writes does not change (`Stable`). `WhatStayedWasFound` and
`ReadsHaveOneVersion` follow when the reader answers. The second says of what a read
returns that it begins one version of a file, followed by zeros at most where
`isBinaryBuffer` does not look (`TextBegins`).

Of shell.exec, `ExecInvariant`: what was read is captured up to the budget;
a group that got SIGKILL is dead and stays dead (new processes in the group are
forked by living members); an answer comes when the pipe has ended and no
termination is under way. From it `ExactOutput` and `Terminated`.

Not every theorem's property is also listed in a run: those that are conjuncts of
`IInv` (or follow from it) are checked with it.

**Model-checked only.**

* Liveness (`OperationsReturn`, `ClosedLeavesRegistry`, `ClientSettles`, `StopEnds`,
  `PromisesSettle`, `EndsTogether`, `TerminationReturns`), out of the prover's reach
  with its fairness, and `NoCallIsStuck`, which is stated with ENABLED.

Every other property that a run checks is a theorem above, or a conjunct of one.

## 6. Where the code disagrees with its documents

One run ends in a counterexample; `PROJECT.json` quotes the lines.

* `completion_delivered`: a delivered pairing can be resumed after its record has
  expired (5 minutes) while the session is still kept (10), and its credential
  is replaced. The documents call `delivered` terminal.

Eight further formulas state what one would expect and do not hold either. They are
kept in their modules, beside the properties that do hold; added to the module's
`.cfg` as a PROPERTY (an INVARIANT for `OneGeneration`), each gives its trace. The
first two have a `.cfg` of their own, which is not a run of `PROJECT.json`.

* `NothingIsTakenUnasked` (FileTools, `MCFileToolsMoveOverwrites.cfg`): a move without
  overwrite replaces a file that has come to its destination since it looked; so
  does one whose look failed for a reason of the file system's own.
  `docs/tools/filesystem-write.md:85` has ALREADY_EXISTS for it and line 120 rules
  out a silent overwrite. `OnlyMovesTakeUnasked` says that no other call does it.
* `FailureEndsSession` (Bridge, `MCBridgeFailureLeavesSession.cfg`): `fail` cuts the
  reason of a close to 123 characters where 123 bytes are allowed
  (`bridge-server-transport.ts:721`). With a message that is not ASCII
  `socket.close` throws, and the transport is closed, without its listeners, beside
  a socket that stays open. Where nothing was announced before (a callback that
  throws, for one) the gateway keeps the session;
  `docs/plans/2026-09-15-issue-21-bridge-server-transport.md:17` has socket, queue
  and callbacks cleaned up by any close or error. `EndsTogether` says what does
  hold: the session ends when the socket was closed or the link is gone.
* `TimeoutReturns` (ShellExec): a timeout after the child's exit terminates nothing
  while a descendant holds the pipe, and the call does not end;
  `docs/tools/shell-exec.md:66` promises TIMEOUT and a terminated tree.
* `RevokedStaysRevoked` (PairingCompletion): a crash between the issue and the
  record, a revoke, and a resume: it issues a new credential although explicit
  revocation is to fail closed.
* `ReturnedIsActive` (PairingCompletion): a resume that saw the session pending runs
  outside the lifecycle lock and may return a revoked credential.
* `DeliveredIsKept` (PairingChannel): expiry or cancel during an acknowledgement
  deletes the delivered record.
* `ReconnectKeepsWaiting` (PairingChannel): one refusal during the reconnect loop,
  for instance because the server has not seen the old socket close, rejects the
  caller, although attempts are left and a later one would succeed.
* `OneGeneration` (LocalReconnect): `start()` after a `stop()` that came during a
  finalization opens a transport beside the one that is closing.

What the file tools do not promise each other shows in FileTools and FileReads as
behaviour, and their properties are stated so as to leave it room:

* of two patches or overwrites of one file at once, one is lost and both report
  success;
* a write without overwrite that fails or dies leaves part of its file, and a
  patch that reads it while it is being written keeps that part;
* a temporary file stays when its directory is moved under it or when its
  removal fails, which is swallowed;
* a recursive delete that fails has deleted part of the tree;
* a read whose file is replaced after its size was taken may return a prefix and
  not say so; when the new file is the shorter one it fails, as the zeros after
  the end pass for binary, or returns those zeros when the first 8192 bytes are
  without one;
* a list or search leaves out a directory or file it cannot read, and a search a
  file that is too large, without saying so.

## 7. Reading the models: known abstractions

* Secrets, digests, proofs and codes are identities: a wrong one is a refusal.
* Well-formed messages only; a malformed one takes the path of a refusal where
  the handler changes state.
* Time is a counter where a property compares times (ledger, sessions), and a
  timer that may fire at any moment elsewhere.
* `DeviceRouting.NeverStale` speaks of requests that begin after a mutation; one
  that began before may return what was active when it read.
* A failing repository is modelled where the code has a path for it (refusals,
  conflicts, capacity, the storage on the local machine); other storage errors
  have the effect of the crash that is modelled.

* An invalidation that a bus delivers after the publish timeout is not in
  DeviceSessions; the bus of the code is in the process and delivers before it.
* PairingCompletion leaves out the path on which an issue fails and what the
  repository reserved for the session is deleted again.
* A handshake that evicts the session of another connection is checked in the run
  sessions; sessions_live has one connection.
* `socket.close` throws or not at will. A real socket throws for a reason that is too
  long, which only a failure can give.

## 8. Not modelled

* **Public MCP authentication, schemas, start-up, SQLite migrations, system
  information, scripts**: validation, assembly and pure I/O without state of
  their own.
* **Device repository**: immutable rows; their creation is a step of a claim.
* **Public MCP endpoint**: the audit calls, the shape of the proxied tools and the
  HTTP handler around them.
* **Abuse guard**: two counters behind one synchronous method, which a unit test
  covers.
* **Credential file of the agent**: one step of PairingChannel that succeeds or
  fails; the write, sync and rename of one writer are not split.
* **File tools**: symbolic links and the canonicalisation that refuses them, the
  policy and the limits of a workspace, the workspace tool itself, modes, time
  stamps, globs and line ranges. Every path of the model is inside the workspace.
  A recursive mkdir is one step. Another program that changes the workspace does
  what a call of the tools may do.
* **Windows process termination** in shell.exec.

## 9. Plan

1. Extend: the credential file with a crash between write, sync and rename;
   symbolic links in WorkspaceTree and the check that refuses them; several records
   in PairingCompletion; the liveness of a routed call.
2. Prove: what an extension adds. Of what is modelled now, all that the prover can
   state is proved. `NoCallIsStuck` could be proved in a weaker form, the disjunction
   of the guards of a call's actions, if the actions were given guards by name.
