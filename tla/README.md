# HyperDHT in TLA+

TLA+ models of the parts of this repository whose correctness depends on the order in
which things happen: promises that resolve between two awaits, timers that race answers,
packets that are lost or repeated, peers that act at the same time. TLC checks the models
on small instances; TLAPS proves selected theorems for every value of the constants.

Every definition that stands for code is listed in `PROJECT.json` under `map`, with the
file and the lines it models. Paths below are relative to `src/`.

## 1. The system and its parts

HyperDHT is a DHT node on top of `dht-rpc`. Servers announce a public key on relays near
the key's hash; clients find those relays, exchange a Noise handshake through them, punch
a hole through the NATs and end with one encrypted stream. `lib/private/` adds routed
("private") connections made of fixed-size cells. JavaScript is single threaded, so the
unit of interleaving is the code between two awaits: every await, listener and timer
callback is a step of its own in the models, and nothing else is.

| Part | State it keeps | Operations | What is hard about it |
|---|---|---|---|
| Semaphore `lib/semaphore.js` | active, queue of resolvers, flush promise, destroyed | wait, signal, flush, destroy | lost wake-ups, late signals after destroy, a flush nobody resolves |
| Announcer `lib/announcer.js` | three generations of relays, flags, the promises `_updating`, `_unannouncing`, two signals | start, background loop, update, commit, unannounce, suspend, resume, refresh, stop | four tasks interleave at every await; requests are lost; a forgotten relay keeps the record |
| Server `lib/server.js` | `_holepunches`, `_connects`, handshake objects with raw stream, relay, puncher, timers | handshake, holepunch request, relay pairing and recovery, suspend, resume, close | five awaits per handshake, three timers, relay and direct path race for one stream |
| Connection pool `lib/connection-pool.js` | the current stream of each key, its listeners | connect, attach, duplicate tie-break, close | both peers dial at once and each decides alone which stream dies |
| Cell counters and codec `lib/private/counters.js`, `lib/private/cell-codec.js` | sender counter, reorder buffer, gap clock, replay bitmap | seal, open, push, accept, expire, destroy | counter exhaustion, replay at the edge of the window, a second gap behind the first |
| Peer ledger `lib/private/peer-ledger.js` | a tree of budgets, memory pools and reservations, branch slots, retired evidence | create, reserve, charge, take, release, narrow, take and release of branches, close | accounts related through the whole tree, plans of several rows, deferred release |
| Holepuncher, NAT sampler, socket pool `lib/holepuncher.js`, `lib/nat.js`, `lib/socket-pool.js` | samples and verdict, punch state, the node's budget of random punches, references on sockets | analyze, punch, probes, open, reopen, destroy; acquire and release | a shared budget tested before an await and taken after it; sockets that linger |
| Connect `lib/connect.js`, `lib/relay-connection.js` | one connection attempt | find relays, handshake, rounds of holepunching, relay, upgrade | relay, LAN and direct path race; retries; upgrade of a stream in use |
| Router `lib/router.js` | forward table | forwarding modes of PEER_HANDSHAKE and PEER_HOLEPUNCH | modes chosen by the hop before |
| Persistent storage `lib/persistent.js`, `lib/refresh-chain.js` | records, announces, mutable and immutable values | announce, unannounce, put, get | sequence numbers, one-time refresh tokens |
| Circuit flow control `lib/private/private-peer-controller.js` | credit windows of streams and circuits, the pool of each circuit, batches of returned credit, timers | write, read, demand, grant, withdraw, release, return, end, reset, loss of a link | four parties with a copy of a window each; every end of a stream crosses its own cells and credit |
| Spliced routes, same file | ids, records, UDX pairs, streams | activate, open, ready, reset, close | RESET, READY and closes cross; one circuit is shared by all the streams |
| Route publication, same file | current route, retired circuits, refresh timer, control sessions, registrations, bridges | listen, publish, refresh, suspend, resume, close, destroy; build and register at the relays | ten awaits over four hosts, any of which may stop; only one publish at a time |
| Source routes, same file | safety relays, resolvers, cached descriptors, sessions | connect, resolve, extend, activate | attempts in sequence, each cancellable |
| Private discovery `lib/private/overlay-descriptor-service.js`, `overlay-storage-routing.js`, `blinded-presence.js` | descriptor records, directory, presence epochs | put, read back, get by quorum, publish, rotate, look up | older writes that arrive late, quorums that differ, overlap of epochs |
| Node facade `index.js` | servers, pools, online and suspended flags | listen, connect, suspend, resume, destroy | order of shutdown over its parts |
| Wire formats, crypto, tools | none of their own | encode, decode, sign | data only |

How they interact. `connect()` runs `findAndConnect`, which bounds its attempts with a
Semaphore and, with a pool, returns or attaches a pooled stream. A Server owns an
Announcer; `suspend`, `resume`, `refresh` and `close` of the server call those of the
announcer, and the router entry of the server delivers handshakes and holepunch requests
to `_addHandshake` and `_onpeerholepunch`. A handshake of the server owns a raw stream
and, depending on the peer, a Holepuncher or a relay client. A cell channel has a
SenderCounter on one side, a receiver on the other and a CellCodec on both; the private
peer controller owns channels and pays for their work out of peer ledgers. A private
server publishes a route (destination, guard, entry) as a descriptor on overlay nodes;
a source resolves it and is activated at the entry, and from then on its stream shares
the circuit, its credit and, in the spliced profile, its UDX path with its siblings.

What makes each part correct, in a sentence: the semaphore bounds and never strands its
waiters; the announcer knows every relay that holds its record and takes the record down
when told to; a server handshake ends in one connection or a free slot; two pools settle
on one stream; a channel delivers each payload once, a stream channel in order; a ledger
never spends what it does not have and never forgets what it spent; a holepuncher stays
within the node's budget, punches the way its peer does and returns its sockets; a
private stream conserves its credit, is answered when it opens and forgotten when it
closes; a private server that listens is published, and what it believes published is
what a lookup finds.

## 2. Modules

Component modules (state, one action per operation, properties at the end); `MC*` modules
extend them for TLC; `*Proofs` modules hold the theorems. A definition introduced by a
comment "Mutant:" is a plausible mistake in the definition after it. It is not part of
any specification; with it in place of the original the named property must fail.

**Semaphore** (`lib/semaphore.js`, as `lib/connect.js` uses it). The variables are the
fields of the class; `phase` says where each task is. A `wait()` either takes a permit
(`WaitDone`) or queues (`WaitQueued`); `Signal` hands a permit to the oldest waiter or
counts down and resolves the flush; `SignalDestroyed` is the early return of a signal that
comes after `destroy()`.

**Announcer** (`lib/announcer.js`, `lib/sleeper.js`). `bg` is the program counter of
`start()` and `_background()`; `gen` are the three `_serverRelays`; `suspPc` and `stopPc`
are the calls of the server. `EnterUpdate`, `QueryDone`, `CommitSettles`, `CommitsDone`,
`RemoveSettles`, `UpdateDone` are the awaits of `_update`; `UnannounceCurrent` and
`UnannounceDone` the chain of `_unannouncing` promises with its first-come order;
`PingsDone` and `SleepDone` the ping loop. `notified` lets the loop go on before any answer,
timer or network event (`Event`), as microtasks do, but not before a `Call`: `server.suspend()` and
`server.resume()` without an await between them run in consecutive microtasks, both ahead of the
loop they wake. External: the relays (`stored`), where a request may be
lost before or after it took effect. `lost`, `aborted` and `wanted` are history.

**CellChannel** (`lib/private/counters.js`, `lib/private/cell-codec.js`) and **Delivery**, the
abstract specification it implements. One channel: `Seal` is the sender with its counter;
`Push` the `OrderedReceiver` with its buffer and gap clock; `Accept` the
`DatagramReplayWindow`; both behind the authentication of the codec (`Opens`). The network is
the set of all cells ever sealed plus forged ones: any of them may be shown at any time
and any number of times, which covers loss, repetition, reordering and injection. The AEAD
and the padding are external: a cell opens when it is genuine. The bitmap of the replay
window is a set of offsets.

**PeerLedger** (`lib/private/peer-ledger.js`). `ledgers` are the rows with their parent,
all ancestors, allocation, spending and reservation; `memory` are the memory pools and
reservations, where a reservation that is taken becomes a pool to reserve from; `live`,
`deferred`, `retired` and `retiredSpent` are the branch-slot pool; `joined` is history, the branches
their own owner released. A narrowing of several rows
of both kinds is one action over any plan; the code checks every row before it writes
one, and so do `Narrowable` and `NarrowableMemory`. Cells, bytes and commands are three copies
of one account and the model has one. `Sum` adds amounts up by counting their units. The budget formulas (`computePeer*`) are constants of
the configuration and are left out.

**ConnectionPool** (`lib/connection-pool.js`, the dialling of `lib/connect.js`). Two peers,
each with a pool; a stream has two ends that open, are destroyed and close separately.
`Attach` is `_attachStream` with all its branches (replace, refuse, wait for the old
stream to close); `Close` runs the close listeners in the order they were added.

**ServerHandshakes** (`lib/server.js`, the puncher as the server uses it, the pairing of
`lib/relay-connection.js`). `hs` are the handshake objects, `holepunches` and `connects` the
two indexes, `reqs` the `_onpeerholepunch` calls under way. `AddHandshake`, `Received`,
`Firewalled`, `Localized`, `Sent`, `LanChecked` and `Answer` are the stretches of `_addHandshake`
between its awaits. `OnSocket`, `OnAbort`, `RelayOnAbort` and `MaybeDestroyRelayHandshake` are
the callbacks, as functions from one handshake object to the next. `Analyzed`, `Reopened`,
`Pinged`, `Punched` and `PuncherGone` are the stretches of a holepunch request, each
finished by the `finally` block (`Finish`). `ClearLater`, `Clear` and `Trim` are the deferred removal from the table,
`ClearAll` is what suspend and close do to it. Time is abstracted: an armed timer may
fire. The raw stream's `destroyed` is taken as true from its `close` event on, and what
`confirmDirectUpgrade` decides is a choice of `UpgradeSettled`.

The last four describe what runs to completion as an operator from a state (a record) to
the next, because handlers call each other; an action applies one of them.

**CircuitCredit** (`CircuitCreditPool`, `LogicalRouteStream`, `DestinationCircuit` and `EntryCircuit` of
`lib/private/private-peer-controller.js`). `ends` are the two streams of each source with their
windows, `pools` the credit pools of the entry (what sources send) and of the destination
(what it sends), `entry` the records of the entry with its copies of the windows, `dest` the
destination's side, `wire` the messages under way. `Demand`, `Distribute`, `ServeLeg`, `Returned`,
`Release`, `RemoveLeg` are the pool; `Write`, `WriteOn`, `Read`, `Final`, `Quit`, `FinishDestroy`, `IdleFires`
and `ReturnFires` the stream with its timers; `FromSource` and `FromDestination` the entry. A
circuit-scoped CREDIT is a GRANT or a RETURN by who sends it, a demand of zero a WITHDRAW.
A handler that throws leaves its reason in `faults` and does to the state what its catch does.
Relays between the three parties re-seal cells in order (`transformBridge`) and are part of a
queue. Left out: the lifetime limits on bytes and frames, the expiry of the circuit,
the spliced branches of the handlers, the idle close of a leg of the reverse pool (line 1815), and the
limits of `CircuitLink.send` (lines 806-813), which destroys a link with 2,048 data jobs pending (the
circuit credit keeps below that) or 256 of control. Time: the idle timer of a source may fire whenever it is
armed. A demand is a RENEWAL if it follows the one before without such a firing, and the entry may
or may not judge it to have come too soon; a demand that was spaced when it was made is taken to
arrive spaced, although line 1292 compares arrival times and the network may bring two closer. A grant
expires (`GrantExpires`) for a source that is gone, or that a plan lets stall on it while alive.

**SplicedRoutes** (the `spliced` profile in the same file). `source`, `record`, `pair`, `stream` are what the
source, the entry, both relays and the destination know of a stream; `wire` keeps the order of
one stream's frames on a link and none between streams, as `CircuitLink.sendQueues` does. The
`Guard*` actions are the branches of `transformBridge`, the `Entry*` those of `EntryCircuit`, the
`Destination*` those of `DestinationCircuit`. `PairCloses` and `PairIdles` are `watchSplicedPair`, which closes
waiting and active pairs alike. UDX is external:
two streams connected to each other notice each other's close. `cause` is history: why the
shared circuit was lost.

**RoutePublication** (`PrivatePeerServer`; `PinnedGuards`, publishing, control sessions, suspend,
resume and destroy of the controller; records, `put` and lookups of
`lib/private/overlay-descriptor-service.js`). An attempt is one `_publishThroughGuard`: `dest`,
`guard` and `entry` are how far the three hosts are with it, each await a step. `task` is
`_publishing`, `pins` the `PinnedGuards`, `again` `_republishAfter`. `GuardCancels` and `EntryCancels` fail a
control session at any await, and `Interrupted` lets some of the writes of a `put` reach their nodes
when it is destroyed, or when its relay suspends. `DestStillborn` is a new circuit that closes as
`route.start()` reads it. `RelayStops` is the end of the controller's `suspend()` and of
`HyperDHT.suspend` after it, which clears the raw streams of the relay's bridges (`index.js:197`). `Restart` is a crash of the destination that keeps only its keys. A
script gives the order of the application's calls; each may come at any time. Pruning
and eviction of records, the order among busy guards, and frames as bytes are left out.

**Holepunch** (`lib/holepuncher.js`, `lib/nat.js`, the rounds of `lib/connect.js`, `_onpeerholepunch` of
`lib/server.js`). `p` are the punchers with their `Nat`, `c` the rounds of the client, `h` the handlers
under way at the server, `node` the budget of random punches of each node. `Firewall` is the
verdict of `_updateFirewall` over the samples so far; `Punch` the choice of strategy; `Reopen` the
loop of `_reopen`; `AwaitBudget`, `Commit`, `PunchToo` and `OnReply` the rounds; `Deliver` may hand a request
to the server again. Addresses are known or not, verified or not. Left out: OPEN NATs,
which need no punch, and the linger of pooled sockets. Pings are not counted: once the two
punchers exist something may get through to the client (`ClientHears`), by an `openSession` or a punch.

## 3. Runs

`CHECK_DEADLOCK FALSE` is set in every configuration: a destroyed semaphore, a stopped
announcer, a closed channel, ledger or server really do stop, and the other systems stop
at the bounds named in their modules.

| Run | Shows | Bounds |
|---|---|---|
| `semaphore` | `PermitsBounded`, `NoLostWakeup`, `FlushHasSignaller` (a pending flush has a permit holder who will resolve it) | 5 tasks, 2 permits: two holders and three waiters, so hand-over, order of the queue, flush and destroy all meet |
| `announcer` | `UnannounceExcludesUpdate`, `KnowsItsRelays`, `SuspendedIsUnannounced` (with the exception `aborted` names), `StopTerminates`, `RefreshServed` | 2 relays, one of which loses requests, one kept by `pickBest`, so a refresh moves the record; 2 ping rounds; 2 overlapping suspends; calls at every await and in consecutive microtasks |
| `cell_channel` | `NoncesUnique`, `GapIsTimed`, `WindowIsExact`, `KeepsPromise` (the channel implements `Delivery`) | counters 1 to 5, window 3, so the window slides past its size and the counter runs out; gap timeout 2 on a clock 0 to 2 that may jump back |
| `ledger` | `Solvent`, `Balanced`, `SlotsAccounted`, `SpendingIsFinal` | 4 accounts of which up to 3 ledgers (a chain of three or two children of one parent) and up to 4 of memory (a pool in a pool with reservations in both), plans of 2 rows, 2 branch slots, so a deferred branch and one that is not meet when the pool closes |
| `connection_pool` | `LiveAreTracked`, `Converges` | 4 dials between two peers, one end by the user or a failure |
| `server_handshake` | `TablesAgree`, `OneConnection`, `HandoverIsFinal`, `StreamHasOwner`, `SlotsAreFreed` | two scopes of `MCServerHandshakes`. "race": 1 handshake, 2 overlapping requests, relay and punching, 2 suspends. "tables": 2 handshakes and 2 messages, punching, no relay and no request, 1 suspend, so a slot and a message it freed are taken again before the clear of their former handshake comes. The theorems on the four invariants cover any number |
| `credit` | `CircuitConserved`, `GrantsAccounted`, `StreamConserved`, `HonestPeersAgree`, `NobodyStarves` | 2 streams, circuit window 2, stream window 1: two writers with three cells contend for two, and one stalls, vanishes or quits holding some; or one stream carries a cell each way and is ended or destroyed at either side |
| `credit_renewal` | violated: `RenewalPreserved` | 1 writer of 3 cells, circuit window 4, stream window 2, so the stream credit ends inside a grant |
| `splice` | `PathAgrees`, `OpenIsAnswered`, `ClosedIsReleased` | 2 sources on one circuit with room for both (siblings) or for one: then an OPEN that overtakes the RESET of the stream before it finds the guard full |
| `splice_siblings` | violated: `SiblingsSurvive` | 2 sources, room for both |
| `publish` | `CurrentIsReadable`, `NotStranded`, `HaltedIsQuiet`, `SuspendedRelayIsEmpty`, `StreamsSurviveRefresh` | 2 relays that take turns as guard and entry, 2 storage nodes, write quorum 2 and read quorum 1, a clock that does not move (the sequence number must), six scripts of calls with 2 or 3 attempts: enough for one route to replace another while a third fails |
| `holepunch` | `RandomBudget`, `PunchesMeet`, `NothingInLimbo`, `SocketsReleased` | every pair of four kinds of NAT, 2 reopens, 2 birthday sockets, 4 rounds, 1 repeated request; other attempts, failures and lost pings in plans of their own |

The constants of the code (windows of 512 and 2,048 cells, 256 birthday sockets) enter the
models only through comparisons, which the small values exercise on both sides.

### Where the code and its documentation differ

Two runs are expected to end with a violation.

- `credit_renewal`. `docs/private-routing-e2e.md:509-511` says that an accepted request subtracts
  from the accumulated progress, which "preserves legitimate renewal when partial circuit grants
  cross an independent stream-credit boundary". A source whose stream credit runs out gives
  the rest of its grant back at once and asks again when the stream credit returns. If
  fewer than `DEMAND_PROGRESS` cells were sent on the grant, and the return takes less than
  `CREDIT_IDLE_MS`, `demand()` (`lib/private/private-peer-controller.js:1292`) throws and the link of a
  source that followed the protocol is destroyed. `HonestPeersAgree` shows that this is the only
  way honest peers fault each other within the bounds.
- `splice_siblings`. `README.md:156-157` says that "closing either side of one multiplexed stream
  cannot reset its siblings or the destination circuit". A RESET from the source deletes
  the pair at the guard; a READY of that stream which the destination had already sent then
  finds none, throws (`lib/private/private-peer-controller.js:1215`) and closes the bridge with
  all the streams on it. The same property fails when an OPEN finds the pairs at the guard
  full, or reaches the destination after the OPEN of a higher id (line 1935). A READY that comes
  after its waiting pair was idle for too long closes the bridge too; `SiblingsSurvive` lets that pass,
  as nobody closed anything.

Four more differences are stated in the modules, each with the comment "Not a property of the
code", and are in no run:

- `Announcer!StoppedIsUnannounced`. `README.md:256` says `destroy()` "will also unannounce any
  running servers". `stop()` unannounces from `_serverRelays[2]` only. While an update awaits its
  query, `_cycle()` has just emptied that generation and the update returns early, so the
  relays of the announce before keep the record after `stop()` resolved.
- `Announcer!RefreshBeforeSleep`. `README.md:291` says `refresh()` causes the server "to reannounce
  its address". A `refresh()` made during an update sets `_refreshing`, which the head of the loop
  (`lib/announcer.js:108`) sets back after that update; the announcer goes to sleep without
  another one. The request is served when the ping rounds are over (`RefreshServed`).
- `ServerHandshakes!ClosedIsQuiet`. `README.md:325` says `close` is "emitted when the server is fully
  closed". `_clearAll()` leaves the relay client and its timer alone (`lib/server.js:140-148`), and a
  pairing that completes later still emits `connection`, for a stream that is closed.
- `ServerHandshakes!RecoveryDeadlineHolds`. The comment at `lib/server.js:772` says that the deadline
  is anchored "so requests cannot extend it"; the test of `activeHolepunchRequests` at line 760
  returns before the deadline is looked at, so requests that overlap extend it without end.

### Observations without a run

- `server.suspend(); server.resume()` without an await, while the announcer waits to come online,
  leaves `_refreshing` set when the loop goes back to that wait. Once online the head of the loop sets it
  back and pings relays the suspend took the record from, until the ping rounds are over.
  `KnowsItsRelays` excepts a refresh that is owed (`wanted`); `RefreshServed` says that it comes.
- A handshake that `suspend()` popped before it had a raw stream, that went on after
  `resume()` and is stopped again at the LAN await (`lib/server.js:464`) returns without
  destroying its stream; the stream lives until the node is destroyed.
- A delivery that closes one gap and leaves another keeps the old start time of the gap
  (`lib/private/counters.js:284-287`), so the second gap may expire early. `GapIsTimed` states
  what holds: a gap clock runs exactly while cells are held back.
- Nothing in the library calls `expire()`: an overdue gap is noticed by the next cell.
- `connect()` may return a pooled stream that is being destroyed as a duplicate, and the
  peer with the smaller key refuses a fresh dial while its stale stream is not yet closed.
- Of the peer ledger, the library itself creates, charges, reads and releases root ledgers
  (`lib/private/private-peer-controller.js:20-25`); reservation, narrowing, memory pools and the
  branch slots are reached from tests only at this commit.
- `README.md:171-172` speaks of a "five-second" deadline on unused grants; `CREDIT_GRANT_IDLE_MS` is 6000.
- A private server whose whole `publish()` failed is not tried again by the controller: private
  servers are not in the node's `listening` set, so coming online does not refresh them.
  `NotStranded` excepts exactly this (`gaveUp`).
- `resume()` called while `suspend()` still awaits the descriptor service lets the rest of
  `suspend()` clear the routes `resume()` made; the model calls it after `suspend()` resolved.
- `resume()` of the controller publishes the servers one after the other, and a failure skips
  those behind it, where `README.md:202-203` says that it republishes them.
- A refresh that fails after its write reached the nodes leaves a newer descriptor there whose
  circuit is gone, in place of the one that still works. `CurrentIsReadable` therefore speaks
  of a route that is the newest descriptor made.
- A refreshed circuit that closes as `route.start()` reads it (`lib/private/private-peer-controller.js:2965-2967`) has
  already displaced the route before it. That circuit still works but is no longer current: the
  next pair has to publish.
- A punch request that is delivered twice while the server is in its own random punch is
  answered TRY_LATER, or without a relay aborts that punch.

### Fairness

Liveness is stated under weak fairness of what the event loop and its libraries
guarantee, and of nothing the user, the peer or the network decides.

- Announcer: requests settle because dht-rpc times them out, sleeps end, resolved promises
  run. Nobody has to call `resume`, `refresh` or `stop`, and the node need not come back online.
- ConnectionPool: a stream whose dialling end is alive reaches the responder unless it is
  dropped; a destroyed stream closes and the other end notices.
- ServerHandshakes: awaits of a handshake or request settle, armed timers fire, destroyed raw
  streams close, probes and pairing have deadlines, `close()` goes on. Nothing is assumed of
  the peer, of a relay that has paired, or of the application. `SlotsAreFreed` is conditional on
  requests that do not overlap for ever; `RecoveryDeadlineHolds` is what fails when they do.
- SplicedRoutes: frames are delivered, a closed link and a closed UDX stream are noticed. Nobody has
  to open or close a stream, and no idle or request timer is needed.

The other specifications have no fairness. `NobodyStarves`, `NothingInLimbo` and `NotStranded` say
instead that no state in which nothing is left to do leaves somebody waiting, which needs none.

## 4. Theorems

A theorem holds for every value of the constants that satisfies the `ASSUME` of the component
module. Most say `Spec => []P`. `StreamsSurviveRefresh` and `SpendingIsFinal` are action properties,
and `KeepsPromise` is a refinement: the next-state relation of `CellChannel` implies that of
`Delivery`, step by step. Each rests on an inductive invariant. The argument of each module is in the comment at its head.

- `SemaphoreProofs`: `TypeCorrect`, `PermitsBoundedHolds`, `NoLostWakeupHolds`, `FlushHasSignallerHolds`, for any
  finite set of tasks and any positive limit. The bound alone is not inductive: that a signal
  hands the permit to somebody who has none needs the queue to hold exactly the queued tasks,
  once each (`QueueCoherent`), and that the counter is exact until `destroy()`. `IInv` is the
  conjunction of those with `TypeOK` and `NoLostWakeup`.
- `AnnouncerProofs`: `UnannounceExcludesUpdateHolds`, `KnowsItsRelaysHolds`, `SuspendedIsUnannouncedHolds`, for any
  number of relays, suspends and ping rounds. An unannounce never meets an update because an
  update that waits for `_unannouncing` is last in line (`QueueInv`); `StoredInv` says where the record is in every
  phase of an update, also when a suspend overtook the offline wait and a refresh is owed, `CleanInv` when the newest generation is exact, `SuspendInv` what a suspend still owes.
- `CellChannelProofs`: `NoncesUniqueHolds`, for any start and maximum of the counter (the counter is
  ahead of every sealed cell while the sender is open); `WindowIsExactHolds`, for any window size
  (nothing beyond `highest` was delivered, without which a shift of the bitmap could claim too
  much); `GapIsTimedHolds`, for any gap timeout (`GapInv`: what is held back was sealed and lies ahead of the expected
  counter); `KeepsPromiseHolds`, from all of these (`ChannelInv`).
- `ServerHandshakesProofs`: `TablesAgreeHolds`, `OneConnectionHolds`, `HandoverIsFinalHolds`, `StreamHasOwnerHolds`, for any
  number of handshakes, messages, requests and suspensions. Almost every step changes fields of one
  handshake and keeps its message and slot (`Keeps`), which leaves the tables related as they
  were; three steps write them. The other three follow from `OwnedInv`, which says of each handshake in each
  phase who may still act on its raw stream: a timer, a request under way, the puncher, the relay.
- `HolepunchProofs`: `SocketsReleasedHolds`, `NothingInLimboHolds`, `RandomBudgetHolds` and `PunchesMeetHolds`, for any
  samples the two NATs show and any number of rounds, reopenings and repeats. One lemma per operator: applied to a
  state of the invariant it gives one. The invariant has two halves. `Sound`: `PuncherInv` says that a puncher that
  ended does not punch and holds no socket, not even one a reopening got after it ended, `ClientInv` what each phase of the rounds may have reserved and who settles the socket,
  `Counted` that the counters are exact. This is enough for the first two theorems. `Agree`: what one peer was told of the other's NAT is
  still true when it punches. A client settles its NAT in `RoundPunch`, and every delay or punch request
  says what it settled (`Rounds`). The server's NAT was frozen when the client was told of it, and stays:
  only an unstable pair is reopened, and a handler past its analysis, of the last round, saw a stable one
  (`Handled`), which nothing that is still under way can undo (`Told`, `Learned`). Late requests of earlier rounds
  do not change what the server punches by (`Remote`). So both punch from the same two kinds of NAT (`Modes`), which
  is `PunchesMeet`; and the pair the client reserved a random punch for is the one it punches with, which is the
  client's half of `RandomBudget`. A NAT that was found CONSISTENT must stay so with every further sample
  (`AddGrows`), a fact about the hits of the best two addresses (`TopIs`, `SecondIs`, `FirewallIs`).
- `RoutePublicationProofs`: `CurrentIsReadableHolds`, `NotStrandedHolds`, `HaltedIsQuietHolds`, `SuspendedRelayIsEmptyHolds`,
  `StreamsSurviveRefreshHolds`, for any relays, nodes, attempts, scripts and clock, and any quorums the code
  allows. `SessionsInv` ties the number of control sessions to the handlers under way, `ReadableInv`
  follows a descriptor from its first write to its read-back.
- `PeerLedgerProofs`: `SolventHolds`, `BalancedHolds`, `SlotsAccountedHolds`, `SpendingIsFinalHolds` (and its `TypeOK`), for
  any amounts, tree and rows. The invariant is the shape of the links (`Tree`, `Links`), the books of
  every row (`Books`, `Stores`) and the totals of the branch pool (`Slots`), where a deferred branch is
  live until it joined and a closed pool keeps no other. A sum is the number of units
  of its amounts (`Sum`), so that what a change does to a sum is a fact about cardinalities. Two arguments go
  along the tree, by a least or greatest counterexample: an allowance is part of the reservation of
  everything above it (`Funded`), and no row of a narrowing falls below what it spent (`RowsCover`).
- `SplicedRoutesProofs`: `PathAgreesHolds`, for any number of sources and any limit. `PathAgrees` speaks of
  settled states; the invariant accounts for every stream by the frames still under way: one OPEN
  at most, ahead of everything (`OneOpen`); a RESET on its way to whatever still stands of a stream the entry
  forgot (`Forgotten`); nothing standing behind a RESET that comes back (`ResetBehind`); an answer under way for a
  source that waits (`Answered`).

Only model-checked:

- liveness, which this prover does not reach: `StopTerminates`, `RefreshServed`, `Converges`, `SlotsAreFreed`,
  `OpenIsAnswered`, `ClosedIsReleased`;
- the five invariants of CircuitCredit and `LiveAreTracked` of ConnectionPool: their operators are folds
  (`Distribute`, `SendCells`, the sums over a queue; the close listeners), and what a fold computes for
  every input takes an induction over a recursive definition, which the installed provers do not do.

## 5. Not modelled

Not yet modelled: `lib/persistent.js`, `lib/router.js` (except the passage of a holepunch request),
`lib/socket-pool.js`, `index.js`, the relay attempts and the LAN race of `lib/connect.js`, the building of
source routes, `overlay-storage-routing.js` and `blinded-presence.js`. They are within reach and are in the plan.

Wire formats (`lib/messages.js`, `lib/encode.js`, `lib/private/protocol.js`, `peer-protocol.js`) and the
cryptography (`lib/crypto.js`, `noise-wrap.js`, `secure-payload.js`, `lib/private/crypto-suite.js`) are data
without state of their own; the models treat them as external. `bin.js`, `testnet.js`,
`browser.js`, `bench/`, `examples/`, `research/` and `review-bundles/` are not the library's logic.
Statistics, logging and error wording are left out everywhere. `PROJECT.json` lists every
component with its status.

## 6. Plan

In this order: first the parts others rely on and the server, then by size and risk.

1. Semaphore, Announcer, CellChannel with Delivery, PeerLedger, ConnectionPool: done.
   ServerHandshakes: done except `listen()` and its failures, rounds and tokens.
2. CircuitCredit, SplicedRoutes, RoutePublication, Holepunch: done, with the omissions section 2 names.
3. `SourceRoutes`: `_openSessionAttempt`, `_handleBuildSource`, `_handleExtendSource`, the choice of safety
   relays and the descriptor cache, composed with RoutePublication.
4. `Persistent`: sequence numbers, announce and refresh-chain authority of a storing node, with
   repeated and late requests; presence epochs and storage routing.
5. `Connect`: relay attempts, LAN race, relay upgrade (`confirmDirectUpgrade`); `Router` modes (a message is
   forwarded a bounded number of times); the socket pool with its linger; suspend, resume and
   destroy of the node.
6. Proofs: `Distribute` without a fold (the grants of one call as a function of the demands), on which the
   credit sums of CircuitCredit could be proved with the lemmas of the ledger; the close listeners of
   ConnectionPool as one simultaneous change, for `LiveAreTracked`.
