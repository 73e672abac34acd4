# Verification of atomic_websocket

TLA+ models of the concurrent core of the Rust crate `atomic_websocket` 0.9.7, TLC
configurations that check them on small instances, and TLAPS proofs for every
value of the constants. Both builds are modelled where they differ in their
control: the one with the bebop codec (default features `native-db`, `bebop`)
and the one for raw bytes. Paths below are relative to the crate's `src/`
directory unless they name a document or a test.

    tlc -config HandlerQueue.cfg MCHandlerQueue.tla      # any run below
    tlapm HandlerQueueProofs.tla                         # any *Proofs module

## 1. The system

A server accepts WebSocket connections and registers each under the peer name
its first message carries; the application sends by peer name and receives
`(bytes, peer)` pairs from one channel. A client keeps one connection to its
server alive: it dials a fixed URL (External) or an address kept in a store or
found by scanning (Internal), pings, and reconnects.

Everything runs as tokio tasks that share locked structures and talk through
bounded channels. Server: an accept loop; per connection a task (handshake,
then the writer loop) and a reader task; an inactivity checker; the
application's tasks. Client: a task per connection attempt, which becomes the
writer of the connection; a reader; the ping loop; delayed ping timers; one task
per closed sender that delivers its disconnect; the application.

| Component | State | Operations | Talks to |
|---|---|---|---|
| Handler queue (`client_sender.rs:220`, `server_sender.rs` twin) | channel, spillover buffer behind a mutex, counters | `send_handle_message`, `get_handle_message_receiver` | called by readers; drained by the application |
| Client registry `ClientSenders` (`client_sender.rs`) | lock-free map peer → (channel, send time), gauge | `add`, `send`, `remove`, `check_client_send_time`, broadcasts | readers, checker, application; the channels of the writers |
| Server connection (`internal_server.rs`, `middleware.rs`) | semaphore, cancel token; per connection the writer, the reader and its place in the middleware chain | accept, handshake, `accept_upgraded`, reader loop, writer loop, `shutdown` | registry, handler queue, middlewares |
| Client connection (`server_sender.rs`, `get_internal_websocket.rs`, `get_outer_websocket.rs`, `internal_client.rs`) | `ServerSender`: `sx`, `server_ip`, `server_received_times`, `is_try_connect`, cancel token | attempts, reader, writer, `send` with retries, ping loop, `get_*_connect`, `disconnect` | store, status channel, handler queue |
| Discovery (`scan_manager.rs`, `traits/connection_state.rs`, `internal_client.rs`) | `is_scanning`; per scan a stop flag, a semaphore, a table of connection states, probe tasks | `scan_and_connect`, the scan branch of `get_internal_connect`, `run_with_timeout`, `scan_network`, `check_connection` | client connection (the guard), status channel |
| Connection store and addresses (`connection_store.rs`, `server_sender.rs`, `internal_client.rs`) | client id, server address and port, across restarts | `get/set/clear_server_*`, `ensure_client_id`, `parse_port`, `to_ws_url` | client connection; the application stores addresses too |
| Wire format (`generated/schema.rs`, `common.rs`) | none; frames in both sockets | records, `make_atomic_message`, `get_data_schema`, makers, what readers and writers do with a frame | readers, writers, handler queue |
| Keep-alive (`get_*_websocket.rs`, `internal_client.rs`, `internal_server.rs`, `client_sender.rs`) | send and receive times, ping timers, backoff | ping exchange, ping loop, inactivity checker | client connection, registry |
| Status channel (`server_sender.rs:286`) | bounded channel | `send_status` | application |
| Backoff of `retry.rs`, builders, errors, types, metrics getters | none | straight-line | |

What is hard here: the registry lets go of a map entry before it awaits the
channel it found there; `add` computes "is this a replacement?" before an await
and uses it after; a reader and a writer of one connection end in either order;
the permit belongs to the writer's task while the reader holds the socket too; a
chain of callbacks can stop half way; several triggers start connection attempts
at once and one flag admits them; a connection's first ping waits for room
before anything reads its channel, with the flag held; a reader outlives its
connection and refreshes a timestamp that belongs to the next one; application
code may disconnect during a dial; a scan's duplicated probes race each other
and the deadline; the network may go while a scan starts; the stored address is
read, awaited and written back, unchecked; the two ends time each other out with
clocks that start at different events. `PROJECT.json` lists each of these
hazards at its line with the properties that cover it, or says why none does.

What makes each component correct: the queue loses nothing uncounted, doubles
nothing and keeps each peer's order (*HandlerQueue*); the gauge agrees with the
map, dead entries leave and no peer's full channel holds up another
(*ClientSenders*); permits are conserved, nothing unvetted is forwarded,
and a connection that all middlewares admitted ends with all of them told
(*ServerConnection*); one attempt at a time, no connection is orphaned, and, but
for the two ways in which the code lets the flag be held, it locks nobody out
and losses are redialed and reported (*ClientConnection*); one scan at a time,
and, unless the network vanishes while it starts, its flag is released and the
search answered (*Discovery*); what is dialed has a scheme, and is a URL when a
proper address was stored, ports heal, a known record is lost in named ways only,
an identity is kept (*ConnectionStore*); the applications hear exactly what was
meant for them (*Wire*); a client that answers stays registered, silence is
noticed and the client comes back (*PingSystem*).

## 2. Modules

| Module | Models | Granularity of a step |
|---|---|---|
| `HandlerFifo` | abstract: one lossy FIFO | one accept, delivery, drop or close |
| `Admission` | abstract: a door with a capacity | one client let in, turned away or leaving; the door closing |
| `FlagGuard` | abstract: a flag with one owner | one acquisition or release |
| `HandlerQueue` | `send_handle_message` under its mutex, the application's receiver | one `try_send`, push, pop or lock operation |
| `ClientSenders` | the map, the gauge, each connection's channel, the tasks that use them | between two points where another task can run: a map operation, the outcome of a channel send, a counter update |
| `ServerConnection` | accept loop to end of a connection | one await or callback of the reader, writer or accept loop |
| `ClientConnection` | attempts, flag, reader, writer, ping loop, sends, connect calls | what happens under one hold of the `ServerSender` lock, or between two awaits |
| `Discovery` | the calls that may start a scan, `is_scanning`, `ScanManager` and its probes, the hand-over to the guard | what happens under one hold of the `ServerSender` lock, or between two points where another thread can run |
| `ConnectionStore` | identity and server address in the database, and every call that uses them | one awaited transaction |
| `Wire` | records, frames and the readers and writers at both ends, byte by byte | one frame read, written or sent |
| `PingSystem` | a client, a server and the network between them, in time | one message, timer or tick |
| `MC*` | the values of the instances, symmetry sets | |
| `*Proofs` | theorems about the module of that name | |

Correspondence, beyond the `map` of `PROJECT.json`:

* **HandlerQueue.** `pc[r]` is a reader's place in the call: `locking`,
  `draining` (the loop over the spillover buffer), `direct` and `buffering` (the
  two ways on). `Recv` runs without the mutex, between any two steps of a call.
  `refused` and `discarded` are histories. A message is `<<reader, number>>`.
* **ClientSenders.** `pc[t]` is where a task is in `add` (`new`, `notify`,
  `insert`, `count`), `send` (`sending`, `stamp`) or `remove` (`remove`,
  `uncount`). Pings are sends by the connection's own reader. Time is
  `BecomeStale`. `disturbed` records that an add's `replacing` was wrong when it
  inserted, or that the gauge was decremented at zero; `GaugeExact` is the exact
  law outside those cases and the run `client_senders_gauge` shows what they
  cost.
* **ServerConnection.** `registered` is the registry seen from the connection;
  `Push`, `Notice` and `Evicted` stand for the tasks that `ClientSenders`
  models. `link` counts through the middleware chain. `upgraded` connections are
  those handed to `accept_upgraded`, which take no permit. `FirstPing` and
  `FirstProxied` are the two ways a first message can name its peer. `build` is
  chosen once: a raw connection registers before its reader starts (`ServeRaw`),
  has no pings, and its writer ends when the socket refuses a message or when
  neither the registry nor the reader holds a sender any more (`SendersGone`).
  `Tls` selects the accept loop; the permit is taken before the TLS handshake.
  `cancelled` is the token that `shutdown` cancels, `accepting` the loop that
  watches it: the `select!` is not biased, so a client that waits may be
  accepted after `shutdown`, until `LoopEnds`. A client whose address cannot be
  told (`PeerUnknown`) is dropped before the permits are asked. `Door` maps it
  to `Admission`: the clients inside are the connections whose task holds a
  permit, and a way of ending is a `Leave` or, for an upgraded connection,
  nothing.
* **ClientConnection.** `task[c]` is an attempt that has claimed
  `is_try_connect`, and then the writer of its connection; attempts that were
  spawned and have not run yet are the counter `spawned`, since they differ in
  nothing. A slot of `Conns` is used again when neither its task, its reader nor
  `sx` refers to it, so a finite set carries unbounded behaviours. `received` is
  the age of `server_received_times`: `fresh` (within two retry periods: what
  `is_valid_server_ip` asks), `quiet`, `dead` (over four: what the ping loop
  asks).
  `build` is chosen once: only the bebop writer ends at a disconnect, the
  raw one sends it to the server and goes on. `channel[c]` holds what is queued for
  a writer, `BufSize` messages at most. `goodbye[c]` is the disconnect that the
  task spawned by `sx_drop` delivers: `waiting` for room, or `sent` by a raw writer
  that survived it; a reader that heard a disconnect puts one in the channel too,
  and waits for room where it must (`telling`). The first ping of a bebop
  connection is the place `greeting` (`sx` is cloned) and then `pinging` (it waits
  for room): neither reader nor writer runs before it is queued. `sending[p]` is the
  connection whose `sx` a sender, or the ping loop with its own ping, has cloned,
  and `Closed` when that one's channel is gone. `lossAnnounced` says that the last
  step sent the status Disconnected. A connect call is `called`, `checked` (the
  flag was clear), and for an internal client `looking` (it has read that there is
  nothing valid and asks the store). `Guard` maps it to `FlagGuard`, the
  owners being the tasks that claimed the flag.
* **Discovery.** `pc[t]` is a caller's place: `asked` (`is_valid_server_ip`),
  `lookup` (the store, bebop only), `claim` and `claimed` (`is_scanning`),
  `scanning`, `release`, `report` and `handover`. Probe tasks of one address are
  interchangeable and counted per stage; an address whose probe still waits for a
  permit has no entry in the table and is spawned again at each tick, which
  `MaxProbes` bounds. When the network vanishes between the two looks at the local
  address, the second one panics: `NetworkVanishes` leaves the caller `panicked`,
  with `is_scanning` set. `holders` are those who believe to own the connection
  attempt, `Other` standing for any attempt that did not come from a scan.
  `ScanGuard` and `Guard` map its two flags to `FlagGuard`.
* **ConnectionStore.** An address is the sequence of its parts between colons,
  which is what `parse_port` and `to_ws_url` look at; `<<"ws", "//a", "80">>` is
  a URL, `<<"a", "">>` an address that ends in a colon and `<<"http", "//a">>`
  one of another scheme. `Inputs` are the ports a caller of
  `get_internal_connect` gives, whatever they are (`ReservePort` writes them as
  they come), and `NoInput` is that none is given, which is not the empty one.
  `Entered` are the records an application stores, well-formed or not,
  `WellFormed` those that are a host with or without a port, or a `ws` or `wss`
  URL. A transaction that fails leaves the record as it was (`Outcomes`), or
  reads as an absence (`Results`), as the callers take it. `Crash` keeps the
  settings only. The raw build keeps the address as plain bytes and removes it
  in one transaction.
* **Wire.** Frames are sequences of bytes. `MinSize`, `ReadBytes` and their
  neighbours follow the generated code per field kind; the codec of the `bebop`
  crate (length prefixes, little-endian numbers) is external. A message of the
  reference definitions is `[category, values, dropped]`, and only those
  definitions look at it: `ForServerApp` and `ForClientApp` are the positions,
  among the messages sent, of those an application should hear; the readers see
  the bytes. Any category may be sent by an application, one of the library's
  with the record that the library gives it (`Protocol`).
* **PingSystem.** Ages count up and timers down, `Tick` waits for whatever is due,
  so a step that is due happens before time goes on; a message takes up to
  `Delay`. `sendAge` is the age of the entry's `send_time`, `Gone` when the server
  has no entry. `pingTimers` are the sleeping tasks that ping one period after a
  pong; those of an earlier connection go on sleeping. `settled` records that the
  ping loop has found the current connection alive.

How they compose: each module embeds its neighbours as the actions through which
they reach it. `ServerConnection` has `Push`, `Notice` and `Evicted` for what
`ClientSenders` models; `ClientSenders` has the reader and the writer as the
actions that push, drain, close and leave; `Discovery` has `Attempt` for what
`ClientConnection` models, and both implement `FlagGuard` on `is_try_connect`,
so that each is to the other what the other assumes; `ClientConnection` reduces
the store to "holds an address", which `ConnectionStore` opens up. `Wire` and
`PingSystem` are the two compositions of client and server: the first in
content, without time, the second in time, without content.

## 3. Runs

Passing runs and what they show:

| Run | Instance | Shows |
|---|---|---|
| `handler_queue` | 2 readers, channel 1, spillover 2, 6 messages | `Conservation`, `PeerOrder`, `ImplementsFifo` (the two buffers are one `HandlerFifo`), and `CallsReturn`, although the application never has to receive |
| `client_senders` | 1 peer, 2 connections, 1 application task | `GaugeExact` under every interleaving; `DeadEntriesLeave` and `OperationsReturn`, although no writer has to drain |
| `server_connection` | 2 connections over TLS, 1 permit, 2 middlewares, both builds, proxied first pings, shutdown at any time | `ImplementsAdmission` (the semaphore and the accept loops are the door of `Admission`, which closes when the loop ends), `VettedBeforeForwarded`, `EndIsTold` |
| `server_connection_live` | 1 plain connection, 1 permit, 2 middlewares, channel 2, pings and proxied pings, both builds | `ReaderEndFreesSlot` |
| `client_connection` | Internal, 2 slots, 1 sender, 2 spawned, pings, both builds, channel 2 | `ImplementsGuard` (`is_try_connect` is a `FlagGuard` of the attempts), `NoOrphan` |
| `client_connection_external` | External, 2 slots, the ping loop as the only sender, 1 spawned, pings, both builds, channel 1 | `FlagReleased`, `LossIsRedialed`, `LossIsReported`, `SilenceIsRedialed` |
| `discovery` | 2 callers, 1 address, 2 permits, 3 probes per address, both builds, a network that may vanish | `WithinConcurrency`, `ImplementsScanGuard` and `ImplementsGuard` (both flags are `FlagGuard`s), `ScanReleased`, `SearchIsAnswered` |
| `connection_store` | 1 client, 2 tasks, 1 host, 1 port, failing writes, malformed addresses and inputs, records of older builds, both encodings | `Dialable`, `PortsHeal`, `RecordKept`, `IdentityKept` |
| `wire` | up to 3 messages up and 2 down, every record, 4 settings of the ping options | `AppsHear`, `CutIsNoticed`, `PongForPing` |
| `ping_system` | retry period 2, timeouts 3 and 4, check interval 3, delay 1, 2 faults | `PingingClientStays`, `SilenceIsNoticed`, `ComesBack` |

Runs that end in a violation, each of a statement the repository makes (the
`findings` of `PROJECT.json` quote it):

| Run | What the code does |
|---|---|
| `client_senders_gauge` | an add that is overtaken during its await leaves the gauge of active connections wrong for good |
| `server_connection_shutdown` | `shutdown` leaves an idle connection open for ever |

Met while modelling, reachable in the models, and kept as hazards or notes
without a run of their own:

* of two adds of one new peer the later displaces the earlier without a
  disconnect (`client_sender.rs:109`);
* after `shutdown` the accept loop may still admit a client that is waiting, since
  its `select!` is not biased (`internal_server.rs:310`);
* when the writer ends first, its permit is free while the reader still holds the
  socket, so the sockets can outnumber `max_connections` (`internal_server.rs:91`);
* a middleware that admitted a connection which a later one refused never hears
  of its end (`middleware.rs:69`), and the refused connection's registry entry
  outlives it; in the raw build the refused connection even stays open and is
  sent what is broadcast (`internal_server.rs:616`);
* a proxied first message reaches the application before any middleware was asked
  (`internal_server.rs:783`), and it is the only ping that is ever proxied,
  although `builder.rs:182` speaks of pings in general;
* a message refused by a closed handler channel is not counted in
  `messages_dropped` (`metrics.rs:18`);
* a failed redial of an internal client clears the stored address, `use_keep_ip`
  or not, and nothing dials again (`get_internal_websocket.rs:175`), although
  `README.md:400` says that the client "will automatically attempt to reconnect":
  `LossIsRedialed` is a property of the external client; `clear_server_ip` clears
  whatever is stored by then, not the address it was called for
  (`server_sender.rs:397`);
* the first ping of a new connection waits for room in its channel before anything
  reads it, without a timeout and with `is_try_connect` held: when other sends have
  filled the channel by then, no attempt is made again, although
  `get_internal_websocket.rs:47` speaks of "preventing permanent connection
  lockout" (`get_internal_websocket.rs:221`; `FirstPingStuck`);
* a raw connection survives the disconnect that `remove_ip` and `add` send it, and
  keeps the flag for as long as the server keeps it open
  (`get_internal_websocket.rs:369`; `KeptOpen`);
* `ScanManager::with_concurrency` panics when the network went after the caller
  looked, and leaves `is_scanning` set (`scan_manager.rs:81`; `Panicked`);
* `get_internal_connect` stores the port it is given as it is
  (`internal_client.rs:665`), over an address that was stored since it looked;
* an address like `10.0.0.5:` becomes `ws://10.0.0.5::16250`, `host:abc` becomes
  `ws://host:abc`, and another scheme is dialed as it stands
  (`server_sender.rs:65`);
* with `use_keep_ip` an open but silent connection keeps the flag, and every
  reconnection is turned away;
* for two retry periods after a loss the connect calls answer `Connected`
  (`internal_client.rs:601`), and a dial in flight at `disconnect` becomes a
  connection afterwards (`internal_client.rs:170`).

**Bounds.** `MaxMessages` ends a finite run of `HandlerQueue`; six messages fill
both buffers twice. Two readers are what order and the mutex need. Two
connections of one peer are what a replacement needs. Channels hold one message,
which makes both full and empty happen at once. Two connections and one permit
give contention; two middlewares a chain that can stop half way. Where a run has
one connection, its question is about that connection alone, and the others are
in what `Push`, `Notice` and `Evicted` may do to it. In `ClientConnection`, two
slots hold the current connection and an old one whose reader is still at work,
and `MaxSpawned` caps attempts that wait to run; the application does not
connect again after `disconnect` (named in `AppConnects`), and the ping loop
starts no second connect call while its last one has not returned
(`Reconnects`). A channel of one or two messages is soon full, which is what a
stuck first ping and a waiting disconnect need. In `Discovery`, `MaxProbes` caps
the probes of one address, which the code respawns at each tick: three probes
and two permits let one be connected, one be probing and one wait. In `Wire`,
`MaxUp` and `MaxDown` are the messages of a connection: a first one, one that is
forwarded and one that ends it. In `PingSystem`, `MaxFaults` caps the failures
of network and server (silence, then the end of the stream that follows it), and
`MaxQueue` the messages on their way before the server's application sends
another; of the two timeouts one just fits `Retry + 2 * Delay` and one is too
short for it. Its time is in whole ticks and elapsed times are exact. The code
compares timestamps that are truncated to whole seconds: a difference of those
never exceeds a bound in whole seconds that the exact time respects, so
`PingingClientStays` carries over as it is, but it can fall short by less than a
second, which `SilenceIsNoticed` then takes longer. `ConnectionStore` is finite
by itself: one host, one port and a part or two that are neither make every
shape of address, in `MCEntered` and `MCInitial` one each. `CHECK_DEADLOCK
FALSE` is given where the system may stop: messages or connections run out, the
client disconnects, nobody searches. `ConnectionStore` and `PingSystem` may not
stop, and are checked for it.

**Fairness.** Every task that tokio can run runs: weak fairness on the steps of
readers, writers, attempts and calls, never on the application (`Recv`,
`AppConnects`, its connect calls, `Disconnect`), on a peer that sends or closes,
or on failures. In `ServerConnection` the step `Leave`, in which a reader that
is done puts a disconnect in its own channel, has strong fairness: the channel's
room comes and goes as others push, and tokio's channel semaphore is a FIFO
queue, so a waiting sender is served in turn. In `ClientConnection` the dial
ends because of `connect_timeout_seconds`, time passes (`Age`), and the stream
of a connection whose writer is gone ends in the end, for the server was told or
the system times out; an open connection that the server keeps silent owes
nothing, which is what `SilenceIsRedialed` is about. Strong fairness is given to
what waits for room in a channel (`DisconnectStep`, `SendStep` of the ping
loop), which tokio hands out in order of arrival, and to the connect call and
the failed send of the ping loop, because the bound `MaxSpawned`, and nothing in
the code, can disable them again and again. Writes to a socket are assumed to be
accepted or refused in the end; a peer that keeps its window closed for ever is
outside the assumption. In `Discovery` the callers' steps, the probes of each
address taken together and the deadline of the scan are weakly fair: probes and
scans end by their timeouts. That a probe finds a server is assumed nowhere;
`SearchIsAnswered` holds when none is there. `ScanReleased` and
`SearchIsAnswered` except a search that panicked. In `ServerConnection` a
cancelled accept loop ends (`LoopEnds`), for a `select!` that chooses at random
takes the token in the end. In `PingSystem` time passes and what is due happens;
a dial ends, and strong fairness says that a server that is dialed for ever
answers once, without which nobody could come back. `ConnectionStore` and `Wire`
state no fairness, for their properties are invariants and action properties.

## 4. Proofs

All theorems hold for every value of the constants under the named assumptions
of each module (capacities are positive, sentinels differ from the names, sets
whose size is taken are finite).

* **HandlerQueueProofs.** `TypeCorrect`, `OrderKept` (`PeerOrder`),
  `AllAccountedFor` (`Conservation`) and `Refinement` (`ImplementsFifo`).
  `PeerOrder` is not inductive: a message that a reader still carries must be
  newer than everything of that reader in the pipeline (`Behind`), and the numbers
  in a call must be positive (`SentInv`); who holds the mutex must be the one in
  the middle of the call (`MutexInv`). `Conservation` needs only the types and
  that finitely many readers are in a call (`Accounts`): each step moves one
  message between `Calling` and `Elsewhere`, or within one of them. In the
  refinement only the direct `try_send`, the push and the drop are steps of the
  FIFO; the drain moves a message between the buffers, which leaves
  `channel \o spillover` as it is.
* **ClientSendersProofs.** `TypeCorrect`, and `GaugeCorrect` (`GaugeExact`), over
  `LocalsInv`: a task inside an operation has a peer and, where it waits for a
  channel, a target. Each step moves at most one element between the three sets
  whose sizes the law adds up.
* **ServerConnectionProofs.** `TypeCorrect`, `PermitsConserved` (`PermitsAddUp`),
  `AdmissionImplemented` (`ImplementsAdmission`), `EndTold` (`EndIsTold`) and
  `Vetted` (`VettedBeforeForwarded`), for both builds, both accept loops, all ping
  options and a chain of any length. Permits need `UpgradedServed`: a connection
  that was handed over never waits for a permit. With it, a step changes the set
  of holders by one member and `slots` by one, or neither; `PermitsAddUp` then
  turns the test `slots > 0` of the accept loops into the door's test of how many
  are inside; the door is open as long as the loop runs, not until `shutdown` is
  called. `EndIsTold` says that nobody is told who has not admitted the connection,
  and that all are when all have; of a chain that one of them broke off it claims
  nothing. `EndTold` and `Vetted` need `ChainInv`, which says how far along the
  chain a reader must be at each of its places, and `Vetted` also that a first
  message is only waited for in the bebop build (`FirstIsNamed`).
* **ClientConnectionProofs.** `TypeCorrect`, `OneAttempt` (`SingleFlight`, which
  is inductive: the flag changes only where `Claimed` does), `GuardImplemented`
  (`ImplementsGuard`: with `SingleFlight`, who ends was the only owner) and
  `NoneOrphaned` (`NoOrphan`), which needs `SenderHasIp`: `remove_ip` does nothing
  when `server_ip` is empty, so a sender without an address could never be closed. A
  disconnect that was asked for is on its way in `goodbye`, queued in the channel
  (and stays there until the writer takes it) or sent by a raw writer.
* **DiscoveryProofs.** `TypeCorrect`; `OneScan` (`SingleScan`: the flag and the
  set of searching callers change together) and `ScanGuardImplemented`;
  `NoSecondOwner` (`OneOwner`: a stream is handed over only by a caller that
  claims the free flag first) and `GuardImplemented`; and `ProbesWithinLimit`
  (`WithinConcurrency`). Probes of one address are a count, so the sum over the
  addresses is the size of a set of numbered pairs, `InUse`: an admission adds
  one pair, a probe that ends takes one away, and the end of the scan takes all.
* **ConnectionStoreProofs.** `TypeCorrect`, `DialsUrls` (`Dialable`),
  `PortsAreHealed` (`PortsHeal`) and `KnownRecordsAreKept` (`RecordKept`), for
  any hosts, ports, inputs and clients, any records an application enters or an
  older build left, malformed ones included, and whatever transactions fail.
  `Dialable` says that what is dialed always has a scheme, and is a URL when the
  address that was read was well-formed. It is not inductive: `Dialing` adds
  that `server_ip` is empty or has a scheme and that a task on its way to dial
  carries such an address, which rests on `ToWsUrlHasScheme` and
  `ToWsUrlMakesUrl`, and `Read` ties what a task carries to what it has read.
  `PortsHeal` says that the library stores a port that is none only where it
  reserves the one its caller came with, and `RecordKept` that a known port goes
  only with a connection whose URL has none, a clearing that had read the record
  before, or a reservation of what is no port by a call that had looked before
  there was a record, and a known address only with a clearing or such a
  reservation. What the application itself writes is its own affair.
  `IdentityIsKept` (`IdentityKept`) is for one client over a database whose
  reads do not fail. Both conditions are needed: of two clients on one database
  that start at once the later write wins, and a read that fails passes for an
  absence.
* **WireProofs.** The codec first: `RecordRoundTrip` (what is serialized is
  deserialized unchanged, whatever follows it), `CutRecordIsNoticed` (a record that
  lost bytes is an error which asks for at least one and at most all of them),
  `FrameRoundTrip` (category and payload survive `make_atomic_message` and
  `get_data_schema`) and `OnlyDisconnectStopsAWriter`. They hold for every value
  of every field: each kind of field is read back, and a cut one noticed
  (`FieldRead`, `FieldCut`), little-endian numbers by the arithmetic of quotient
  and remainder; a record of the schema has one field or two, so the folds over
  its fields are unfolded (`WriteAll`, `ReadAll`) and no induction is called for.
  Then the system, for any messages and options, in whatever order the
  frames are read: `TypeCorrect`, `ApplicationsHear` (`AppsHear`), `LossIsNoticed`
  (`CutIsNoticed`) and `PongsAnswerPings` (`PongForPing`), over `IInv`. `InFlight`
  says that the frames on the wire are those of the last messages sent; `Track`
  that what was queued for and taken by an application are, in order, the messages
  at the positions it should hear; `Answered` that the pongs are as many as the
  pings read, less what a stopped writer dropped.
* **PingSystemProofs.** `TypeCorrect`, `ClientStays` (`PingingClientStays`) and
  `GivesUpInTime` (`SilenceIsNoticed`), over `IInv`. `Exchange` says that in a
  working connection a ping, a pong or a timer of the connection is always
  pending, and bounds the age of the entry by how far the exchange has come, so
  that it is at most `Retry + 2 * Delay` when the next pong refreshes it.
  `Watch` bounds `received + wakeIn` by `5 * Retry` once the loop has seen the
  connection alive, for its period is `Retry` from then on.

With these, every invariant, action property and refinement that a passing run
checks is a theorem, `IdentityKept` under the two conditions that its run
meets as well. Only model-checked are the liveness properties, all of them
(`CallsReturn`, `DeadEntriesLeave`, `OperationsReturn`, `ReaderEndFreesSlot`,
`FlagReleased`, `LossIsRedialed`, `LossIsReported`, `SilenceIsRedialed`,
`ScanReleased`, `SearchIsAnswered`, `ComesBack`): they rest on fairness, and so on
`ENABLED`, which the prover does not treat. No module that is proved about declares
a recursive operator.

## 5. What is not modelled

* **Status channel** (`server_sender.rs:286`): statuses are outputs of the steps;
  that the newest is dropped when the channel is full is not in a model.
* **Retry backoff** (`retry.rs`): a send fails in the end or not; how long that
  takes is no time in `PingSystem`.
* **Builders and options, types and errors, metrics getters**: straight-line
  code. TLS set-up and the WebSocket library are outside the crate; a handshake
  or a dial succeeds or fails.
* **Broadcasts**: which peers a broadcast picks is left open in `ClientSenders`:
  it is a caller of `send` for any of them.
* **Discovery**: probes that outlive their scan touch nothing that is read again
  and leave the model with it; ticks and deadlines may come at any time; a client
  that is dropped in the middle of a scan is left out.
* **Connection store**: trailing slashes of addresses, and a colon inside the port
  a caller gives; `IdentityKept` is checked
  without failing reads, which `Faults` can add.
* **Wire**: owned records are modelled as their borrowed twins; the bytes of
  numbers, strings and arrays come from the `bebop` crate, which is external; an
  application that sends one of the library's categories gives it the library's
  record (its own pong and an exempt ping are in the instance).
* **PingSystem**: an external client without `use_keep_ip`; the sends of the
  client's own application, which only postpone what the pings do.

## 6. Reading a module

Definitions named after a function of the crate model that function or one
stretch of it between awaits. A definition whose comment starts with "Mutant" is
a plausible wrong version of the one next to it; no specification uses it, and
`PROJECT.json` names the property that each one breaks. Properties follow
`TypeOK` at the end of each module, each with the behaviour it is about.

## 7. Plan

What is left, in this order:

1. A refinement of `ConnectionStore`: an abstract register outside of the clearing
   that overtakes a write.
2. The status channel: what the application knows of the connection when statuses
   are dropped or those of old sends come late.
3. Larger instances: three connections of one peer in `ClientSenders`, two
   addresses in `Discovery`, two senders in the internal and one in the external
   run of `ClientConnection`.
