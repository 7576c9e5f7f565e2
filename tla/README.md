# A TLA+ model of the naive server

The server is a NaiveProxy agent: it accepts HTTP/2 (pingora) or HTTP/3
(tokio-quiche) CONNECT requests, authenticates them against a user list that a
panel keeps changing, and relays bytes between the client and the requested
origin. This directory holds a model of it in TLA+, the configurations that
model-check it with TLC, and proofs that TLAPS checks. Paths below are relative
to the repository root; line numbers of every definition are in `PROJECT.json`.

## 1. The system

| Part | State | Operations | What makes it hard |
|---|---|---|---|
| Connection registry, `src/core/connection.rs` | two sharded maps (`connections`, `user_connections`), an id counter, one cancel token per connection | `register`, `unregister`, `kick_user`, `cancel_all`, `connection_count` | every call touches several shards, none is atomic; guards are held across loops |
| CONNECT handlers and tunnels, `src/handler.rs` | one task per stream | validate, authenticate, route, answer 200, register, connect, relay or UoT, tear down, drop the guard | awaits between the credential check and the registration; cancellation races with the relay |
| User sync, `src/main.rs` | user list (in the panel crate), pending kicks | `on_user_diff`: kick removed, then changed users | kicks run beside requests in every stage |
| Relay, `src/core/relay.rs` | two buffers, idle timer, byte counts | `poll_copy` in both directions | short and pending reads and writes, read-ahead, half-close, timer against progress |
| Padding, `src/transport/padding.rs` | frame counters, partial header, undelivered frame | `poll_read`, `poll_write`, `poll_flush`, `poll_shutdown` | frames cut anywhere; two ends that count frames separately |
| Process lifecycle, `src/main.rs`, `src/pingora_runner.rs` | cancel token, position of `main`, the panel's view of the node | start-up step by step, signal, select, sweep, drain, unregister, stop | start-up fails half-way with the node registered; tunnels keep opening while `main` drains |
| UDP over TCP, `src/uot.rs` | two loops and an inner token | read request, two datagram loops, shutdown | a loop blocked in a write does not see the token |
| H2 bridge, `src/transport/pingora_session.rs` | `up_eof`, `down_eof`, a duplex pair | one `select!` loop | each direction is written inline, so one can stall the other |
| H3 adapters and accept loop, `src/transport/quiche_stream.rs`, `src/quiche_runner.rs` | frame channels, a semaphore | read, write, shutdown, accept | end of file by FIN or by a dropped sender, a limit that blocks the accept loop |
| Routing, `src/acl.rs`, `src/core/*.rs` | outbounds and rules, DNS cache | build outbounds, `route`, resolve, connect | a verdict on resolved addresses used by a later connect; options that only one of two connect paths applies |
| Configuration, `src/config.rs`, `src/config_auto.rs` | none | parse, validate, derive | rounding and limits; files checked long before they are read |
| Datagram sockets, `patches/datagram-socket` | readiness flag, batch position; a buffer with headroom | `poll_send_many`, `poll_recv_many`, `DgramBuffer`'s operations | chunks that end short, wake-ups between the empty answer and the waker |

How they interact: a handler authenticates against the user list, asks the
router, answers, and registers a connection, which gives it a cancel token. The
token ends the relay (or the UoT loops). The sync callback and the shutdown of
`main` reach a tunnel only through the registry. The relay runs over the padding
transport, which runs over the H2 bridge or the H3 adapters.

## 2. Modules

| Module | Models | Checked by |
|---|---|---|
| `ConnectionManager` | the registry, with its most general client | `registry` |
| `KickContract` | abstract: what kicks and the sweep promise, with atomic calls | refined by `ConnectionManager` |
| `ConnectionManagerProofs` | the inductive invariant of the registry, what follows from it, and the refinement of `KickContract` | TLAPS |
| `Tunnel` | request streams and the user sync, over `ConnectionManager` | `tunnels`, `revoked_between` |
| `TunnelProofs` | the inductive invariant of `Tunnel` and the theorems about the tunnels | TLAPS |
| `AutoTune` | operators: how `max_connections` is derived | used by `Startup` |
| `Startup` | command line, validation, panel calls, router, limit, server object | `process` |
| `Lifecycle` | signals, the server future, the end of the process, over `ConnectionManager` and `Startup` | `process` |
| `Accept` | the HTTP/3 accept loop that applies the limit | `process` |
| `Process` | the composition of `Startup`, `Lifecycle` and `Accept` | `process`, `cleanup_order` |
| `ProcessProofs` | proofs about `Process` | TLAPS |
| `Relay` | `copy_bidirectional_with_stats` | `relay`, `idle_window` |
| `Padding` | one direction of `NaivePaddedTransport` | `padding` |
| `ByteStream` | abstract: a reliable byte stream that may break | refined by `Padding` and, twice, by `H3Stream` |
| `PaddingProofs` | proofs about `Padding`, the refinement included | TLAPS |
| `AclConfig` | operators: from an ACL file to outbounds and rules | used by `Outbound` |
| `Outbound` | routers and connect paths | `outbound` |
| `OutboundProofs` | proofs about `AclConfig` and `Outbound` | TLAPS |
| `Uot` | `handle_uot_stream` | `uot` |
| `UotProofs` | proofs about `Uot` | TLAPS |
| `SessionBridge` | `run_session_bridge` between the client and the tunnel task | `transports` |
| `H3Stream` | `H3StreamReader`, `H3StreamWriter` | `transports` |
| `StreamProofs` | proofs about `Relay`, and that `H3Stream` refines `ByteStream` in both directions | TLAPS |
| `Datagram` | batched sends and receives with tokio's readiness | `datagrams` |
| `DgramBuffer` | the buffer with headroom | `datagrams` |
| `TransportProofs` | proofs about `SessionBridge`, `Datagram` and `DgramBuffer` | TLAPS |
| `MC*` | constants and state bounds for TLC | |

Definitions named `...Leaks`, `...Early`, `...Overwrites` and the like, marked
"Faulty variant", are what the operation after them would be with a plausible
mistake in it. No specification uses them; replacing the operation by its
variant makes the property named with it in `PROJECT.json` fail.

### ConnectionManager

State: `next_conn_id`, the two maps as functions on their current keys, the set
`cancelled` of ids whose token is cancelled, and for every id the position
(`phase`) of the call that handles it. `UserShard` and `ConnShard` say which
DashMap shard a key lives in, and are arbitrary. A step is what happens between
two lock acquisitions: `RegisterAllocate` (the `fetch_add`), `RegisterInsert`
(first map), `RegisterIndex` (second map), `UnregisterRemove`,
`UnregisterIndex` (the `remove_if_mut`), `KickBegin` (the `get`, whose guard
lives until the end of the loop), `KickVisit` (one id), `KickEnd`, and for
`cancel_all` one step per shard and per entry. `UserMapLocked` and
`ConnMapLocked` make writers wait for the guards. `passed`, `atSweep` and
`kickedUsers` are history.

### Tunnel

A stream goes through the positions of its task: one step per await. The checks
before the credential run without an await and are one step with their verdict
(`RequestRejected`, with the status the handler answers, 0 when it only
returns). The H2 and H3 handlers do the same things in the same order and
share the model; the map names lines of both. `status` is the answer the handler
sends or tries to send. `Register` and `Drop` are the registry's own steps, so
kicks interleave inside them. `DiffApply` replaces the user list (the panel
crate is external: any new list may come, one diff at a time); `KickNext` and
`KickStep` are the callback's loops. A UoT stream binds its socket (`UotBind`,
which may fail) before it relays, in v2 after its request. `staleOpen` remembers the tunnels that were
open under a credential which the diff revoked.

### Relay

Each call of a reader, a writer or the timer is a step and may answer
whatever its contract allows, so short writes, pending calls, end of file and errors
occur everywhere. A byte is its position in what the reader delivers; this is
enough to see loss, repetition and reordering. Time passes (`Tick`) only while
the future is parked. `IdleWindow` is the window as configured, in ticks, and
`IdleTimeout` what `idle_timeout_secs` makes of it. The two grace periods that
`copy_bidirectional_with_stats` takes and discards are left out.

### Padding

A byte on the wire has a value (to be parsed when it is taken for a header) and,
if it is payload, its position. `Radix` stands for 256, so the length field and
its limit `MAX_PADDED_PAYLOAD` scale with it, and writes above the limit happen in a
small model. The inner stream takes and gives any part of what it is
asked.

### Startup, Lifecycle, Accept and Process

`Startup` has the position of `main` (one step per call that can fail or
await), the reason of its end (`why`), the panel's view of the node, and the file that is
missing or unreadable, which may change at any moment (`FileChanges`). Building the
router reads the rules file and compiles it; `AclEngineNew` may also fail with the file
intact, because the geo data is loaded or downloaded there.
`parse_args` and `validate` are operators named after the functions; a number on
the command line is its form (humantime, integer, word) and its value, so
the parsers are modelled by what they accept. `AutoTune` has the arithmetic of `compute_auto` and
`resolve`; `MaxU64` is where products saturate, and the literals are constants so
that small machines meet every cap.

`Lifecycle` goes on from there: the signal task, which installs its handlers
after the `select!` may have begun, the server future, and the steps of `main` after it,
beside `Tasks` (any request task may register or unregister at any
moment) and `UserSync`. `connection_count` is one step per shard.
`BackendStarts` reads certificate and key, and for HTTP/3 binds the port;
`BackendGrace` and `BackendReturns` are pingora's shutdown. A signal without a
handler ends the process (`KilledEarly`, `KilledLate`), and so does a panic in a release build, whose
profile says `panic = "abort"` (`Aborted`); in other builds the signal task's panic
is what `main` finds when it awaits the task.

`Accept` has the accept loop, the permits, and per connection its state and open
requests. `Process` puts the three together: the loop begins when the backend has
its socket, and ends when the listener does or when `select!` drops the server future.
Its connections and the registry's tunnels are not tied to each other.

### AclConfig and Outbound

`AclConfig` is pure: `from_entry` with its error cases (what parsing an option or
binding a test socket comes to is "ok" or "bad"), `custom_dial`, the insertion of entries and of the two
fallback outbounds, and the first match. A rule matches the target or does not; the
compiler of rules is a library.

`Outbound` is one request from its target to a connection, under any of a set of
files. `Route` is the await on the router;
`check_private_and_resolve`, `direct_decision`, `AclRoute` and `DirectRoute` are
operators named after the functions they translate. The set of addresses that
answer (`live`) is arbitrary. `dns` is what a resolution answers now;
`DnsChanges` may replace it between routing and connecting. `TryNext` is one attempt of
`connect_ip_list`; an outbound that dials itself is external and may try
the addresses it is given, or, given none, whatever it resolves. `applied` is what
the connection was made with. `UotSends` is a packet of a UoT stream: its destination is
resolved and used without the router, and `datagrams` has the addresses.

### Uot

The call of `handle_uot_stream`: the request (not under a token), then the two
loops, each with its position. A packet for the client is the sequence of the writes
`write_uot_packet` makes, because each becomes a frame of the padded
transport, which may accept a write and keep it (`held`) until it is called again. The
tokens are looked at where `select!` does: anywhere in the input loop, only
between packets in the output loop.

### SessionBridge

`at` is the position in the loop: polling the upload, then (biased) the
download, or inside the branch that was ready. Inside a branch the other is not polled,
which is the point of the module. The client and the tunnel task are
free. Two conditions name what the code depends on: `TunnelTakes` (again and again there
is room in the duplex, or the tunnel is gone) and `ClientPauses` (from some time on the client sends
no more).

### H3Stream

The channels are bounded queues of frames; the QUIC driver on their other ends
is external. `rbuf` and `rfin` are the reader's `buf` and `fin`. Both directions are shown to be a `ByteStream`, which says that only a
break can lose bytes and that the end of file comes after the last one.

### Datagram and DgramBuffer

`Datagram` is one direction of a socket used by one task. A step is a system call,
a look at tokio's readiness flag, or a step of the kernel or of tokio's driver
(both external). `impl` chooses between `recvmmsg`/`sendmmsg` in chunks,
the trait's loops, and the pool variant; `tries` is `try_send_many`. `used` is the
set of buffers the kernel touched. `DgramBuffer` has the vector and the cursor, and its operations under their names.

## 3. Runs

| Run | Shows |
|---|---|
| `registry` | `IndexAgrees`: the maps agree outside calls and keep no empty entry. `KickReaches`: a kick misses no registered connection. `SweepReaches`: nor does `cancel_all`. `NoCollateral`: nobody else is cancelled. `ContractSpec`: the registry implements `KickContract`. |
| `tunnels` | `RegistryTracksTunnels`: open tunnels are exactly the registered ones, on every way out. `StaleKicked`: a diff reaches every tunnel open under the old list. `UsageAccounted`: traffic is not recorded twice and only a kicked relay loses its counts. `KickEnds`: a kicked TCP tunnel finishes. `RegisterReturns`: a register waits for a kick, never for ever. |
| `relay` | `StreamIntact`: nothing lost, repeated or cut by the half-close. `StatsExact`: the counts are what was moved. `IdleMeansSilent`, `SilentRelayEnds`: the idle timer cuts silence, and only silence. |
| `padding` | `InStep` and `ByteStreamSpec`: framing is invisible. `AllDecoded`: nothing accepted gets stuck. |
| `process` | `ArgumentsFailFirst`: what the command line gets wrong is found before the panel hears of the node; the router fails after that only if a `.yaml` or `.yml` rules file is configured. `NodeLeftUnasked`: the only ways to leave the node registered without asking. `PermitsConserved`: the limit holds and does not shrink. `FilesSuffice`: a derived limit leaves the reserve of open files. `AcceptGoesOn`: errors and the limit do not end the loop. `DrainedMeansGone`: leaving the drain loop early means that everything swept is gone. `ShutdownEnds`: the process ends. |
| `outbound` | `OnlyCheckedAddresses`: what is connected to was checked, though DNS changes; datagrams, which are not checked, are sent on UoT streams only. `LiveAddressReached`: failing means every address was tried. `OptionsHonoured`: whichever path connects, the connection has the options of the entry that was chosen, and the lesser of its timeout and the server's. `ConnectEnds`: connecting comes to an end, so a kicked tunnel gets to its token. |
| `uot` | `DownloadExact`: packets in order, without a gap, counted when accepted whole. `FinEndsPacket`: a FIN follows a whole packet, and nothing stays behind in the padding. `OneStopsBoth`: one loop's end, or a kick, ends the call, if the client reads or leaves. |
| `transports` | `BridgeFaithful`: both directions in order, their ends after the last byte. `DownloadFlows`: the tunnel's bytes reach the client, provided the tunnel goes on taking uploads (or goes) and the client pauses at last. `BridgeEnds`: it returns when both sides ended. `UploadIsStream`, `DownloadIsStream`: the H3 adapters are byte streams. |
| `datagrams` | `ResultExact`: the count is exactly the datagrams moved. `CallReturns`: no wake-up is lost. `PayloadKept`: the buffer's operations change the readable bytes only as they say. |

Three runs show a disagreement between a text of the repository and the code:

* `revoked_between`: README line 11 promises "connection kick on user
  removal/change". A request that authenticated before the diff and registers
  after the callback is not kicked, and relays for a user who is gone. What does
  hold is `StaleKicked`, which speaks of tunnels already open.
* `idle_window`: the idle timeout "fires only when BOTH relay directions have
  gone silent for the full window" (`src/config.rs:136`). The relay gets whole
  seconds, so `1500ms` cuts after one. What does hold is `IdleMeansSilent`, which speaks
  of the seconds the relay was given.
* `cleanup_order`: the comment of `run_h2_server_pingora` has `main` clean up after
  pingora returned. The `select!` in `main` is on the same token, so the node is
  unregistered while pingora is serving or draining. (The tokio runtime then waits for
  pingora's blocking thread before the process is gone; `exited` is the end of
  `main`.)

Reading the code for the models showed others, which no run is spent on. The
models follow the code:

* `uplink_only_timeout` and `downlink_only_timeout` are documented options
  (`src/config.rs:179`); `copy_bidirectional_with_stats` ignores both, as the
  module comment of `relay.rs` itself says.
* README line 44 gives `--conn_idle_timeout` a default of `5m`; it is `60s`.
* The comment of `handle_uot_stream` has the output half always reach `shutdown()`,
  cancelled or not; with a client that stops reading it stays inside a packet, where
  the token is not looked at. `OneStopsBoth` therefore needs a client that reads or
  leaves.
* A comment in `process_h2` has the bridge exit once the tunnel is gone; the loop
  also waits for the client's next chunk or end. `BridgeEnds` therefore asks for both.
* The module comment of `uot.rs` has a CONNECT to a magic address carry UDP; the name
  is routed first, and under `block_private_ip` one that does not resolve is
  rejected.
* `--max_connections` is documented for the server; only HTTP/3 has the semaphore.
* A comment in `acl.rs` says that the bare connect path "always forces TCP_NODELAY
  on"; it does so unless `--tcp_nodelay` is false. `OptionsHonoured` takes the
  server's option into account.
* `block_private_ip` is documented as blocking private destinations (README line 40,
  `src/config.rs:113`). It is applied by the router, to the target of the CONNECT. The
  destinations inside a UoT stream are resolved by `resolve_host` and do not pass the
  router, so `OnlyCheckedAddresses` claims the check for connections only.
* `connectTimeout` of an outbound is documented as the "Connect timeout in seconds for this
  outbound" (`src/acl.rs:118`); `handle_direct_connect` puts the server's
  `--tcp_connect_timeout` around the dialer, so a larger value has no effect.
  `OptionsHonoured` says the lesser of the two.
* `run_h2_server_pingora` turns a panic of pingora's thread into an error; with
  `panic = "abort"` the release build never gets there.
* `DgramBuffer::truncate` "has no effect" for large counts; near `usize::MAX` the sum
  with the cursor wraps in a release build.

### Bounds

* `registry`: two users, one kicker, three ids, two shards. Three ids let one
  user hold two connections while another registers; two shards let a sweep and
  a registration be on either side of each other; the users are in
  different shards.
* `tunnels`: two streams of one user with two uuid values (so a diff removes,
  changes or keeps the user, and a stream may come with the old or the new
  credential), one diff, one byte per tunnel, TCP and UoT v2, one shard. Symmetry is not used,
  since liveness is checked. That kicks spare other users is shown by `registry`, and for any number by the proofs.
* `relay`: buffers of 2, up to 3 bytes each way (so a buffer is refilled and also
  appended to), a window of 3 ticks of which 2 are a second.
* `padding`: three framed writes out of which payloads of 6 bytes overflow into raw
  mode, radix 2 (lengths up to 3, writes up to 4).
* `process`: command lines with one option off its default, each file missing or
  unreadable from the start or from any later moment, machines where each cap is the
  least one, a cap is zero or a product saturates. Behind pingora two ids in two shards
  and one user; in front of the accept loop three connections with one request
  each. Tunnels and clients come only to a server that was started with intact
  files and has its handlers (`Bounded` in `MCProcess`): the failures of start-up
  do not depend on them.
* `outbound`: two IPv4 addresses, one of them private, one IPv6 address, answers of up to
  two addresses; so a name has both families, a private address in either
  place, or none. Files go through the kinds of outbound, or through the options of a
  direct one, one or two off their defaults, named by a rule, used as the fallback, or
  replacing an earlier entry. The first kind meets all addresses and answers, the
  second one live name.
* `uot`: three datagrams over 7 framed writes (the padding ends inside a packet,
  addressed or not), two packets sent.
* `transports`: the bridge with 5 bytes each way over a duplex of 3 and a read buffer of
  2, so the duplex fills and a read takes a part of it; the adapters with 3 bytes each way in
  frames of up to 2, channels of 2 frames, one frame without a byte (an empty
  body, a datagram or a second FIN) per direction. A behaviour is of one or the other.
  `Renumber` in `MCTransports` forgets the bytes the tunnel has read, so uploads are endless
  although at most 5 bytes are on their way. Without `TunnelTakes` TLC gives a behaviour that stays in a
  blocked upload, without `ClientPauses` one in which the biased `select!` never comes to the
  download: the two premises of `DownloadFlows` are needed.
* `datagrams`: batches of up to 5 in chunks of 2 (two full chunks and a short one), a
  kernel queue of 3; buffers of up to 5 bytes (`MaxLen`) with prefixes and suffixes of up to 2 (`MaxWrite`).

Ids, diffs and bytes are bounded by guards (`MaxConns`, `MaxDiffs`, `MaxBytes`);
a behaviour that has used them up goes on without them. The `MC` modules let a
behaviour that is over stutter, so that any other deadlock is reported.

### Fairness

* `Tunnel`: weak fairness for each stream's own steps and for the callback: the
  runtime polls woken tasks. Connecting is counted as the task's own progress because it
  is under `connect_timeout` and the resolver's timeouts, and the teardown because it is
  under `SHUTDOWN_TIMEOUT`. Nothing is assumed of peers: a relay may never move
  a byte or end by itself, and a UoT request may never come, which is why
  `KickEnds` is about TCP tunnels.
* `Relay`: weak fairness for finishing a poll and for the poll that an expired
  timer wakes, strong fairness for time, which passes however often the task is
  polled. Readers and writers may stay pending for ever.
* `Padding`: the reader is polled, and the owner of the writer keeps flushing.
  The relay does (it flushes on every poll); UoT does not: what it leaves in the
  padding goes out with its next packet or its shutdown, as `Uot` models.
* `Outbound`: the steps are under `connect_timeout` and the resolver's timeouts.
* `Uot`: a loop is woken by its tokens, strongly fair in the output loop because
  `select!` polls its branches in random order; the shutdown has a timeout; a write to
  a stream that is gone fails. The client is assumed to take what is
  written until it leaves, see above.
* `SessionBridge`: the task is polled and the client takes what it is sent. Nobody has to
  send, end or reset, and the tunnel does not have to read: where that matters it is a premise
  of the property.
* `Process`: `main`, the signal task and the accept loop run when they can (the
  panel calls have their timeouts), and the drain deadline passes. Nothing is assumed of
  tunnels, of clients or of pingora; that permits become free is a premise of
  `AcceptGoesOn`.
* `Datagram`: tokio's driver delivers the events epoll has, and a call that is not waiting
  goes on. Nothing is assumed of the network: that the kernel has something is a
  premise of `CallReturns`.

## 4. Proofs

Every safety property that a passing run checks is proved for all values of the
constants, from the named assumptions of the modules:

* `ConstantsAssumption`: the bounds are natural numbers, keys are placed in shards,
  `NoUser` is not a user; `TunnelAssumption`.
* `RelayAssumption`, `DatagramAssumption`, `PaddingAssumption`, `UotAssumption`,
  `H3Assumption`, `BridgeAssumption`: sizes and bounds are natural numbers, positive where
  the code needs it; a byte has at least two values; the duplex holds at least one
  read of the bridge.
* `AutoTuneAssumption`, `StartupAssumption`, `AcceptAssumption`: the machine's values fit
  u64, a limit on the command line is of one of its forms, the set of connections is finite.
* `OutboundAssumption`: the two address families are disjoint, the private addresses are
  among them, and the files are of the type serde gives them (`AclFiles`).
* `BufferAssumption`: twice the longest vector is below 2^`WordBits`. A `Vec<u8>` holds at
  most `isize::MAX` bytes, which is what makes cursor plus count not wrap.

| Module | Theorems |
|---|---|
| `ConnectionManagerProofs` | `TypeCorrect`, `MapsAgree`, `KickNeverMisses`, `SweepNeverMisses`, `KicksAreTargeted`, `KickReturnsComplete`, `ImplementsContract` (the refinement of `KickContract`) |
| `TunnelProofs` | `TunnelTypeCorrect`, `TunnelsAreTracked`, `DiffKicksOpenTunnels`, `TrafficIsAccounted` |
| `StreamProofs` | `RelayKeepsStream`, `RelayCountsExact`, `RelayCutsOnlySilent`; `UploadIsByteStream`, `DownloadIsByteStream` (the H3 adapters refine `ByteStream`) |
| `ProcessProofs` | `NodeIsUnregistered`, `ArgumentsAreFirst`, `PermitsAreConserved`, `FilesAlwaysSuffice`, `DrainIsHonest` |
| `PaddingProofs` | `HalvesInStep`, `PaddingIsByteStream` (the padding refines `ByteStream`) |
| `UotProofs` | `StreamCarriesPackets`, `FinAfterWholePacket` |
| `TransportProofs` | `BridgeIsFaithful`, `CountsAreExact`, `PayloadIsKept` |
| `OutboundProofs` | `CheckedAddressesOnly`, `ListIsExhausted`, `OptionsAreHonoured` |

The argument for the registry is the inductive invariant `IInv`. The properties
alone are not inductive: that a kick misses nothing depends on where every
register and unregister stands. `AllocationInv` ties ids in use to the counter
and to an owner; `MapsInv` says that each map holds exactly the ids whose `phase`
puts them there (this is where the order of the two inserts and of the two removals
matters); `KickInv` says that what a running kick has not visited or cancelled is not
in the entry it guards; `SweepInv` that what `cancel_all` has still to cancel is in
its shard or in a later one. `StepIInv` has one step per action and conjunct.

For the tunnels, whose steps on the registry are the registry's own, `TInv` adds to `IInv` the tie between a stream's position and the
phase of its connection (`StreamOK`), that ids of different streams differ
(`Distinct`), the accounting per position (`UsageOK`), and, for the sync,
that a tunnel in `staleOpen` is cancelled, gone, or owned by a user whose kick is
pending or running and has not passed it (`StaleInv`).

For the relay, `RelayInv` says per direction (`CopyOK`) that what was delivered
followed by what is still in the buffer is the beginning of what was read, in order; this is what a
read behind unwritten bytes has to keep, and why `StreamIntact` needs it. A
direction is shut down or has sent its end only after its buffer is written. `TimeInv` ties the timer to the silence:
the time since the last reset never exceeds the time since the last byte, except inside
a poll that moved a byte and has not come to its check. `EndInv` says that counts are handed over once.

For the process, `NodeInv` says up to which step the panel knows nothing of the node
and after which the arguments are known to be good, which stays true although the files change;
`PermitInv` that the limit is fixed before the first connection, is within the
cap of open files when it was derived, and that free permits and served connections
add up to it. `DrainInv` is about the drain. It rests on the registry's `IInv`, and
says that as long as `connection_count` has counted nothing, no connection that `cancel_all` found is
in a shard already counted (`NoneCounted`): ids are not used twice, so what has left a
shard does not come back, although other tunnels register there meanwhile. When
`cancel_all` itself returns zero, it found nothing (`NoneVisited`), which is why the loop may be skipped.

For the padding, `PadInv` says what is on its way from writer to reader. There are
functions `co` and `cp` over the frames written so far, which say how much of the wire and how much of the
payload lies before each frame; between the reader's position and the end, wire and
`write_pending` are exactly what these frames and the raw bytes after them
require (`Carries`), and the reader's counters say where in which frame it stands
(`ReaderAt`). The functions are under an existential quantifier: no variable of
the code holds them, and the steps that write a frame extend them. `Digits` is the
arithmetic of the header. `InStep` and the refinement follow, since the reader takes for
payload only bytes that `Carries` puts at payload positions.

For H3, `UpInv` and `DownInv` say the same of frames in a channel (`Carried`): the
frames in the queue, behind what the reader has left of the last one, are adjacent pieces
of the stream, and a FIN is in the last frame or behind it.

For the bridge, `BridgeInv` has one chain of bytes per direction: what the tunnel got, what is in
the duplex, the chunk in hand while its branch runs (`Uploading`, `Downloading`) and what the
client has sent are adjacent pieces of one stream. Each end flag says which of the
pieces is empty for good.

For UoT, `UotInv` adds to `DownloadExact` that a packet is cut short only when the client's
stream is gone (`TodoInv`). `Packets` flattens a sequence of sequences with a recursive function of the
library; what it gives for one packet more is `FlattenAppend`, proved by induction over
the number of packets (`NatInd`).

For routing, `OutInv` says which handler each connect path has (`PathInv`), that every address
which a path may use has passed the check, or the target itself is a checked address
(`CheckInv`), that tried and remaining addresses make up the router's list (`ListInv`), and
which path gave the connection its options (`AppliedInv`). `OptionsHonoured` then needs
what `AclEngine` makes of a file: that the outbound of the target is the last entry of
its name, and that `custom_dial` is false only for options the bare path applies.

For the datagrams, `CallInv` says that inside a call the chunk begins where the
datagrams moved so far end: only a full chunk is followed by another. For their buffer, `BufInv`
keeps the cursor within the vector, and each operation is shown to do to the readable bytes
what `PayloadKept` allows.

Only model-checked are the eleven liveness properties (`KickEnds`, `RegisterReturns`,
`SilentRelayEnds`, `AllDecoded`, `ShutdownEnds`, `AcceptGoesOn`, `OneStopsBoth`,
`DownloadFlows`, `BridgeEnds`, `ConnectEnds`, `CallReturns`): fairness and ENABLED are out of
the prover's reach. The three properties that a run refutes are not theorems.

The library's induction theorems take an operator as a parameter, which the provers
cannot instantiate. Induction here is over a set of numbers instead: `NatInd` is
proved from the existence of a least element (`WFMin`), and is used with the set of
numbers that have the property.

Most leaves name `Zenon`, which finds first-order steps quickly; the others are
arithmetic, sequences and records, and are the SMT solver's. Sums over state are
restated over plain numbers (DEFINE, then HIDE) before they are given to it.

Variables and constants of components whose proofs share a module have different
names, so that the module can extend both: hence `QueueCap` and `moved` in `Datagram`,
`ByteVals` in `DgramBuffer`, `rbuf` and `rfin` in `H3Stream`.

## 5. Not modelled

* The panel client, pingora, tokio-quiche, tokio, DashMap and the ACL library: external.
  They appear through what the code here relies on. This includes pingora's
  accept path, where a port that is taken shows inside its own threads.
* In `Tunnel` the routing verdict is any verdict and connecting is one step that
  succeeds or fails; `Outbound`, `Uot` and `Relay` have the detail and are not composed with it: the
  product of a relay's states with the registry's is beyond TLC, and what the tunnel
  uses of them is their end, which `ConnectEnds`, `OneStopsBoth` and
  `SilentRelayEnds` are about.
* The compiler and matchers of ACL rules, the contents of geo data, the private ranges: data.
* Options that are only handed to a library: congestion control, QUIC settings, socket
  options of the listener, backlog, handshake timeouts. `--buffer_size 0` and
  `--tcp_connect_timeout 0`, which `validate` accepts, are outside the assumptions of
  `Relay` and `Outbound`, and so is a `--max_connections` larger than a tokio
  semaphore can hold.
* Of the vendored `datagram-socket`: forwarding to an inner socket, the connected
  or unconnected wrapper, the shutdown that does nothing, the statistics record, and a batch
  of length zero, for which `recvmmsg` and `sendmmsg` return whatever error the thread saw last.
* Addresses and credentials: taking text apart and putting it together, without state. The
  server builder and the panel adapter: records and delegation.
* Contents of padding and of the padding header, header text, log messages, error
  types, reading the machine's values, the benchmarks.
