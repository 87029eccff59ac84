# packethose in TLA+

packethose carries raw IP packets between TUN devices over several parallel TCP
connections ("lanes"). A client opens its lanes with a Noise IK handshake each;
a server serves one client on fixed queues (single-client mode) or many clients
over one shared TUN, handing each an address from a pool (multi-client mode).
This directory models the parts of it whose correctness depends on the order in
which goroutines run, and the algorithms those parts rest on. `PROJECT.json` maps
every definition to its source lines.

## The system and where it is modelled

| Part | Source | Module | State |
|---|---|---|---|
| Multi-client server: connections, sessions, address index, collector, shutdown | `multiclient_linux.go` | `MultiClient` | core, modelled |
| Address pools | `ippool.go` | `IPPool` (operators), called by `MultiClient` | modelled |
| Users, quotas, reservations | `users.go` | `UserDB` | modelled |
| Hot reload | `server.go`, `cmd/packethose/main.go` | `MultiClient!Reload` | modelled |
| Handshake | `handshake.go` | `MultiClient` (server), `Supervisor` (client) | order of steps and exits |
| Lane: its goroutines and socket | `lane.go`, `sessionpio.go` | `MultiClient`, `Supervisor` | modelled |
| Accept-path limiter | `ratelimit.go` | `ConnLimiter`, and `sem` of `MultiClient` | modelled |
| Lane supervisors, client, single-client server | `supervisor.go`, `client.go`, `server.go` | `Supervisor` | modelled |
| Lane framing, batching and seal counters | `lane.go`, `lane_crypto.go`, `tun_linux.go` | `LanePipe`, `PacketPipe` (abstract) | sizes and order, not bytes |
| Userspace netstack | `netstack/netstack.go` | `LanePipe` | its queue, `Close` and the panic between them |
| TPROXY listener | `tproxy_listen_linux.go`, `tproxy_udp_batch_linux.go` | `TProxy` | control flow, not socket options |
| nftables installer, forwarding life cycle | `nft_linux.go`, `server.go` | `Forwarding` | modelled |
| Server configuration and command line | `config.go`, `yaml_config.go`, `cmd/packethose/main.go` | `Forwarding` | what decides keys, pools and forwarding |
| Envelope, statistics, metrics, congestion control, spoofing helper | the remaining files | – | not modelled, see the end |

How they interact: the accept loop passes a connection through the limiter, then
starts `handleConn`. Its handshake authorizes the client's key against the user
database and allocates addresses from the pools; `acquireSession` files the
session in `m.sessions` and `m.ipIndex`, takes a quota slot and claims the
addresses; `runLane` copies packets until both its halves end. `gc` collects
sessions idle for 90 seconds and, on shutdown, all of them. A reload replaces the
user database at any moment.

Without a pool, the same listener feeds a queue of handshaken connections from which
one supervisor per lane takes its next; the client has one supervisor per lane too,
which dials. Under either, a lane batches what its device has queued into frames and
unpacks them at the other end. Around all of it, `Server.Run` puts the forwarding
state into the kernel, starts the TPROXY listener, and undoes both when it returns.

## Modules

- **`UserDB`**: a database is a record of users; `NewUserDB`'s validation,
  authorization by key (with the peer-key fallback), slot counting and reservation
  lookup as operators. A slot count is kept beside the database and starts at zero
  with each new one.
- **`IPPool`**: a pool is its two maps, `used` and `byClient`, over offsets in the
  subnet. `AllocateFor` is the sequence in the code: the sticky address, the
  requested one, the user's own reservation, the walk. The SHA-256 spread of IPv6
  addresses is an arbitrary function from clients to candidate sequences. `Claim` is
  unconditional, as in the code.
- **`MultiClient`**: one record per `handleConn` goroutine (`conn`, whose `pc`
  names the place in the code), the session objects, the tables, the pools, the
  database, the semaphore, the collector. A step is what happens between two points
  at which another goroutine can be observed: one pool call, one critical section,
  one socket operation. `acquireSession` and `releaseOrphan` call the pools inside
  `m.mu`, so the holder of `m.mu` is a variable; `tearDown` and the quota-refusal
  path call them outside it, as in the code. Session identities are reused once
  nothing refers to the object, which keeps the state space finite.
- **`ConnLimiter`**: the table of token buckets with pruning and eviction, over
  integer time. `rate.Limiter` is external and modelled by its refill rule. There is
  one accept loop, so calls of `allowIP` are sequential.
- **`Supervisor`**: both sides of the single-client mode. A supervisor is a record
  whose `pc` says where `runSupervised` is; a connection has two ends, each owned by
  its program or closed, a reply on its way and a path that may break. The kernel's
  backlog and the queue `ready` are sequences. What the network or a device does on its
  own is a fault, and faults are counted. Backoff is the number of doublings.
- **`LanePipe`**: one direction of a lane. A packet is an identity and a size in bytes,
  with the constants of `lane.go`; a frame has its packets, its true size, the value of
  its 16-bit length field and its counter. The device is a kernel TUN, read in bursts,
  or the netstack's endpoint, read one packet at a time. `endpoint.Close` may come at
  any time; a sender that has already passed `WritePackets`' check then sends on a closed
  channel, which panics and takes the process with it (`WritePanics`).
  Each turn of `tunToSockBatch`'s loop over a burst is a step: it drops a runt, puts the
  packet into the buffer, or flushes the buffer first (`BufferPacket`, `FlushFull`);
  `FlushLast` ends the burst, and a lone packet is a frame of its own (`SendSingle`).
  **`PacketPipe`** is what it promises: packets leave in the order they came, each once;
  they are lost only when the receiving device refuses one or when the lane ends, and
  then from the tail.
- **`TProxy`**: the listener's `WaitGroup` and sockets, the TCP relays, the UDP accept
  loop with its batch, the flow table and the flows. A critical section of `flowsMu` is
  one step; the write upstream, the pump's read and `shutdown` are steps of their own.
  Time is ticks; a flow has an age since its `lastActivity`.
- **`Forwarding`**: the server process over its lives. Flags and file become a
  configuration; a configuration becomes a sequence of `nft` and `ip` commands; a step
  runs one of them against the kernel, which refuses to add a rule twice or to delete
  what is missing. The process may be killed between any two steps.
- **`MC*`**: instances for TLC. Operators introduced by a comment `Mutant:` are
  faulty variants of the definition that follows them; each property of a passing
  run is violated when one of them takes its place.

## Runs

Passing:

| Run | Shows |
|---|---|
| `server` | two lanes of one client, failing handshakes and lanes, idle collection and shutdown. `IndexSound`: an indexed address leads to the live session that was assigned it; `NoAddressLeak`: every address a pool keeps for a client has someone who will release it; lane counts, permits and slot counts are exact and the quota holds (no reload). Permits come back, `tearDown` ends the session's lanes, a session without lanes is reaped |
| `lanes` | both families, a reservation and a reload, in a calm environment (below): live sessions have distinct addresses, no lane was told another address than its session's, nothing leaks, the only IPv4 host is refused only while its holder is answered for, and an address set aside at startup goes to the user that reserves it |
| `limiter` | the table is bounded; with buckets that refill before they may be pruned, in no window does an address get more connections than its burst and refill; none is refused below that rate |
| `supervisor` | every open socket has exactly one owner on its side; `OnAssigned` is called at most once; once faults stop, the client's lane comes to run on a connection on which the server's runs too, unless a half-stopped lane stays or holds up the queue; a cancelled side ends, accept loop included, unless a quiet device holds a lane |
| `pipe` | both seals count alike; every frame's length field tells its size; the lane implements `PacketPipe`, also when the endpoint is closed under a sender |
| `tproxy` | the flow table leads exactly to the flows whose pump still serves them; `Stop` returns, and when it has, the UDP side is drained; a flow without traffic ends |
| `forwarding` | while the server serves, the kernel holds exactly what the configuration asks for and what is redirected has a listener, whatever earlier runs left behind; leftovers never make a start fail; when `Run` returns after a signal and its commands worked, nothing is left |

Violations, each a disagreement between the code and what the repository says of it
(`findings` in `PROJECT.json` quotes both):

| Run | What happens |
|---|---|
| `orphan` | a failed lane's `releaseOrphan` runs after a sibling lane was told its address and before that lane's `acquireSession`; another client is given the address, and `Claim` does not check: two live sessions share it |
| `oversize` | a packet that fills the read buffer is put into a batch of its own, whose sub-length and seal take it over 65535 bytes; the length field wraps. `pipe` has packets up to the largest that fits |
| `lane_error` | the receiving half of a lane ends with an error; `runLane` waits for the sending half, which is in a read of a quiet device without a timeout: the lane neither ends nor reconnects |
| `shutdown` | a server with a pool is told to stop; its accept loop looks at the context only after `Accept` has failed, and nothing closes the listener: nobody fails an `Accept`, `Run` does not return and the table stays |
| `stale_table` | after a crash, the server is started without a `forward:` block; nothing reconciles, and it serves with the redirect and the routing of the crashed run in place. `forwarding` keeps the configuration between starts |

### The calm environment

`releaseOrphan`, the refusal by `AcquireSlot` and `tearDown` release a client's
addresses by client id, without asking whether another connection of the client was
told them. What `AddressExclusive`, `LaneAgrees` and `NoFalseExhaustion` say of
addresses is therefore false in general (`orphan`), and they are checked and proved
under a condition on the environment alone, `Calm`: no session is collected and the
server is not told to stop; and a client with several lanes has no connection that fails
on its own and is authorized by every database, under one name, without a quota.
Clients with one lane may fail anywhere and be revoked. No step of the model is
restricted by it: `Calm` speaks of the constants, and `MCLanes` checks that the instance
satisfies it.

### Known limits

What the passing runs leave out, because there the code does not do it.

Addresses and users:

- *Collection against reconnection* (`lanes` has no idle collection). `collect` unlinks
  a session under `m.mu` and `tearDown` releases its pool entry by client id afterwards;
  if the client has reconnected in between, its live session's address becomes free.
  The refusal of a slot to one lane does the same to a sibling's.
- *`Claim` over a newer allocation* (outside the calm environment). The overwritten
  address stays used with no owner until the process ends.
- *A family the session lacks* (`LaneAgrees` speaks of families that both have). A
  session entered while one pool was exhausted has no address of that family; a later
  lane of the client may be told one, which leads nowhere.
- *Quota across a reload* (`server` has no reload). A new database starts its slot
  counts at zero while sessions live on.
- *Reservations made by a reload.* Only those of the database at startup are set aside
  in the pool; the walk hands out an address that a later database reserves.
- *Reservations in peer-key mode after a reload with an empty user list.* The owner of
  an address nobody reserves is the empty name, which is the client's user name too; a
  request for an address set aside at startup is then honoured. `RespectsReservations`
  speaks of named users.
- *The connection rate* holds where a bucket has refilled by the time it may be pruned
  (`RefilledWhenPruned`). The defaults satisfy it; the code does not check it.

Lanes:

- *Half-stopped lanes.* `runLane` closes the socket when both halves have ended; while
  `tunToSock` is in a read of a quiet device, the lane stays, over a dead connection or
  a live one (`lane_error`). `Reconnects` excepts it. On a server whose queues see a packet
  only now and then, every dead connection taken from the queue holds it up in that way,
  so that each new handshake may time out behind it; `Reconnects` excepts that too. In
  multi-client mode such a lane still counts, and its session is not reaped.
- *Quiet queues at shutdown.* The watcher closes the socket, but `ReadBatch` polls
  without a timeout and nothing closes the device before the supervisors have ended:
  `Run` returns only after one more packet on every such queue. `ShutdownCompletes`
  excepts it.
- *Closing the netstack.* `endpoint.Close` closes the channel under senders that have
  looked at `closed` before; the send panics. No property says that it cannot happen.
- *Segmentation offload* is switched on by a handshake and never off again.

Around them:

- *Shutdown of the multi-client loop* needs an `Accept` that fails: a further connection
  alone is handled like any other. `Shutdown` of `Forwarding` is a fault there, and the
  run `shutdown` shows a server that stays.
- *TCP relays of the TPROXY listener* are in no `WaitGroup`: `UdpDrained` says nothing
  of them.
- *Redirect and listener ports* are separate settings; `forwarding` covers files in
  which the listener's is left to its default, and switches installer and listener
  together.

### Bounds

Two clients and two or three connections: each race of the multi-client server needs at
most two lanes of one client and one of another. A /30 leaves one host address, so
exhaustion and hand-over between clients happen (`lanes`, `orphan`). `server` has two
connections of one client and two session identities, an old session in tear-down and
its successor; `lanes` has three of each, two IPv6 candidates per client of which the
first collide, a reserved IPv6 address, and a reload that takes away the reservation and
the other user. `MaxInFlight` is 2. The limiter has three addresses, a table for two and
time for two prunings. `MayFail` (a set of connections), `MayIdle` and `MayStop` switch
off failures, idleness and shutdown in runs that ask what holds without them.

`supervisor` has one lane on each side, four connections and three faults: one for a
dead connection in the queue, one for the lane's, one for the attempt that follows.
`pipe` has packets of 10 bytes (below `minRead` on a TUN), 29998 (two of which, with
their sub-lengths, make exactly `maxFrame`) and 65517 (the largest that fits a sealed
batch), four packets, bursts of three and a queue of three. `tproxy` has three
destinations (outside, a peer that isolation refuses, the server itself), two flow
identities, batches of two and a timeout of two ticks. `forwarding` has every
combination of three command lines, four pools, four sets of features, two ports and
the override, with two faults.

### Fairness

`server`, `supervisor`, `tproxy` and the violations `lane_error` and `shutdown` assume
some. A runnable goroutine runs, and a handshake has deadlines: weak fairness of its
steps. What waits for `m.mu` is strongly fair, since `sync.Mutex` hands over to a starved
waiter. Time passes, so an idle session or flow reaches its age and a read its deadline.
Nothing is assumed of peers and devices: no fairness for accepting a connection, for a
peer dropping a lane, or for a packet arriving on a queue or for a lane. In `supervisor`
faults stop, because there is a bound on them; a handshake that waits behind an accept
loop that is blocked or gone runs into its deadline without one. No fault, signal or
cancellation is fair; in `shutdown` a failing `Accept` is such a fault. In `tproxy` no
datagram, reply, error or cancellation is fair.

## Proofs

Checked by TLAPS for every value of the constants that satisfies the named
assumptions of the modules (`PoolAssumption`, `MultiClientAssumption`,
`LimiterAssumption`, ...):

- **`ConnLimiterProofs`**: `LimiterTypeOK` and `LimiterTableBounded`, whose invariant
  adds that every bucket was last used in the past (a refill never takes tokens) and
  that the table is finite. `LimiterThrottled` and `LimiterDenies` relate a bucket to
  the history of its address. A bucket's tokens are at most a full burst and the refill
  since any earlier connection, less the connections since (`Paced`), also across a
  pruning if the bucket has refilled by then (`RefilledWhenPruned`, which only
  `LimiterThrottled` supposes); and they are exactly that for some earlier connection
  (`Tight`), the last one that found the bucket full. The first bounds what is let
  through, the second shows that what is refused would exceed the rate.
- **`MultiClientProofs`**: `ServerTypeOK`, `ServerIndexSound` and
  `ServerNoAddressLeak`. Neither safety property is inductive alone. The invariant
  adds `Ownership` (a session is filed under its own client; a session being torn down
  is out of the table and torn down once), `KnownClient` (past the first message a
  connection knows its client) and `ClaimsLocked` (while `acquireSession` claims, it
  holds `m.mu` and its session is in the table). Most steps move one connection only;
  they share the lemmas about `Quiet` steps, and the steps that call a pool share those
  about pool calls.

- **`MultiClientAddresses`**: `ServerAddressExclusive`, `ServerLaneAgrees` and
  `ServerNoFalseExhaustion`, for every calm environment, with any number of clients,
  lanes, failures and reloads. `CalmInv` says that whoever is about to release an address
  is its client's only connection; `AddrInv`, that a used address
  belongs to exactly one client and that sessions, and connections on their way to one,
  use what the pool has for their client; `LaneInv`, that every lane agrees with its
  session. That the IPv4 walk misses no free host needs that a non-empty set of offsets
  has a least one. `ServerRespectsReservations` needs no calm: its invariant is that every
  database in use has one owner for an address (`ReservedOnce`), which
  `ValidReservedOnce` shows of every list that passes `NewUserDB`'s checks.
- **`MultiClientCounts`**: `ServerPermits` and `ServerActive`. The invariant adds, for
  each place in `handleConn`, whether the permit is held there and that a lane has a
  session. That a collected or abandoned session object has no lane left, so that its
  identity can be reused with a count of zero, follows from the count itself.
  `ServerSlots` and `ServerQuota` hold of the behaviours without a reload, since a new
  database starts at zero. Their invariant `SlotInv` adds that from the authorization to
  `acquireSession` a connection's user is one the database knows, and so is the user of
  every session that has a slot: `AcquireSlot` and `ReleaseSlot` then always count.
- **`SupervisorProofs`**: `SupervisorSingleOwner` and `SupervisorType`, for any number
  of lanes, connections and faults. A count of owners is not inductive. The invariant
  says where a connection can be (`Placed`), that it is in one place of a side at a time
  (`Apart`: lanes, accept loop, the queue `ready` and the kernel's backlog), and that an
  open end is somewhere (`Owned`).
- **`ForwardingProofs`**: `ForwardingStale` holds of any sequence of configurations,
  crashes and faults. Its invariant follows the list of commands still to run: deletions
  come before additions, and an entry whose deletion was tried and whose addition is to
  come is absent, unless a fault kept it. `ForwardingPosture` and
  `ForwardingNothingLeft` are for one configuration over all lives of the server
  (`~MayReconfigure`; the run `stale_table` shows why); their invariant adds that
  everything in the kernel was put there under it. `ForwardingPosture` supposes that the
  file keeps redirect and listener together (`PortsAgree`, see *Known limits*), which
  `ConsistentAssumption` checks of the instance.
- **`TProxyProofs`**: `TProxyTableSound` and `TProxyUdpDrained`. The table's invariant
  is `TableSound` with types, and that a flow without a pump is a fresh one. The second
  adds that the `WaitGroup` is the number of accept loops and pumps that have not
  called `Done`, and that none of them runs before `Start` or after `Stop`.
- **`LanePipeProofs`**: `PipeLockstep`, inductive once records and sequences are known
  to be such (`PipeInv`), whatever bursts and frames hold.

  `PipeLengthFits` supposes that no packet exceeds 65517 bytes (`PacketsFit`): with two
  bytes of sub-length and a seal it then fits the field. Its invariant `SizeInv` bounds
  the buffer and every frame: a batch stays within `maxFrame`, unless one packet fills
  it alone. `PipeOnlyGiantsMisread` needs no assumption and says that this exception,
  which the run `oversize` reaches, is the only way a length field can be wrong.

  `PipeRefines` is the refinement of `PacketPipe`, step by step. What is under way is
  split into what has reached the socket (`Ahead`) and what the sending half holds or
  will read (`Behind`). A step of the sending half moves a sequence from the front of
  the second to the end of the first, and their concatenation stays; a loss cuts off a
  tail; a write takes the head. It supposes that no packet is cut short while it is read
  (`NoTruncation`). The packets of a sequence of frames are a recursive function
  (`Flatten`). What is needed of it (it exists, and it distributes over concatenation)
  is proved from the least element of a set of natural numbers.

Only model-checked: liveness (`PermitsReturned`, `ClosedLanesEnd`, `IdleReaped`,
`Reconnects`, `ShutdownCompletes`, `IdleFlowsEnd`, `StopTerminates`), which is outside
the prover's reach. Every invariant, action property and refinement that a passing run
checks is also proved.

`ConnAssumption` says that finitely many connections are handled at a time, which the
counts need.

## Not modelled

Cryptography (Noise, the AEAD, the envelope of `obfs.go`) is taken to do what it says:
a frame opens exactly when its counter is the one expected. The envelope is a byte
format over one message, without state. `nft_stats_linux.go` parses a command's output,
`metrics.go` has counters that nothing reads back, `brutal_linux.go` and `bbr_linux.go`
set socket options, `tproxy-spoof` is a stand-alone program of system calls: there is
nothing in them for two steps to disagree about.

Of the modelled parts, these are left out: the contents of packets; TUN creation,
addressing and offloads; ancillary data and DSCP in the TPROXY listener; the encoding of
handshake payloads; parsing of the YAML file and the fields that decide neither keys,
pools nor forwarding. `runTunReader` appears only through the index it reads. The
limiter's `Disabled` mode is a pass-through.

Taken from outside: `rate.Limiter` refills as documented; gVisor's stack may call
`WritePackets` at any time, also while the endpoint is closed; `nft` adds a table's rules
to one that is there and `ip` refuses duplicates; with TPROXY off, `ip rule del` with mark
and table zero deletes nothing that the installer has added.
