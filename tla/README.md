# Verification of libaltcoin-network

TLA+ models of the network library under `src/`, the TLC configurations that
check them, and TLAPS proofs of the properties that matter most. Paths below
are relative to the sources (`hosts.cpp` is `src/src/hosts.cpp`).

## The system and the modules

A node is one `p2p` object. Its sessions (manual, seed, inbound, outbound)
make channels, with connectors or an acceptor, and register them with `p2p`;
a channel is a proxy around a socket that reads messages, hands them to the
subscribers of its protocols and is watched by two timers; a registered
channel has passed the version handshake. `hosts` is the pool of addresses the
outbound session connects to. Everything runs as callbacks on one thread pool,
with atomics, small critical sections and subscribers (objects that store
handlers and invoke them all at a stop) in place of a global lock.
`p2p::stop()` may run at any time on a thread of its own.

| Part | Source | Modules |
|---|---|---|
| address pool | `hosts.cpp` | Hosts, MCHosts, HostsProofs |
| start and run of the network | `p2p.cpp` | Sessions, Startup, MCStartup, StartupProofs |
| seeding | `session_seed.cpp`, `protocol_seed_31402.cpp` | Seeding (in Startup) |
| accept loop and acceptor | `session_inbound.cpp`, `acceptor.cpp` | Inbound (in Startup) |
| connections, registration, stop | `p2p.cpp`, `session*.cpp` | Registry, Network, MCNetwork, NetworkProofs |
| a batch of connects, the connector | `session_batch.cpp`, `connector.cpp` | ConnectBatch, MCConnectBatch, ConnectBatchProofs |
| handshake, events, timer | `protocol_version_*.cpp`, `protocol_events.cpp`, `protocol_timer.cpp` | Opening, Handshake, MCHandshake, HandshakeProofs |
| channel, proxy, subscribers | `channel.cpp`, `proxy.cpp`, `message_subscriber.cpp` | Channel, MCChannel, ChannelProofs |
| send sequence, broadcast | `proxy.cpp`, `p2p.hpp`, `p2p.cpp` | Outbox, Sending, Broadcast, MCBroadcast, BroadcastProofs |
| ping, reject, address protocols | `protocol_ping_*.cpp`, `protocol_reject_70002.cpp`, `protocol_address_31402.cpp` | Protocols, MCProtocols, ProtocolsProofs |

Three abstract modules say what a part promises to the others, and the
detailed module is shown to implement each, by TLC and by a TLAPS theorem.

- **Outbox** is `proxy::send()` as its callers see it: whole writes, one at a
  time and in order, one report each, a failure only on a stopped channel.
  Broadcast implements it (`ImplementsOutbox`). Protocols relies on it, by
  reading: a failed send of a ping or an address finds the channel stopped.
- **Opening** is a handshake as the session sees it: told once, of success only
  after both messages, and the versions then stay. Handshake implements it
  (`ImplementsOpening`); Protocols is built on Opening, so what it shows holds
  of the protocols over any handshake that keeps the promise.
- **Registry** is the table of open connections: one channel per address, a
  channel leaves only stopped, from some point of `p2p::stop()` on nothing is
  taken, and when it returns all that is held has stopped. Network implements
  it (`ImplementsRegistry`); Broadcast stores and removes channels that way.

The other links are read off the modules and not proved. Network assumes that a
connect answers once (ConnectBatch: `AnsweredOnce`, `DecidedOnce`), that a
handshake ends (Handshake: `HandshakeEnds`) and that a stopped channel tells
each stop handler once (Channel: `ToldOnce`, `EveryoneTold`). Broadcast assumes
that every channel stops in the end (Channel: `ChannelEnds`). Startup ends where
Network's initial state begins: it hands over running sessions.

## How state and actions correspond to the code

*One step is one access to shared state.* A handler that reads or writes
several shared things (a flag, a subscriber, a pending collection) is one step
per access, with a program counter between them (`pc`, `stopPc`, `step`,
`stage`, `pingPc`); a method that holds a mutex throughout is one step. The stop
of the network is always a separate sequence of steps, in the order of
`p2p.cpp` 269-294.

- **Hosts**: `buffer` is the circular buffer, `file` the lines on disk, `lock`
  the holder of the mutex. The three loops (load, save, store of a list) are
  one iteration per step, because the process may be killed between two lines
  (`Crash`). An address is its ip and port, all that `find()` compares.
- **Sessions**, **Startup**: `step` is the next callback of the start or run
  sequence and `code` what it carries; `subscribed` holds the stop handlers in
  order; `live` the sessions whose `stopped_` is false. `stop()` ends with the
  shutdown of the thread pool; when then neither the sequence (`onPool`), nor a
  seed, nor the accept loop has anything on the pool, its threads end
  (`PoolEnds`, `threads`), and what a later `start()` or `run()` posts is not run.
- **Seeding**: per seed the connection (`seed`), the events of its protocol
  (`handler`, `successes`, `complete`, `timer`) and the calls of the join
  handler (`joined`). `set_event()` is one step here; its two steps are in
  Handshake, and the synchronizer drops what comes after it fired. The connect
  and the registration of a seed succeed or fail.
- **Inbound**: `acceptorStopped` and the accept loop. What happens to an
  accepted channel is in Network.
- **Network**: a slot is one connection at a time of one session. Registration
  is `session.cpp` 181-282, one step per access to the pending collections and
  the channel's stop subscriber. A failure to listen is in Inbound only.
- **ConnectBatch**: the timer, the TCP answer and a stop of each connector
  race; a synchronizer passes on the first answer.
- **Handshake**: four threads call `set_event()`, which is two steps (load the
  handler; clear and invoke it). `handle_receive_version` is one step. The read
  cycle tests `stopped()` in one step (`HandleReadPayload`) and loads the message
  in the next, so a message may be handled on a channel that has just stopped.
- **Channel**: up to `MaxStops` unlocked calls of `stop()` plus that of
  `p2p::stop()`, each with its own program counter, the read loop, both timers
  and the subscribers' posted jobs. All message types share one subscriber.
- **Sending**, **Broadcast**: `queue`, `executing` and `posted` are the
  sequencer of the dispatcher, `stage` the next step of each send. `handle_send`
  unlocks first, so its test of `stopped()`, its stop and its report run beside
  the next write. A broadcast copies the collection (`channels`), sends in a
  loop (`toSend`) and counts in a synchronizer (`joined`), while channels are
  stored, stop and are removed.
- **Protocols**: `attach` is the progress of `attach_protocols()`, during which
  nothing is read; `pingPc` what each thread does next in the ping protocol,
  where `pending_` is tested and set in two steps; `heartbeat` the perpetual
  timer; `events` and `notices` each protocol's handler and stop subscription.
  `owed` and `faults` are history: what the peer was asked, and whether a pong
  was late or wrong or a heartbeat fell into the attachment.

Library objects of libbitcoin and boost (subscribers, synchronizers, the
sequencer, pending collections, deadline timers, sockets) are modelled from
their use here.

## Runs

| Run | Size and bounds | What it shows |
|---|---|---|
| hosts | pool of 2, five addresses (one invalid, two with port zero), all lists of up to 3 of the usable ones and three lists with the others | no duplicates, a list never evicts its own entries, the stride covers the free slots, a list that fits is taken whole, what was saved is what is loaded |
| network | one outbound and one inbound slot, two addresses, fair | the connection table implements Registry, every stored channel will be reclaimed, outbound cycles are not lost, only registering channels are pended, connections drain after a stop and are replaced before it |
| network_contention | one slot per session, one address | a manual connection gives up only for the reasons in the code |
| batch | three connectors, fair | one answer per connector, the batch is decided once, by the first success or the last failure, an ended connect has stopped its connector, the timers complete the batch |
| handshake | own version 2, minimum 1, peers 0, 1 and 3, fair | the handshake implements Opening, late events do no harm, it ends, failure stops the channel |
| channel | a handler of each kind, one message, two calls of stop(), fair | a stop is final, handlers are told once and told, an open channel has a read under way and both timers running or a thread stopping it, no message precedes its subscribers, the channel ends |
| startup | two seeds, four configurations, `MinimumIncrease` 3, capacity 3, fair | seeds are joined once and awaited, success means a pool with addresses, no seed channel stays open, start() and run() report once, unless stop() has ended the thread pool before they reach it, the accept loop goes on |
| broadcast | two channels, a broadcast and a protocol's message on one of them, fair | the send sequence implements Outbox, every handler is called, a broadcast completes once, after all of its channels, whatever becomes of them |
| protocols | a peer that knows pong and reject and one that knows neither, two nonces, fair | a peer that answers in time is kept, one that owes a pong loses the connection, a stop at any point leaves no timer and no handler |

The bounds are the smallest at which the cases differ: two seeds, so that one
can end while the other is under way, neither of which suffices alone and both
of which fill the pool; a pool of two that is full, short by one or empty;
three connectors, for a winner, a late winner and a loser; two slots for one
address; two overlapping stops; two channels, so that one fails before and the
other after its turn in a broadcast, and two messages on one of them, so that
one waits for the other; two nonces, for a right pong and a wrong one.
`Configurations` in MCStartup pairs two seeds with no other session, and gives
the configurations with an inbound or outbound session one seed or none, to
keep the product small. Deadlock is
not checked where the system may come to rest (all runs but that of Hosts).

### Disagreements

Three runs expect a violation of what the repository says of itself.

- **network_callback**: a manual channel that fails to start loses the
  caller's handler, which the comment in `session_manual.cpp` says is kept.
- **channel_race**: `p2p::stop()` during `proxy::start()` leaves a stopped
  channel whose subscriber still takes handlers ("Prevent subscription after
  stop.").
- **startup_acceptor**: `p2p::stop()` during the start of the inbound session
  stops the acceptor before `listen()`, which opens it again ("The acceptor was
  not stopped.", `acceptor.cpp` 51). In a variant the stop falls between
  `stop_subscriber_->stop()` and `invoke()`: the session is still live, so an
  accept begins that nothing cancels.

Read but not given a run:

- `hosts::store(list)` counts the entries it looks at, not those it accepts, so
  it can leave free slots ("always accept at least the amount we are short if
  available", `hosts.cpp` 293). A hosts file that cannot be opened is not
  `bad()`: `stop()` then clears the pool, writes nothing and returns success.
  An address with port zero is stored and saved but not loaded.
- A broadcast that finds no channel makes a synchronizer of zero calls, and its
  completion handler is never invoked. `BroadcastCompletes` leaves it out.
- A heartbeat so short that it fires inside `attach_protocols()` runs a second
  `send_ping()` beside the first and can stop a healthy channel.
  `HonestPeerKept` names the case ("early") and says nothing of it.
- In a connection to oneself, the outbound end may be stored and unpended
  before the inbound end looks for its nonce among the pending ones.
  `PendedWhileRegistering` says that it is not found later; it does not say
  that it is found.
- `connector::stop()` does not cancel a TCP connect (`connector.hpp` 62 says it
  does), and the connector's timer starts only when the resolver has answered.
- `session.cpp` 252 speaks of a nonce check that `p2p::store` does not make.
- The handler of a `run()`, or of a `start()`, whose first session subscribes
  after a concurrent `stop()` has ended the thread pool is never called: neither
  asks whether the network is being stopped, and the session's
  `handle_started()` is posted to a pool without threads. `Reported` names the case (`Stranded`) and
  shows it is the only one: a call that has a step on the pool reports. That
  holds of a `run()` called as `p2p.hpp` 96-97 asks, from the handler of
  `start()`, but not of one called from another thread, as in `test/p2p.cpp` 109.
- A pool capacity below 100 can never be seeded; a `hosts_.start()` that loses
  its race with `stop()` leaves the pool open.

## Fairness

Weak fairness of the steps of the library's own threads: posted work runs,
timers expire, `p2p::stop()` finishes once begun. No fairness for what a peer
or the user does.

- Network: connects and handshakes end. Before a stop the timers see to it
  (ConnectBatch, Handshake); after one, the operating system's TCP timeout.
- ConnectBatch: the resolver answers (the timer starts after it); a TCP answer
  is not assumed.
- Handshake: the peer may stay silent for good.
- Channel: a peer may stall an open socket; a read on a stopped one ends; the
  session stops a channel that was stopped while starting, at the latest by
  the handshake timer.
- Startup: connects and registrations of seeds end; an accept that was not
  canceled need not, nor need the threads of the pool, which connections that
  are not modelled there may hold.
- Broadcast: a write on a closed socket ends and a channel stops in the end,
  by its expiration timer; a write on an open socket may block until then.
- Protocols: heartbeats fire; pongs, and any other message, may never come.

## Proofs

Each `*Proofs` module proves its theorems for every value of the constants,
from the named assumptions of the component (`HostsAssumption` and so on). The
argument is the same throughout: an inductive invariant, one lemma per group of
actions, and the theorems as its consequences. For a refinement, the invariant
gives what the abstract guards need, and one lemma per group of actions shows
the abstract step or the stutter.

- **HostsProofs** (`HostsInv`): types, no duplicates, a list never evicts
  itself, the stride covers the gap, a fitting list is stored. The loops are
  part of the induction, so the invariant says what each has done so far. A
  saved pool comes back: a save writes the pool in order, and `LoadInv` says
  that a load of a file that fits has pushed the lines it has read, in order,
  but for those with port zero.
- **NetworkProofs** (`NetworkInv`): types, every stored channel will be
  reclaimed, a stop reaches every open connection, no outbound cycle is lost,
  only registering channels are pended, and Network implements Registry. The
  invariant ties the slot's `pc` to its place in the collections.
  `ManualKeepsTrying` has an invariant of its own.
- **ConnectBatchProofs** (`BatchInv`): all safety properties of the batch for
  every batch size; the count of answers is the cardinality of `handled`, and
  the invariant says of the join what `DecidedOnce` says of its handler.
  Attempts are timed (`TimedInv`).
- **HandshakeProofs** (`HandshakeInv`): one completion, mutual success, late
  events, and Handshake implements Opening. The synchronizer's count must be
  tied to the messages received. The end and the stop are to come (`ToCome`).
- **ChannelProofs** (`ChannelInv`, `MessageInv`): a stop is final, handlers are
  told once, an open channel is watched. The invariant orders the
  steps of every call of `stop()` against the flags it has set. No message is
  missed, because none is loaded before the start handler has subscribed; the
  waiting ones are counted through a bijection when the queue moves up.
- **StartupProofs** (`SeedInv`, `HostsInv`, `AwaitInv`): a seed is joined at most
  once and leaves no channel open, because an event can fire the synchronizer only while
  the seed's step is "protocol"; a start that succeeds has an address, because
  the code of the seeding vouches for the pool until `p2p::stop()` begins; no
  accept is outstanding on a stopped acceptor. The seeding awaits every seed:
  its join handler only counts (`counted`), and the count is the cardinality of
  the seeds that were joined. Seeds and accepts go on (`WaitInv`, `LoopInv`).
  Once the threads of the pool have ended, nothing is left on it (`PoolInv`):
  only steps on the pool start a seed or an accept, and what is on it keeps it.
- **BroadcastProofs** (`SequencerInv`, `BroadcastInv`): Broadcast implements
  Outbox, because the queue holds each message once and at most one message is
  being written while the sequencer is locked; a broadcast completes once and
  last, because what the synchronizer has counted is the number of its channels
  that have reported. Sends and joins go on (`ToCome`).
- **ProtocolsProofs** (`PingInv`): the ping protocol drops no honest peer.
  Without an early heartbeat the attaching thread is done before the timer's
  begins (`OrderInv`), so that `pending_` is set exactly while the pong of the
  last ping is subscribed (`PongInv`), and every stop has its cause
  (`CauseInv`). Heartbeats go on and stops arrive (`ToCome`).

Model-checked only: liveness, since the prover does not do fairness. What can be
proved of it is that no wakeup is lost: in every reachable state in which
something is still to happen, a step that brings it about is posted, timed or
under way. What is left to fairness is that this step is taken, and to TLC that
finitely many of them suffice.

| Theorem | Invariant | Safety side of |
|---|---|---|
| HandshakeIsTimed, StopsReachHandshake | `OutcomeToCome`, `StopToCome` | `HandshakeEnds`, `FailureStops` |
| AttemptsAreTimed | `AttemptTimed` | `BatchCompletes` |
| ChannelWatched | `OpenIsWatched` | `ChannelEnds` |
| SeedsGoOn, AcceptsGoOn | `SeedToCome`, `AcceptToCome` | `Reported`, `AcceptsAgain` |
| SendsGoOn, JoinsGoOn | `SendToCome`, `JoinToCome` | `AllReported`, `BroadcastCompletes` |
| HeartbeatsGoOn, StopsReachProtocols | `HeartbeatToCome`, `StopToCome` | `SilentPeerDropped`, `ProtocolsEnd` |

Proved but in no run: the invariants of this table except `OpenIsWatched`,
`EndedPoolIdle` of Startup, the type invariants, and properties that a
refinement run covers (`UniqueAuthority`,
`OpenConnectionsStopped` and `NothingStoredAfterStop` of Network,
`CompletedOnce` and `SuccessIsMutual` of Handshake). Startup has no type
invariant; `SeedTypes` in its proofs covers the variables they need.

## Not modelled

- A second start after `close()`, which `p2p.hpp` 103 allows: after a stop the
  pending collections stay stopped, and whether they may be started again is
  decided in libbitcoin; the repository's test of it is commented out.
- The subscribers to new connections (`channel_subscriber_`, stopped and invoked
  in `p2p.cpp` 282-284): they belong to the user, and no session is one.
- The shutdown of the thread pool (`p2p.cpp` 292) outside Startup: in Network and
  the modules of a channel the threads run until what is modelled there is done.
- Both ends of one connection at once (a connection to oneself): a slot of
  Network is one end.
- What the address protocol does with the addresses beyond its subscriptions:
  `hosts::store` is in Hosts.
- `settings.cpp` (values and their conversion), message formats (libbitcoin),
  logging and durations.
