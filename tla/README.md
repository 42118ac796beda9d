# RemoteMac: a TLA+ model of the relay, the coordinator and the mesh

RemoteMac lets a computer be reached from anywhere without forwarding a port.
This directory models its protocols in TLA+, checks them with TLC on small
instances, and proves the results that matter most with TLAPS.  Paths such as
`mesh.py` are relative to the repository; README lines are those of the
repository's `README.md`.

## 1. Inventory

The system is five Python programs and libraries that talk over TCP and UDP.

```
 remote_desktop.py (host, viewer, socks, gateway, pipe)      mesh.py node <--UDP--> mesh.py node
        |  TCP                        |  TCP                    |  TCP (SecureChannel)   |
        +-------- relay.py -----------+                         +----- coordinator.py ---+
             blind byte pipe                                       registry, map, DERP relay
```

| Component | State | Operations | Correct when |
|---|---|---|---|
| `relay.py` | table id -> waiting host, connections per address, one task per connection, two `_pipe` tasks per bridge | accept, register (refuse, evict, 'R'), hold, pair ('P'), bridge, tear down | the table offers only hosts that are there; a host goes to one client; a waiting host keeps its slot; both ends of a bridge end together; gone hosts leave |
| `coordinator.py` registry | key -> record (channel, endpoints, address) under one lock, one thread per node | authenticate, prove possession, admit, install or evict, endpoint update, push maps, relay, clean up | a record has a live thread; a served node is registered; nodes know of each other; maps settle |
| `coordinator.py` IPAllocator | key -> address in memory and in a JSON file | look up, allocate, save, load | an address identifies a key, across restarts |
| `mesh.Session` | packet counter, replay window | encrypt, decrypt | no packet twice, no nonce twice, reordering costs nothing within the window |
| `mesh.PeerConn` / `MeshNode` peer path | session, ephemeral keys, transport (connecting, derp, direct), `initiated`, queue of 32, `last_rx` | send, handshake, punch, upgrade, keepalive, fail over, re-punch | both ends hold the same session; nothing queued is stranded; a relayed pair gets back to a direct path; a dead direct path is left |
| `mesh` routes, exit node, source filter, names | the map | pure functions | the chosen route is the longest match, never the coordinator or an endpoint |
| `mesh._run_tun`, `netroute.py`, `nat.py`, `tun.py`, `meshdns.py` | kernel routes, ip_forward and rules, `resolv.conf` | apply, sync, tear down, crash and start again | tear-down restores what was there |
| `remote_desktop.SecureChannel`, `_auth`, `_relay_connect` | sequence numbers, key-stream counters, socket | send, recv, time out, reconnect | a channel that reports no error loses nothing |
| `remote_desktop` SOCKS multiplexer | stream and associate tables of both sides, one reader thread, a thread per stream | open, data, close, stop | streams end on both sides; nobody is stalled; tables stay bounded |
| `remote_desktop` host, viewer, pipe, clipboard | screen and input, last clipboard text | capture, show, inject, poll | clipboard text is not echoed |
| `mac-native` | a Swift viewer | connect, session | as SecureChannel |

What is hard here: the relay interleaves tasks at every `await`; the coordinator
sends maps outside its lock from many threads; a mesh node has four kinds of
threads on one PeerConn, over a network that loses, repeats and reorders; nodes
and the coordinator restart on their own; clean and unclean closes differ; and
almost every wait has a time-out that races with what it waits for.
`PROJECT.json` lists each hazard at its line with the properties about it.

## 2. Modules

| Module | Models | Refines |
|---|---|---|
| `ReplayWindow` | `mesh.Session` (one direction) | `OnceChannel` |
| `OnceChannel` | abstract: an unordered, lossy channel that never delivers twice | |
| `ReplayWindowProofs` | theorems about `ReplayWindow` | |
| `PeerPath` | the path between two mesh nodes: `PeerConn`, `_connect_worker`, `_handle_hs`, `_recv_data`, `_keepalive_loop`, `send` | |
| `PeerPathProofs` | theorems about `PeerPath` | |
| `Relay` | `relay.py` | |
| `RelayProofs` | theorems about `Relay` | |
| `Coordinator` | registry, map distribution and IPAllocator of `coordinator.py` | |
| `CoordinatorProofs` | theorems about `Coordinator` | |
| `SecureChannel` | `remote_desktop.SecureChannel`, one direction, and its rate limiter | `PrefixChannel` |
| `PrefixChannel` | abstract: what is received is at any time a prefix of what was sent | |
| `SecureChannelProofs` | theorems about `SecureChannel` | |
| `SocksMux` | `_SocksMux` and `_GatewayMux` of `remote_desktop.py` over one channel | |
| `SocksMuxProofs` | theorems about `SocksMux` | |
| `TunNode` | `_run_tun` with `netroute.py`, `nat.py`, `meshdns.py` and `tun.py` on Linux, over crashes and restarts | |
| `TunNodeProofs` | theorems about `TunNode` | |
| `MC*` | instances for TLC | |

The modules meet at their edges.  SecureChannel is the channel that Coordinator's
sessions, PeerPath's relay queue and both sides of SocksMux use; there it appears
as what SecureChannel is shown to give, an ordered stream that ends (a FIFO that may
break).  What Coordinator distributes is PeerPath's `Learn` and TunNode's
`MapArrives`.  PeerPath's session is one ReplayWindow per direction.

### ReplayWindow

`txCtr`, `rxMax`, `rxBits` are `_tx_ctr`, `_rx_max`, `_rx_bits` (as the set of
offsets whose bit is set; `ShiftIn` is `((bits << shift) | 1) & _MASK`).
`Take`/`Emit` split `encrypt` where the lock is released; `AcceptNewer`,
`AcceptOlder` and `Refuse` are the three ways through `decrypt`.  `wire` keeps
every packet, so any may arrive late or again.  The AEAD is the assumption that
only packets of the sender reach the window.  `times` and `lost` are history.

### PeerPath

One record per node stands for the PeerConn; a session is the pair of ephemerals
it was derived from, so two nodes can read each other iff the pairs are equal.
Steps are cut where a thread releases the PeerConn's lock or reads without it:
`RecvInit` (under the lock) / `SendResp` / `SendPayloads` (after it),
`KeeperSilent` (reads `transport`, `last_rx`) / `KeeperFailover` (under the lock),
`WorkerGiveUp` / `WorkerRearm`.  Datagrams are a set (lost while the path is
down, never consumed unless `Timely`, so they repeat), the coordinator's relay is
a FIFO.  Time is counted in keepalive intervals (`Tick`).  Abstracted away:
addresses, indices, endpoints (a path is up or down per direction), the AEAD.

`Timely = TRUE` says that, while the path is up, packets arrive within the code's
limits: 3 s for a RESP, 6 s for a worker, 15 s for a keepalive.  Liveness is only
claimed under it; `Timely = FALSE` (the untimed run) lets any packet be arbitrarily
late, lost or repeated, with bounds on ticks and workers instead.

### Relay

One `pc` per connection names the await its task is suspended at; the code
between two awaits is one action.  Two facts about asyncio shape the model: a
one-byte `drain()` yields only when the transport is already closing and then
raises (`regFails`, `pairFails`, `leaving`), and a peer's clean close leaves the
transport open (`link = "fin"`), unlike a reset or a dead link (`"lost"`) that TCP
reports sooner or later (`Notice`).  A connection whose socket is closed and
that no task uses stands for a new one, so behaviours are infinite and the
count of an address is exercised for ever.  A refused connection (sixth of an
address) is closed at once and leaves no trace.  On a bridge only the end of each
pipe is modelled; that a pipe with data to write eventually gets it written or
fails is assumed, so a peer that stays connected but stops reading is not covered.

### Coordinator

One session per control connection: `pc` follows `handle()` through admission,
`IPAllocator.get` (`NewAddress`, then `Save` with the allocator lock held),
installation (or `Malformed`, when a field of the registration is not what it should be
and the thread ends with the address allocated and no record), `_push_all` and the
serving loop to cleanup.  `_push_all` is
`Snapshot` (targets, under the lock), then per target `Compute` (the map, under
the lock) and `Send` (outside it); each thread runs its own, so they interleave.
Targets are served in any order (in the code: dictionary order; the counterexample
below does not depend on it).  `Crash` restarts from the state file at any point,
including inside a save.  `view` is the last map a node received, `told` every
session a map it received ever listed.  The proof of possession is abstracted: a
session's key is its own.  `_relay` has no state; its effect is the `derp` queue of
PeerPath.  Blocking sends are not modelled (a dead node's send fails at once).

### SecureChannel

`sent` is the order in which senders took `_wlock`; a frame travels as two halves,
the cut standing for any place inside a frame at which a time-out or a failed send
can fall.  `Begin`, `SendHead`, `SendBody`, `SendFails` are `send()` and
`send_multi()`; `Call` is the rate limit at the top of `recv()`; `TakeFirst`,
`TakeFrame`, `TooLarge`, `TimesOut`, `EndOfFile` are the ways through it.  The MAC
covers the sequence number, so a frame is accepted only if both halves belong to
the number expected; everything else ends the session.  `patient` says whether the
caller goes on after a time-out (the host's event loop does, the others do not);
`Careless` are the threads whose callers swallow the exception of a failed send.

### SocksMux

One set of variables per side: `table` is `self.streams` and `self.udp`, `thread[x][s]`
the place of the stream's own thread (the SOCKS handler with `_connect`,
`_udp_associate` and `_pump` at the entry, `_open`, `_udp_open` and `_pump` at the
exit), `reader` the place of `run()`, `stopper` a thread inside `stop()` between
setting `done` and clearing the tables.  The channel is a FIFO per direction that can
be cut (both ends see it) or go silent (only keepalives notice).  A socket closed
under a thread's blocked `recv()` stays connected until that call returns, which is
what Linux does.  `_pump` is two steps, `PumpReads` (a chunk has left the socket, the
thread holds it) and `PumpSends`, and so is the end of a successful `_connect`,
`WriteReply` and `SetReady`: between them the reader thread of the same side may write,
fail, remove the stream and send its MUX_CLOSE.  `replied` (the application has the
reply) and `cutOff` (streams that a failing reader closed) are history.
Sections under `self.lock` are single steps, except the one that
sends while it holds the lock (`Insert`).  A datagram of an associate keeps no state
and is left out.

### TunNode

`pc` walks through `Order`, the steps of `_run_tun`; those that the command line does
not ask for are skipped.  The main thread runs beside the control thread (`ctl`:
where it is in `_on_map`), `_resync`, and `udp`, which stands for every other thread
that calls back (`_handle_hs` after a handshake with the exit, `_ensure_connecting` when
a connection is begun); all call `sync_pins()` in two parts, the computation of the
addresses (`Compute`) and the call under the lock (`Sync`; the main thread's, the only
one Ctrl-C can divide, is `PinOne`, `NotePin`, `PinsDone`).

A change of the host and the note of it that the teardown reads are two steps: a pin
and `_pinned`, the LAN routes and `_lan`, the /1 routes and `_split` (`Install*`, `Note*`);
of `resolv.conf`, the truncation, the write, and `_applied` with `resolver_cfg`
(`OpenResolver`, `WriteResolver`, `NoteResolver`; `Restore`, `Rewrite` on the way back).
`Crash` may follow any step, `Interrupt` any step of the `try` block, and NatRefused,
RulesFail, NoExit, ListenFails, ResolverFails, WriteFails and RestoreFails are the
failures the code handles.  What was changed and never noted goes into `torn`, a history
variable like `repinned` and `crashes`.  Kernel state (`forward`, `nat`, `resolv`, `pins`,
`lan`) outlives the process, the TUN interface and what is routed into it does not
(`Gone`).

## 3. Runs

| Run | Question | Result |
|---|---|---|
| `replay_window` | window 3 over 7 counters, two symmetric sending threads: `TypeOK`, `AtMostOnce`, `LostOnlyOutsideWindow`, `NonceUnique`, `WindowExact`, and `PromiseSpec` (refinement of OnceChannel) | holds |
| `peer_path_untimed` | arbitrary delay, loss, repetition, a late map, two workers and a restart: `NothingStranded`, `ResponderHalfAgrees`, `WorkerArmed`, `SessionKept` | holds |
| `peer_path_timed` | an outage that heals, packets in time: `KeysAgree`, `QueuedLeaves`, `InitiatorUpgrades` | holds |
| `peer_path_restart` | `KeysAgree` when a node restarts | **violated** |
| `relay` | two hosts and a client in any roles: `TypeOK`, `EntryIsWatched`, `PairExclusive`, `SlotKept`, `TornDownTogether`, `LostHostLeaves` | holds |
| `relay_linger` | `StaleEntryLeaves` | **violated** |
| `coordinator` | joins, reconnects, updates and a crash: `TypeOK`, `RecordIsWatched`, `ServingIsRegistered`, `AllIntroduced`, `AddressesDiffer`, `AddressIdentifiesKey` | holds |
| `secure_channel` | torn frames, careless senders, time-outs, the rate: `PressFollowsItsMove`, `NothingAfterFailure`, `RateBounded`, `PromiseSpec` (refinement of PrefixChannel), `SentArrives` | holds |
| `socks_mux` | every order of open, data, close, stop and break: `WithinLimit`, `ReplyFirst` | holds |
| `socks_mux_ends` | a stream and an associate with chunks under way, fair threads: `EndIsTruthful`, `BothEndsLeave`, `BreakIsNoticed` | holds |
| `socks_close` | `CloseReachesApplication` | **violated** |
| `tun_node` | every command line, Ctrl-C and crashes anywhere: `TransportPinned`, `AcceptedIsRouted`, `NamesResolve`, `ReturnsClean`; with fair threads `PinsSettle` | holds |

Bounds, and why they are enough.  *replay_window*: a window of 3 has an interior
bit, an oldest bit and a newest bit; 7 counters let a packet fall two windows
behind.  *PeerPath*: `MaxEph` ephemerals in use at a time (they are recycled when
nobody holds them and no packet carries them), one or two workers per node, a
relay queue of a few messages, one outage; two nodes are the whole system, since
PeerConns do not interact.  *relay*: a host, one that replaces or competes with
it, and a client; two device ids for a table of one; two admitted per address.
*coordinator*: two nodes and a second session of one of them; one event out of
endpoint update, departure, failed save and restart.  *secure_channel*: one thread
that presses and one that pings, four frames (a pair and one on either side of it),
room for one frame in the buffers, two calls per window and time for a window and
a half, so that the double rate around its end occurs.  *socks_mux*: two CONNECT
requests and an associate, of which two are made; one place for a stream, so that
the limit is met; one chunk.  *socks_mux_ends*: one of either
kind, two chunks, so that one is under way when the other end closes, and one may be in a
pump's hands when the reader beside it fails to write the other; with one CONNECT stream
the limit is not met behind `_open`, so the wedged gateway does not occur in it.
*tun_node*: six command lines, one
feature each (two where an option changes the outcome), two starts, so that one finds
what the other left; one endpoint beside the coordinator, so that copies of the addresses
differ; two subnets, three changes per start.
`CHECK_DEADLOCK FALSE` stands where a bound, the end of a session, or sockets that
are never closed let the model stop where the program would wait for more work.

Fairness.  Threads and asyncio tasks that can run do run (`WF` per thread), the
15 s timers fire, TCP reports a dead peer, a map that has been pushed arrives
(`Learn`), time passes (`Tick`); `HealingSpec` adds that an outage ends.
SecureChannel: a send that has begun goes on or fails, and its receiver keeps calling.
SocksMux: reader and stream threads, time-outs and the keepalive loop; applications
and servers read what they are sent (`sendall` in the single reader thread waits for
them, `remote_desktop.py:1009`), and nobody has to write or to close.  TunNode: the
main thread's set-up and its look at `done` every second, the teardown, the control
thread inside `_on_map`, `_resync` every 2 s, and a `sync_pins()` that was called; maps,
handshakes, Ctrl-C, crashes and starts need not come.  Nothing is assumed of the
application, of peers closing, or of
restarts.

### What the violations show

* **relay_linger**: `relay.py:130` waits for `is_closing()`, which a clean close
  by the peer never makes true; the entry, its task and its share of the
  address's five connections stay.  `relay.py:133`: "so stale entries never linger".
* **peer_path_restart**: a restarted node's INIT is answered with the old
  ephemeral (`mesh.py:737-748`); the two keep different keys.
* **socks_close**: the SOCKS side closes a socket while the stream's own thread is
  inside `recv()` on it (`remote_desktop.py:898`); on Linux the call goes on and no
  FIN is sent, so the application is not told that the server has closed.

### Exceptions that properties name

A property that holds but for one behaviour of the code names that behaviour:
`SlotKept`: `relay.py:124` empties the slot of a failed registration even when another
host has taken it in between.  `AddressIdentifiesKey`: until a save fails.
`SentArrives`: a patient receiver out of step with the frames that gets no more bytes
waits for ever (`remote_desktop.py:946`).  `BothEndsLeave`: a stream whose handler gave
up after 15 s stays at the gateway (`1050`).  `BothEndsLeave`, `BreakIsNoticed`: a gateway
that calls `stop()` while it holds the lock `stop()` needs (`1170`); a gateway whose
channel went silent, as it never sends on its own.  `EndIsTruthful`: the chunk a
pump has read, or gets from the `recv()` it is in (`931`), when the reader of its own side fails to write, removes the stream
and sends MUX_CLOSE (`1010-1012`, `1144`); it follows the MUX_CLOSE and is dropped, with
the tunnel up.  It is at most one, since the next `recv()` is on a closed socket.

`TransportPinned`: Ctrl-C between the /1 routes and `_split = True` (`netroute.py:136-141`);
`teardown()` then unpins and leaves the default route in the tunnel until the device is
closed.  `ReturnsClean`: what was changed and not noted (see below); a
`sync_pins()` after `teardown()` (`mesh.py:1080`); and whatever a crash before left:
ip_forward, for instance, is never switched off again (`nat.py:124`).  `NamesResolve`: the
moment of a write, and a write that got no further than the truncation; and without
`--dns-upstream` a start after a crash or after a `resolv.conf` that was not put back,
which takes the program's own file for the host's and leaves the host without a resolver
(`meshdns.py:133-139`, `176`).

### Known weaknesses that no run shows

Stated in the modules as properties that fail: `PeerPath.ResponderUpgrades` (after a
one-sided failover at the responder no INIT is ever sent again, `mesh.py:847`, `878`,
against README 450-451); `PeerPath.SilentPathFailsOver` (relayed traffic refreshes
`last_rx`, `mesh.py:787`, so a dead direct path is kept); `Coordinator.MapsSettle` (of two
concurrent pushes the older map may come last, `coordinator.py:149`);
`TunNode.LeavesNoRoute` (a route is added before it is recorded, `netroute.py:109`, `129`, and
Ctrl-C in between goes to a teardown that removes only what is recorded, against the
comment at `mesh.py:1048`); `TunNode.RestoresResolver` (`resolv.conf` is truncated, written, and
only then noted, `meshdns.py:179-184`, `mesh.py:1100`; Ctrl-C in between, or a failed write,
ends in a process that returns by itself and leaves the file empty or pointed at a
stopped server, against `meshdns.py:154-155`).

Read in the code and not stated: a `connect` or relayed INIT that overtakes the map is
dropped and nothing repeats it (`mesh.py:676`); joins check the capacity before they
install their record and can exceed `MAX_NODES` (`coordinator.py:190`); a send to a node
that no longer reads holds up the pushing thread for up to 120 s (`coordinator.py:149`);
a host that waits for a client gives up after 30 s while the relay keeps its entry
(`remote_desktop.py:221`); an application that does not read stalls every stream
(`remote_desktop.py:1009`); an associate opened while `stop()` clears the table keeps
its socket (`1181`); a received clipboard text races with the local poll and may be sent
back (`549`); a route removed between the first copy of the table and its installation
is installed and stays (`mesh.py:1027-1030`); SIGTERM, and Ctrl-C before the `try` block,
run no `finally` (`mesh.py:1055`).

## 4. Proofs

All theorems hold for every value of the constants that the module's named
assumption allows (disjoint sets, limits in Nat, `None` and the words for a thread's
place outside the sets).

`ReplayWindowProofs`: `TypeCorrect`, `NoReplay` (`AtMostOnce`), `WindowIsExact` (`WindowExact`),
`ReorderingWithinWindowIsFree` (`LostOnlyOutsideWindow`), `NoncesNeverRepeat`
(`NonceUnique`) and `KeepsPromise` (the refinement of `OnceChannel`).  The inductive
invariant says that the bits describe exactly the delivered packets of the window:
for every counter c at most `rxMax` and less than a window behind it, bit
`rxMax - c` is set iff c was delivered; and that counters on the wire or in a thread's
hands are distinct and below `txCtr`.  `AtMostOnce` alone is not inductive: without the
exactness of the bits nothing relates `Replayed` to what was delivered.

`RelayProofs`: `TypeCorrect`, `Watched` (`EntryIsWatched`), `Exclusive`
(`PairExclusive`) and `Kept` (`SlotKept`).  The inductive invariant adds that the
host of a bridge is a connection whose own task is past registration, that no
other bridge has it, and that a host's entry is under the id it registered.

`CoordinatorProofs`: `TypeCorrect`, `RecordsAreWatched`, `ServedAreRegistered`,
`EveryoneIsIntroduced` (`AllIntroduced`), `AddressesAreDifferent`,
`AddressesAreStable`. `RegInv` takes the two registry properties together, which
need each other. For `AllIntroduced` the invariant (`Introduced`) says that one has
been told of the other, or that the thread of one of the two will tell it: it has
yet to take its snapshot, or has the one among its targets and no letter for it that
leaves the other out. `AddressInv` is three parts: memory is injective and contains
the file, a record carries its key's address, and while no save has failed the file
lacks only the address being saved.

`PeerPathProofs`: `TypeCorrect`, `NothingIsStranded`, `WorkersAreArmed`, `SessionsAreKept`,
`ResponderHalvesAgree`.  The first four need the types and that a seal is sent under
the session (`TypeInv`).  For the last, `HalfInv` says that only the responder's
ephemeral is ever carried by an answer: every RESP on either path, and every session of
the initiator, holds the responder's current one, which changes only in a restart.

The initiator's half is another matter, because a worker that gives up makes the
initiator forget its ephemeral (`Forgets`, the re-arming of `_connect_worker`), while a
responder that has derived a session keeps it.  `KeysAgreeUntilForgotten` says that,
timely or not, `KeysAgree` holds as long as no such step and no restart is taken.
`AgreeInv`: until the initiator has a session, its workers, its INITs under way and the
session the responder made of one all carry the ephemeral it holds now.
`KeysAgreeInTime` then shows that under `Timely` and without a late map the initiator
never forgets, so that only a restart can make keys differ.  `OnTime`: both nodes
know each other, and while the initiator has no session no worker of it is about to
re-arm, and one that has sent its INIT over the relay still has the INIT, the answer
being written, or the RESP on its way (`OnRelay`), which is what keeps it from giving up.
Both hypotheses are those of the run `peer_path_timed`, and both are needed: a late map
makes the responder drop the relayed INIT, a second INIT over UDP may then be answered
on a path that has died the other way, the initiator gives up, and the two differ.

`SecureChannelProofs`: `FailureIsFinal` (`NothingAfterFailure`), `ChannelKeepsItsPromise`
(the refinement of `PrefixChannel`), `PressesStayTogether`, `RateIsBounded`.  `IInv`: the
halves in the pipe are halves of `sent` in order, the last frame alone may be
incomplete, and a torn frame never gets its second half.  `RateInv` describes the calls of
the present window and the one before it (`Windows`), which is what bounds
any two windows' worth.

`TunNodeProofs`: `TransportKeepsOut` (`TransportPinned`), `HostResolves` (`NamesResolve`),
`AcceptedGetRouted` (`AcceptedIsRouted`), `HostIsRestored` (`ReturnsClean`).  `PinInv`: what a
thread is about to pin contains the coordinator, what is recorded is pinned, and while
the /1 routes stand they are recorded, about to be, or torn, and the coordinator is
recorded until the teardown has taken them away.  `NameInv`: while `resolv.conf` is not
the host's own, the program holds a backup that is and a server that listens, or the
file is torn.
`RouteInv`: the table is contained in what the kernel will have once the callback that
is under way has run (`Effective`).  `QuietInv` and `CleanInv`: nobody pins before the
callback is set, so that every pin and LAN route is recorded, torn, or the one the main
thread is adding, and what `apply()` found is what `cleanup()` will restore.
`Following` writes the order of the
steps out once, for all of them.

`SocksMuxProofs`: `LimitHolds` (`WithinLimit`), `ReplyComesFirst` (`ReplyFirst`),
`EndsAreTruthful` (`EndIsTruthful`).  For the first two, every step
either puts no CONNECT stream into a table, or one into a table with room (`TableStep`:
the look at the limit and the insertion are one locked section, whatever other
threads do); and it writes to an application only if that had its reply or an earlier
chunk (`WrittenStep`).  `NextKeeps` shows this action by action.  For the reply, `Answers`
adds that the handler sets `ready` only after it has written: `ready` is what the reader
waits for, `replied` what the application has.

`EndIsTruthful` relates two sockets at opposite ends of the tunnel, and nothing like it
is inductive.  `EndInv`, which holds while the channel is up, says of every CONNECT
stream (`Good`): what the gateway has not put into its table has carried nothing, and
neither end has been told otherwise (`Opening`, `Blank`); a reply, once given, means that
the handler pumps or has ended (`Replied`); and of a stream that has its reply or may
still get it (`Live`), each direction (`Carries`) is a pipe: chunks read at one end equal
those written at the other plus the MUX_DATA under way, the one in the reader's hands
and the one the pump holds.  A MUX_CLOSE has no MUX_DATA behind it (`Ordered`), unless the
sending side's reader closed the stream (`cutOff`), and then at most one (`Nearly`): the
one its pump held.  A socket is closed, or a MUX_CLOSE under way, only if one of the two
ends has shut.  The order is what makes the rest inductive: when MUX_CLOSE arrives,
nothing before it is left, and behind it is at most what the property excepts.  `Count` and its
lemmas say what sending and taking a frame does to the frames of one stream;
`OthersGood` that a step about one stream leaves the others as they were.

Every invariant that a run checks is thus a theorem, `Timely` being a hypothesis of
`KeysAgreeInTime`.  Only model-checked is liveness, which is out of the
prover's reach: `TornDownTogether`, `LostHostLeaves`, `QueuedLeaves`, `InitiatorUpgrades`,
`SentArrives`, `BothEndsLeave`, `BreakIsNoticed`, `PinsSettle`.

## 5. Not modelled, and what is left

Without state of their own, so that a model would repeat the code: the routing
decisions of the mesh (`build_route_table`, `match_route`, `route_is_safe`, the source
filter, names), DNS messages, SOCKS5 parsing and the allow list, TUN framing, the packet
pump, pipe mode, the STUN responder.  Pure input and output: screen, mouse and keyboard,
the identity file, deployment files.  Sequential, with nothing to interleave:
`_relay_connect`, `_auth`, the reconnect loops.  Cryptography is assumed: keys are pairs of
ephemerals, a MAC is the number it binds, the proof of possession always tells the
truth.  macOS variants (resolver file, routes, the socket that wakes its reader) are
left out, and so is the Swift viewer, a second implementation of SecureChannel's
receiver.

What could be added: the clipboard's poll against a received text; Coordinator and
PeerPath composed, so that a stale map
becomes a late `Learn`.  Components and their status, with reasons, are in `PROJECT.json`.
