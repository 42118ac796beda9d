------------------------------- MODULE Relay -------------------------------
(***************************************************************************)
(* The rendezvous relay (relay.py): one asyncio task per TCP connection.    *)
(*                                                                          *)
(* A step of a task runs undisturbed from one await to the next.  The        *)
(* one-byte writes of 'R', 'P', 'N' and 'D' never fill a buffer, so their    *)
(* drain() gives up control only when the transport is already closing,     *)
(* and then raises; a write to a peer that is gone may still seem to         *)
(* succeed.  Connections are a fixed set that is used over and over.         *)
(***************************************************************************)
EXTENDS Integers, FiniteSets

CONSTANTS Conns,          \* TCP connections
          Ips,            \* the addresses they come from
          Rids,           \* device ids
          None,
          MaxConnsPerIp,  \* MAX_CONNS_PER_IP, 5 in the code
          MaxHosts        \* MAX_HOSTS, 10000 in the code

ASSUME RelayAssumption ==
  /\ IsFiniteSet(Conns)
  /\ None \notin Conns \cup Rids \cup Ips
  /\ MaxConnsPerIp \in Nat \ {0}
  /\ MaxHosts \in Nat \ {0}

VARIABLES pc,       \* where the connection's task is suspended
          link,     \* the transport: "up", "closing" (writer.is_closing()); or the peer's
                    \* end is gone, by a clean close ("fin"), or reset or dead ("lost")
          ip,       \* the address the connection comes from
          rid,      \* the device id the connection registered
          mate,     \* the host a client has taken from the table
          pipes,    \* the _pipe() tasks of a client's bridge that still run
          hosts,    \* the table: device id -> waiting host
          count     \* conns_per_ip

vars == <<pc, link, ip, rid, mate, pipes, hosts, count>>

PCs  == {"header", "leaving", "regFails", "hold", "pairFails", "bridge", "done"}
Ways == {"toHost", "toClient"}

TypeOK ==
  /\ pc \in [Conns -> PCs]
  /\ link \in [Conns -> {"up", "fin", "lost", "closing"}]
  /\ ip \in [Conns -> Ips \cup {None}]
  /\ rid \in [Conns -> Rids \cup {None}]
  /\ mate \in [Conns -> Conns \cup {None}]
  /\ pipes \in [Conns -> SUBSET Ways]
  /\ hosts \in [Rids -> Conns \cup {None}]
  /\ count \in [Ips -> 0 .. MaxConnsPerIp]

Init ==
  /\ pc = [c \in Conns |-> "done"]
  /\ link = [c \in Conns |-> "closing"]
  /\ ip = [c \in Conns |-> None]
  /\ rid = [c \in Conns |-> None]
  /\ mate = [c \in Conns |-> None]
  /\ pipes = [c \in Conns |-> {}]
  /\ hosts = [r \in Rids |-> None]
  /\ count = [i \in Ips |-> 0]

-----------------------------------------------------------------------------
closing(c) == link[c] = "closing"

(* Writing a byte to connection c: it may seem to succeed while the          *)
(* transport is open, and may fail once the peer is gone.                    *)
WriteWorks(c) == ~closing(c)
WriteFails(c) == link[c] # "up"

(* writer.close() of the connections in cs.                                  *)
Close(cs) == [c \in Conns |-> IF c \in cs THEN "closing" ELSE link[c]]

(* The finally of handle(): the task ends, its locals are gone and its       *)
(* address is uncounted.                                                     *)
Leave(c) ==
  /\ pc' = [pc EXCEPT ![c] = "done"]
  /\ ip' = [ip EXCEPT ![c] = None]
  /\ rid' = [rid EXCEPT ![c] = None]
  /\ mate' = [mate EXCEPT ![c] = None]
  /\ count' = [count EXCEPT ![ip[c]] = @ - 1]

(* Close c and return; when the farewell byte could not be written, drain()  *)
(* yields first.                                                             *)
TurnAway(c) ==
  /\ \/ WriteWorks(c) /\ Leave(c)
     \/ WriteFails(c) /\ pc' = [pc EXCEPT ![c] = "leaving"] /\ UNCHANGED <<ip, rid, mate, count>>
  /\ link' = Close({c})
  /\ UNCHANGED <<pipes, hosts>>

-----------------------------------------------------------------------------
(* handle(): the connections of one address are limited.  A refused          *)
(* connection is closed at once and leaves no trace.                         *)
AdmittedOneMore(i) == count[i] <= MaxConnsPerIp          \* slip: off by one
Admitted(i) == count[i] < MaxConnsPerIp

(* A closed connection that no task uses any more stands for a new one.      *)
Unused(c) == pc[c] = "done" /\ closing(c) /\ \A d \in Conns : mate[d] # c

Accept(c, i) ==
  /\ Unused(c)
  /\ Admitted(i)
  /\ ip' = [ip EXCEPT ![c] = i]
  /\ pc' = [pc EXCEPT ![c] = "header"]
  /\ link' = [link EXCEPT ![c] = "up"]
  /\ count' = [count EXCEPT ![i] = @ + 1]
  /\ UNCHANGED <<rid, mate, pipes, hosts>>

(* No nine bytes within 15 s, or an unknown role.                            *)
HeaderFails(c) ==
  /\ pc[c] = "header"
  /\ link' = Close({c})
  /\ Leave(c)
  /\ UNCHANGED <<pipes, hosts>>

-----------------------------------------------------------------------------
(* Role 'H'.                                                                 *)
TableFull(r) == hosts[r] = None /\ Cardinality({q \in Rids : hosts[q] # None}) >= MaxHosts

Occupied(c, r) ==
  hosts[r] # None /\ ~closing(hosts[r]) /\ ip[hosts[r]] # ip[c]

RefuseFull(c, r) ==
  /\ pc[c] = "header"
  /\ TableFull(r)
  /\ link' = Close({c})
  /\ Leave(c)
  /\ UNCHANGED <<pipes, hosts>>

RefuseOccupied(c, r) ==
  /\ pc[c] = "header"
  /\ Occupied(c, r)
  /\ TurnAway(c)

(* The stale entry is evicted, the newcomer takes the slot and is told 'R'.  *)
Register(c, r) ==
  /\ pc[c] = "header"
  /\ ~TableFull(r) /\ ~Occupied(c, r)
  /\ rid' = [rid EXCEPT ![c] = r]
  /\ hosts' = [hosts EXCEPT ![r] = c]
  /\ \/ WriteWorks(c) /\ pc' = [pc EXCEPT ![c] = "hold"]
                      /\ link' = Close({hosts[r]})
     \/ WriteFails(c) /\ pc' = [pc EXCEPT ![c] = "regFails"]
                      /\ link' = Close({hosts[r], c})
  /\ UNCHANGED <<ip, mate, pipes, count>>

(* drain() of the 'R' has raised: the slot is emptied whoever holds it now.  *)
RegisterGivesUp(c) ==
  /\ pc[c] = "regFails"
  /\ hosts' = [hosts EXCEPT ![rid[c]] = None]
  /\ Leave(c)
  /\ UNCHANGED <<link, pipes>>

(* The holding loop looks every 15 s whether there is still a reason to      *)
(* wait; when it ends, the host's own entry is removed.                      *)
StillHeldIfEntry(c) == hosts[rid[c]] = c                 \* slip: is_closing() forgotten
StillHeld(c) == ~closing(c) /\ hosts[rid[c]] = c

ClearedAnyEntry(c) == [hosts EXCEPT ![rid[c]] = None]    \* slip: "is entry" forgotten
ClearedNever(c)    == hosts                              \* slip: no finally
Cleared(c) == IF hosts[rid[c]] = c THEN [hosts EXCEPT ![rid[c]] = None] ELSE hosts

Wake(c) ==
  /\ pc[c] = "hold"
  /\ ~StillHeld(c)
  /\ hosts' = Cleared(c)
  /\ Leave(c)
  /\ UNCHANGED <<link, pipes>>

-----------------------------------------------------------------------------
(* Role 'C'.                                                                 *)
RefuseNoHost(c, r) ==
  /\ pc[c] = "header"
  /\ hosts[r] = None
  /\ TurnAway(c)

TakenStays(r) == hosts                                   \* slip: get() for pop()
Taken(r) == [hosts EXCEPT ![r] = None]

(* The host leaves the table; both sides are told 'P', the host first.       *)
Pair(c, r) ==
  /\ pc[c] = "header"
  /\ hosts[r] # None
  /\ LET h == hosts[r] IN
     /\ mate' = [mate EXCEPT ![c] = h]
     /\ hosts' = Taken(r)
     /\ \/ /\ WriteWorks(h) /\ WriteWorks(c)
           /\ pc' = [pc EXCEPT ![c] = "bridge"]
           /\ pipes' = [pipes EXCEPT ![c] = Ways]
           /\ UNCHANGED link
        \/ /\ \/ WriteFails(h) /\ link' = Close({h})
              \/ WriteWorks(h) /\ WriteFails(c) /\ link' = Close({c})
           /\ pc' = [pc EXCEPT ![c] = "pairFails"]
           /\ UNCHANGED pipes
  /\ UNCHANGED <<ip, rid, count>>

PairGivesUp(c) ==
  /\ pc[c] = "pairFails"
  /\ link' = Close({c, mate[c]})
  /\ Leave(c)
  /\ UNCHANGED <<pipes, hosts>>

(* The end a pipe of c's bridge reads from, and the end it writes to.        *)
Source(c, way) == IF way = "toHost" THEN c ELSE mate[c]
Sink(c, way)   == IF way = "toHost" THEN mate[c] ELSE c

(* A pipe that ends closes the writer it fed.                                *)
PipeClosesNothing(c, way) == link                        \* slip: no finally
PipeCloses(c, way) == Close({Sink(c, way)})

PipeStops(c, way) ==
  /\ pipes' = [pipes EXCEPT ![c] = @ \ {way}]
  /\ link' = PipeCloses(c, way)
  /\ UNCHANGED <<pc, ip, rid, mate, hosts, count>>

(* read() returns no data or raises ...                                      *)
PipeEof(c, way) ==
  /\ way \in pipes[c]
  /\ link[Source(c, way)] \in {"fin", "closing"}
  /\ PipeStops(c, way)

(* ... or there was data and drain() raises.                                 *)
PipeBreaks(c, way) ==
  /\ way \in pipes[c]
  /\ WriteFails(Sink(c, way))
  /\ PipeStops(c, way)

(* gather() of both pipes returns.                                           *)
BridgeEnds(c) ==
  /\ pc[c] = "bridge" /\ pipes[c] = {}
  /\ Leave(c)
  /\ UNCHANGED <<link, pipes, hosts>>

(* A turned-away connection whose drain() yielded.                           *)
Depart(c) ==
  /\ pc[c] = "leaving"
  /\ Leave(c)
  /\ UNCHANGED <<link, pipes, hosts>>

-----------------------------------------------------------------------------
(* The peer closes cleanly.  asyncio then stops reading but keeps the         *)
(* transport open (eof_received() returns True) ...                          *)
PeerFin(c) ==
  /\ link[c] = "up"
  /\ link' = [link EXCEPT ![c] = "fin"]
  /\ UNCHANGED <<pc, ip, rid, mate, pipes, hosts, count>>

(* ... or the peer's machine or link dies ...                                *)
PeerLost(c) ==
  /\ link[c] = "up"
  /\ link' = [link EXCEPT ![c] = "lost"]
  /\ UNCHANGED <<pc, ip, rid, mate, pipes, hosts, count>>

(* ... and the reset, or the TCP keepalive _keepalive() asked for, tells.     *)
Notice(c) ==
  /\ link[c] = "lost"
  /\ link' = Close({c})
  /\ UNCHANGED <<pc, ip, rid, mate, pipes, hosts, count>>

-----------------------------------------------------------------------------
(* What a suspended task does when its wait is over, whatever the peer does. *)
Resume(c) ==
  \/ HeaderFails(c) \/ RegisterGivesUp(c) \/ Wake(c) \/ PairGivesUp(c)
  \/ BridgeEnds(c) \/ Depart(c) \/ Notice(c)
  \/ \E way \in Ways : PipeEof(c, way)

Next ==
  \E c \in Conns :
    \/ (\E i \in Ips : Accept(c, i)) \/ Resume(c) \/ PeerFin(c) \/ PeerLost(c)
    \/ \E r \in Rids :
         RefuseFull(c, r) \/ RefuseOccupied(c, r) \/ Register(c, r)
           \/ RefuseNoHost(c, r) \/ Pair(c, r)
    \/ \E way \in Ways : PipeBreaks(c, way)

Spec == Init /\ [][Next]_vars

(* asyncio runs every ready task, the 15 s timers fire, an end of file is     *)
(* read, TCP reports a dead peer.  Nothing is assumed of peers.              *)
FairSpec == Spec /\ \A c \in Conns : WF_vars(Resume(c))

-----------------------------------------------------------------------------
(* Properties. *)

(* A client that is being, or has been, connected to host c.                 *)
TakenBy(d, c) == pc[d] \in {"bridge", "pairFails"} /\ mate[d] = c

(* Every entry of the table has a task that watches it: a host that is gone   *)
(* from the relay's tasks is not offered to clients.                         *)
EntryIsWatched ==
  \A r \in Rids : hosts[r] # None =>
    pc[hosts[r]] \in {"hold", "regFails"} /\ rid[hosts[r]] = r

(* A host that was told 'R' and is still connected.                          *)
Waiting(c) == pc[c] = "hold" /\ ~closing(c)

(* A waiting host keeps the slot in which clients find it until a client       *)
(* takes it or a host from its own address evicts it: no cleanup of an older   *)
(* registration empties it and no other address displaces it.  The one         *)
(* exception is the code's: a registration whose 'R' failed empties the slot   *)
(* whoever holds it (relay.py:124).                                          *)
KeepsSlot(c) ==
  Waiting(c) /\ hosts[rid[c]] = c /\ hosts'[rid[c]] # c
    => \/ \E d \in Conns : TakenBy(d, c)'
       \/ \E d \in Conns : hosts'[rid[c]] = d /\ ip[d] = ip[c]
       \/ \E d \in Conns : pc[d] = "regFails" /\ rid[d] = rid[c]

SlotKept == [][\A c \in Conns : KeepsSlot(c)]_vars

(* A host is given to one client only, and is not in the table any more.     *)
PairExclusive ==
  /\ \A c, d \in Conns : pc[c] = "bridge" /\ pc[d] = "bridge" /\ c # d => mate[c] # mate[d]
  /\ \A c \in Conns, r \in Rids : pc[c] = "bridge" => hosts[r] # mate[c]

(* When one end of a bridge is gone, both transports are closed: neither side *)
(* is left talking to nobody.                                                *)
TornDownTogether ==
  \A c \in Conns :
    pc[c] = "bridge" /\ (link[c] # "up" \/ link[mate[c]] # "up")
      ~> pc[c] = "bridge" /\ closing(c) /\ closing(mate[c])

(* Host c is in the table.                                                   *)
Listed(c) == \E r \in Rids : hosts[r] = c

(* A waiting host whose link died leaves the table (keepalive, is_closing()). *)
LostHostLeaves == \A c \in Conns : Listed(c) /\ link[c] = "lost" ~> ~Listed(c)

(* "Always clean up so stale entries never linger": a host that is gone, in   *)
(* whichever way, leaves the table.                                          *)
StaleEntryLeaves == \A c \in Conns : Listed(c) /\ link[c] # "up" ~> ~Listed(c)
=============================================================================
