---------------------------- MODULE Coordinator ----------------------------
(***************************************************************************)
(* The mesh coordinator (coordinator.py): the registry of nodes, the         *)
(* overlay-address allocator with its state file, and the distribution of    *)
(* the network map.                                                         *)
(*                                                                          *)
(* One thread per control connection runs Coordinator.handle().  The         *)
(* registry lock and the allocator lock are held only for single lookups     *)
(* and updates; every thread sends maps from its own _push_all(), so the     *)
(* snapshot of the targets, the computation of each map and its sending      *)
(* interleave with the other threads.  A session is one control connection   *)
(* and the record the coordinator keeps of it.                               *)
(***************************************************************************)
EXTENDS Integers, FiniteSets

CONSTANTS Sessions,    \* control connections, each used once
          Keys, KeyOf, \* public keys, and the key a session proves it holds
          MaxNodes,    \* MAX_NODES, 1024 in the code
          None,
          MaxEvents    \* bound: endpoint updates, nodes that go away, failed saves
                       \* and restarts of the coordinator, together

ASSUME CoordinatorAssumption ==
  /\ IsFiniteSet(Keys) /\ KeyOf \in [Sessions -> Keys]
  /\ None \notin Sessions \cup Keys \cup Nat
  /\ MaxNodes \in Nat \ {0}
  /\ MaxEvents \in Nat

VARIABLES pc,         \* where the session's thread is
          chan,       \* the control channel: "open", or "dead" on either side
          nodes,      \* _nodes: key -> the session whose record is registered
          eps,        \* the record's endpoints, as the number of their last update
          addr,       \* the record's overlay address
          memory,     \* IPAllocator._map
          disk,       \* the state file
          saveFailed, \* has an address not reached the state file?
          todo,       \* the targets the session's _push_all() has yet to send to
          letter,     \* the map it has computed and not yet sent
          view,       \* the map the node behind the session received last
          told,       \* the sessions any map it received has listed
          events

handlerVars == <<pc, chan, nodes, eps>>
addressVars == <<addr, memory, disk, saveFailed>>
pushVars    == <<todo, letter, view, told>>
vars == <<pc, chan, nodes, eps, addr, memory, disk, saveFailed,
          todo, letter, view, told, events>>

Addrs   == 1 .. Cardinality(Keys)  \* of the overlay network, which never runs out
Entries == Sessions \X (0 .. MaxEvents)
Working == {"alloc", "save", "install", "snap", "push", "serve",
            "snapDown", "pushDown"}
Up      == {"snap", "push", "serve"}

TypeOK ==
  /\ pc \in [Sessions -> {"new", "gone"} \cup Working]
  /\ chan \in [Sessions -> {"open", "dead"}]
  /\ nodes \in [Keys -> Sessions \cup {None}]
  /\ eps \in [Sessions -> 0 .. MaxEvents]
  /\ addr \in [Sessions -> Addrs \cup {None}]
  /\ memory \in [Keys -> Addrs \cup {None}]
  /\ disk \in [Keys -> Addrs \cup {None}]
  /\ saveFailed \in BOOLEAN
  /\ todo \in [Sessions -> SUBSET Sessions]
  /\ DOMAIN letter = Sessions
  /\ \A s \in Sessions : letter[s] = None \/ /\ letter[s] \in [to : todo[s], map : SUBSET Entries]
                                             /\ \A e \in letter[s].map : KeyOf[e[1]] # KeyOf[letter[s].to]
  /\ view \in [Sessions -> SUBSET Entries]
  /\ told \in [Sessions -> SUBSET Sessions]
  /\ events \in 0 .. MaxEvents

Init ==
  /\ pc = [s \in Sessions |-> "new"]
  /\ chan = [s \in Sessions |-> "open"]
  /\ nodes = [k \in Keys |-> None]
  /\ eps = [s \in Sessions |-> 0]
  /\ addr = [s \in Sessions |-> None]
  /\ memory = [k \in Keys |-> None]
  /\ disk = [k \in Keys |-> None]
  /\ saveFailed = FALSE
  /\ todo = [s \in Sessions |-> {}]
  /\ letter = [s \in Sessions |-> None]
  /\ view = [s \in Sessions |-> {}]
  /\ told = [s \in Sessions |-> {}]
  /\ events = 0

Goto(s, where) == pc' = [pc EXCEPT ![s] = where]
Registered(s) == nodes[KeyOf[s]] = s
Event == events < MaxEvents /\ events' = events + 1
Present == {nodes[k] : k \in {j \in Keys : nodes[j] # None}}

-----------------------------------------------------------------------------
(* Joining. *)

Full(s) == Cardinality(Present) >= MaxNodes /\ nodes[KeyOf[s]] = None

(* The token and the proof of possession are accepted (which touches no       *)
(* shared state), and there is room in the registry ...                      *)
Admit(s) ==
  /\ pc[s] = "new"
  /\ ~Full(s)
  /\ Goto(s, "alloc")
  /\ UNCHANGED <<chan, nodes, eps, addressVars, pushVars, events>>

(* ... or not: the authentication fails, or the registry is full.            *)
TurnAway(s) ==
  /\ pc[s] = "new"
  /\ Goto(s, "gone")
  /\ chan' = [chan EXCEPT ![s] = "dead"]
  /\ UNCHANGED <<nodes, eps, addressVars, pushVars, events>>

(* IPAllocator.get(), under its lock from the lookup to the end of _save().  *)
AllocatorFree == \A s \in Sessions : pc[s] # "save"

UsedOnDisk == {disk[k] : k \in Keys}                     \* slip: what was saved
Used == {memory[k] : k \in Keys}

KnownAddress(s) ==
  /\ pc[s] = "alloc" /\ AllocatorFree
  /\ memory[KeyOf[s]] # None
  /\ addr' = [addr EXCEPT ![s] = memory[KeyOf[s]]]
  /\ Goto(s, "install")
  /\ UNCHANGED <<chan, nodes, eps, memory, disk, saveFailed, pushVars, events>>

NewAddress(s) ==
  /\ pc[s] = "alloc" /\ AllocatorFree
  /\ memory[KeyOf[s]] = None
  /\ \E a \in Addrs \ Used :
       /\ \A b \in Addrs \ Used : a <= b
       /\ memory' = [memory EXCEPT ![KeyOf[s]] = a]
  /\ Goto(s, "save")
  /\ UNCHANGED <<chan, nodes, eps, addr, disk, saveFailed, pushVars, events>>

(* _save(): a temporary file replaces the state file, or a warning is printed. *)
Save(s) ==
  /\ pc[s] = "save"
  /\ \/ disk' = memory /\ UNCHANGED <<saveFailed, events>>
     \/ Event /\ saveFailed' = TRUE /\ UNCHANGED disk
  /\ addr' = [addr EXCEPT ![s] = memory[KeyOf[s]]]
  /\ Goto(s, "install")
  /\ UNCHANGED <<chan, nodes, eps, memory, pushVars>>

(* The record replaces the one of an earlier session, which is closed.       *)
Evicted(s) == [t \in Sessions |-> IF t = nodes[KeyOf[s]] THEN "dead" ELSE chan[t]]

Install(s) ==
  /\ pc[s] = "install"
  /\ chan' = Evicted(s)
  /\ nodes' = [nodes EXCEPT ![KeyOf[s]] = s]
  /\ Goto(s, "snap")
  /\ UNCHANGED <<eps, addressVars, pushVars, events>>

(* ... or a field of the registration is malformed: the thread ends before there     *)
(* is a record, and the key keeps its address.                                *)
Malformed(s) ==
  /\ pc[s] = "install"
  /\ Goto(s, "gone")
  /\ chan' = [chan EXCEPT ![s] = "dead"]
  /\ UNCHANGED <<nodes, eps, addressVars, pushVars, events>>

-----------------------------------------------------------------------------
(* _push_all(), run by the thread of session s. *)

(* The network map for the node of session x: everyone registered but its key. *)
MapForAll(x) == {<<n, eps[n]>> : n \in Present}           \* slip: itself included
MapFor(x) == {<<n, eps[n]>> : n \in {m \in Present : KeyOf[m] # KeyOf[x]}}

TargetsOthers(s) == Present \ {s}                        \* slip: not the sender
Targets(s) == Present

Snapshot(s) ==
  /\ \/ pc[s] = "snap" /\ Goto(s, "push")
     \/ pc[s] = "snapDown" /\ Goto(s, "pushDown")
  /\ todo' = [todo EXCEPT ![s] = Targets(s)]
  /\ UNCHANGED <<chan, nodes, eps, addressVars, letter, view, told, events>>

(* The targets are served in the order of the dictionary; here in any order. *)
Compute(s, x) ==
  /\ x \in todo[s] /\ letter[s] = None
  /\ letter' = [letter EXCEPT ![s] = [to |-> x, map |-> MapFor(x)]]
  /\ UNCHANGED <<handlerVars, addressVars, todo, view, told, events>>

(* A map sent into a dead channel is lost, and the error is ignored.         *)
Send(s) ==
  /\ letter[s] # None
  /\ LET x == letter[s].to IN
     /\ IF chan[x] = "open"
        THEN /\ view' = [view EXCEPT ![x] = letter[s].map]
             /\ told' = [told EXCEPT ![x] = @ \cup {e[1] : e \in letter[s].map}]
        ELSE UNCHANGED <<view, told>>
     /\ todo' = [todo EXCEPT ![s] = @ \ {x}]
  /\ letter' = [letter EXCEPT ![s] = None]
  /\ UNCHANGED <<handlerVars, addressVars, events>>

PushDone(s) ==
  /\ todo[s] = {}
  /\ \/ pc[s] = "push" /\ Goto(s, "serve") /\ UNCHANGED chan
     \/ pc[s] = "pushDown" /\ Goto(s, "gone") /\ chan' = [chan EXCEPT ![s] = "dead"]
  /\ UNCHANGED <<nodes, eps, addressVars, pushVars, events>>

-----------------------------------------------------------------------------
(* Serving and leaving. *)

(* An "endpoints" message; it may have been read before an eviction.         *)
Endpoints(s) ==
  /\ pc[s] = "serve"
  /\ Event
  /\ eps' = IF Registered(s) THEN [eps EXCEPT ![s] = @ + 1] ELSE eps
  /\ Goto(s, "snap")
  /\ UNCHANGED <<chan, nodes, addressVars, pushVars>>

(* The node goes away, or was silent for 120 s.  (Before its record exists     *)
(* nobody looks at the channel.)                                             *)
Die(s) ==
  /\ pc[s] \in Up \cup {"install"} /\ chan[s] = "open"
  /\ Event
  /\ chan' = [chan EXCEPT ![s] = "dead"]
  /\ UNCHANGED <<pc, nodes, eps, addressVars, pushVars>>

(* recv_json() raises: the record is removed if it is still the session's.   *)
RemovedAnyway(s) == [nodes EXCEPT ![KeyOf[s]] = None]    \* slip: "is record" forgotten
RemovedNever(s)  == nodes                                \* slip: no cleanup
Removed(s) == IF Registered(s) THEN [nodes EXCEPT ![KeyOf[s]] = None] ELSE nodes

RecvFails(s) ==
  /\ pc[s] = "serve" /\ chan[s] = "dead"
  /\ nodes' = Removed(s)
  /\ Goto(s, "snapDown")
  /\ UNCHANGED <<chan, eps, addressVars, pushVars, events>>

(* The process dies at any point and starts again from the state file.       *)
SurvivorsInPlace == IF AllocatorFree THEN disk ELSE [k \in Keys |-> None]  \* slip: no os.replace
Survivors == disk

Crash ==
  /\ Event
  /\ pc' = [s \in Sessions |-> IF pc[s] = "new" THEN "new" ELSE "gone"]
  /\ chan' = [s \in Sessions |-> IF pc[s] = "new" THEN chan[s] ELSE "dead"]
  /\ nodes' = [k \in Keys |-> None]
  /\ disk' = Survivors
  /\ memory' = Survivors
  /\ todo' = [s \in Sessions |-> {}]
  /\ letter' = [s \in Sessions |-> None]
  /\ UNCHANGED <<eps, addr, saveFailed, view, told>>

-----------------------------------------------------------------------------
Handler(s) ==
  \/ Admit(s) \/ TurnAway(s)
  \/ KnownAddress(s) \/ NewAddress(s) \/ Save(s) \/ Install(s) \/ Malformed(s)
  \/ Snapshot(s) \/ (\E x \in Sessions : Compute(s, x)) \/ Send(s) \/ PushDone(s)
  \/ Endpoints(s) \/ RecvFails(s)

Next ==
  \/ \E s \in Sessions : Handler(s) \/ Die(s)
  \/ Crash

Spec == Init /\ [][Next]_vars

-----------------------------------------------------------------------------
(* Properties. *)

(* A registered record has a thread that will remove it: no node stays in the *)
(* map of the others after its thread is gone.                               *)
RecordIsWatched ==
  \A k \in Keys : nodes[k] # None => pc[nodes[k]] \in Up /\ KeyOf[nodes[k]] = k

(* A node with a working channel is in the registry: the cleanup of an older  *)
(* session of the same key does not remove it, and of two sessions of a key   *)
(* only the registered one is left open.                                     *)
ServingIsRegistered ==
  \A s \in Sessions : pc[s] \in Up /\ chan[s] = "open" => Registered(s)

(* Two nodes that are both being served have been told of each other, however *)
(* their joins and map pushes interleaved.                                   *)
AllIntroduced ==
  \A s, x \in Sessions :
    s # x /\ pc[s] = "serve" /\ pc[x] = "serve" /\ chan[s] = "open" /\ chan[x] = "open"
      => x \in told[s]

(* Registered nodes have different overlay addresses, even when the state     *)
(* file cannot be written.                                                   *)
AddressesDiffer ==
  \A k, l \in Keys : k # l /\ nodes[k] # None /\ nodes[l] # None
                       => addr[nodes[k]] # addr[nodes[l]]

(* "assigns each node a stable overlay IP (persisted)": over all restarts, an *)
(* address handed out identifies its key, unless a save has failed.          *)
AddressIdentifiesKey ==
  ~saveFailed => \A s, t \in Sessions :
    addr[s] # None /\ addr[t] # None => (addr[s] = addr[t] <=> KeyOf[s] = KeyOf[t])

(* "pushes updates as nodes join/leave": when no thread has anything left to  *)
(* send, every node's last map is the current one.  It need not be, since of    *)
(* two concurrent pushes the older map may come last; no run checks it.         *)
Quiet == \A s \in Sessions : pc[s] \in {"new", "gone", "serve"}
MapsSettle ==
  Quiet => \A s \in Sessions : Registered(s) /\ chan[s] = "open" => view[s] = MapFor(s)
=============================================================================
