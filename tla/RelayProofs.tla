----------------------------- MODULE RelayProofs -----------------------------
(***************************************************************************)
(* Theorems about Relay, for every set of connections, addresses and device  *)
(* ids and for every limit.                                                 *)
(***************************************************************************)
EXTENDS Relay, FiniteSetTheorems, TLAPS

-----------------------------------------------------------------------------
(* The connections of address i whose handler runs.                          *)
Tasks(i) == {c \in Conns : pc[c] # "done" /\ ip[c] = i}

(* conns_per_ip counts them exactly: what keeps the counter in its range.    *)
Counted ==
  /\ \A c \in Conns : pc[c] # "done" => ip[c] \in Ips
  /\ \A i \in Ips : count[i] = Cardinality(Tasks(i))

(* A task in the hosting branch knows the id it registered.                  *)
Hosting(c) == pc[c] \in {"hold", "regFails"}
Named == \A c \in Conns : Hosting(c) => rid[c] \in Rids

(* A task in the client branch has a host, which is past its registration    *)
(* and is nobody else's, in the table or out of it.                          *)
Client(c) == pc[c] \in {"bridge", "pairFails"}
Mated ==
  \A c \in Conns : Client(c) =>
    /\ mate[c] \in Conns
    /\ pc[mate[c]] \in {"hold", "regFails", "done"}
    /\ \A r \in Rids : hosts[r] # mate[c]
    /\ \A d \in Conns : Client(d) /\ d # c => mate[d] # mate[c]

(* The inductive invariant.  PairExclusive is not inductive by itself: that a *)
(* host taken from the table is not already in a bridge rests on Mated, and   *)
(* that it is nowhere else in the table on EntryIsWatched.                   *)
IInv == TypeOK /\ Counted /\ Named /\ EntryIsWatched /\ Mated

-----------------------------------------------------------------------------
LEMMA TasksFinite ==
  ASSUME NEW i
  PROVE  IsFiniteSet(Tasks(i)) /\ Cardinality(Tasks(i)) \in Nat
<1>1. Tasks(i) \in SUBSET Conns
  BY DEF Tasks
<1>2. IsFiniteSet(Tasks(i))
  BY <1>1, FS_Subset, RelayAssumption
<1> QED
  BY <1>2, FS_CardinalityType

LEMMA InitIInv == Init => IInv
<1> SUFFICES ASSUME Init PROVE IInv
  OBVIOUS
<1>1. \A i \in Ips : Tasks(i) = {}
  BY DEF Init, Tasks
<1>2. TypeOK
  BY RelayAssumption DEF Init, TypeOK, PCs, Ways
<1>3. Counted
  BY <1>1, FS_EmptySet DEF Init, Counted
<1> QED
  BY <1>2, <1>3, RelayAssumption
     DEF Init, IInv, Named, Hosting, EntryIsWatched, Mated, Client

(* The count stays exact when no task starts or ends ...                     *)
LEMMA CountKept ==
  ASSUME Counted, UNCHANGED <<ip, count>>,
         \A c \in Conns : pc'[c] = "done" <=> pc[c] = "done"
  PROVE  Counted'
<1>1. ASSUME NEW i \in Ips
      PROVE  count'[i] = Cardinality(Tasks(i)')
  <2>1. Tasks(i)' = Tasks(i)
    BY DEF Tasks
  <2> QED
    BY <2>1 DEF Counted
<1> QED
  BY <1>1 DEF Counted

(* ... and when one ends, which also keeps the types of what Leave touches.  *)
LEMMA CountLeave ==
  ASSUME TypeOK, Counted, NEW c \in Conns, pc[c] # "done", Leave(c)
  PROVE  /\ Counted'
         /\ pc' \in [Conns -> PCs] /\ ip' \in [Conns -> Ips \cup {None}]
         /\ rid' \in [Conns -> Rids \cup {None}] /\ mate' \in [Conns -> Conns \cup {None}]
         /\ count' \in [Ips -> 0 .. MaxConnsPerIp]
<1>1. PICK i \in Ips : i = ip[c]
  BY DEF Counted
<1>2. /\ Tasks(i)' = Tasks(i) \ {c}
      /\ c \in Tasks(i)
      /\ \A j \in Ips : j # i => Tasks(j)' = Tasks(j)
  <2>1. /\ pc'[c] = "done"
        /\ \A d \in Conns \ {c} : pc'[d] = pc[d] /\ ip'[d] = ip[d]
    BY DEF Leave, TypeOK
  <2>2. Tasks(i)' = Tasks(i) \ {c}
    BY <1>1, <2>1 DEF Tasks
  <2>3. c \in Tasks(i)
    BY <1>1 DEF Tasks
  <2>4. ASSUME NEW j \in Ips, j # i
        PROVE  Tasks(j)' = Tasks(j)
    BY <1>1, <2>1, <2>4 DEF Tasks
  <2> QED
    BY <2>2, <2>3, <2>4
<1>3. Cardinality(Tasks(i)') = Cardinality(Tasks(i)) - 1
  BY <1>2, TasksFinite, FS_RemoveElement
<1>4. count[i] \in 0 .. MaxConnsPerIp /\ count[i] = Cardinality(Tasks(i))
  BY <1>1 DEF Counted, TypeOK
<1>5. Cardinality(Tasks(i)') \in Nat
  <2>1. Tasks(i)' \in SUBSET Conns
    BY <1>2 DEF Tasks
  <2> QED
    BY <2>1, FS_Subset, FS_CardinalityType, RelayAssumption
<1>6. count' = [count EXCEPT ![i] = @ - 1] /\ count'[i] = count[i] - 1
  BY <1>1 DEF Leave, TypeOK
<1>7. count' \in [Ips -> 0 .. MaxConnsPerIp]
  BY <1>3, <1>4, <1>5, <1>6, RelayAssumption DEF TypeOK
<1>8. \A j \in Ips : count'[j] = Cardinality(Tasks(j)')
  BY <1>1, <1>2, <1>3, <1>4, <1>6 DEF Counted, TypeOK
<1>9. \A d \in Conns : pc'[d] # "done" => ip'[d] \in Ips
  BY DEF Counted, Leave, TypeOK
<1> QED
  BY <1>7, <1>8, <1>9 DEF Counted, Leave, TypeOK, PCs

-----------------------------------------------------------------------------
(* Steps that only touch transports and pipes.                               *)
LEMMA LinkStep ==
  ASSUME IInv, UNCHANGED <<pc, ip, rid, mate, hosts, count>>,
         link' \in [Conns -> {"up", "fin", "lost", "closing"}],
         pipes' \in [Conns -> SUBSET Ways]
  PROVE  IInv'
<1>1. Counted'
  BY CountKept DEF IInv
<1>2. TypeOK'
  BY DEF IInv, TypeOK
<1> QED
  BY <1>1, <1>2 DEF IInv, Named, Hosting, EntryIsWatched, Mated, Client

(* A task that is not a registered host's returns.                           *)
LEMMA LeaveStep ==
  ASSUME IInv, NEW c \in Conns,
         pc[c] \in {"header", "leaving", "pairFails", "bridge"},
         Leave(c), UNCHANGED <<pipes, hosts>>,
         link' \in [Conns -> {"up", "fin", "lost", "closing"}]
  PROVE  IInv'
<1>1. Counted' /\ TypeOK'
  BY CountLeave DEF IInv, TypeOK
<1>2. /\ pc'[c] = "done"
      /\ \A d \in Conns \ {c} : pc'[d] = pc[d] /\ rid'[d] = rid[d] /\ mate'[d] = mate[d]
  BY DEF Leave, IInv, TypeOK
<1>3. Named' /\ EntryIsWatched'
  BY <1>2, RelayAssumption DEF IInv, TypeOK, Named, Hosting, EntryIsWatched
<1>4. Mated'
  BY <1>2 DEF IInv, Mated, Client
<1> QED
  BY <1>1, <1>3, <1>4 DEF IInv

(* A host's task returns; it is in the table no more.                        *)
LEMMA LeaveHostStep ==
  ASSUME IInv, NEW c \in Conns, Hosting(c), Leave(c), UNCHANGED <<link, pipes>>,
         hosts' \in [Rids -> Conns \cup {None}],
         \A r \in Rids : hosts'[r] \in {hosts[r], None} /\ hosts'[r] # c
  PROVE  IInv'
<1>1. Counted' /\ TypeOK'
  BY CountLeave DEF IInv, TypeOK, Hosting
<1>2. /\ pc'[c] = "done"
      /\ \A d \in Conns \ {c} : pc'[d] = pc[d] /\ rid'[d] = rid[d] /\ mate'[d] = mate[d]
  BY DEF Leave, IInv, TypeOK
<1>3. Named' /\ EntryIsWatched'
  BY <1>2, RelayAssumption DEF IInv, TypeOK, Named, Hosting, EntryIsWatched
<1>4. Mated'
  BY <1>2, RelayAssumption DEF IInv, Mated, Client
<1> QED
  BY <1>1, <1>3, <1>4 DEF IInv

LEMMA CloseType ==
  ASSUME TypeOK, NEW cs
  PROVE  Close(cs) \in [Conns -> {"up", "fin", "lost", "closing"}]
BY DEF Close, TypeOK

LEMMA AcceptStep ==
  ASSUME IInv, NEW c \in Conns, NEW i \in Ips, Accept(c, i)
  PROVE  IInv'
<1>1. /\ pc[c] = "done" /\ pc'[c] = "header" /\ ip'[c] = i
      /\ \A d \in Conns \ {c} : pc'[d] = pc[d] /\ ip'[d] = ip[d]
      /\ \A d \in Conns : mate[d] # c
  BY DEF Accept, Unused, IInv, TypeOK
<1>2. /\ Tasks(i)' = Tasks(i) \cup {c}
      /\ c \notin Tasks(i)
      /\ \A j \in Ips : j # i => Tasks(j)' = Tasks(j)
  BY <1>1 DEF Tasks
<1>3. Cardinality(Tasks(i)') = Cardinality(Tasks(i)) + 1
  BY <1>2, TasksFinite, FS_AddElement
<1>4. count[i] \in 0 .. MaxConnsPerIp /\ count[i] < MaxConnsPerIp
  BY DEF Accept, Admitted, IInv, TypeOK
<1>5. /\ count' \in [Ips -> 0 .. MaxConnsPerIp]
      /\ \A j \in Ips : count'[j] = IF j = i THEN count[i] + 1 ELSE count[j]
  BY <1>4, RelayAssumption DEF Accept, IInv, TypeOK
<1>6. TypeOK'
  BY <1>5 DEF Accept, IInv, TypeOK, PCs
<1>7. Counted'
  BY <1>1, <1>2, <1>3, <1>5 DEF IInv, Counted
<1>8. Named' /\ EntryIsWatched'
  BY <1>1, RelayAssumption DEF Accept, IInv, TypeOK, Named, Hosting, EntryIsWatched
<1>9. Mated'
  BY <1>1 DEF Accept, IInv, Mated, Client
<1> QED
  BY <1>6, <1>7, <1>8, <1>9 DEF IInv

(* The farewell byte could not be written: the task stays for one round.     *)
LEMMA LingerStep ==
  ASSUME IInv, NEW c \in Conns, pc[c] = "header",
         pc' = [pc EXCEPT ![c] = "leaving"],
         UNCHANGED <<ip, rid, mate, count, pipes, hosts>>,
         link' = Close({c})
  PROVE  IInv'
<1>1. pc'[c] = "leaving" /\ \A d \in Conns \ {c} : pc'[d] = pc[d]
  BY DEF IInv, TypeOK
<1>2. Counted'
  BY <1>1, CountKept DEF IInv
<1>3. TypeOK'
  BY CloseType DEF IInv, TypeOK, PCs
<1>4. Named' /\ EntryIsWatched'
  BY <1>1, RelayAssumption DEF IInv, TypeOK, Named, Hosting, EntryIsWatched
<1>5. Mated'
  BY <1>1 DEF IInv, Mated, Client
<1> QED
  BY <1>2, <1>3, <1>4, <1>5 DEF IInv

LEMMA TurnAwayStep ==
  ASSUME IInv, NEW c \in Conns, pc[c] = "header", TurnAway(c)
  PROVE  IInv'
<1>1. CASE Leave(c)
  BY <1>1, LeaveStep, CloseType DEF TurnAway, IInv
<1>2. CASE /\ pc' = [pc EXCEPT ![c] = "leaving"]
           /\ UNCHANGED <<ip, rid, mate, count>>
  BY <1>2, LingerStep DEF TurnAway
<1> QED
  BY <1>1, <1>2 DEF TurnAway

LEMMA RegisterStep ==
  ASSUME IInv, NEW c \in Conns, NEW r \in Rids, Register(c, r)
  PROVE  IInv'
<1>1. /\ pc[c] = "header" /\ Hosting(c)' /\ rid'[c] = r /\ hosts'[r] = c
      /\ \A d \in Conns \ {c} : pc'[d] = pc[d] /\ rid'[d] = rid[d]
      /\ \A q \in Rids \ {r} : hosts'[q] = hosts[q]
      /\ UNCHANGED <<ip, mate, pipes, count>>
  BY DEF Register, Hosting, IInv, TypeOK
<1>2. Counted'
  BY <1>1, CountKept DEF IInv, Hosting
<1>3. TypeOK'
  BY CloseType DEF Register, IInv, TypeOK, PCs
<1>4. Named'
  BY <1>1 DEF IInv, Named, Hosting
<1>5. EntryIsWatched'
  BY <1>1, RelayAssumption DEF IInv, TypeOK, Hosting, EntryIsWatched
<1>6. Mated'
  BY <1>1 DEF IInv, Mated, Client, Hosting
<1> QED
  BY <1>2, <1>3, <1>4, <1>5, <1>6 DEF IInv

LEMMA PairStep ==
  ASSUME IInv, NEW c \in Conns, NEW r \in Rids, Pair(c, r)
  PROVE  IInv'
<1> DEFINE h == hosts[r]
<1>1. /\ pc[c] = "header" /\ Client(c)' /\ mate'[c] = h /\ h \in Conns
      /\ hosts'[r] = None
      /\ \A d \in Conns \ {c} : pc'[d] = pc[d] /\ mate'[d] = mate[d]
      /\ \A q \in Rids \ {r} : hosts'[q] = hosts[q]
      /\ UNCHANGED <<ip, rid, count>>
  BY DEF Pair, Taken, Client, IInv, TypeOK
<1>2. Counted'
  BY <1>1, CountKept DEF IInv, Client
<1>3. TypeOK'
  BY CloseType, <1>1, RelayAssumption DEF Pair, Taken, IInv, TypeOK, PCs
<1>4. Hosting(h) /\ rid[h] = r /\ h # c
  BY <1>1, RelayAssumption DEF IInv, EntryIsWatched, Hosting
<1>5. Named' /\ EntryIsWatched'
  BY <1>1, RelayAssumption DEF IInv, TypeOK, Named, Hosting, EntryIsWatched, Client
<1>6. \A q \in Rids : hosts'[q] # h
  BY <1>1, <1>4, RelayAssumption DEF IInv, EntryIsWatched
<1>7. \A d \in Conns : Client(d) => mate[d] # h
  BY DEF IInv, Mated
<1>8. Mated'
  BY <1>1, <1>4, <1>6, <1>7, RelayAssumption DEF IInv, Mated, Client, Hosting
<1> QED
  BY <1>2, <1>3, <1>5, <1>8 DEF IInv

-----------------------------------------------------------------------------
LEMMA NextIInv == IInv /\ [Next]_vars => IInv'
<1> SUFFICES ASSUME IInv, [Next]_vars PROVE IInv'
  OBVIOUS
<1>1. ASSUME NEW c \in Conns, NEW i \in Ips, Accept(c, i) PROVE IInv'
  BY <1>1, AcceptStep
<1>2. ASSUME NEW c \in Conns, HeaderFails(c) PROVE IInv'
  BY <1>2, LeaveStep, CloseType DEF HeaderFails, IInv
<1>3. ASSUME NEW c \in Conns, RegisterGivesUp(c) PROVE IInv'
  <2>1. \A r \in Rids : hosts'[r] \in {hosts[r], None} /\ hosts'[r] # c
    BY <1>3, RelayAssumption DEF RegisterGivesUp, IInv, TypeOK, Named, Hosting, EntryIsWatched
  <2> QED
    BY <1>3, <2>1, LeaveHostStep DEF RegisterGivesUp, Hosting, IInv, TypeOK
<1>4. ASSUME NEW c \in Conns, Wake(c) PROVE IInv'
  <2>1. \A r \in Rids : hosts'[r] \in {hosts[r], None} /\ hosts'[r] # c
    BY <1>4, RelayAssumption DEF Wake, Cleared, IInv, TypeOK, Named, Hosting, EntryIsWatched
  <2>2. hosts' \in [Rids -> Conns \cup {None}]
    BY <1>4 DEF Wake, Cleared, IInv, TypeOK
  <2> QED
    BY <1>4, <2>1, <2>2, LeaveHostStep DEF Wake, Hosting
<1>5. ASSUME NEW c \in Conns, PairGivesUp(c) PROVE IInv'
  BY <1>5, LeaveStep, CloseType DEF PairGivesUp, IInv
<1>6. ASSUME NEW c \in Conns, BridgeEnds(c) PROVE IInv'
  BY <1>6, LeaveStep DEF BridgeEnds, IInv, TypeOK
<1>7. ASSUME NEW c \in Conns, Depart(c) PROVE IInv'
  BY <1>7, LeaveStep DEF Depart, IInv, TypeOK
<1>8. ASSUME NEW c \in Conns, Notice(c) PROVE IInv'
  BY <1>8, LinkStep, CloseType DEF Notice, IInv, TypeOK
<1>9. ASSUME NEW c \in Conns, NEW way \in Ways, PipeStops(c, way) PROVE IInv'
  <2>1. pipes' \in [Conns -> SUBSET Ways]
    BY <1>9 DEF PipeStops, IInv, TypeOK
  <2> QED
    BY <1>9, <2>1, LinkStep, CloseType DEF PipeStops, PipeCloses, IInv
<1>10. ASSUME NEW c \in Conns, PeerFin(c) \/ PeerLost(c) PROVE IInv'
  BY <1>10, LinkStep DEF PeerFin, PeerLost, IInv, TypeOK
<1>11. ASSUME NEW c \in Conns, NEW r \in Rids, RefuseFull(c, r) PROVE IInv'
  BY <1>11, LeaveStep, CloseType DEF RefuseFull, IInv
<1>12. ASSUME NEW c \in Conns, NEW r \in Rids, RefuseOccupied(c, r) \/ RefuseNoHost(c, r)
       PROVE  IInv'
  BY <1>12, TurnAwayStep DEF RefuseOccupied, RefuseNoHost
<1>13. ASSUME NEW c \in Conns, NEW r \in Rids, Register(c, r) PROVE IInv'
  BY <1>13, RegisterStep
<1>14. ASSUME NEW c \in Conns, NEW r \in Rids, Pair(c, r) PROVE IInv'
  BY <1>14, PairStep
<1>15. CASE UNCHANGED vars
  BY <1>15, LinkStep DEF vars, IInv, TypeOK
<1> QED
  BY <1>1, <1>2, <1>3, <1>4, <1>5, <1>6, <1>7, <1>8, <1>9, <1>10, <1>11, <1>12,
     <1>13, <1>14, <1>15
     DEF Next, Resume, PipeEof, PipeBreaks

(* The invariant holds in every state the relay reaches.                     *)
THEOREM Inductive == Spec => []IInv
BY InitIInv, NextIInv, PTL DEF Spec

(* conns_per_ip never leaves 0 .. MAX_CONNS_PER_IP, and every variable keeps  *)
(* its type.                                                                *)
THEOREM TypeCorrect == Spec => []TypeOK
<1>1. IInv => TypeOK
  BY DEF IInv
<1> QED
  BY <1>1, Inductive, PTL

(* Every host in the table has a task that will remove it (the finally of     *)
(* _dispatch).                                                              *)
THEOREM Watched == Spec => []EntryIsWatched
<1>1. IInv => EntryIsWatched
  BY DEF IInv
<1> QED
  BY <1>1, Inductive, PTL

(* hosts.pop() gives a host to one client only.                              *)
THEOREM Exclusive == Spec => []PairExclusive
<1>1. IInv => PairExclusive
  BY DEF IInv, Mated, Client, PairExclusive
<1> QED
  BY <1>1, Inductive, PTL

(* What each kind of step does to the slot of a waiting host.                *)
LEMMA KeptByStep ==
  ASSUME IInv, [Next]_vars, NEW c \in Conns
  PROVE  KeepsSlot(c)
<1> SUFFICES ASSUME Waiting(c), hosts[rid[c]] = c, hosts'[rid[c]] # c
             PROVE  \/ \E d \in Conns : TakenBy(d, c)'
                    \/ \E d \in Conns : hosts'[rid[c]] = d /\ ip[d] = ip[c]
                    \/ \E d \in Conns : pc[d] = "regFails" /\ rid[d] = rid[c]
  BY DEF KeepsSlot
<1>1. pc[c] = "hold" /\ ~closing(c) /\ rid[c] \in Rids /\ c # None
  BY RelayAssumption DEF Waiting, IInv, Named, Hosting
<1>2. ASSUME NEW d \in Conns, RegisterGivesUp(d)
      PROVE  pc[d] = "regFails" /\ rid[d] = rid[c]
  BY <1>1, <1>2 DEF RegisterGivesUp, IInv, TypeOK
<1>3. ASSUME NEW d \in Conns, Wake(d)
      PROVE  FALSE
  <2>1. d # c
    BY <1>1, <1>3 DEF Wake, StillHeld
  <2>2. hosts[rid[d]] = d => rid[d] # rid[c]
    BY <2>1
  <2> QED
    BY <1>1, <1>3, <2>1, <2>2 DEF Wake, Cleared, IInv, TypeOK
<1>4. ASSUME NEW d \in Conns, NEW r \in Rids, Register(d, r)
      PROVE  hosts'[rid[c]] = d /\ ip[d] = ip[c]
  <2>1. r = rid[c] /\ hosts'[rid[c]] = d
    BY <1>1, <1>4 DEF Register, IInv, TypeOK
  <2> QED
    BY <1>1, <1>4, <2>1 DEF Register, Occupied
<1>5. ASSUME NEW d \in Conns, NEW r \in Rids, Pair(d, r)
      PROVE  TakenBy(d, c)'
  <2>1. r = rid[c]
    BY <1>1, <1>5 DEF Pair, Taken, IInv, TypeOK
  <2>2. mate'[d] = c /\ pc'[d] \in {"bridge", "pairFails"}
    BY <1>5, <2>1 DEF Pair, IInv, TypeOK
  <2> QED
    BY <2>2 DEF TakenBy
<1>6. ASSUME hosts' = hosts PROVE FALSE
  BY <1>6
<1> QED
  BY <1>2, <1>3, <1>4, <1>5, <1>6
     DEF Next, Resume, Accept, HeaderFails, PairGivesUp, BridgeEnds, Depart, Notice,
         PipeEof, PipeBreaks, PipeStops, PeerFin, PeerLost, RefuseFull, RefuseOccupied,
         RefuseNoHost, TurnAway, vars

(* A waiting host loses its slot to a client or to a host from its own        *)
(* address only, but for the failed registration of relay.py:124.            *)
THEOREM Kept == Spec => SlotKept
<1>1. IInv /\ [Next]_vars => \A c \in Conns : KeepsSlot(c)
  BY KeptByStep
<1> QED
  BY <1>1, Inductive, PTL DEF Spec, SlotKept
=============================================================================
