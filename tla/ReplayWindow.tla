---------------------------- MODULE ReplayWindow ----------------------------
(***************************************************************************)
(* One direction of mesh.Session (mesh.py): the sender's packet counter,    *)
(* the network between the two nodes, and the receiver's sliding replay     *)
(* window.                                                                  *)
(*                                                                          *)
(* Several threads of the sending node call encrypt() (the TUN pump, the    *)
(* UDP loop, the control loop, the keepalive loop).  Each takes a counter   *)
(* under the session lock and sends the packet after the lock is released,  *)
(* so packets leave in any order.  Packets travel by UDP: any packet ever   *)
(* sent may arrive late, twice, or never.  Only authentic packets reach the *)
(* window (the AEAD check comes first), so a packet is its counter.         *)
(***************************************************************************)
EXTENDS Integers, FiniteSets

CONSTANTS Window,    \* _WINDOW, 1024 in the code
          MaxCtr,    \* the last counter struct.pack(">Q") can encode
          Threads    \* threads of the sender that call encrypt()

ASSUME WindowAssumption == Window \in Nat \ {0}
ASSUME MaxCtrAssumption == MaxCtr \in Nat

Ctr  == 0 .. MaxCtr
None == -1

VARIABLES txCtr,   \* _tx_ctr: the next counter to hand out
          held,    \* held[t]: the counter thread t has taken and not yet sent
          wire,    \* every packet sent so far; each may arrive at any time
          rxMax,   \* _rx_max
          rxBits,  \* _rx_bits: the set of offsets below rxMax whose bit is set
          times,   \* times[c]: how often decrypt() returned packet c's plaintext
          lost     \* packets refused although they were never delivered

sendVars == <<txCtr, held, wire>>
recvVars == <<rxMax, rxBits, times, lost>>
vars     == <<txCtr, held, wire, rxMax, rxBits, times, lost>>

Init ==
  /\ txCtr = 0
  /\ held = [t \in Threads |-> None]
  /\ wire = {}
  /\ rxMax = -1
  /\ rxBits = {}
  /\ times = [c \in Ctr |-> 0]
  /\ lost = {}

-----------------------------------------------------------------------------
(* What encrypt() leaves in _tx_ctr when it has taken counter c.            *)
CtrRacing(c) == IF \E t \in Threads : held[t] # None THEN c ELSE c + 1  \* slip: no lock
CtrAfter(c)  == c + 1

(* encrypt(): the counter is taken under the lock ...                       *)
Take(t) ==
  /\ held[t] = None
  /\ txCtr \in Ctr
  /\ held' = [held EXCEPT ![t] = txCtr]
  /\ txCtr' = CtrAfter(txCtr)
  /\ UNCHANGED <<wire, recvVars>>

(* ... and the packet is sealed and sent after the lock is released.        *)
Emit(t) ==
  /\ held[t] # None
  /\ wire' = wire \cup {held[t]}
  /\ held' = [held EXCEPT ![t] = None]
  /\ UNCHANGED <<txCtr, recvVars>>

(* ((bits << shift) | 1) & _MASK, and two slips: the 1 left out, the shift   *)
(* one too large.                                                           *)
ShiftForgetsNewest(bits, shift) ==
  {o \in 0 .. Window - 1 : o - shift \in bits}
ShiftTooFar(bits, shift) ==
  {o \in 0 .. Window - 1 : o = 0 \/ o - shift - 1 \in bits}
ShiftIn(bits, shift) ==
  {o \in 0 .. Window - 1 : o = 0 \/ o - shift \in bits}

(* decrypt() of a packet newer than all before it moves the window.         *)
AcceptNewer(c) ==
  /\ c \in wire
  /\ c > rxMax
  /\ rxBits' = ShiftIn(rxBits, c - rxMax)
  /\ rxMax' = c
  /\ times' = [times EXCEPT ![c] = @ + 1]
  /\ UNCHANGED <<sendVars, lost>>

(* A packet at or below the newest is refused when it has left the window,  *)
(* or when its bit is already set.                                          *)
StaleEarly(c) == rxMax - c >= Window - 1    \* slip: one counter too early
StaleLate(c)  == rxMax - c > Window         \* slip: past the mask's last bit
Stale(c)      == rxMax - c >= Window
Replayed(c)   == rxMax - c \in rxBits

AcceptOlder(c) ==
  /\ c \in wire
  /\ c <= rxMax
  /\ ~ Stale(c)
  /\ ~ Replayed(c)
  /\ rxBits' = rxBits \cup {rxMax - c}
  /\ times' = [times EXCEPT ![c] = @ + 1]
  /\ UNCHANGED <<sendVars, rxMax, lost>>

Refuse(c) ==
  /\ c \in wire
  /\ c <= rxMax
  /\ Stale(c) \/ Replayed(c)
  /\ lost' = IF times[c] = 0 THEN lost \cup {c} ELSE lost
  /\ UNCHANGED <<sendVars, rxMax, rxBits, times>>

Next ==
  \/ \E t \in Threads : Take(t) \/ Emit(t)
  \/ \E c \in Ctr : AcceptNewer(c) \/ AcceptOlder(c) \/ Refuse(c)

Spec == Init /\ [][Next]_vars

-----------------------------------------------------------------------------
(* The values the variables range over: the window keeps at most Window     *)
(* bits and the newest counter is one that was sent.                        *)
TypeOK ==
  /\ txCtr \in 0 .. MaxCtr + 1
  /\ held \in [Threads -> Ctr \cup {None}]
  /\ wire \in SUBSET Ctr
  /\ rxMax \in Ctr \cup {-1}
  /\ rxBits \in SUBSET (0 .. Window - 1)
  /\ times \in [Ctr -> Nat]
  /\ lost \in SUBSET Ctr

(* decrypt() hands no packet to the node twice, however often and in        *)
(* whatever order the network delivers it ("replayed mesh packet").         *)
AtMostOnce == \A c \in Ctr : times[c] <= 1

(* A packet that was never delivered is refused only when the newest packet *)
(* received is at least Window ahead of it: reordering within the window    *)
(* costs nothing.                                                           *)
LostOnlyOutsideWindow == \A c \in lost : rxMax - c >= Window

(* No two packets are ever sealed with the same nonce, although the AEAD    *)
(* call and the send run outside the lock: a counter in a thread's hands is *)
(* in no other thread's hands and not yet on the wire.                      *)
NonceUnique ==
  \A t \in Threads : held[t] # None =>
     /\ held[t] \notin wire
     /\ \A u \in Threads \ {t} : held[u] # held[t]

(* The receiver's window tells delivered from undelivered exactly, for every *)
(* counter still inside it.                                                 *)
WindowExact ==
  \A c \in Ctr :
     (c <= rxMax /\ rxMax - c < Window) =>
        (times[c] > 0 <=> rxMax - c \in rxBits)

(* What a session promises its node: an unordered, lossy channel that never *)
(* duplicates (OnceChannel).                                                *)
Promise == INSTANCE OnceChannel
             WITH Packets <- Ctr, sent <- wire, received <- times

PromiseSpec == Promise!Spec

=============================================================================
