------------------------- MODULE ReplayWindowProofs -------------------------
(***************************************************************************)
(* Theorems about ReplayWindow, for every window size, counter space and    *)
(* set of sending threads.                                                  *)
(***************************************************************************)
EXTENDS ReplayWindow, TLAPS

-----------------------------------------------------------------------------
(* The sender: what is on the wire or in a thread's hands was handed out.    *)
HandedOut ==
  /\ \A c \in wire : c < txCtr
  /\ \A t \in Threads : held[t] # None => held[t] < txCtr

(* Nothing newer than rxMax was delivered.                                  *)
DeliveredUpToMax == \A c \in Ctr : times[c] > 0 => c <= rxMax

(* The inductive invariant.  AtMostOnce is not inductive by itself: that a   *)
(* packet is refused the second time rests on its bit being set (WindowExact)*)
(* and on rxMax never passing over a delivered counter (DeliveredUpToMax).   *)
IInv ==
  /\ TypeOK
  /\ HandedOut
  /\ NonceUnique
  /\ DeliveredUpToMax
  /\ WindowExact
  /\ AtMostOnce
  /\ LostOnlyOutsideWindow

(* Shifting keeps the window's bits apart: the bit at offset o is the newest *)
(* packet's, or the one that stood shift places lower.                      *)
LEMMA ShiftInBits ==
  ASSUME NEW bits, NEW shift \in Nat \ {0}, NEW o \in 0 .. Window - 1
  PROVE  o \in ShiftIn(bits, shift) <=> (o = 0 \/ o - shift \in bits)
BY DEF ShiftIn

LEMMA InitIInv == Init => IInv
BY WindowAssumption, MaxCtrAssumption
   DEF Init, IInv, TypeOK, HandedOut, NonceUnique, DeliveredUpToMax,
       WindowExact, AtMostOnce, LostOnlyOutsideWindow, Ctr, None

(* The sender's steps leave the receiver's half of the invariant alone.      *)
LEMMA SenderStep ==
  ASSUME IInv, NEW t \in Threads, Take(t) \/ Emit(t)
  PROVE  IInv'
<1>1. /\ txCtr' \in 0 .. MaxCtr + 1
      /\ held' \in [Threads -> Ctr \cup {None}]
      /\ wire' \in SUBSET Ctr
      /\ HandedOut'
      /\ NonceUnique'
  <2>1. CASE Take(t)
    <3> USE MaxCtrAssumption DEF Take, CtrAfter, Ctr, None
    <3>1. /\ txCtr' \in 0 .. MaxCtr + 1
          /\ held' \in [Threads -> Ctr \cup {None}]
          /\ wire' \in SUBSET Ctr
      BY <2>1 DEF IInv, TypeOK
    <3>2. \A u \in Threads : held'[u] = IF u = t THEN txCtr ELSE held[u]
      BY <2>1 DEF IInv, TypeOK
    <3>3. HandedOut'
      BY <2>1, <3>2 DEF IInv, TypeOK, HandedOut
    <3>4. NonceUnique'
      BY <2>1, <3>2 DEF IInv, TypeOK, HandedOut, NonceUnique
    <3> QED BY <3>1, <3>3, <3>4
  <2>2. CASE Emit(t)
    <3> USE MaxCtrAssumption DEF Emit, Ctr, None
    <3>1. /\ txCtr' \in 0 .. MaxCtr + 1
          /\ held' \in [Threads -> Ctr \cup {None}]
          /\ wire' \in SUBSET Ctr
      BY <2>2 DEF IInv, TypeOK
    <3>2. \A u \in Threads : held'[u] = IF u = t THEN None ELSE held[u]
      BY <2>2 DEF IInv, TypeOK
    <3>3. HandedOut'
      BY <2>2, <3>2 DEF IInv, TypeOK, HandedOut, recvVars
    <3>4. NonceUnique'
      BY <2>2, <3>2 DEF IInv, TypeOK, NonceUnique
    <3> QED BY <3>1, <3>3, <3>4
  <2> QED BY <2>1, <2>2
<1>2. UNCHANGED recvVars
  BY DEF Take, Emit
<1> QED
  BY <1>1, <1>2
     DEF IInv, TypeOK, DeliveredUpToMax, WindowExact, AtMostOnce,
         LostOnlyOutsideWindow, recvVars

LEMMA NewerStep ==
  ASSUME IInv, NEW c \in Ctr, AcceptNewer(c)
  PROVE  IInv'
<1> USE DEF AcceptNewer
<1> USE WindowAssumption, MaxCtrAssumption
<1>a. TypeOK /\ rxMax' = c /\ c > rxMax /\ c \in Int /\ rxMax \in Int
  BY DEF IInv, TypeOK, Ctr
<1>b. \A d \in Ctr : times'[d] = IF d = c THEN times[d] + 1 ELSE times[d]
  BY <1>a DEF TypeOK
<1>c. times[c] = 0
  BY <1>a DEF IInv, DeliveredUpToMax, TypeOK
<1>1. TypeOK'
  BY <1>a DEF TypeOK, ShiftIn, sendVars
<1>2. HandedOut' /\ NonceUnique'
  BY DEF IInv, HandedOut, NonceUnique, sendVars
<1>3. DeliveredUpToMax'
  BY <1>a, <1>b DEF IInv, DeliveredUpToMax, Ctr, TypeOK
<1>4. WindowExact'
  <2> SUFFICES ASSUME NEW d \in Ctr, d <= c, c - d < Window
               PROVE  times'[d] > 0 <=> c - d \in rxBits'
    BY <1>a DEF WindowExact
  <2> DEFINE o == c - d
  <2>1. d \in Int /\ o \in 0 .. Window - 1
    BY DEF Ctr
  <2>2. o \in rxBits' <=> (o = 0 \/ o - (c - rxMax) \in rxBits)
    BY <2>1, <1>a, ShiftInBits
  <2>3. o - (c - rxMax) = rxMax - d
    BY <2>1, <1>a
  <2>4. CASE d = c
    BY <2>1, <2>2, <2>4, <1>a, <1>b, <1>c
  <2>5. CASE d # c /\ d <= rxMax
    <3>1. times'[d] = times[d] /\ o # 0 /\ rxMax - d < Window
      BY <2>1, <2>5, <1>a, <1>b
    <3> QED BY <3>1, <2>2, <2>3, <2>5 DEF IInv, WindowExact
  <2>6. CASE d # c /\ d > rxMax
    <3>1. times'[d] = 0
      BY <2>6, <2>1, <1>a, <1>b DEF IInv, DeliveredUpToMax, TypeOK
    <3>2. o # 0 /\ rxMax - d \notin rxBits
      BY <2>6, <2>1, <1>a DEF TypeOK
    <3> QED BY <3>1, <3>2, <2>2, <2>3
  <2> QED BY <2>4, <2>5, <2>6, <2>1, <1>a
<1>5. AtMostOnce'
  BY <1>b, <1>c DEF IInv, AtMostOnce
<1>6. LostOnlyOutsideWindow'
  BY <1>a DEF IInv, LostOnlyOutsideWindow, TypeOK, Ctr
<1> QED BY <1>1, <1>2, <1>3, <1>4, <1>5, <1>6 DEF IInv

LEMMA OlderStep ==
  ASSUME IInv, NEW c \in Ctr, AcceptOlder(c)
  PROVE  IInv'
<1> USE DEF AcceptOlder, Stale, Replayed
<1> USE WindowAssumption, MaxCtrAssumption
<1>a. TypeOK /\ rxMax' = rxMax /\ c <= rxMax /\ c \in Int /\ rxMax \in Int
      /\ rxMax - c \in 0 .. Window - 1
  BY DEF IInv, TypeOK, Ctr
<1>b. \A d \in Ctr : times'[d] = IF d = c THEN times[d] + 1 ELSE times[d]
  BY <1>a DEF TypeOK
<1>c. times[c] = 0
  <2>1. ~ (times[c] > 0)
    BY <1>a DEF IInv, WindowExact
  <2> QED BY <2>1, <1>a DEF TypeOK
<1>1. TypeOK'
  BY <1>a DEF TypeOK, sendVars
<1>2. HandedOut' /\ NonceUnique'
  BY DEF IInv, HandedOut, NonceUnique, sendVars
<1>3. DeliveredUpToMax'
  BY <1>a, <1>b DEF IInv, DeliveredUpToMax
<1>4. WindowExact'
  <2> SUFFICES ASSUME NEW d \in Ctr, d <= rxMax, rxMax - d < Window
               PROVE  times'[d] > 0 <=> rxMax - d \in rxBits \cup {rxMax - c}
    BY <1>a DEF WindowExact
  <2>1. CASE d = c
    BY <2>1, <1>b, <1>c
  <2>2. CASE d # c
    <3>1. times'[d] = times[d] /\ rxMax - d # rxMax - c
      BY <2>2, <1>a, <1>b DEF Ctr
    <3> QED BY <3>1 DEF IInv, WindowExact
  <2> QED BY <2>1, <2>2
<1>5. AtMostOnce'
  BY <1>b, <1>c DEF IInv, AtMostOnce
<1>6. LostOnlyOutsideWindow'
  BY <1>a DEF IInv, LostOnlyOutsideWindow
<1> QED BY <1>1, <1>2, <1>3, <1>4, <1>5, <1>6 DEF IInv

LEMMA RefuseStep ==
  ASSUME IInv, NEW c \in Ctr, Refuse(c)
  PROVE  IInv'
<1> USE DEF Refuse, Stale, Replayed
<1> USE WindowAssumption, MaxCtrAssumption
<1>1. UNCHANGED <<sendVars, rxMax, rxBits, times>> /\ lost' \in SUBSET Ctr
  BY DEF IInv, TypeOK
<1>2. LostOnlyOutsideWindow'
  <2>1. times[c] = 0 => rxMax - c >= Window
    <3> SUFFICES ASSUME times[c] = 0, rxMax - c \in rxBits, rxMax - c < Window
                 PROVE  FALSE
      BY DEF IInv, TypeOK, Ctr
    <3> QED BY DEF IInv, WindowExact
  <2> QED BY <2>1 DEF IInv, LostOnlyOutsideWindow
<1> QED
  BY <1>1, <1>2 DEF IInv, TypeOK, HandedOut, NonceUnique, DeliveredUpToMax,
                    WindowExact, AtMostOnce, sendVars

LEMMA NextIInv == IInv /\ [Next]_vars => IInv'
<1> SUFFICES ASSUME IInv, [Next]_vars PROVE IInv'
  OBVIOUS
<1>1. CASE \E t \in Threads : Take(t) \/ Emit(t)
  BY <1>1, SenderStep
<1>2. CASE \E c \in Ctr : AcceptNewer(c) \/ AcceptOlder(c) \/ Refuse(c)
  BY <1>2, NewerStep, OlderStep, RefuseStep
<1>3. CASE UNCHANGED vars
  BY <1>3 DEF IInv, TypeOK, HandedOut, NonceUnique, DeliveredUpToMax,
              WindowExact, AtMostOnce, LostOnlyOutsideWindow, vars
<1> QED BY <1>1, <1>2, <1>3 DEF Next

THEOREM Inductive == Spec => []IInv
BY InitIInv, NextIInv, PTL DEF Spec

(* The window's state keeps its shape: no bit outside the mask, no counter   *)
(* that was not sent.                                                       *)
THEOREM TypeCorrect == Spec => []TypeOK
<1>1. IInv => TypeOK  BY DEF IInv
<1> QED BY <1>1, Inductive, PTL

(* Session.decrypt() never hands the same packet to the node twice.          *)
THEOREM NoReplay == Spec => []AtMostOnce
<1>1. IInv => AtMostOnce  BY DEF IInv
<1> QED BY <1>1, Inductive, PTL

(* Within the window, the bit Session.decrypt() keeps for a counter is set   *)
(* exactly when the packet of that counter was delivered.                   *)
THEOREM WindowIsExact == Spec => []WindowExact
<1>1. IInv => WindowExact  BY DEF IInv
<1> QED BY <1>1, Inductive, PTL

(* Session.decrypt() refuses an undelivered packet only when a packet at     *)
(* least Window newer has arrived.                                          *)
THEOREM ReorderingWithinWindowIsFree == Spec => []LostOnlyOutsideWindow
<1>1. IInv => LostOnlyOutsideWindow  BY DEF IInv
<1> QED BY <1>1, Inductive, PTL

(* Session.encrypt() never uses a nonce twice, whatever its threads do.      *)
THEOREM NoncesNeverRepeat == Spec => []NonceUnique
<1>1. IInv => NonceUnique  BY DEF IInv
<1> QED BY <1>1, Inductive, PTL

-----------------------------------------------------------------------------
(* Every step of the session is a step of the promised channel.             *)
LEMMA StepKeepsPromise ==
  ASSUME IInv, [Next]_vars
  PROVE  [Promise!Next]_<<wire, times>>
<1> USE DEF Promise!Next, Promise!Send, Promise!Receive
<1>1. ASSUME NEW t \in Threads, Take(t) PROVE UNCHANGED <<wire, times>>
  BY <1>1 DEF Take, recvVars
<1>2. ASSUME NEW t \in Threads, Emit(t) PROVE Promise!Next
  <2>1. held[t] \in Ctr \ wire
    BY <1>2 DEF Emit, IInv, TypeOK, NonceUnique
  <2> QED BY <1>2, <2>1 DEF Emit, recvVars
<1>3. ASSUME NEW c \in Ctr, AcceptNewer(c) PROVE Promise!Next
  <2>1. times[c] = 0
    BY <1>3, MaxCtrAssumption DEF AcceptNewer, IInv, DeliveredUpToMax, TypeOK, Ctr
  <2>2. Promise!Receive(c)
    BY <1>3, <2>1 DEF AcceptNewer, sendVars
  <2> QED BY <2>2
<1>4. ASSUME NEW c \in Ctr, AcceptOlder(c) PROVE Promise!Next
  <2>1. rxMax - c < Window
    BY <1>4, WindowAssumption DEF AcceptOlder, Stale, IInv, TypeOK, Ctr
  <2>2. times[c] = 0
    BY <1>4, <2>1 DEF AcceptOlder, Replayed, IInv, WindowExact, TypeOK
  <2>3. Promise!Receive(c)
    BY <1>4, <2>2 DEF AcceptOlder, sendVars
  <2> QED BY <2>3
<1>5. ASSUME NEW c \in Ctr, Refuse(c) PROVE UNCHANGED <<wire, times>>
  BY <1>5 DEF Refuse, sendVars
<1>6. CASE UNCHANGED vars
  BY <1>6 DEF vars
<1> QED BY <1>1, <1>2, <1>3, <1>4, <1>5, <1>6 DEF Next

(* A mesh session implements the lossy, unordered channel that never         *)
(* duplicates.                                                              *)
THEOREM KeepsPromise == Spec => PromiseSpec
<1>1. Init => Promise!Init
  BY DEF Init, Promise!Init
<1> QED
  BY <1>1, Inductive, StepKeepsPromise, PTL
     DEF Spec, PromiseSpec, Promise!Spec

=============================================================================
