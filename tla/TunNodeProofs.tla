---------------------------- MODULE TunNodeProofs ----------------------------
(***************************************************************************)
(* Safety theorems about TunNode, for any command lines, addresses, subnets    *)
(* and number of starts and changes.                                         *)
(***************************************************************************)
EXTENDS TunNode, TLAPS

-----------------------------------------------------------------------------
(* The order of the steps, written out.                                        *)
LEMMA OrderDomain == DOMAIN Order = 1 .. 26
  BY DEF Order, Sequence

LEMMA OrderIs ==
  /\ Order[1] = "nat" /\ Order[2] = "rules" /\ Order[3] = "wire"
  /\ Order[4] = "read" /\ Order[5] = "install" /\ Order[6] = "gateway"
  /\ Order[7] = "pin" /\ Order[8] = "callback" /\ Order[9] = "lan"
  /\ Order[10] = "note lan" /\ Order[11] = "split" /\ Order[12] = "note split"
  /\ Order[13] = "resync" /\ Order[14] = "detect" /\ Order[15] = "listen"
  /\ Order[16] = "resolver" /\ Order[17] = "write" /\ Order[18] = "note resolver"
  /\ Order[19] = "run" /\ Order[20] = "close" /\ Order[21] = "restore"
  /\ Order[22] = "rewrite" /\ Order[23] = "stop" /\ Order[24] = "split off"
  /\ Order[25] = "unpin" /\ Order[26] = "cleanup"
  BY DEF Order, Sequence

LEMMA Upto26 ==
  ASSUME NEW i \in 1 .. 26
  PROVE
    \/ i = 1 \/ i = 2 \/ i = 3 \/ i = 4 \/ i = 5 \/ i = 6 \/ i = 7 \/ i = 8 \/ i = 9
    \/ i = 10 \/ i = 11 \/ i = 12 \/ i = 13 \/ i = 14 \/ i = 15 \/ i = 16 \/ i = 17 \/ i = 18
    \/ i = 19 \/ i = 20 \/ i = 21 \/ i = 22 \/ i = 23 \/ i = 24 \/ i = 25 \/ i = 26
  OBVIOUS

AllSteps ==
  {"nat", "rules", "wire", "read", "install", "gateway", "pin", "callback", "lan", "note lan",
   "split", "note split", "resync", "detect", "listen", "resolver", "write",
   "note resolver", "run", "close", "restore", "rewrite", "stop", "split off", "unpin",
   "cleanup"}

LEMMA StepsAre == Steps \subseteq AllSteps
<1>1. Steps = {Order[i] : i \in 1 .. 26}
  BY OrderDomain DEF Steps, Range
<1>2. ASSUME NEW i \in 1 .. 26 PROVE Order[i] \in AllSteps
  <2>1. CASE i \in 1 .. 7
    <3>1. i = 1 \/ i = 2 \/ i = 3 \/ i = 4 \/ i = 5 \/ i = 6 \/ i = 7
      BY <2>1
    <3>2. \/ Order[i] = "nat" \/ Order[i] = "rules" \/ Order[i] = "wire" \/ Order[i] = "read"
          \/ Order[i] = "install" \/ Order[i] = "gateway" \/ Order[i] = "pin"
      BY <3>1, OrderIs, Zenon
    <3> QED BY <3>2, Zenon DEF AllSteps
  <2>2. CASE i \in 8 .. 14
    <3>1. i = 8 \/ i = 9 \/ i = 10 \/ i = 11 \/ i = 12 \/ i = 13 \/ i = 14
      BY <2>2
    <3>2. \/ Order[i] = "callback" \/ Order[i] = "lan" \/ Order[i] = "note lan" \/ Order[i] = "split"
          \/ Order[i] = "note split" \/ Order[i] = "resync" \/ Order[i] = "detect"
      BY <3>1, OrderIs, Zenon
    <3> QED BY <3>2, Zenon DEF AllSteps
  <2>3. CASE i \in 15 .. 20
    <3>1. i = 15 \/ i = 16 \/ i = 17 \/ i = 18 \/ i = 19 \/ i = 20
      BY <2>3
    <3>2. \/ Order[i] = "listen" \/ Order[i] = "resolver" \/ Order[i] = "write"
          \/ Order[i] = "note resolver" \/ Order[i] = "run" \/ Order[i] = "close"
      BY <3>1, OrderIs, Zenon
    <3> QED BY <3>2, Zenon DEF AllSteps
  <2>4. CASE i \in 21 .. 26
    <3>1. i = 21 \/ i = 22 \/ i = 23 \/ i = 24 \/ i = 25 \/ i = 26
      BY <2>4
    <3>2. \/ Order[i] = "restore" \/ Order[i] = "rewrite" \/ Order[i] = "stop"
          \/ Order[i] = "split off" \/ Order[i] = "unpin" \/ Order[i] = "cleanup"
      BY <3>1, OrderIs, Zenon
    <3> QED BY <3>2, Zenon DEF AllSteps
  <2>5. i \in 1 .. 7 \/ i \in 8 .. 14 \/ i \in 15 .. 20 \/ i \in 21 .. 26
    OBVIOUS
  <2> QED BY <2>1, <2>2, <2>3, <2>4, <2>5, Zenon
<1> QED BY <1>1, <1>2

(* Each step occurs once, so that After() is the one behind it.                  *)
LEMMA AfterIs ==
  ASSUME NEW i \in 1 .. 25, NEW k, k = 1 + i, NEW p, p = Order[i],
         \A j \in 1 .. 26 : Order[j] = p => j = i
  PROVE  After(p) = Order[k]
<1> DEFINE C == CHOOSE j \in DOMAIN Order : Order[j] = p
<1>1. DOMAIN Order = 1 .. 26 /\ i \in 1 .. 26
  BY OrderDomain
<1>2. \E j \in DOMAIN Order : Order[j] = p
  BY <1>1
<1>3. C \in DOMAIN Order /\ Order[C] = p
  BY <1>2
<1>4. C = i
  BY <1>1, <1>3
<1>5. After(p) = Order[1 + C]
  BY DEF After
<1> QED BY <1>4, <1>5

LEMMA Following ==
  /\ After("nat") = "rules"
  /\ After("rules") = "wire"
  /\ After("wire") = "read"
  /\ After("read") = "install"
  /\ After("install") = "gateway"
  /\ After("gateway") = "pin"
  /\ After("pin") = "callback"
  /\ After("callback") = "lan"
  /\ After("lan") = "note lan"
  /\ After("note lan") = "split"
  /\ After("split") = "note split"
  /\ After("note split") = "resync"
  /\ After("resync") = "detect"
  /\ After("detect") = "listen"
  /\ After("listen") = "resolver"
  /\ After("resolver") = "write"
  /\ After("write") = "note resolver"
  /\ After("note resolver") = "run"
  /\ After("run") = "close"
  /\ After("close") = "restore"
  /\ After("restore") = "rewrite"
  /\ After("rewrite") = "stop"
  /\ After("stop") = "split off"
  /\ After("split off") = "unpin"
  /\ After("unpin") = "cleanup"
<1>1. After("nat") = "rules"
  <2>1. \A j \in 1 .. 26 : Order[j] = "nat" => j = 1
    BY OrderIs, Upto26
  <2>2. Order[1] = "nat" /\ Order[2] = "rules"
    BY OrderIs, Zenon
  <2>3. 1 \in 1 .. 25 /\ 2 = 1 + 1
    OBVIOUS
  <2> QED BY <2>1, <2>2, <2>3, AfterIs
<1>2. After("rules") = "wire"
  <2>1. \A j \in 1 .. 26 : Order[j] = "rules" => j = 2
    BY OrderIs, Upto26
  <2>2. Order[2] = "rules" /\ Order[3] = "wire"
    BY OrderIs, Zenon
  <2>3. 2 \in 1 .. 25 /\ 3 = 1 + 2
    OBVIOUS
  <2> QED BY <2>1, <2>2, <2>3, AfterIs
<1>3. After("wire") = "read"
  <2>1. \A j \in 1 .. 26 : Order[j] = "wire" => j = 3
    BY OrderIs, Upto26
  <2>2. Order[3] = "wire" /\ Order[4] = "read"
    BY OrderIs, Zenon
  <2>3. 3 \in 1 .. 25 /\ 4 = 1 + 3
    OBVIOUS
  <2> QED BY <2>1, <2>2, <2>3, AfterIs
<1>4. After("read") = "install"
  <2>1. \A j \in 1 .. 26 : Order[j] = "read" => j = 4
    BY OrderIs, Upto26
  <2>2. Order[4] = "read" /\ Order[5] = "install"
    BY OrderIs, Zenon
  <2>3. 4 \in 1 .. 25 /\ 5 = 1 + 4
    OBVIOUS
  <2> QED BY <2>1, <2>2, <2>3, AfterIs
<1>5. After("install") = "gateway"
  <2>1. \A j \in 1 .. 26 : Order[j] = "install" => j = 5
    BY OrderIs, Upto26
  <2>2. Order[5] = "install" /\ Order[6] = "gateway"
    BY OrderIs, Zenon
  <2>3. 5 \in 1 .. 25 /\ 6 = 1 + 5
    OBVIOUS
  <2> QED BY <2>1, <2>2, <2>3, AfterIs
<1>6. After("gateway") = "pin"
  <2>1. \A j \in 1 .. 26 : Order[j] = "gateway" => j = 6
    BY OrderIs, Upto26
  <2>2. Order[6] = "gateway" /\ Order[7] = "pin"
    BY OrderIs, Zenon
  <2>3. 6 \in 1 .. 25 /\ 7 = 1 + 6
    OBVIOUS
  <2> QED BY <2>1, <2>2, <2>3, AfterIs
<1>7. After("pin") = "callback"
  <2>1. \A j \in 1 .. 26 : Order[j] = "pin" => j = 7
    BY OrderIs, Upto26
  <2>2. Order[7] = "pin" /\ Order[8] = "callback"
    BY OrderIs, Zenon
  <2>3. 7 \in 1 .. 25 /\ 8 = 1 + 7
    OBVIOUS
  <2> QED BY <2>1, <2>2, <2>3, AfterIs
<1>8. After("callback") = "lan"
  <2>1. \A j \in 1 .. 26 : Order[j] = "callback" => j = 8
    BY OrderIs, Upto26
  <2>2. Order[8] = "callback" /\ Order[9] = "lan"
    BY OrderIs, Zenon
  <2>3. 8 \in 1 .. 25 /\ 9 = 1 + 8
    OBVIOUS
  <2> QED BY <2>1, <2>2, <2>3, AfterIs
<1>9. After("lan") = "note lan"
  <2>1. \A j \in 1 .. 26 : Order[j] = "lan" => j = 9
    BY OrderIs, Upto26
  <2>2. Order[9] = "lan" /\ Order[10] = "note lan"
    BY OrderIs, Zenon
  <2>3. 9 \in 1 .. 25 /\ 10 = 1 + 9
    OBVIOUS
  <2> QED BY <2>1, <2>2, <2>3, AfterIs
<1>10. After("note lan") = "split"
  <2>1. \A j \in 1 .. 26 : Order[j] = "note lan" => j = 10
    BY OrderIs, Upto26
  <2>2. Order[10] = "note lan" /\ Order[11] = "split"
    BY OrderIs, Zenon
  <2>3. 10 \in 1 .. 25 /\ 11 = 1 + 10
    OBVIOUS
  <2> QED BY <2>1, <2>2, <2>3, AfterIs
<1>11. After("split") = "note split"
  <2>1. \A j \in 1 .. 26 : Order[j] = "split" => j = 11
    BY OrderIs, Upto26
  <2>2. Order[11] = "split" /\ Order[12] = "note split"
    BY OrderIs, Zenon
  <2>3. 11 \in 1 .. 25 /\ 12 = 1 + 11
    OBVIOUS
  <2> QED BY <2>1, <2>2, <2>3, AfterIs
<1>12. After("note split") = "resync"
  <2>1. \A j \in 1 .. 26 : Order[j] = "note split" => j = 12
    BY OrderIs, Upto26
  <2>2. Order[12] = "note split" /\ Order[13] = "resync"
    BY OrderIs, Zenon
  <2>3. 12 \in 1 .. 25 /\ 13 = 1 + 12
    OBVIOUS
  <2> QED BY <2>1, <2>2, <2>3, AfterIs
<1>13. After("resync") = "detect"
  <2>1. \A j \in 1 .. 26 : Order[j] = "resync" => j = 13
    BY OrderIs, Upto26
  <2>2. Order[13] = "resync" /\ Order[14] = "detect"
    BY OrderIs, Zenon
  <2>3. 13 \in 1 .. 25 /\ 14 = 1 + 13
    OBVIOUS
  <2> QED BY <2>1, <2>2, <2>3, AfterIs
<1>14. After("detect") = "listen"
  <2>1. \A j \in 1 .. 26 : Order[j] = "detect" => j = 14
    BY OrderIs, Upto26
  <2>2. Order[14] = "detect" /\ Order[15] = "listen"
    BY OrderIs, Zenon
  <2>3. 14 \in 1 .. 25 /\ 15 = 1 + 14
    OBVIOUS
  <2> QED BY <2>1, <2>2, <2>3, AfterIs
<1>15. After("listen") = "resolver"
  <2>1. \A j \in 1 .. 26 : Order[j] = "listen" => j = 15
    BY OrderIs, Upto26
  <2>2. Order[15] = "listen" /\ Order[16] = "resolver"
    BY OrderIs, Zenon
  <2>3. 15 \in 1 .. 25 /\ 16 = 1 + 15
    OBVIOUS
  <2> QED BY <2>1, <2>2, <2>3, AfterIs
<1>16. After("resolver") = "write"
  <2>1. \A j \in 1 .. 26 : Order[j] = "resolver" => j = 16
    BY OrderIs, Upto26
  <2>2. Order[16] = "resolver" /\ Order[17] = "write"
    BY OrderIs, Zenon
  <2>3. 16 \in 1 .. 25 /\ 17 = 1 + 16
    OBVIOUS
  <2> QED BY <2>1, <2>2, <2>3, AfterIs
<1>17. After("write") = "note resolver"
  <2>1. \A j \in 1 .. 26 : Order[j] = "write" => j = 17
    BY OrderIs, Upto26
  <2>2. Order[17] = "write" /\ Order[18] = "note resolver"
    BY OrderIs, Zenon
  <2>3. 17 \in 1 .. 25 /\ 18 = 1 + 17
    OBVIOUS
  <2> QED BY <2>1, <2>2, <2>3, AfterIs
<1>18. After("note resolver") = "run"
  <2>1. \A j \in 1 .. 26 : Order[j] = "note resolver" => j = 18
    BY OrderIs, Upto26
  <2>2. Order[18] = "note resolver" /\ Order[19] = "run"
    BY OrderIs, Zenon
  <2>3. 18 \in 1 .. 25 /\ 19 = 1 + 18
    OBVIOUS
  <2> QED BY <2>1, <2>2, <2>3, AfterIs
<1>19. After("run") = "close"
  <2>1. \A j \in 1 .. 26 : Order[j] = "run" => j = 19
    BY OrderIs, Upto26
  <2>2. Order[19] = "run" /\ Order[20] = "close"
    BY OrderIs, Zenon
  <2>3. 19 \in 1 .. 25 /\ 20 = 1 + 19
    OBVIOUS
  <2> QED BY <2>1, <2>2, <2>3, AfterIs
<1>20. After("close") = "restore"
  <2>1. \A j \in 1 .. 26 : Order[j] = "close" => j = 20
    BY OrderIs, Upto26
  <2>2. Order[20] = "close" /\ Order[21] = "restore"
    BY OrderIs, Zenon
  <2>3. 20 \in 1 .. 25 /\ 21 = 1 + 20
    OBVIOUS
  <2> QED BY <2>1, <2>2, <2>3, AfterIs
<1>21. After("restore") = "rewrite"
  <2>1. \A j \in 1 .. 26 : Order[j] = "restore" => j = 21
    BY OrderIs, Upto26
  <2>2. Order[21] = "restore" /\ Order[22] = "rewrite"
    BY OrderIs, Zenon
  <2>3. 21 \in 1 .. 25 /\ 22 = 1 + 21
    OBVIOUS
  <2> QED BY <2>1, <2>2, <2>3, AfterIs
<1>22. After("rewrite") = "stop"
  <2>1. \A j \in 1 .. 26 : Order[j] = "rewrite" => j = 22
    BY OrderIs, Upto26
  <2>2. Order[22] = "rewrite" /\ Order[23] = "stop"
    BY OrderIs, Zenon
  <2>3. 22 \in 1 .. 25 /\ 23 = 1 + 22
    OBVIOUS
  <2> QED BY <2>1, <2>2, <2>3, AfterIs
<1>23. After("stop") = "split off"
  <2>1. \A j \in 1 .. 26 : Order[j] = "stop" => j = 23
    BY OrderIs, Upto26
  <2>2. Order[23] = "stop" /\ Order[24] = "split off"
    BY OrderIs, Zenon
  <2>3. 23 \in 1 .. 25 /\ 24 = 1 + 23
    OBVIOUS
  <2> QED BY <2>1, <2>2, <2>3, AfterIs
<1>24. After("split off") = "unpin"
  <2>1. \A j \in 1 .. 26 : Order[j] = "split off" => j = 24
    BY OrderIs, Upto26
  <2>2. Order[24] = "split off" /\ Order[25] = "unpin"
    BY OrderIs, Zenon
  <2>3. 24 \in 1 .. 25 /\ 25 = 1 + 24
    OBVIOUS
  <2> QED BY <2>1, <2>2, <2>3, AfterIs
<1>25. After("unpin") = "cleanup"
  <2>1. \A j \in 1 .. 26 : Order[j] = "unpin" => j = 25
    BY OrderIs, Upto26
  <2>2. Order[25] = "unpin" /\ Order[26] = "cleanup"
    BY OrderIs, Zenon
  <2>3. 25 \in 1 .. 25 /\ 26 = 1 + 25
    OBVIOUS
  <2> QED BY <2>1, <2>2, <2>3, AfterIs
<1> QED
  BY <1>1, <1>2, <1>3, <1>4, <1>5, <1>6, <1>7, <1>8, <1>9,
     <1>10, <1>11, <1>12, <1>13, <1>14, <1>15, <1>16, <1>17, <1>18,
     <1>19, <1>20, <1>21, <1>22, <1>23, <1>24, <1>25

LEMMA First == Order[1] = "nat"
  BY OrderIs, Zenon

(* No step but the last is followed by one at either end.                           *)
LEMMA Between ==
  ASSUME NEW p \in AllSteps \ {"cleanup", "unpin"}
  PROVE  After(p) \notin {"off", "nat", "cleanup"}
<1>1. CASE p \in {"nat", "rules", "wire", "read", "install", "gateway", "pin",
              "callback"}
  BY <1>1, Following
<1>2. CASE p \in {"lan", "note lan", "split", "note split", "resync",
              "detect", "listen", "resolver"}
  BY <1>2, Following
<1>3. CASE p \in {"write", "note resolver", "run", "close", "restore",
              "rewrite", "stop", "split off"}
  BY <1>3, Following
<1> QED BY <1>1, <1>2, <1>3 DEF AllSteps

-----------------------------------------------------------------------------
(* What the command line asks for. *)
LEMMA AskedFull ==
  ASSUME pc \in {"gateway", "pin", "callback", "lan", "note lan", "split", "note split", "resync"}
  PROVE  Asked(pc) <=> setup.full
BY DEF Asked

LEMMA AskedDns ==
  ASSUME pc \in {"detect", "listen", "resolver", "write", "note resolver"}
  PROVE  Asked(pc) <=> setup.dns
BY DEF Asked

LEMMA Unskipped ==
  /\ pc \in {"run", "close", "stop", "split off", "unpin"} => Asked(pc)
  /\ pc \in {"restore", "rewrite"} => (Asked(pc) <=> applied)
  /\ pc \in {"nat", "rules"} => (Asked(pc) <=> setup.nat)
BY DEF Asked

-----------------------------------------------------------------------------
(* TransportPinned.  What a thread is about to pin includes the coordinator; what    *)
(* has been noted is pinned; and the redirected default route is there only in the    *)
(* steps between its installation, which comes after the first pinning, and its      *)
(* removal, which comes before the unpinning, unless it was never noted.            *)
WhileSplit ==
  {"note split", "resync", "detect", "listen", "resolver", "write", "note resolver", "run",
   "close", "restore", "rewrite", "stop", "split off"}

PinInv ==
  /\ want = [t \in Threads |-> want[t]]
  /\ \A t \in Threads : want[t] # None => Coord \in want[t] /\ want[t] \subseteq Addresses
  /\ want["main"] # None => setup.full /\ pc = "pin"
  /\ adding # None => setup.full /\ pc = "pin" /\ adding \in pins
  /\ ends \subseteq Ends /\ pins \subseteq Addresses
  /\ pinned \subseteq pins
  /\ setup.full /\ pc \in {"callback", "lan", "note lan", "split"} => Coord \in pinned
  /\ splitSet => pc \in WhileSplit \ {"note split"}
  /\ split => /\ \/ pc \in WhileSplit \cup {"unpin"} /\ Coord \in pinned
                 \/ pc = "cleanup"
              /\ splitSet \/ "split" \in torn \/ (setup.full /\ pc = "note split")

LEMMA SkipSplit ==
  ASSUME pc' = After(pc), pc \notin {"run", "stop", "split off"}
  PROVE  /\ pc \in WhileSplit => pc' \in WhileSplit
         /\ pc \in WhileSplit \ {"note split"} => pc' \in WhileSplit \ {"note split"}
<1>1. pc \in {"note split", "resync", "detect", "listen", "resolver", "write"} =>
        pc' \in {"resync", "detect", "listen", "resolver", "write", "note resolver"}
  BY Following
<1>2. pc \in {"note resolver", "close", "restore", "rewrite"} =>
        pc' \in {"run", "restore", "rewrite", "stop"}
  BY Following
<1> QED BY <1>1, <1>2, Zenon DEF WhileSplit

LEMMA PinStep ==
  ASSUME PinInv, [Next]_vars PROVE PinInv'
<1> USE Following, First DEF PinInv, WhileSplit, node, host, routing, dns, kernel, count
<1>1. CASE UNCHANGED vars
  BY <1>1 DEF vars
<1>2. CASE Start
  BY <1>2 DEF Start
<1>3. CASE Gone /\ UNCHANGED <<setup, pins>>
  <2>1. \A t \in Threads : want'[t] = None
    BY <1>3 DEF Gone, NoWant
  <2>2. want' = [t \in Threads |-> want'[t]]
    BY <1>3 DEF Gone, NoWant
  <2>3. /\ pc' = "off" /\ ~split' /\ ~splitSet' /\ adding' = None /\ pinned' = {} /\ ends' = {}
        /\ UNCHANGED <<setup, pins>>
    BY <1>3 DEF Gone
  <2> QED BY <2>1, <2>2, <2>3 DEF Threads
<1>4. CASE Interrupt
  <2>1. /\ pc' = "close" /\ pc \in InTry /\ want' = [want EXCEPT !["main"] = None] /\ adding' = None
        /\ torn' = torn \cup Halfway
        /\ UNCHANGED <<setup, pins, pinned, split, splitSet, ends>>
    BY <1>4 DEF Interrupt
  <2>2. /\ want' = [u \in Threads |-> want'[u]]
        /\ \A u \in Threads : want'[u] = IF u = "main" THEN None ELSE want[u]
    BY <2>1
  <2>3. setup.full /\ pc = "note split" => "split" \in torn'
    BY <2>1, AskedFull DEF Halfway
  <2>4. torn \subseteq torn'
    BY <2>1
  <2>5. pc \notin {"unpin", "cleanup", "off"}
    BY <2>1 DEF InTry
  <2> QED BY <2>1, <2>2, <2>3, <2>4, <2>5 DEF Threads
<1>5. CASE Skip
  <2>1. pc \in AllSteps \ {"cleanup"} /\ pc' = After(pc)
    BY <1>5, StepsAre DEF Skip
  <2>2. UNCHANGED <<setup, want, adding, pins, pinned, split, splitSet, ends, torn>>
    BY <1>5 DEF Skip
  <2>3. pc \in {"pin", "callback", "lan", "note lan", "split", "note split"} => ~setup.full
    BY <1>5, AskedFull DEF Skip
  <2>4. pc \notin {"run", "stop", "split off", "unpin", "cleanup", "off"}
    BY <1>5, <2>1, Unskipped DEF Skip, AllSteps
  <2>5. pc' \in {"callback", "lan", "note lan", "split"} => ~setup.full
    <3>1. pc' \in {"callback", "lan", "note lan", "split"} => pc \in {"pin", "callback", "lan", "note lan"}
      BY <2>1, <2>4 DEF AllSteps
    <3> QED BY <2>3, <3>1
  <2>6. /\ pc \in WhileSplit => pc' \in WhileSplit
        /\ pc \in WhileSplit \ {"note split"} => pc' \in WhileSplit \ {"note split"}
    BY <1>5, <2>1, <2>4, SkipSplit DEF Skip
  <2>7. adding = None /\ want["main"] = None
    BY <2>3
  <2>8. pc = "note split" => ~setup.full
    BY <2>3
  <2> HIDE DEF WhileSplit
  <2>9. splitSet => pc' \in WhileSplit \ {"note split"}
    BY <2>6
  <2>10. split => pc' \in WhileSplit /\ Coord \in pinned /\ (splitSet \/ "split" \in torn)
    BY <2>4, <2>6, <2>8
  <2> QED BY <2>2, <2>5, <2>7, <2>9, <2>10
<1>6. ASSUME NEW t \in Threads, Compute(t), t = "main" => setup.full /\ pc = "pin"
      PROVE  PinInv'
  <2>1. want' = [want EXCEPT ![t] = Transport] /\ Coord \in Transport /\ Transport \subseteq Addresses
    BY <1>6 DEF Compute, Transport, Addresses
  <2>2. UNCHANGED <<setup, pc, adding, pins, pinned, split, splitSet, ends, torn>>
    BY <1>6 DEF Compute
  <2>3. /\ want' = [u \in Threads |-> want'[u]]
        /\ \A u \in Threads : want'[u] = IF u = t THEN Transport ELSE want[u]
    BY <2>1
  <2> QED BY <1>6, <2>1, <2>2, <2>3 DEF Threads
<1>7. ASSUME NEW t \in Threads \ {"main"}, Sync(t) PROVE PinInv'
  <2>1. /\ want[t] # None /\ adding = None /\ pc # "unpin" /\ want' = [want EXCEPT ![t] = None]
        /\ pins' = (pins \cup (want[t] \ pinned)) \ (pinned \ want[t]) /\ pinned' = want[t]
        /\ UNCHANGED <<setup, pc, adding, split, splitSet, ends, torn>>
    BY <1>7 DEF Sync, Locked
  <2>2. /\ want' = [u \in Threads |-> want'[u]]
        /\ \A u \in Threads : want'[u] = IF u = t THEN None ELSE want[u]
    BY <2>1
  <2>3. Coord \in pinned' /\ pinned' \subseteq pins' /\ pins' \subseteq Addresses
    BY <2>1
  <2> QED BY <2>1, <2>2, <2>3 DEF Threads
<1>8. CASE \/ EnableForward \/ ApplyRules \/ WireRoutes \/ ReadTable
            \/ InstallRoutes \/ FindExit \/ NoExit
  <2>1. CASE EnableForward
    BY <2>1 DEF EnableForward, At
  <2>2. CASE ApplyRules
    BY <2>2 DEF ApplyRules, At
  <2>3. CASE WireRoutes
    BY <2>3 DEF WireRoutes, At
  <2>4. CASE ReadTable
    BY <2>4 DEF ReadTable, At
  <2>5. CASE InstallRoutes
    BY <2>5 DEF InstallRoutes, At
  <2>6. CASE FindExit
    BY <2>6 DEF FindExit, At
  <2>7. CASE NoExit
    BY <2>7 DEF NoExit
  <2> QED BY <1>8, <2>1, <2>2, <2>3, <2>4, <2>5, <2>6, <2>7
<1>9. CASE PinOne \/ NotePin \/ PinsDone \/ WirePins
  <2>1. CASE PinOne
    <3>1. PICK a \in want["main"] \ pinned : adding' = a /\ pins' = pins \cup {a}
      BY <2>1 DEF PinOne
    <3>2. /\ pc = "pin" /\ want["main"] # None
          /\ UNCHANGED <<setup, pc, want, pinned, split, splitSet, ends, torn>>
      BY <2>1 DEF PinOne
    <3>3. a \in Addresses /\ setup.full
      BY <3>1, <3>2 DEF Threads
    <3> QED BY <3>1, <3>2, <3>3
  <2>2. CASE NotePin
    BY <2>2 DEF NotePin
  <2>3. CASE PinsDone
    <3>1. /\ pc = "pin" /\ pc' = "callback" /\ want["main"] # None /\ adding = None
          /\ want["main"] \subseteq pinned /\ want' = [want EXCEPT !["main"] = None]
          /\ UNCHANGED <<setup, adding, pins, pinned, split, splitSet, ends, torn>>
      BY <2>3 DEF PinsDone, At
    <3>2. /\ want' = [u \in Threads |-> want'[u]]
          /\ \A u \in Threads : want'[u] = IF u = "main" THEN None ELSE want[u]
      BY <3>1
    <3>3. Coord \in pinned
      BY <3>1 DEF Threads
    <3> QED BY <3>1, <3>2, <3>3 DEF Threads
  <2>4. CASE WirePins
    BY <2>4 DEF WirePins, At
  <2> QED BY <1>9, <2>1, <2>2, <2>3, <2>4
<1>10. CASE InstallLan \/ NoteLan \/ InstallSplit \/ NoteSplit \/ StartResync
  <2>1. CASE InstallLan
    BY <2>1 DEF InstallLan, At
  <2>2. CASE NoteLan
    BY <2>2 DEF NoteLan, At
  <2>3. CASE InstallSplit
    BY <2>3 DEF InstallSplit, At
  <2>4. CASE NoteSplit
    BY <2>4 DEF NoteSplit, At
  <2>5. CASE StartResync
    BY <2>5 DEF StartResync, At
  <2> QED BY <1>10, <2>1, <2>2, <2>3, <2>4, <2>5
<1>11. CASE Detect \/ Listen \/ ListenFails \/ OpenResolver \/ ResolverFails
  <2>1. CASE Detect
    BY <2>1 DEF Detect, At
  <2>2. CASE Listen
    BY <2>2 DEF Listen, At
  <2>3. CASE ListenFails
    BY <2>3 DEF ListenFails
  <2>4. CASE OpenResolver
    BY <2>4 DEF OpenResolver, At
  <2>5. CASE ResolverFails
    BY <2>5 DEF ResolverFails
  <2> QED BY <1>11, <2>1, <2>2, <2>3, <2>4, <2>5
<1>12. CASE WriteResolver \/ WriteFails \/ NoteResolver \/ Finish
  <2>1. CASE WriteResolver
    BY <2>1 DEF WriteResolver, At
  <2>2. CASE WriteFails
    BY <2>2 DEF WriteFails
  <2>3. CASE NoteResolver
    BY <2>3 DEF NoteResolver, At
  <2>4. CASE Finish
    BY <2>4 DEF Finish
  <2> QED BY <1>12, <2>1, <2>2, <2>3, <2>4
<1>13. CASE \/ Close \/ Restore \/ Rewrite \/ RestoreFails
             \/ StopDns \/ SplitOff \/ Unpin
  <2>1. CASE Close
    BY <2>1 DEF Close, At
  <2>2. CASE Restore
    BY <2>2 DEF Restore, At
  <2>3. CASE Rewrite
    BY <2>3 DEF Rewrite, At
  <2>4. CASE RestoreFails
    BY <2>4 DEF RestoreFails
  <2>5. CASE StopDns
    BY <2>5 DEF StopDns, At
  <2>6. CASE SplitOff
    <3>1. /\ pc = "split off" /\ pc' = "unpin" /\ split' = (split /\ ~splitSet) /\ splitSet' = FALSE
          /\ UNCHANGED <<setup, want, adding, pins, pinned, ends, torn>>
      BY <2>6 DEF SplitOff, At
    <3> QED BY <3>1
  <2>7. CASE Unpin
    <3>1. /\ pc = "unpin" /\ pc' = "cleanup" /\ pins' = pins \ pinned /\ pinned' = {}
          /\ UNCHANGED <<setup, want, adding, split, splitSet, ends, torn>>
      BY <2>7 DEF Unpin, At
    <3> QED BY <3>1
  <2> QED BY <1>13, <2>1, <2>2, <2>3, <2>4, <2>5, <2>6, <2>7
<1>14. CASE \/ SyncRoutes \/ TakePeers \/ CallNone \/ MapArrives
             \/ Punch \/ ChannelEnds
  <2>1. CASE SyncRoutes
    BY <2>1 DEF SyncRoutes
  <2>2. CASE TakePeers
    BY <2>2 DEF TakePeers
  <2>3. CASE CallNone
    BY <2>3 DEF CallNone
  <2>4. CASE MapArrives
    BY <2>4 DEF MapArrives
  <2>5. CASE Punch
    BY <2>5 DEF Punch
  <2>6. CASE ChannelEnds
    BY <2>6 DEF ChannelEnds
  <2> QED BY <1>14, <2>1, <2>2, <2>3, <2>4, <2>5, <2>6
<1>3a. CASE Crash \/ NatRefused \/ RulesFail \/ Cleanup
  BY <1>3, <1>3a DEF Crash, NatRefused, RulesFail, Cleanup
<1> QED
  BY <1>1, <1>2, <1>3a, <1>4, <1>5, <1>6, <1>7, <1>8, <1>9, <1>10, <1>11, <1>12, <1>13, <1>14
  DEF Next, SetUp, TearDown, Control, Others, ComputePins, CallBack, Resync, UdpCalls, Threads

-----------------------------------------------------------------------------
(* NamesResolve.  While the program holds the resolver, the server runs, the upstream  *)
(* it found is a real one and so is the backup, for the file it looked at is the       *)
(* host's own, unless a crash or an error left another; and resolv.conf is empty only   *)
(* between a truncation and the write behind it.                                  *)
Held == applied \/ (setup.dns /\ pc \in {"write", "note resolver"})
Half == (setup.dns /\ pc = "write") \/ (applied /\ pc = "rewrite")
Untorn == crashes = 0 /\ "resolv" \notin torn /\ "emptied" \notin torn

NameInv ==
  /\ crashes \in Nat
  /\ applied => pc \in {"run", "close", "restore", "rewrite"} /\ listening
  /\ setup.dns /\ pc \in {"resolver", "write", "note resolver"} => listening
  /\ Half => resolv = <<>>
  /\ Untorn \/ setup.given =>
       /\ setup.dns /\ pc \in {"listen", "resolver"} => upstream = Real
       /\ Held => upstream = Real
       /\ "emptied" \in torn \/ (Held => Real \in Range(backup))
       /\ "emptied" \in torn \/ Half \/ Real \in Range(resolv)
  /\ Untorn => IF Held THEN backup = <<Real>> ELSE resolv = <<Real>>

LEMMA Counting == \A n \in Nat : n + 1 \in Nat /\ n + 1 # n /\ n + 1 # 0
OBVIOUS

LEMMA RealIsNamed ==
  /\ Real \in Range(<<Real>>) /\ Real \in Range(<<Loopback, Real>>)
  /\ ResolvConf(Real) = <<Loopback, Real>> /\ Real # Loopback
  /\ Head(<<Real>>) = Real /\ <<Real>> # <<>>
<1>1. Real \in Range(<<Real>>)
  <2> DEFINE q == <<Real>>
  <2>1. 1 \in DOMAIN q /\ q[1] = Real
    OBVIOUS
  <2> QED BY <2>1 DEF Range
<1>2. Real \in Range(<<Loopback, Real>>)
  <2> DEFINE q == <<Loopback, Real>>
  <2>1. 2 \in DOMAIN q /\ q[2] = Real
    OBVIOUS
  <2> QED BY <2>1 DEF Range
<1>3. Real # Loopback
  BY DEF Real, Loopback
<1>4. Head(<<Real>>) = Real
  OBVIOUS
<1>5. <<Real>> # <<>>
  <2>1. Len(<<Real>>) = 1 /\ Len(<<>>) = 0
    OBVIOUS
  <2> QED BY <2>1
<1> QED BY <1>1, <1>2, <1>3, <1>4, <1>5, TunNodeAssumption DEF ResolvConf

LEMMA NameStep ==
  ASSUME PinInv, NameInv, [Next]_vars PROVE NameInv'
<1> USE Following, First DEF NameInv, Held, Half, Untorn, node, host, routing, dns, kernel, count
<1>1. CASE UNCHANGED vars
  BY <1>1 DEF vars
<1>2. CASE Start
  BY <1>2 DEF Start
<1>3. ASSUME Gone, UNCHANGED <<setup, resolv>>, crashes' \in {crashes, crashes + 1},
             crashes' = crashes => pc \in {"nat", "rules", "cleanup"}
      PROVE  NameInv'
  <2>1. /\ pc' = "off" /\ ~applied' /\ UNCHANGED <<setup, resolv>>
        /\ torn' = (torn \ {"split"}) \cup (IF resolv = <<>> THEN {"emptied"} ELSE {})
    BY <1>3 DEF Gone
  <2>2. crashes' \in Nat /\ (crashes' = 0 => crashes' = crashes)
    <3>1. CASE crashes' = crashes
      BY <3>1
    <3>2. CASE crashes' = crashes + 1
      BY <3>2, Counting
    <3> QED BY <1>3, <3>1, <3>2
  <2>3. ("emptied" \in torn => "emptied" \in torn') /\ ("resolv" \in torn => "resolv" \in torn')
        /\ (resolv = <<>> => "emptied" \in torn')
    BY <2>1
  <2>4. Untorn' => Untorn /\ ~Held
    BY <1>3, <2>2, <2>3
  <2>5. Untorn' \/ setup.given => "emptied" \in torn' \/ Real \in Range(resolv)
    BY <2>3, <2>4
  <2>6. Untorn' => resolv = <<Real>>
    BY <2>4
  <2> QED BY <2>1, <2>2, <2>5, <2>6
<1>3a. CASE Crash \/ NatRefused \/ RulesFail \/ Cleanup
  <2>1. CASE Crash
    <3>1. crashes' = crashes + 1 /\ crashes' # crashes
      BY <2>1, Counting DEF Crash
    <3>2. Gone /\ UNCHANGED <<setup, resolv>> /\ pc # "off"
      BY <2>1 DEF Crash
    <3> QED BY <1>3, <3>1, <3>2
  <2>2. CASE NatRefused
    BY <1>3, <2>2 DEF NatRefused
  <2>3. CASE RulesFail
    BY <1>3, <2>3 DEF RulesFail
  <2>4. CASE Cleanup
    BY <1>3, <2>4 DEF Cleanup
  <2> QED BY <1>3a, <2>1, <2>2, <2>3, <2>4
<1>4. CASE Interrupt
  <2>1. /\ pc' = "close" /\ pc \in InTry /\ torn' = torn \cup Halfway
        /\ UNCHANGED <<setup, crashes, resolv, applied, listening, upstream, backup>>
    BY <1>4 DEF Interrupt
  <2>2. setup.dns /\ pc = "write" => "emptied" \in torn'
    BY <2>1, AskedDns DEF Halfway
  <2>3. setup.dns /\ pc = "note resolver" => "resolv" \in torn'
    BY <2>1, AskedDns DEF Halfway
  <2>4. torn \subseteq torn'
    BY <2>1
  <2>5. pc \notin {"close", "restore", "rewrite"}
    BY <2>1 DEF InTry
  <2>6. Untorn' => Untorn
    BY <2>1, <2>4
  <2> QED BY <2>1, <2>2, <2>3, <2>4, <2>5, <2>6
<1>5. CASE Skip
  <2>1. pc \in AllSteps \ {"cleanup"} /\ pc' = After(pc)
    BY <1>5, StepsAre DEF Skip
  <2>2. UNCHANGED <<setup, crashes, resolv, applied, listening, upstream, backup, torn>>
    BY <1>5 DEF Skip
  <2>3. pc \in {"detect", "listen", "resolver", "write", "note resolver"} => ~setup.dns
    BY <1>5, AskedDns DEF Skip
  <2>4. pc \in {"restore", "rewrite"} => ~applied
    BY <1>5, Unskipped DEF Skip
  <2>5. pc \notin {"run", "close"}
    BY <1>5, Unskipped DEF Skip
  <2> QED BY <2>1, <2>2, <2>3, <2>4, <2>5 DEF AllSteps
<1>6. ASSUME NEW t \in Threads, Compute(t) PROVE NameInv'
  BY <1>6 DEF Compute
<1>7. ASSUME NEW t \in Threads, Sync(t) PROVE NameInv'
  BY <1>7 DEF Sync
<1>8. CASE \/ EnableForward \/ ApplyRules \/ WireRoutes \/ ReadTable
            \/ InstallRoutes \/ FindExit \/ NoExit
  <2>1. CASE EnableForward
    BY <2>1 DEF EnableForward, At
  <2>2. CASE ApplyRules
    BY <2>2 DEF ApplyRules, At
  <2>3. CASE WireRoutes
    BY <2>3 DEF WireRoutes, At
  <2>4. CASE ReadTable
    BY <2>4 DEF ReadTable, At
  <2>5. CASE InstallRoutes
    BY <2>5 DEF InstallRoutes, At
  <2>6. CASE FindExit
    BY <2>6 DEF FindExit, At
  <2>7. CASE NoExit
    BY <2>7 DEF NoExit
  <2> QED BY <1>8, <2>1, <2>2, <2>3, <2>4, <2>5, <2>6, <2>7
<1>9. CASE PinOne \/ NotePin \/ PinsDone \/ WirePins
  <2>1. CASE PinOne
    BY <2>1 DEF PinOne
  <2>2. CASE NotePin
    BY <2>2 DEF NotePin
  <2>3. CASE PinsDone
    BY <2>3 DEF PinsDone, At
  <2>4. CASE WirePins
    BY <2>4 DEF WirePins, At
  <2> QED BY <1>9, <2>1, <2>2, <2>3, <2>4
<1>10. CASE InstallLan \/ NoteLan \/ InstallSplit \/ NoteSplit \/ StartResync
  <2>1. CASE InstallLan
    BY <2>1 DEF InstallLan, At
  <2>2. CASE NoteLan
    BY <2>2 DEF NoteLan, At
  <2>3. CASE InstallSplit
    BY <2>3 DEF InstallSplit, At
  <2>4. CASE NoteSplit
    BY <2>4 DEF NoteSplit, At
  <2>5. CASE StartResync
    BY <2>5 DEF StartResync, At
  <2> QED BY <1>10, <2>1, <2>2, <2>3, <2>4, <2>5
<1>11. CASE Detect \/ Listen \/ ListenFails \/ OpenResolver \/ ResolverFails
  <2>1. CASE Detect
    <3>1. /\ pc = "detect" /\ pc' = "listen" /\ setup.dns
          /\ UNCHANGED <<setup, crashes, backup, resolv, listening, applied, torn>>
          /\ upstream' = IF setup.given THEN Real ELSE IF resolv = <<>> THEN None ELSE Head(resolv)
      BY <2>1 DEF Detect, At
    <3>2. ~applied /\ ~Held
      BY <3>1
    <3>3. Untorn \/ setup.given => upstream' = Real
      <4>1. CASE setup.given
        BY <3>1, <4>1
      <4>2. CASE ~setup.given
        <5>1. Untorn => resolv = <<Real>>
          BY <3>2
        <5> QED BY <3>1, <4>2, <5>1, RealIsNamed
      <4> QED BY <4>1, <4>2
    <3> QED BY <3>1, <3>2, <3>3
  <2>2. CASE Listen
    BY <2>2 DEF Listen, At
  <2>3. CASE ListenFails
    BY <2>3 DEF ListenFails
  <2>4. CASE OpenResolver
    <3>1. /\ pc = "resolver" /\ pc' = "write" /\ setup.dns
          /\ UNCHANGED <<setup, crashes, upstream, listening, applied, torn>>
          /\ backup' = resolv /\ resolv' = <<>>
      BY <2>4 DEF OpenResolver, At
    <3>2. ~applied /\ listening /\ ~Held /\ ~Half
      BY <3>1
    <3>3. Untorn \/ setup.given => "emptied" \in torn \/ Real \in Range(backup')
      BY <3>1, <3>2
    <3>4. Untorn => backup' = <<Real>>
      BY <3>1, <3>2
    <3> QED BY <3>1, <3>2, <3>3, <3>4
  <2>5. CASE ResolverFails
    BY <2>5 DEF ResolverFails
  <2> QED BY <1>11, <2>1, <2>2, <2>3, <2>4, <2>5
<1>12. CASE WriteResolver \/ WriteFails \/ NoteResolver \/ Finish
  <2>1. CASE WriteResolver
    <3>1. /\ pc = "write" /\ pc' = "note resolver" /\ setup.dns
          /\ UNCHANGED <<setup, crashes, upstream, listening, applied, backup, torn>>
          /\ resolv' = ResolvConf(upstream)
      BY <2>1 DEF WriteResolver, At
    <3>2. ~applied /\ listening /\ Held
      BY <3>1
    <3>3. Untorn \/ setup.given => upstream = Real /\ Real \in Range(resolv')
      BY <3>1, <3>2, RealIsNamed
    <3> QED BY <3>1, <3>2, <3>3
  <2>2. CASE WriteFails
    <3>1. /\ pc = "write" /\ pc' = "run" /\ setup.dns /\ torn' = torn \cup {"emptied"}
          /\ UNCHANGED <<setup, crashes, resolv, upstream, listening, applied, backup>>
      BY <2>2 DEF WriteFails
    <3> QED BY <3>1
  <2>3. CASE NoteResolver
    BY <2>3 DEF NoteResolver, At
  <2>4. CASE Finish
    BY <2>4 DEF Finish
  <2> QED BY <1>12, <2>1, <2>2, <2>3, <2>4
<1>13. CASE \/ Close \/ Restore \/ Rewrite \/ RestoreFails
             \/ StopDns \/ SplitOff \/ Unpin
  <2>1. CASE Close
    BY <2>1 DEF Close, At
  <2>2. CASE Restore
    <3>1. /\ pc = "restore" /\ pc' = "rewrite" /\ applied /\ resolv' = <<>>
          /\ UNCHANGED <<setup, crashes, upstream, listening, applied, backup, torn>>
      BY <2>2 DEF Restore, At
    <3> QED BY <3>1
  <2>3. CASE Rewrite
    <3>1. /\ pc = "rewrite" /\ pc' = "stop" /\ applied /\ resolv' = backup /\ ~applied'
          /\ UNCHANGED <<setup, crashes, upstream, listening, backup, torn>>
      BY <2>3 DEF Rewrite, At
    <3> QED BY <3>1
  <2>4. CASE RestoreFails
    <3>1. /\ pc \in {"restore", "rewrite"} /\ applied /\ pc' = "stop" /\ ~applied'
          /\ torn' = torn \cup {IF pc = "restore" THEN "resolv" ELSE "emptied"}
          /\ UNCHANGED <<setup, crashes, resolv, upstream, listening, backup>>
      BY <2>4 DEF RestoreFails
    <3>2. ~Untorn'
      BY <3>1
    <3> QED BY <3>1, <3>2
  <2>5. CASE StopDns
    BY <2>5 DEF StopDns, At
  <2>6. CASE SplitOff
    BY <2>6 DEF SplitOff, At
  <2>7. CASE Unpin
    BY <2>7 DEF Unpin, At
  <2> QED BY <1>13, <2>1, <2>2, <2>3, <2>4, <2>5, <2>6, <2>7
<1>14. CASE \/ SyncRoutes \/ TakePeers \/ CallNone \/ MapArrives
             \/ Punch \/ ChannelEnds
  <2>1. CASE SyncRoutes
    BY <2>1 DEF SyncRoutes
  <2>2. CASE TakePeers
    BY <2>2 DEF TakePeers
  <2>3. CASE CallNone
    BY <2>3 DEF CallNone
  <2>4. CASE MapArrives
    BY <2>4 DEF MapArrives
  <2>5. CASE Punch
    BY <2>5 DEF Punch
  <2>6. CASE ChannelEnds
    BY <2>6 DEF ChannelEnds
  <2> QED BY <1>14, <2>1, <2>2, <2>3, <2>4, <2>5, <2>6
<1> QED
  BY <1>1, <1>2, <1>3a, <1>4, <1>5, <1>6, <1>7, <1>8, <1>9, <1>10, <1>11, <1>12, <1>13, <1>14
  DEF Next, SetUp, TearDown, Control, Others, ComputePins, CallBack, Resync, UdpCalls, Threads

-----------------------------------------------------------------------------
(* The control thread has something to pin only where _on_map() calls it.          *)
WantInv == want["control"] # None => ctl = "check"

LEMMA WantStep ==
  ASSUME PinInv, WantInv, [Next]_vars PROVE WantInv'
<1> USE Following DEF WantInv, node, host, routing, dns, kernel, count
<1>1. CASE UNCHANGED vars
  BY <1>1 DEF vars
<1>2. CASE Start
  BY <1>2 DEF Start
<1>3. ASSUME Gone PROVE WantInv'
  BY <1>3 DEF Gone, NoWant, Threads
<1>3a. CASE Crash \/ NatRefused \/ RulesFail \/ Cleanup
  BY <1>3, <1>3a DEF Crash, NatRefused, RulesFail, Cleanup
<1>4. CASE Interrupt
  <2>1. want'["control"] = want["control"]
    <3>1. /\ want' = [want EXCEPT !["main"] = None] /\ want = [u \in Threads |-> want[u]]
          /\ "control" \in Threads
      BY <1>4 DEF Interrupt, PinInv, Threads
    <3> QED BY <3>1
  <2> QED BY <1>4, <2>1 DEF Interrupt
<1>5. CASE Skip
  BY <1>5 DEF Skip
<1>6. ASSUME NEW t \in Threads, Compute(t), t = "control" => ctl = "check" PROVE WantInv'
  <2>1. t # "control" => want'["control"] = want["control"]
    <3>1. /\ want' = [want EXCEPT ![t] = Transport] /\ want = [u \in Threads |-> want[u]]
          /\ "control" \in Threads
      BY <1>6 DEF Compute, PinInv, Threads
    <3> QED BY <3>1
  <2> QED BY <1>6, <2>1 DEF Compute
<1>7. ASSUME NEW t \in Threads, Sync(t) PROVE WantInv'
  <2>1. want'["control"] = IF t = "control" THEN None ELSE want["control"]
    <3>1. /\ want' = [want EXCEPT ![t] = None] /\ want = [u \in Threads |-> want[u]]
          /\ "control" \in Threads
      BY <1>7 DEF Sync, PinInv, Threads
    <3> QED BY <3>1
  <2> QED BY <1>7, <2>1 DEF Sync
<1>8. CASE \/ EnableForward \/ ApplyRules \/ WireRoutes \/ ReadTable
            \/ InstallRoutes \/ FindExit \/ NoExit
  <2>1. CASE EnableForward
    BY <2>1 DEF EnableForward, At
  <2>2. CASE ApplyRules
    BY <2>2 DEF ApplyRules, At
  <2>3. CASE WireRoutes
    BY <2>3 DEF WireRoutes, At
  <2>4. CASE ReadTable
    BY <2>4 DEF ReadTable, At
  <2>5. CASE InstallRoutes
    BY <2>5 DEF InstallRoutes, At
  <2>6. CASE FindExit
    BY <2>6 DEF FindExit, At
  <2>7. CASE NoExit
    BY <2>7 DEF NoExit
  <2> QED BY <1>8, <2>1, <2>2, <2>3, <2>4, <2>5, <2>6, <2>7
<1>9. CASE PinOne \/ NotePin \/ PinsDone \/ WirePins
  <2>1. CASE PinOne
    BY <2>1 DEF PinOne
  <2>2. CASE NotePin
    BY <2>2 DEF NotePin
  <2>3. CASE PinsDone
    <3>1. /\ want' = [want EXCEPT !["main"] = None] /\ want = [u \in Threads |-> want[u]]
          /\ "control" \in Threads /\ ctl' = ctl
      BY <2>3 DEF PinsDone, PinInv, Threads
    <3>2. want'["control"] = want["control"]
      BY <3>1
    <3> QED BY <3>1, <3>2
  <2>4. CASE WirePins
    BY <2>4 DEF WirePins, At
  <2> QED BY <1>9, <2>1, <2>2, <2>3, <2>4
<1>10. CASE InstallLan \/ NoteLan \/ InstallSplit \/ NoteSplit \/ StartResync
  <2>1. CASE InstallLan
    BY <2>1 DEF InstallLan, At
  <2>2. CASE NoteLan
    BY <2>2 DEF NoteLan, At
  <2>3. CASE InstallSplit
    BY <2>3 DEF InstallSplit, At
  <2>4. CASE NoteSplit
    BY <2>4 DEF NoteSplit, At
  <2>5. CASE StartResync
    BY <2>5 DEF StartResync, At
  <2> QED BY <1>10, <2>1, <2>2, <2>3, <2>4, <2>5
<1>11. CASE Detect \/ Listen \/ ListenFails \/ OpenResolver \/ ResolverFails
  <2>1. CASE Detect
    BY <2>1 DEF Detect, At
  <2>2. CASE Listen
    BY <2>2 DEF Listen, At
  <2>3. CASE ListenFails
    BY <2>3 DEF ListenFails
  <2>4. CASE OpenResolver
    BY <2>4 DEF OpenResolver, At
  <2>5. CASE ResolverFails
    BY <2>5 DEF ResolverFails
  <2> QED BY <1>11, <2>1, <2>2, <2>3, <2>4, <2>5
<1>12. CASE WriteResolver \/ WriteFails \/ NoteResolver \/ Finish
  <2>1. CASE WriteResolver
    BY <2>1 DEF WriteResolver, At
  <2>2. CASE WriteFails
    BY <2>2 DEF WriteFails
  <2>3. CASE NoteResolver
    BY <2>3 DEF NoteResolver, At
  <2>4. CASE Finish
    BY <2>4 DEF Finish
  <2> QED BY <1>12, <2>1, <2>2, <2>3, <2>4
<1>13. CASE \/ Close \/ Restore \/ Rewrite \/ RestoreFails
             \/ StopDns \/ SplitOff \/ Unpin
  <2>1. CASE Close
    BY <2>1 DEF Close, At
  <2>2. CASE Restore
    BY <2>2 DEF Restore, At
  <2>3. CASE Rewrite
    BY <2>3 DEF Rewrite, At
  <2>4. CASE RestoreFails
    BY <2>4 DEF RestoreFails
  <2>5. CASE StopDns
    BY <2>5 DEF StopDns, At
  <2>6. CASE SplitOff
    BY <2>6 DEF SplitOff, At
  <2>7. CASE Unpin
    BY <2>7 DEF Unpin, At
  <2> QED BY <1>13, <2>1, <2>2, <2>3, <2>4, <2>5, <2>6, <2>7
<1>14. CASE \/ SyncRoutes \/ TakePeers \/ CallNone \/ MapArrives
             \/ Punch \/ ChannelEnds
  <2>1. CASE SyncRoutes
    BY <2>1 DEF SyncRoutes
  <2>2. CASE TakePeers
    BY <2>2 DEF TakePeers
  <2>3. CASE CallNone
    BY <2>3 DEF CallNone
  <2>4. CASE MapArrives
    BY <2>4 DEF MapArrives
  <2>5. CASE Punch
    BY <2>5 DEF Punch
  <2>6. CASE ChannelEnds
    BY <2>6 DEF ChannelEnds
  <2> QED BY <1>14, <2>1, <2>2, <2>3, <2>4, <2>5, <2>6
<1> QED
  BY <1>1, <1>2, <1>3a, <1>4, <1>5, <1>6, <1>7, <1>8, <1>9, <1>10, <1>11, <1>12, <1>13, <1>14
  DEF Next, SetUp, TearDown, Control, Others, ComputePins, CallBack, Resync, UdpCalls, Threads

-----------------------------------------------------------------------------
(* AcceptedIsRouted.  From the step that set the callback, every change of the table   *)
(* is on its way to the kernel; Effective is what the kernel has once it got there.    *)
PastInstall ==
  {"gateway", "pin", "callback", "lan", "note lan", "split", "note split", "resync", "detect",
   "listen", "resolver", "write", "note resolver", "run", "close", "restore", "rewrite", "stop",
   "split off", "unpin", "cleanup"}
Effective == IF ctl = "routes" THEN (routes \cup diff.added) \ diff.removed ELSE routes

RouteInv ==
  /\ setup.accept /\ pc \in PastInstall \cup {"read", "install"} => "routes" \in wired
  /\ ctl = "routes" => table \cap diff.removed = {}
  /\ setup.accept /\ pc = "install" => table \ found \subseteq Effective
  /\ setup.accept /\ pc \in PastInstall => table \subseteq Effective

LEMMA RouteStep ==
  ASSUME WantInv, RouteInv, [Next]_vars PROVE RouteInv'
<1> USE Following, First DEF RouteInv, PastInstall, Effective, node, host, routing, dns, kernel, count
<1>1. CASE UNCHANGED vars
  BY <1>1 DEF vars
<1>2. CASE Start
  BY <1>2 DEF Start
<1>3. ASSUME Gone PROVE RouteInv'
  BY <1>3 DEF Gone
<1>3a. CASE Crash \/ NatRefused \/ RulesFail \/ Cleanup
  BY <1>3, <1>3a DEF Crash, NatRefused, RulesFail, Cleanup
<1>4. CASE Interrupt
  BY <1>4 DEF Interrupt, InTry
<1>5. CASE Skip
  BY <1>5, StepsAre DEF Skip, Asked, AllSteps
<1>6. ASSUME NEW t \in Threads, Compute(t) PROVE RouteInv'
  BY <1>6 DEF Compute
<1>7. ASSUME NEW t \in Threads, Sync(t) PROVE RouteInv'
  <2>1. /\ want[t] # None
        /\ ctl' = IF t = "control" THEN "idle" ELSE ctl
        /\ UNCHANGED <<setup, pc, routes, diff, wired, table, found>>
    BY <1>7 DEF Sync
  <2>2. t = "control" => ctl = "check"
    BY <2>1 DEF WantInv
  <2>3. CASE t = "control"
    BY <2>1, <2>2, <2>3
  <2>4. CASE t # "control"
    BY <2>1, <2>4
  <2> QED BY <2>3, <2>4
<1>8. CASE \/ EnableForward \/ ApplyRules \/ WireRoutes \/ ReadTable
            \/ InstallRoutes \/ FindExit \/ NoExit
  <2>1. CASE EnableForward
    BY <2>1 DEF EnableForward, At
  <2>2. CASE ApplyRules
    BY <2>2 DEF ApplyRules, At
  <2>3. CASE WireRoutes
    BY <2>3 DEF WireRoutes, At
  <2>4. CASE ReadTable
    BY <2>4 DEF ReadTable, At
  <2>5. CASE InstallRoutes
    BY <2>5 DEF InstallRoutes, At
  <2>6. CASE FindExit
    BY <2>6 DEF FindExit, At
  <2>7. CASE NoExit
    BY <2>7 DEF NoExit
  <2> QED BY <1>8, <2>1, <2>2, <2>3, <2>4, <2>5, <2>6, <2>7
<1>9. CASE PinOne \/ NotePin \/ PinsDone \/ WirePins
  <2>1. CASE PinOne
    BY <2>1 DEF PinOne
  <2>2. CASE NotePin
    BY <2>2 DEF NotePin
  <2>3. CASE PinsDone
    BY <2>3 DEF PinsDone, At
  <2>4. CASE WirePins
    BY <2>4 DEF WirePins, At
  <2> QED BY <1>9, <2>1, <2>2, <2>3, <2>4
<1>10. CASE InstallLan \/ NoteLan \/ InstallSplit \/ NoteSplit \/ StartResync
  <2>1. CASE InstallLan
    BY <2>1 DEF InstallLan, At
  <2>2. CASE NoteLan
    BY <2>2 DEF NoteLan, At
  <2>3. CASE InstallSplit
    BY <2>3 DEF InstallSplit, At
  <2>4. CASE NoteSplit
    BY <2>4 DEF NoteSplit, At
  <2>5. CASE StartResync
    BY <2>5 DEF StartResync, At
  <2> QED BY <1>10, <2>1, <2>2, <2>3, <2>4, <2>5
<1>11. CASE Detect \/ Listen \/ ListenFails \/ OpenResolver \/ ResolverFails
  <2>1. CASE Detect
    BY <2>1 DEF Detect, At
  <2>2. CASE Listen
    BY <2>2 DEF Listen, At
  <2>3. CASE ListenFails
    BY <2>3 DEF ListenFails
  <2>4. CASE OpenResolver
    BY <2>4 DEF OpenResolver, At
  <2>5. CASE ResolverFails
    BY <2>5 DEF ResolverFails
  <2> QED BY <1>11, <2>1, <2>2, <2>3, <2>4, <2>5
<1>12. CASE WriteResolver \/ WriteFails \/ NoteResolver \/ Finish
  <2>1. CASE WriteResolver
    BY <2>1 DEF WriteResolver, At
  <2>2. CASE WriteFails
    BY <2>2 DEF WriteFails
  <2>3. CASE NoteResolver
    BY <2>3 DEF NoteResolver, At
  <2>4. CASE Finish
    BY <2>4 DEF Finish
  <2> QED BY <1>12, <2>1, <2>2, <2>3, <2>4
<1>13. CASE \/ Close \/ Restore \/ Rewrite \/ RestoreFails
             \/ StopDns \/ SplitOff \/ Unpin
  <2>1. CASE Close
    BY <2>1 DEF Close, At
  <2>2. CASE Restore
    BY <2>2 DEF Restore, At
  <2>3. CASE Rewrite
    BY <2>3 DEF Rewrite, At
  <2>4. CASE RestoreFails
    BY <2>4 DEF RestoreFails
  <2>5. CASE StopDns
    BY <2>5 DEF StopDns, At
  <2>6. CASE SplitOff
    BY <2>6 DEF SplitOff, At
  <2>7. CASE Unpin
    BY <2>7 DEF Unpin, At
  <2> QED BY <1>13, <2>1, <2>2, <2>3, <2>4, <2>5, <2>6, <2>7
<1>14. CASE \/ SyncRoutes \/ TakePeers \/ CallNone \/ MapArrives
             \/ Punch \/ ChannelEnds
  <2>1. CASE SyncRoutes
    BY <2>1 DEF SyncRoutes
  <2>2. CASE TakePeers
    BY <2>2 DEF TakePeers
  <2>3. CASE CallNone
    BY <2>3 DEF CallNone
  <2>4. CASE MapArrives
    <3>1. PICK new \in SUBSET Cidrs :
            /\ table' = new
            /\ IF "routes" \in wired /\ new # table
               THEN ctl' = "routes" /\ diff' = Diff(table, new)
               ELSE ctl' = "peers" /\ UNCHANGED diff
      BY <2>4 DEF MapArrives
    <3>2. ctl = "idle" /\ UNCHANGED <<setup, pc, routes, wired, found>>
      BY <2>4 DEF MapArrives
    <3>3. CASE "routes" \in wired /\ new # table
      <4>1. /\ ctl' = "routes" /\ diff' = [added |-> new \ table, removed |-> table \ new]
            /\ table' = new
        BY <3>1, <3>3 DEF Diff
      <4> QED BY <3>2, <3>3, <4>1
    <3>4. CASE ~("routes" \in wired /\ new # table)
      BY <3>1, <3>2, <3>4
    <3> QED BY <3>3, <3>4
  <2>5. CASE Punch
    BY <2>5 DEF Punch
  <2>6. CASE ChannelEnds
    BY <2>6 DEF ChannelEnds
  <2> QED BY <1>14, <2>1, <2>2, <2>3, <2>4, <2>5, <2>6
<1> QED
  BY <1>1, <1>2, <1>3a, <1>4, <1>5, <1>6, <1>7, <1>8, <1>9, <1>10, <1>11, <1>12, <1>13, <1>14
  DEF Next, SetUp, TearDown, Control, Others, ComputePins, CallBack, Resync, UdpCalls, Threads

-----------------------------------------------------------------------------
(* ReturnsClean.  Before the callback is set nobody pins, so nothing is pinned that    *)
(* teardown() will not see; after teardown() whoever still pins is on record.        *)
QuietInv ==
  pc \in {"off", "nat", "rules"} =>
    "pins" \notin wired /\ ~resync /\ pinned = {} /\ \A t \in Threads : want[t] = None

LEMMA QuietStep ==
  ASSUME QuietInv, [Next]_vars PROVE QuietInv'
<1> USE Following, First DEF QuietInv, node, host, routing, dns, kernel, count
<1>1. CASE UNCHANGED vars
  BY <1>1 DEF vars
<1>2. CASE Start
  BY <1>2 DEF Start
<1>3. ASSUME Gone PROVE QuietInv'
  <2>1. \A t \in Threads : want'[t] = None
    BY <1>3 DEF Gone, NoWant
  <2> QED BY <1>3, <2>1 DEF Gone
<1>3a. CASE Crash \/ NatRefused \/ RulesFail \/ Cleanup
  BY <1>3, <1>3a DEF Crash, NatRefused, RulesFail, Cleanup
<1>4. CASE Interrupt
  BY <1>4 DEF Interrupt, InTry
<1>5. CASE Skip
  BY <1>5, StepsAre DEF Skip, Asked, AllSteps
<1>6. ASSUME NEW t \in Threads, Compute(t), pc \notin {"off", "nat", "rules"} PROVE QuietInv'
  BY <1>6 DEF Compute
<1>7. ASSUME NEW t \in Threads, Sync(t) PROVE QuietInv'
  <2>1. pc \notin {"off", "nat", "rules"} /\ pc' = pc
    BY <1>7 DEF Sync
  <2> QED BY <2>1
<1>8. CASE \/ EnableForward \/ ApplyRules \/ WireRoutes \/ ReadTable
            \/ InstallRoutes \/ FindExit \/ NoExit
  <2>1. CASE EnableForward
    BY <2>1 DEF EnableForward, At
  <2>2. CASE ApplyRules
    BY <2>2 DEF ApplyRules, At
  <2>3. CASE WireRoutes
    BY <2>3 DEF WireRoutes, At
  <2>4. CASE ReadTable
    BY <2>4 DEF ReadTable, At
  <2>5. CASE InstallRoutes
    BY <2>5 DEF InstallRoutes, At
  <2>6. CASE FindExit
    BY <2>6 DEF FindExit, At
  <2>7. CASE NoExit
    BY <2>7 DEF NoExit
  <2> QED BY <1>8, <2>1, <2>2, <2>3, <2>4, <2>5, <2>6, <2>7
<1>9. CASE PinOne \/ NotePin \/ PinsDone \/ WirePins
  <2>1. CASE PinOne
    BY <2>1 DEF PinOne
  <2>2. CASE NotePin
    BY <2>2 DEF NotePin
  <2>3. CASE PinsDone
    BY <2>3 DEF PinsDone, At
  <2>4. CASE WirePins
    BY <2>4 DEF WirePins, At
  <2> QED BY <1>9, <2>1, <2>2, <2>3, <2>4
<1>10. CASE InstallLan \/ NoteLan \/ InstallSplit \/ NoteSplit \/ StartResync
  <2>1. CASE InstallLan
    BY <2>1 DEF InstallLan, At
  <2>2. CASE NoteLan
    BY <2>2 DEF NoteLan, At
  <2>3. CASE InstallSplit
    BY <2>3 DEF InstallSplit, At
  <2>4. CASE NoteSplit
    BY <2>4 DEF NoteSplit, At
  <2>5. CASE StartResync
    BY <2>5 DEF StartResync, At
  <2> QED BY <1>10, <2>1, <2>2, <2>3, <2>4, <2>5
<1>11. CASE Detect \/ Listen \/ ListenFails \/ OpenResolver \/ ResolverFails
  <2>1. CASE Detect
    BY <2>1 DEF Detect, At
  <2>2. CASE Listen
    BY <2>2 DEF Listen, At
  <2>3. CASE ListenFails
    BY <2>3 DEF ListenFails
  <2>4. CASE OpenResolver
    BY <2>4 DEF OpenResolver, At
  <2>5. CASE ResolverFails
    BY <2>5 DEF ResolverFails
  <2> QED BY <1>11, <2>1, <2>2, <2>3, <2>4, <2>5
<1>12. CASE WriteResolver \/ WriteFails \/ NoteResolver \/ Finish
  <2>1. CASE WriteResolver
    BY <2>1 DEF WriteResolver, At
  <2>2. CASE WriteFails
    BY <2>2 DEF WriteFails
  <2>3. CASE NoteResolver
    BY <2>3 DEF NoteResolver, At
  <2>4. CASE Finish
    BY <2>4 DEF Finish
  <2> QED BY <1>12, <2>1, <2>2, <2>3, <2>4
<1>13. CASE \/ Close \/ Restore \/ Rewrite \/ RestoreFails
             \/ StopDns \/ SplitOff \/ Unpin
  <2>1. CASE Close
    BY <2>1 DEF Close, At
  <2>2. CASE Restore
    BY <2>2 DEF Restore, At
  <2>3. CASE Rewrite
    BY <2>3 DEF Rewrite, At
  <2>4. CASE RestoreFails
    BY <2>4 DEF RestoreFails
  <2>5. CASE StopDns
    BY <2>5 DEF StopDns, At
  <2>6. CASE SplitOff
    BY <2>6 DEF SplitOff, At
  <2>7. CASE Unpin
    BY <2>7 DEF Unpin, At
  <2> QED BY <1>13, <2>1, <2>2, <2>3, <2>4, <2>5, <2>6, <2>7
<1>14. CASE \/ SyncRoutes \/ TakePeers \/ CallNone \/ MapArrives
             \/ Punch \/ ChannelEnds
  <2>1. CASE SyncRoutes
    BY <2>1 DEF SyncRoutes
  <2>2. CASE TakePeers
    BY <2>2 DEF TakePeers
  <2>3. CASE CallNone
    BY <2>3 DEF CallNone
  <2>4. CASE MapArrives
    BY <2>4 DEF MapArrives
  <2>5. CASE Punch
    BY <2>5 DEF Punch
  <2>6. CASE ChannelEnds
    BY <2>6 DEF ChannelEnds
  <2> QED BY <1>14, <2>1, <2>2, <2>3, <2>4, <2>5, <2>6
<1> QED
  BY <1>1, <1>2, <1>3a, <1>4, <1>5, <1>6, <1>7, <1>8, <1>9, <1>10, <1>11, <1>12, <1>13, <1>14
  DEF Next, SetUp, TearDown, Control, Others, ComputePins, CallBack, Resync, UdpCalls, Threads

LanSteps == WhileSplit \cup {"split", "unpin"}

CleanInv ==
  /\ pc = "cleanup" => pinned = {} \/ repinned
  /\ lanKnown => pc \in LanSteps
  /\ crashes = 0 =>
       /\ pc \in {"off", "nat"} \/ ~setup.nat => forward = setup.forwards /\ ~nat
       /\ setup.nat /\ pc \notin {"off", "nat"} => prevForward = setup.forwards
       /\ lan => lanKnown \/ "lan" \in torn \/ (setup.full /\ pc = "note lan")
       /\ repinned \/ \A a \in pins : a \in pinned \/ a \in torn \/ a = adding

LEMMA Apart == "split" \notin Addresses /\ None \notin Addresses
BY TunNodeAssumption DEF Addresses

LEMMA CleanStep ==
  ASSUME PinInv, NameInv, QuietInv, CleanInv, [Next]_vars PROVE CleanInv'
<1> USE Following, First DEF CleanInv, LanSteps, WhileSplit, node, host, routing, dns, kernel, count
<1>1. CASE UNCHANGED vars
  BY <1>1 DEF vars
<1>2. CASE Start
  BY <1>2 DEF Start
<1>3. ASSUME Gone, UNCHANGED <<crashes, setup, pins, lan, repinned>>, pc \in {"nat", "rules", "cleanup"}
      PROVE  /\ pc' = "off" /\ pinned' = {} /\ ~lanKnown'
             /\ crashes = 0 => /\ lan => "lan" \in torn'
                               /\ repinned \/ \A a \in pins : a \in torn'
  <2>1. /\ pc' = "off" /\ pinned' = {} /\ ~lanKnown'
        /\ torn' = (torn \ {"split"}) \cup (IF resolv = <<>> THEN {"emptied"} ELSE {})
    BY <1>3 DEF Gone
  <2>2. ~lanKnown /\ adding = None /\ (pinned = {} \/ repinned)
    BY <1>3 DEF PinInv, QuietInv
  <2>3. \A a \in pins : a # "split" /\ a # None
    BY Apart DEF PinInv
  <2>4. "lan" \in torn => "lan" \in torn'
    BY <2>1
  <2>5. ASSUME crashes = 0, ~repinned, NEW a \in pins PROVE a \in torn'
    BY <2>1, <2>2, <2>3, <2>5
  <2> QED BY <1>3, <2>1, <2>2, <2>4, <2>5
<1>3a. CASE Crash \/ NatRefused \/ RulesFail \/ Cleanup
  <2>1. CASE Crash
    <3>1. crashes' # 0
      BY <2>1, Counting DEF Crash, NameInv
    <3> QED BY <2>1, <3>1 DEF Crash, Gone
  <2>2. CASE NatRefused
    <3>1. Gone /\ pc = "nat" /\ UNCHANGED <<setup, crashes, forward, nat, pins, lan, repinned>>
      BY <2>2 DEF NatRefused
    <3> QED BY <1>3, <3>1
  <2>3. CASE RulesFail
    <3>1. /\ Gone /\ pc = "rules" /\ setup.nat /\ ~nat' /\ forward' = prevForward
          /\ UNCHANGED <<setup, crashes, pins, lan, repinned>>
      BY <2>3 DEF RulesFail
    <3> QED BY <1>3, <3>1
  <2>4. CASE Cleanup
    <3>1. /\ Gone /\ pc = "cleanup" /\ UNCHANGED <<setup, crashes, pins, lan, repinned>>
          /\ nat' = IF setup.nat THEN FALSE ELSE nat
          /\ forward' = IF setup.nat THEN prevForward ELSE forward
      BY <2>4 DEF Cleanup
    <3> QED BY <1>3, <3>1
  <2> QED BY <1>3a, <2>1, <2>2, <2>3, <2>4
<1>4. CASE Interrupt
  <2>1. /\ pc' = "close" /\ pc \in InTry /\ torn' = torn \cup Halfway /\ adding' = None
        /\ UNCHANGED <<setup, crashes, forward, nat, lan, lanKnown, prevForward, pins, pinned, repinned>>
    BY <1>4 DEF Interrupt
  <2>2. setup.full /\ pc = "note lan" => "lan" \in torn'
    BY <2>1, AskedFull DEF Halfway
  <2>3. adding # None => adding \in torn'
    BY <2>1, AskedFull DEF Halfway, PinInv
  <2>4. torn \subseteq torn' /\ pc \notin {"off", "nat", "cleanup"}
    BY <2>1 DEF InTry
  <2>5. \A a \in pins : a # None
    BY Apart DEF PinInv
  <2> QED BY <2>1, <2>2, <2>3, <2>4, <2>5
<1>5. CASE Skip
  <2>1. pc \in AllSteps \ {"cleanup"} /\ pc' = After(pc)
    BY <1>5, StepsAre DEF Skip
  <2>2. UNCHANGED <<setup, crashes, forward, nat, lan, lanKnown, prevForward, pins, pinned,
                    adding, repinned, torn>>
    BY <1>5 DEF Skip
  <2>3. /\ pc # "unpin" /\ (pc = "nat" => ~setup.nat)
        /\ (pc \in {"lan", "note lan"} => ~setup.full)
    BY <1>5, Unskipped, AskedFull DEF Skip
  <2>4. pc' \notin {"off", "nat", "cleanup"} /\ (pc \in LanSteps => pc' \in LanSteps)
    <3>1. pc' \notin {"off", "nat", "cleanup"}
      BY <2>1, <2>3, Between
    <3>2. pc \in WhileSplit /\ pc \notin {"run", "stop", "split off"} => pc' \in WhileSplit
      BY <2>1, SkipSplit
    <3>3. pc \in {"split", "split off", "unpin"} => pc' \in LanSteps
      BY <2>1, <2>3
    <3>4. pc \notin {"run", "stop", "split off"}
      BY <1>5, <2>1, Unskipped DEF Skip, AllSteps
    <3> QED BY <3>1, <3>2, <3>3, <3>4
  <2>5. pc \in {"off", "nat"} => ~setup.nat
    BY <2>1, <2>3 DEF AllSteps
  <2> HIDE DEF LanSteps
  <2> QED BY <2>2, <2>3, <2>4, <2>5
<1>6. ASSUME NEW t \in Threads, Compute(t) PROVE CleanInv'
  BY <1>6 DEF Compute
<1>7. ASSUME NEW t \in Threads, Sync(t) PROVE CleanInv'
  <2>1. /\ adding = None
        /\ pins' = (pins \cup (want[t] \ pinned)) \ (pinned \ want[t]) /\ pinned' = want[t]
        /\ repinned' = (repinned \/ pc = "cleanup")
        /\ UNCHANGED <<setup, crashes, pc, forward, nat, lan, lanKnown, prevForward, adding, torn>>
    BY <1>7 DEF Sync, Locked
  <2>2. ASSUME \A a \in pins : a \in pinned \/ a \in torn \/ a = adding
        PROVE  \A a \in pins' : a \in pinned' \/ a \in torn' \/ a = adding'
    BY <2>1, <2>2
  <2>3. (repinned => repinned') /\ (pc = "cleanup" => repinned')
    BY <2>1
  <2> QED BY <2>1, <2>2, <2>3
<1>8. CASE \/ EnableForward \/ ApplyRules \/ WireRoutes \/ ReadTable
            \/ InstallRoutes \/ FindExit \/ NoExit
  <2>1. CASE EnableForward
    <3>1. /\ pc = "nat" /\ pc' = "rules" /\ setup.nat /\ prevForward' = forward /\ forward' = TRUE
          /\ UNCHANGED <<setup, crashes, nat, lan, lanKnown, pins, pinned, adding, repinned, torn>>
      BY <2>1 DEF EnableForward, At, Remembered
    <3> QED BY <3>1
  <2>2. CASE ApplyRules
    BY <2>2 DEF ApplyRules, At
  <2>3. CASE WireRoutes
    BY <2>3 DEF WireRoutes, At
  <2>4. CASE ReadTable
    BY <2>4 DEF ReadTable, At
  <2>5. CASE InstallRoutes
    BY <2>5 DEF InstallRoutes, At
  <2>6. CASE FindExit
    BY <2>6 DEF FindExit, At
  <2>7. CASE NoExit
    BY <2>7 DEF NoExit
  <2> QED BY <1>8, <2>1, <2>2, <2>3, <2>4, <2>5, <2>6, <2>7
<1>9. CASE PinOne \/ NotePin \/ PinsDone \/ WirePins
  <2>1. CASE PinOne
    <3>1. PICK a \in want["main"] \ pinned : adding' = a /\ pins' = pins \cup {a}
      BY <2>1 DEF PinOne
    <3>2. /\ pc = "pin" /\ adding = None
          /\ UNCHANGED <<setup, crashes, pc, forward, nat, lan, lanKnown, prevForward, pinned, repinned, torn>>
      BY <2>1 DEF PinOne
    <3>3. \A b \in pins : b # None
      BY Apart DEF PinInv
    <3> QED BY <3>1, <3>2, <3>3
  <2>2. CASE NotePin
    BY <2>2 DEF NotePin
  <2>3. CASE PinsDone
    BY <2>3 DEF PinsDone, At
  <2>4. CASE WirePins
    BY <2>4 DEF WirePins, At
  <2> QED BY <1>9, <2>1, <2>2, <2>3, <2>4
<1>10. CASE InstallLan \/ NoteLan \/ InstallSplit \/ NoteSplit \/ StartResync
  <2>1. CASE InstallLan
    BY <2>1 DEF InstallLan, At
  <2>2. CASE NoteLan
    BY <2>2 DEF NoteLan, At
  <2>3. CASE InstallSplit
    BY <2>3 DEF InstallSplit, At
  <2>4. CASE NoteSplit
    BY <2>4 DEF NoteSplit, At
  <2>5. CASE StartResync
    BY <2>5 DEF StartResync, At
  <2> QED BY <1>10, <2>1, <2>2, <2>3, <2>4, <2>5
<1>11. CASE Detect \/ Listen \/ ListenFails \/ OpenResolver \/ ResolverFails
  <2>1. CASE Detect
    BY <2>1 DEF Detect, At
  <2>2. CASE Listen
    BY <2>2 DEF Listen, At
  <2>3. CASE ListenFails
    BY <2>3 DEF ListenFails
  <2>4. CASE OpenResolver
    BY <2>4 DEF OpenResolver, At
  <2>5. CASE ResolverFails
    BY <2>5 DEF ResolverFails
  <2> QED BY <1>11, <2>1, <2>2, <2>3, <2>4, <2>5
<1>12. CASE WriteResolver \/ WriteFails \/ NoteResolver \/ Finish
  <2>1. CASE WriteResolver
    BY <2>1 DEF WriteResolver, At
  <2>2. CASE WriteFails
    BY <2>2 DEF WriteFails
  <2>3. CASE NoteResolver
    BY <2>3 DEF NoteResolver, At
  <2>4. CASE Finish
    BY <2>4 DEF Finish
  <2> QED BY <1>12, <2>1, <2>2, <2>3, <2>4
<1>13. CASE \/ Close \/ Restore \/ Rewrite \/ RestoreFails
             \/ StopDns \/ SplitOff \/ Unpin
  <2>1. CASE Close
    BY <2>1 DEF Close, At
  <2>2. CASE Restore
    BY <2>2 DEF Restore, At
  <2>3. CASE Rewrite
    BY <2>3 DEF Rewrite, At
  <2>4. CASE RestoreFails
    BY <2>4 DEF RestoreFails
  <2>5. CASE StopDns
    BY <2>5 DEF StopDns, At
  <2>6. CASE SplitOff
    BY <2>6 DEF SplitOff, At
  <2>7. CASE Unpin
    <3>1. /\ pc = "unpin" /\ pc' = "cleanup" /\ pins' = pins \ pinned /\ pinned' = {}
          /\ lan' = (lan /\ ~lanKnown) /\ lanKnown' = FALSE
          /\ UNCHANGED <<setup, crashes, forward, nat, prevForward, adding, repinned, torn>>
      BY <2>7 DEF Unpin, At
    <3> QED BY <3>1
  <2> QED BY <1>13, <2>1, <2>2, <2>3, <2>4, <2>5, <2>6, <2>7
<1>14. CASE \/ SyncRoutes \/ TakePeers \/ CallNone \/ MapArrives
             \/ Punch \/ ChannelEnds
  <2>1. CASE SyncRoutes
    BY <2>1 DEF SyncRoutes
  <2>2. CASE TakePeers
    BY <2>2 DEF TakePeers
  <2>3. CASE CallNone
    BY <2>3 DEF CallNone
  <2>4. CASE MapArrives
    BY <2>4 DEF MapArrives
  <2>5. CASE Punch
    BY <2>5 DEF Punch
  <2>6. CASE ChannelEnds
    BY <2>6 DEF ChannelEnds
  <2> QED BY <1>14, <2>1, <2>2, <2>3, <2>4, <2>5, <2>6
<1> QED
  BY <1>1, <1>2, <1>3a, <1>4, <1>5, <1>6, <1>7, <1>8, <1>9, <1>10, <1>11, <1>12, <1>13, <1>14
  DEF Next, SetUp, TearDown, Control, Others, ComputePins, CallBack, Resync, UdpCalls, Threads

(* The four ways out of the program.                                           *)
LEMMA WaysOut ==
  ASSUME [Next]_vars, pc # "off", pc' = "off"
  PROVE  Crash \/ NatRefused \/ RulesFail \/ Cleanup
<1> USE Following DEF node, host, routing, dns, kernel, count
<1>1. CASE UNCHANGED vars
  BY <1>1 DEF vars
<1>2. CASE Start
  BY <1>2 DEF Start
<1>3a. CASE Crash \/ NatRefused \/ RulesFail \/ Cleanup
  BY <1>3a
<1>4. CASE Interrupt
  BY <1>4 DEF Interrupt, InTry
<1>5. CASE Skip
  <2>1. pc \in AllSteps \ {"cleanup"} /\ pc' = After(pc)
    BY <1>5, StepsAre DEF Skip
  <2>2. pc = "unpin" => pc' = "cleanup"
    BY <2>1
  <2> QED BY <2>1, <2>2, Between
<1>6. ASSUME NEW t \in Threads, Compute(t) PROVE FALSE
  BY <1>6 DEF Compute
<1>7. ASSUME NEW t \in Threads, Sync(t) PROVE FALSE
  BY <1>7 DEF Sync
<1>8. CASE \/ EnableForward \/ ApplyRules \/ WireRoutes \/ ReadTable
            \/ InstallRoutes \/ FindExit \/ NoExit
  <2>1. CASE EnableForward
    BY <2>1 DEF EnableForward, At
  <2>2. CASE ApplyRules
    BY <2>2 DEF ApplyRules, At
  <2>3. CASE WireRoutes
    BY <2>3 DEF WireRoutes, At
  <2>4. CASE ReadTable
    BY <2>4 DEF ReadTable, At
  <2>5. CASE InstallRoutes
    BY <2>5 DEF InstallRoutes, At
  <2>6. CASE FindExit
    BY <2>6 DEF FindExit, At
  <2>7. CASE NoExit
    BY <2>7 DEF NoExit
  <2> QED BY <1>8, <2>1, <2>2, <2>3, <2>4, <2>5, <2>6, <2>7
<1>9. CASE PinOne \/ NotePin \/ PinsDone \/ WirePins
  <2>1. CASE PinOne
    BY <2>1 DEF PinOne
  <2>2. CASE NotePin
    BY <2>2 DEF NotePin
  <2>3. CASE PinsDone
    BY <2>3 DEF PinsDone, At
  <2>4. CASE WirePins
    BY <2>4 DEF WirePins, At
  <2> QED BY <1>9, <2>1, <2>2, <2>3, <2>4
<1>10. CASE InstallLan \/ NoteLan \/ InstallSplit \/ NoteSplit \/ StartResync
  <2>1. CASE InstallLan
    BY <2>1 DEF InstallLan, At
  <2>2. CASE NoteLan
    BY <2>2 DEF NoteLan, At
  <2>3. CASE InstallSplit
    BY <2>3 DEF InstallSplit, At
  <2>4. CASE NoteSplit
    BY <2>4 DEF NoteSplit, At
  <2>5. CASE StartResync
    BY <2>5 DEF StartResync, At
  <2> QED BY <1>10, <2>1, <2>2, <2>3, <2>4, <2>5
<1>11. CASE Detect \/ Listen \/ ListenFails \/ OpenResolver \/ ResolverFails
  <2>1. CASE Detect
    BY <2>1 DEF Detect, At
  <2>2. CASE Listen
    BY <2>2 DEF Listen, At
  <2>3. CASE ListenFails
    BY <2>3 DEF ListenFails
  <2>4. CASE OpenResolver
    BY <2>4 DEF OpenResolver, At
  <2>5. CASE ResolverFails
    BY <2>5 DEF ResolverFails
  <2> QED BY <1>11, <2>1, <2>2, <2>3, <2>4, <2>5
<1>12. CASE WriteResolver \/ WriteFails \/ NoteResolver \/ Finish
  <2>1. CASE WriteResolver
    BY <2>1 DEF WriteResolver, At
  <2>2. CASE WriteFails
    BY <2>2 DEF WriteFails
  <2>3. CASE NoteResolver
    BY <2>3 DEF NoteResolver, At
  <2>4. CASE Finish
    BY <2>4 DEF Finish
  <2> QED BY <1>12, <2>1, <2>2, <2>3, <2>4
<1>13. CASE \/ Close \/ Restore \/ Rewrite \/ RestoreFails
             \/ StopDns \/ SplitOff \/ Unpin
  <2>1. CASE Close
    BY <2>1 DEF Close, At
  <2>2. CASE Restore
    BY <2>2 DEF Restore, At
  <2>3. CASE Rewrite
    BY <2>3 DEF Rewrite, At
  <2>4. CASE RestoreFails
    BY <2>4 DEF RestoreFails
  <2>5. CASE StopDns
    BY <2>5 DEF StopDns, At
  <2>6. CASE SplitOff
    BY <2>6 DEF SplitOff, At
  <2>7. CASE Unpin
    BY <2>7 DEF Unpin, At
  <2> QED BY <1>13, <2>1, <2>2, <2>3, <2>4, <2>5, <2>6, <2>7
<1>14. CASE \/ SyncRoutes \/ TakePeers \/ CallNone \/ MapArrives
             \/ Punch \/ ChannelEnds
  <2>1. CASE SyncRoutes
    BY <2>1 DEF SyncRoutes
  <2>2. CASE TakePeers
    BY <2>2 DEF TakePeers
  <2>3. CASE CallNone
    BY <2>3 DEF CallNone
  <2>4. CASE MapArrives
    BY <2>4 DEF MapArrives
  <2>5. CASE Punch
    BY <2>5 DEF Punch
  <2>6. CASE ChannelEnds
    BY <2>6 DEF ChannelEnds
  <2> QED BY <1>14, <2>1, <2>2, <2>3, <2>4, <2>5, <2>6
<1> QED
  BY <1>1, <1>2, <1>3a, <1>4, <1>5, <1>6, <1>7, <1>8, <1>9, <1>10, <1>11, <1>12, <1>13, <1>14
  DEF Next, SetUp, TearDown, Control, Others, ComputePins, CallBack, Resync, UdpCalls, Threads

-----------------------------------------------------------------------------
LEMMA PinInit == Init => PinInv
<1> SUFFICES ASSUME Init PROVE PinInv
  OBVIOUS
<1>1. want = NoWant /\ want = [t \in Threads |-> want[t]] /\ \A t \in Threads : want[t] = None
  BY DEF Init, NoWant, Threads
<1>2. want["main"] = None
  BY <1>1 DEF Threads
<1>3. pinned = {} /\ pins = {} /\ ends = {} /\ adding = None /\ pc = "off" /\ ~split /\ ~splitSet
  BY DEF Init
<1> QED BY <1>1, <1>2, <1>3 DEF PinInv

LEMMA NameInit == Init => NameInv
BY RealIsNamed DEF Init, NameInv, Held, Half, Untorn

(* Whatever the four kinds of threads do, in whatever order, and after any number of   *)
(* crashes: while the default route goes into the tunnel, the coordinator and all       *)
(* that was last pinned is pinned (FullTunnelRoutes), unless Ctrl-C came between the     *)
(* redirection and _split, and then only from teardown() to dev.close().              *)
THEOREM TransportKeepsOut == Spec => []TransportPinned
<1>1. PinInv => TransportPinned
  BY DEF PinInv, WhileSplit, TransportPinned
<1> QED BY <1>1, PinInit, PinStep, PTL DEF Spec

(* While the host is pointed at this program, the DNS server runs and forwards to a  *)
(* real resolver, and a real resolver is always named in resolv.conf but in the        *)
(* middle of a write, or after one that Ctrl-C, a crash or an error cut short           *)
(* (ResolverConfig, detect_upstream()); without --dns-upstream, if there was none.     *)
THEOREM HostResolves == Spec => []NamesResolve
<1>1. NameInv => NamesResolve
  BY DEF NameInv, NamesResolve, Held, Half, Untorn
<1> QED BY <1>1, PinInit, PinStep, NameInit, NameStep, PTL DEF Spec

LEMMA WantInit == Init => WantInv
BY DEF Init, NoWant, Threads, WantInv

LEMMA QuietInit == Init => QuietInv
BY DEF Init, NoWant, QuietInv

LEMMA CleanInit == Init => CleanInv
BY DEF Init, CleanInv

LEMMA RouteInit == Init => RouteInv
BY DEF Init, RouteInv, PastInstall, Effective

(* The callback and the first installation of --accept-routes together miss no       *)
(* subnet, however the changes of the map fall between their steps.                *)
THEOREM AcceptedGetRouted == Spec => []AcceptedIsRouted
<1>1. RouteInv => AcceptedIsRouted
  BY StepsAre DEF RouteInv, PastInstall, Effective, AcceptedIsRouted, AllSteps
<1> QED BY <1>1, PinInit, PinStep, WantInit, WantStep, RouteInit, RouteStep, PTL DEF Spec

(* Whatever step of the set-up failed or was interrupted, a process that returns by   *)
(* itself leaves the host as it found it, but for what was changed and never noted,    *)
(* and for what a crash before it or a sync_pins() behind teardown() left.          *)
THEOREM HostIsRestored == Spec => ReturnsClean
<1> DEFINE Inv == PinInv /\ NameInv /\ QuietInv /\ CleanInv
<1>1. Init => Inv
  BY PinInit, NameInit, QuietInit, CleanInit
<1>2. Inv /\ [Next]_vars => Inv'
  BY PinStep, NameStep, QuietStep, CleanStep
<1>3. Inv /\ [Next]_vars => [pc # "off" /\ pc' = "off" /\ crashes' = crashes => Clean']_vars
  <2> SUFFICES ASSUME Inv, [Next]_vars, pc # "off", pc' = "off", crashes' = crashes
               PROVE  Clean'
    OBVIOUS
  <2>1. NatRefused \/ RulesFail \/ Cleanup
    <3>1. ~Crash
      BY Counting DEF Crash, NameInv
    <3> QED BY <3>1, WaysOut
  <2>2. Gone
    BY <2>1 DEF NatRefused, RulesFail, Cleanup
  <2>3. /\ ~tun' /\ ~split' /\ routes' = {} /\ pinned' = {} /\ adding' = None
        /\ ~applied' /\ ~lanKnown'
    BY <2>2 DEF Gone
  <2>4. PinInv' /\ NameInv' /\ CleanInv'
    BY <1>2
  <2>5. crashes' = 0 => ~nat' /\ forward' = setup.forwards' /\ (lan' => "lan" \in torn')
    BY <2>3, <2>4 DEF CleanInv
  <2>6. crashes' = 0 => repinned' \/ pins' \subseteq torn'
    <3>1. \A a \in pins' : a # None
      BY <2>4, Apart DEF PinInv
    <3> QED BY <2>3, <2>4, <3>1 DEF CleanInv
  <2>7. crashes' = 0 => resolv' = <<Real>> \/ torn' \cap {"resolv", "emptied"} # {}
    <3>1. ~Held'
      BY <2>3 DEF Held
    <3>2. crashes' = 0 /\ "resolv" \notin torn' /\ "emptied" \notin torn' => resolv' = <<Real>>
      BY <2>4, <3>1 DEF NameInv, Untorn
    <3> QED BY <3>2
  <2> QED BY <2>3, <2>5, <2>6, <2>7 DEF Clean
<1> QED BY <1>1, <1>2, <1>3, PTL DEF Spec, ReturnsClean
=============================================================================
