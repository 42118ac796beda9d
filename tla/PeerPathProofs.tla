--------------------------- MODULE PeerPathProofs ---------------------------
(***************************************************************************)
(* Safety theorems about PeerPath, for any number of connect workers, any     *)
(* limits and bounds, timely or not, with restarts and outages.              *)
(***************************************************************************)
EXTENDS PeerPath, TLAPS

-----------------------------------------------------------------------------
(* Types.  A thread that has payloads to send has a session to seal them with,  *)
(* for a session goes only with the process; so has a keepalive loop that is     *)
(* about to fail over; and an INIT carries an ephemeral key.                   *)
SealsWithSession ==
  /\ \A n \in Node, v \in Via : after[n][v].out # <<>> => conn[n].session # NoKey
  /\ \A n \in Node : keeper[n] = "failing" => conn[n].session # NoKey

InitsCarryKey ==
  \A n \in Node, s \in Slots :
    worker[n][s].pc = "loop" /\ AmInitiator(n) => worker[n][s].body \in Eph

TypeInv == TypeOK /\ SealsWithSession /\ InitsCarryKey

LEMMA Basics ==
  /\ NoEph \notin Eph /\ NoKey \notin Key /\ Eph \subseteq Nat
  /\ I \in Node /\ R \in Node /\ I # R
  /\ \A n \in Node : Peer(n) \in Node /\ Peer(n) # n
  /\ MaxQueue \in Nat /\ SilenceLimit \in Nat /\ MaxSends \in Nat
  BY NodesAssumption, BoundsAssumption DEF NoEph, NoKey, Eph, Key, Node, Peer

LEMMA TimePasses ==
  ASSUME NEW c \in PeerConns, NEW v
  PROVE  LET d == [c EXCEPT !.silence = v]
         IN  d.session = c.session /\ d.queued = c.queued /\ d.eph = c.eph
  BY DEF PeerConns

LEMMA TickKeeps ==
  ASSUME conn \in [Node -> PeerConns], Tick, NEW n \in Node
  PROVE  /\ conn'[n].session = conn[n].session /\ conn'[n].queued = conn[n].queued
         /\ conn'[n].eph = conn[n].eph
<1> DEFINE v == IF conn[n].silence <= SilenceLimit THEN conn[n].silence + 1 ELSE conn[n].silence
<1>1. conn'[n] = [conn[n] EXCEPT !.silence = v]
  BY DEF Tick
<1> HIDE DEF v
<1> QED BY <1>1, TimePasses

LEMMA FreshIsEph == ASSUME CanGenerate PROVE Fresh \in Eph
  BY DEF CanGenerate, Fresh

LEMMA MessageTypes ==
  /\ Connect \in Message
  /\ \A e \in Eph : InitMsg(e) \in Message /\ RespMsg(e) \in Message
  /\ \A k \in Key, kind \in Kinds : Data(k, kind) \in Message
  /\ \A m \in Message : m.type = "data" => m.key \in Key /\ m.kind \in Kinds
  /\ \A m \in Message : m.type = "init" => m.eph \in Eph /\ m = InitMsg(m.eph)
  /\ \A m \in Message : m.type = "resp" => m.eph \in Eph /\ m = RespMsg(m.eph)
<1>1. Connect \in Message
  BY DEF Message
<1>2. \A e \in Eph : InitMsg(e) \in Message
  BY DEF Message
<1>3. \A e \in Eph : RespMsg(e) \in Message
  BY DEF Message
<1>4. \A k \in Key, kind \in Kinds : Data(k, kind) \in Message
  BY DEF Message
<1>5. ASSUME NEW m \in Message
      PROVE  \/ m = Connect
             \/ \E e \in Eph : m = InitMsg(e)
             \/ \E e \in Eph : m = RespMsg(e)
             \/ \E k \in Key, kind \in Kinds : m = Data(k, kind)
  BY <1>5 DEF Message
<1>6. \A m \in Message : m.type = "data" => m.key \in Key /\ m.kind \in Kinds
  BY <1>5 DEF Connect, InitMsg, RespMsg, Data
<1>7. \A m \in Message : m.type = "init" => m.eph \in Eph /\ m = InitMsg(m.eph)
  BY <1>5 DEF Connect, InitMsg, RespMsg, Data
<1>8. \A m \in Message : m.type = "resp" => m.eph \in Eph /\ m = RespMsg(m.eph)
  BY <1>5 DEF Connect, InitMsg, RespMsg, Data
<1> QED BY <1>1, <1>2, <1>3, <1>4, <1>6, <1>7, <1>8

(* What a node sends and receives are messages.                                *)
NetTypes == udp \in SUBSET [to : Node, msg : Message] /\ derp \in [Node -> Seq(Message)]

LEMMA UdpTypes ==
  ASSUME NetTypes, NEW n \in Node, NEW msgs \in SUBSET Message, SendUdp(n, msgs)
  PROVE  NetTypes'
  BY Basics DEF NetTypes, SendUdp

LEMMA DerpTypes ==
  ASSUME NetTypes, NEW n \in Node, NEW msgs \in Seq(Message), SendDerp(n, msgs)
  PROVE  NetTypes'
  BY Basics DEF NetTypes, SendDerp

LEMMA TransmitTypes ==
  ASSUME NetTypes, NEW n \in Node, NEW kinds \in Seq(Kinds), conn[n].session \in Key,
         Transmit(n, kinds)
  PROVE  NetTypes'
<1>1. \A i \in DOMAIN kinds : Sealed(n, kinds)[i] \in Message
  BY MessageTypes DEF Sealed
<1>2. Sealed(n, kinds) \in Seq(Message)
  BY <1>1 DEF Sealed
<1>3. {Sealed(n, kinds)[i] : i \in DOMAIN kinds} \in SUBSET Message
  BY <1>1
<1> QED BY <1>2, <1>3, UdpTypes, DerpTypes DEF Transmit

LEMMA ReceiveTypes ==
  ASSUME NetTypes, NEW n \in Node, NEW v \in Via, NEW m, Receive(n, v, m)
  PROVE  NetTypes' /\ m \in Message
<1>1. CASE v = "udp"
  BY <1>1 DEF NetTypes, Receive
<1>2. CASE v # "udp"
  <2>1. derp[n] \in Seq(Message) /\ derp[n] # <<>>
    BY <1>2 DEF NetTypes, Receive
  <2>2. Head(derp[n]) \in Message /\ Tail(derp[n]) \in Seq(Message)
    BY <2>1
  <2> QED BY <1>2, <2>2 DEF NetTypes, Receive
<1> QED BY <1>1, <1>2

(* A step of a worker or a caller that may start one.                          *)
LEMMA EnsureTypes ==
  ASSUME TypeInv, NEW n \in Node, NEW c \in PeerConns,
         c.session = NoKey <=> c.transport = "connecting",
         c.session = conn[n].session,
         EnsureConnecting(n, c)
  PROVE  /\ conn' \in [Node -> PeerConns] /\ worker' \in [Node -> [Slots -> Workers]]
         /\ \A m \in Node : conn'[m].session = NoKey <=> conn'[m].transport = "connecting"
         /\ \A m \in Node : conn'[m].session = conn[m].session
         /\ InitsCarryKey'
<1> USE DEF TypeInv, TypeOK
<1>1. CASE c.initiated /\ conn' = [conn EXCEPT ![n] = c] /\ UNCHANGED worker
  BY <1>1 DEF InitsCarryKey
<1>2. CASE /\ conn' = [conn EXCEPT ![n] = [c EXCEPT !.initiated = TRUE]]
           /\ \E s \in Slots : worker' = [worker EXCEPT ![n][s].pc = "begin"]
  <2>1. PICK s \in Slots : worker' = [worker EXCEPT ![n][s].pc = "begin"]
    BY <1>2
  <2>2. [c EXCEPT !.initiated = TRUE] \in PeerConns
    BY DEF PeerConns
  <2>3. [worker[n][s] EXCEPT !.pc = "begin"] \in Workers
    <3>1. worker[n][s] \in Workers
      OBVIOUS
    <3> QED BY <3>1 DEF Workers
  <2>4. worker' \in [Node -> [Slots -> Workers]]
    BY <2>1, <2>3
  <2>5. InitsCarryKey'
    BY <2>1 DEF InitsCarryKey, Workers
  <2> QED BY <1>2, <2>2, <2>4, <2>5 DEF PeerConns
<1> QED BY <1>1, <1>2 DEF EnsureConnecting

(* The parts of the invariant that a step touches are put together again here:    *)
(* a session that was there still is.                                        *)
LEMMA SealsKept ==
  ASSUME TypeInv,
         \A n \in Node : conn[n].session # NoKey => conn'[n].session # NoKey,
         \A n \in Node, v \in Via :
            \/ after'[n][v].out = after[n][v].out \/ after'[n][v].out = <<>>
            \/ conn'[n].session # NoKey,
         \A n \in Node :
            \/ keeper'[n] = keeper[n] \/ keeper'[n] # "failing"
            \/ conn'[n].session # NoKey
  PROVE  SealsWithSession'
  BY DEF TypeInv, SealsWithSession

LEMMA TypesOfNet == TypeOK => NetTypes
  BY DEF TypeOK, NetTypes

LEMMA SessionIsKey ==
  ASSUME TypeInv, NEW n \in Node, conn[n].session # NoKey
  PROVE  conn[n].session \in Key
  BY DEF TypeInv, TypeOK, PeerConns

LEMMA InitTypes == Init => TypeInv
<1> SUFFICES ASSUME Init PROVE TypeInv
  OBVIOUS
<1> USE DEF Init
<1>1. NewConn \in PeerConns
  BY Basics DEF NewConn, PeerConns
<1>2. IdleWorker \in Workers
  BY DEF IdleWorker, Workers
<1>3. /\ conn \in [Node -> PeerConns] /\ worker \in [Node -> [Slots -> Workers]]
      /\ \A n \in Node : conn[n].session = NoKey <=> conn[n].transport = "connecting"
  BY <1>1, <1>2 DEF NewConn
<1>4. /\ after \in [Node -> [Via -> Afters]]
      /\ keeper \in [Node -> {"asleep", "awake", "failing"}]
  BY DEF Nothing, Afters
<1>5. derp \in [Node -> Seq(Message)] /\ udp \in SUBSET [to : Node, msg : Message]
  OBVIOUS
<1>6. known \in [Node -> BOOLEAN] /\ pathUp \in [Node -> BOOLEAN]
  <2>1. known \in [Node -> BOOLEAN]
    <3>1. CASE LateMap
      BY <3>1
    <3>2. CASE ~ LateMap
      BY <3>2
    <3> QED BY <3>1, <3>2
  <2>2. pathUp \in [Node -> BOOLEAN]
    BY <2>1
  <2> QED BY <2>1, <2>2
<1>7. left \in Remaining
  BY BoundsAssumption DEF Remaining
<1>8. SealsWithSession /\ InitsCarryKey
  BY DEF SealsWithSession, InitsCarryKey, IdleWorker, Nothing
<1> QED BY <1>3, <1>4, <1>5, <1>6, <1>7, <1>8 DEF TypeInv, TypeOK

LEMMA LeftTypes ==
  ASSUME TypeInv
  PROVE  /\ left \in Remaining
         /\ left.sends > 0 => [left EXCEPT !.sends = @ - 1] \in Remaining
         /\ left.workers > 0 => [left EXCEPT !.workers = @ - 1] \in Remaining
         /\ left.outages > 0 => [left EXCEPT !.outages = @ - 1] \in Remaining
<1>1. left \in Remaining
  BY DEF TypeInv, TypeOK
<1> QED BY <1>1 DEF Remaining

LEMMA SendStep ==
  ASSUME TypeInv, NEW n \in Node, Send(n)
  PROVE  TypeInv'
<1>a. /\ left' = [left EXCEPT !.sends = @ - 1] /\ left.sends > 0
      /\ UNCHANGED <<known, after, keeper, pathUp>>
  BY DEF Send
<1>1. left' \in Remaining
  BY <1>a, LeftTypes
<1>2. CASE conn[n].session # NoKey /\ Transmit(n, <<"app">>) /\ UNCHANGED <<conn, worker>>
  <2>1. <<"app">> \in Seq(Kinds)
    BY DEF Kinds
  <2>2. NetTypes'
    BY <1>2, <2>1, SessionIsKey, TransmitTypes, TypesOfNet DEF TypeInv
  <2> QED BY <1>a, <1>1, <1>2, <2>2 DEF TypeInv, TypeOK, NetTypes, SealsWithSession, InitsCarryKey
<1>3. CASE /\ conn[n].session = NoKey
           /\ EnsureConnecting(n, [conn[n] EXCEPT !.queued = IF @ < MaxQueue THEN @ + 1 ELSE @])
           /\ UNCHANGED net
  <2> DEFINE c == [conn[n] EXCEPT !.queued = IF @ < MaxQueue THEN @ + 1 ELSE @]
  <2>1. /\ c \in PeerConns /\ c.session = conn[n].session
        /\ c.session = NoKey <=> c.transport = "connecting"
    <3>1. /\ conn[n] \in PeerConns
          /\ conn[n].session = NoKey <=> conn[n].transport = "connecting"
      BY DEF TypeInv, TypeOK
    <3> QED BY <3>1, Basics DEF PeerConns
  <2>2. EnsureConnecting(n, c)
    BY <1>3
  <2> HIDE DEF c
  <2>3. /\ conn' \in [Node -> PeerConns] /\ worker' \in [Node -> [Slots -> Workers]]
        /\ \A m \in Node : conn'[m].session = NoKey <=> conn'[m].transport = "connecting"
        /\ \A m \in Node : conn'[m].session = conn[m].session
        /\ InitsCarryKey'
    BY <2>1, <2>2, EnsureTypes
  <2>4. SealsWithSession'
    BY <1>a, <2>3, SealsKept
  <2> QED BY <1>a, <1>1, <1>3, <2>3, <2>4 DEF TypeInv, TypeOK, net
<1> QED BY <1>2, <1>3 DEF Send

LEMMA WorkerBeginStep ==
  ASSUME TypeInv, NEW n \in Node, NEW s \in Slots, WorkerBegin(n, s)
  PROVE  TypeInv'
<1> USE DEF WorkerBegin
<1>1. NetTypes'
  <2>1. Nudge(n) \in Seq(Message)
    BY MessageTypes DEF Nudge
  <2>2. SendDerp(n, Nudge(n))
    OBVIOUS
  <2> QED BY <2>1, <2>2, DerpTypes, TypesOfNet DEF TypeInv
<1>2. left' \in Remaining
  <2>1. /\ Timely \/ left.workers > 0
        /\ left' = IF Timely THEN left ELSE [left EXCEPT !.workers = @ - 1]
    OBVIOUS
  <2> QED BY <2>1, LeftTypes
<1>3. worker[n][s] \in Workers /\ conn[n] \in PeerConns
  BY DEF TypeInv, TypeOK
<1>4. CASE ~ AmInitiator(n)
  <2>1. conn' = conn
        /\ worker' = [worker EXCEPT ![n][s].pc = "loop", ![n][s].punched = TRUE]
    BY <1>4
  <2>2. worker' \in [Node -> [Slots -> Workers]]
    BY <1>3, <2>1 DEF TypeInv, TypeOK, Workers
  <2>3. InitsCarryKey'
    BY <1>4, <2>1 DEF TypeInv, InitsCarryKey, AmInitiator, TypeOK
  <2> QED BY <1>1, <1>2, <2>1, <2>2, <2>3 DEF TypeInv, TypeOK, NetTypes, SealsWithSession
<1>5. CASE AmInitiator(n)
  <2>1. PICK e \in Eph : /\ conn' = [conn EXCEPT ![n].eph = e]
                         /\ worker' = [worker EXCEPT ![n][s].pc = "loop", ![n][s].body = e]
    BY <1>3, <1>5, FreshIsEph DEF PeerConns
  <2>2. worker' \in [Node -> [Slots -> Workers]]
    BY <1>3, <2>1 DEF TypeInv, TypeOK, Workers
  <2>3. InitsCarryKey'
    BY <2>1 DEF TypeInv, InitsCarryKey, AmInitiator, TypeOK
  <2>4. /\ conn' \in [Node -> PeerConns]
        /\ \A m \in Node : /\ conn'[m].session = conn[m].session
                           /\ conn'[m].transport = conn[m].transport
    BY <1>3, <2>1 DEF TypeInv, TypeOK, PeerConns
  <2>5. SealsWithSession'
    BY <2>4, SealsKept
  <2> QED BY <1>1, <1>2, <2>2, <2>3, <2>4, <2>5 DEF TypeInv, TypeOK, NetTypes
<1> QED BY <1>4, <1>5

LEMMA WorkerSendsStep ==
  ASSUME TypeInv, NEW n \in Node, NEW s \in Slots,
         WorkerPunch(n, s) \/ WorkerRelayInit(n, s)
  PROVE  TypeInv'
<1>a. /\ worker[n][s].pc = "loop" /\ AmInitiator(n)
      /\ UNCHANGED <<conn, known, after, keeper, pathUp, left>>
      /\ \/ SendUdp(n, {InitMsg(worker[n][s].body)})
         \/ SendDerp(n, <<InitMsg(worker[n][s].body)>>)
      /\ \/ worker' = [worker EXCEPT ![n][s].punched = TRUE]
         \/ worker' = [worker EXCEPT ![n][s].relayed = TRUE]
  BY DEF WorkerPunch, WorkerRelayInit
<1>1. worker[n][s].body \in Eph /\ worker[n][s] \in Workers
  BY <1>a DEF TypeInv, InitsCarryKey, TypeOK
<1>2. NetTypes'
  <2> DEFINE m == InitMsg(worker[n][s].body)
  <2>1. m \in Message
    BY <1>1, MessageTypes
  <2> HIDE DEF m
  <2>2. {m} \in SUBSET Message /\ <<m>> \in Seq(Message)
    BY <2>1
  <2>3. SendUdp(n, {m}) \/ SendDerp(n, <<m>>)
    BY <1>a DEF m
  <2> QED BY <2>2, <2>3, DerpTypes, UdpTypes, TypesOfNet DEF TypeInv
<1>3. PICK w \in Workers : /\ w.pc = worker[n][s].pc /\ w.body = worker[n][s].body
                          /\ worker' = [worker EXCEPT ![n][s] = w]
  <2>1. CASE worker' = [worker EXCEPT ![n][s].punched = TRUE]
    <3> DEFINE w == [worker[n][s] EXCEPT !.punched = TRUE]
    <3>1. w \in Workers /\ w.pc = worker[n][s].pc /\ w.body = worker[n][s].body
      BY <1>1 DEF Workers
    <3>2. worker' = [worker EXCEPT ![n][s] = w]
      BY <2>1
    <3> QED BY <3>1, <3>2
  <2>2. CASE worker' = [worker EXCEPT ![n][s].relayed = TRUE]
    <3> DEFINE w == [worker[n][s] EXCEPT !.relayed = TRUE]
    <3>1. w \in Workers /\ w.pc = worker[n][s].pc /\ w.body = worker[n][s].body
      BY <1>1 DEF Workers
    <3>2. worker' = [worker EXCEPT ![n][s] = w]
      BY <2>2
    <3> QED BY <3>1, <3>2
  <2> QED BY <1>a, <2>1, <2>2
<1>4. worker' \in [Node -> [Slots -> Workers]]
  BY <1>3 DEF TypeInv, TypeOK
<1>5. InitsCarryKey'
  BY <1>1, <1>3 DEF TypeInv, TypeOK, InitsCarryKey, AmInitiator
<1> QED BY <1>a, <1>2, <1>4, <1>5 DEF TypeInv, TypeOK, NetTypes, SealsWithSession

LEMMA WorkerEndsStep ==
  ASSUME TypeInv, NEW n \in Node, NEW s \in Slots,
         WorkerReturn(n, s) \/ WorkerGiveUp(n, s) \/ WorkerRearm(n, s)
  PROVE  TypeInv'
<1> USE DEF WorkerReturn, WorkerGiveUp, WorkerRearm
<1>1. worker[n][s] \in Workers /\ conn[n] \in PeerConns
  BY DEF TypeInv, TypeOK
<1>2. PICK w \in Workers : w.pc # "loop" /\ worker' = [worker EXCEPT ![n][s] = w]
  <2>1. IdleWorker \in Workers /\ IdleWorker.pc = "idle"
    BY DEF IdleWorker, Workers
  <2>2. [worker[n][s] EXCEPT !.pc = "rearm"] \in Workers
    BY <1>1 DEF Workers
  <2>3. [worker[n][s] EXCEPT !.pc = "rearm"].pc = "rearm"
    BY <1>1 DEF Workers
  <2>4. \/ worker' = [worker EXCEPT ![n][s] = IdleWorker]
        \/ worker' = [worker EXCEPT ![n][s] = [worker[n][s] EXCEPT !.pc = "rearm"]]
    BY DEF TypeInv, TypeOK
  <2> QED BY <2>1, <2>2, <2>3, <2>4
<1>3. worker' \in [Node -> [Slots -> Workers]] /\ InitsCarryKey'
  BY <1>2 DEF TypeInv, TypeOK, InitsCarryKey
<1>4. /\ conn' \in [Node -> PeerConns]
      /\ \A m \in Node : /\ conn'[m].session = conn[m].session
                         /\ conn'[m].transport = conn[m].transport
  <2>1. CASE UNCHANGED conn
    BY <2>1 DEF TypeInv, TypeOK
  <2>2. CASE conn' = [conn EXCEPT ![n] = Rearmed(@)]
    <3>1. /\ Rearmed(conn[n]) \in PeerConns
          /\ Rearmed(conn[n]).session = conn[n].session
          /\ Rearmed(conn[n]).transport = conn[n].transport
      BY <1>1 DEF PeerConns, Rearmed
    <3> HIDE DEF Rearmed
    <3> QED BY <2>2, <3>1 DEF TypeInv, TypeOK
  <2> QED BY <2>1, <2>2
<1>5. SealsWithSession'
  BY <1>4, SealsKept
<1> QED BY <1>3, <1>4, <1>5 DEF TypeInv, TypeOK, net

(* A thread that received a packet left its PeerConn as c and goes on with a.     *)
LEMMA ReceiverTypes ==
  ASSUME TypeInv, NEW n \in Node, NEW v \in Via, NEW m, Receive(n, v, m),
         NEW c \in PeerConns, c.session = NoKey <=> c.transport = "connecting",
         conn[n].session # NoKey => c.session # NoKey,
         NEW a \in Afters, a.out # <<>> => c.session # NoKey,
         conn' = [conn EXCEPT ![n] = c], after' = [after EXCEPT ![n][v] = a],
         UNCHANGED <<known, worker, keeper, pathUp, left>>
  PROVE  TypeInv'
<1>1. NetTypes'
  BY ReceiveTypes, TypesOfNet DEF TypeInv
<1>2. /\ conn' \in [Node -> PeerConns]
      /\ \A k \in Node : conn'[k].session = NoKey <=> conn'[k].transport = "connecting"
      /\ \A k \in Node : conn[k].session # NoKey => conn'[k].session # NoKey
  BY DEF TypeInv, TypeOK
<1>3. /\ after' \in [Node -> [Via -> Afters]]
      /\ after'[n][v] = a /\ conn'[n] = c
      /\ \A k \in Node, w \in Via : ~ (k = n /\ w = v) => after'[k][w] = after[k][w]
  BY DEF TypeInv, TypeOK
<1>4. SealsWithSession'
  BY <1>2, <1>3, SealsKept
<1> QED BY <1>1, <1>2, <1>3, <1>4 DEF TypeInv, TypeOK, NetTypes, InitsCarryKey

LEMMA PayloadTypes ==
  ASSUME NEW k \in 0 .. MaxQueue PROVE Payloads(k) \in Seq({"app", "ack"})
  BY Basics DEF Payloads

(* The PeerConn after the first session, and after a later packet.              *)
LEMMA BoundTypes ==
  ASSUME NEW c \in PeerConns, NEW v \in Via
  PROVE  /\ Bound(c, v) \in PeerConns
         /\ Bound(c, v).transport # "connecting" /\ Bound(c, v).queued = 0
         /\ Bound(c, v).respEph = c.respEph /\ Bound(c, v).eph = c.eph
         /\ Bound(c, v).initiated = c.initiated
<1> DEFINE w == IF v = "udp" THEN "direct" ELSE "derp"
<1>1. w \in {"direct", "derp"} /\ Bound(c, v) = [c EXCEPT !.transport = w, !.queued = 0]
  BY DEF Bound
<1>2. 0 \in 0 .. MaxQueue
  BY Basics
<1> HIDE DEF w
<1> QED BY <1>1, <1>2 DEF PeerConns

LEMMA SessionTypes ==
  ASSUME NEW b \in PeerConns, NEW k \in Key
  PROVE  /\ [b EXCEPT !.session = k] \in PeerConns
         /\ [b EXCEPT !.session = k].session = k
         /\ [b EXCEPT !.session = k].transport = b.transport
         /\ [b EXCEPT !.session = k].queued = b.queued
         /\ [b EXCEPT !.session = k].eph = b.eph
         /\ [b EXCEPT !.session = k].initiated = b.initiated
         /\ [b EXCEPT !.session = k].respEph = b.respEph
  BY DEF PeerConns

(* A responder's PeerConn b when it has derived session k from its ephemeral e.    *)
Answering(b, k, e) == [b EXCEPT !.session = k, !.respEph = e]

LEMMA AnsweringTypes ==
  ASSUME NEW b \in PeerConns, NEW k \in Key, NEW e \in Eph
  PROVE  /\ Answering(b, k, e) \in PeerConns
         /\ Answering(b, k, e).session = k /\ Answering(b, k, e).transport = b.transport
         /\ Answering(b, k, e).queued = b.queued /\ Answering(b, k, e).eph = b.eph
         /\ Answering(b, k, e).initiated = b.initiated /\ Answering(b, k, e).respEph = e
  BY DEF PeerConns, Answering

LEMMA UpgradedTypes ==
  ASSUME NEW c \in PeerConns, NEW v \in Via
  PROVE  /\ Upgraded(c, v) \in PeerConns
         /\ Upgraded(c, v).session = c.session /\ Upgraded(c, v).queued = c.queued
         /\ Upgraded(c, v).respEph = c.respEph /\ Upgraded(c, v).eph = c.eph
         /\ Upgraded(c, v).initiated = c.initiated
         /\ Upgraded(c, v).transport \in {c.transport, "direct"}
<1>1. CASE v = "udp"
  <2>1. Upgraded(c, v) = [c EXCEPT !.transport = "direct", !.silence = 0]
    BY <1>1 DEF Upgraded
  <2>2. 0 \in 0 .. SilenceLimit + 1
    BY Basics
  <2> QED BY <2>1, <2>2 DEF PeerConns
<1>2. CASE v # "udp"
  BY <1>2 DEF Upgraded
<1> QED BY <1>1, <1>2

LEMMA ConnTypes ==
  ASSUME TypeInv, NEW n \in Node
  PROVE  /\ conn[n] \in PeerConns /\ conn[n].queued \in 0 .. MaxQueue
         /\ conn[n].respEph \in Eph \cup {NoEph} /\ conn[n].eph \in Eph \cup {NoEph}
         /\ conn[n].session \in Key \cup {NoKey}
         /\ conn[n].session = NoKey <=> conn[n].transport = "connecting"
  BY DEF TypeInv, TypeOK, PeerConns

LEMMA AfterTypes ==
  ASSUME TypeInv, NEW n \in Node, NEW v \in Via
  PROVE  after[n][v] \in Afters /\ after[n][v].out \in Seq({"app", "ack"})
  BY DEF TypeInv, TypeOK, Afters

LEMMA RecvInitStep ==
  ASSUME TypeInv, NEW n \in Node, NEW v \in Via, NEW e \in Eph, RecvInit(n, v, e)
  PROVE  TypeInv'
<1>a. /\ Receive(n, v, InitMsg(e)) /\ after[n][v] = Nothing
      /\ UNCHANGED <<known, worker, keeper, pathUp, left>>
  BY DEF RecvInit, Receive
<1>b. after \in [Node -> [Via -> Afters]]
  BY DEF TypeInv, TypeOK
<1>1. CASE /\ conn[n].session = NoKey
           /\ CanGenerate
           /\ conn' = [conn EXCEPT ![n] = [Bound(@, v) EXCEPT !.session = <<e, Fresh>>,
                                                              !.respEph = Fresh]]
           /\ after' = [after EXCEPT ![n][v] =
                          [resp |-> Fresh, out |-> Payloads(conn[n].queued)]]
  <2> DEFINE c == Answering(Bound(conn[n], v), <<e, Fresh>>, Fresh)
             a == [resp |-> Fresh, out |-> Payloads(conn[n].queued)]
  <2>1. Fresh \in Eph /\ <<e, Fresh>> \in Key
    BY <1>1, FreshIsEph DEF Key
  <2>2. c \in PeerConns /\ c.session = <<e, Fresh>> /\ c.transport # "connecting"
    <3>1. Bound(conn[n], v) \in PeerConns /\ Bound(conn[n], v).transport # "connecting"
      BY ConnTypes, BoundTypes
    <3> QED BY <2>1, <3>1, SessionTypes, AnsweringTypes
  <2>3. a \in Afters
    BY <2>1, ConnTypes, PayloadTypes DEF Afters
  <2>4. conn' = [conn EXCEPT ![n] = c] /\ after' = [after EXCEPT ![n][v] = a]
    BY <1>1 DEF Answering
  <2>5. c.session # NoKey
    BY <2>1, <2>2, Basics
  <2> HIDE DEF c, a
  <2> QED BY <1>a, <2>2, <2>3, <2>4, <2>5, ReceiverTypes
<1>2. CASE /\ conn[n].session # NoKey
           /\ conn' = [conn EXCEPT ![n] = Upgraded(@, v)]
           /\ after' = [after EXCEPT ![n][v].resp = AnswerEph(conn[n])]
  <2> DEFINE c == Upgraded(conn[n], v)
             a == [after[n][v] EXCEPT !.resp = AnswerEph(conn[n])]
  <2>1. c \in PeerConns /\ c.session = conn[n].session /\ c.transport # "connecting"
    BY <1>2, ConnTypes, UpgradedTypes
  <2>2. a \in Afters /\ a.out = <<>>
    BY <1>a, ConnTypes, AfterTypes DEF AnswerEph, Afters, Nothing
  <2>3. conn' = [conn EXCEPT ![n] = c] /\ after' = [after EXCEPT ![n][v] = a]
    BY <1>2, <1>b
  <2>4. c.session # NoKey
    BY <1>2, <2>1
  <2> HIDE DEF c, a
  <2> QED BY <1>a, <2>1, <2>2, <2>3, <2>4, ReceiverTypes
<1> QED BY <1>1, <1>2 DEF RecvInit

LEMMA RecvRespStep ==
  ASSUME TypeInv, NEW n \in Node, NEW v \in Via, NEW e \in Eph, RecvResp(n, v, e)
  PROVE  TypeInv'
<1>a. /\ Receive(n, v, RespMsg(e)) /\ after[n][v] = Nothing
      /\ UNCHANGED <<known, worker, keeper, pathUp, left>>
  BY DEF RecvResp, Receive
<1>b. after \in [Node -> [Via -> Afters]] /\ conn \in [Node -> PeerConns]
  BY DEF TypeInv, TypeOK
<1>c. after' = after => after' = [after EXCEPT ![n][v] = after[n][v]]
  BY <1>b
<1>1. CASE /\ conn[n].session = NoKey /\ conn[n].eph # NoEph
           /\ conn' = [conn EXCEPT ![n] = [Bound(@, v) EXCEPT !.session = <<conn[n].eph, e>>]]
           /\ after' = [after EXCEPT ![n][v].out = Payloads(conn[n].queued)]
  <2> DEFINE c == [Bound(conn[n], v) EXCEPT !.session = <<conn[n].eph, e>>]
             a == [after[n][v] EXCEPT !.out = Payloads(conn[n].queued)]
  <2>1. <<conn[n].eph, e>> \in Key
    BY <1>1, ConnTypes DEF Key
  <2>2. c \in PeerConns /\ c.session = <<conn[n].eph, e>> /\ c.transport # "connecting"
    <3>1. Bound(conn[n], v) \in PeerConns /\ Bound(conn[n], v).transport # "connecting"
      BY ConnTypes, BoundTypes
    <3> QED BY <2>1, <3>1, SessionTypes, AnsweringTypes
  <2>3. a \in Afters
    BY ConnTypes, PayloadTypes, AfterTypes DEF Afters
  <2>4. conn' = [conn EXCEPT ![n] = c] /\ after' = [after EXCEPT ![n][v] = a]
    BY <1>1, <1>b
  <2>5. c.session # NoKey
    BY <2>1, <2>2, Basics
  <2> HIDE DEF c, a
  <2> QED BY <1>a, <2>2, <2>3, <2>4, <2>5, ReceiverTypes
<1>2. CASE /\ conn[n].session = NoKey /\ conn[n].eph = NoEph
           /\ UNCHANGED <<conn, after>>
  <2>1. conn' = [conn EXCEPT ![n] = conn[n]]
    BY <1>2, <1>b
  <2>2. after[n][v].out = <<>>
    BY <1>a DEF Nothing
  <2>3. after' = [after EXCEPT ![n][v] = after[n][v]] /\ after[n][v] \in Afters
    BY <1>2, <1>c, AfterTypes
  <2>4. conn[n] \in PeerConns /\ (conn[n].session = NoKey <=> conn[n].transport = "connecting")
    BY ConnTypes
  <2> QED BY <1>a, <2>1, <2>2, <2>3, <2>4, ReceiverTypes
<1>3. CASE /\ conn[n].session # NoKey
           /\ conn' = [conn EXCEPT ![n] = Upgraded(@, v)]
           /\ UNCHANGED after
  <2> DEFINE c == Upgraded(conn[n], v)
  <2>1. c \in PeerConns /\ c.session = conn[n].session /\ c.transport # "connecting"
    BY <1>3, ConnTypes, UpgradedTypes
  <2>2. conn' = [conn EXCEPT ![n] = c]
    BY <1>3
  <2>3. after' = [after EXCEPT ![n][v] = after[n][v]] /\ after[n][v] \in Afters
    BY <1>3, <1>c, AfterTypes
  <2>4. c.session # NoKey
    BY <1>3, <2>1
  <2> HIDE DEF c
  <2> QED BY <1>a, <2>1, <2>2, <2>3, <2>4, ReceiverTypes
<1> QED BY <1>1, <1>2, <1>3 DEF RecvResp

LEMMA RecvConnectStep ==
  ASSUME TypeInv, NEW n \in Node, RecvConnect(n)
  PROVE  TypeInv'
<1>1. NetTypes'
  BY ReceiveTypes, TypesOfNet DEF TypeInv, RecvConnect, Via
<1>2. /\ conn' \in [Node -> PeerConns] /\ worker' \in [Node -> [Slots -> Workers]]
      /\ \A m \in Node : conn'[m].session = NoKey <=> conn'[m].transport = "connecting"
      /\ \A m \in Node : conn'[m].session = conn[m].session
      /\ InitsCarryKey'
  BY ConnTypes, EnsureTypes DEF RecvConnect
<1>3. UNCHANGED <<known, after, keeper, pathUp, left>>
  BY DEF RecvConnect
<1>4. SealsWithSession'
  BY <1>2, <1>3, SealsKept
<1> QED BY <1>1, <1>2, <1>3, <1>4 DEF TypeInv, TypeOK, NetTypes

LEMMA RecvDataStep ==
  ASSUME TypeInv, NEW n \in Node, NEW v \in Via, NEW m,
         m.type = "data", RecvData(n, v, m)
  PROVE  TypeInv'
<1>a. /\ Receive(n, v, m) /\ after[n][v] = Nothing
      /\ UNCHANGED <<known, worker, keeper, pathUp, left>>
  BY DEF RecvData, Receive
<1>b. after \in [Node -> [Via -> Afters]] /\ conn \in [Node -> PeerConns]
  BY DEF TypeInv, TypeOK
<1>1. CASE /\ m.key = conn[n].session
           /\ conn' = [conn EXCEPT ![n].silence = 0]
           /\ after' = [after EXCEPT ![n][v].out =
                          IF m.kind = "keepalive" THEN <<"ack">> ELSE <<>>]
  <2> DEFINE out == IF m.kind = "keepalive" THEN <<"ack">> ELSE <<>>
             c == [conn[n] EXCEPT !.silence = 0]
             a == [after[n][v] EXCEPT !.out = out]
  <2>1. conn[n].session # NoKey
    <3>1. m \in Message
      BY <1>a, ReceiveTypes, TypesOfNet DEF TypeInv
    <3> QED BY <1>1, <3>1, MessageTypes, Basics
  <2>2. /\ c \in PeerConns /\ c.session = conn[n].session
        /\ c.transport = conn[n].transport
    BY ConnTypes, Basics DEF PeerConns
  <2>3. out \in Seq({"app", "ack"})
    <3>1. <<"ack">> \in Seq({"app", "ack"}) /\ <<>> \in Seq({"app", "ack"})
      OBVIOUS
    <3> QED BY <3>1
  <2>4. a \in Afters
    BY <2>3, AfterTypes DEF Afters
  <2>5. conn' = [conn EXCEPT ![n] = c] /\ after' = [after EXCEPT ![n][v] = a]
    BY <1>1, <1>b
  <2> HIDE DEF c, a, out
  <2> QED BY <1>a, <2>1, <2>2, <2>4, <2>5, ConnTypes, ReceiverTypes
<1>2. CASE UNCHANGED <<conn, after>>
  <2>1. conn' = [conn EXCEPT ![n] = conn[n]] /\ after' = [after EXCEPT ![n][v] = after[n][v]]
    BY <1>2, <1>b
  <2>2. after[n][v].out = <<>>
    BY <1>a DEF Nothing
  <2> QED BY <1>a, <2>1, <2>2, ConnTypes, AfterTypes, ReceiverTypes
<1> QED BY <1>1, <1>2 DEF RecvData

LEMMA RecvUnknownStep ==
  ASSUME TypeInv, NEW n \in Node, NEW v \in Via, NEW m, RecvUnknown(n, v, m)
  PROVE  TypeInv'
<1>1. NetTypes'
  BY ReceiveTypes, TypesOfNet DEF TypeInv, RecvUnknown
<1> QED BY <1>1 DEF TypeInv, TypeOK, NetTypes, RecvUnknown, SealsWithSession, InitsCarryKey

LEMMA AnswerStep ==
  ASSUME TypeInv, NEW n \in Node, NEW v \in Via, SendResp(n, v) \/ SendPayloads(n, v)
  PROVE  TypeInv'
<1>b. after \in [Node -> [Via -> Afters]]
  BY DEF TypeInv, TypeOK
<1>1. PICK a \in Afters : /\ after' = [after EXCEPT ![n][v] = a]
                          /\ a.out = after[n][v].out \/ a.out = <<>>
  <2>1. CASE SendResp(n, v)
    <3>1. [after[n][v] EXCEPT !.resp = NoEph] \in Afters
      BY AfterTypes DEF Afters
    <3>2. after' = [after EXCEPT ![n][v] = [after[n][v] EXCEPT !.resp = NoEph]]
      BY <1>b, <2>1 DEF SendResp
    <3> QED BY <3>1, <3>2, AfterTypes DEF Afters
  <2>2. CASE SendPayloads(n, v)
    <3>1. Nothing \in Afters /\ Nothing.out = <<>>
      BY DEF Nothing, Afters
    <3> QED BY <2>2, <3>1 DEF SendPayloads
  <2> QED BY <2>1, <2>2
<1>2. NetTypes'
  <2>1. CASE SendResp(n, v)
    <3> DEFINE m == RespMsg(after[n][v].resp)
    <3>1. m \in Message
      BY <2>1, AfterTypes, MessageTypes DEF SendResp, Afters
    <3> HIDE DEF m
    <3>2. {m} \in SUBSET Message /\ <<m>> \in Seq(Message)
      BY <3>1
    <3>3. SendUdp(n, {m}) \/ SendDerp(n, <<m>>)
      BY <2>1 DEF SendResp, m
    <3> QED BY <3>2, <3>3, DerpTypes, UdpTypes, TypesOfNet DEF TypeInv
  <2>2. CASE SendPayloads(n, v)
    <3>1. Transmit(n, after[n][v].out) /\ after[n][v].out # <<>>
      BY <2>2 DEF SendPayloads
    <3>2. after[n][v].out \in Seq(Kinds)
      BY AfterTypes DEF Kinds
    <3>3. conn[n].session \in Key
      BY <3>1, SessionIsKey DEF TypeInv, SealsWithSession
    <3> QED BY <3>1, <3>2, <3>3, TransmitTypes, TypesOfNet DEF TypeInv
  <2> QED BY <2>1, <2>2
<1>3. UNCHANGED <<conn, known, worker, keeper, pathUp, left>>
  BY DEF SendResp, SendPayloads
<1>4. after' \in [Node -> [Via -> Afters]]
  BY <1>1, <1>b
<1>5. \A k \in Node, w \in Via : after'[k][w].out = after[k][w].out \/ after'[k][w].out = <<>>
  BY <1>1, <1>b
<1>6. SealsWithSession'
  BY <1>3, <1>5, SealsKept
<1> QED BY <1>2, <1>3, <1>4, <1>6 DEF TypeInv, TypeOK, NetTypes, InitsCarryKey

LEMMA FailedOverTypes ==
  ASSUME NEW c \in PeerConns, c.session # NoKey
  PROVE  /\ FailedOver(c) \in PeerConns
         /\ FailedOver(c).session = c.session /\ FailedOver(c).queued = c.queued
         /\ FailedOver(c).transport = "derp" /\ ~ FailedOver(c).initiated
         /\ FailedOver(c).respEph = c.respEph /\ FailedOver(c).eph = NoEph
  BY DEF PeerConns, FailedOver

LEMMA KeeperStep ==
  ASSUME TypeInv, NEW n \in Node, RunKeeper(n)
  PROVE  TypeInv'
<1>a. keeper \in [Node -> {"asleep", "awake", "failing"}]
  BY DEF TypeInv, TypeOK
<1>1. CASE KeeperProbe(n)
  <2>1. conn[n].session \in Key
    BY <1>1, ConnTypes, SessionIsKey DEF KeeperProbe
  <2>2. <<"keepalive">> \in Seq(Kinds)
    BY DEF Kinds
  <2>3. NetTypes'
    BY <1>1, <2>1, <2>2, TransmitTypes, TypesOfNet DEF KeeperProbe, TypeInv
  <2>4. /\ keeper' \in [Node -> {"asleep", "awake", "failing"}]
        /\ \A m \in Node : keeper'[m] = "failing" => keeper[m] = "failing"
        /\ UNCHANGED <<conn, known, worker, after, pathUp, left>>
    BY <1>1, <1>a DEF KeeperProbe
  <2>5. SealsWithSession'
    BY <2>4 DEF TypeInv, SealsWithSession
  <2> QED BY <2>3, <2>4, <2>5 DEF TypeInv, TypeOK, NetTypes, InitsCarryKey
<1>2. CASE KeeperSilent(n)
  <2>1. /\ conn[n].session # NoKey
        /\ UNCHANGED <<conn, known, worker, after, net, pathUp, left>>
        /\ keeper' = [keeper EXCEPT ![n] = "failing"]
    BY <1>2, ConnTypes DEF KeeperSilent
  <2> QED BY <1>a, <2>1 DEF TypeInv, TypeOK, net, SealsWithSession, InitsCarryKey
<1>3. CASE KeeperFailover(n) \/ KeeperRetry(n)
  <2>1. PICK c \in PeerConns :
          /\ c.session = conn[n].session
          /\ c.session = NoKey <=> c.transport = "connecting"
          /\ EnsureConnecting(n, c)
    <3>1. CASE KeeperRetry(n)
      BY <3>1, ConnTypes DEF KeeperRetry
    <3>2. CASE KeeperFailover(n)
      <4>1. conn[n].session # NoKey /\ conn[n] \in PeerConns
        BY <3>2, ConnTypes DEF KeeperFailover, TypeInv, SealsWithSession
      <4> QED BY <3>2, <4>1, FailedOverTypes DEF KeeperFailover
    <3> QED BY <1>3, <3>1, <3>2
  <2>2. /\ conn' \in [Node -> PeerConns] /\ worker' \in [Node -> [Slots -> Workers]]
        /\ \A m \in Node : conn'[m].session = NoKey <=> conn'[m].transport = "connecting"
        /\ \A m \in Node : conn'[m].session = conn[m].session
        /\ InitsCarryKey'
    BY <2>1, EnsureTypes
  <2>3. /\ keeper' \in [Node -> {"asleep", "awake", "failing"}]
        /\ \A m \in Node : keeper'[m] = "failing" => keeper[m] = "failing"
        /\ UNCHANGED <<known, after, net, pathUp, left>>
    BY <1>3, <1>a DEF KeeperFailover, KeeperRetry
  <2>4. SealsWithSession'
    BY <2>2, <2>3 DEF TypeInv, SealsWithSession
  <2> QED BY <2>2, <2>3, <2>4 DEF TypeInv, TypeOK, net
<1> QED BY <1>1, <1>2, <1>3 DEF RunKeeper

LEMMA EnvironmentStep ==
  ASSUME TypeInv, Environment
  PROVE  TypeInv'
<1>1. CASE Tick
  <2>1. \A n \in Node : LET c == [conn[n] EXCEPT !.silence = IF @ <= SilenceLimit THEN @ + 1 ELSE @]
                        IN  /\ c \in PeerConns /\ c.session = conn[n].session
                            /\ c.transport = conn[n].transport
    BY ConnTypes, Basics DEF PeerConns
  <2>2. /\ conn' \in [Node -> PeerConns]
        /\ \A m \in Node : /\ conn'[m].session = conn[m].session
                           /\ conn'[m].transport = conn[m].transport
    BY <1>1, <2>1 DEF Tick
  <2>3. keeper' \in [Node -> {"asleep", "awake", "failing"}]
        /\ \A m \in Node : keeper'[m] # "failing"
    BY <1>1 DEF Tick
  <2>4. left' \in Remaining
    <3>1. /\ Timely \/ left.upsets > 0
          /\ left' = [left EXCEPT !.upsets = IF Timely THEN @ ELSE @ - 1,
                                  !.sends = IF SendsPerTick THEN MaxSends ELSE @]
      BY <1>1 DEF Tick
    <3>2. left.upsets \in Nat /\ left.sends \in Nat
      BY LeftTypes DEF Remaining
    <3>3. /\ (IF Timely THEN left.upsets ELSE left.upsets - 1) \in Nat
          /\ (IF SendsPerTick THEN MaxSends ELSE left.sends) \in Nat
      BY <3>1, <3>2, Basics
    <3> QED BY <3>1, <3>3, LeftTypes DEF Remaining
  <2>5. UNCHANGED <<known, worker, after, net, pathUp>>
    BY <1>1 DEF Tick
  <2>6. SealsWithSession'
    BY <2>2, <2>3, <2>5, SealsKept
  <2> QED BY <2>2, <2>3, <2>4, <2>5, <2>6 DEF TypeInv, TypeOK, net, InitsCarryKey
<1>2. ASSUME NEW n \in Node, Learn(n) PROVE TypeInv'
  BY <1>2 DEF Learn, TypeInv, TypeOK, net, SealsWithSession, InitsCarryKey
<1>3. CASE PathDown \/ PathHeals
  <2>1. left' \in Remaining
    BY <1>3, LeftTypes DEF PathDown, PathHeals
  <2>2. pathUp' \in [Node -> BOOLEAN]
    BY <1>3 DEF PathDown, PathHeals, TypeInv, TypeOK
  <2>3. UNCHANGED <<conn, known, worker, after, keeper, net>>
    BY <1>3 DEF PathDown, PathHeals
  <2> QED BY <2>1, <2>2, <2>3 DEF TypeInv, TypeOK, net, SealsWithSession, InitsCarryKey
<1>4. ASSUME NEW n \in Node, Restart(n) PROVE TypeInv'
  <2>1. NewConn \in PeerConns /\ NewConn.session = NoKey /\ NewConn.transport = "connecting"
    BY Basics DEF NewConn, PeerConns
  <2>2. /\ IdleWorker \in Workers /\ IdleWorker.pc = "idle"
        /\ Nothing \in Afters /\ Nothing.out = <<>>
    BY DEF IdleWorker, Workers, Nothing, Afters
  <2>3. left' \in Remaining
    <3>1. left.upsets > 0 /\ left' = [left EXCEPT !.upsets = @ - 1, !.restarted = TRUE]
      BY <1>4 DEF Restart
    <3>2. left.upsets - 1 \in Nat
      BY <3>1, LeftTypes DEF Remaining
    <3> QED BY <3>1, <3>2, LeftTypes DEF Remaining
  <2>4. known' \in [Node -> BOOLEAN]
    <3>1. known \in [Node -> BOOLEAN]
      BY DEF TypeInv, TypeOK
    <3>2. known' \in IF LateMap THEN {[known EXCEPT ![n] = FALSE], [m \in Node |-> FALSE]}
                                ELSE {known}
      BY <1>4 DEF Restart
    <3> QED BY <3>1, <3>2
  <2>5. /\ conn' = [conn EXCEPT ![n] = NewConn]
        /\ worker' = [worker EXCEPT ![n] = [s \in Slots |-> IdleWorker]]
        /\ after' = [after EXCEPT ![n] = [v \in Via |-> Nothing]]
        /\ keeper' = [keeper EXCEPT ![n] = "asleep"]
        /\ derp' = [derp EXCEPT ![n] = <<>>]
        /\ UNCHANGED <<udp, pathUp>>
    BY <1>4 DEF Restart
  <2>6. /\ conn' \in [Node -> PeerConns] /\ worker' \in [Node -> [Slots -> Workers]]
        /\ \A m \in Node : conn'[m].session = NoKey <=> conn'[m].transport = "connecting"
    BY <2>1, <2>2, <2>5 DEF TypeInv, TypeOK
  <2>7. /\ after' \in [Node -> [Via -> Afters]]
        /\ keeper' \in [Node -> {"asleep", "awake", "failing"}]
        /\ derp' \in [Node -> Seq(Message)]
    BY <2>2, <2>5 DEF TypeInv, TypeOK
  <2>8. SealsWithSession'
    BY <2>2, <2>5 DEF TypeInv, TypeOK, SealsWithSession
  <2>9. InitsCarryKey'
    BY <2>2, <2>5 DEF TypeInv, TypeOK, InitsCarryKey
  <2> QED BY <2>3, <2>4, <2>5, <2>6, <2>7, <2>8, <2>9 DEF TypeInv, TypeOK
<1> QED BY <1>1, <1>2, <1>3, <1>4 DEF Environment

LEMMA NextTypes == TypeInv /\ [Next]_vars => TypeInv'
<1> SUFFICES ASSUME TypeInv, [Next]_vars PROVE TypeInv'
  OBVIOUS
<1>1. ASSUME NEW n \in Node, Send(n) \/ RunKeeper(n) PROVE TypeInv'
  BY <1>1, SendStep, KeeperStep
<1>2. ASSUME NEW n \in Node, NEW s \in Slots, RunWorker(n, s) PROVE TypeInv'
  BY <1>2, WorkerBeginStep, WorkerSendsStep, WorkerEndsStep DEF RunWorker
<1>3. ASSUME NEW n \in Node, NEW v \in Via, RunReceiver(n, v) PROVE TypeInv'
  BY <1>3, RecvInitStep, RecvRespStep, RecvConnectStep, RecvDataStep, RecvUnknownStep,
     AnswerStep DEF RunReceiver
<1>4. CASE UNCHANGED vars
  BY <1>4 DEF vars, TypeInv, TypeOK, SealsWithSession, InitsCarryKey
<1> QED BY <1>1, <1>2, <1>3, <1>4, EnvironmentStep DEF Next

(* The types of both nodes' state, of the packets under way and of the relay's    *)
(* queues.                                                                   *)
THEOREM TypeCorrect == Spec => []TypeOK
<1>1. TypeInv => TypeOK
  BY DEF TypeInv
<1> QED BY <1>1, InitTypes, NextTypes, PTL DEF Spec

-----------------------------------------------------------------------------
(* The session and the queue. *)

(* What EnsureConnecting makes of the PeerConn c it is given, and of the workers. *)
LEMMA EnsureEffect ==
  ASSUME TypeInv, NEW n \in Node, NEW c \in PeerConns, EnsureConnecting(n, c)
  PROVE  /\ conn'[n].session = c.session /\ conn'[n].queued = c.queued
         /\ conn'[n].transport = c.transport
         /\ conn'[n].respEph = c.respEph /\ conn'[n].eph = c.eph
         /\ \A m \in Node \ {n} : conn'[m] = conn[m]
         /\ \A m \in Node, s \in Slots : worker[m][s].pc # "idle" => worker'[m][s].pc # "idle"
         /\ c.initiated \/ \E s \in Slots : worker'[n][s].pc # "idle"
<1>a. conn \in [Node -> PeerConns] /\ worker \in [Node -> [Slots -> Workers]]
  BY DEF TypeInv, TypeOK
<1>1. CASE c.initiated /\ conn' = [conn EXCEPT ![n] = c] /\ UNCHANGED worker
  BY <1>a, <1>1
<1>2. CASE /\ conn' = [conn EXCEPT ![n] = [c EXCEPT !.initiated = TRUE]]
           /\ \E s \in Slots : worker' = [worker EXCEPT ![n][s].pc = "begin"]
  <2>1. PICK s \in Slots : worker' = [worker EXCEPT ![n][s].pc = "begin"]
    BY <1>2
  <2>2. /\ \A m \in Node, t \in Slots : worker[m][t].pc # "idle" => worker'[m][t].pc # "idle"
        /\ worker'[n][s].pc = "begin"
    BY <1>a, <2>1 DEF Workers
  <2>3. conn'[n] = [c EXCEPT !.initiated = TRUE] /\ \A m \in Node \ {n} : conn'[m] = conn[m]
    BY <1>a, <1>2
  <2> QED BY <2>2, <2>3 DEF PeerConns
<1> QED BY <1>1, <1>2 DEF EnsureConnecting

(* What a step may make of the session of node n and of what it has queued.       *)
KeepsSession(n) ==
  /\ conn'[n].session = conn[n].session
  /\ conn[n].session # NoKey => conn'[n].queued = conn[n].queued

FirstSession(n) ==
  conn[n].session = NoKey /\ conn'[n].session # NoKey /\ conn'[n].queued = 0

SessionStep == \A n \in Node : KeepsSession(n) \/ FirstSession(n) \/ conn'[n] = NewConn

LEMMA EnsureKeepsSession ==
  ASSUME TypeInv, NEW n \in Node, NEW c \in PeerConns, EnsureConnecting(n, c),
         c.session = conn[n].session, conn[n].session # NoKey => c.queued = conn[n].queued
  PROVE  SessionStep
  BY EnsureEffect DEF SessionStep, KeepsSession

LEMMA ReceiverSession ==
  ASSUME TypeInv, NEW n \in Node, NEW v \in Via, RunReceiver(n, v)
  PROVE  SessionStep
<1>a. conn \in [Node -> PeerConns]
  BY DEF TypeInv, TypeOK
<1>1. ASSUME NEW e \in Eph, RecvInit(n, v, e) PROVE SessionStep
  <2>1. CASE /\ conn[n].session = NoKey
             /\ CanGenerate
             /\ conn' = [conn EXCEPT ![n] = [Bound(@, v) EXCEPT !.session = <<e, Fresh>>,
                                                                !.respEph = Fresh]]
    <3>1. Fresh \in Eph /\ <<e, Fresh>> \in Key /\ <<e, Fresh>> # NoKey
      BY <2>1, FreshIsEph, Basics DEF Key
    <3>2. Bound(conn[n], v) \in PeerConns /\ Bound(conn[n], v).queued = 0
      BY ConnTypes, BoundTypes
    <3>3. conn'[n] = Answering(Bound(conn[n], v), <<e, Fresh>>, Fresh)
      BY <1>a, <2>1 DEF Answering
    <3>4. conn'[n].session = <<e, Fresh>> /\ conn'[n].queued = 0
      BY <3>1, <3>2, <3>3, AnsweringTypes
    <3> QED BY <1>a, <2>1, <3>1, <3>4 DEF SessionStep, FirstSession, KeepsSession
  <2>2. CASE conn' = [conn EXCEPT ![n] = Upgraded(@, v)]
    BY <1>a, <2>2, ConnTypes, UpgradedTypes DEF SessionStep, KeepsSession
  <2> QED BY <1>1, <2>1, <2>2 DEF RecvInit
<1>2. ASSUME NEW e \in Eph, RecvResp(n, v, e) PROVE SessionStep
  <2>1. CASE /\ conn[n].session = NoKey /\ conn[n].eph # NoEph
             /\ conn' = [conn EXCEPT ![n] = [Bound(@, v) EXCEPT !.session = <<conn[n].eph, e>>]]
    <3>1. <<conn[n].eph, e>> \in Key /\ <<conn[n].eph, e>> # NoKey
      BY <2>1, ConnTypes, Basics DEF Key
    <3>2. Bound(conn[n], v) \in PeerConns /\ Bound(conn[n], v).queued = 0
      BY ConnTypes, BoundTypes
    <3>3. conn'[n].session = <<conn[n].eph, e>> /\ conn'[n].queued = 0
      BY <1>a, <2>1, <3>1, <3>2, SessionTypes
    <3> QED BY <1>a, <2>1, <3>1, <3>3 DEF SessionStep, FirstSession, KeepsSession
  <2>2. CASE conn' = [conn EXCEPT ![n] = Upgraded(@, v)]
    BY <1>a, <2>2, ConnTypes, UpgradedTypes DEF SessionStep, KeepsSession
  <2>3. CASE UNCHANGED conn
    BY <2>3 DEF SessionStep, KeepsSession
  <2> QED BY <1>2, <2>1, <2>2, <2>3 DEF RecvResp
<1>3. CASE RecvConnect(n)
  BY <1>3, ConnTypes, EnsureKeepsSession DEF RecvConnect
<1>4. ASSUME NEW m, RecvData(n, v, m) PROVE SessionStep
  <2>1. CASE conn' = [conn EXCEPT ![n].silence = 0]
    BY <1>a, <2>1 DEF SessionStep, KeepsSession, PeerConns
  <2>2. CASE UNCHANGED conn
    BY <2>2 DEF SessionStep, KeepsSession
  <2> QED BY <1>4, <2>1, <2>2 DEF RecvData
<1>5. CASE UNCHANGED conn
  BY <1>5 DEF SessionStep, KeepsSession
<1> QED
  BY <1>1, <1>2, <1>3, <1>4, <1>5 DEF RunReceiver, RecvUnknown, SendResp, SendPayloads

LEMMA EveryStepOfSession ==
  ASSUME TypeInv, [Next]_vars
  PROVE  SessionStep
<1>a. conn \in [Node -> PeerConns]
  BY DEF TypeInv, TypeOK
<1>u. CASE UNCHANGED conn
  BY <1>u DEF SessionStep, KeepsSession
<1>1. ASSUME NEW n \in Node, Send(n) PROVE SessionStep
  <2>1. CASE /\ conn[n].session = NoKey
             /\ EnsureConnecting(n, [conn[n] EXCEPT !.queued = IF @ < MaxQueue THEN @ + 1 ELSE @])
    <3> DEFINE c == [conn[n] EXCEPT !.queued = IF @ < MaxQueue THEN @ + 1 ELSE @]
    <3>1. c \in PeerConns /\ c.session = conn[n].session
      BY ConnTypes, Basics DEF PeerConns
    <3>2. EnsureConnecting(n, c)
      BY <2>1
    <3> HIDE DEF c
    <3> QED BY <2>1, <3>1, <3>2, EnsureKeepsSession
  <2> QED BY <1>1, <1>u, <2>1 DEF Send
<1>2. ASSUME NEW n \in Node, RunKeeper(n) PROVE SessionStep
  <2>1. CASE KeeperFailover(n)
    <3>1. conn[n].session # NoKey /\ conn[n] \in PeerConns
      BY <2>1, ConnTypes DEF KeeperFailover, TypeInv, SealsWithSession
    <3>2. EnsureConnecting(n, FailedOver(conn[n]))
      BY <2>1 DEF KeeperFailover
    <3> QED BY <3>1, <3>2, FailedOverTypes, EnsureKeepsSession
  <2>2. CASE KeeperRetry(n)
    BY <2>2, ConnTypes, EnsureKeepsSession DEF KeeperRetry
  <2> QED BY <1>2, <1>u, <2>1, <2>2 DEF RunKeeper, KeeperProbe, KeeperSilent
<1>3. ASSUME NEW n \in Node, NEW s \in Slots, RunWorker(n, s) PROVE SessionStep
  <2>1. CASE WorkerBegin(n, s)
    <3>1. \/ UNCHANGED conn
          \/ \E e : conn' = [conn EXCEPT ![n].eph = e]
      BY <2>1 DEF WorkerBegin
    <3> QED BY <1>a, <3>1 DEF SessionStep, KeepsSession, PeerConns
  <2>2. CASE WorkerRearm(n, s)
    <3>1. Rearmed(conn[n]).session = conn[n].session /\ Rearmed(conn[n]).queued = conn[n].queued
      BY ConnTypes DEF PeerConns, Rearmed
    <3>2. conn' = [conn EXCEPT ![n] = Rearmed(conn[n])]
      BY <2>2 DEF WorkerRearm
    <3> QED BY <1>a, <3>1, <3>2 DEF SessionStep, KeepsSession
  <2> QED BY <1>3, <1>u, <2>1, <2>2
          DEF RunWorker, WorkerPunch, WorkerRelayInit, WorkerReturn, WorkerGiveUp
<1>4. CASE Environment
  <2>1. CASE Tick
    <3>1. \A n \in Node : KeepsSession(n)
      BY <1>a, <2>1, TickKeeps DEF KeepsSession
    <3> QED BY <3>1 DEF SessionStep
  <2>2. ASSUME NEW n \in Node, Restart(n) PROVE SessionStep
    BY <1>a, <2>2 DEF Restart, SessionStep, KeepsSession
  <2> QED BY <1>4, <1>u, <2>1, <2>2 DEF Environment, PathDown, PathHeals, Learn
<1> QED BY <1>1, <1>2, <1>3, <1>4, <1>u, ReceiverSession DEF Next, vars

(* No payload waits behind a session: whoever makes the first session takes the   *)
(* queue with it, in the same step.                                          *)
THEOREM NothingIsStranded == Spec => []NothingStranded
<1>1. Init => NothingStranded
  BY DEF Init, NothingStranded, NewConn
<1>2. TypeInv /\ NothingStranded /\ [Next]_vars => NothingStranded'
  <2> SUFFICES ASSUME TypeInv, NothingStranded, [Next]_vars, NEW n \in Node,
                      conn'[n].session # NoKey
               PROVE  conn'[n].queued = 0
    BY DEF NothingStranded
  <2>1. KeepsSession(n) \/ FirstSession(n) \/ conn'[n] = NewConn
    BY EveryStepOfSession DEF SessionStep
  <2> QED BY <2>1 DEF NothingStranded, KeepsSession, FirstSession, NewConn
<1> QED BY <1>1, <1>2, InitTypes, NextTypes, PTL DEF Spec

(* A session, once there, stays as long as the process.                         *)
THEOREM SessionsAreKept == Spec => SessionKept
<1>1. TypeInv /\ [Next]_vars =>
        [\A n \in Node : conn[n].session # NoKey /\ conn'[n] # NewConn
            => conn'[n].session = conn[n].session]_vars
  BY EveryStepOfSession DEF SessionStep, KeepsSession, FirstSession
<1> QED BY <1>1, InitTypes, NextTypes, PTL DEF Spec, SessionKept

-----------------------------------------------------------------------------
(* WorkerArmed.  A step that leaves every node's `initiated` and "direct" as they  *)
(* are, and no worker newly idle, keeps it.                                   *)
LEMMA ArmedKept ==
  ASSUME WorkerArmed,
         \A n \in Node :
            \/ ~ conn'[n].initiated \/ conn'[n].transport = "direct"
            \/ \E s \in Slots : worker'[n][s].pc # "idle"
            \/ /\ conn[n].initiated /\ conn[n].transport # "direct"
               /\ \A s \in Slots : worker[n][s].pc # "idle" => worker'[n][s].pc # "idle"
  PROVE  WorkerArmed'
  BY DEF WorkerArmed

LEMMA EnsureArms ==
  ASSUME TypeInv, WorkerArmed, NEW n \in Node, NEW c \in PeerConns, EnsureConnecting(n, c),
         c.initiated => conn[n].initiated /\ c.transport = conn[n].transport
  PROVE  WorkerArmed'
<1>1. ASSUME NEW m \in Node, m # n, conn'[m].initiated, conn'[m].transport # "direct"
      PROVE  \E s \in Slots : worker'[m][s].pc # "idle"
  <2>1. conn'[m] = conn[m] /\ \A s \in Slots : worker[m][s].pc # "idle" => worker'[m][s].pc # "idle"
    BY <1>1, EnsureEffect
  <2> QED BY <1>1, <2>1 DEF WorkerArmed
<1>2. ASSUME conn'[n].initiated, conn'[n].transport # "direct"
      PROVE  \E s \in Slots : worker'[n][s].pc # "idle"
  <2>1. /\ conn'[n].transport = c.transport
        /\ \A s \in Slots : worker[n][s].pc # "idle" => worker'[n][s].pc # "idle"
        /\ c.initiated \/ \E s \in Slots : worker'[n][s].pc # "idle"
    BY EnsureEffect
  <2> QED BY <1>2, <2>1 DEF WorkerArmed
<1> QED BY <1>1, <1>2 DEF WorkerArmed

LEMMA ReceiverArmed ==
  ASSUME TypeInv, WorkerArmed, NEW n \in Node, NEW v \in Via, RunReceiver(n, v)
  PROVE  WorkerArmed'
<1>a. conn \in [Node -> PeerConns]
  BY DEF TypeInv, TypeOK
<1>u. CASE UNCHANGED <<conn, worker>>
  BY <1>u DEF WorkerArmed
(* A packet changes `initiated` never, and "direct" never to anything else but in  *)
(* bind_transport, which needs that there was no session, hence no path.        *)
<1>c. ASSUME NEW c, conn' = [conn EXCEPT ![n] = c], UNCHANGED worker,
             c.initiated = conn[n].initiated,
             c.transport = "direct" \/ conn[n].transport # "direct"
      PROVE  WorkerArmed'
  BY <1>a, <1>c DEF WorkerArmed
<1>1. ASSUME NEW e \in Eph, RecvInit(n, v, e) PROVE WorkerArmed'
  <2>1. CASE /\ conn[n].session = NoKey
             /\ CanGenerate
             /\ conn' = [conn EXCEPT ![n] = [Bound(@, v) EXCEPT !.session = <<e, Fresh>>,
                                                                !.respEph = Fresh]]
    <3> DEFINE c == Answering(Bound(conn[n], v), <<e, Fresh>>, Fresh)
    <3>1. Fresh \in Eph /\ <<e, Fresh>> \in Key
      BY <2>1, FreshIsEph DEF Key
    <3>2. Bound(conn[n], v) \in PeerConns /\ Bound(conn[n], v).initiated = conn[n].initiated
      BY ConnTypes, BoundTypes
    <3>3. c.initiated = conn[n].initiated
      BY <3>1, <3>2, AnsweringTypes
    <3>4. conn[n].transport # "direct"
      BY <2>1, ConnTypes
    <3>5. conn' = [conn EXCEPT ![n] = c] /\ UNCHANGED worker
      BY <1>1, <2>1 DEF RecvInit, Answering
    <3> HIDE DEF c
    <3> QED BY <1>c, <3>3, <3>4, <3>5
  <2>2. CASE conn' = [conn EXCEPT ![n] = Upgraded(@, v)]
    <3>1. UNCHANGED worker
      BY <1>1 DEF RecvInit
    <3> QED BY <1>c, <2>2, <3>1, ConnTypes, UpgradedTypes
  <2> QED BY <1>1, <2>1, <2>2 DEF RecvInit
<1>2. ASSUME NEW e \in Eph, RecvResp(n, v, e) PROVE WorkerArmed'
  <2>1. CASE /\ conn[n].session = NoKey /\ conn[n].eph # NoEph
             /\ conn' = [conn EXCEPT ![n] = [Bound(@, v) EXCEPT !.session = <<conn[n].eph, e>>]]
    <3> DEFINE c == [Bound(conn[n], v) EXCEPT !.session = <<conn[n].eph, e>>]
    <3>1. <<conn[n].eph, e>> \in Key
      BY <2>1, ConnTypes DEF Key
    <3>2. Bound(conn[n], v) \in PeerConns /\ Bound(conn[n], v).initiated = conn[n].initiated
      BY ConnTypes, BoundTypes
    <3>3. c.initiated = conn[n].initiated
      BY <3>1, <3>2, SessionTypes
    <3>4. conn[n].transport # "direct"
      BY <2>1, ConnTypes
    <3>5. conn' = [conn EXCEPT ![n] = c] /\ UNCHANGED worker
      BY <1>2, <2>1 DEF RecvResp
    <3> HIDE DEF c
    <3> QED BY <1>c, <3>3, <3>4, <3>5
  <2>2. CASE conn' = [conn EXCEPT ![n] = Upgraded(@, v)]
    <3>1. UNCHANGED worker
      BY <1>2 DEF RecvResp
    <3> QED BY <1>c, <2>2, <3>1, ConnTypes, UpgradedTypes
  <2>3. CASE UNCHANGED conn
    BY <1>2, <1>u, <2>3 DEF RecvResp
  <2> QED BY <1>2, <2>1, <2>2, <2>3 DEF RecvResp
<1>3. CASE RecvConnect(n)
  BY <1>3, ConnTypes, EnsureArms DEF RecvConnect
<1>4. ASSUME NEW m, RecvData(n, v, m) PROVE WorkerArmed'
  <2>1. CASE conn' = [conn EXCEPT ![n].silence = 0]
    <3> DEFINE c == [conn[n] EXCEPT !.silence = 0]
    <3>1. c.initiated = conn[n].initiated /\ c.transport = conn[n].transport
      BY ConnTypes DEF PeerConns
    <3>2. conn' = [conn EXCEPT ![n] = c] /\ UNCHANGED worker
      BY <1>4, <2>1 DEF RecvData
    <3> HIDE DEF c
    <3> QED BY <1>c, <3>1, <3>2
  <2>2. CASE UNCHANGED conn
    BY <1>4, <1>u, <2>2 DEF RecvData
  <2> QED BY <1>4, <2>1, <2>2 DEF RecvData
<1> QED
  BY <1>1, <1>2, <1>3, <1>4, <1>u DEF RunReceiver, RecvUnknown, SendResp, SendPayloads

LEMMA WorkerKeepsArmed ==
  ASSUME TypeInv, WorkerArmed, NEW n \in Node, NEW s \in Slots, RunWorker(n, s)
  PROVE  WorkerArmed'
<1>a. conn \in [Node -> PeerConns] /\ worker \in [Node -> [Slots -> Workers]]
  BY DEF TypeInv, TypeOK
<1>1. CASE WorkerBegin(n, s)
  <2>1. /\ \A m \in Node : /\ conn'[m].initiated = conn[m].initiated
                           /\ conn'[m].transport = conn[m].transport
        /\ worker'[n][s].pc = "loop"
        /\ \A m \in Node, t \in Slots : m # n \/ t # s => worker'[m][t] = worker[m][t]
    <3>1. /\ \/ UNCHANGED conn
             \/ \E e : conn' = [conn EXCEPT ![n].eph = e]
          /\ \/ \E e : worker' = [worker EXCEPT ![n][s].pc = "loop", ![n][s].body = e]
             \/ worker' = [worker EXCEPT ![n][s].pc = "loop", ![n][s].punched = TRUE]
      BY <1>1 DEF WorkerBegin
    <3>2. worker[n][s] \in Workers /\ conn[n] \in PeerConns
      BY <1>a
    <3>3. \A m \in Node : /\ conn'[m].initiated = conn[m].initiated
                          /\ conn'[m].transport = conn[m].transport
      BY <1>a, <3>1, <3>2 DEF PeerConns
    <3>4. worker'[n][s].pc = "loop"
      BY <1>a, <3>1, <3>2 DEF Workers
    <3>5. \A m \in Node, t \in Slots : m # n \/ t # s => worker'[m][t] = worker[m][t]
      BY <1>a, <3>1
    <3> QED BY <3>3, <3>4, <3>5
  <2> QED BY <2>1, ArmedKept
<1>2. CASE WorkerPunch(n, s) \/ WorkerRelayInit(n, s)
  <2>1. /\ conn' = conn
        /\ \A m \in Node, t \in Slots : worker'[m][t].pc = worker[m][t].pc
    <3>1. /\ conn' = conn
          /\ \/ worker' = [worker EXCEPT ![n][s].punched = TRUE]
             \/ worker' = [worker EXCEPT ![n][s].relayed = TRUE]
      BY <1>2 DEF WorkerPunch, WorkerRelayInit
    <3>2. worker[n][s] \in Workers
      BY <1>a
    <3>3. worker'[n][s].pc = worker[n][s].pc
      BY <1>a, <3>1, <3>2 DEF Workers
    <3>4. \A m \in Node, t \in Slots : m # n \/ t # s => worker'[m][t] = worker[m][t]
      BY <1>a, <3>1
    <3> QED BY <3>1, <3>3, <3>4
  <2> QED BY <2>1, ArmedKept
<1>3. CASE WorkerReturn(n, s) \/ WorkerGiveUp(n, s)
  <2>1. /\ conn' = conn
        /\ conn[n].transport = "direct" \/ worker'[n][s].pc = "rearm"
        /\ \A m \in Node, t \in Slots : m # n \/ t # s => worker'[m][t] = worker[m][t]
    BY <1>a, <1>3 DEF WorkerReturn, WorkerGiveUp, Workers
  <2> QED BY <2>1, ArmedKept
<1>4. CASE WorkerRearm(n, s)
  <2>1. Rearmed(conn[n]) \in PeerConns /\ ~ Rearmed(conn[n]).initiated
    BY ConnTypes DEF PeerConns, Rearmed
  <2>2. /\ conn' = [conn EXCEPT ![n] = Rearmed(conn[n])]
        /\ worker' = [worker EXCEPT ![n][s] = IdleWorker]
    BY <1>4 DEF WorkerRearm
  <2>3. /\ ~ conn'[n].initiated
        /\ \A m \in Node \ {n} : conn'[m] = conn[m] /\ worker'[m] = worker[m]
    BY <1>a, <2>1, <2>2
  <2> QED BY <2>3, ArmedKept
<1> QED BY <1>1, <1>2, <1>3, <1>4 DEF RunWorker

(* A node that counts as connecting and has no direct path has a worker at it.     *)
THEOREM WorkersAreArmed == Spec => []WorkerArmed
<1>1. Init => WorkerArmed
  BY DEF Init, WorkerArmed, NewConn
<1>2. TypeInv /\ WorkerArmed /\ [Next]_vars => WorkerArmed'
  <2> SUFFICES ASSUME TypeInv, WorkerArmed, [Next]_vars PROVE WorkerArmed'
    OBVIOUS
  <2>a. conn \in [Node -> PeerConns] /\ worker \in [Node -> [Slots -> Workers]]
    BY DEF TypeInv, TypeOK
  <2>u. CASE UNCHANGED <<conn, worker>>
    BY <2>u DEF WorkerArmed
  <2>1. ASSUME NEW n \in Node, Send(n) PROVE WorkerArmed'
    <3>1. CASE EnsureConnecting(n, [conn[n] EXCEPT !.queued = IF @ < MaxQueue THEN @ + 1 ELSE @])
      <4> DEFINE c == [conn[n] EXCEPT !.queued = IF @ < MaxQueue THEN @ + 1 ELSE @]
      <4>1. /\ c \in PeerConns /\ c.initiated = conn[n].initiated
            /\ c.transport = conn[n].transport
        BY ConnTypes, Basics DEF PeerConns
      <4>2. EnsureConnecting(n, c)
        BY <3>1
      <4> HIDE DEF c
      <4> QED BY <4>1, <4>2, EnsureArms
    <3> QED BY <2>1, <2>u, <3>1 DEF Send
  <2>2. ASSUME NEW n \in Node, RunKeeper(n) PROVE WorkerArmed'
    <3>1. CASE KeeperFailover(n)
      <4>1. conn[n].session # NoKey /\ conn[n] \in PeerConns
        BY <3>1, ConnTypes DEF KeeperFailover, TypeInv, SealsWithSession
      <4>2. EnsureConnecting(n, FailedOver(conn[n]))
        BY <3>1 DEF KeeperFailover
      <4> QED BY <4>1, <4>2, FailedOverTypes, EnsureArms
    <3>2. CASE KeeperRetry(n)
      BY <3>2, ConnTypes, EnsureArms DEF KeeperRetry
    <3> QED BY <2>2, <2>u, <3>1, <3>2 DEF RunKeeper, KeeperProbe, KeeperSilent
  <2>3. CASE Environment
    <3>1. CASE Tick
      <4>1. /\ UNCHANGED worker
            /\ \A n \in Node : conn'[n] = [conn[n] EXCEPT !.silence = IF @ <= SilenceLimit THEN @ + 1 ELSE @]
        BY <3>1 DEF Tick
      <4>2. \A n \in Node : /\ conn'[n].initiated = conn[n].initiated
                            /\ conn'[n].transport = conn[n].transport
        <5>1. \A n \in Node : conn[n] \in PeerConns
          BY <2>a
        <5> QED BY <4>1, <5>1 DEF PeerConns
      <4> QED BY <4>1, <4>2, ArmedKept
    <3>2. ASSUME NEW n \in Node, Restart(n) PROVE WorkerArmed'
      <4>1. /\ conn'[n] = NewConn
            /\ \A m \in Node \ {n} : conn'[m] = conn[m] /\ worker'[m] = worker[m]
        BY <2>a, <3>2 DEF Restart
      <4> QED BY <4>1, ArmedKept DEF NewConn
    <3> QED BY <2>3, <2>u, <3>1, <3>2 DEF Environment, PathDown, PathHeals, Learn
  <2> QED BY <2>1, <2>2, <2>3, <2>u, ReceiverArmed, WorkerKeepsArmed DEF Next, vars
<1> QED BY <1>1, <1>2, InitTypes, NextTypes, PTL DEF Spec

-----------------------------------------------------------------------------
(* ResponderHalfAgrees.  Only I sends INITs and only R answers them, and while no   *)
(* node restarts every answer, be it still to be sent, under way or in I's session, *)
(* carries the ephemeral that R derived its own session from.                    *)
Carries(n, m) == \/ [to |-> n, msg |-> m] \in udp
                 \/ \E i \in DOMAIN derp[n] : derp[n][i] = m

Answers(e) == conn[R].session # NoKey /\ e = conn[R].respEph

RolesKept ==
  /\ conn[R].eph = NoEph
  /\ \A v \in Via : after[I][v].resp = NoEph
  /\ \A m \in Message : Carries(I, m) => m.type # "init"
  /\ \A m \in Message : Carries(R, m) => m.type # "resp"

AnswersKept ==
  /\ conn[R].session # NoKey => conn[R].session[2] = conn[R].respEph
  /\ \A v \in Via : after[R][v].resp # NoEph => Answers(after[R][v].resp)
  /\ \A m \in Message : Carries(I, m) /\ m.type = "resp" => Answers(m.eph)
  /\ conn[I].session # NoKey => Answers(conn[I].session[2])

HalfInv == RolesKept /\ (~ left.restarted => AnswersKept)

(* What sending and receiving does to what is under way.                        *)
LEMMA UdpCarries ==
  ASSUME NEW n \in Node, NEW msgs, SendUdp(n, msgs), NEW k \in Node, NEW m, Carries(k, m)'
  PROVE  Carries(k, m) \/ (k = Peer(n) /\ m \in msgs)
  BY DEF Carries, SendUdp

LEMMA DerpCarries ==
  ASSUME NetTypes, NEW n \in Node, NEW msgs \in Seq(Message), SendDerp(n, msgs),
         NEW k \in Node, NEW m, Carries(k, m)'
  PROVE  Carries(k, m) \/ (k = Peer(n) /\ \E i \in DOMAIN msgs : m = msgs[i])
<1>1. CASE [to |-> k, msg |-> m] \in udp'
  BY <1>1 DEF Carries, SendDerp
<1>2. CASE \E i \in DOMAIN derp'[k] : derp'[k][i] = m
  <2>1. PICK i \in DOMAIN derp'[k] : derp'[k][i] = m
    BY <1>2
  <2>2. derp' = [derp EXCEPT ![Peer(n)] = @ \o msgs]
    BY DEF SendDerp
  <2>3. CASE k # Peer(n)
    BY <2>1, <2>2, <2>3 DEF NetTypes, Carries
  <2>4. CASE k = Peer(n)
    <3>1. derp[k] \in Seq(Message) /\ derp'[k] = derp[k] \o msgs
      BY <2>2, <2>4 DEF NetTypes
    <3>2. CASE i <= Len(derp[k])
      BY <2>1, <3>1, <3>2 DEF Carries
    <3>3. CASE i > Len(derp[k])
      <4>1. i - Len(derp[k]) \in DOMAIN msgs /\ msgs[i - Len(derp[k])] = m
        BY <2>1, <3>1, <3>3
      <4> QED BY <2>4, <4>1
    <3> QED BY <2>1, <3>1, <3>2, <3>3
  <2> QED BY <2>3, <2>4
<1> QED BY <1>1, <1>2 DEF Carries

LEMMA DerpCarriesOne ==
  ASSUME NetTypes, NEW n \in Node, NEW q \in Message, SendDerp(n, <<q>>),
         NEW k \in Node, NEW m, Carries(k, m)'
  PROVE  Carries(k, m) \/ (k = Peer(n) /\ m = q)
<1> DEFINE msgs == <<q>>
<1>1. msgs \in Seq(Message) /\ SendDerp(n, msgs) /\ \A i \in DOMAIN msgs : msgs[i] = q
  OBVIOUS
<1> HIDE DEF msgs
<1>2. Carries(k, m) \/ (k = Peer(n) /\ \E i \in DOMAIN msgs : m = msgs[i])
  BY <1>1, DerpCarries
<1> QED BY <1>1, <1>2

LEMMA TransmitCarries ==
  ASSUME NetTypes, NEW n \in Node, NEW kinds \in Seq(Kinds), conn[n].session \in Key,
         Transmit(n, kinds), NEW k \in Node, NEW m, Carries(k, m)'
  PROVE  Carries(k, m) \/ m.type = "data"
<1>1. \A i \in DOMAIN kinds : Sealed(n, kinds)[i].type = "data"
  BY DEF Sealed, Data
<1>2. \A i \in DOMAIN kinds : Sealed(n, kinds)[i] \in Message
  BY MessageTypes DEF Sealed
<1>3. Sealed(n, kinds) \in Seq(Message) /\ DOMAIN Sealed(n, kinds) = DOMAIN kinds
  BY <1>2 DEF Sealed
<1>4. CASE conn[n].transport = "direct"
  <2>1. SendUdp(n, {Sealed(n, kinds)[i] : i \in DOMAIN kinds})
    BY <1>4 DEF Transmit
  <2> QED BY <1>1, <2>1, UdpCarries
<1>5. CASE conn[n].transport # "direct"
  <2>1. SendDerp(n, Sealed(n, kinds))
    BY <1>5 DEF Transmit
  <2> QED BY <1>1, <1>3, <2>1, DerpCarries
<1> QED BY <1>4, <1>5

LEMMA ReceiveCarries ==
  ASSUME NetTypes, NEW n \in Node, NEW v \in Via, NEW m, Receive(n, v, m)
  PROVE  /\ Carries(n, m)
         /\ \A k \in Node : \A q : Carries(k, q)' => Carries(k, q)
<1>1. CASE v = "udp"
  BY <1>1 DEF Receive, Carries
<1>2. CASE v # "udp"
  <2>1. /\ derp[n] \in Seq(Message) /\ derp[n] # <<>> /\ m = Head(derp[n])
        /\ derp' = [derp EXCEPT ![n] = Tail(@)] /\ UNCHANGED udp
    BY <1>2 DEF NetTypes, Receive
  <2>2. 1 \in DOMAIN derp[n] /\ derp[n][1] = m
    BY <2>1
  <2>3. \A i \in DOMAIN Tail(derp[n]) :
           i + 1 \in DOMAIN derp[n] /\ Tail(derp[n])[i] = derp[n][i + 1]
    BY <2>1
  <2>4. \A k \in Node : derp'[k] = IF k = n THEN Tail(derp[n]) ELSE derp[k]
    BY <2>1 DEF NetTypes
  <2> QED BY <2>1, <2>2, <2>3, <2>4 DEF Carries
<1> QED BY <1>1, <1>2

(* A step in which R makes no session keeps the invariant when what is new follows  *)
(* from what was there: a session of I from an answer that came in, an answer from    *)
(* R's session, and an answer on its way from one that was to be sent.            *)
OldConns ==
  /\ conn'[R].session = conn[R].session /\ conn'[R].respEph = conn[R].respEph
  /\ conn'[R].eph = conn[R].eph \/ conn'[R].eph = NoEph
  /\ \/ conn'[I].session = conn[I].session
     \/ \E m \in Message : /\ Carries(I, m) /\ m.type = "resp"
                           /\ conn'[I].session[2] = m.eph

OldAnswers ==
  \A n \in Node, v \in Via :
    \/ after'[n][v].resp = after[n][v].resp \/ after'[n][v].resp = NoEph
    \/ n = R /\ conn[R].session # NoKey /\ after'[n][v].resp = conn[R].respEph

OldPackets ==
  \A k \in Node : \A m \in Message :
     Carries(k, m)' =>
       \/ Carries(k, m) \/ m.type \notin {"init", "resp"}
       \/ k = R /\ m.type = "init"
       \/ /\ k = I /\ m.type = "resp"
          /\ \E v \in Via : after[R][v].resp # NoEph /\ m.eph = after[R][v].resp

LEMMA HalfKept ==
  ASSUME HalfInv, OldConns, OldAnswers, OldPackets, left'.restarted = left.restarted
  PROVE  HalfInv'
<1>1. RolesKept'
  BY Basics DEF HalfInv, RolesKept, OldConns, OldAnswers, OldPackets
<1>2. ASSUME ~ left'.restarted PROVE AnswersKept'
  <2>1. AnswersKept
    BY <1>2 DEF HalfInv
  <2>2. \A e : Answers(e) => Answers(e)'
    BY Basics DEF Answers, OldConns
  <2>3. \A m \in Message : Carries(I, m)' /\ m.type = "resp" => Answers(m.eph)
    BY <2>1, Basics DEF AnswersKept, OldPackets
  <2>4. conn'[R].session # NoKey => conn'[R].session[2] = conn'[R].respEph
    BY <2>1, Basics DEF AnswersKept, OldConns
  <2>5. \A v \in Via : after'[R][v].resp # NoEph => Answers(after[R][v].resp)'
    BY <2>1, Basics DEF AnswersKept, OldConns, OldAnswers, Answers
  <2>6. \A m \in Message : Carries(I, m)' /\ m.type = "resp" => Answers(m.eph)'
    BY <2>2, <2>3
  <2>7. conn'[I].session # NoKey => Answers(conn[I].session[2])'
    BY <2>1, Basics DEF AnswersKept, OldConns, Answers
  <2> QED BY <2>4, <2>5, <2>6, <2>7 DEF AnswersKept
<1> QED BY <1>1, <1>2 DEF HalfInv

LEMMA EnsureOld ==
  ASSUME TypeInv, NEW n \in Node, NEW c \in PeerConns, EnsureConnecting(n, c),
         c.session = conn[n].session, c.respEph = conn[n].respEph,
         c.eph = conn[n].eph \/ c.eph = NoEph
  PROVE  OldConns
  BY EnsureEffect, Basics DEF OldConns

LEMMA UnchangedNet == UNCHANGED net => OldPackets
  BY DEF net, OldPackets, Carries

LEMMA UnchangedConns == UNCHANGED conn => OldConns
  BY DEF OldConns

LEMMA UnchangedAfter == UNCHANGED after => OldAnswers
  BY DEF OldAnswers

(* The packet being handled: what it says of the two roles.                      *)
LEMMA ReceiveOld ==
  ASSUME TypeInv, HalfInv, NEW n \in Node, NEW v \in Via, NEW m, Receive(n, v, m)
  PROVE  /\ OldPackets /\ Carries(n, m) /\ m \in Message
         /\ m.type = "init" => n = R
         /\ m.type = "resp" => n = I
<1>1. /\ NetTypes /\ m \in Message
  BY ReceiveTypes, TypesOfNet DEF TypeInv
<1>2. Carries(n, m) /\ OldPackets
  BY <1>1, ReceiveCarries DEF OldPackets
<1> QED BY <1>1, <1>2 DEF HalfInv, RolesKept, Node

LEMMA SenderHalf ==
  ASSUME TypeInv, HalfInv, NEW n \in Node, Send(n)
  PROVE  HalfInv'
<1>a. /\ left' = [left EXCEPT !.sends = @ - 1] /\ left \in Remaining /\ UNCHANGED after
  BY LeftTypes DEF Send
<1>1. left'.restarted = left.restarted
  BY <1>a DEF Remaining
<1>2. OldAnswers
  BY <1>a, UnchangedAfter
<1>3. CASE conn[n].session # NoKey /\ Transmit(n, <<"app">>) /\ UNCHANGED conn
  <2>1. <<"app">> \in Seq(Kinds) /\ conn[n].session \in Key /\ NetTypes
    BY <1>3, SessionIsKey, TypesOfNet DEF Kinds, TypeInv
  <2>2. OldPackets
    BY <1>3, <2>1, TransmitCarries DEF OldPackets
  <2> QED BY <1>1, <1>2, <1>3, <2>2, UnchangedConns, HalfKept
<1>4. CASE /\ EnsureConnecting(n, [conn[n] EXCEPT !.queued = IF @ < MaxQueue THEN @ + 1 ELSE @])
           /\ UNCHANGED net
  <2> DEFINE c == [conn[n] EXCEPT !.queued = IF @ < MaxQueue THEN @ + 1 ELSE @]
  <2>1. /\ c \in PeerConns /\ c.session = conn[n].session
        /\ c.respEph = conn[n].respEph /\ c.eph = conn[n].eph
    BY ConnTypes, Basics DEF PeerConns
  <2>2. EnsureConnecting(n, c)
    BY <1>4
  <2> HIDE DEF c
  <2>3. OldConns
    BY <2>1, <2>2, EnsureOld
  <2> QED BY <1>1, <1>2, <1>4, <2>3, UnchangedNet, HalfKept
<1> QED BY <1>3, <1>4 DEF Send

LEMMA WorkerHalf ==
  ASSUME TypeInv, HalfInv, NEW n \in Node, NEW s \in Slots, RunWorker(n, s)
  PROVE  HalfInv'
<1>a. conn \in [Node -> PeerConns] /\ NetTypes /\ left \in Remaining
  BY LeftTypes, TypesOfNet DEF TypeInv, TypeOK
<1>1. CASE WorkerBegin(n, s)
  <2>1. left'.restarted = left.restarted /\ OldAnswers
    BY <1>1, <1>a, UnchangedAfter DEF WorkerBegin, Remaining
  <2>2. OldConns
    <3>1. \/ UNCHANGED conn
          \/ n = I /\ \E e : conn' = [conn EXCEPT ![n].eph = e]
      BY <1>1 DEF WorkerBegin, AmInitiator
    <3> QED BY <1>a, <3>1, Basics, UnchangedConns DEF OldConns, PeerConns
  <2>3. OldPackets
    <3>1. SendDerp(n, <<Connect>>) /\ Connect \in Message
      BY <1>1, MessageTypes DEF WorkerBegin, Nudge
    <3>2. Connect.type \notin {"init", "resp"}
      BY DEF Connect
    <3> QED BY <1>a, <3>1, <3>2, DerpCarriesOne DEF OldPackets
  <2> QED BY <2>1, <2>2, <2>3, HalfKept
<1>2. CASE WorkerPunch(n, s) \/ WorkerRelayInit(n, s)
  <2> DEFINE m == InitMsg(worker[n][s].body)
  <2>1. /\ n = I /\ worker[n][s].pc = "loop" /\ UNCHANGED <<conn, after, left>>
        /\ SendUdp(n, {m}) \/ SendDerp(n, <<m>>)
    BY <1>2 DEF WorkerPunch, WorkerRelayInit, AmInitiator
  <2>2. m \in Message /\ m.type = "init"
    BY <2>1, MessageTypes DEF TypeInv, InitsCarryKey, AmInitiator, InitMsg
  <2>3. Peer(n) = R
    BY <2>1 DEF Peer
  <2> HIDE DEF m
  <2>4. OldPackets
    <3> SUFFICES ASSUME NEW k \in Node, NEW q \in Message, Carries(k, q)'
                 PROVE  Carries(k, q) \/ (k = R /\ q = m)
      BY <2>2 DEF OldPackets
    <3>1. CASE SendUdp(n, {m})
      BY <2>3, <3>1, UdpCarries
    <3>2. CASE SendDerp(n, <<m>>)
      BY <1>a, <2>2, <2>3, <3>2, DerpCarriesOne
    <3> QED BY <2>1, <3>1, <3>2
  <2> QED BY <2>1, <2>4, UnchangedConns, UnchangedAfter, HalfKept
<1>3. CASE WorkerReturn(n, s) \/ WorkerGiveUp(n, s)
  BY <1>3, UnchangedConns, UnchangedAfter, UnchangedNet, HalfKept DEF WorkerReturn, WorkerGiveUp
<1>4. CASE WorkerRearm(n, s)
  <2>1. /\ conn' = [conn EXCEPT ![n] = Rearmed(conn[n])] /\ UNCHANGED <<after, net, left>>
    BY <1>4 DEF WorkerRearm
  <2>2. /\ Rearmed(conn[n]).session = conn[n].session
        /\ Rearmed(conn[n]).respEph = conn[n].respEph
        /\ Rearmed(conn[n]).eph = conn[n].eph \/ Rearmed(conn[n]).eph = NoEph
    BY ConnTypes DEF PeerConns, Rearmed
  <2>3. OldConns
    BY <1>a, <2>1, <2>2 DEF OldConns
  <2> QED BY <2>1, <2>3, UnchangedAfter, UnchangedNet, HalfKept
<1> QED BY <1>1, <1>2, <1>3, <1>4 DEF RunWorker

LEMMA KeeperHalf ==
  ASSUME TypeInv, HalfInv, NEW n \in Node, RunKeeper(n)
  PROVE  HalfInv'
<1>1. CASE KeeperProbe(n)
  <2>1. /\ conn[n].transport = "direct" /\ Transmit(n, <<"keepalive">>)
        /\ UNCHANGED <<conn, after, left>>
    BY <1>1 DEF KeeperProbe
  <2>2. <<"keepalive">> \in Seq(Kinds) /\ conn[n].session \in Key /\ NetTypes
    BY <2>1, ConnTypes, SessionIsKey, TypesOfNet DEF Kinds, TypeInv
  <2>3. OldPackets
    BY <2>1, <2>2, TransmitCarries DEF OldPackets
  <2> QED BY <2>1, <2>3, UnchangedConns, UnchangedAfter, HalfKept
<1>2. CASE KeeperSilent(n)
  BY <1>2, UnchangedConns, UnchangedAfter, UnchangedNet, HalfKept DEF KeeperSilent
<1>3. CASE KeeperFailover(n)
  <2>1. conn[n].session # NoKey /\ conn[n] \in PeerConns
    BY <1>3, ConnTypes DEF KeeperFailover, TypeInv, SealsWithSession
  <2>2. EnsureConnecting(n, FailedOver(conn[n])) /\ UNCHANGED <<after, net, left>>
    BY <1>3 DEF KeeperFailover
  <2>3. /\ FailedOver(conn[n]) \in PeerConns
        /\ FailedOver(conn[n]).session = conn[n].session
        /\ FailedOver(conn[n]).respEph = conn[n].respEph
        /\ FailedOver(conn[n]).eph = NoEph
    BY <2>1, FailedOverTypes DEF FailedOver, PeerConns
  <2>4. OldConns
    BY <2>2, <2>3, EnsureOld
  <2> QED BY <2>2, <2>4, UnchangedAfter, UnchangedNet, HalfKept
<1>4. CASE KeeperRetry(n)
  <2>1. OldConns /\ UNCHANGED <<after, net, left>>
    BY <1>4, ConnTypes, EnsureOld DEF KeeperRetry
  <2> QED BY <2>1, UnchangedAfter, UnchangedNet, HalfKept
<1> QED BY <1>1, <1>2, <1>3, <1>4 DEF RunKeeper

(* The first session of R: there was no answer yet, and so no session of I.        *)
LEMMA FirstAnswer ==
  ASSUME TypeInv, HalfInv, NEW v \in Via, NEW e \in Eph, RecvInit(R, v, e),
         conn[R].session = NoKey
  PROVE  HalfInv'
<1>a. /\ conn \in [Node -> PeerConns] /\ after \in [Node -> [Via -> Afters]]
      /\ conn[R] \in PeerConns /\ R \in Node /\ I \in Node /\ I # R
  BY Basics DEF TypeInv, TypeOK
<1>b. /\ CanGenerate
      /\ conn' = [conn EXCEPT ![R] = [Bound(@, v) EXCEPT !.session = <<e, Fresh>>,
                                                         !.respEph = Fresh]]
      /\ after' = [after EXCEPT ![R][v] = [resp |-> Fresh, out |-> Payloads(conn[R].queued)]]
      /\ Receive(R, v, InitMsg(e)) /\ UNCHANGED left
  BY DEF RecvInit
<1>1. PICK f \in Eph : f = Fresh /\ <<e, f>> \in Key
  BY <1>b, FreshIsEph DEF Key
<1>2. conn' = [conn EXCEPT ![R] = Answering(Bound(conn[R], v), <<e, f>>, f)]
  BY <1>a, <1>b, <1>1 DEF Answering
<1>3. /\ after'[R][v].resp = f /\ after'[I] = after[I]
      /\ \A w \in Via : w # v => after'[R][w] = after[R][w]
  BY <1>a, <1>b, <1>1
<1>4. /\ conn'[R].session = <<e, f>> /\ conn'[R].respEph = f
      /\ conn'[R].eph = conn[R].eph /\ conn'[I] = conn[I]
  <2>1. Bound(conn[R], v) \in PeerConns /\ Bound(conn[R], v).eph = conn[R].eph
    BY <1>a, BoundTypes
  <2>2. conn'[R] = Answering(Bound(conn[R], v), <<e, f>>, f) /\ conn'[I] = conn[I]
    BY <1>a, <1>2
  <2> QED BY <1>1, <2>1, <2>2, AnsweringTypes
<1>5. \A k \in Node : \A m \in Message : Carries(k, m)' => Carries(k, m)
  BY <1>a, <1>b, ReceiveCarries, TypesOfNet DEF TypeInv
<1>6. RolesKept'
  BY <1>3, <1>4, <1>5, <1>a DEF HalfInv, RolesKept
<1>7. ASSUME ~ left'.restarted PROVE AnswersKept'
  <2>1. AnswersKept
    BY <1>7, <1>b DEF HalfInv
  <2>2. \A x : ~ Answers(x)
    BY DEF Answers
  <2>3. /\ conn[I].session = NoKey
        /\ \A w \in Via : after[R][w].resp = NoEph
        /\ \A m \in Message : Carries(I, m) => m.type # "resp"
    BY <2>1, <2>2 DEF AnswersKept
  <2>4. Answers(f)'
    BY <1>1, <1>4, Basics DEF Answers
  <2>5. \A w \in Via : after'[R][w].resp # NoEph => after'[R][w].resp = f
    BY <1>3, <2>3
  <2>6. \A w \in Via : after'[R][w].resp # NoEph => Answers(after[R][w].resp)'
    BY <2>4, <2>5 DEF Answers
  <2>7. conn'[I].session = NoKey /\ \A m \in Message : Carries(I, m)' => m.type # "resp"
    BY <1>4, <1>5, <1>a, <2>3
  <2> QED BY <1>4, <2>6, <2>7 DEF AnswersKept
<1> QED BY <1>6, <1>7 DEF HalfInv

LEMMA OutAnswers ==
  ASSUME TypeInv, NEW n \in Node, NEW v \in Via,
         UNCHANGED after \/ \E o : after' = [after EXCEPT ![n][v].out = o]
  PROVE  OldAnswers
<1>1. CASE UNCHANGED after
  BY <1>1, UnchangedAfter
<1>2. ASSUME NEW o, after' = [after EXCEPT ![n][v].out = o] PROVE OldAnswers
  <2> DEFINE a == [after[n][v] EXCEPT !.out = o]
  <2>1. after[n][v] \in Afters /\ after \in [Node -> [Via -> Afters]]
    BY DEF TypeInv, TypeOK
  <2>2. a.resp = after[n][v].resp
    BY <2>1 DEF Afters
  <2>3. after' = [after EXCEPT ![n][v] = a]
    BY <1>2, <2>1
  <2> HIDE DEF a
  <2> QED BY <2>1, <2>2, <2>3 DEF OldAnswers
<1> QED BY <1>1, <1>2

LEMMA ReceiverHalf ==
  ASSUME TypeInv, HalfInv, NEW n \in Node, NEW v \in Via, RunReceiver(n, v)
  PROVE  HalfInv'
<1>a. /\ conn \in [Node -> PeerConns] /\ after \in [Node -> [Via -> Afters]]
      /\ NetTypes /\ conn[n] \in PeerConns
  BY TypesOfNet DEF TypeInv, TypeOK
<1>1. ASSUME NEW e \in Eph, RecvInit(n, v, e) PROVE HalfInv'
  <2>1. Receive(n, v, InitMsg(e)) /\ UNCHANGED left /\ InitMsg(e).type = "init"
    BY <1>1 DEF RecvInit, InitMsg
  <2>2. OldPackets /\ n = R
    BY <2>1, ReceiveOld
  <2>3. CASE conn[n].session = NoKey
    BY <1>1, <2>2, <2>3, FirstAnswer
  <2>4. CASE conn[n].session # NoKey
    <3>1. /\ conn' = [conn EXCEPT ![n] = Upgraded(@, v)]
          /\ after' = [after EXCEPT ![n][v].resp = conn[n].respEph]
      BY <1>1, <2>4 DEF RecvInit, AnswerEph
    <3>2. OldConns
      BY <1>a, <2>2, <3>1, Basics, UpgradedTypes DEF OldConns
    <3>3. OldAnswers
      <4>1. after[n][v] \in Afters
        BY <1>a
      <4> QED BY <1>a, <2>2, <2>4, <3>1, <4>1 DEF OldAnswers, Afters
    <3> QED BY <2>1, <2>2, <3>2, <3>3, HalfKept
  <2> QED BY <2>3, <2>4
<1>2. ASSUME NEW e \in Eph, RecvResp(n, v, e) PROVE HalfInv'
  <2>1. /\ Receive(n, v, RespMsg(e)) /\ UNCHANGED left
        /\ RespMsg(e).type = "resp" /\ RespMsg(e).eph = e
    BY <1>2 DEF RecvResp, RespMsg
  <2>2. OldPackets /\ n = I /\ Carries(I, RespMsg(e)) /\ RespMsg(e) \in Message
    BY <2>1, ReceiveOld
  <2>3. OldAnswers
    BY <1>2, OutAnswers DEF RecvResp
  <2>4. CASE /\ conn[n].session = NoKey /\ conn[n].eph # NoEph
             /\ conn' = [conn EXCEPT ![n] = [Bound(@, v) EXCEPT !.session = <<conn[n].eph, e>>]]
    <3>1. <<conn[n].eph, e>> \in Key /\ Bound(conn[n], v) \in PeerConns
      BY <2>4, ConnTypes, BoundTypes DEF Key
    <3>2. conn'[n] = [Bound(conn[n], v) EXCEPT !.session = <<conn[n].eph, e>>]
      BY <1>a, <2>4
    <3>3. conn'[I].session = <<conn[n].eph, e>> /\ conn'[R] = conn[R]
      BY <1>a, <2>2, <2>4, <3>1, <3>2, Basics, SessionTypes
    <3>4. OldConns
      BY <2>1, <2>2, <3>3 DEF OldConns
    <3> QED BY <2>1, <2>2, <2>3, <3>4, HalfKept
  <2>5. CASE conn' = [conn EXCEPT ![n] = Upgraded(@, v)]
    <3>1. OldConns
      BY <1>a, <2>2, <2>5, Basics, UpgradedTypes DEF OldConns
    <3> QED BY <2>1, <2>2, <2>3, <3>1, HalfKept
  <2>6. CASE UNCHANGED conn
    BY <2>1, <2>2, <2>3, <2>6, UnchangedConns, HalfKept
  <2> QED BY <1>2, <2>4, <2>5, <2>6 DEF RecvResp
<1>3. CASE RecvConnect(n)
  <2>1. OldConns /\ UNCHANGED <<after, left>> /\ Receive(n, "derp", Connect)
    BY <1>3, ConnTypes, EnsureOld DEF RecvConnect
  <2>2. OldPackets
    BY <2>1, ReceiveOld DEF Via
  <2> QED BY <2>1, <2>2, UnchangedAfter, HalfKept
<1>4. ASSUME NEW m, RecvData(n, v, m) PROVE HalfInv'
  <2>1. OldPackets /\ UNCHANGED left
    BY <1>4, ReceiveOld DEF RecvData
  <2>2. OldConns
    <3>1. UNCHANGED conn \/ conn' = [conn EXCEPT ![n].silence = 0]
      BY <1>4 DEF RecvData
    <3> QED BY <1>a, <3>1, UnchangedConns, Basics DEF OldConns, PeerConns
  <2>3. OldAnswers
    BY <1>4, OutAnswers DEF RecvData
  <2> QED BY <2>1, <2>2, <2>3, HalfKept
<1>5. ASSUME NEW m, RecvUnknown(n, v, m) PROVE HalfInv'
  <2>1. OldPackets /\ UNCHANGED <<conn, after, left>>
    BY <1>5, ReceiveOld DEF RecvUnknown
  <2> QED BY <2>1, UnchangedConns, UnchangedAfter, HalfKept
<1>6. CASE SendResp(n, v)
  <2> DEFINE m == RespMsg(after[n][v].resp)
  <2>1. /\ after[n][v].resp # NoEph /\ UNCHANGED <<conn, left>>
        /\ SendUdp(n, {m}) \/ SendDerp(n, <<m>>)
        /\ after' = [after EXCEPT ![n][v].resp = NoEph]
    BY <1>6 DEF SendResp
  <2>2. n = R /\ Peer(n) = I
    BY <2>1, Basics DEF HalfInv, RolesKept, Node, Peer
  <2>3. after[n][v].resp \in Eph
    BY <1>a, <2>1 DEF Afters
  <2>4. m \in Message /\ m.type = "resp" /\ m.eph = after[R][v].resp
    BY <2>2, <2>3, MessageTypes DEF RespMsg
  <2>5. OldAnswers
    <3>1. after[n][v] \in Afters
      BY <1>a
    <3> QED BY <1>a, <2>1, <3>1 DEF OldAnswers, Afters
  <2> HIDE DEF m
  <2>6. \A k \in Node : \A q \in Message : Carries(k, q)' => Carries(k, q) \/ (k = I /\ q = m)
    BY <1>a, <2>1, <2>2, <2>4, UdpCarries, DerpCarriesOne
  <2>7. OldPackets
    BY <2>1, <2>2, <2>4, <2>6 DEF OldPackets
  <2> QED BY <2>1, <2>5, <2>7, UnchangedConns, HalfKept
<1>7. CASE SendPayloads(n, v)
  <2>1. /\ after[n][v].out # <<>> /\ Transmit(n, after[n][v].out)
        /\ after' = [after EXCEPT ![n][v] = Nothing] /\ UNCHANGED <<conn, left>>
    BY <1>7 DEF SendPayloads
  <2>2. after[n][v].out \in Seq(Kinds) /\ conn[n].session \in Key
    BY <2>1, AfterTypes, SessionIsKey DEF TypeInv, SealsWithSession, Kinds
  <2>3. OldPackets
    BY <1>a, <2>1, <2>2, TransmitCarries DEF OldPackets
  <2>4. OldAnswers
    BY <1>a, <2>1 DEF OldAnswers, Nothing
  <2> QED BY <2>1, <2>3, <2>4, UnchangedConns, HalfKept
<1> QED BY <1>1, <1>2, <1>3, <1>4, <1>5, <1>6, <1>7 DEF RunReceiver

LEMMA EnvironmentHalf ==
  ASSUME TypeInv, HalfInv, Environment
  PROVE  HalfInv'
<1>a. /\ conn \in [Node -> PeerConns] /\ after \in [Node -> [Via -> Afters]]
      /\ NetTypes /\ left \in Remaining
  BY TypesOfNet, LeftTypes DEF TypeInv, TypeOK
<1>1. CASE Tick
  <2>1. /\ UNCHANGED <<after, net>>
        /\ left' = [left EXCEPT !.upsets = IF Timely THEN @ ELSE @ - 1,
                                !.sends = IF SendsPerTick THEN MaxSends ELSE @]
        /\ \A n \in Node : conn'[n] = [conn[n] EXCEPT !.silence = IF @ <= SilenceLimit THEN @ + 1 ELSE @]
    BY <1>1 DEF Tick
  <2>2. left'.restarted = left.restarted
    BY <1>a, <2>1 DEF Remaining
  <2>3. OldConns
    <3>1. \A n \in Node : conn[n] \in PeerConns
      BY <1>a
    <3>2. \A n \in Node : /\ conn'[n].session = conn[n].session
                          /\ conn'[n].respEph = conn[n].respEph /\ conn'[n].eph = conn[n].eph
      BY <2>1, <3>1 DEF PeerConns
    <3> QED BY <3>2, Basics DEF OldConns
  <2> QED BY <2>1, <2>2, <2>3, UnchangedAfter, UnchangedNet, HalfKept
<1>2. ASSUME UNCHANGED <<conn, after, net>>, left'.restarted = left.restarted PROVE HalfInv'
  BY <1>2, UnchangedConns, UnchangedAfter, UnchangedNet, HalfKept
<1>3. ASSUME NEW n \in Node, Restart(n) PROVE HalfInv'
  <2>1. /\ left' = [left EXCEPT !.upsets = @ - 1, !.restarted = TRUE]
        /\ conn' = [conn EXCEPT ![n] = NewConn]
        /\ after' = [after EXCEPT ![n] = [v \in Via |-> Nothing]]
        /\ derp' = [derp EXCEPT ![n] = <<>>] /\ UNCHANGED udp
    BY <1>3 DEF Restart
  <2>2. left'.restarted
    BY <1>a, <2>1 DEF Remaining
  <2>3. \A k \in Node : \A m \in Message : Carries(k, m)' => Carries(k, m)
    <3>1. \A k \in Node : derp'[k] = IF k = n THEN <<>> ELSE derp[k]
      BY <1>a, <2>1 DEF NetTypes
    <3> QED BY <2>1, <3>1 DEF Carries
  <2>4. conn'[R].eph = NoEph /\ \A v \in Via : after'[I][v].resp = NoEph
    BY <1>a, <2>1, Basics DEF HalfInv, RolesKept, NewConn, Nothing
  <2> QED BY <2>2, <2>3, <2>4, Basics DEF HalfInv, RolesKept
<1>4. CASE PathDown
  <2>1. left' = [left EXCEPT !.outages = @ - 1] /\ UNCHANGED <<conn, after, net>>
    BY <1>4 DEF PathDown
  <2> QED BY <1>2, <1>a, <2>1 DEF Remaining
<1> QED BY <1>1, <1>2, <1>3, <1>4 DEF Environment, PathHeals, Learn

LEMMA InitHalf == Init => HalfInv
  BY Basics DEF Init, HalfInv, RolesKept, AnswersKept, Carries, NewConn, Nothing

LEMMA NextHalf ==
  ASSUME TypeInv, HalfInv, [Next]_vars PROVE HalfInv'
<1>1. CASE UNCHANGED vars
  BY <1>1, UnchangedConns, UnchangedAfter, UnchangedNet, HalfKept DEF vars, net
<1> QED BY <1>1, SenderHalf, KeeperHalf, WorkerHalf, ReceiverHalf, EnvironmentHalf DEF Next

(* Short of restarts, sessions of both nodes share the responder's ephemeral.      *)
THEOREM ResponderHalvesAgree == Spec => []ResponderHalfAgrees
<1>1. TypeInv /\ HalfInv /\ [Next]_vars => HalfInv'
  BY NextHalf
<1>2. HalfInv => ResponderHalfAgrees
  BY DEF HalfInv, AnswersKept, Answers, ResponderHalfAgrees
<1> QED BY <1>1, <1>2, InitHalf, InitTypes, NextTypes, PTL DEF Spec

-----------------------------------------------------------------------------
(* KeysAgree.  The initiator's attempt: until I has a session, its workers and     *)
(* its INITs carry the ephemeral it holds, and so does the session R made of one.   *)
(* That is lost only when a node restarts or I forgets the ephemeral.            *)
LoopsAgree ==
  conn[I].session = NoKey =>
    \A s \in Slots : worker[I][s].pc = "loop" => worker[I][s].body = conn[I].eph

InitsAgree ==
  conn[I].session = NoKey =>
    \A m \in Message : Carries(R, m) /\ m.type = "init" => m.eph = conn[I].eph

DerivedAgree ==
  conn[R].session # NoKey =>
    IF conn[I].session = NoKey THEN conn[R].session[1] = conn[I].eph
                               ELSE conn[I].session = conn[R].session

AgreeInv == LoopsAgree /\ InitsAgree /\ DerivedAgree

Forgets ==
  conn[I].session = NoKey /\ conn[I].eph # NoEph /\ conn'[I].eph # conn[I].eph

(* What a step may do that keeps this: to I's PeerConn, to R's, to the workers of I *)
(* (Loops), and to the INITs under way (Inits).                                *)
AttemptOfI ==
  \/ conn'[I].session = conn[I].session
  \/ /\ conn[I].session = NoKey
     /\ \E m \in Message : /\ Carries(I, m) /\ m.type = "resp"
                           /\ conn'[I].session = <<conn[I].eph, m.eph>>

AttemptOfR ==
  \/ conn'[R].session = conn[R].session
  \/ /\ conn[R].session = NoKey
     /\ \E m \in Message : /\ Carries(R, m) /\ m.type = "init"
                           /\ conn'[R].session[1] = m.eph

Loops ==
  \A s \in Slots : worker'[I][s].pc = "loop" =>
    \/ worker[I][s].pc = "loop" /\ worker'[I][s].body = worker[I][s].body
    \/ worker'[I][s].body = conn'[I].eph

Inits ==
  \A m \in Message : Carries(R, m)' /\ m.type = "init" =>
    \/ Carries(R, m)
    \/ \E s \in Slots : worker[I][s].pc = "loop" /\ m.eph = worker[I][s].body

LEMMA AgreeKept ==
  ASSUME TypeInv, TypeInv', AnswersKept, AgreeInv, ~ Forgets,
         AttemptOfI, AttemptOfR, Loops, Inits
  PROVE  AgreeInv'
<1>a. /\ \A n \in Node : conn[n].session \in Key \cup {NoKey} /\ conn[n].eph \in Eph \cup {NoEph}
      /\ \A n \in Node : conn'[n].session \in Key \cup {NoKey}
      /\ \A s \in Slots : worker[I][s].pc = "loop" => worker[I][s].body \in Eph
      /\ I \in Node /\ R \in Node /\ I # R /\ NoEph \notin Eph
  <2>1. \A n \in Node : conn'[n].session \in Key \cup {NoKey}
    BY DEF TypeInv, TypeOK, PeerConns
  <2> QED BY <2>1, Basics, ConnTypes DEF TypeInv, InitsCarryKey, AmInitiator
<1>b. \A m \in Message : m.type = "init" => m.eph \in Eph
  BY MessageTypes
<1>c. \A k \in Key : k[1] \in Eph /\ k = <<k[1], k[2]>>
  BY DEF Key
<1>1. CASE conn[I].session # NoKey
  <2>1. conn'[I].session = conn[I].session /\ conn'[R].session = conn[R].session
    BY <1>1 DEF AttemptOfI, AttemptOfR, AnswersKept, Answers
  <2> QED BY <1>1, <2>1 DEF AgreeInv, LoopsAgree, InitsAgree, DerivedAgree
<1>2. CASE conn[I].session = NoKey /\ conn'[I].session # NoKey
  <2>1. PICK m \in Message : /\ Carries(I, m) /\ m.type = "resp"
                             /\ conn'[I].session = <<conn[I].eph, m.eph>>
    BY <1>2 DEF AttemptOfI
  <2>2. conn[R].session # NoKey /\ m.eph = conn[R].session[2]
    BY <2>1 DEF AnswersKept, Answers
  <2>3. conn[R].session = <<conn[I].eph, m.eph>> /\ conn'[R].session = conn[R].session
    BY <1>2, <1>a, <1>c, <2>2 DEF AgreeInv, DerivedAgree, AttemptOfR
  <2> QED BY <1>2, <2>1, <2>3 DEF AgreeInv, LoopsAgree, InitsAgree, DerivedAgree
<1>3. CASE conn[I].session = NoKey /\ conn'[I].session = NoKey
  <2>1. CASE conn[I].eph # NoEph
    <3>1. conn'[I].eph = conn[I].eph
      BY <1>3, <2>1 DEF Forgets
    <3>2. LoopsAgree'
      BY <1>3, <3>1 DEF AgreeInv, LoopsAgree, Loops
    <3>3. InitsAgree'
      BY <1>3, <3>1 DEF AgreeInv, InitsAgree, LoopsAgree, Inits
    <3>4. DerivedAgree'
      BY <1>3, <3>1 DEF AgreeInv, DerivedAgree, InitsAgree, AttemptOfR
    <3> QED BY <3>2, <3>3, <3>4 DEF AgreeInv
  <2>2. CASE conn[I].eph = NoEph
    <3>1. \A s \in Slots : worker[I][s].pc # "loop"
      BY <1>3, <1>a, <2>2 DEF AgreeInv, LoopsAgree
    <3>2. \A m \in Message : Carries(R, m) => m.type # "init"
      BY <1>3, <1>a, <1>b, <2>2 DEF AgreeInv, InitsAgree
    <3>3. conn[R].session = NoKey
      BY <1>3, <1>a, <1>c, <2>2 DEF AgreeInv, DerivedAgree
    <3>4. conn'[R].session = NoKey
      BY <3>2, <3>3 DEF AttemptOfR
    <3> QED BY <3>1, <3>2, <3>4 DEF AgreeInv, LoopsAgree, InitsAgree, DerivedAgree, Loops, Inits
  <2> QED BY <2>1, <2>2
<1> QED BY <1>1, <1>2, <1>3

(* Each step is one of those.                                                 *)
AttemptStep == AttemptOfI /\ AttemptOfR /\ Loops /\ Inits
SameSessions == \A n \in Node : conn'[n].session = conn[n].session

LEMMA Unattempted ==
  /\ SameSessions => AttemptOfI /\ AttemptOfR
  /\ UNCHANGED conn => SameSessions
  /\ UNCHANGED worker => Loops
  /\ UNCHANGED net => Inits
  BY Basics DEF SameSessions, AttemptOfI, AttemptOfR, Loops, Inits, net, Carries

LEMMA EnsureAttempts ==
  ASSUME TypeInv, NEW n \in Node, NEW c \in PeerConns, EnsureConnecting(n, c),
         c.session = conn[n].session
  PROVE  SameSessions /\ Loops
<1>1. SameSessions
  BY EnsureEffect DEF SameSessions
<1>2. worker \in [Node -> [Slots -> Workers]]
  BY DEF TypeInv, TypeOK
<1>3. CASE UNCHANGED worker
  BY <1>1, <1>3, Unattempted
<1>4. ASSUME NEW s \in Slots, worker' = [worker EXCEPT ![n][s].pc = "begin"] PROVE Loops
  BY <1>2, <1>4, Basics DEF Loops, Workers
<1> QED BY <1>1, <1>3, <1>4 DEF EnsureConnecting

LEMMA SenderAttempts ==
  ASSUME TypeInv, NEW n \in Node, Send(n)
  PROVE  AttemptStep
<1>1. CASE conn[n].session # NoKey /\ Transmit(n, <<"app">>) /\ UNCHANGED <<conn, worker>>
  <2>1. <<"app">> \in Seq(Kinds) /\ conn[n].session \in Key /\ NetTypes
    BY <1>1, SessionIsKey, TypesOfNet DEF Kinds, TypeInv
  <2>2. Inits
    BY <1>1, <2>1, TransmitCarries, Basics DEF Inits
  <2> QED BY <1>1, <2>2, Unattempted DEF AttemptStep
<1>2. CASE /\ EnsureConnecting(n, [conn[n] EXCEPT !.queued = IF @ < MaxQueue THEN @ + 1 ELSE @])
           /\ UNCHANGED net
  <2> DEFINE c == [conn[n] EXCEPT !.queued = IF @ < MaxQueue THEN @ + 1 ELSE @]
  <2>1. c \in PeerConns /\ c.session = conn[n].session
    BY ConnTypes, Basics DEF PeerConns
  <2>2. EnsureConnecting(n, c)
    BY <1>2
  <2> HIDE DEF c
  <2> QED BY <1>2, <2>1, <2>2, EnsureAttempts, Unattempted DEF AttemptStep
<1> QED BY <1>1, <1>2 DEF Send

LEMMA WorkerAttempts ==
  ASSUME TypeInv, NEW n \in Node, NEW s \in Slots, RunWorker(n, s)
  PROVE  AttemptStep
<1>a. /\ conn \in [Node -> PeerConns] /\ worker \in [Node -> [Slots -> Workers]]
      /\ NetTypes /\ worker[n][s] \in Workers /\ conn[n] \in PeerConns
  BY TypesOfNet DEF TypeInv, TypeOK
<1>1. CASE WorkerBegin(n, s)
  <2>1. Inits
    <3>1. SendDerp(n, <<Connect>>) /\ Connect \in Message /\ Connect.type # "init"
      BY <1>1, MessageTypes DEF WorkerBegin, Nudge, Connect
    <3> QED BY <1>a, <3>1, DerpCarriesOne, Basics DEF Inits
  <2>2. CASE ~ AmInitiator(n)
    <3>1. /\ n # I /\ UNCHANGED conn
          /\ worker' = [worker EXCEPT ![n][s].pc = "loop", ![n][s].punched = TRUE]
      BY <1>1, <2>2 DEF WorkerBegin, AmInitiator
    <3>2. Loops
      BY <1>a, <3>1, Basics DEF Loops
    <3> QED BY <2>1, <3>1, <3>2, Unattempted DEF AttemptStep
  <2>3. CASE AmInitiator(n)
    <3>1. PICK e : /\ conn' = [conn EXCEPT ![n].eph = e]
                   /\ worker' = [worker EXCEPT ![n][s].pc = "loop", ![n][s].body = e]
      BY <1>1, <2>3 DEF WorkerBegin
    <3>2. SameSessions /\ conn'[n].eph = e
      BY <1>a, <3>1 DEF SameSessions, PeerConns
    <3>3. /\ worker'[n][s].body = e
          /\ \A t \in Slots : t # s => worker'[n][t] = worker[n][t]
      BY <1>a, <3>1 DEF Workers
    <3>4. Loops
      BY <2>3, <3>2, <3>3 DEF Loops, AmInitiator
    <3> QED BY <2>1, <3>2, <3>4, Unattempted DEF AttemptStep
  <2> QED BY <2>2, <2>3
<1>2. CASE WorkerPunch(n, s) \/ WorkerRelayInit(n, s)
  <2> DEFINE m == InitMsg(worker[n][s].body)
  <2>1. /\ n = I /\ worker[n][s].pc = "loop" /\ UNCHANGED conn
        /\ SendUdp(n, {m}) \/ SendDerp(n, <<m>>)
        /\ \/ worker' = [worker EXCEPT ![n][s].punched = TRUE]
           \/ worker' = [worker EXCEPT ![n][s].relayed = TRUE]
    BY <1>2 DEF WorkerPunch, WorkerRelayInit, AmInitiator
  <2>2. m \in Message /\ m.eph = worker[n][s].body
    BY <2>1, MessageTypes DEF TypeInv, InitsCarryKey, AmInitiator, InitMsg
  <2> HIDE DEF m
  <2>3. \A q : Carries(R, q)' => Carries(R, q) \/ q = m
    BY <1>a, <2>1, <2>2, UdpCarries, DerpCarriesOne, Basics
  <2>4. Inits
    BY <2>1, <2>2, <2>3 DEF Inits
  <2>5. worker'[n][s].body = worker[n][s].body
    <3>1. CASE worker' = [worker EXCEPT ![n][s].punched = TRUE]
      BY <1>a, <3>1 DEF Workers
    <3>2. CASE worker' = [worker EXCEPT ![n][s].relayed = TRUE]
      BY <1>a, <3>2 DEF Workers
    <3> QED BY <2>1, <3>1, <3>2
  <2>6. \A t \in Slots : t # s => worker'[n][t] = worker[n][t]
    BY <1>a, <2>1
  <2>7. Loops
    BY <2>1, <2>5, <2>6 DEF Loops
  <2> QED BY <2>1, <2>4, <2>7, Unattempted DEF AttemptStep
<1>3. CASE WorkerReturn(n, s) \/ WorkerGiveUp(n, s) \/ WorkerRearm(n, s)
  <2>1. SameSessions
    <3>1. CASE UNCHANGED conn
      BY <3>1, Unattempted
    <3>2. CASE conn' = [conn EXCEPT ![n] = Rearmed(@)]
      <4>1. Rearmed(conn[n]).session = conn[n].session
        BY <1>a DEF PeerConns, Rearmed
      <4> HIDE DEF Rearmed
      <4> QED BY <1>a, <3>2, <4>1 DEF SameSessions
    <3> QED BY <1>3, <3>1, <3>2 DEF WorkerReturn, WorkerGiveUp, WorkerRearm
  <2>2. Loops
    <3>1. PICK w : w.pc # "loop" /\ worker' = [worker EXCEPT ![n][s] = w]
      <4>1. IdleWorker.pc # "loop" /\ [worker[n][s] EXCEPT !.pc = "rearm"].pc # "loop"
        BY <1>a DEF IdleWorker, Workers
      <4>2. \/ worker' = [worker EXCEPT ![n][s] = IdleWorker]
            \/ worker' = [worker EXCEPT ![n][s] = [worker[n][s] EXCEPT !.pc = "rearm"]]
        BY <1>3, <1>a DEF WorkerReturn, WorkerGiveUp, WorkerRearm
      <4> QED BY <4>1, <4>2
    <3> QED BY <1>a, <3>1, Basics DEF Loops
  <2>3. UNCHANGED net
    BY <1>3 DEF WorkerReturn, WorkerGiveUp, WorkerRearm
  <2> QED BY <2>1, <2>2, <2>3, Unattempted DEF AttemptStep
<1> QED BY <1>1, <1>2, <1>3 DEF RunWorker

LEMMA KeeperAttempts ==
  ASSUME TypeInv, NEW n \in Node, RunKeeper(n)
  PROVE  AttemptStep
<1>1. CASE KeeperProbe(n)
  <2>1. /\ conn[n].transport = "direct" /\ Transmit(n, <<"keepalive">>)
        /\ UNCHANGED <<conn, worker>>
    BY <1>1 DEF KeeperProbe
  <2>2. <<"keepalive">> \in Seq(Kinds) /\ conn[n].session \in Key /\ NetTypes
    BY <2>1, ConnTypes, SessionIsKey, TypesOfNet DEF Kinds, TypeInv
  <2>3. Inits
    BY <2>1, <2>2, TransmitCarries, Basics DEF Inits
  <2> QED BY <2>1, <2>3, Unattempted DEF AttemptStep
<1>2. CASE KeeperSilent(n)
  BY <1>2, Unattempted DEF KeeperSilent, AttemptStep
<1>3. CASE KeeperFailover(n) \/ KeeperRetry(n)
  <2>1. UNCHANGED net
    BY <1>3 DEF KeeperFailover, KeeperRetry
  <2>2. SameSessions /\ Loops
    <3>1. CASE KeeperFailover(n)
      <4>1. conn[n].session # NoKey /\ conn[n] \in PeerConns
        BY <3>1, ConnTypes DEF KeeperFailover, TypeInv, SealsWithSession
      <4> QED BY <3>1, <4>1, FailedOverTypes, EnsureAttempts DEF KeeperFailover
    <3>2. CASE KeeperRetry(n)
      BY <3>2, ConnTypes, EnsureAttempts DEF KeeperRetry
    <3> QED BY <1>3, <3>1, <3>2
  <2> QED BY <2>1, <2>2, Unattempted DEF AttemptStep
<1> QED BY <1>1, <1>2, <1>3 DEF RunKeeper

LEMMA ReceiveInits ==
  ASSUME TypeInv, HalfInv, NEW n \in Node, NEW v \in Via, NEW m, Receive(n, v, m)
  PROVE  /\ Inits /\ Carries(n, m) /\ m \in Message
         /\ m.type = "init" => n = R
         /\ m.type = "resp" => n = I
<1>1. NetTypes
  BY TypesOfNet DEF TypeInv
<1>2. Inits
  BY <1>1, ReceiveCarries, Basics DEF Inits
<1> QED BY <1>2, ReceiveOld

LEMMA ReceiverAttempts ==
  ASSUME TypeInv, HalfInv, NEW n \in Node, NEW v \in Via, RunReceiver(n, v)
  PROVE  AttemptStep
<1>a. conn \in [Node -> PeerConns] /\ NetTypes /\ conn[n] \in PeerConns
  BY TypesOfNet DEF TypeInv, TypeOK
<1>b. ASSUME conn' = [conn EXCEPT ![n] = Upgraded(@, v)] PROVE SameSessions
  BY <1>a, <1>b, UpgradedTypes DEF SameSessions
<1>1. ASSUME NEW e \in Eph, RecvInit(n, v, e) PROVE AttemptStep
  <2>1. /\ Receive(n, v, InitMsg(e)) /\ UNCHANGED worker
        /\ InitMsg(e).type = "init" /\ InitMsg(e).eph = e
    BY <1>1 DEF RecvInit, InitMsg
  <2>2. Inits /\ Carries(R, InitMsg(e)) /\ InitMsg(e) \in Message /\ n = R
    BY <2>1, ReceiveInits
  <2>3. CASE /\ conn[n].session = NoKey /\ CanGenerate
             /\ conn' = [conn EXCEPT ![n] = [Bound(@, v) EXCEPT !.session = <<e, Fresh>>,
                                                                !.respEph = Fresh]]
    <3>1. Fresh \in Eph /\ <<e, Fresh>> \in Key
      BY <2>3, FreshIsEph DEF Key
    <3>2. conn' = [conn EXCEPT ![n] = Answering(Bound(conn[n], v), <<e, Fresh>>, Fresh)]
      BY <2>3 DEF Answering
    <3>3. Bound(conn[n], v) \in PeerConns
      BY <1>a, BoundTypes
    <3>4. conn'[R].session = <<e, Fresh>> /\ conn'[I] = conn[I]
      BY <1>a, <2>2, <3>1, <3>2, <3>3, AnsweringTypes, Basics
    <3>5. conn'[R].session[1] = e
      BY <3>4
    <3>6. AttemptOfI /\ AttemptOfR
      BY <2>1, <2>2, <2>3, <3>4, <3>5 DEF AttemptOfI, AttemptOfR
    <3> QED BY <2>1, <2>2, <3>6, Unattempted DEF AttemptStep
  <2>4. CASE conn' = [conn EXCEPT ![n] = Upgraded(@, v)]
    BY <1>b, <2>1, <2>2, <2>4, Unattempted DEF AttemptStep
  <2> QED BY <1>1, <2>3, <2>4 DEF RecvInit
<1>2. ASSUME NEW e \in Eph, RecvResp(n, v, e) PROVE AttemptStep
  <2>1. /\ Receive(n, v, RespMsg(e)) /\ UNCHANGED worker
        /\ RespMsg(e).type = "resp" /\ RespMsg(e).eph = e
    BY <1>2 DEF RecvResp, RespMsg
  <2>2. Inits /\ Carries(I, RespMsg(e)) /\ RespMsg(e) \in Message /\ n = I
    BY <2>1, ReceiveInits
  <2>3. CASE /\ conn[n].session = NoKey /\ conn[n].eph # NoEph
             /\ conn' = [conn EXCEPT ![n] = [Bound(@, v) EXCEPT !.session = <<conn[n].eph, e>>]]
    <3>1. <<conn[n].eph, e>> \in Key /\ Bound(conn[n], v) \in PeerConns
      BY <2>3, ConnTypes, BoundTypes DEF Key
    <3>2. conn'[n] = [Bound(conn[n], v) EXCEPT !.session = <<conn[n].eph, e>>]
      BY <1>a, <2>3
    <3>3. conn'[I].session = <<conn[n].eph, e>> /\ conn'[R] = conn[R]
      BY <1>a, <2>2, <2>3, <3>1, <3>2, Basics, SessionTypes
    <3>4. AttemptOfI /\ AttemptOfR
      BY <2>1, <2>2, <2>3, <3>3 DEF AttemptOfI, AttemptOfR
    <3> QED BY <2>1, <2>2, <3>4, Unattempted DEF AttemptStep
  <2>4. CASE conn' = [conn EXCEPT ![n] = Upgraded(@, v)]
    BY <1>b, <2>1, <2>2, <2>4, Unattempted DEF AttemptStep
  <2>5. CASE UNCHANGED conn
    BY <2>1, <2>2, <2>5, Unattempted DEF AttemptStep
  <2> QED BY <1>2, <2>3, <2>4, <2>5 DEF RecvResp
<1>3. CASE RecvConnect(n)
  <2>1. SameSessions /\ Loops
    BY <1>3, ConnTypes, EnsureAttempts DEF RecvConnect
  <2>2. Inits
    BY <1>3, ReceiveInits DEF RecvConnect, Via
  <2> QED BY <2>1, <2>2, Unattempted DEF AttemptStep
<1>4. ASSUME NEW m, RecvData(n, v, m) PROVE AttemptStep
  <2>1. Inits /\ UNCHANGED worker
    BY <1>4, ReceiveInits DEF RecvData
  <2>2. SameSessions
    <3>1. UNCHANGED conn \/ conn' = [conn EXCEPT ![n].silence = 0]
      BY <1>4 DEF RecvData
    <3> QED BY <1>a, <3>1 DEF SameSessions, PeerConns
  <2> QED BY <2>1, <2>2, Unattempted DEF AttemptStep
<1>5. ASSUME NEW m, RecvUnknown(n, v, m) PROVE AttemptStep
  BY <1>5, ReceiveInits, Unattempted DEF RecvUnknown, AttemptStep
<1>6. CASE SendResp(n, v)
  <2> DEFINE m == RespMsg(after[n][v].resp)
  <2>1. /\ after[n][v].resp # NoEph /\ UNCHANGED <<conn, worker>>
        /\ SendUdp(n, {m}) \/ SendDerp(n, <<m>>)
    BY <1>6 DEF SendResp
  <2>2. m \in Message /\ m.type = "resp"
    BY <2>1, AfterTypes, MessageTypes DEF Afters, RespMsg
  <2> HIDE DEF m
  <2>3. \A q : Carries(R, q)' => Carries(R, q) \/ q = m
    BY <1>a, <2>1, <2>2, UdpCarries, DerpCarriesOne, Basics
  <2>4. Inits
    BY <2>2, <2>3 DEF Inits
  <2> QED BY <2>1, <2>4, Unattempted DEF AttemptStep
<1>7. CASE SendPayloads(n, v)
  <2>1. /\ after[n][v].out # <<>> /\ Transmit(n, after[n][v].out) /\ UNCHANGED <<conn, worker>>
    BY <1>7 DEF SendPayloads
  <2>2. after[n][v].out \in Seq(Kinds) /\ conn[n].session \in Key
    BY <2>1, AfterTypes, SessionIsKey DEF TypeInv, SealsWithSession, Kinds
  <2>3. Inits
    BY <1>a, <2>1, <2>2, TransmitCarries, Basics DEF Inits
  <2> QED BY <2>1, <2>3, Unattempted DEF AttemptStep
<1> QED BY <1>1, <1>2, <1>3, <1>4, <1>5, <1>6, <1>7 DEF RunReceiver

LEMMA NextAttempts ==
  ASSUME TypeInv, HalfInv, [Next]_vars, ~ left'.restarted
  PROVE  AttemptStep
<1>a. conn \in [Node -> PeerConns] /\ left \in Remaining
  BY LeftTypes DEF TypeInv, TypeOK
<1>1. CASE UNCHANGED <<conn, worker, net>>
  BY <1>1, Unattempted DEF AttemptStep
<1>2. CASE Tick
  <2>1. UNCHANGED <<worker, net>>
    BY <1>2 DEF Tick
  <2>2. SameSessions
    BY <1>a, <1>2, TickKeeps DEF SameSessions
  <2> QED BY <2>1, <2>2, Unattempted DEF AttemptStep
<1>3. ASSUME NEW n \in Node, Restart(n) PROVE FALSE
  BY <1>a, <1>3 DEF Restart, Remaining
<1>4. CASE Environment
  BY <1>1, <1>2, <1>3, <1>4 DEF Environment, Learn, PathDown, PathHeals
<1> QED BY <1>1, <1>4, SenderAttempts, KeeperAttempts, WorkerAttempts, ReceiverAttempts DEF Next, vars, net

LEMMA NextAgrees ==
  ASSUME TypeInv, HalfInv, AgreeInv, [Next]_vars, ~ left.restarted, ~ left'.restarted, ~ Forgets
  PROVE  AgreeInv'
<1>1. TypeInv' /\ AnswersKept
  BY NextTypes DEF HalfInv
<1> QED BY <1>1, NextAttempts, AgreeKept DEF AttemptStep

LEMMA Agreement == AgreeInv => KeysAgree
  BY Basics DEF AgreeInv, DerivedAgree, KeysAgree, Node, Peer

LEMMA InitAgrees == Init => AgreeInv /\ ~ left.restarted
  BY Basics DEF Init, AgreeInv, LoopsAgree, InitsAgree, DerivedAgree, Carries, NewConn, IdleWorker

(* Whatever is lost, late or repeated, and whoever starts first: two sessions can    *)
(* disagree only after a restart, or after the initiator has given up an attempt     *)
(* and forgotten the ephemeral its INITs carried (_connect_worker's re-arming).       *)
THEOREM KeysAgreeUntilForgotten ==
  Spec /\ [][~ Forgets /\ ~ left'.restarted]_vars => []KeysAgree
<1> DEFINE Inv == TypeInv /\ HalfInv /\ AgreeInv /\ ~ left.restarted
<1>1. Init => Inv
  BY InitTypes, InitHalf, InitAgrees
<1>2. Inv /\ [Next]_vars /\ [~ Forgets /\ ~ left'.restarted]_vars => Inv'
  <2> SUFFICES ASSUME Inv, [Next]_vars, [~ Forgets /\ ~ left'.restarted]_vars PROVE Inv'
    OBVIOUS
  <2>1. ~ Forgets /\ ~ left'.restarted
    BY DEF vars, Forgets
  <2> QED BY <2>1, NextTypes, NextHalf, NextAgrees
<1>3. Inv => KeysAgree
  BY Agreement
<1> QED BY <1>1, <1>2, <1>3, PTL DEF Spec

-----------------------------------------------------------------------------
(* If packets arrive in time (Timely) and no map is late, the initiator forgets no    *)
(* ephemeral: a worker gives up without a session only when nothing is under way, and *)
(* by then the INIT it sent over the relay, or the answer to it, still would be.      *)
OnRelay ==
  \/ \E i \in DOMAIN derp[R] : derp[R][i].type = "init"
  \/ after[R]["derp"].resp # NoEph
  \/ \E i \in DOMAIN derp[I] : derp[I][i].type = "resp"

OnTime ==
  /\ \A n \in Node : known[n]
  /\ conn[I].session = NoKey =>
       \A s \in Slots : /\ worker[I][s].pc # "rearm"
                        /\ worker[I][s].relayed => conn[I].eph # NoEph /\ OnRelay

LEMMA SentStays ==
  ASSUME NetTypes, NEW n \in Node, NEW msgs \in Seq(Message), SendDerp(n, msgs),
         NEW k \in Node, NEW i \in DOMAIN derp[k]
  PROVE  i \in DOMAIN derp'[k] /\ derp'[k][i] = derp[k][i]
<1>1. derp[k] \in Seq(Message) /\ derp' = [derp EXCEPT ![Peer(n)] = @ \o msgs]
  BY DEF NetTypes, SendDerp
<1>2. derp'[k] = IF k = Peer(n) THEN derp[k] \o msgs ELSE derp[k]
  BY <1>1 DEF NetTypes
<1> QED BY <1>1, <1>2

LEMMA PutOnRelay ==
  ASSUME NetTypes, NEW n \in Node, NEW m \in Message, SendDerp(n, <<m>>)
  PROVE  \E i \in DOMAIN derp'[Peer(n)] : derp'[Peer(n)][i] = m
<1>1. /\ derp[Peer(n)] \in Seq(Message)
      /\ derp'[Peer(n)] = derp[Peer(n)] \o <<m>>
  BY Basics DEF NetTypes, SendDerp
<1>2. Len(derp[Peer(n)]) + 1 \in DOMAIN derp'[Peer(n)]
  BY <1>1
<1>3. derp'[Peer(n)][Len(derp[Peer(n)]) + 1] = m
  BY <1>1
<1> QED BY <1>2, <1>3

(* A packet that a node takes from the relay is the first of its queue.            *)
LEMMA OthersStay ==
  ASSUME NetTypes, NEW n \in Node, NEW v \in Via, NEW m, Receive(n, v, m),
         NEW k \in Node, NEW i \in DOMAIN derp[k],
         k # n \/ v # "derp" \/ derp[k][i].type # m.type
  PROVE  \E j \in DOMAIN derp'[k] : derp'[k][j] = derp[k][i]
<1>1. CASE v = "udp"
  BY <1>1 DEF Receive
<1>2. CASE v = "derp"
  <2>1. /\ derp[n] # <<>> /\ m = Head(derp[n]) /\ derp' = [derp EXCEPT ![n] = Tail(@)]
        /\ derp[n] \in Seq(Message)
    BY <1>2 DEF Receive, NetTypes
  <2>2. CASE k # n
    BY <2>1, <2>2 DEF NetTypes
  <2>3. CASE k = n
    <3>1. derp'[k] = Tail(derp[k]) /\ derp[k] \in Seq(Message) /\ derp[k] # <<>>
      BY <2>1, <2>3 DEF NetTypes
    <3>2. i # 1
      BY <1>2, <2>1, <2>3
    <3>3. i - 1 \in DOMAIN derp'[k] /\ derp'[k][i - 1] = derp[k][i]
      BY <3>1, <3>2
    <3> QED BY <3>3
  <2> QED BY <2>2, <2>3
<1> QED BY <1>1, <1>2 DEF Via

(* What a step may do that keeps this: to the workers of I, and to what is on the    *)
(* relay while I waits for it.                                                  *)
WorkersOnTime ==
  conn'[I].session = NoKey =>
    \A s \in Slots :
      /\ worker'[I][s].pc = "rearm" => worker[I][s].pc = "rearm"
      /\ worker'[I][s].relayed => worker[I][s].relayed \/ (conn[I].eph # NoEph /\ OnRelay')

RelayKeeps ==
  conn'[I].session = NoKey /\ conn[I].eph # NoEph /\ OnRelay => OnRelay'

OnTimeStep == ~ Forgets /\ WorkersOnTime /\ RelayKeeps

LEMMA OnTimeKept ==
  ASSUME OnTime, OnTimeStep, AttemptOfI, UNCHANGED known
  PROVE  OnTime'
<1>1. conn'[I].session = NoKey => conn[I].session = NoKey
  BY DEF AttemptOfI
<1>2. conn'[I].session = NoKey /\ conn[I].eph # NoEph => conn'[I].eph # NoEph
  BY <1>1 DEF OnTimeStep, Forgets
<1> QED BY <1>1, <1>2 DEF OnTime, OnTimeStep, WorkersOnTime, RelayKeeps

LEMMA Punctual ==
  /\ UNCHANGED conn => ~ Forgets
  /\ UNCHANGED worker => WorkersOnTime
  /\ UNCHANGED <<after, derp>> => RelayKeeps
  BY DEF Forgets, WorkersOnTime, RelayKeeps, OnRelay

LEMMA SentKeepsRelay ==
  ASSUME NetTypes, NEW n \in Node, NEW msgs \in Seq(Message),
         SendDerp(n, msgs), after'[R]["derp"].resp = after[R]["derp"].resp
  PROVE  RelayKeeps
<1>1. \A k \in Node : \A i \in DOMAIN derp[k] :
        i \in DOMAIN derp'[k] /\ derp'[k][i] = derp[k][i]
  BY SentStays
<1> QED BY <1>1, Basics DEF RelayKeeps, OnRelay

LEMMA TransmitKeepsRelay ==
  ASSUME NetTypes, NEW n \in Node, NEW kinds \in Seq(Kinds), conn[n].session \in Key,
         Transmit(n, kinds), after'[R]["derp"].resp = after[R]["derp"].resp
  PROVE  RelayKeeps
<1>1. CASE conn[n].transport = "direct"
  <2>1. UNCHANGED derp
    BY <1>1 DEF Transmit, SendUdp
  <2> QED BY <2>1 DEF RelayKeeps, OnRelay
<1>2. CASE conn[n].transport # "direct"
  <2>1. \A i \in DOMAIN kinds : Sealed(n, kinds)[i] \in Message
    BY MessageTypes DEF Sealed
  <2>2. Sealed(n, kinds) \in Seq(Message) /\ SendDerp(n, Sealed(n, kinds))
    BY <1>2, <2>1 DEF Sealed, Transmit
  <2> QED BY <2>2, SentKeepsRelay
<1> QED BY <1>1, <1>2

LEMMA EnsureOnTime ==
  ASSUME TypeInv, NEW n \in Node, NEW c \in PeerConns, EnsureConnecting(n, c),
         c.eph = conn[n].eph \/ conn[n].session # NoKey
  PROVE  ~ Forgets /\ WorkersOnTime
<1>1. ~ Forgets
  BY EnsureEffect, Basics DEF Forgets
<1>2. worker \in [Node -> [Slots -> Workers]]
  BY DEF TypeInv, TypeOK
<1>3. CASE UNCHANGED worker
  BY <1>1, <1>3, Punctual
<1>4. ASSUME NEW s \in Slots, worker' = [worker EXCEPT ![n][s].pc = "begin"] PROVE WorkersOnTime
  BY <1>2, <1>4, Basics DEF WorkersOnTime, Workers
<1> QED BY <1>1, <1>3, <1>4 DEF EnsureConnecting

LEMMA SenderOnTime ==
  ASSUME TypeInv, NEW n \in Node, Send(n)
  PROVE  OnTimeStep
<1>1. CASE conn[n].session # NoKey /\ Transmit(n, <<"app">>) /\ UNCHANGED <<conn, worker>>
  <2>1. <<"app">> \in Seq(Kinds) /\ conn[n].session \in Key /\ NetTypes /\ UNCHANGED after
    BY <1>1, SessionIsKey, TypesOfNet DEF Kinds, TypeInv, Send
  <2>2. RelayKeeps
    BY <1>1, <2>1, TransmitKeepsRelay
  <2> QED BY <1>1, <2>2, Punctual DEF OnTimeStep
<1>2. CASE /\ EnsureConnecting(n, [conn[n] EXCEPT !.queued = IF @ < MaxQueue THEN @ + 1 ELSE @])
           /\ UNCHANGED net
  <2> DEFINE c == [conn[n] EXCEPT !.queued = IF @ < MaxQueue THEN @ + 1 ELSE @]
  <2>1. c \in PeerConns /\ c.eph = conn[n].eph
    BY ConnTypes, Basics DEF PeerConns
  <2>2. EnsureConnecting(n, c) /\ UNCHANGED <<after, derp>>
    BY <1>2 DEF Send, net
  <2> HIDE DEF c
  <2> QED BY <2>1, <2>2, EnsureOnTime, Punctual DEF OnTimeStep
<1> QED BY <1>1, <1>2 DEF Send

LEMMA KeeperOnTime ==
  ASSUME TypeInv, NEW n \in Node, RunKeeper(n)
  PROVE  OnTimeStep
<1>1. CASE KeeperProbe(n)
  <2>1. /\ conn[n].transport = "direct" /\ Transmit(n, <<"keepalive">>)
        /\ UNCHANGED <<conn, worker, after>>
    BY <1>1 DEF KeeperProbe
  <2>2. <<"keepalive">> \in Seq(Kinds) /\ conn[n].session \in Key /\ NetTypes
    BY <2>1, ConnTypes, SessionIsKey, TypesOfNet DEF Kinds, TypeInv
  <2>3. RelayKeeps
    BY <2>1, <2>2, TransmitKeepsRelay
  <2> QED BY <2>1, <2>3, Punctual DEF OnTimeStep
<1>2. CASE KeeperSilent(n)
  BY <1>2, Punctual DEF KeeperSilent, OnTimeStep, net
<1>3. CASE KeeperFailover(n)
  <2>1. conn[n].session # NoKey /\ conn[n] \in PeerConns
    BY <1>3, ConnTypes DEF KeeperFailover, TypeInv, SealsWithSession
  <2> QED BY <1>3, <2>1, FailedOverTypes, EnsureOnTime, Punctual DEF KeeperFailover, OnTimeStep, net
<1>4. CASE KeeperRetry(n)
  BY <1>4, ConnTypes, EnsureOnTime, Punctual DEF KeeperRetry, OnTimeStep, net
<1> QED BY <1>1, <1>2, <1>3, <1>4 DEF RunKeeper

LEMMA QuietRelay == Quiet => ~ OnRelay
  BY Basics DEF Quiet, OnRelay, Nothing, Via

LEMMA WorkerOnTime ==
  ASSUME TypeInv, AgreeInv, OnTime, Timely, NEW n \in Node, NEW s \in Slots, RunWorker(n, s)
  PROVE  OnTimeStep
<1>a. /\ conn \in [Node -> PeerConns] /\ worker \in [Node -> [Slots -> Workers]]
      /\ NetTypes /\ worker[n][s] \in Workers /\ conn[n] \in PeerConns /\ UNCHANGED after
  BY TypesOfNet DEF TypeInv, TypeOK, RunWorker, WorkerBegin, WorkerPunch, WorkerRelayInit,
                    WorkerReturn, WorkerGiveUp, WorkerRearm
<1>1. CASE WorkerBegin(n, s)
  <2>1. RelayKeeps
    <3>1. Nudge(n) \in Seq(Message) /\ SendDerp(n, Nudge(n))
      BY <1>1, MessageTypes DEF WorkerBegin, Nudge
    <3> QED BY <1>a, <3>1, SentKeepsRelay
  <2>2. /\ worker'[I][s].pc # "rearm" \/ n # I
        /\ \A t \in Slots : /\ t # s \/ n # I => worker'[I][t] = worker[I][t]
                            /\ worker'[I][t].relayed = worker[I][t].relayed
    BY <1>1, <1>a, Basics DEF WorkerBegin, Workers
  <2>3. WorkersOnTime
    BY <2>2 DEF WorkersOnTime
  <2>4. ~ Forgets
    <3>1. CASE AmInitiator(n)
      <4>1. conn' = [conn EXCEPT ![n].eph = IF conn[n].eph # NoEph THEN conn[n].eph ELSE Fresh]
        BY <1>1, <3>1 DEF WorkerBegin
      <4>2. conn[I].eph # NoEph => conn'[I].eph = conn[I].eph
        BY <1>a, <3>1, <4>1, Basics DEF AmInitiator, PeerConns
      <4> QED BY <4>2 DEF Forgets
    <3>2. CASE ~ AmInitiator(n)
      BY <1>1, <3>2, Punctual DEF WorkerBegin
    <3> QED BY <3>1, <3>2
  <2> QED BY <2>1, <2>3, <2>4 DEF OnTimeStep
<1>2. CASE WorkerPunch(n, s)
  <2>1. UNCHANGED <<conn, after, derp>> /\ worker' = [worker EXCEPT ![n][s].punched = TRUE]
    BY <1>2, <1>a DEF WorkerPunch, SendUdp
  <2>2. \A t \in Slots : /\ worker'[I][t].relayed = worker[I][t].relayed
                         /\ worker'[I][t].pc = worker[I][t].pc
    BY <1>a, <2>1, Basics DEF Workers
  <2> QED BY <2>1, <2>2, Punctual DEF OnTimeStep, WorkersOnTime
<1>3. CASE WorkerRelayInit(n, s)
  <2> DEFINE m == InitMsg(worker[n][s].body)
  <2>1. /\ n = I /\ worker[I][s].pc = "loop" /\ conn[I].session = NoKey
        /\ UNCHANGED conn /\ SendDerp(I, <<m>>)
        /\ worker' = [worker EXCEPT ![I][s].relayed = TRUE]
    BY <1>3 DEF WorkerRelayInit, AmInitiator
  <2>2. worker[I][s].body \in Eph /\ conn[I].eph = worker[I][s].body
    BY <2>1, Basics DEF TypeInv, InitsCarryKey, AmInitiator, AgreeInv, LoopsAgree
  <2>3. m \in Message /\ m.type = "init"
    <3>1. m \in Message
      BY <2>1, <2>2, MessageTypes
    <3>2. m.type = "init"
      BY DEF InitMsg
    <3> QED BY <3>1, <3>2
  <2> HIDE DEF m
  <2>4. OnRelay'
    BY <1>a, <2>1, <2>3, PutOnRelay, Basics DEF OnRelay, Peer
  <2>5. conn[I].eph # NoEph
    BY <2>2, Basics
  <2>6. \A t \in Slots : worker'[I][t].pc = worker[I][t].pc
    BY <1>a, <2>1, Basics DEF Workers
  <2> QED BY <2>1, <2>4, <2>5, <2>6, Punctual DEF OnTimeStep, WorkersOnTime, RelayKeeps
<1>4. CASE WorkerReturn(n, s) \/ WorkerGiveUp(n, s)
  <2>1. UNCHANGED <<conn, after, derp>>
    BY <1>4 DEF WorkerReturn, WorkerGiveUp, net
  <2>2. WorkersOnTime
    <3>1. CASE n # I
      <4>1. PICK w : worker' = [worker EXCEPT ![n][s] = w]
        BY <1>4 DEF WorkerReturn, WorkerGiveUp
      <4>2. worker'[I] = worker[I]
        BY <1>a, <3>1, <4>1, Basics
      <4> QED BY <4>2 DEF WorkersOnTime
    <3>2. CASE n = I /\ worker' = [worker EXCEPT ![n][s] = IdleWorker]
      BY <1>a, <3>2 DEF WorkersOnTime, IdleWorker
    <3>3. CASE n = I /\ WorkerGiveUp(n, s) /\ conn[I].session = NoKey
      <4>1. worker[I][s].relayed /\ Quiet
        BY <3>3, Basics DEF WorkerGiveUp, AmInitiator
      <4> QED BY <3>3, <4>1, QuietRelay DEF OnTime
    <3>4. CASE conn'[I].session # NoKey
      BY <3>4 DEF WorkersOnTime
    <3> QED BY <1>4, <2>1, <3>1, <3>2, <3>3, <3>4 DEF WorkerReturn
  <2> QED BY <2>1, <2>2, Punctual DEF OnTimeStep
<1>5. CASE WorkerRearm(n, s)
  <2>1. /\ worker[n][s].pc = "rearm" /\ conn' = [conn EXCEPT ![n] = Rearmed(@)]
        /\ worker' = [worker EXCEPT ![n][s] = IdleWorker] /\ UNCHANGED derp
    BY <1>5 DEF WorkerRearm, net
  <2>2. WorkersOnTime
    BY <1>a, <2>1, Basics DEF WorkersOnTime, IdleWorker
  <2>3. ~ Forgets
    <3>1. CASE n = I
      BY <2>1, <3>1 DEF OnTime, Forgets
    <3>2. CASE n # I
      BY <1>a, <2>1, <3>2, Basics DEF Forgets
    <3> QED BY <3>1, <3>2
  <2> QED BY <1>a, <2>1, <2>2, <2>3, Punctual DEF OnTimeStep
<1> QED BY <1>1, <1>2, <1>3, <1>4, <1>5 DEF RunWorker

(* Taking a packet from the relay loses nothing I waits for, but for an INIT at R    *)
(* or a RESP at I.                                                              *)
LEMMA ReceiveKeepsRelay ==
  ASSUME NetTypes, NEW n \in Node, NEW v \in Via, NEW m, Receive(n, v, m),
         v = "derp" => ~ (n = R /\ m.type = "init") /\ ~ (n = I /\ m.type = "resp"),
         after'[R]["derp"].resp = after[R]["derp"].resp
  PROVE  RelayKeeps
<1>1. ASSUME NEW i \in DOMAIN derp[R], derp[R][i].type = "init"
      PROVE  \E j \in DOMAIN derp'[R] : derp'[R][j] = derp[R][i]
  <2>1. R # n \/ v # "derp" \/ derp[R][i].type # m.type
    BY <1>1
  <2> QED BY <1>1, <2>1, Basics, OthersStay
<1>2. ASSUME NEW i \in DOMAIN derp[I], derp[I][i].type = "resp"
      PROVE  \E j \in DOMAIN derp'[I] : derp'[I][j] = derp[I][i]
  <2>1. I # n \/ v # "derp" \/ derp[I][i].type # m.type
    BY <1>2
  <2> QED BY <1>2, <2>1, Basics, OthersStay
<1> QED BY <1>1, <1>2 DEF RelayKeeps, OnRelay

LEMMA ReceiverOnTime ==
  ASSUME TypeInv, HalfInv, AnswersKept, OnTime, NEW n \in Node, NEW v \in Via, RunReceiver(n, v)
  PROVE  OnTimeStep
<1>a. /\ conn \in [Node -> PeerConns] /\ NetTypes /\ conn[n] \in PeerConns
      /\ after \in [Node -> [Via -> Afters]] /\ "derp" \in Via
  BY TypesOfNet DEF TypeInv, TypeOK, Via
<1>b. ASSUME conn' = [conn EXCEPT ![n] = Upgraded(@, v)] PROVE ~ Forgets
  BY <1>a, <1>b, UpgradedTypes, Basics DEF Forgets
<1>c. ASSUME NEW a \in Afters, after' = [after EXCEPT ![n][v] = a],
             n = I \/ v # "derp" \/ a.resp = after[n][v].resp
      PROVE  after'[R]["derp"].resp = after[R]["derp"].resp
  BY <1>a, <1>c, Basics
<1>1. ASSUME NEW e \in Eph, RecvInit(n, v, e) PROVE OnTimeStep
  <2>1. /\ Receive(n, v, InitMsg(e)) /\ UNCHANGED worker /\ InitMsg(e).type = "init"
    BY <1>1 DEF RecvInit, InitMsg
  <2>2. n = R
    BY <2>1, ReceiveInits
  <2>3. PICK r : /\ r # NoEph
                 /\ after'[R][v].resp = r
                 /\ \A w \in Via : w # v => after'[R][w] = after[R][w]
    <3>1. CASE /\ conn[n].session = NoKey /\ CanGenerate
               /\ after' = [after EXCEPT ![n][v] = [resp |-> Fresh, out |-> Payloads(conn[n].queued)]]
      BY <1>a, <2>2, <3>1, FreshIsEph, Basics
    <3>2. CASE /\ conn[n].session # NoKey
               /\ after' = [after EXCEPT ![n][v].resp = AnswerEph(conn[n])]
      <4>1. AnswerEph(conn[n]) # NoEph
        <5>1. conn[R].session \in Key /\ conn[R].session[2] = conn[R].respEph
          BY <2>2, <3>2, SessionIsKey DEF AnswersKept
        <5> QED BY <2>2, <5>1, Basics DEF AnswerEph, Key
      <4> QED BY <1>a, <2>2, <3>2, <4>1 DEF Afters
    <3> QED BY <1>1, <3>1, <3>2 DEF RecvInit
  <2>4. RelayKeeps
    <3>1. CASE v = "derp"
      BY <2>3, <3>1 DEF RelayKeeps, OnRelay
    <3>2. CASE v # "derp"
      BY <1>a, <2>1, <2>3, <3>2, ReceiveKeepsRelay
    <3> QED BY <3>1, <3>2
  <2>5. conn'[I] = conn[I]
    BY <1>1, <1>a, <2>2, Basics DEF RecvInit
  <2> QED BY <2>1, <2>4, <2>5, Punctual DEF OnTimeStep, Forgets
<1>2. ASSUME NEW e \in Eph, RecvResp(n, v, e) PROVE OnTimeStep
  <2>1. Receive(n, v, RespMsg(e)) /\ UNCHANGED worker /\ RespMsg(e).type = "resp"
    BY <1>2 DEF RecvResp, RespMsg
  <2>2. n = I
    BY <2>1, ReceiveInits
  <2>3. CASE conn[I].session # NoKey /\ conn' = [conn EXCEPT ![n] = Upgraded(@, v)]
    <3>1. conn'[I].session # NoKey
      BY <1>a, <2>2, <2>3, UpgradedTypes
    <3> QED BY <1>b, <2>1, <2>3, <3>1, Punctual DEF OnTimeStep, RelayKeeps
  <2>4. CASE conn[I].eph = NoEph /\ UNCHANGED conn
    BY <2>1, <2>4, Punctual DEF OnTimeStep, RelayKeeps
  <2>5. CASE /\ conn[I].eph # NoEph
             /\ conn' = [conn EXCEPT ![n] = [Bound(@, v) EXCEPT !.session = <<conn[n].eph, e>>]]
    <3>1. <<conn[n].eph, e>> \in Key /\ Bound(conn[n], v) \in PeerConns
      BY <2>2, <2>5, ConnTypes, BoundTypes DEF Key
    <3> DEFINE b == Bound(conn[n], v)
               k == <<conn[n].eph, e>>
    <3>2. conn'[n] = [b EXCEPT !.session = k] /\ b \in PeerConns /\ k \in Key /\ b.eph = conn[n].eph
      BY <1>a, <2>5, <3>1, BoundTypes
    <3> HIDE DEF b, k
    <3>3. conn'[I].session # NoKey /\ conn'[I].eph = conn[I].eph
      BY <2>2, <3>2, SessionTypes, Basics
    <3> QED BY <2>1, <3>3, Punctual DEF OnTimeStep, RelayKeeps, Forgets
  <2> QED BY <1>2, <2>2, <2>3, <2>4, <2>5 DEF RecvResp
<1>3. CASE v = "derp" /\ RecvConnect(n)
  <2>1. /\ ~ Forgets /\ WorkersOnTime
    BY <1>3, ConnTypes, EnsureOnTime DEF RecvConnect
  <2>2. /\ Receive(n, "derp", Connect) /\ UNCHANGED after /\ Connect.type = "connect"
    BY <1>3 DEF RecvConnect, Connect
  <2> QED BY <1>a, <2>1, <2>2, ReceiveKeepsRelay DEF OnTimeStep
<1>4. ASSUME NEW m, m.type = "data", RecvData(n, v, m) PROVE OnTimeStep
  <2>1. /\ Receive(n, v, m) /\ UNCHANGED worker
        /\ UNCHANGED after
           \/ after' = [after EXCEPT ![n][v].out = IF m.kind = "keepalive" THEN <<"ack">> ELSE <<>>]
        /\ UNCHANGED conn \/ conn' = [conn EXCEPT ![n].silence = 0]
    BY <1>4 DEF RecvData
  <2>2. conn'[I].eph = conn[I].eph
    <3>1. CASE conn' = [conn EXCEPT ![n].silence = 0]
      BY <1>a, <3>1, Basics DEF PeerConns
    <3> QED BY <2>1, <3>1
  <2>3. after'[R]["derp"].resp = after[R]["derp"].resp
    <3>1. ASSUME NEW q, after' = [after EXCEPT ![n][v].out = q]
          PROVE  after'[R]["derp"].resp = after[R]["derp"].resp
      BY <1>a, <3>1, Basics DEF Afters
    <3> QED BY <2>1, <3>1
  <2>4. RelayKeeps
    BY <1>4, <1>a, <2>1, <2>3, ReceiveKeepsRelay
  <2> QED BY <2>1, <2>2, <2>4, Punctual DEF OnTimeStep, Forgets
<1>5. ASSUME NEW m, RecvUnknown(n, v, m) PROVE FALSE
  BY <1>5 DEF RecvUnknown, OnTime
<1>6. CASE SendResp(n, v)
  <2> DEFINE m == RespMsg(after[n][v].resp)
  <2>1. /\ after[n][v].resp # NoEph /\ UNCHANGED <<conn, worker>>
        /\ IF v = "udp" THEN SendUdp(n, {m}) ELSE SendDerp(n, <<m>>)
        /\ after' = [after EXCEPT ![n][v].resp = NoEph]
    BY <1>6 DEF SendResp
  <2>2. m \in Message /\ m.type = "resp"
    BY <2>1, AfterTypes, MessageTypes DEF Afters, RespMsg
  <2> HIDE DEF m
  <2>3. RelayKeeps
    <3>1. CASE v = "derp" /\ n = R
      <4>1. \E i \in DOMAIN derp'[Peer(n)] : derp'[Peer(n)][i] = m
        BY <1>a, <2>1, <2>2, <3>1, PutOnRelay
      <4> QED BY <2>2, <3>1, <4>1, Basics DEF RelayKeeps, OnRelay, Peer
    <3>2. CASE ~ (v = "derp" /\ n = R)
      <4>1. after'[R]["derp"] = after[R]["derp"]
        BY <1>a, <2>1, <3>2, Basics
      <4>2. CASE UNCHANGED derp
        BY <4>1, <4>2 DEF RelayKeeps, OnRelay
      <4>3. CASE SendDerp(n, <<m>>)
        <5> DEFINE msgs == <<m>>
        <5>1. msgs \in Seq(Message) /\ SendDerp(n, msgs)
          BY <2>2, <4>3
        <5> HIDE DEF msgs
        <5> QED BY <1>a, <4>1, <5>1, SentKeepsRelay
      <4> QED BY <2>1, <4>2, <4>3 DEF SendUdp
    <3> QED BY <3>1, <3>2
  <2> QED BY <2>1, <2>3, Punctual DEF OnTimeStep
<1>7. CASE SendPayloads(n, v)
  <2>1. /\ after[n][v].resp = NoEph /\ after[n][v].out # <<>> /\ Transmit(n, after[n][v].out)
        /\ UNCHANGED <<conn, worker>> /\ after' = [after EXCEPT ![n][v] = Nothing]
    BY <1>7 DEF SendPayloads
  <2>2. after[n][v].out \in Seq(Kinds) /\ conn[n].session \in Key
    BY <2>1, AfterTypes, SessionIsKey DEF TypeInv, SealsWithSession, Kinds
  <2>3. after'[R]["derp"].resp = after[R]["derp"].resp
    BY <1>a, <2>1, Basics DEF Nothing
  <2>4. RelayKeeps
    BY <1>a, <2>1, <2>2, <2>3, TransmitKeepsRelay
  <2> QED BY <2>1, <2>4, Punctual DEF OnTimeStep
<1> QED BY <1>1, <1>2, <1>3, <1>4, <1>5, <1>6, <1>7 DEF RunReceiver

LEMMA NextOnTime ==
  ASSUME TypeInv, HalfInv, AgreeInv, OnTime, Timely, [Next]_vars,
         ~ left.restarted, ~ left'.restarted
  PROVE  OnTime' /\ ~ Forgets
<1>a. conn \in [Node -> PeerConns] /\ left \in Remaining
  BY LeftTypes DEF TypeInv, TypeOK
<1>1. ASSUME UNCHANGED <<conn, worker, after, net>> PROVE OnTimeStep
  <2>1. UNCHANGED conn /\ UNCHANGED worker /\ UNCHANGED <<after, derp>>
    BY <1>1 DEF net
  <2> QED BY <2>1, Punctual DEF OnTimeStep
<1>2. ASSUME Tick PROVE OnTimeStep
  <2>1. UNCHANGED worker /\ UNCHANGED <<after, derp>>
    BY <1>2 DEF Tick, net
  <2>2. conn'[I].eph = conn[I].eph
    BY <1>a, <1>2, TickKeeps, Basics
  <2> QED BY <2>1, <2>2, Punctual DEF OnTimeStep, Forgets
<1>3. ASSUME NEW n \in Node, Restart(n) PROVE FALSE
  BY <1>a, <1>3 DEF Restart, Remaining
<1>4. ASSUME Environment PROVE OnTimeStep
  BY <1>1, <1>2, <1>3, <1>4 DEF Environment, Learn, PathDown, PathHeals
<1>5. AnswersKept
  BY DEF HalfInv
<1>6. OnTimeStep
  <2>1. CASE UNCHANGED vars
    <3>1. UNCHANGED <<conn, worker, after, net>>
      BY <2>1 DEF vars, net
    <3> QED BY <1>1, <3>1
  <2>2. ASSUME NEW n \in Node, NEW s \in Slots, RunWorker(n, s) PROVE OnTimeStep
    BY <2>2, WorkerOnTime
  <2>3. ASSUME NEW n \in Node, NEW v \in Via, RunReceiver(n, v) PROVE OnTimeStep
    BY <1>5, <2>3, ReceiverOnTime
  <2> QED BY <1>4, <2>1, <2>2, <2>3, SenderOnTime, KeeperOnTime DEF Next
<1>7. UNCHANGED known
  <2>1. ASSUME NEW n \in Node, Learn(n) PROVE FALSE
    BY <2>1 DEF Learn, OnTime
  <2>2. CASE UNCHANGED vars
    BY <2>2 DEF vars
  <2>3. CASE Environment
    BY <2>1, <2>3, <1>3 DEF Environment, Tick, PathDown, PathHeals
  <2>4. ASSUME NEW n \in Node, Send(n) \/ RunKeeper(n) PROVE UNCHANGED known
    BY <2>4 DEF Send, RunKeeper, KeeperProbe, KeeperSilent, KeeperFailover, KeeperRetry
  <2>5. ASSUME NEW n \in Node, NEW s \in Slots, RunWorker(n, s) PROVE UNCHANGED known
    BY <2>5 DEF RunWorker, WorkerBegin, WorkerPunch, WorkerRelayInit, WorkerReturn,
                WorkerGiveUp, WorkerRearm
  <2>6. ASSUME NEW n \in Node, NEW v \in Via, RunReceiver(n, v) PROVE UNCHANGED known
    BY <2>6 DEF RunReceiver, RecvInit, RecvResp, RecvConnect, RecvData, RecvUnknown,
                SendResp, SendPayloads
  <2> QED BY <2>2, <2>3, <2>4, <2>5, <2>6 DEF Next
<1>8. AttemptOfI
  BY NextAttempts DEF AttemptStep
<1> QED BY <1>6, <1>7, <1>8, OnTimeKept DEF OnTimeStep

(* A node that restarted is never taken for one that did not.                      *)
LEMMA RestartedStays ==
  ASSUME TypeInv, [Next]_vars, left.restarted
  PROVE  left'.restarted
<1>a. left \in Remaining
  BY LeftTypes
<1>1. CASE UNCHANGED left
  BY <1>1
<1>2. ASSUME NEW q, \/ left' = [left EXCEPT !.sends = q]
                    \/ left' = [left EXCEPT !.workers = q]
                    \/ left' = [left EXCEPT !.outages = q]
      PROVE  left'.restarted
  BY <1>a, <1>2 DEF Remaining
<1>3. CASE Environment
  <2>1. CASE Tick
    BY <1>a, <2>1 DEF Tick, Remaining
  <2>2. ASSUME NEW n \in Node, Restart(n) PROVE left'.restarted
    BY <1>a, <2>2 DEF Restart, Remaining
  <2>3. CASE PathDown
    BY <1>2, <2>3 DEF PathDown
  <2> QED BY <1>1, <1>3, <2>1, <2>2, <2>3 DEF Environment, Learn, PathHeals
<1>4. ASSUME NEW n \in Node, Send(n) PROVE left'.restarted
  BY <1>2, <1>4 DEF Send
<1>5. ASSUME NEW n \in Node, RunKeeper(n) PROVE left'.restarted
  BY <1>1, <1>5 DEF RunKeeper, KeeperProbe, KeeperSilent, KeeperFailover, KeeperRetry
<1>6. ASSUME NEW n \in Node, NEW s \in Slots, RunWorker(n, s) PROVE left'.restarted
  BY <1>1, <1>2, <1>6 DEF RunWorker, WorkerBegin, WorkerPunch, WorkerRelayInit, WorkerReturn,
                          WorkerGiveUp, WorkerRearm
<1>7. ASSUME NEW n \in Node, NEW v \in Via, RunReceiver(n, v) PROVE left'.restarted
  BY <1>1, <1>7 DEF RunReceiver, RecvInit, RecvResp, RecvConnect, RecvData, RecvUnknown,
                    SendResp, SendPayloads
<1> QED BY <1>1, <1>3, <1>4, <1>5, <1>6, <1>7 DEF Next, vars

(* If packets arrive in time and both nodes know of each other from the start, the    *)
(* condition of the theorem above holds of itself, and only a restart can make the   *)
(* keys differ.                                                                *)
THEOREM KeysAgreeInTime ==
  ASSUME Timely, ~ LateMap
  PROVE  Spec => [](left.restarted \/ KeysAgree)
<1> DEFINE Inv == TypeInv /\ HalfInv /\ (~ left.restarted => AgreeInv /\ OnTime)
<1>1. Init => Inv
  <2>1. Init => OnTime
    <3> SUFFICES ASSUME Init PROVE OnTime
      OBVIOUS
    <3>1. known = [n \in Node |-> TRUE]
      BY DEF Init
    <3> QED BY <3>1, Basics DEF Init, OnTime, IdleWorker
  <2> QED BY <2>1, InitTypes, InitHalf, InitAgrees
<1>2. Inv /\ [Next]_vars => Inv'
  <2> SUFFICES ASSUME Inv, [Next]_vars, ~ left'.restarted PROVE AgreeInv' /\ OnTime'
    BY NextTypes, NextHalf
  <2>1. ~ left.restarted
    BY RestartedStays
  <2> QED BY <2>1, NextOnTime, NextAgrees
<1>3. Inv => left.restarted \/ KeysAgree
  BY Agreement
<1> QED BY <1>1, <1>2, <1>3, PTL DEF Spec
=============================================================================
