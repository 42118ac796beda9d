------------------------------ MODULE PeerPath ------------------------------
(***************************************************************************)
(* Two mesh nodes talking to each other (mesh.py: PeerConn and the part of  *)
(* MeshNode that makes, uses and repairs the path to one peer).             *)
(*                                                                          *)
(* Each node keeps one PeerConn for the other.  A handshake of two packets, *)
(* INIT and RESP, gives both a session; it travels by UDP (which loses,     *)
(* delays and, unless Timely, duplicates) and, when that is slow, over the  *)
(* coordinator's relay ("DERP": a reliable FIFO).  Four kinds of thread of  *)
(* a node interleave: the UDP loop and the control loop handle packets, the *)
(* connect workers drive the handshake and punch holes, the keepalive loop  *)
(* probes direct paths, and the application sends.  A thread works on the   *)
(* PeerConn under its lock and sends packets after releasing it; the steps  *)
(* below are cut at those points.                                           *)
(*                                                                          *)
(* Addresses, indices and keys are abstracted: an ephemeral key is a small  *)
(* number, a session is the pair of ephemerals it was derived from (two     *)
(* nodes can read each other iff their pairs are equal), and a direct path  *)
(* is up or down.  Time passes in ticks of one keepalive interval (15 s).   *)
(***************************************************************************)
EXTENDS Integers, Sequences, FiniteSets

CONSTANTS
  I, R,           \* the nodes; I has the smaller public key (_am_initiator)
  Slots,          \* bound: connect workers a node runs at a time
  MaxEph,         \* bound: ephemeral keys in use at a time
  MaxQueue,       \* PeerConn.queued holds at most 32 payloads
  SilenceLimit,   \* direct_timeout, in ticks (45 s / 15 s)
  MaxDerp,        \* bound: messages on one relay channel
  MaxSends,       \* bound: application messages ...
  SendsPerTick,   \* ... or, if TRUE, messages per tick, for ever
  MaxOutages,     \* bound: outages of the direct path; 0 if it is up from the start
  MaxUpsets,      \* bound: restarts of a node and, unless Timely, ticks
  MaxWorkers,     \* bound: connect workers that get to run, unless Timely
  LateMap,        \* a node may learn of its peer after the peer learns of it
  Timely          \* TRUE: datagrams do not repeat, and while the path is up packets
                  \* arrive within the code's time limits

ASSUME NodesAssumption  == I # R
ASSUME BoundsAssumption ==
  /\ MaxEph \in Nat \ {0}
  /\ {MaxQueue, SilenceLimit, MaxDerp, MaxSends, MaxOutages, MaxUpsets,
      MaxWorkers} \subseteq Nat
  /\ {SendsPerTick, LateMap, Timely} \subseteq BOOLEAN

Node == {I, R}
Peer(n) == IF n = I THEN R ELSE I
Via  == {"udp", "derp"}   \* also names the thread that receives: UDP loop, control loop

Eph   == 1 .. MaxEph
NoEph == 0
NoKey == <<NoEph, NoEph>>  \* PeerConn.session is None
Key   == Eph \X Eph        \* <<initiator's ephemeral, responder's ephemeral>>

Connect   == [type |-> "connect"]
InitMsg(e) == [type |-> "init", eph |-> e]
RespMsg(e) == [type |-> "resp", eph |-> e]
Data(k, kind) == [type |-> "data", key |-> k, kind |-> kind]
Kinds == {"app", "keepalive", "ack"}
Message == {Connect} \cup {InitMsg(e) : e \in Eph} \cup {RespMsg(e) : e \in Eph}
             \cup {Data(k, kind) : k \in Key, kind \in Kinds}

VARIABLES
  conn,     \* conn[n]: n's PeerConn for its peer
  known,    \* known[n]: the peer is in n's map (MeshNode.peers)
  worker,   \* worker[n][s]: a connect worker thread
  after,    \* after[n][v]: what the thread receiving from v still has to send
  keeper,   \* keeper[n]: the keepalive loop
  udp,      \* datagrams under way
  derp,     \* derp[n]: relayed messages on their way to n
  pathUp,   \* pathUp[n]: datagrams from n reach the peer
  left      \* what is left of the bounds on what happens, and whether a node restarted

net  == <<udp, derp>>
vars == <<conn, known, worker, after, keeper, udp, derp, pathUp, left>>

IdleWorker == [pc |-> "idle", body |-> NoEph, punched |-> FALSE, relayed |-> FALSE]
Nothing    == [resp |-> NoEph, out |-> <<>>]

NewConn == [session |-> NoKey, eph |-> NoEph, respEph |-> NoEph,
            transport |-> "connecting", initiated |-> FALSE, queued |-> 0,
            silence |-> 0]

Init ==
  /\ conn = [n \in Node |-> NewConn]
  /\ known \in IF LateMap THEN {[n \in Node |-> FALSE]} ELSE {[n \in Node |-> TRUE]}
  /\ worker = [n \in Node |-> [s \in Slots |-> IdleWorker]]
  /\ after = [n \in Node |-> [v \in Via |-> Nothing]]
  /\ keeper = [n \in Node |-> "asleep"]
  /\ udp = {}
  /\ derp = [n \in Node |-> <<>>]
  /\ pathUp \in IF MaxOutages = 0 THEN {[n \in Node |-> TRUE]} ELSE [Node -> BOOLEAN]
  /\ left = [sends |-> MaxSends, outages |-> MaxOutages,
             upsets |-> MaxUpsets, restarted |-> FALSE, workers |-> MaxWorkers]

-----------------------------------------------------------------------------
(* X25519PrivateKey.generate(): an ephemeral nobody holds and no packet      *)
(* carries.                                                                 *)
EphsInUse ==
  UNION {{conn[n].eph, conn[n].respEph, conn[n].session[1], conn[n].session[2]}
           : n \in Node}
  \cup {worker[n][s].body : n \in Node, s \in Slots}
  \cup {after[n][v].resp : n \in Node, v \in Via}
  \cup UNION {CASE m.type \in {"init", "resp"} -> {m.eph}
                [] m.type = "data"             -> {m.key[1], m.key[2]}
                [] OTHER                       -> {}
               : m \in {p.msg : p \in udp} \cup
                       UNION {{derp[n][i] : i \in DOMAIN derp[n]} : n \in Node}}

CanGenerate == Eph \ EphsInUse # {}
Fresh       == CHOOSE e \in Eph : e \notin EphsInUse

(* self.udp.sendto: lost at once while the path from n is down.              *)
SendUdp(n, msgs) ==
  /\ udp' = IF pathUp[n] THEN udp \cup {[to |-> Peer(n), msg |-> m] : m \in msgs} ELSE udp
  /\ UNCHANGED derp

(* _relay_to: the coordinator forwards to the peer.                          *)
SendDerp(n, msgs) ==
  /\ Len(derp[Peer(n)]) + Len(msgs) <= MaxDerp
  /\ derp' = [derp EXCEPT ![Peer(n)] = @ \o msgs]
  /\ UNCHANGED udp

(* _transmit, for a sequence of payloads of the given kinds.                 *)
Sealed(n, kinds) == [i \in DOMAIN kinds |-> Data(conn[n].session, kinds[i])]

Transmit(n, kinds) ==
  IF conn[n].transport = "direct"
  THEN SendUdp(n, {Sealed(n, kinds)[i] : i \in DOMAIN kinds})
  ELSE SendDerp(n, Sealed(n, kinds))

(* A packet for n comes in and its thread takes it up.  A thread takes up a  *)
(* packet only when it is done with the one before.  Unless Timely, a        *)
(* handshake datagram stays under way when it has been received, for it may  *)
(* come again (data does not: ReplayWindow), and none need ever be received. *)
Receive(n, v, m) ==
  /\ after[n][v] = Nothing
  /\ IF v = "udp"
     THEN /\ [to |-> n, msg |-> m] \in udp
          /\ udp' = IF Timely \/ m.type = "data" THEN udp \ {[to |-> n, msg |-> m]} ELSE udp
          /\ UNCHANGED derp
     ELSE /\ derp[n] # <<>>
          /\ m = Head(derp[n])
          /\ derp' = [derp EXCEPT ![n] = Tail(@)]
          /\ UNCHANGED udp

Pending(n, v) ==
  IF v = "udp" THEN {p.msg : p \in {q \in udp : q.to = n}}
  ELSE IF derp[n] = <<>> THEN {} ELSE {Head(derp[n])}

-----------------------------------------------------------------------------
(* _ensure_connecting: start a connect worker unless one was started; c is   *)
(* the PeerConn as the caller leaves it.                                    *)
EnsureConnecting(n, c) ==
  \/ /\ c.initiated
     /\ conn' = [conn EXCEPT ![n] = c]
     /\ UNCHANGED worker
  \/ /\ ~ c.initiated
     /\ \E s \in Slots : worker[n][s].pc = "idle"
     /\ conn' = [conn EXCEPT ![n] = [c EXCEPT !.initiated = TRUE]]
     /\ LET s == CHOOSE s \in Slots : worker[n][s].pc = "idle" IN
          worker' = [worker EXCEPT ![n][s].pc = "begin"]

(* The application sends a payload (send).  Under the lock it is queued if   *)
(* there is no session; a full queue drops it.                              *)
Send(n) ==
  /\ known[n]
  /\ left.sends > 0
  /\ left' = [left EXCEPT !.sends = @ - 1]
  /\ \/ /\ conn[n].session # NoKey
        /\ Transmit(n, <<"app">>)
        /\ UNCHANGED <<conn, worker>>
     \/ /\ conn[n].session = NoKey
        /\ EnsureConnecting(n, [conn[n] EXCEPT !.queued = IF @ < MaxQueue THEN @ + 1 ELSE @])
        /\ UNCHANGED net
  /\ UNCHANGED <<known, after, keeper, pathUp>>

-----------------------------------------------------------------------------
(* The connect worker (_connect_worker).                                    *)
EveryoneInitiates(n) == TRUE     \* slip: no tie-break
AmInitiator(n)       == n = I

NudgeByInitiator(n) == IF n = I THEN <<Connect>> ELSE <<>>   \* slip: the other side waits
Nudge(n)            == <<Connect>>

(* It nudges the peer over the relay and, at the initiator, reuses or makes  *)
(* the ephemeral its INITs carry.                                           *)
WorkerBegin(n, s) ==
  /\ worker[n][s].pc = "begin"
  /\ SendDerp(n, Nudge(n))
  /\ \/ /\ AmInitiator(n)
        /\ conn[n].eph # NoEph \/ CanGenerate
        /\ LET e == IF conn[n].eph # NoEph THEN conn[n].eph ELSE Fresh IN
             /\ conn' = [conn EXCEPT ![n].eph = e]
             /\ worker' = [worker EXCEPT ![n][s].pc = "loop", ![n][s].body = e]
     \/ /\ ~ AmInitiator(n)
        /\ worker' = [worker EXCEPT ![n][s].pc = "loop", ![n][s].punched = TRUE]
        /\ UNCHANGED conn
  /\ Timely \/ left.workers > 0
  /\ left' = IF Timely THEN left ELSE [left EXCEPT !.workers = @ - 1]
  /\ UNCHANGED <<known, after, keeper, pathUp>>

(* A round of the loop punches at the peer's endpoints, which changes nothing*)
(* here; the initiator's rounds carry an INIT.  If Timely, one round stands  *)
(* for all 24.                                                              *)
WorkerPunch(n, s) ==
  /\ worker[n][s].pc = "loop"
  /\ AmInitiator(n)
  /\ conn[n].transport # "direct"
  /\ Timely => ~ worker[n][s].punched
  /\ SendUdp(n, {InitMsg(worker[n][s].body)})
  /\ worker' = [worker EXCEPT ![n][s].punched = TRUE]
  /\ UNCHANGED <<conn, known, after, keeper, pathUp, left>>

(* No session after 3 s, or no endpoint to try: INIT over the relay, once.   *)
WorkerRelayInit(n, s) ==
  /\ worker[n][s].pc = "loop"
  /\ worker[n][s].punched
  /\ AmInitiator(n) /\ ~ worker[n][s].relayed /\ conn[n].session = NoKey
  /\ SendDerp(n, <<InitMsg(worker[n][s].body)>>)
  /\ worker' = [worker EXCEPT ![n][s].relayed = TRUE]
  /\ UNCHANGED <<conn, known, after, keeper, pathUp, left>>

(* A direct path is locked in: the worker returns; initiated stays TRUE.     *)
WorkerReturn(n, s) ==
  /\ worker[n][s].pc = "loop"
  /\ conn[n].transport = "direct"
  /\ worker' = [worker EXCEPT ![n][s] = IdleWorker]
  /\ UNCHANGED <<conn, known, after, keeper, net, pathUp, left>>

(* If Timely, 6 s are enough for everything under way to arrive.             *)
Quiet ==
  /\ udp = {}
  /\ \A n \in Node : derp[n] = <<>> /\ \A v \in Via : after[n][v] = Nothing

(* After 6 s the worker gives up.  By then it has relayed its INIT, unless   *)
(* there was a session.  It reads the transport without the lock ...         *)
WorkerGiveUp(n, s) ==
  /\ worker[n][s].pc = "loop"
  /\ worker[n][s].punched
  /\ AmInitiator(n) => worker[n][s].relayed \/ conn[n].session # NoKey
  /\ Timely => Quiet
  /\ worker' = [worker EXCEPT ![n][s] =
                  IF conn[n].transport # "direct" THEN [@ EXCEPT !.pc = "rearm"]
                                                  ELSE IdleWorker]
  /\ UNCHANGED <<conn, known, after, keeper, net, pathUp, left>>

(* ... and then re-arms under the lock, whether there is a session or not.   *)
RearmedIfNoSession(c) == IF c.session = NoKey   \* slip: gated on the session
                         THEN [c EXCEPT !.initiated = FALSE, !.eph = NoEph] ELSE c
Rearmed(c) == [c EXCEPT !.initiated = FALSE,
                        !.eph = IF c.session = NoKey THEN NoEph ELSE @]

WorkerRearm(n, s) ==
  /\ worker[n][s].pc = "rearm"
  /\ conn' = [conn EXCEPT ![n] = Rearmed(@)]
  /\ worker' = [worker EXCEPT ![n][s] = IdleWorker]
  /\ UNCHANGED <<known, after, keeper, net, pathUp, left>>

-----------------------------------------------------------------------------
(* Packets come in.  bind_transport at the first session, _upgrade_if_udp    *)
(* after it.                                                                *)
BoundUnflushed(c, v) ==                             \* slip: queued payloads stay
  [c EXCEPT !.transport = IF v = "udp" THEN "direct" ELSE "derp"]
Bound(c, v)    == [c EXCEPT !.transport = IF v = "udp" THEN "direct" ELSE "derp", !.queued = 0]
Upgraded(c, v) == IF v = "udp" THEN [c EXCEPT !.transport = "direct", !.silence = 0] ELSE c

Payloads(k) == [i \in 1 .. k |-> "app"]

(* The ephemeral a responder with a session answers with.                    *)
FabricatedEph(c) == IF CanGenerate THEN Fresh ELSE NoEph    \* slip: a meaningless key
AnswerEph(c)     == c.respEph

(* _handle_hs, INIT: the responder derives a session once, and answers every *)
(* INIT with the ephemeral it derived its session from.                     *)
RecvInit(n, v, e) ==
  /\ known[n]
  /\ Receive(n, v, InitMsg(e))
  /\ \/ /\ conn[n].session = NoKey
        /\ CanGenerate
        /\ conn' = [conn EXCEPT ![n] = [Bound(@, v) EXCEPT !.session = <<e, Fresh>>,
                                                           !.respEph = Fresh]]
        /\ after' = [after EXCEPT ![n][v] = [resp |-> Fresh, out |-> Payloads(conn[n].queued)]]
     \/ /\ conn[n].session # NoKey
        /\ conn' = [conn EXCEPT ![n] = Upgraded(@, v)]
        /\ after' = [after EXCEPT ![n][v].resp = AnswerEph(conn[n])]
  /\ UNCHANGED <<known, worker, keeper, pathUp, left>>

(* _handle_hs, RESP: the initiator derives its session from the ephemeral it *)
(* holds now; without one it drops the RESP.                                *)
RecvResp(n, v, e) ==
  /\ known[n]
  /\ Receive(n, v, RespMsg(e))
  /\ \/ /\ conn[n].session = NoKey /\ conn[n].eph # NoEph
        /\ conn' = [conn EXCEPT ![n] = [Bound(@, v) EXCEPT !.session = <<conn[n].eph, e>>]]
        /\ after' = [after EXCEPT ![n][v].out = Payloads(conn[n].queued)]
     \/ /\ conn[n].session = NoKey /\ conn[n].eph = NoEph
        /\ UNCHANGED <<conn, after>>
     \/ /\ conn[n].session # NoKey
        /\ conn' = [conn EXCEPT ![n] = Upgraded(@, v)]
        /\ UNCHANGED after
  /\ UNCHANGED <<known, worker, keeper, pathUp, left>>

(* _on_from, "connect": the peer wants a path.                               *)
RecvConnect(n) ==
  /\ known[n]
  /\ Receive(n, "derp", Connect)
  /\ EnsureConnecting(n, conn[n])
  /\ UNCHANGED <<known, after, keeper, pathUp, left>>

(* _recv_data: whatever decrypts proves the path alive, whichever way it     *)
(* came; a keepalive is acknowledged.                                       *)
RecvData(n, v, m) ==
  /\ v = "derp" => known[n]
  /\ Receive(n, v, m)
  /\ IF m.key = conn[n].session
     THEN /\ conn' = [conn EXCEPT ![n].silence = 0]
          /\ after' = [after EXCEPT ![n][v].out = IF m.kind = "keepalive" THEN <<"ack">> ELSE <<>>]
     ELSE UNCHANGED <<conn, after>>
  /\ UNCHANGED <<known, worker, keeper, pathUp, left>>

(* A handshake packet or relayed message from a peer not in the map.         *)
RecvUnknown(n, v, m) ==
  /\ ~ known[n]
  /\ v = "derp" \/ m.type # "data"
  /\ Receive(n, v, m)
  /\ UNCHANGED <<conn, known, worker, after, keeper, pathUp, left>>

(* Having released the lock, the receiving thread sends the RESP the way the *)
(* INIT came, and then its payloads the way the PeerConn says by then.       *)
SendResp(n, v) ==
  /\ after[n][v].resp # NoEph
  /\ IF v = "udp" THEN SendUdp(n, {RespMsg(after[n][v].resp)})
                  ELSE SendDerp(n, <<RespMsg(after[n][v].resp)>>)
  /\ after' = [after EXCEPT ![n][v].resp = NoEph]
  /\ UNCHANGED <<conn, known, worker, keeper, pathUp, left>>

SendPayloads(n, v) ==
  /\ after[n][v].resp = NoEph
  /\ after[n][v].out # <<>>
  /\ Transmit(n, after[n][v].out)
  /\ after' = [after EXCEPT ![n][v] = Nothing]
  /\ UNCHANGED <<conn, known, worker, keeper, pathUp, left>>

-----------------------------------------------------------------------------
(* The keepalive loop (_keepalive_loop), woken by every tick.  It passes over *)
(* a PeerConn without a session.  A silent path is probed no more; a working *)
(* one is.                                                                  *)
KeeperProbe(n) ==
  /\ keeper[n] = "awake"
  /\ conn[n].transport = "direct"
  /\ conn[n].silence <= SilenceLimit
  /\ Transmit(n, <<"keepalive">>)
  /\ keeper' = [keeper EXCEPT ![n] = "asleep"]
  /\ UNCHANGED <<conn, known, worker, after, pathUp, left>>

(* It reads transport and last_rx without the lock, decides that the direct  *)
(* path is dead ...                                                         *)
KeeperSilent(n) ==
  /\ keeper[n] = "awake"
  /\ conn[n].transport = "direct"
  /\ conn[n].silence > SilenceLimit
  /\ keeper' = [keeper EXCEPT ![n] = "failing"]
  /\ UNCHANGED <<conn, known, worker, after, net, pathUp, left>>

(* ... and then fails over and starts a worker.                             *)
FailedOverUnarmed(c) == [c EXCEPT !.transport = "derp", !.eph = NoEph]      \* slip
FailedOverAnew(c)    == [c EXCEPT !.transport = "connecting", !.session = NoKey,  \* slip
                                  !.initiated = FALSE, !.eph = NoEph]
FailedOver(c) == [c EXCEPT !.transport = "derp", !.initiated = FALSE, !.eph = NoEph]

KeeperFailover(n) ==
  /\ keeper[n] = "failing"
  /\ EnsureConnecting(n, FailedOver(conn[n]))
  /\ keeper' = [keeper EXCEPT ![n] = "asleep"]
  /\ UNCHANGED <<known, after, net, pathUp, left>>

(* A relayed path: try to punch again.                                      *)
KeeperRetry(n) ==
  /\ keeper[n] = "awake"
  /\ conn[n].transport = "derp"
  /\ EnsureConnecting(n, conn[n])
  /\ keeper' = [keeper EXCEPT ![n] = "asleep"]
  /\ UNCHANGED <<known, after, net, pathUp, left>>

-----------------------------------------------------------------------------
(* The environment.  A keepalive interval passes.  If Timely, 15 s are       *)
(* enough for workers to end and packets to arrive.                         *)
Tick ==
  /\ \A n \in Node : keeper[n] = "asleep"
  /\ Timely => Quiet /\ \A n \in Node, s \in Slots : worker[n][s].pc = "idle"
  /\ conn' = [n \in Node |-> [conn[n] EXCEPT !.silence = IF @ <= SilenceLimit THEN @ + 1 ELSE @]]
  /\ keeper' = [n \in Node |-> IF conn[n].session # NoKey THEN "awake" ELSE "asleep"]
  /\ Timely \/ left.upsets > 0
  /\ left' = [left EXCEPT !.upsets = IF Timely THEN @ ELSE @ - 1,
                          !.sends = IF SendsPerTick THEN MaxSends ELSE @]
  /\ UNCHANGED <<known, worker, after, net, pathUp>>

(* The coordinator's map names the peer (_on_map).                          *)
Learn(n) ==
  /\ ~ known[n]
  /\ known' = [known EXCEPT ![n] = TRUE]
  /\ UNCHANGED <<conn, worker, after, keeper, net, pathUp, left>>

(* A NAT mapping closes or a link fails, in one direction or both ...        *)
PathDown ==
  /\ left.outages > 0
  /\ \E S \in (SUBSET Node) \ {{}} :
       /\ \A n \in S : pathUp[n]
       /\ pathUp' = [n \in Node |-> pathUp[n] /\ n \notin S]
  /\ left' = [left EXCEPT !.outages = @ - 1]
  /\ UNCHANGED <<conn, known, worker, after, keeper, net>>

(* ... and works again.                                                     *)
PathHeals ==
  /\ pathUp # [n \in Node |-> TRUE]
  /\ pathUp' = [n \in Node |-> TRUE]
  /\ UNCHANGED <<conn, known, worker, after, keeper, net, left>>

(* A node's process ends and is started again: it forgets its PeerConns, and *)
(* its peer does not notice.                                                *)
Restart(n) ==
  /\ left.upsets > 0
  /\ left' = [left EXCEPT !.upsets = @ - 1, !.restarted = TRUE]
  /\ conn' = [conn EXCEPT ![n] = NewConn]
  /\ known' \in IF LateMap THEN {[known EXCEPT ![n] = FALSE], [m \in Node |-> FALSE]}
                           ELSE {known}
  /\ worker' = [worker EXCEPT ![n] = [s \in Slots |-> IdleWorker]]
  /\ after' = [after EXCEPT ![n] = [v \in Via |-> Nothing]]
  /\ keeper' = [keeper EXCEPT ![n] = "asleep"]
  /\ derp' = [derp EXCEPT ![n] = <<>>]
  /\ UNCHANGED <<udp, pathUp>>

-----------------------------------------------------------------------------
RunWorker(n, s) ==
  \/ WorkerBegin(n, s) \/ WorkerPunch(n, s) \/ WorkerRelayInit(n, s)
  \/ WorkerReturn(n, s) \/ WorkerGiveUp(n, s) \/ WorkerRearm(n, s)

RunReceiver(n, v) ==
  \/ \E e \in Eph : RecvInit(n, v, e) \/ RecvResp(n, v, e)
  \/ v = "derp" /\ RecvConnect(n)
  \/ \E m \in Pending(n, v) : m.type = "data" /\ RecvData(n, v, m)
  \/ \E m \in Pending(n, v) : RecvUnknown(n, v, m)
  \/ SendResp(n, v)
  \/ SendPayloads(n, v)

RunKeeper(n) ==
  \/ KeeperProbe(n) \/ KeeperSilent(n) \/ KeeperFailover(n) \/ KeeperRetry(n)

Environment ==
  \/ Tick \/ PathDown \/ PathHeals
  \/ \E n \in Node : Learn(n) \/ Restart(n)

Next ==
  \/ \E n \in Node : Send(n) \/ RunKeeper(n)
  \/ \E n \in Node, s \in Slots : RunWorker(n, s)
  \/ \E n \in Node, v \in Via : RunReceiver(n, v)
  \/ Environment

Spec == Init /\ [][Next]_vars

(* Every thread of a node keeps running and time passes; the application,    *)
(* outages and restarts owe nothing.  An outage ends in the end.            *)
Fairness ==
  /\ \A n \in Node : WF_vars(RunKeeper(n)) /\ WF_vars(Learn(n))
  /\ \A n \in Node, s \in Slots : WF_vars(RunWorker(n, s))
  /\ \A n \in Node, v \in Via : WF_vars(RunReceiver(n, v))
  /\ WF_vars(Tick)

FairSpec    == Spec /\ Fairness
HealingSpec == FairSpec /\ WF_vars(PathHeals)

-----------------------------------------------------------------------------
(* What the variables range over: a full queue holds MaxQueue payloads, and  *)
(* "direct" and "derp" imply a session.                                     *)
PeerConns ==
  [session : Key \cup {NoKey}, eph : Eph \cup {NoEph}, respEph : Eph \cup {NoEph},
   transport : {"connecting", "direct", "derp"}, initiated : BOOLEAN,
   queued : 0 .. MaxQueue, silence : 0 .. SilenceLimit + 1]
Workers ==
  [pc : {"idle", "begin", "loop", "rearm"}, body : Eph \cup {NoEph},
   punched : BOOLEAN, relayed : BOOLEAN]
Afters == [resp : Eph \cup {NoEph}, out : Seq({"app", "ack"})]
Remaining ==
  [sends : Nat, outages : Nat, upsets : Nat, restarted : BOOLEAN, workers : Nat]

TypeOK ==
  /\ conn \in [Node -> PeerConns]
  /\ \A n \in Node : conn[n].session = NoKey <=> conn[n].transport = "connecting"
  /\ worker \in [Node -> [Slots -> Workers]]
  /\ after \in [Node -> [Via -> Afters]]
  /\ keeper \in [Node -> {"asleep", "awake", "failing"}]
  /\ derp \in [Node -> Seq(Message)]
  /\ known \in [Node -> BOOLEAN] /\ pathUp \in [Node -> BOOLEAN]
  /\ udp \in SUBSET [to : Node, msg : Message]
  /\ left \in Remaining

(* Both nodes up means both can read each other: their sessions come from    *)
(* the same pair of ephemerals.                                             *)
KeysAgree ==
  \A n \in Node : conn[n].session # NoKey /\ conn[Peer(n)].session # NoKey
     => conn[n].session = conn[Peer(n)].session

(* A responder answers only with the ephemeral it derived its own session    *)
(* from ("the real responder ephemeral"), so short of restarts the two       *)
(* sessions share it even when the initiator has changed its ephemeral.      *)
ResponderHalfAgrees ==
  conn[I].session # NoKey /\ conn[R].session # NoKey /\ ~ left.restarted
     => conn[I].session[2] = conn[R].session[2]

(* No payload waits in the queue of a node that has a session: nothing would *)
(* ever send it.  Racing send() and _handle_hs must not leave one there.     *)
NothingStranded == \A n \in Node : conn[n].session # NoKey => conn[n].queued = 0

(* A node that counts as connecting, and has no direct path, has a worker    *)
(* at it: otherwise `initiated` keeps every later worker from starting.      *)
WorkerArmed ==
  \A n \in Node : conn[n].initiated /\ conn[n].transport # "direct"
     => \E s \in Slots : worker[n][s].pc # "idle"

(* The session of a running node is never replaced: failing over, upgrading  *)
(* and late or repeated handshake packets all keep it, and with it its       *)
(* counters (a new Session under an old key would repeat nonces).            *)
SessionKept ==
  [][\A n \in Node : conn[n].session # NoKey /\ conn'[n] # NewConn
        => conn'[n].session = conn[n].session]_vars

(* A payload that was queued for want of a session leaves the queue.         *)
QueuedLeaves == \A n \in Node : (conn[n].queued > 0) ~> (conn[n].queued = 0)

(* The node with the smaller key gets from the relay back to a direct path   *)
(* once the path works, however often it gave up before.                    *)
InitiatorUpgrades == (conn[I].transport = "derp") ~> (conn[I].transport = "direct")

(* So does the other node ("periodically re-punched so it can upgrade back   *)
(* to direct", README.md).  It does not, and no run checks it.               *)
ResponderUpgrades == (conn[R].transport = "derp") ~> (conn[R].transport = "direct")

(* "A silent direct path fails over to DERP" (README.md): a node to which    *)
(* nothing gets through directly leaves the direct path, or the path works   *)
(* again.  It does not while relayed packets keep coming in; no run checks it. *)
SilentPathFailsOver ==
  \A n \in Node :
     (conn[n].transport = "direct" /\ ~ pathUp[Peer(n)])
       ~> (conn[n].transport # "direct" \/ pathUp[Peer(n)])

=============================================================================
