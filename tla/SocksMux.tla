------------------------------ MODULE SocksMux ------------------------------
(***************************************************************************)
(* The SOCKS5 tunnel of remote_desktop.py: _SocksMux on the entry machine    *)
(* and _GatewayMux on the exit machine, over one secure channel.             *)
(*                                                                          *)
(* On each side one reader thread dispatches the frames of the channel, and   *)
(* every stream has a thread of its own: the SOCKS handler at the entry, the  *)
(* opener at the exit, which both end up in _pump(), reading the local        *)
(* socket.  self.lock is held for single lookups, so each is one step; the    *)
(* one exception is modelled (see Insert).  A socket that is closed while     *)
(* its pump is inside recv() stays connected until recv() returns ("late"):   *)
(* that is what close() does on Linux; macOS wakes the pump up.               *)
(***************************************************************************)
EXTENDS Integers, Sequences, FiniteSets, Functions

CONSTANTS Tcp, Udp,     \* stream ids of the CONNECT and the UDP ASSOCIATE requests
          None,
          MaxStreams,   \* _MAX_STREAMS, 256 in the code
          MaxRequests,  \* bound: requests that applications make
          MaxChunks     \* bound: chunks that applications and servers write

ASSUME SocksMuxAssumption ==
  /\ Tcp \cap Udp = {}
  /\ {None, "recv", "leave", "returned"} \cap (Tcp \cup Udp) = {}   \* what reader can be
  /\ MaxStreams \in Nat \ {0}
  /\ MaxRequests \in Nat /\ MaxChunks \in Nat

VARIABLES link,     \* the channel: "up", "cut" (both ends can tell), or "silent"
          wire,     \* wire[x]: the frames on their way to side x
          done,     \* self.done
          stopper,  \* the thread inside stop() that has not cleared the tables yet
          lock,     \* self.lock, when it is held for longer than a step
          reader,   \* run(): "recv", the stream whose MUX_DATA it delivers, "leave", "returned"
          table,    \* self.streams and self.udp
          thread,   \* where the stream's own thread is
          sock,     \* the stream's local socket
          far,      \* its other end, an application or a server: "up" or "shut"
          answer,   \* st.connected and st.err at the entry
          replied,  \* the streams whose application has been written the SOCKS reply
          ready,    \* the streams whose st.ready is set
          gaveUp,   \* the streams whose handler stopped waiting for the gateway's answer
          cutOff,   \* history: streams that the reader closed under a running pump
          out, in   \* chunks read from the local socket, and written to it

muxVars    == <<wire, done, stopper>>
streamVars == <<table, thread, sock>>
replyVars  == <<answer, replied, ready, gaveUp>>
appVars    == <<far, replyVars, cutOff, out, in>>
vars == <<link, wire, done, stopper, lock, reader, table, thread, sock,
          far, answer, replied, ready, gaveUp, cutOff, out, in>>

Entry == "socks"
Exit  == "gateway"
Sides == {Entry, Exit}
Other(x) == IF x = Entry THEN Exit ELSE Entry
Sids  == Tcp \cup Udp
Types == {"OPEN", "OK", "ERR", "DATA", "CLOSE", "UDP_ASSOC", "UDP_CLOSE"}
Steps == {"none", "checked", "wait", "written",  \* _connect()
          "bind", "hold",                     \* _udp_associate()
          "dial", "dialed",                   \* _open()
          "read", "got", "eof", "end"}        \* _pump(), _udp_recv()

TypeOK ==
  /\ link \in {"up", "cut", "silent"}
  /\ \A x \in Sides : \A i \in DOMAIN wire[x] : wire[x][i] \in Types \X Sids
  /\ done \in [Sides -> BOOLEAN]
  /\ \A x \in Sides : stopper[x] # None => done[x]
  /\ stopper \in [Sides -> Sids \cup {None, "reader", "beat"}]
  /\ lock \in [Sides -> Sids \cup {None}]
  /\ reader \in [Sides -> Sids \cup {"recv", "leave", "returned"}]
  /\ table \in [Sides -> SUBSET Sids]
  /\ thread \in [Sides -> [Sids -> Steps]]
  /\ sock \in [Sides -> [Sids -> {"none", "open", "late", "closed"}]]
  /\ far \in [Sides -> [Sids -> {"up", "shut"}]]
  /\ answer \in [Sids -> {"no", "ok", "err"}]
  /\ replied \in SUBSET Tcp /\ ready \in SUBSET Tcp
  /\ gaveUp \in SUBSET Sids
  /\ cutOff \in [Sides -> SUBSET Tcp]
  /\ out \in [Sides -> [Sids -> 0 .. MaxChunks]]
  /\ in \in [Sides -> [Sids -> 0 .. MaxChunks]]

Each(v) == [x \in Sides |-> [s \in Sids |-> v]]

Init ==
  /\ link = "up"
  /\ wire = [x \in Sides |-> <<>>]
  /\ done = [x \in Sides |-> FALSE]
  /\ stopper = [x \in Sides |-> None]
  /\ lock = [x \in Sides |-> None]
  /\ reader = [x \in Sides |-> "recv"]
  /\ table = [x \in Sides |-> {}]
  /\ thread = Each("none") /\ sock = Each("none") /\ far = Each("up")
  /\ answer = [s \in Sids |-> "no"]
  /\ replied = {} /\ ready = {} /\ gaveUp = {}
  /\ cutOff = [x \in Sides |-> {}]
  /\ out = Each(0) /\ in = Each(0)

-----------------------------------------------------------------------------
Free(x) == lock[x] = None                       \* self.lock can be taken
Runs(x, t) == stopper[x] # t                    \* thread t is not inside stop()
Goto(x, s, step) == thread' = [thread EXCEPT ![x][s] = step]

(* stop(), up to the lock: only the first caller goes on to clear.            *)
Stop(x, t) ==
  \/ done[x] /\ UNCHANGED <<done, stopper>>
  \/ /\ ~done[x]
     /\ done' = [done EXCEPT ![x] = TRUE]
     /\ stopper' = [stopper EXCEPT ![x] = t]

(* The channel keeps the order of frames: its senders hold _send_lock.         *)
CloseFirst(q, f) == IF f[1] = "CLOSE" THEN <<f>> \o q ELSE Append(q, f)  \* slip
Queue(q, f) == Append(q, f)

(* send() by thread t of side x.  On a broken channel the frame may be lost   *)
(* unnoticed, or the exception makes t call stop().                           *)
Send(x, t, type, s) ==
  \/ /\ link = "up"
     /\ wire' = [wire EXCEPT ![Other(x)] = Queue(@, <<type, s>>)]
     /\ UNCHANGED <<done, stopper>>
  \/ link # "up" /\ UNCHANGED muxVars
  \/ link # "up" /\ Stop(x, t) /\ UNCHANGED wire

(* The sockets of side x after close() of those in ss.                        *)
InRecv(x, s) == thread[x][s] \in (IF s \in Tcp THEN {"read"} ELSE {"read", "hold", "end"})
Closed(x, ss) ==
  [sock EXCEPT ![x] = [s \in Sids |->
     IF s \in ss /\ @[s] = "open" THEN IF InRecv(x, s) THEN "late" ELSE "closed" ELSE @[s]]]

(* _remove() and _remove_udp().                                              *)
Remove(x, s) ==
  /\ table' = [table EXCEPT ![x] = @ \ {s}]
  /\ sock' = IF s \in table[x] THEN Closed(x, {s}) ELSE sock

(* The rest of stop(), by the thread that set done.                           *)
Clear(x) ==
  /\ stopper[x] # None /\ Free(x)
  /\ table' = [table EXCEPT ![x] = {}]
  /\ sock' = Closed(x, table[x])
  /\ stopper' = [stopper EXCEPT ![x] = None]
  /\ UNCHANGED <<link, wire, done, lock, reader, thread, appVars>>

-----------------------------------------------------------------------------
(* handle() and _connect(): one CONNECT request of a local application.        *)

(* The request is read, and done looked at, before the lock is taken.          *)
Handle(s) ==
  /\ thread[Entry][s] = "none"
  /\ Cardinality({r \in Sids : thread[Entry][r] # "none"}) < MaxRequests
  /\ LET refused == s \in Tcp /\ done[Entry] IN
     /\ Goto(Entry, s, IF refused THEN "end" ELSE IF s \in Tcp THEN "checked" ELSE "bind")
     /\ sock' = [sock EXCEPT ![Entry][s] = IF refused THEN "closed" ELSE "open"]
  /\ UNCHANGED <<link, muxVars, lock, reader, table, appVars>>

FullIgnored(x) == FALSE                                   \* slip: no limit
Full(x) == Cardinality(table[x] \cap Tcp) >= MaxStreams

(* The stream enters the table, then MUX_OPEN is sent; or there is no room.    *)
Connect(s) ==
  /\ thread[Entry][s] = "checked" /\ Free(Entry)
  /\ IF Full(Entry)
     THEN /\ Goto(Entry, s, "end")
          /\ sock' = Closed(Entry, {s})
          /\ UNCHANGED <<table, muxVars>>
     ELSE /\ Send(Entry, s, "OPEN", s)
          /\ Goto(Entry, s, "wait")
          /\ table' = [table EXCEPT ![Entry] = @ \cup {s}]
          /\ UNCHANGED sock
  /\ UNCHANGED <<link, lock, reader, appVars>>

(* _pump() looks at done before it calls recv() (again).                      *)
Pumping(x, s) == Goto(x, s, IF done'[x] THEN "eof" ELSE "read")

(* MUX_OK was dispatched: first the application gets its reply, then st.ready is    *)
(* set, and the pump starts.                                                  *)
ReadyThenReply(s, step) ==                                \* slip: the wrong order
  /\ ready' = IF step = "wait" THEN ready \cup {s} ELSE ready
  /\ replied' = IF step = "written" THEN replied \cup {s} ELSE replied
ReplyThenReady(s, step) ==
  /\ replied' = IF step = "wait" THEN replied \cup {s} ELSE replied
  /\ ready' = IF step = "written" THEN ready \cup {s} ELSE ready

WriteReply(s) ==
  /\ thread[Entry][s] = "wait" /\ Runs(Entry, s)
  /\ answer[s] = "ok"
  /\ sock[Entry][s] = "open"
  /\ ReplyThenReady(s, "wait")
  /\ Goto(Entry, s, "written")
  /\ UNCHANGED <<link, muxVars, lock, reader, table, sock, far, answer, gaveUp, cutOff, out, in>>

SetReady(s) ==
  /\ thread[Entry][s] = "written"
  /\ ReplyThenReady(s, "written")
  /\ UNCHANGED muxVars /\ Pumping(Entry, s)
  /\ UNCHANGED <<link, lock, reader, table, sock, far, answer, gaveUp, cutOff, out, in>>

(* Or the reply cannot be written.                                           *)
ReplyFails(s) ==
  /\ thread[Entry][s] = "wait" /\ Runs(Entry, s) /\ Free(Entry)
  /\ answer[s] = "ok"
  /\ sock[Entry][s] # "open" \/ far[Entry][s] = "shut"
  /\ Remove(Entry, s)
  /\ Send(Entry, s, "CLOSE", s)
  /\ Goto(Entry, s, "end")
  /\ UNCHANGED <<link, lock, reader, appVars>>

(* MUX_ERR was dispatched, or 15 s have passed without an answer.  The gateway *)
(* is told nothing.                                                          *)
NotConnected(s) ==
  /\ thread[Entry][s] = "wait" /\ Runs(Entry, s) /\ Free(Entry)
  /\ answer[s] # "ok"
  /\ gaveUp' = IF answer[s] = "no" THEN gaveUp \cup {s} ELSE gaveUp
  /\ Remove(Entry, s)
  /\ Goto(Entry, s, "end")
  /\ UNCHANGED <<link, muxVars, lock, reader, far, answer, replied, ready, cutOff, out, in>>

-----------------------------------------------------------------------------
(* _open(): the gateway's thread for one MUX_OPEN. *)

(* The target is not allowed or cannot be reached, or it is connected.         *)
Refuse(s) ==
  /\ thread[Exit][s] = "dial"
  /\ Send(Exit, s, "ERR", s)
  /\ Goto(Exit, s, "end")
  /\ UNCHANGED <<link, lock, reader, table, sock, appVars>>

Dial(s) ==
  /\ thread[Exit][s] = "dial"
  /\ Goto(Exit, s, "dialed")
  /\ sock' = [sock EXCEPT ![Exit][s] = "open"]
  /\ UNCHANGED <<link, muxVars, lock, reader, table, appVars>>

(* The stream enters the table and MUX_OK is sent.  If it may not, MUX_ERR is   *)
(* sent with the lock held: a thread that then calls stop() waits for itself.   *)
Barred == done[Exit] \/ Full(Exit)

Insert(s) ==
  /\ thread[Exit][s] = "dialed" /\ Free(Exit)
  /\ ~Barred
  /\ table' = [table EXCEPT ![Exit] = @ \cup {s}]
  /\ Send(Exit, s, "OK", s)
  /\ Pumping(Exit, s)
  /\ UNCHANGED <<link, lock, reader, sock, appVars>>

Bar(s) ==
  /\ thread[Exit][s] = "dialed" /\ Free(Exit)
  /\ Barred
  /\ sock' = Closed(Exit, {s})
  /\ Send(Exit, s, "ERR", s)
  /\ lock' = [lock EXCEPT ![Exit] = IF stopper'[Exit] = s THEN s ELSE None]
  /\ Goto(Exit, s, "end")
  /\ UNCHANGED <<link, reader, table, appVars>>

-----------------------------------------------------------------------------
(* _pump(): recv() and MUX_DATA until the socket ends, then MUX_CLOSE.         *)

(* recv() has returned: a socket closed meanwhile is gone now.                *)
Back(x, s) == [sock EXCEPT ![x][s] = IF @ = "late" THEN "closed" ELSE @]

Chunks == SumFunctionOnSet(out[Entry], Sids) + SumFunctionOnSet(out[Exit], Sids)

(* recv() returns a chunk, maybe one that was written before the far end shut or    *)
(* before the socket was closed; then it is sent, whatever happened in between.    *)
PumpReads(x, s) ==
  /\ s \in Tcp /\ thread[x][s] = "read" /\ Runs(x, s)
  /\ sock[x][s] # "closed" /\ Chunks < MaxChunks
  /\ out' = [out EXCEPT ![x][s] = @ + 1]
  /\ sock' = Back(x, s)
  /\ Goto(x, s, "got")
  /\ UNCHANGED <<link, muxVars, lock, reader, table, far, replyVars, cutOff, in>>

PumpSends(x, s) ==
  /\ s \in Tcp /\ thread[x][s] = "got" /\ Runs(x, s)
  /\ Send(x, s, "DATA", s)
  /\ Pumping(x, s)
  /\ UNCHANGED <<link, lock, reader, table, sock, appVars>>

AfterPump(x, s) ==
  /\ Free(x)
  /\ Send(x, s, "CLOSE", s)
  /\ table' = [table EXCEPT ![x] = @ \ {s}]
  /\ sock' = [sock EXCEPT ![x][s] = "closed"]
  /\ Goto(x, s, "end")
  /\ UNCHANGED <<link, lock, reader, appVars>>

PumpEnds(x, s) ==
  /\ s \in Tcp /\ Runs(x, s)
  /\ \/ thread[x][s] = "eof"
     \/ thread[x][s] = "read" /\ (far[x][s] = "shut" \/ sock[x][s] = "closed")
  /\ AfterPump(x, s)

(* macOS: close() ends a recv() that waits.                                   *)
PumpWakes(x, s) ==
  /\ s \in Tcp /\ Runs(x, s)
  /\ thread[x][s] = "read" /\ sock[x][s] = "late"
  /\ AfterPump(x, s)

-----------------------------------------------------------------------------
(* _udp_associate(): the associate lives as long as the control connection.    *)
(* Datagrams themselves are relayed without state and left out.               *)
Associate(s) ==
  /\ thread[Entry][s] = "bind" /\ Free(Entry)
  /\ table' = [table EXCEPT ![Entry] = @ \cup {s}]
  /\ Send(Entry, s, "UDP_ASSOC", s)
  /\ Goto(Entry, s, "hold")
  /\ UNCHANGED <<link, lock, reader, sock, appVars>>

(* The socket cannot be bound: nobody hears of the associate.                   *)
BindFails(s) ==
  /\ thread[Entry][s] = "bind"
  /\ sock' = Closed(Entry, {s})
  /\ Goto(Entry, s, "end")
  /\ UNCHANGED <<link, muxVars, lock, reader, table, appVars>>

(* The reply to the application fails: the gateway is not told.                *)
AssociateFails(s) ==
  /\ thread[Entry][s] = "bind" /\ Free(Entry)
  /\ far[Entry][s] = "shut"
  /\ Send(Entry, s, "UDP_ASSOC", s)
  /\ sock' = Closed(Entry, {s})
  /\ gaveUp' = gaveUp \cup {s}
  /\ Goto(Entry, s, "end")
  /\ UNCHANGED <<link, lock, reader, table, far, answer, replied, ready, cutOff, out, in>>

AfterHold(s) ==
  /\ thread[Entry][s] = "hold" /\ Runs(Entry, s) /\ Free(Entry)
  /\ Send(Entry, s, "UDP_CLOSE", s)
  /\ Remove(Entry, s)
  /\ Goto(Entry, s, "end")
  /\ UNCHANGED <<link, lock, reader, appVars>>

ControlEnds(s) == far[Entry][s] = "shut" /\ AfterHold(s)

(* done is looked at, too: at once, or when the application has written a byte.   *)
HoldSeesDone(s) == done[Entry] /\ AfterHold(s)

(* A datagram lets the thread that reads a closed UDP socket notice.           *)
DatagramEnds(x, s) ==
  /\ s \in Udp
  /\ sock[x][s] = "late"
  /\ sock' = Back(x, s)
  /\ thread' = IF x = Exit THEN [thread EXCEPT ![Exit][s] = "end"] ELSE thread
  /\ UNCHANGED <<link, muxVars, lock, reader, table, appVars>>

-----------------------------------------------------------------------------
(* run(): the reader thread takes a frame and dispatches it. *)
NextRead(x) == IF done[x] THEN "leave" ELSE "recv"

Arrived(x, type, s) ==
  /\ reader[x] = "recv" /\ Runs(x, "reader")
  /\ wire[x] # <<>> /\ Head(wire[x]) = <<type, s>>
  /\ wire' = [wire EXCEPT ![x] = Tail(@)]
  /\ UNCHANGED <<link, done, stopper, lock, far, replied, ready, gaveUp, cutOff, out, in>>

GetAnswer(s, type, result) ==
  /\ Arrived(Entry, type, s) /\ Free(Entry)
  /\ answer' = IF s \in table[Entry] THEN [answer EXCEPT ![s] = result] ELSE answer
  /\ reader' = [reader EXCEPT ![Entry] = NextRead(Entry)]
  /\ UNCHANGED streamVars

GetOpen(s) ==
  /\ Arrived(Exit, "OPEN", s)
  /\ Goto(Exit, s, "dial")
  /\ reader' = [reader EXCEPT ![Exit] = NextRead(Exit)]
  /\ UNCHANGED <<table, sock, answer>>

GetData(x, s) ==
  /\ Arrived(x, "DATA", s) /\ Free(x)
  /\ reader' = [reader EXCEPT ![x] = IF s \in table[x] THEN s ELSE NextRead(x)]
  /\ UNCHANGED <<streamVars, answer>>

CloseIgnored(x, s) == UNCHANGED <<table, sock>>           \* slip: nothing removed
ClosedByPeer(x, s) == Remove(x, s)

GetClose(x, s) ==
  /\ Arrived(x, "CLOSE", s) \/ Arrived(x, "UDP_CLOSE", s)
  /\ Free(x)
  /\ ClosedByPeer(x, s)
  /\ reader' = [reader EXCEPT ![x] = NextRead(x)]
  /\ UNCHANGED <<thread, answer>>

(* _udp_open() looks neither at done nor at a limit.                          *)
GetAssoc(s) ==
  /\ Arrived(Exit, "UDP_ASSOC", s) /\ Free(Exit)
  /\ table' = [table EXCEPT ![Exit] = @ \cup {s}]
  /\ sock' = [sock EXCEPT ![Exit][s] = "open"]
  /\ Goto(Exit, s, "read")
  /\ reader' = [reader EXCEPT ![Exit] = NextRead(Exit)]
  /\ UNCHANGED answer

(* MUX_DATA waits, at the entry, for the reply to the application, then is     *)
(* written to the local socket; bytes for an end that is gone may vanish.      *)
Deliver(x) ==
  \E s \in Tcp :
    /\ reader[x] = s
    /\ x = Entry => s \in ready
    /\ sock[x][s] = "open"
    /\ in' = [in EXCEPT ![x][s] = IF far[x][s] = "up" THEN @ + 1 ELSE @]
    /\ reader' = [reader EXCEPT ![x] = NextRead(x)]
    /\ UNCHANGED <<link, muxVars, lock, streamVars, far, replyVars, cutOff, out>>

(* The write fails, or 15 s pass and the handler has given up meanwhile.       *)
DeliverFails(x) ==
  \E s \in Tcp :
    /\ reader[x] = s /\ Free(x)
    /\ \/ x = Entry /\ s \notin ready /\ thread[x][s] = "end"
       \/ (x = Entry => s \in ready) /\ (sock[x][s] # "open" \/ far[x][s] = "shut")
    /\ Remove(x, s)
    /\ Send(x, "reader", "CLOSE", s)
    /\ cutOff' = [cutOff EXCEPT ![x] = IF thread[x][s] = "end" THEN @ ELSE @ \cup {s}]
    /\ reader' = [reader EXCEPT ![x] = NextRead(x)]
    /\ UNCHANGED <<link, lock, thread, far, replyVars, out, in>>

(* recv() raises; or it times out, which is ignored, and done is looked at.    *)
NoticedIfCut(x) == link = "cut"                           \* slip: done is not looked at
Noticed(x) == link = "cut" \/ done[x]

Leave(x) ==
  /\ reader[x] \in {"recv", "leave"} /\ Runs(x, "reader")
  /\ reader[x] = "leave" \/ Noticed(x)
  /\ Stop(x, "reader")
  /\ reader' = [reader EXCEPT ![x] = "returned"]
  /\ UNCHANGED <<link, wire, lock, streamVars, appVars>>

(* _keepalive_loop() of the entry: sending on a broken channel fails one day.  *)
Beat ==
  /\ link # "up" /\ ~done[Entry]
  /\ Stop(Entry, "beat")
  /\ UNCHANGED <<link, wire, lock, reader, streamVars, appVars>>

-----------------------------------------------------------------------------
(* The channel breaks, or the machine or path between dies without a word; what *)
(* is under way is lost.  An application or a server closes.                   *)
Break ==
  /\ link = "up"
  /\ link' \in {"cut", "silent"}
  /\ wire' = [x \in Sides |-> <<>>]
  /\ UNCHANGED <<done, stopper, lock, reader, streamVars, appVars>>

FarShuts(x, s) ==
  /\ far[x][s] = "up" /\ sock[x][s] \in {"open", "late"}
  /\ s \in Tcp \/ x = Entry
  /\ far' = [far EXCEPT ![x][s] = "shut"]
  /\ UNCHANGED <<link, muxVars, lock, reader, streamVars, replyVars, cutOff, out, in>>

-----------------------------------------------------------------------------
ReaderStep(x) ==
  \/ Leave(x) \/ Deliver(x) \/ DeliverFails(x)
  \/ \E s \in Sids : GetData(x, s) \/ GetClose(x, s)
  \/ x = Entry /\ \E s \in Sids : GetAnswer(s, "OK", "ok") \/ GetAnswer(s, "ERR", "err")
  \/ x = Exit /\ ((\E s \in Tcp : GetOpen(s)) \/ (\E s \in Udp : GetAssoc(s)))

EntryStep(s) ==
  \/ s \in Tcp /\ (\/ Connect(s) \/ WriteReply(s) \/ SetReady(s) \/ ReplyFails(s)
                   \/ NotConnected(s) \/ PumpSends(Entry, s) \/ PumpEnds(Entry, s))
  \/ s \in Udp /\ (Associate(s) \/ BindFails(s) \/ AssociateFails(s) \/ ControlEnds(s))

ExitStep(s) ==
  \/ Dial(s) \/ Refuse(s) \/ Insert(s) \/ Bar(s) \/ PumpSends(Exit, s) \/ PumpEnds(Exit, s)

Next ==
  \/ \E x \in Sides : ReaderStep(x) \/ Clear(x)
  \/ \E s \in Sids : Handle(s) \/ EntryStep(s) \/ ExitStep(s)
  \/ \E s \in Udp : HoldSeesDone(s)
  \/ \E x \in Sides, s \in Sids :
       PumpReads(x, s) \/ PumpWakes(x, s) \/ DatagramEnds(x, s) \/ FarShuts(x, s)
  \/ Beat \/ Break

Spec == Init /\ [][Next]_vars

(* Threads that can run do, timeouts fire, applications and servers read what  *)
(* they are sent, and a sender on a dead path gets its error in the end.       *)
(* Nobody has to write or to close, and close() need not wake anyone.          *)
FairSpec ==
  /\ Spec
  /\ \A x \in Sides : WF_vars(ReaderStep(x)) /\ WF_vars(Clear(x))
  /\ \A s \in Sids : WF_vars(EntryStep(s)) /\ WF_vars(ExitStep(s))
  /\ WF_vars(Beat)

-----------------------------------------------------------------------------
(* Properties. *)

(* The gateway's thread that waits for a lock it holds (remote_desktop.py:1170). *)
Wedged == lock[Exit] # None

(* MAX_STREAMS bounds the streams of each side, however many threads open.     *)
WithinLimit == \A x \in Sides : Cardinality(table[x] \cap Tcp) <= MaxStreams

(* The SOCKS reply is the first thing the application reads: the reader thread      *)
(* writes it no byte of the server before the handler thread has written the reply. *)
ReplyFirst == \A s \in Tcp : in[Entry][s] > 0 => s \in replied

(* An end of stream is not a truncation: as long as the tunnel holds, an        *)
(* application or a server that did not close itself and sees its connection    *)
(* end has received all that was read from the other end.  The code has one      *)
(* exception: a reader that cannot write sends MUX_CLOSE although its pump may    *)
(* hold a chunk, which follows the MUX_CLOSE and is dropped; never more than one.  *)
EndIsTruthful ==
  \A x \in Sides, s \in Tcp :
    link = "up" /\ s \in ready /\ sock[x][s] = "closed" /\ far[x][s] = "up"
      => LET y == Other(x) IN
         \/ in[x][s] = out[y][s]
         \/ s \in cutOff[y] /\ in[x][s] + 1 = out[y][s]

(* A stream that has ended on one side leaves the table of the other, unless    *)
(* the tunnel breaks or the handler had given up on it.                        *)
BothEndsLeave ==
  \A x \in Sides, s \in Sids :
    (thread[x][s] = "end" /\ link = "up")
      ~> s \notin table[Other(x)] \/ link # "up" \/ s \in gaveUp \/ Wedged

(* run() returns when the channel breaks, so that the outer loop reconnects,    *)
(* and no stream stays behind.  The code has two exceptions: the wedged gateway, *)
(* and a gateway whose channel went silent, as it never sends on its own.       *)
BreakIsNoticed ==
  \A x \in Sides :
    link = "cut" \/ (link = "silent" /\ x = Entry)
      ~> Wedged \/ (reader[x] = "returned" /\ table[x] \cap Tcp = {})

(* "stream closed", in both directions: a server that closes is seen to close   *)
(* by the application.                                                        *)
CloseReachesApplication ==
  \A s \in Tcp : s \in ready /\ far[Exit][s] = "shut" /\ link = "up"
                   ~> sock[Entry][s] = "closed" \/ link # "up"
=============================================================================
