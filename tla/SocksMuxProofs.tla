---------------------------- MODULE SocksMuxProofs ----------------------------
(**************************************************************************************)
(* Safety theorems about SocksMux, for any streams, limit, and number of              *)
(* requests and chunks.                                                               *)
(**************************************************************************************)
EXTENDS SocksMux, FiniteSetTheorems, TLAPS

-----------------------------------------------------------------------------
(* The limit is about finite sets; both properties concern two variables only.        *)
Tables == table \in [Sides -> SUBSET Sids]
Written == in \in [Sides -> [Sids -> Nat]]
FiniteLimit ==
  \A x \in Sides : IsFiniteSet(table[x] \cap Tcp) /\ Cardinality(table[x] \cap Tcp) <= MaxStreams

LimitInv == Tables /\ FiniteLimit

(* st.ready is set by the thread that has written the reply.                          *)
Answers ==
  /\ thread \in [Sides -> [Sids -> Steps]]
  /\ ready \subseteq replied
  /\ \A s \in Tcp : thread[Entry][s] = "written" => s \in replied

ReplyInv == Tables /\ Written /\ Answers /\ ReplyFirst

LEMMA EntryAndExit == Entry \in Sides /\ Exit \in Sides /\ Entry # Exit
BY DEF Sides, Entry, Exit

LEMMA Streams == Tcp \subseteq Sids /\ Udp \subseteq Sids /\ Tcp \cap Udp = {} /\ Sids = Tcp \cup Udp
BY SocksMuxAssumption DEF Sids

(* A step puts no stream into a table, or one where there is room; and it writes      *)
(* to no application that has not had its reply.                                      *)
Shrinks == \A y \in Sides : table'[y] \cap Tcp \subseteq table[y] \cap Tcp
Gains ==
  \E x \in Sides, s \in Tcp :
    ~Full(x) /\ \A y \in Sides : table'[y] = IF y = x THEN table[y] \cup {s} ELSE table[y]
TableStep == Tables' /\ (Shrinks \/ Gains)
WrittenStep ==
  /\ Written' /\ replied \subseteq replied'
  /\ \A s \in Tcp : in'[Entry][s] > 0 => in[Entry][s] > 0 \/ s \in ready

LEMMA StepsKeepLimit ==
  ASSUME LimitInv, TableStep PROVE LimitInv'
<1>1. CASE Shrinks
  <2>1. ASSUME NEW y \in Sides
        PROVE  IsFiniteSet(table'[y] \cap Tcp) /\ Cardinality(table'[y] \cap Tcp) <= MaxStreams
    <3> DEFINE A == table[y] \cap Tcp
               B == table'[y] \cap Tcp
    <3>1. IsFiniteSet(A) /\ Cardinality(A) <= MaxStreams /\ B \subseteq A
      BY <1>1 DEF LimitInv, FiniteLimit, Shrinks
    <3>2. IsFiniteSet(B) /\ Cardinality(B) <= Cardinality(A) /\ Cardinality(A) \in Nat /\ Cardinality(B) \in Nat
      BY <3>1, FS_Subset, FS_CardinalityType
    <3> QED BY <3>1, <3>2, SocksMuxAssumption
  <2> QED BY <2>1 DEF LimitInv, FiniteLimit, TableStep
<1>2. CASE Gains
  <2>1. PICK x \in Sides, s \in Tcp :
          ~Full(x) /\ \A y \in Sides : table'[y] = IF y = x THEN table[y] \cup {s} ELSE table[y]
    BY <1>2 DEF Gains
  <2> DEFINE A == table[x] \cap Tcp
  <2>2. table'[x] \cap Tcp = A \cup {s}
    BY <2>1
  <2>3. IsFiniteSet(A) /\ Cardinality(A) \in Nat /\ ~(Cardinality(A) >= MaxStreams)
    BY <2>1, FS_CardinalityType DEF LimitInv, FiniteLimit, Full
  <2>4. /\ IsFiniteSet(A \cup {s})
        /\ Cardinality(A \cup {s}) = Cardinality(A) \/ Cardinality(A \cup {s}) = Cardinality(A) + 1
    BY <2>3, FS_AddElement
  <2> HIDE DEF A
  <2>5. Cardinality(A \cup {s}) <= MaxStreams
    BY <2>3, <2>4, SocksMuxAssumption
  <2> QED BY <2>1, <2>2, <2>4, <2>5 DEF LimitInv, FiniteLimit, TableStep
<1> QED BY <1>1, <1>2 DEF TableStep

LEMMA StepsKeepReply ==
  ASSUME ReplyInv, TableStep, WrittenStep, Answers' PROVE ReplyInv'
BY DEF ReplyInv, TableStep, WrittenStep, ReplyFirst, Answers

-----------------------------------------------------------------------------
(* Every step is one of those.                                                        *)
LEMMA SameSteps ==
  ASSUME Tables, Written, UNCHANGED <<table, in>>, replied \subseteq replied'
  PROVE  TableStep /\ WrittenStep
BY DEF Tables, Written, TableStep, Shrinks, WrittenStep

LEMMA LosingSteps ==
  ASSUME Tables, Written, UNCHANGED <<in, replied>>, NEW x \in Sides, NEW ss,
         table' \in [Sides -> SUBSET Sids],
         \A y \in Sides : table'[y] = IF y = x THEN table[y] \ ss ELSE table[y]
  PROVE  TableStep /\ WrittenStep
BY DEF Tables, Written, TableStep, Shrinks, WrittenStep

LEMMA AssociatingSteps ==
  ASSUME Tables, Written, UNCHANGED <<in, replied>>, NEW x \in Sides, NEW s \in Udp,
         table' = [table EXCEPT ![x] = @ \cup {s}]
  PROVE  TableStep /\ WrittenStep
<1>1. Tables' /\ \A y \in Sides : table'[y] \cap Tcp = table[y] \cap Tcp
  BY Streams DEF Tables
<1> QED BY <1>1 DEF Written, TableStep, Shrinks, WrittenStep

LEMMA GainingSteps ==
  ASSUME Tables, Written, UNCHANGED <<in, replied>>, NEW x \in Sides, NEW s \in Tcp, ~Full(x),
         table' = [table EXCEPT ![x] = @ \cup {s}]
  PROVE  TableStep /\ WrittenStep
<1>1. Tables' /\ \A y \in Sides : table'[y] = IF y = x THEN table[y] \cup {s} ELSE table[y]
  BY Streams DEF Tables
<1> QED BY <1>1 DEF Written, TableStep, Gains, WrittenStep

LEMMA ReaderKeeps ==
  ASSUME Tables, Written, NEW x \in Sides, ReaderStep(x) \/ Clear(x) PROVE TableStep /\ WrittenStep
<1> USE EntryAndExit DEF appVars, replyVars, streamVars, muxVars
<1>1. CASE Leave(x)
  BY <1>1, SameSteps DEF Leave
<1>2. CASE Deliver(x)
  <2>1. PICK s \in Tcp :
          /\ x = Entry => s \in ready
          /\ in' = [in EXCEPT ![x][s] = IF far[x][s] = "up" THEN @ + 1 ELSE @]
    BY <1>2 DEF Deliver
  <2>2. UNCHANGED <<table, replied>>
    BY <1>2 DEF Deliver
  <2> DEFINE n == IF far[x][s] = "up" THEN in[x][s] + 1 ELSE in[x][s]
  <2>3. in' = [in EXCEPT ![x] = [in[x] EXCEPT ![s] = n]]
    BY <2>1
  <2>4. in[x] \in [Sids -> Nat] /\ s \in Sids /\ n \in Nat
    <3>1. in[x] \in [Sids -> Nat] /\ s \in Sids
      BY Streams DEF Written
    <3>2. in[x][s] \in Nat
      BY <3>1
    <3>3. in[x][s] + 1 \in Nat
      BY <3>2
    <3> QED BY <3>1, <3>2, <3>3
  <2> HIDE DEF n
  <2>5. [in[x] EXCEPT ![s] = n] \in [Sids -> Nat]
    BY <2>4
  <2>6. Written'
    BY <2>3, <2>5 DEF Written
  <2>7. \A r \in Tcp : x # Entry \/ r # s => in'[Entry][r] = in[Entry][r]
    <3>1. CASE x # Entry
      BY <2>3, <3>1 DEF Written
    <3>2. CASE x = Entry
      <4>1. in'[Entry] = [in[x] EXCEPT ![s] = n]
        BY <2>3, <3>2 DEF Written
      <4> QED BY <2>4, <3>2, <4>1, Streams
    <3> QED BY <3>1, <3>2
  <2>8. TableStep
    BY <2>2 DEF Tables, TableStep, Shrinks
  <2> QED BY <2>1, <2>2, <2>6, <2>7, <2>8 DEF WrittenStep
<1>3. CASE DeliverFails(x)
  <2>1. PICK s \in Tcp : Remove(x, s)
    BY <1>3 DEF DeliverFails
  <2>2. UNCHANGED <<in, replied>>
    BY <1>3 DEF DeliverFails
  <2>3. table' = [table EXCEPT ![x] = table[x] \ {s}]
    BY <2>1 DEF Remove
  <2>4. /\ table' \in [Sides -> SUBSET Sids]
        /\ \A y \in Sides : table'[y] = IF y = x THEN table[y] \ {s} ELSE table[y]
    BY <2>3 DEF Tables
  <2> QED BY <2>2, <2>4, LosingSteps
<1>4. CASE \E s \in Sids : GetData(x, s)
  BY <1>4, SameSteps DEF GetData, Arrived
<1>5. CASE \E s \in Sids : GetClose(x, s)
  <2>a. PICK s \in Sids : GetClose(x, s)
    BY <1>5
  <2>1. table' = [table EXCEPT ![x] = @ \ {s}] /\ UNCHANGED <<in, replied>>
    BY <2>a DEF GetClose, Arrived, ClosedByPeer, Remove
  <2>2. /\ table' \in [Sides -> SUBSET Sids]
        /\ \A y \in Sides : table'[y] = IF y = x THEN table[y] \ {s} ELSE table[y]
    BY <2>1 DEF Tables
  <2> QED BY <2>1, <2>2, LosingSteps
<1>6. CASE \E s \in Sids : GetAnswer(s, "OK", "ok") \/ GetAnswer(s, "ERR", "err")
  BY <1>6, SameSteps DEF GetAnswer, Arrived
<1>7. CASE \E s \in Tcp : GetOpen(s)
  BY <1>7, SameSteps DEF GetOpen, Arrived, Goto
<1>8. CASE x = Exit /\ \E s \in Udp : GetAssoc(s)
  <2>1. PICK s \in Udp : GetAssoc(s)
    BY <1>8
  <2>2. table' = [table EXCEPT ![Exit] = @ \cup {s}] /\ UNCHANGED <<in, replied>>
    BY <2>1 DEF GetAssoc, Arrived
  <2> QED BY <2>2, AssociatingSteps
<1>9. CASE Clear(x)
  <2>1. table' = [table EXCEPT ![x] = {}] /\ UNCHANGED <<in, replied>>
    BY <1>9 DEF Clear
  <2>2. /\ table' \in [Sides -> SUBSET Sids]
        /\ \A y \in Sides : table'[y] = IF y = x THEN table[y] \ Sids ELSE table[y]
    BY <2>1 DEF Tables
  <2> QED BY <2>1, <2>2, LosingSteps
<1> QED BY <1>1, <1>2, <1>3, <1>4, <1>5, <1>6, <1>7, <1>8, <1>9 DEF ReaderStep

(* ... the threads of the SOCKS handlers, ...                                         *)
LEMMA EntryKeeps ==
  ASSUME Tables, Written, NEW s \in Sids, Handle(s) \/ EntryStep(s) \/ HoldSeesDone(s)
  PROVE TableStep /\ WrittenStep
<1> USE EntryAndExit DEF appVars, replyVars, streamVars, muxVars
<1>1. CASE Handle(s)
  BY <1>1, SameSteps DEF Handle
<1>2. CASE s \in Tcp /\ Connect(s)
  <2>1. UNCHANGED <<in, replied>>
    BY <1>2 DEF Connect
  <2>2. CASE Full(Entry)
    BY <1>2, <2>1, <2>2, SameSteps DEF Connect
  <2>3. CASE ~Full(Entry)
    <3>1. table' = [table EXCEPT ![Entry] = @ \cup {s}]
      BY <1>2, <2>3 DEF Connect
    <3> QED BY <1>2, <2>1, <2>3, <3>1, GainingSteps
  <2> QED BY <2>2, <2>3
<1>3. CASE WriteReply(s) \/ SetReady(s)
  BY <1>3, SameSteps DEF WriteReply, SetReady, ReplyThenReady
<1>4. CASE ReplyFails(s)
  <2>1. table' = [table EXCEPT ![Entry] = @ \ {s}] /\ UNCHANGED <<in, replied>>
    BY <1>4 DEF ReplyFails, Remove
  <2>2. /\ table' \in [Sides -> SUBSET Sids]
        /\ \A y \in Sides : table'[y] = IF y = Entry THEN table[y] \ {s} ELSE table[y]
    BY <2>1 DEF Tables
  <2> QED BY <2>1, <2>2, LosingSteps
<1>5. CASE NotConnected(s)
  <2>1. table' = [table EXCEPT ![Entry] = @ \ {s}] /\ UNCHANGED <<in, replied>>
    BY <1>5 DEF NotConnected, Remove
  <2>2. /\ table' \in [Sides -> SUBSET Sids]
        /\ \A y \in Sides : table'[y] = IF y = Entry THEN table[y] \ {s} ELSE table[y]
    BY <2>1 DEF Tables
  <2> QED BY <2>1, <2>2, LosingSteps
<1>6. CASE PumpEnds(Entry, s)
  <2>1. table' = [table EXCEPT ![Entry] = @ \ {s}] /\ UNCHANGED <<in, replied>>
    BY <1>6 DEF PumpEnds, AfterPump
  <2>2. /\ table' \in [Sides -> SUBSET Sids]
        /\ \A y \in Sides : table'[y] = IF y = Entry THEN table[y] \ {s} ELSE table[y]
    BY <2>1 DEF Tables
  <2> QED BY <2>1, <2>2, LosingSteps
<1>7. CASE s \in Udp /\ Associate(s)
  <2>1. table' = [table EXCEPT ![Entry] = @ \cup {s}] /\ UNCHANGED <<in, replied>>
    BY <1>7 DEF Associate
  <2> QED BY <1>7, <2>1, AssociatingSteps
<1>8. CASE AssociateFails(s)
  BY <1>8, SameSteps DEF AssociateFails
<1>9. CASE AfterHold(s)
  <2>1. table' = [table EXCEPT ![Entry] = @ \ {s}] /\ UNCHANGED <<in, replied>>
    BY <1>9 DEF AfterHold, Remove
  <2>2. /\ table' \in [Sides -> SUBSET Sids]
        /\ \A y \in Sides : table'[y] = IF y = Entry THEN table[y] \ {s} ELSE table[y]
    BY <2>1 DEF Tables
  <2> QED BY <2>1, <2>2, LosingSteps
<1>10. CASE BindFails(s) \/ PumpSends(Entry, s)
  BY <1>10, SameSteps DEF BindFails, PumpSends
<1> QED BY <1>1, <1>2, <1>3, <1>4, <1>5, <1>6, <1>7, <1>8, <1>9, <1>10
        DEF EntryStep, HoldSeesDone, ControlEnds

(* ... the gateway's openers and the pumps, and the rest of the world.                *)
LEMMA ExitKeeps ==
  ASSUME Tables, Written, NEW s \in Sids, ExitStep(s) PROVE TableStep /\ WrittenStep
<1> USE EntryAndExit DEF appVars, replyVars, streamVars, muxVars
<1>1. CASE Dial(s)
  BY <1>1, SameSteps DEF Dial
<1>2. CASE Refuse(s)
  BY <1>2, SameSteps DEF Refuse
<1>3. CASE Insert(s)
  <2>1. /\ table' = [table EXCEPT ![Exit] = @ \cup {s}] /\ ~Full(Exit)
        /\ UNCHANGED <<in, replied>>
    BY <1>3 DEF Insert, Barred
  <2>2. CASE s \in Tcp
    BY <2>1, <2>2, GainingSteps
  <2>3. CASE s \in Udp
    BY <2>1, <2>3, AssociatingSteps
  <2> QED BY <2>2, <2>3 DEF Sids
<1>4. CASE Bar(s)
  BY <1>4, SameSteps DEF Bar
<1>5. CASE PumpEnds(Exit, s)
  <2>1. table' = [table EXCEPT ![Exit] = @ \ {s}] /\ UNCHANGED <<in, replied>>
    BY <1>5 DEF PumpEnds, AfterPump
  <2>2. /\ table' \in [Sides -> SUBSET Sids]
        /\ \A y \in Sides : table'[y] = IF y = Exit THEN table[y] \ {s} ELSE table[y]
    BY <2>1 DEF Tables
  <2> QED BY <2>1, <2>2, LosingSteps
<1>6. CASE PumpSends(Exit, s)
  BY <1>6, SameSteps DEF PumpSends
<1> QED BY <1>1, <1>2, <1>3, <1>4, <1>5, <1>6 DEF ExitStep

LEMMA OthersKeep ==
  ASSUME Tables, Written, NEW x \in Sides, NEW s \in Sids,
         PumpReads(x, s) \/ PumpWakes(x, s) \/ DatagramEnds(x, s) \/ FarShuts(x, s) \/ Beat \/ Break
  PROVE  TableStep /\ WrittenStep
<1> USE EntryAndExit DEF appVars, replyVars, streamVars, muxVars
<1>1. CASE PumpReads(x, s)
  BY <1>1, SameSteps DEF PumpReads
<1>2. CASE PumpWakes(x, s)
  <2>1. table' = [table EXCEPT ![x] = @ \ {s}] /\ UNCHANGED <<in, replied>>
    BY <1>2 DEF PumpWakes, AfterPump
  <2>2. /\ table' \in [Sides -> SUBSET Sids]
        /\ \A y \in Sides : table'[y] = IF y = x THEN table[y] \ {s} ELSE table[y]
    BY <2>1 DEF Tables
  <2> QED BY <2>1, <2>2, LosingSteps
<1>3. CASE DatagramEnds(x, s)
  BY <1>3, SameSteps DEF DatagramEnds
<1>4. CASE FarShuts(x, s)
  BY <1>4, SameSteps DEF FarShuts
<1>5. CASE Beat \/ Break
  BY <1>5, SameSteps DEF Beat, Break
<1> QED BY <1>1, <1>2, <1>3, <1>4, <1>5

LEMMA NextKeeps ==
  ASSUME Tables, Written, [Next]_vars PROVE TableStep /\ WrittenStep
<1>1. CASE UNCHANGED vars
  BY <1>1, SameSteps DEF vars
<1>2. CASE Next
  <2>1. CASE \E x \in Sides : ReaderStep(x) \/ Clear(x)
    BY <2>1, ReaderKeeps
  <2>2. CASE \E s \in Sids : Handle(s) \/ EntryStep(s) \/ HoldSeesDone(s)
    BY <2>2, EntryKeeps
  <2>3. CASE \E s \in Sids : ExitStep(s)
    BY <2>3, ExitKeeps
  <2>4. CASE \E x \in Sides, s \in Sids :
               PumpReads(x, s) \/ PumpWakes(x, s) \/ DatagramEnds(x, s) \/ FarShuts(x, s)
    BY <2>4, OthersKeep
  <2>5. CASE Beat
    BY <2>5, SameSteps DEF Beat, streamVars, appVars, replyVars
  <2>6. CASE Break
    BY <2>6, SameSteps DEF Break, streamVars, appVars, replyVars
  <2>7. Udp \subseteq Sids
    BY Streams
  <2> QED BY <1>2, <2>1, <2>2, <2>3, <2>4, <2>5, <2>6, <2>7 DEF Next
<1> QED BY <1>1, <1>2

-----------------------------------------------------------------------------
(* The reply and st.ready are the business of two steps of the handler thread.        *)
LEMMA QuietAnswers ==
  ASSUME Answers, UNCHANGED <<thread, replied, ready>> PROVE Answers'
BY DEF Answers

LEMMA GotoAnswers ==
  ASSUME Answers, UNCHANGED <<replied, ready>>, NEW x \in Sides, NEW s \in Sids,
         NEW step \in Steps \ {"written"}, Goto(x, s, step)
  PROVE  Answers'
<1>1. /\ thread' \in [Sides -> [Sids -> Steps]]
      /\ \A y \in Sides, r \in Sids : thread'[y][r] = IF y = x /\ r = s THEN step ELSE thread[y][r]
  BY DEF Answers, Goto
<1> QED BY <1>1, EntryAndExit, Streams DEF Answers

LEMMA PumpingAnswers ==
  ASSUME Answers, UNCHANGED <<replied, ready>>, NEW x \in Sides, NEW s \in Sids, Pumping(x, s)
  PROVE  Answers'
<1>1. PICK step \in Steps \ {"written"} : Goto(x, s, step)
  BY DEF Pumping, Steps
<1> QED BY <1>1, GotoAnswers

LEMMA HandlerAnswers ==
  ASSUME Answers, NEW s \in Tcp, WriteReply(s) \/ SetReady(s) PROVE Answers'
<1> USE EntryAndExit, Streams
<1>1. CASE WriteReply(s)
  <2>1. /\ thread' = [thread EXCEPT ![Entry][s] = "written"] /\ "written" \in Steps
        /\ replied' = replied \cup {s} /\ ready' = ready
    BY <1>1 DEF WriteReply, ReplyThenReady, Goto, Steps
  <2>2. /\ thread' \in [Sides -> [Sids -> Steps]]
        /\ \A r \in Sids : r # s => thread'[Entry][r] = thread[Entry][r]
    BY <2>1 DEF Answers
  <2> QED BY <2>1, <2>2 DEF Answers
<1>2. CASE SetReady(s)
  <2>1. /\ Pumping(Entry, s) /\ thread[Entry][s] = "written"
        /\ replied' = replied /\ ready' = ready \cup {s}
    BY <1>2 DEF SetReady, ReplyThenReady
  <2>2. PICK step \in Steps \ {"written"} : thread' = [thread EXCEPT ![Entry][s] = step]
    BY <2>1 DEF Pumping, Goto, Steps
  <2>3. /\ thread' \in [Sides -> [Sids -> Steps]]
        /\ \A r \in Sids : thread'[Entry][r] = IF r = s THEN step ELSE thread[Entry][r]
    BY <2>2 DEF Answers
  <2> QED BY <2>1, <2>3 DEF Answers
<1> QED BY <1>1, <1>2

LEMMA NextAnswers ==
  ASSUME Answers, [Next]_vars PROVE Answers'
<1> USE EntryAndExit, Streams DEF appVars, replyVars, streamVars, muxVars
<1>1. ASSUME NEW x \in Sides, ReaderStep(x) \/ Clear(x) PROVE Answers'
  <2>1. CASE Leave(x) \/ Deliver(x) \/ DeliverFails(x) \/ Clear(x)
    BY <2>1, QuietAnswers DEF Leave, Deliver, DeliverFails, Clear
  <2>2. CASE \E s \in Sids : GetData(x, s) \/ GetClose(x, s)
    BY <2>2, QuietAnswers DEF GetData, GetClose, Arrived
  <2>3. CASE \E s \in Sids : GetAnswer(s, "OK", "ok") \/ GetAnswer(s, "ERR", "err")
    BY <2>3, QuietAnswers DEF GetAnswer, Arrived
  <2>4. ASSUME NEW s \in Sids, GetOpen(s) \/ GetAssoc(s) PROVE Answers'
    <3>1. (Goto(Exit, s, "dial") \/ Goto(Exit, s, "read")) /\ UNCHANGED <<replied, ready>>
      BY <2>4 DEF GetOpen, GetAssoc, Arrived
    <3> QED BY <3>1, GotoAnswers DEF Steps
  <2> QED BY <1>1, <2>1, <2>2, <2>3, <2>4 DEF ReaderStep
<1>2. ASSUME NEW s \in Sids, Handle(s) \/ EntryStep(s) \/ HoldSeesDone(s) PROVE Answers'
  <2>1. CASE Handle(s)
    <3>1. PICK step \in Steps \ {"written"} : Goto(Entry, s, step)
      BY <2>1 DEF Handle, Steps
    <3> QED BY <2>1, <3>1, GotoAnswers DEF Handle
  <2>2. CASE Connect(s)
    <3>1. PICK step \in Steps \ {"written"} : Goto(Entry, s, step)
      BY <2>2 DEF Connect, Steps
    <3> QED BY <2>2, <3>1, GotoAnswers DEF Connect
  <2>3. CASE s \in Tcp /\ (WriteReply(s) \/ SetReady(s))
    BY <2>3, HandlerAnswers
  <2>4. CASE ReplyFails(s) \/ NotConnected(s) \/ BindFails(s) \/ AssociateFails(s) \/ AfterHold(s)
             \/ AfterPump(Entry, s)
    <3>1. Goto(Entry, s, "end") /\ UNCHANGED <<replied, ready>>
      BY <2>4 DEF ReplyFails, NotConnected, BindFails, AssociateFails, AfterHold, AfterPump
    <3> QED BY <3>1, GotoAnswers DEF Steps
  <2>5. CASE Associate(s)
    BY <2>5, GotoAnswers DEF Associate, Steps
  <2>6. CASE PumpSends(Entry, s)
    BY <2>6, PumpingAnswers DEF PumpSends
  <2> QED BY <1>2, <2>1, <2>2, <2>3, <2>4, <2>5, <2>6
          DEF EntryStep, HoldSeesDone, ControlEnds, PumpEnds
<1>3. ASSUME NEW s \in Sids, ExitStep(s) PROVE Answers'
  <2>1. CASE Dial(s)
    BY <2>1, GotoAnswers DEF Dial, Steps
  <2>2. CASE Refuse(s) \/ Bar(s) \/ AfterPump(Exit, s)
    <3>1. Goto(Exit, s, "end") /\ UNCHANGED <<replied, ready>>
      BY <2>2 DEF Refuse, Bar, AfterPump
    <3> QED BY <3>1, GotoAnswers DEF Steps
  <2>3. CASE Insert(s) \/ PumpSends(Exit, s)
    BY <2>3, PumpingAnswers DEF Insert, PumpSends
  <2> QED BY <1>3, <2>1, <2>2, <2>3 DEF ExitStep, PumpEnds
<1>4. ASSUME NEW x \in Sides, NEW s \in Sids,
             PumpReads(x, s) \/ PumpWakes(x, s) \/ DatagramEnds(x, s) \/ FarShuts(x, s)
      PROVE  Answers'
  <2>1. CASE PumpReads(x, s)
    BY <2>1, GotoAnswers DEF PumpReads, Steps
  <2>2. CASE PumpWakes(x, s)
    BY <2>2, GotoAnswers DEF PumpWakes, AfterPump, Steps
  <2>3. CASE DatagramEnds(x, s)
    <3>1. (Goto(Exit, s, "end") \/ UNCHANGED thread) /\ UNCHANGED <<replied, ready>>
      BY <2>3 DEF DatagramEnds, Goto
    <3> QED BY <3>1, GotoAnswers, QuietAnswers DEF Steps
  <2>4. CASE FarShuts(x, s)
    BY <2>4, QuietAnswers DEF FarShuts
  <2> QED BY <1>4, <2>1, <2>2, <2>3, <2>4
<1>5. CASE Beat \/ Break \/ UNCHANGED vars
  BY <1>5, QuietAnswers DEF Beat, Break, vars
<1> QED BY <1>1, <1>2, <1>3, <1>4, <1>5 DEF Next

-----------------------------------------------------------------------------
(* However many threads open streams at once, no table ever holds more than           *)
(* MAX_STREAMS of them: the look at the limit and the insertion are one section.      *)
THEOREM LimitHolds == Spec => []WithinLimit
<1>1. Init => LimitInv
  <2> SUFFICES ASSUME Init PROVE LimitInv
    OBVIOUS
  <2>1. table = [x \in Sides |-> {}]
    BY DEF Init
  <2>2. \A x \in Sides : table[x] \cap Tcp = {}
    BY <2>1
  <2>3. IsFiniteSet({}) /\ Cardinality({}) = 0 /\ 0 <= MaxStreams
    BY FS_EmptySet, SocksMuxAssumption
  <2> QED BY <2>1, <2>2, <2>3 DEF LimitInv, Tables, FiniteLimit
<1>2. Init => Written
  BY DEF Init, Written, Each
<1>3. LimitInv /\ Written /\ [Next]_vars => LimitInv' /\ Written'
  BY NextKeeps, StepsKeepLimit DEF LimitInv, WrittenStep
<1>4. LimitInv => WithinLimit
  BY DEF LimitInv, FiniteLimit, WithinLimit
<1> QED BY <1>1, <1>2, <1>3, <1>4, PTL DEF Spec

(* The application is written its SOCKS reply before the server's first byte, however *)
(* the reader thread and the stream's handler interleave: st.ready, which the reader  *)
(* waits for, is set only behind the reply.                                           *)
THEOREM ReplyComesFirst == Spec => []ReplyFirst
<1>1. Init => ReplyInv
  <2>1. Init => Answers
    BY EntryAndExit, Streams DEF Init, Answers, Each, Steps
  <2> QED BY <2>1, EntryAndExit, Streams DEF Init, Tables, ReplyInv, Written, ReplyFirst, Each
<1>2. ReplyInv /\ [Next]_vars => ReplyInv'
  BY NextKeeps, NextAnswers, StepsKeepReply DEF ReplyInv
<1>3. ReplyInv => ReplyFirst
  BY DEF ReplyInv
<1> QED BY <1>1, <1>2, <1>3, PTL DEF Spec

-----------------------------------------------------------------------------
(* EndIsTruthful.  The frames of one type and stream on their way to a side, and what *)
(* sending and dispatching a frame does to them.                                      *)
Frames == Types \X Sids
At(q, f) == {i \in DOMAIN q : q[i] = f}
Count(q, f) == Cardinality(At(q, f))
Closing(q, s) == \A i, j \in DOMAIN q : i < j /\ q[i] = <<"CLOSE", s>> => q[j] # <<"DATA", s>>
OneBehind(q, s) ==
  \A i, j, k \in DOMAIN q :
    i < j /\ j < k /\ q[i] = <<"CLOSE", s>> /\ q[j] = <<"DATA", s>> => q[k] # <<"DATA", s>>

LEMMA CountTypes ==
  ASSUME NEW q \in Seq(Frames), NEW f
  PROVE  IsFiniteSet(At(q, f)) /\ Count(q, f) \in Nat /\ (Count(q, f) = 0 <=> At(q, f) = {})
<1>1. IsFiniteSet(1 .. Len(q)) /\ At(q, f) \subseteq 1 .. Len(q)
  BY FS_Interval DEF At
<1>2. IsFiniteSet(At(q, f))
  BY <1>1, FS_Subset
<1> QED BY <1>2, FS_CardinalityType, FS_EmptySet DEF Count

LEMMA CountEmpty == \A f : Count(<<>>, f) = 0
<1>1. \A f : At(<<>>, f) = {}
  BY DEF At
<1> QED BY <1>1, FS_EmptySet DEF Count

LEMMA CountAppend ==
  ASSUME NEW q \in Seq(Frames), NEW g \in Frames, NEW f
  PROVE  Count(Append(q, g), f) = Count(q, f) + IF g = f THEN 1 ELSE 0
<1> DEFINE n == Len(q) + 1
<1>1. n \notin At(q, f)
  BY DEF At
<1>2. CASE g = f
  <2>1. At(Append(q, g), f) = At(q, f) \cup {n}
    BY <1>2 DEF At
  <2> QED BY <1>1, <1>2, <2>1, CountTypes, FS_AddElement DEF Count
<1>3. CASE g # f
  <2>1. At(Append(q, g), f) = At(q, f)
    BY <1>3 DEF At
  <2>2. Count(q, f) \in Nat
    BY CountTypes
  <2> QED BY <1>3, <2>1, <2>2 DEF Count
<1> QED BY <1>2, <1>3

LEMMA CountTail ==
  ASSUME NEW q \in Seq(Frames), q # <<>>, NEW f
  PROVE  Count(q, f) = Count(Tail(q), f) + IF Head(q) = f THEN 1 ELSE 0
<1> DEFINE A == At(q, f) \ {1}
           B == At(Tail(q), f)
           shift == [i \in A |-> i - 1]
<1>a. Tail(q) \in Seq(Frames) /\ Len(Tail(q)) = Len(q) - 1 /\ Len(q) \in Nat \ {0}
  OBVIOUS
<1>b. \A i \in 1 .. Len(q) - 1 : Tail(q)[i] = q[i + 1]
  OBVIOUS
<1>1. shift \in Bijection(A, B)
  <2>1. \A i \in A : i \in 1 .. Len(q) /\ i - 1 \in 1 .. Len(q) - 1 /\ q[i] = f
    BY <1>a DEF At
  <2>2. \A i \in A : shift[i] \in B
    BY <1>a, <1>b, <2>1 DEF At
  <2>3. \A i, j \in A : shift[i] = shift[j] => i = j
    BY <2>1
  <2>4. \A k \in B : \E i \in A : shift[i] = k
    <3> SUFFICES ASSUME NEW k \in B PROVE \E i \in A : shift[i] = k
      OBVIOUS
    <3>1. k \in 1 .. Len(q) - 1 /\ Tail(q)[k] = f
      BY <1>a DEF At
    <3>2. k + 1 \in A
      BY <1>a, <1>b, <3>1 DEF At
    <3>3. shift[k + 1] = k
      BY <3>1, <3>2
    <3> QED BY <3>2, <3>3
  <2> HIDE DEF A, B
  <2> QED BY <2>2, <2>3, <2>4 DEF Bijection, Injection, Surjection, IsInjective
<1>2. IsFiniteSet(At(q, f)) /\ IsFiniteSet(A) /\ Cardinality(A) \in Nat
  BY CountTypes, FS_RemoveElement, FS_CardinalityType
<1>3. Cardinality(A) = Count(Tail(q), f)
  BY <1>1, <1>2, FS_Bijection DEF Count, ExistsBijection
<1> HIDE DEF A, B, shift
<1>4. CASE Head(q) = f
  <2>1. 1 \in At(q, f)
    BY <1>4, <1>a DEF At
  <2>2. Cardinality(A) = Cardinality(At(q, f)) - 1
    BY <1>2, <2>1, FS_RemoveElement DEF A
  <2>3. Count(q, f) \in Nat
    BY CountTypes
  <2> QED BY <1>3, <1>4, <2>2, <2>3 DEF Count
<1>5. CASE Head(q) # f
  <2>1. A = At(q, f)
    BY <1>5, <1>a DEF At, A
  <2> QED BY <1>2, <1>3, <1>5, <2>1 DEF Count
<1> QED BY <1>4, <1>5

LEMMA ClosingAppend ==
  ASSUME NEW q \in Seq(Frames), NEW g \in Frames, NEW s, Closing(q, s),
         g # <<"DATA", s>> \/ Count(q, <<"CLOSE", s>>) = 0
  PROVE  Closing(Append(q, g), s)
<1>1. \A i, j \in DOMAIN Append(q, g) :
        i < j => i \in DOMAIN q /\ Append(q, g)[i] = q[i]
                 /\ \/ j \in DOMAIN q /\ Append(q, g)[j] = q[j]
                    \/ Append(q, g)[j] = g
  OBVIOUS
<1>2. Count(q, <<"CLOSE", s>>) = 0 => \A i \in DOMAIN q : q[i] # <<"CLOSE", s>>
  BY CountTypes DEF At
<1> QED BY <1>1, <1>2 DEF Closing

LEMMA ClosingTail ==
  ASSUME NEW q \in Seq(Frames), q # <<>>, NEW s, Closing(q, s)
  PROVE  /\ Closing(Tail(q), s)
         /\ Head(q) = <<"CLOSE", s>> => Count(q, <<"DATA", s>>) = 0
<1>1. Closing(Tail(q), s)
  <2>1. \A i \in DOMAIN Tail(q) : i + 1 \in DOMAIN q /\ Tail(q)[i] = q[i + 1]
    OBVIOUS
  <2>2. \A i, j \in DOMAIN Tail(q) : i < j => i + 1 < j + 1
    OBVIOUS
  <2> QED BY <2>1, <2>2 DEF Closing
<1>2. ASSUME Head(q) = <<"CLOSE", s>> PROVE Count(q, <<"DATA", s>>) = 0
  <2>1. 1 \in DOMAIN q /\ q[1] = <<"CLOSE", s>>
    BY <1>2
  <2>2. \A j \in DOMAIN q : j # 1 => 1 < j
    OBVIOUS
  <2>3. At(q, <<"DATA", s>>) = {}
    BY <2>1, <2>2 DEF Closing, At
  <2> QED BY <2>3, CountTypes
<1> QED BY <1>1, <1>2

LEMMA OneBehindAppend ==
  ASSUME NEW q \in Seq(Frames), NEW g \in Frames, NEW s, OneBehind(q, s),
         g # <<"DATA", s>> \/ Closing(q, s)
  PROVE  OneBehind(Append(q, g), s)
<1>1. \A i \in DOMAIN Append(q, g) :
        \/ i \in DOMAIN q /\ Append(q, g)[i] = q[i]
        \/ i = Len(q) + 1 /\ Append(q, g)[i] = g
  OBVIOUS
<1>2. \A i \in DOMAIN q : i < Len(q) + 1
  OBVIOUS
<1>3. \A i, k \in DOMAIN Append(q, g) : i < k => i \in DOMAIN q /\ Append(q, g)[i] = q[i]
  OBVIOUS
<1>4. ASSUME NEW i \in DOMAIN Append(q, g), NEW j \in DOMAIN Append(q, g), NEW k \in DOMAIN Append(q, g),
             i < j, j < k, Append(q, g)[i] = <<"CLOSE", s>>, Append(q, g)[j] = <<"DATA", s>>
      PROVE  Append(q, g)[k] # <<"DATA", s>>
  <2>1. i \in DOMAIN q /\ j \in DOMAIN q /\ q[i] = <<"CLOSE", s>> /\ q[j] = <<"DATA", s>>
    BY <1>3, <1>4
  <2>2. g # <<"DATA", s>>
    BY <1>4, <2>1 DEF Closing
  <2> QED BY <1>1, <1>4, <2>1, <2>2 DEF OneBehind
<1> QED BY <1>4 DEF OneBehind

LEMMA OneBehindTail ==
  ASSUME NEW q \in Seq(Frames), q # <<>>, NEW s, OneBehind(q, s)
  PROVE  /\ OneBehind(Tail(q), s)
         /\ Head(q) = <<"CLOSE", s>> => Count(q, <<"DATA", s>>) <= 1
<1>1. OneBehind(Tail(q), s)
  <2>1. \A i \in DOMAIN Tail(q) : i + 1 \in DOMAIN q /\ Tail(q)[i] = q[i + 1]
    OBVIOUS
  <2>2. \A i, j \in DOMAIN Tail(q) : i < j => i + 1 < j + 1
    OBVIOUS
  <2> QED BY <2>1, <2>2 DEF OneBehind
<1>2. ASSUME Head(q) = <<"CLOSE", s>> PROVE Count(q, <<"DATA", s>>) <= 1
  <2> DEFINE A == At(q, <<"DATA", s>>)
  <2>1. 1 \in DOMAIN q /\ q[1] = <<"CLOSE", s>> /\ <<"CLOSE", s>> # <<"DATA", s>>
    BY <1>2
  <2>2. \A j \in A : j \in DOMAIN q /\ 1 < j /\ q[j] = <<"DATA", s>>
    BY <2>1 DEF At
  <2>3. \A j, k \in A : ~ (j < k)
    BY <2>1, <2>2 DEF OneBehind
  <2>4. \A j, k \in A : j = k
    <3>1. \A j \in A : j \in Int
      BY DEF At
    <3> QED BY <2>3, <3>1
  <2>5. CASE A = {}
    BY <2>5, CountTypes
  <2>6. ASSUME NEW j \in A PROVE Count(q, <<"DATA", s>>) <= 1
    <3>1. Count(q, <<"DATA", s>>) = Cardinality(A)
      BY DEF Count
    <3> HIDE DEF A
    <3>2. A = {j}
      BY <2>4
    <3>3. Cardinality({j}) = 1
      BY FS_Singleton
    <3> QED BY <3>1, <3>2, <3>3
  <2> QED BY <2>5, <2>6
<1> QED BY <1>1, <1>2

LEMMA ClosingHasNoneBehind ==
  ASSUME NEW q, NEW s, Closing(q, s) PROVE OneBehind(q, s)
BY DEF Closing, OneBehind

LEMMA ClosingVacuous ==
  ASSUME NEW q \in Seq(Frames), NEW s, Count(q, <<"CLOSE", s>>) = 0
  PROVE  Closing(q, s)
BY CountTypes DEF Closing, At

(* The state while the channel is up: nobody has stopped, no pump has seen the end    *)
(* but by its socket, and no reader has left.                                         *)
Sent(x, type, s) == Count(wire[x], <<type, s>>)
Ordered(x, s) == Closing(wire[x], s)
Nearly(x, s) == OneBehind(wire[x], s)

Shape ==
  /\ wire \in [Sides -> Seq(Frames)]
  /\ done = [x \in Sides |-> FALSE] /\ stopper = [x \in Sides |-> None]
  /\ reader \in [Sides -> Sids \cup {"recv"}]
  /\ table \in [Sides -> SUBSET Sids]
  /\ thread \in [Sides -> [Sids -> Steps \ {"eof"}]]
  /\ sock \in [Sides -> [Sids -> {"none", "open", "late", "closed"}]]
  /\ far \in [Sides -> [Sids -> {"up", "shut"}]]
  /\ answer \in [Sids -> {"no", "ok", "err"}] /\ ready \in SUBSET Tcp
  /\ cutOff \in [Sides -> SUBSET Tcp]
  /\ out \in [Sides -> [Sids -> Nat]] /\ in \in [Sides -> [Sids -> Nat]]

(* A stream that the gateway has not put into its table has carried nothing; only     *)
(* then may the gateway answer MUX_OK, and it dials once for a request.               *)
Early(s) == thread[Exit][s] \in {"none", "dial", "dialed"}

Blank(s) ==
  /\ s \notin ready /\ answer[s] # "ok" /\ Sent(Entry, "OK", s) = 0
  /\ thread[Entry][s] # "written"
  /\ \A x \in Sides : /\ Sent(x, "DATA", s) = 0 /\ Sent(x, "CLOSE", s) = 0
                      /\ in[x][s] = 0 /\ out[x][s] = 0 /\ reader[x] # s
                      /\ s \notin cutOff[x]

Opening(s) ==
  /\ thread[Entry][s] \in {"none", "checked"} =>
       thread[Exit][s] = "none" /\ Sent(Exit, "OPEN", s) = 0
  /\ thread[Exit][s] # "none" => Sent(Exit, "OPEN", s) = 0
  /\ Sent(Exit, "OPEN", s) <= 1
  /\ thread[Exit][s] = "dialed" => sock[Exit][s] = "open"
  /\ thread[Entry][s] = "checked" => sock[Entry][s] = "open"
  /\ Early(s) => Blank(s)
  /\ Early(s) /\ thread[Entry][s] = "wait" => sock[Entry][s] = "open" /\ s \in table[Entry]

Replied(s) ==
  /\ s \in ready => thread[Entry][s] \in {"read", "got", "end"}
  /\ thread[Entry][s] \in {"read", "got"} => s \in ready
  /\ \A x \in Sides : /\ Sent(x, "UDP_CLOSE", s) = 0
                      /\ sock[x][s] = "late" => thread[x][s] = "read"

(* A stream that has, or may yet get, its reply: what was read from the far end and   *)
(* not written here is under way, or in the hands of the pump, in order, as long as   *)
(* both the socket and its end stand; and the socket is closed, or told to be, only   *)
(* if one of the ends has shut.  A MUX_CLOSE comes from a pump that has ended, or     *)
(* from a reader that cut the stream off; then the pump may have one more chunk to    *)
(* send, which it holds or which recv() may still return.                             *)
Live(s) ==
  \/ s \in ready \/ thread[Entry][s] = "written"
  \/ thread[Entry][s] = "wait" /\ (answer[s] = "ok" \/ Sent(Entry, "OK", s) > 0)

Held(y, s) == IF thread[y][s] = "got" THEN 1 ELSE 0
Last(y, s) == IF thread[y][s] = "read" /\ sock[y][s] = "late" THEN 1 ELSE 0
Reading(x, s) == IF reader[x] = s THEN 1 ELSE 0
UnderWay(x, y, s) == Sent(x, "DATA", s) + Reading(x, s) + Held(y, s)

Carries(x, y, s) ==
  /\ sock[x][s] # "none" /\ (sock[x][s] = "open" => s \in table[x])
  /\ s \in cutOff[x] => sock[x][s] # "open"
  /\ Sent(x, "CLOSE", s) > 0 => /\ far[x][s] = "shut" \/ far[y][s] = "shut"
                                /\ s \in cutOff[y] \/ thread[y][s] = "end"
  /\ far[x][s] = "up" =>
       /\ Nearly(x, s)
       /\ s \notin cutOff[y] \/ Held(y, s) + Last(y, s) > 0 => Ordered(x, s)
       /\ sock[x][s] = "open" => in[x][s] + UnderWay(x, y, s) = out[y][s]
       /\ sock[x][s] # "open" =>
            /\ far[y][s] = "shut" /\ in[x][s] <= out[y][s]
            /\ s \in cutOff[y] => out[y][s] - in[x][s] + Last(y, s) <= 1
            /\ s \notin cutOff[y] => in[x][s] = out[y][s] /\ thread[y][s] = "end"

Carried(s) == Live(s) => Carries(Entry, Exit, s) /\ Carries(Exit, Entry, s)

Good(s) == Opening(s) /\ Replied(s) /\ Carried(s)
EndInv == Shape /\ \A s \in Tcp : Good(s)

(* Frames and counts.                                                                 *)
LEMMA SentTypes ==
  ASSUME Shape
  PROVE  \A x \in Sides : \A type, s : /\ Sent(x, type, s) \in Nat
                                       /\ Sent(x, "CLOSE", s) = 0 => Ordered(x, s)
                                       /\ Ordered(x, s) => Nearly(x, s)
BY CountTypes, ClosingVacuous, ClosingHasNoneBehind DEF Shape, Sent, Ordered, Nearly

Puts(y, type, r) == wire' = [wire EXCEPT ![y] = Append(@, <<type, r>>)]
Takes(y, type, r) ==
  wire[y] # <<>> /\ Head(wire[y]) = <<type, r>> /\ wire' = [wire EXCEPT ![y] = Tail(@)]

LEMMA PutEffect ==
  ASSUME Shape, NEW y \in Sides, NEW type \in Types, NEW r \in Sids, Puts(y, type, r)
  PROVE  /\ wire' \in [Sides -> Seq(Frames)]
         /\ \A x \in Sides : \A u, s :
              /\ Sent(x, u, s)' = Sent(x, u, s) + IF x = y /\ u = type /\ s = r THEN 1 ELSE 0
              /\ Ordered(x, s) /\ (x # y \/ type # "DATA" \/ s # r \/ Sent(x, "CLOSE", s) = 0)
                   => Ordered(x, s)'
              /\ Nearly(x, s) /\ (x # y \/ type # "DATA" \/ s # r \/ Ordered(x, s)) => Nearly(x, s)'
<1>1. <<type, r>> \in Frames /\ wire[y] \in Seq(Frames) /\ wire \in [Sides -> Seq(Frames)]
  BY DEF Frames, Shape
<1>2. \A x \in Sides : wire'[x] = IF x = y THEN Append(wire[x], <<type, r>>) ELSE wire[x]
  BY <1>1 DEF Puts
<1>3. wire' \in [Sides -> Seq(Frames)]
  BY <1>1 DEF Puts
<1>4. ASSUME NEW x \in Sides, NEW u, NEW s
      PROVE  /\ Sent(x, u, s)' = Sent(x, u, s) + IF x = y /\ u = type /\ s = r THEN 1 ELSE 0
             /\ Ordered(x, s) /\ (x # y \/ type # "DATA" \/ s # r \/ Sent(x, "CLOSE", s) = 0)
                  => Ordered(x, s)'
             /\ Nearly(x, s) /\ (x # y \/ type # "DATA" \/ s # r \/ Ordered(x, s)) => Nearly(x, s)'
  <2> DEFINE g == <<type, r>>
             f == <<u, s>>
  <2>1. g = f <=> u = type /\ s = r
    OBVIOUS
  <2>2. g # <<"DATA", s>> <=> type # "DATA" \/ s # r
    OBVIOUS
  <2>3. g \in Frames
    BY <1>1
  <2>4. Sent(x, u, s) = Count(wire[x], f) /\ Sent(x, u, s)' = Count(wire'[x], f)
    BY DEF Sent
  <2> HIDE DEF g, f
  <2>5. CASE x = y
    <3>1. wire'[x] = Append(wire[x], g) /\ wire[x] \in Seq(Frames)
      BY <1>1, <1>2, <2>5 DEF g
    <3>2. Count(wire'[x], f) = Count(wire[x], f) + IF g = f THEN 1 ELSE 0
      BY <2>3, <3>1, CountAppend
    <3>3. Ordered(x, s) /\ (g # <<"DATA", s>> \/ Sent(x, "CLOSE", s) = 0) => Ordered(x, s)'
      BY <2>3, <3>1, ClosingAppend DEF Ordered, Sent
    <3>4. Nearly(x, s) /\ (g # <<"DATA", s>> \/ Ordered(x, s)) => Nearly(x, s)'
      BY <2>3, <3>1, OneBehindAppend DEF Ordered, Nearly
    <3> QED BY <2>1, <2>2, <2>4, <2>5, <3>2, <3>3, <3>4
  <2>6. CASE x # y
    <3>1. wire'[x] = wire[x]
      BY <1>2, <2>6
    <3>2. Sent(x, u, s) \in Nat
      BY SentTypes
    <3> QED BY <2>6, <3>1, <3>2 DEF Sent, Ordered, Nearly
  <2> QED BY <2>5, <2>6
<1> QED BY <1>3, <1>4

LEMMA TakeEffect ==
  ASSUME Shape, NEW y \in Sides, NEW type \in Types, NEW r \in Sids, Takes(y, type, r)
  PROVE  /\ wire' \in [Sides -> Seq(Frames)]
         /\ \A x \in Sides : \A u, s :
              /\ Sent(x, u, s) = Sent(x, u, s)' + IF x = y /\ u = type /\ s = r THEN 1 ELSE 0
              /\ Sent(x, u, s)' \in Nat
              /\ Ordered(x, s) => Ordered(x, s)'
              /\ Nearly(x, s) => Nearly(x, s)'
         /\ Ordered(y, r) /\ type = "CLOSE" => Sent(y, "DATA", r) = 0
         /\ Nearly(y, r) /\ type = "CLOSE" => Sent(y, "DATA", r) <= 1
<1>1. wire[y] \in Seq(Frames) /\ wire[y] # <<>> /\ Tail(wire[y]) \in Seq(Frames)
      /\ wire \in [Sides -> Seq(Frames)]
  BY DEF Takes, Shape
<1>2. \A x \in Sides : wire'[x] = IF x = y THEN Tail(wire[x]) ELSE wire[x]
  BY <1>1 DEF Takes
<1>3. wire' \in [Sides -> Seq(Frames)]
  BY <1>1 DEF Takes
<1>4. ASSUME NEW x \in Sides, NEW u, NEW s
      PROVE  /\ Sent(x, u, s) = Sent(x, u, s)' + IF x = y /\ u = type /\ s = r THEN 1 ELSE 0
             /\ Sent(x, u, s)' \in Nat
             /\ Ordered(x, s) => Ordered(x, s)'
             /\ Nearly(x, s) => Nearly(x, s)'
  <2> DEFINE f == <<u, s>>
  <2>1. <<type, r>> = f <=> u = type /\ s = r
    OBVIOUS
  <2>2. Sent(x, u, s) = Count(wire[x], f) /\ Sent(x, u, s)' = Count(wire'[x], f)
    BY DEF Sent
  <2> HIDE DEF f
  <2>3. Sent(x, u, s)' \in Nat
    BY <1>3, <2>2, CountTypes
  <2>4. CASE x = y
    <3>1. wire'[x] = Tail(wire[x]) /\ wire[x] \in Seq(Frames) /\ wire[x] # <<>>
          /\ Head(wire[x]) = <<type, r>>
      BY <1>1, <1>2, <2>4 DEF Takes
    <3>2. Count(wire[x], f) = Count(wire'[x], f) + IF <<type, r>> = f THEN 1 ELSE 0
      BY <3>1, CountTail
    <3>3. Ordered(x, s) => Ordered(x, s)'
      BY <3>1, ClosingTail DEF Ordered
    <3>4. Nearly(x, s) => Nearly(x, s)'
      BY <3>1, OneBehindTail DEF Nearly
    <3> QED BY <2>1, <2>2, <2>3, <2>4, <3>2, <3>3, <3>4
  <2>5. CASE x # y
    <3>1. wire'[x] = wire[x]
      BY <1>2, <2>5
    <3> QED BY <2>3, <2>5, <3>1 DEF Sent, Ordered, Nearly
  <2> QED BY <2>4, <2>5
<1>5. Ordered(y, r) /\ type = "CLOSE" => Sent(y, "DATA", r) = 0
  BY <1>1, ClosingTail DEF Ordered, Sent, Takes
<1>6. Nearly(y, r) /\ type = "CLOSE" => Sent(y, "DATA", r) <= 1
  BY <1>1, OneBehindTail DEF Nearly, Sent, Takes
<1> QED BY <1>3, <1>4, <1>5, <1>6

(* A step is about one stream: the others do not notice.                              *)
Elsewhere(r) ==
  \A s \in Tcp \ {r} :
    /\ \A x \in Sides :
         /\ thread'[x][s] = thread[x][s] /\ sock'[x][s] = sock[x][s] /\ far'[x][s] = far[x][s]
         /\ in'[x][s] = in[x][s] /\ out'[x][s] = out[x][s]
         /\ (s \in table'[x] <=> s \in table[x]) /\ (reader'[x] = s <=> reader[x] = s)
         /\ (s \in cutOff'[x] <=> s \in cutOff[x])
    /\ (s \in ready' <=> s \in ready) /\ answer'[s] = answer[s]

WireElsewhere(r) ==
  \A s \in Tcp \ {r} : \A x \in Sides :
    /\ \A u : Sent(x, u, s)' = Sent(x, u, s)
    /\ (Ordered(x, s) => Ordered(x, s)') /\ (Nearly(x, s) => Nearly(x, s)')

LEMMA OthersGood ==
  ASSUME NEW r, Elsewhere(r), WireElsewhere(r), NEW s \in Tcp \ {r}, Good(s)
  PROVE  Good(s)'
<1> USE EntryAndExit
<1>1. /\ \A x \in Sides :
           /\ thread'[x][s] = thread[x][s] /\ sock'[x][s] = sock[x][s] /\ far'[x][s] = far[x][s]
           /\ in'[x][s] = in[x][s] /\ out'[x][s] = out[x][s]
           /\ (s \in table'[x] <=> s \in table[x]) /\ (reader'[x] = s <=> reader[x] = s)
           /\ (s \in cutOff'[x] <=> s \in cutOff[x])
      /\ (s \in ready' <=> s \in ready) /\ answer'[s] = answer[s]
  BY DEF Elsewhere
<1>2. \A x \in Sides : /\ \A u : Sent(x, u, s)' = Sent(x, u, s)
                       /\ (Ordered(x, s) => Ordered(x, s)') /\ (Nearly(x, s) => Nearly(x, s)')
  BY DEF WireElsewhere
<1>3. Opening(s)' /\ Replied(s)'
  BY <1>1, <1>2 DEF Good, Opening, Replied, Early, Blank
<1>4. Live(s)' => Live(s)
  BY <1>1, <1>2 DEF Live
<1>a. \A x, y \in Sides : /\ UnderWay(x, y, s)' = UnderWay(x, y, s)
                          /\ Held(y, s)' = Held(y, s) /\ Last(y, s)' = Last(y, s)
  BY <1>1, <1>2 DEF UnderWay, Held, Last, Reading
<1>5. \A x, y \in Sides : Carries(x, y, s) => Carries(x, y, s)'
  BY <1>1, <1>2, <1>a DEF Carries
<1>6. Carried(s)'
  BY <1>4, <1>5 DEF Good, Carried
<1> QED BY <1>3, <1>6 DEF Good

LEMMA QuietWire ==
  ASSUME NEW r, UNCHANGED wire PROVE WireElsewhere(r)
BY DEF WireElsewhere, Sent, Ordered, Nearly

LEMMA PutElsewhere ==
  ASSUME Shape, NEW y \in Sides, NEW type \in Types, NEW r \in Sids, Puts(y, type, r)
  PROVE  WireElsewhere(r)
<1>1. \A x \in Sides : \A u, s :
        s # r => /\ Sent(x, u, s)' = Sent(x, u, s) + 0
                 /\ (Ordered(x, s) => Ordered(x, s)') /\ (Nearly(x, s) => Nearly(x, s)')
  BY PutEffect
<1>2. \A x \in Sides : \A u, s : Sent(x, u, s) \in Nat
  BY SentTypes
<1> QED BY <1>1, <1>2 DEF WireElsewhere

LEMMA TakeElsewhere ==
  ASSUME Shape, NEW y \in Sides, NEW type \in Types, NEW r \in Sids, Takes(y, type, r)
  PROVE  WireElsewhere(r)
<1>1. \A x \in Sides : \A u, s :
        s # r => /\ Sent(x, u, s) = Sent(x, u, s)' + 0 /\ Sent(x, u, s)' \in Nat
                 /\ (Ordered(x, s) => Ordered(x, s)') /\ (Nearly(x, s) => Nearly(x, s)')
  BY TakeEffect
<1> QED BY <1>1 DEF WireElsewhere

LEMMA SendsUp ==
  ASSUME Shape, link = "up", NEW x \in Sides, NEW t, NEW type, NEW s, Send(x, t, type, s)
  PROVE  Puts(Other(x), type, s) /\ UNCHANGED <<done, stopper>>
BY DEF Send, Puts, Queue

LEMMA Reads ==
  ASSUME Shape
  PROVE  "recv" \notin Sids /\ \A x \in Sides : NextRead(x) = "recv"
BY SocksMuxAssumption DEF Shape, NextRead, Sids

LEMMA Pumps ==
  ASSUME Shape, UNCHANGED done, NEW x \in Sides, NEW s
  PROVE  Pumping(x, s) = Goto(x, s, "read")
<1>1. done'[x] = FALSE
  BY DEF Shape
<1> QED BY <1>1 DEF Pumping

LEMMA GetDataGood ==
  ASSUME EndInv, link = "up", NEW x \in Sides, NEW r \in Sids, GetData(x, r)
  PROVE  EndInv'
<1> USE EntryAndExit DEF EndInv
<1>1. /\ reader[x] = "recv" /\ Takes(x, "DATA", r) /\ "DATA" \in Types
      /\ UNCHANGED <<table, thread, sock, done, stopper, far, ready, cutOff, out, in, answer>>
      /\ reader' = [reader EXCEPT ![x] = IF r \in table[x] THEN r ELSE "recv"]
      /\ "recv" \notin Sids
  BY Reads DEF GetData, Arrived, Takes, Types, streamVars
<1>2. Shape'
  BY <1>1, TakeEffect DEF Shape
<1>r. \A y \in Sides : reader'[y] = IF y = x /\ r \in table[x] THEN r ELSE reader[y]
  BY <1>1 DEF Shape
<1>3. Elsewhere(r) /\ WireElsewhere(r)
  <2>1. WireElsewhere(r)
    BY <1>1, TakeElsewhere
  <2>2. Elsewhere(r)
    BY <1>1, <1>r, Streams DEF Elsewhere
  <2> QED BY <2>1, <2>2
<1>4. ASSUME r \in Tcp PROVE Good(r)'
  <2>1. Good(r)
    BY <1>4
  <2>2. /\ Sent(x, "DATA", r) = Sent(x, "DATA", r)' + 1 /\ Sent(x, "DATA", r)' \in Nat
        /\ \A y \in Sides : \A u : y # x \/ u # "DATA" => Sent(y, u, r)' = Sent(y, u, r)
        /\ \A y \in Sides : (Ordered(y, r) => Ordered(y, r)') /\ (Nearly(y, r) => Nearly(y, r)')
    <3>1. /\ \A y \in Sides : \A u :
               /\ Sent(y, u, r) = Sent(y, u, r)' + IF y = x /\ u = "DATA" /\ r = r THEN 1 ELSE 0
               /\ Sent(y, u, r)' \in Nat
               /\ (Ordered(y, r) => Ordered(y, r)') /\ (Nearly(y, r) => Nearly(y, r)')
      BY <1>1, TakeEffect
    <3> QED BY <3>1
  <2>3. ~ Early(r)
    BY <2>1, <2>2 DEF Good, Opening, Blank
  <2>4. Opening(r)' /\ Replied(r)'
    BY <1>1, <2>1, <2>2, <2>3 DEF Good, Opening, Replied, Early
  <2>5. Live(r)' => Live(r)
    BY <1>1, <2>2 DEF Live
  <2>7. ASSUME NEW y \in Sides, NEW z \in Sides, Carries(y, z, r) PROVE Carries(y, z, r)'
    <3>1. Held(z, r)' = Held(z, r) /\ Last(z, r)' = Last(z, r) /\ Held(z, r) \in Nat
      BY <1>1 DEF Held, Last
    <3>2. sock[y][r] = "open" => UnderWay(y, z, r)' = UnderWay(y, z, r)
      <4>1. CASE y = x
        <5>1. sock[y][r] = "open" => Reading(y, r) = 0 /\ Reading(y, r)' = 1
          BY <1>1, <1>4, <1>r, <2>7, <4>1, Streams DEF Carries, Reading
        <5> QED BY <2>2, <3>1, <4>1, <5>1 DEF UnderWay
      <4>2. CASE y # x
        <5>1. Reading(y, r)' = Reading(y, r)
          BY <1>r, <4>2 DEF Reading
        <5> QED BY <2>2, <3>1, <4>2, <5>1 DEF UnderWay
      <4> QED BY <4>1, <4>2
    <3>3. Sent(y, "CLOSE", r)' = Sent(y, "CLOSE", r)
      BY <2>2
    <3> QED BY <1>1, <2>2, <2>7, <3>1, <3>2, <3>3 DEF Carries
  <2> QED BY <2>1, <2>4, <2>5, <2>7 DEF Good, Carried
<1> QED BY <1>2, <1>3, <1>4, OthersGood, Streams

LEMMA Both ==
  ASSUME NEW x \in Sides, NEW s
  PROVE  /\ Other(x) \in Sides /\ Other(x) # x /\ \A y \in Sides : y = x \/ y = Other(x)
         /\ Carried(s) = (Live(s) => Carries(x, Other(x), s) /\ Carries(Other(x), x, s))
         /\ Carried(s)' = (Live(s)' => Carries(x, Other(x), s)' /\ Carries(Other(x), x, s)')
BY EntryAndExit DEF Sides, Other, Carried

(* What an end of a stream carries stands when nothing that matters to it changes.     *)
LEMMA CarriesKept ==
  ASSUME NEW x \in Sides, NEW y \in Sides, NEW r \in Sids, Carries(x, y, r),
         sock'[x][r] = sock[x][r], (r \in table'[x] <=> r \in table[x]),
         far'[x][r] = far[x][r], far'[y][r] = far[y][r],
         (r \in cutOff'[x] <=> r \in cutOff[x]), (r \in cutOff'[y] <=> r \in cutOff[y]),
         in'[x][r] = in[x][r], out'[y][r] = out[y][r], (reader'[x] = r <=> reader[x] = r),
         Sent(x, "CLOSE", r)' = Sent(x, "CLOSE", r), Sent(x, "DATA", r)' = Sent(x, "DATA", r),
         Ordered(x, r) => Ordered(x, r)', Nearly(x, r) => Nearly(x, r)',
         Held(y, r)' = Held(y, r), Last(y, r)' = Last(y, r),
         thread[y][r] = "end" => thread'[y][r] = "end"
  PROVE  Carries(x, y, r)'
<1>1. UnderWay(x, y, r)' = UnderWay(x, y, r)
  <2>1. Reading(x, r)' = Reading(x, r)
    BY DEF Reading
  <2> QED BY <2>1 DEF UnderWay
<1> QED BY <1>1 DEF Carries

LEMMA RepliedKept ==
  ASSUME NEW r, Replied(r),
         r \in ready' => thread'[Entry][r] \in {"read", "got", "end"},
         thread'[Entry][r] \in {"read", "got"} => r \in ready',
         \A z \in Sides : /\ Sent(z, "UDP_CLOSE", r)' = Sent(z, "UDP_CLOSE", r)
                          /\ sock'[z][r] = "late" => thread'[z][r] = "read"
  PROVE  Replied(r)'
BY DEF Replied

LEMMA LiveIsLate ==
  ASSUME Shape, NEW s \in Tcp, Opening(s)
  PROVE  Live(s) => ~ Early(s)
BY EntryAndExit DEF Opening, Blank, Live

LEMMA ClosedEffect ==
  ASSUME Shape, NEW x \in Sides, NEW ss
  PROVE  /\ Closed(x, ss) \in [Sides -> [Sids -> {"none", "open", "late", "closed"}]]
         /\ \A y \in Sides, s \in Sids :
              /\ ~ (y = x /\ s \in ss) => Closed(x, ss)[y][s] = sock[y][s]
              /\ sock[y][s] # "open" => Closed(x, ss)[y][s] = sock[y][s]
              /\ y = x /\ s \in ss => Closed(x, ss)[y][s] # "open"
              /\ Closed(x, ss)[y][s] = "none" => sock[y][s] = "none"
              /\ Closed(x, ss)[y][s] = "late" => sock[y][s] = "late" \/ InRecv(y, s)
<1> DEFINE row == [s \in Sids |-> IF s \in ss /\ sock[x][s] = "open"
                                  THEN IF InRecv(x, s) THEN "late" ELSE "closed" ELSE sock[x][s]]
<1>1. Closed(x, ss) = [sock EXCEPT ![x] = row]
  BY DEF Closed
<1>2. /\ row \in [Sids -> {"none", "open", "late", "closed"}]
      /\ \A s \in Sids : /\ s \notin ss => row[s] = sock[x][s]
                         /\ sock[x][s] # "open" => row[s] = sock[x][s]
                         /\ s \in ss => row[s] # "open"
                         /\ row[s] = "none" => sock[x][s] = "none"
                         /\ row[s] = "late" => sock[x][s] = "late" \/ InRecv(x, s)
  BY DEF Shape
<1> HIDE DEF row, InRecv
<1> QED BY <1>1, <1>2 DEF Shape

LEMMA ClosedOne ==
  ASSUME Shape, NEW x \in Sides, NEW r \in Sids, sock' = Closed(x, {r})
  PROVE  /\ sock' \in [Sides -> [Sids -> {"none", "open", "late", "closed"}]]
         /\ \A y \in Sides, s \in Sids : ~ (y = x /\ s = r) => sock'[y][s] = sock[y][s]
<1> DEFINE ss == {r}
<1>1. sock' = Closed(x, ss) /\ \A s : s \in ss <=> s = r
  OBVIOUS
<1> HIDE DEF ss
<1>2. /\ Closed(x, ss) \in [Sides -> [Sids -> {"none", "open", "late", "closed"}]]
      /\ \A y \in Sides, s \in Sids : ~ (y = x /\ s \in ss) => Closed(x, ss)[y][s] = sock[y][s]
  BY ClosedEffect
<1> QED BY <1>1, <1>2

LEMMA ClosedAtOnce ==
  ASSUME Shape, NEW x \in Sides, NEW r \in Sids, sock' = Closed(x, {r}), ~ InRecv(x, r),
         sock[x][r] # "late"
  PROVE  sock'[x][r] # "late"
<1> DEFINE row == [s \in Sids |-> IF s \in {r} /\ sock[x][s] = "open"
                                  THEN IF InRecv(x, s) THEN "late" ELSE "closed" ELSE sock[x][s]]
<1>1. sock' = [sock EXCEPT ![x] = row]
  BY DEF Closed
<1>2. row[r] # "late"
  OBVIOUS
<1> HIDE DEF row
<1> QED BY <1>1, <1>2 DEF Shape

LEMMA RemoveEffect ==
  ASSUME Shape, NEW x \in Sides, NEW r \in Sids, Remove(x, r)
  PROVE  /\ table' \in [Sides -> SUBSET Sids]
         /\ sock' \in [Sides -> [Sids -> {"none", "open", "late", "closed"}]]
         /\ \A y \in Sides, s \in Sids :
              /\ (s \in table'[y] <=> s \in table[y] /\ ~ (y = x /\ s = r))
              /\ ~ (y = x /\ s = r) => sock'[y][s] = sock[y][s]
              /\ sock[y][s] # "open" => sock'[y][s] = sock[y][s]
              /\ y = x /\ s = r /\ s \in table[x] => sock'[y][s] # "open"
              /\ sock'[y][s] = "none" => sock[y][s] = "none"
              /\ sock'[y][s] = "late" /\ s \in Tcp => sock[y][s] = "late" \/ thread[y][s] = "read"
<1>1. /\ table' = [table EXCEPT ![x] = @ \ {r}]
      /\ sock' = IF r \in table[x] THEN Closed(x, {r}) ELSE sock
  BY DEF Remove
<1>2. /\ table' \in [Sides -> SUBSET Sids]
      /\ \A y \in Sides, s \in Sids : (s \in table'[y] <=> s \in table[y] /\ ~ (y = x /\ s = r))
  BY <1>1 DEF Shape
<1>i. \A y \in Sides, s \in Tcp : InRecv(y, s) => thread[y][s] = "read"
  BY DEF InRecv
<1>3. CASE r \in table[x]
  BY <1>1, <1>2, <1>3, <1>i, ClosedEffect
<1>4. CASE r \notin table[x]
  BY <1>1, <1>2, <1>4 DEF Shape
<1> QED BY <1>3, <1>4

LEMMA BackEffect ==
  ASSUME Shape, NEW x \in Sides, NEW r \in Sids
  PROVE  /\ Back(x, r) \in [Sides -> [Sids -> {"none", "open", "late", "closed"}]]
         /\ \A z \in Sides, s \in Sids :
              \/ Back(x, r)[z][s] = sock[z][s]
              \/ z = x /\ s = r /\ sock[z][s] = "late" /\ Back(x, r)[z][s] = "closed"
<1> DEFINE v == IF sock[x][r] = "late" THEN "closed" ELSE sock[x][r]
<1>1. Back(x, r) = [sock EXCEPT ![x][r] = v]
  BY DEF Back
<1>2. v \in {"none", "open", "late", "closed"} /\ (v = sock[x][r] \/ (sock[x][r] = "late" /\ v = "closed"))
  BY DEF Shape
<1> HIDE DEF v
<1> QED BY <1>1, <1>2 DEF Shape

LEMMA BackOne ==
  ASSUME Shape, NEW x \in Sides, NEW r \in Sids, sock' = Back(x, r)
  PROVE  /\ sock' \in [Sides -> [Sids -> {"none", "open", "late", "closed"}]]
         /\ \A z \in Sides, s \in Sids :
              \/ sock'[z][s] = sock[z][s]
              \/ z = x /\ s = r /\ sock[z][s] = "late" /\ sock'[z][s] = "closed"
<1> DEFINE b == Back(x, r)
<1>1. /\ b \in [Sides -> [Sids -> {"none", "open", "late", "closed"}]]
      /\ \A z \in Sides, s \in Sids :
           \/ b[z][s] = sock[z][s]
           \/ z = x /\ s = r /\ sock[z][s] = "late" /\ b[z][s] = "closed"
  BY BackEffect
<1> HIDE DEF b
<1> QED BY <1>1 DEF b

(* recv() returns a chunk: it is in the hands of the pump now, the last one if the    *)
(* socket was closed meanwhile.                                                       *)
LEMMA PumpReadsGood ==
  ASSUME EndInv, link = "up", NEW x \in Sides, NEW r \in Sids, PumpReads(x, r)
  PROVE  EndInv'
<1> USE DEF EndInv
<1> DEFINE y == Other(x)
<1>a. y \in Sides /\ y # x /\ \A z \in Sides : z = x \/ z = y
  BY Both
<1>b. /\ r \in Tcp /\ thread[x][r] = "read" /\ sock[x][r] # "closed" /\ Goto(x, r, "got")
      /\ UNCHANGED <<wire, done, stopper, table, reader, far, answer, ready, cutOff, in>>
      /\ out' = [out EXCEPT ![x][r] = @ + 1]
      /\ sock' = Back(x, r)
  BY DEF PumpReads, muxVars, replyVars
<1>c. /\ thread' \in [Sides -> [Sids -> Steps \ {"eof"}]]
      /\ \A z \in Sides, s \in Sids :
           thread'[z][s] = IF z = x /\ s = r THEN "got" ELSE thread[z][s]
  BY <1>b DEF Goto, Shape, Steps
<1>d. /\ out' \in [Sides -> [Sids -> Nat]]
      /\ \A z \in Sides, s \in Sids : out'[z][s] = IF z = x /\ s = r THEN out[z][s] + 1 ELSE out[z][s]
  BY <1>b DEF Shape
<1>e. /\ sock' \in [Sides -> [Sids -> {"none", "open", "late", "closed"}]]
      /\ \A z \in Sides, s \in Sids :
           \/ sock'[z][s] = sock[z][s]
           \/ z = x /\ s = r /\ sock[z][s] = "late" /\ sock'[z][s] = "closed"
  BY <1>b, BackOne
<1>f. sock'[x][r] # "late"
  <2>1. sock'[x][r] = IF sock[x][r] = "late" THEN "closed" ELSE sock[x][r]
    BY <1>b DEF Back, Shape
  <2> QED BY <2>1
<1> HIDE DEF y
<1>2. Shape'
  BY <1>b, <1>c, <1>d, <1>e DEF Shape
<1>3. Elsewhere(r) /\ WireElsewhere(r)
  BY <1>b, <1>c, <1>d, <1>e, Streams, QuietWire DEF Elsewhere
<1>4. Good(r)'
  <2>1. /\ Good(r)
        /\ \A z \in Sides : /\ \A u : Sent(z, u, r)' = Sent(z, u, r) /\ Sent(z, u, r) \in Nat
                            /\ (Ordered(z, r)' <=> Ordered(z, r)) /\ (Nearly(z, r)' <=> Nearly(z, r))
    BY <1>b, SentTypes DEF Sent, Ordered, Nearly
  <2>2. ~ Early(r)
    BY <1>b, <2>1, EntryAndExit DEF Good, Opening, Blank, Replied, Early, Sides
  <2>3. Opening(r)' /\ Replied(r)'
    <3>1. \A z \in Sides : /\ thread'[z][r] = "got" => (z = x \/ thread[z][r] = "got")
                           /\ thread'[z][r] # thread[z][r] => thread[z][r] = "read" /\ thread'[z][r] = "got"
                           /\ sock'[z][r] # sock[z][r] => thread[z][r] = "read"
                           /\ sock'[z][r] = "late" => thread'[z][r] = "read"
      BY <1>a, <1>b, <1>c, <1>e, <1>f, <2>1 DEF Good, Replied
    <3>o. Sent(Exit, "OPEN", r)' = Sent(Exit, "OPEN", r) /\ ready' = ready
      BY <1>b, <2>1, EntryAndExit
    <3>e. ~ Early(r)'
      BY <2>2, <3>1, EntryAndExit DEF Early
    <3>2. Opening(r)'
      BY <2>1, <2>2, <3>1, <3>o, <3>e, EntryAndExit DEF Good, Opening
    <3>3. Replied(r)'
      <4>1. Replied(r)
        BY <2>1 DEF Good
      <4>2. r \in ready' => thread'[Entry][r] \in {"read", "got", "end"}
        BY <3>1, <3>o, <4>1, EntryAndExit DEF Replied
      <4>3. thread'[Entry][r] \in {"read", "got"} => r \in ready'
        BY <3>1, <3>o, <4>1, EntryAndExit DEF Replied
      <4> QED BY <2>1, <3>1, <4>1, <4>2, <4>3 DEF Replied
    <3> QED BY <3>2, <3>3
  <2>5. Live(r)' => Live(r)
    BY <1>b, <1>c, <2>1, EntryAndExit DEF Live
  <2>6. ASSUME Live(r) PROVE Carries(x, y, r)' /\ Carries(y, x, r)'
    <3>1. Carries(x, y, r) /\ Carries(y, x, r)
      BY <2>1, <2>6, Both DEF Good, y
    <3>2. /\ sock'[y][r] = sock[y][r] /\ out'[y][r] = out[y][r] /\ out'[x][r] = out[x][r] + 1
          /\ thread'[y][r] = thread[y][r] /\ thread'[x][r] = "got"
          /\ (sock'[x][r] = "open" <=> sock[x][r] = "open") /\ (sock'[x][r] = "none" <=> sock[x][r] = "none")
      BY <1>a, <1>b, <1>c, <1>d, <1>e, Streams
    <3>3. /\ in[y][r] \in Nat /\ out[x][r] \in Nat
          /\ sock[x][r] \in {"none", "open", "late", "closed"}
      BY <1>a, <1>b, Streams DEF Shape
    <3>4. Carries(x, y, r)'
      <4>1. /\ UnderWay(x, y, r)' = UnderWay(x, y, r)
            /\ Held(y, r)' = Held(y, r) /\ Last(y, r)' = Last(y, r)
        BY <1>b, <2>1, <3>2, <1>a DEF UnderWay, Held, Last, Reading
      <4> QED BY <1>a, <1>b, <2>1, <3>1, <3>2, <4>1 DEF Carries
    <3>5. Carries(y, x, r)'
      <4>1. Held(x, r) = 0 /\ Held(x, r)' = 1 /\ Last(x, r)' = 0
        BY <1>b, <3>2 DEF Held, Last
      <4>2. /\ UnderWay(y, x, r)' = UnderWay(y, x, r) + 1
            /\ UnderWay(y, x, r) \in Nat
        BY <1>a, <1>b, <2>1, <4>1 DEF UnderWay, Reading
      <4>3. r \in cutOff[x] => sock[x][r] = "late" /\ Last(x, r) = 1
        <5>1. r \in cutOff[x] => sock[x][r] = "late"
          BY <1>b, <3>1, <3>3 DEF Carries
        <5> QED BY <1>b, <5>1 DEF Last
      <4>4. far[y][r] = "up" => Ordered(y, r)
        BY <3>1, <4>1, <4>3 DEF Carries
      <4>5. sock[y][r] # "open" /\ far[y][r] = "up" => r \in cutOff[x]
        BY <1>b, <3>1 DEF Carries
      <4>6. Sent(y, "CLOSE", r) > 0 => r \in cutOff[x]
        BY <1>b, <3>1 DEF Carries
      <4>7. sock[y][r] # "open" /\ far[y][r] = "up" =>
              far[x][r] = "shut" /\ in[y][r] <= out[x][r] /\ out[x][r] - in[y][r] + 1 <= 1
        BY <3>1, <4>3, <4>5 DEF Carries
      <4>8. sock[y][r] # "open" /\ far[y][r] = "up" =>
              /\ in'[y][r] <= out'[x][r] /\ out'[x][r] - in'[y][r] + Last(x, r)' <= 1
        BY <1>b, <3>2, <3>3, <4>1, <4>7
      <4>9. sock[y][r] = "open" /\ far[y][r] = "up" => in'[y][r] + UnderWay(y, x, r)' = out'[x][r]
        BY <1>b, <3>1, <3>2, <3>3, <4>2 DEF Carries
      <4>10. /\ Sent(y, "CLOSE", r)' = Sent(y, "CLOSE", r)
             /\ (Ordered(y, r)' <=> Ordered(y, r)) /\ (Nearly(y, r)' <=> Nearly(y, r))
             /\ table'[y] = table[y] /\ far' = far /\ cutOff' = cutOff
        BY <1>a, <1>b, <2>1
      <4> QED BY <3>1, <3>2, <4>4, <4>5, <4>6, <4>7, <4>8, <4>9, <4>10 DEF Carries
    <3> QED BY <3>4, <3>5
  <2>7. Carried(r)'
    BY <2>5, <2>6, Both DEF y
  <2> QED BY <2>3, <2>7 DEF Good
<1> QED BY <1>2, <1>3, <1>4, OthersGood, Streams

(* The pump sends the chunk it holds: behind a MUX_CLOSE only if the reader cut the   *)
(* stream off, and then it is the first one there.                                    *)
LEMMA PumpSendsGood ==
  ASSUME EndInv, link = "up", NEW x \in Sides, NEW r \in Tcp, PumpSends(x, r)
  PROVE  EndInv'
<1> USE DEF EndInv
<1> DEFINE y == Other(x)
<1>a. y \in Sides /\ y # x /\ (\A z \in Sides : z = x \/ z = y) /\ r \in Sids
  BY Both, Streams
<1>b. /\ thread[x][r] = "got" /\ Goto(x, r, "read")
      /\ Puts(y, "DATA", r) /\ "DATA" \in Types
      /\ UNCHANGED <<done, stopper, table, sock, reader, far, answer, ready, cutOff, out, in>>
  BY SendsUp, Pumps DEF PumpSends, Types, appVars, replyVars
<1>c. /\ thread' \in [Sides -> [Sids -> Steps \ {"eof"}]]
      /\ \A z \in Sides, s \in Sids :
           thread'[z][s] = IF z = x /\ s = r THEN "read" ELSE thread[z][s]
  BY <1>b DEF Goto, Shape, Steps
<1> HIDE DEF y
<1>2. Shape'
  BY <1>a, <1>b, <1>c, PutEffect DEF Shape
<1>3. Elsewhere(r) /\ WireElsewhere(r)
  <2>1. WireElsewhere(r)
    BY <1>a, <1>b, PutElsewhere
  <2>2. Elsewhere(r)
    BY <1>b, <1>c, Streams DEF Elsewhere
  <2> QED BY <2>1, <2>2
<1>4. Good(r)'
  <2>1. Good(r) /\ thread'[x][r] = "read" /\ thread'[y][r] = thread[y][r]
    BY <1>a, <1>c
  <2>2. /\ Sent(y, "DATA", r)' = Sent(y, "DATA", r) + 1
        /\ \A z \in Sides : \A u : z # y \/ u # "DATA" => Sent(z, u, r)' = Sent(z, u, r)
        /\ \A z \in Sides : Ordered(z, r) /\ (z # y \/ Sent(z, "CLOSE", r) = 0) => Ordered(z, r)'
        /\ \A z \in Sides : Nearly(z, r) /\ (z # y \/ Ordered(z, r)) => Nearly(z, r)'
        /\ \A z \in Sides : \A u : Sent(z, u, r) \in Nat
    <3>1. /\ \A z \in Sides : \A u :
               /\ Sent(z, u, r)' = Sent(z, u, r) + IF z = y /\ u = "DATA" /\ r = r THEN 1 ELSE 0
               /\ Ordered(z, r) /\ (z # y \/ Sent(z, "CLOSE", r) = 0) => Ordered(z, r)'
               /\ Nearly(z, r) /\ (z # y \/ Ordered(z, r)) => Nearly(z, r)'
      BY <1>a, <1>b, PutEffect
    <3> QED BY <3>1, <1>a, SentTypes
  <2>3. ~ Early(r)
    BY <1>b, <2>1, EntryAndExit DEF Good, Opening, Blank, Replied, Early, Sides
  <2>4. Opening(r)' /\ Replied(r)'
    <3>1. \A z \in Sides : /\ thread'[z][r] = "got" => thread[z][r] = "got"
                           /\ thread'[z][r] # thread[z][r] => thread[z][r] = "got" /\ thread'[z][r] = "read"
      BY <1>a, <1>b, <2>1
    <3>2. \A z \in Sides : /\ Sent(z, "OPEN", r)' = Sent(z, "OPEN", r)
                           /\ Sent(z, "UDP_CLOSE", r)' = Sent(z, "UDP_CLOSE", r)
      BY <2>2
    <3>3. Opening(r)'
      BY <1>b, <2>1, <2>3, <3>1, <3>2, EntryAndExit DEF Good, Opening, Early
    <3>4. Replied(r)'
      <4>1. Replied(r)
        BY <2>1 DEF Good
      <4>2. r \in ready' => thread'[Entry][r] \in {"read", "got", "end"}
        BY <1>b, <3>1, <4>1, EntryAndExit DEF Replied
      <4>3. thread'[Entry][r] \in {"read", "got"} => r \in ready'
        BY <1>b, <3>1, <4>1, EntryAndExit DEF Replied
      <4> QED BY <1>b, <3>1, <3>2, <4>1, <4>2, <4>3 DEF Replied
    <3> QED BY <3>3, <3>4
  <2>5. Live(r)' => Live(r)
    <3>1. thread'[Entry][r] \in {"wait", "written"} => thread'[Entry][r] = thread[Entry][r]
      BY <1>a, <1>c, EntryAndExit
    <3>2. Sent(Entry, "OK", r)' = Sent(Entry, "OK", r)
      BY <2>2, EntryAndExit
    <3> QED BY <1>b, <3>1, <3>2 DEF Live
  <2>6. ASSUME Live(r) PROVE Carries(x, y, r)' /\ Carries(y, x, r)'
    <3>1. Carries(x, y, r) /\ Carries(y, x, r) /\ sock[x][r] # "late"
      BY <1>b, <2>1, <2>6, Both DEF Good, Replied, y
    <3>3. in[y][r] \in Nat /\ out[x][r] \in Nat
      BY <1>a, <1>b, Streams DEF Shape
    <3>4. Carries(x, y, r)'
      <4>1. /\ UnderWay(x, y, r)' = UnderWay(x, y, r)
            /\ Held(y, r)' = Held(y, r) /\ Last(y, r)' = Last(y, r)
        BY <1>a, <1>b, <2>1, <2>2 DEF UnderWay, Held, Last, Reading
      <4>2. Sent(x, "CLOSE", r)' = Sent(x, "CLOSE", r)
        BY <1>a, <2>2
      <4> QED BY <1>a, <1>b, <2>1, <2>2, <3>1, <4>1, <4>2 DEF Carries
    <3>5. Carries(y, x, r)'
      <4>1. Held(x, r) = 1 /\ Last(x, r) = 0 /\ Held(x, r)' = 0 /\ Last(x, r)' = 0
        BY <1>b, <2>1, <3>1 DEF Held, Last
      <4>2. UnderWay(y, x, r)' = UnderWay(y, x, r)
        BY <1>a, <1>b, <2>2, <4>1 DEF UnderWay, Reading
      <4>3. Sent(y, "CLOSE", r)' = Sent(y, "CLOSE", r)
        BY <1>a, <2>2
      <4>4. far[y][r] = "up" => Ordered(y, r) /\ Nearly(y, r)'
        BY <1>a, <2>2, <3>1, <4>1 DEF Carries
      <4>5. r \notin cutOff[x] => Sent(y, "CLOSE", r) = 0
        BY <1>a, <1>b, <2>2, <3>1 DEF Carries
      <4>6. far[y][r] = "up" /\ r \notin cutOff[x] => Ordered(y, r)'
        BY <1>a, <2>2, <4>4, <4>5
      <4> QED BY <1>b, <2>1, <2>2, <3>1, <4>1, <4>2, <4>3, <4>4, <4>6 DEF Carries
    <3> QED BY <3>4, <3>5
  <2>7. Carried(r)'
    BY <2>5, <2>6, Both DEF y
  <2> QED BY <2>4, <2>7 DEF Good
<1> QED BY <1>2, <1>3, <1>4, OthersGood

(* What a MUX_CLOSE of stream r does to the counts.                                   *)
LEMMA PutClose ==
  ASSUME Shape, NEW y \in Sides, NEW r \in Sids, Puts(y, "CLOSE", r)
  PROVE  /\ wire' \in [Sides -> Seq(Frames)]
         /\ \A z \in Sides : \A u : /\ Sent(z, u, r) \in Nat
                                    /\ z # y \/ u # "CLOSE" => Sent(z, u, r)' = Sent(z, u, r)
         /\ \A z \in Sides : (Ordered(z, r) => Ordered(z, r)') /\ (Nearly(z, r) => Nearly(z, r)')
<1>1. PICK type \in Types : type = "CLOSE"
  BY DEF Types
<1>2. Puts(y, type, r)
  BY <1>1
<1>3. /\ wire' \in [Sides -> Seq(Frames)]
      /\ \A z \in Sides : \A u, s :
           /\ Sent(z, u, s)' = Sent(z, u, s) + IF z = y /\ u = type /\ s = r THEN 1 ELSE 0
           /\ Ordered(z, s) /\ (z # y \/ type # "DATA" \/ s # r \/ Sent(z, "CLOSE", s) = 0)
                => Ordered(z, s)'
           /\ Nearly(z, s) /\ (z # y \/ type # "DATA" \/ s # r \/ Ordered(z, s)) => Nearly(z, s)'
  BY <1>2, PutEffect
<1>4. /\ \A z \in Sides : \A u : Sent(z, u, r) \in Nat
      /\ type # "DATA" /\ type = "CLOSE"
  BY <1>1, SentTypes
<1>5. \A z \in Sides : \A u : z # y \/ u # "CLOSE" => Sent(z, u, r)' = Sent(z, u, r)
  BY <1>3, <1>4
<1>6. \A z \in Sides : (Ordered(z, r) => Ordered(z, r)') /\ (Nearly(z, r) => Nearly(z, r)')
  BY <1>3, <1>4
<1> QED BY <1>3, <1>4, <1>5, <1>6

LEMMA AfterPumpGood ==
  ASSUME EndInv, link = "up", NEW x \in Sides, NEW r \in Tcp, AfterPump(x, r),
         thread[x][r] = "read", far[x][r] = "shut" \/ sock[x][r] # "open"
  PROVE  EndInv'
<1> USE DEF EndInv
<1> DEFINE y == Other(x)
<1>a. y \in Sides /\ y # x /\ (\A z \in Sides : z = x \/ z = y) /\ r \in Sids
  BY Both, Streams
<1>b. /\ Puts(y, "CLOSE", r) /\ "CLOSE" \in Types
      /\ UNCHANGED <<done, stopper, reader, far, answer, ready, cutOff, in, out>>
      /\ thread' = [thread EXCEPT ![x][r] = "end"]
      /\ table' = [table EXCEPT ![x] = @ \ {r}]
      /\ sock' = [sock EXCEPT ![x][r] = "closed"]
  BY SendsUp DEF AfterPump, Goto, Types, appVars, replyVars
<1>c. /\ thread' \in [Sides -> [Sids -> Steps \ {"eof"}]]
      /\ \A z \in Sides, s \in Sids :
           thread'[z][s] = IF z = x /\ s = r THEN "end" ELSE thread[z][s]
  BY <1>a, <1>b DEF Shape, Steps
<1>d. /\ table' \in [Sides -> SUBSET Sids]
      /\ \A z \in Sides, s \in Sids : (s \in table'[z] <=> s \in table[z] /\ ~ (z = x /\ s = r))
  BY <1>b DEF Shape
<1>e. /\ sock' \in [Sides -> [Sids -> {"none", "open", "late", "closed"}]]
      /\ \A z \in Sides, s \in Sids :
           sock'[z][s] = IF z = x /\ s = r THEN "closed" ELSE sock[z][s]
  BY <1>a, <1>b DEF Shape
<1> HIDE DEF y
<1>2. Shape'
  BY <1>a, <1>b, <1>c, <1>d, <1>e, PutClose DEF Shape
<1>3. Elsewhere(r) /\ WireElsewhere(r)
  <2>1. WireElsewhere(r)
    BY <1>a, <1>b, PutElsewhere
  <2>2. Elsewhere(r)
    BY <1>b, <1>c, <1>d, <1>e, Streams DEF Elsewhere
  <2> QED BY <2>1, <2>2
<1>4. Good(r)'
  <2>1. Good(r)
    OBVIOUS
  <2>2. /\ \A z \in Sides : \A u : z # y \/ u # "CLOSE" => Sent(z, u, r)' = Sent(z, u, r)
        /\ \A z \in Sides : (Ordered(z, r) => Ordered(z, r)') /\ (Nearly(z, r) => Nearly(z, r)')
        /\ \A z \in Sides : \A u : Sent(z, u, r) \in Nat
    BY <1>a, <1>b, PutClose
  <2>3. ~ Early(r) /\ ~ Early(r)'
    BY <1>a, <1>c, <2>1, EntryAndExit DEF Good, Opening, Blank, Replied, Early, Sides
  <2>4. Opening(r)' /\ Replied(r)'
    BY <1>a, <1>b, <1>c, <1>e, <2>1, <2>2, <2>3, EntryAndExit DEF Good, Opening, Replied, Early
  <2>5. Live(r)' => Live(r)
    BY <1>a, <1>b, <1>c, <2>2, EntryAndExit DEF Live
  <2>6. ASSUME Live(r) PROVE Carries(x, y, r)' /\ Carries(y, x, r)'
    <3>1. Carries(x, y, r) /\ Carries(y, x, r)
      BY <2>1, <2>6, Both DEF Good, y
    <3>2. /\ sock'[y][r] = sock[y][r] /\ sock'[x][r] = "closed"
          /\ (r \in table'[y] <=> r \in table[y])
          /\ thread'[y][r] = thread[y][r] /\ thread'[x][r] = "end" /\ thread[x][r] = "read"
      BY <1>a, <1>c, <1>d, <1>e
    <3>3. Carries(x, y, r)'
      <4>1. Held(y, r)' = Held(y, r) /\ Last(y, r)' = Last(y, r)
        BY <3>2 DEF Held, Last
      <4>2. Sent(x, "CLOSE", r)' = Sent(x, "CLOSE", r)
        BY <1>a, <2>2
      <4> QED BY <1>a, <1>b, <2>2, <3>1, <3>2, <4>1, <4>2 DEF Carries
    <3>4. far[x][r] = "shut" \/ far[y][r] = "shut"
      BY <1>a, <3>1 DEF Carries, Shape
    <3>5. Carries(y, x, r)'
      <4>1. Held(x, r) = 0 /\ Held(x, r)' = 0 /\ Last(x, r)' = 0 /\ Last(x, r) \in {0, 1}
        BY <3>2 DEF Held, Last
      <4>2. UnderWay(y, x, r)' = UnderWay(y, x, r)
        BY <1>a, <1>b, <2>2, <4>1 DEF UnderWay, Reading
      <4>3. in[y][r] \in Nat /\ out[x][r] \in Nat
        BY <1>a DEF Shape
      <4> QED BY <1>a, <1>b, <2>2, <3>1, <3>2, <3>4, <4>1, <4>2, <4>3 DEF Carries
    <3> QED BY <3>3, <3>5
  <2>7. Carried(r)'
    BY <2>5, <2>6, Both DEF y
  <2> QED BY <2>4, <2>7 DEF Good
<1> QED BY <1>2, <1>3, <1>4, OthersGood

LEMMA PumpEndsGood ==
  ASSUME EndInv, link = "up", NEW x \in Sides, NEW r \in Sids, PumpEnds(x, r) \/ PumpWakes(x, r)
  PROVE  EndInv'
<1>1. r \in Tcp /\ AfterPump(x, r)
  BY DEF PumpEnds, PumpWakes
<1>2. thread[x][r] # "eof"
  BY DEF EndInv, Shape
<1>3. thread[x][r] = "read" /\ (far[x][r] = "shut" \/ sock[x][r] # "open")
  BY <1>2 DEF PumpEnds, PumpWakes
<1> QED BY <1>1, <1>3, AfterPumpGood

LEMMA GetCloseGood ==
  ASSUME EndInv, link = "up", NEW x \in Sides, NEW r \in Sids, GetClose(x, r)
  PROVE  EndInv'
<1> USE DEF EndInv
<1> DEFINE y == Other(x)
<1>a. y \in Sides /\ y # x /\ (\A z \in Sides : z = x \/ z = y)
  BY Both
<1>b. /\ reader[x] = "recv" /\ Remove(x, r)
      /\ UNCHANGED <<thread, done, stopper, far, ready, cutOff, out, in, answer>>
      /\ reader' = [reader EXCEPT ![x] = "recv"]
  BY Reads DEF GetClose, Arrived, ClosedByPeer
<1>c. PICK type \in {"CLOSE", "UDP_CLOSE"} : Takes(x, type, r)
  BY DEF GetClose, Arrived, Takes
<1>d. reader' = reader
  BY <1>b DEF Shape
<1> HIDE DEF y
<1>e. type \in Types
  BY <1>c DEF Types
<1>f. /\ done' = done /\ stopper' = stopper /\ thread' = thread /\ far' = far
      /\ answer' = answer /\ ready' = ready /\ cutOff' = cutOff /\ out' = out /\ in' = in
  BY <1>b
<1>2. Shape'
  <2>1. wire' \in [Sides -> Seq(Frames)]
    BY <1>c, <1>e, TakeEffect
  <2>2. /\ table' \in [Sides -> SUBSET Sids]
        /\ sock' \in [Sides -> [Sids -> {"none", "open", "late", "closed"}]]
    BY <1>b, RemoveEffect
  <2> HIDE <1>b, <1>c
  <2> QED BY <1>d, <1>f, <2>1, <2>2 DEF Shape
<1>3. Elsewhere(r) /\ WireElsewhere(r)
  <2>1. WireElsewhere(r)
    BY <1>c, <1>e, TakeElsewhere
  <2>2. Elsewhere(r)
    BY <1>b, <1>d, RemoveEffect, Streams DEF Elsewhere
  <2> QED BY <2>1, <2>2
<1>4. ASSUME r \in Tcp PROVE Good(r)'
  <2>1. Good(r)
    BY <1>4
  <2>2. /\ Sent(x, type, r) = Sent(x, type, r)' + 1 /\ Sent(x, type, r)' \in Nat
        /\ \A z \in Sides : \A u : z # x \/ u # type => Sent(z, u, r)' = Sent(z, u, r)
        /\ \A z \in Sides : (Ordered(z, r) => Ordered(z, r)') /\ (Nearly(z, r) => Nearly(z, r)')
        /\ Ordered(x, r) /\ type = "CLOSE" => Sent(x, "DATA", r) = 0
        /\ Nearly(x, r) /\ type = "CLOSE" => Sent(x, "DATA", r) <= 1
    <3>1. /\ \A z \in Sides : \A u :
               /\ Sent(z, u, r) = Sent(z, u, r)' + IF z = x /\ u = type /\ r = r THEN 1 ELSE 0
               /\ Sent(z, u, r)' \in Nat
               /\ (Ordered(z, r) => Ordered(z, r)') /\ (Nearly(z, r) => Nearly(z, r)')
          /\ Ordered(x, r) /\ type = "CLOSE" => Sent(x, "DATA", r) = 0
          /\ Nearly(x, r) /\ type = "CLOSE" => Sent(x, "DATA", r) <= 1
      BY <1>c, <1>e, TakeEffect
    <3>2. Sent(x, type, r) = Sent(x, type, r)' + 1 /\ Sent(x, type, r)' \in Nat
      BY <3>1
    <3>3. \A z \in Sides : \A u : z # x \/ u # type => Sent(z, u, r)' = Sent(z, u, r)
      BY <3>1
    <3>4. \A z \in Sides : (Ordered(z, r) => Ordered(z, r)') /\ (Nearly(z, r) => Nearly(z, r)')
      BY <3>1
    <3> QED BY <3>1, <3>2, <3>3, <3>4
  <2>c. type = "CLOSE" /\ Sent(x, "CLOSE", r) > 0
    BY <1>c, <2>1, <2>2 DEF Good, Replied
  <2>3. ~ Early(r) /\ thread[Entry][r] # "checked"
    BY <2>1, <2>c DEF Good, Opening, Blank, Early
  <2>s. \A z \in Sides : /\ z # x => sock'[z][r] = sock[z][r]
                         /\ sock'[z][r] = "late" => sock[z][r] = "late" \/ thread[z][r] = "read"
    BY <1>4, <1>b, RemoveEffect
  <2>4. Opening(r)' /\ Replied(r)'
    <3>1. \A z \in Sides : sock'[z][r] = "late" => thread[z][r] = "read"
      BY <2>1, <2>s DEF Good, Replied
    <3> QED BY <1>b, <2>1, <2>2, <2>3, <2>c, <3>1, EntryAndExit DEF Good, Opening, Replied, Early
  <2>5. Live(r)' => Live(r)
    BY <1>b, <2>2, <2>c, EntryAndExit DEF Live
  <2>6. ASSUME Live(r) PROVE Carries(x, y, r)' /\ Carries(y, x, r)'
    <3>1. Carries(x, y, r) /\ Carries(y, x, r)
      BY <2>1, <2>6, Both DEF Good, y
    <3>2. /\ sock'[y][r] = sock[y][r] /\ (r \in table'[y] <=> r \in table[y])
          /\ sock'[x][r] # "none" /\ sock'[x][r] # "open"
          /\ sock[x][r] # "open" => sock'[x][r] = sock[x][r]
      BY <1>a, <1>b, <3>1, RemoveEffect DEF Carries
    <3>n. /\ reader[x] # r /\ in[x][r] \in Nat /\ out[y][r] \in Nat
          /\ Sent(x, "DATA", r) \in Nat /\ Held(y, r) \in {0, 1} /\ Last(y, r) \in {0, 1}
          /\ Held(y, r) = 1 => Last(y, r) = 0
      <4>1. Sent(x, "DATA", r) \in Nat
        BY SentTypes
      <4> QED BY <1>a, <1>b, <4>1, Reads DEF Shape, Held, Last
    <3>o. sock[x][r] = "open" /\ far[x][r] = "up" => in[x][r] + Sent(x, "DATA", r) + Held(y, r) = out[y][r]
      BY <3>1, <3>n DEF Carries, UnderWay, Reading
    <3>3. far[x][r] = "up" =>
            /\ far[y][r] = "shut" /\ in[x][r] <= out[y][r]
            /\ r \in cutOff[y] => out[y][r] - in[x][r] + Last(y, r) <= 1
            /\ r \notin cutOff[y] => in[x][r] = out[y][r] /\ thread[y][r] = "end"
      <4> SUFFICES ASSUME far[x][r] = "up"
                   PROVE  /\ far[y][r] = "shut" /\ in[x][r] <= out[y][r]
                          /\ r \in cutOff[y] => out[y][r] - in[x][r] + Last(y, r) <= 1
                          /\ r \notin cutOff[y] => in[x][r] = out[y][r] /\ thread[y][r] = "end"
        OBVIOUS
      <4>1. far[y][r] = "shut" /\ (r \notin cutOff[y] => thread[y][r] = "end")
        BY <2>c, <3>1 DEF Carries
      <4>2. CASE sock[x][r] = "open"
        <5>1. /\ Sent(x, "DATA", r) <= 1
              /\ r \notin cutOff[y] \/ Held(y, r) + Last(y, r) > 0 => Sent(x, "DATA", r) = 0
          BY <2>2, <2>c, <3>1 DEF Carries
        <5>2. r \notin cutOff[y] => Held(y, r) = 0
          BY <4>1 DEF Held
        <5>3. in[x][r] + Sent(x, "DATA", r) + Held(y, r) = out[y][r]
          BY <3>o, <4>2
        <5>4. r \notin cutOff[y] => in[x][r] = out[y][r]
          BY <5>1, <5>2, <5>3, <3>n
        <5>5. Sent(x, "DATA", r) + Held(y, r) + Last(y, r) <= 1
          BY <5>1, <3>n
        <5> QED BY <3>n, <4>1, <5>3, <5>4, <5>5
      <4>3. CASE sock[x][r] # "open"
        BY <3>1, <4>1, <4>3 DEF Carries
      <4> QED BY <4>2, <4>3
    <3>4. Carries(x, y, r)'
      <4>1. Held(y, r)' = Held(y, r) /\ Last(y, r)' = Last(y, r)
        BY <1>b, <3>2 DEF Held, Last
      <4>2. Sent(x, "CLOSE", r)' > 0 => Sent(x, "CLOSE", r) > 0
        BY <2>c
      <4> QED BY <1>b, <2>2, <3>1, <3>2, <3>3, <4>1, <4>2 DEF Carries
    <3>5. Carries(y, x, r)'
      <4>1. Held(x, r)' = Held(x, r) /\ (r \in cutOff[x] => Last(x, r)' = Last(x, r))
        BY <1>b, <3>1, <3>2 DEF Held, Last, Carries
      <4>2. UnderWay(y, x, r)' = UnderWay(y, x, r) /\ Sent(y, "CLOSE", r)' = Sent(y, "CLOSE", r)
        BY <1>a, <1>b, <1>d, <2>2, <2>c, <4>1 DEF UnderWay, Reading
      <4>3. r \notin cutOff[x] \/ Held(x, r)' + Last(x, r)' > 0
              => r \notin cutOff[x] \/ Held(x, r) + Last(x, r) > 0
        BY <4>1
      <4>4. /\ (Ordered(y, r) => Ordered(y, r)') /\ (Nearly(y, r) => Nearly(y, r)')
            /\ thread' = thread /\ far' = far /\ cutOff' = cutOff /\ in' = in /\ out' = out
        BY <1>a, <1>b, <2>2
      <4>5. /\ sock'[y][r] # "none" /\ (sock'[y][r] = "open" => r \in table'[y])
            /\ r \in cutOff'[y] => sock'[y][r] # "open"
            /\ Sent(y, "CLOSE", r)' > 0 => /\ far'[x][r] = "shut" \/ far'[y][r] = "shut"
                                           /\ r \in cutOff'[x] \/ thread'[x][r] = "end"
        BY <3>1, <3>2, <4>2, <4>4 DEF Carries
      <4>6. ASSUME far[y][r] = "up"
            PROVE  /\ Nearly(y, r)'
                   /\ r \notin cutOff'[x] \/ Held(x, r)' + Last(x, r)' > 0 => Ordered(y, r)'
                   /\ sock'[y][r] = "open" => in'[y][r] + UnderWay(y, x, r)' = out'[x][r]
                   /\ sock'[y][r] # "open" =>
                        /\ far'[x][r] = "shut" /\ in'[y][r] <= out'[x][r]
                        /\ r \in cutOff'[x] => out'[x][r] - in'[y][r] + Last(x, r)' <= 1
                        /\ r \notin cutOff'[x] => in'[y][r] = out'[x][r] /\ thread'[x][r] = "end"
        BY <3>1, <3>2, <4>1, <4>2, <4>3, <4>4, <4>6 DEF Carries
      <4>7. far'[y][r] = far[y][r]
        BY <4>4
      <4> HIDE DEF EndInv
      <4> QED BY <4>5, <4>6, <4>7 DEF Carries
    <3> QED BY <3>4, <3>5
  <2>7. Carried(r)'
    BY <2>5, <2>6, Both DEF y
  <2> QED BY <2>4, <2>7 DEF Good
<1> QED BY <1>2, <1>3, <1>4, OthersGood, Streams

LEMMA EntryRemoves ==
  ASSUME Shape, NEW r \in Sids, Remove(Entry, r)
  PROVE  /\ table' \in [Sides -> SUBSET Sids]
         /\ sock' \in [Sides -> [Sids -> {"none", "open", "late", "closed"}]]
         /\ \A z \in Sides, s \in Sids :
              /\ (s \in table'[z] <=> s \in table[z] /\ ~ (z = Entry /\ s = r))
              /\ ~ (z = Entry /\ s = r) => sock'[z][s] = sock[z][s]
              /\ sock'[z][s] = "late" /\ s \in Tcp => sock[z][s] = "late" \/ thread[z][s] = "read"
<1>1. Entry \in Sides
  BY EntryAndExit
<1> QED BY <1>1, RemoveEffect

LEMMA DeliverGood ==
  ASSUME EndInv, link = "up", NEW x \in Sides, Deliver(x)
  PROVE  EndInv'
<1> USE DEF EndInv
<1>p. PICK r \in Tcp :
        /\ reader[x] = r /\ sock[x][r] = "open"
        /\ in' = [in EXCEPT ![x][r] = IF far[x][r] = "up" THEN @ + 1 ELSE @]
        /\ reader' = [reader EXCEPT ![x] = "recv"]
  BY Reads DEF Deliver
<1> DEFINE y == Other(x)
<1>a. y \in Sides /\ y # x /\ (\A z \in Sides : z = x \/ z = y) /\ r \in Sids
  BY Both, Streams
<1>b. UNCHANGED <<wire, table, thread, sock, done, stopper, far, ready, cutOff, out, answer>>
  BY DEF Deliver, appVars, replyVars, muxVars, streamVars
<1>c. /\ reader' \in [Sides -> Sids \cup {"recv"}] /\ "recv" \notin Sids
      /\ \A z \in Sides : reader'[z] = IF z = x THEN "recv" ELSE reader[z]
  BY <1>p, Reads DEF Shape
<1>d. /\ in' \in [Sides -> [Sids -> Nat]]
      /\ \A z \in Sides, s \in Sids :
           in'[z][s] = IF z = x /\ s = r /\ far[x][r] = "up" THEN in[z][s] + 1 ELSE in[z][s]
  <2> DEFINE v == IF far[x][r] = "up" THEN in[x][r] + 1 ELSE in[x][r]
  <2>1. v \in Nat /\ in' = [in EXCEPT ![x][r] = v]
    BY <1>a, <1>p DEF Shape
  <2>2. \A z \in Sides, s \in Sids : in'[z][s] = IF z = x /\ s = r THEN v ELSE in[z][s]
    BY <2>1, <1>a DEF Shape
  <2>3. in' \in [Sides -> [Sids -> Nat]]
    BY <2>1, <1>a DEF Shape
  <2> QED BY <2>2, <2>3
<1> HIDE DEF y
<1>2. Shape'
  BY <1>b, <1>c, <1>d DEF Shape
<1>3. Elsewhere(r) /\ WireElsewhere(r)
  BY <1>b, <1>c, <1>d, <1>p, Streams, QuietWire DEF Elsewhere
<1>4. Good(r)'
  <2>1. Good(r) /\ \A z \in Sides : \A u : Sent(z, u, r)' = Sent(z, u, r) /\ (Ordered(z, r)' <=> Ordered(z, r)) /\ (Nearly(z, r)' <=> Nearly(z, r))
    BY <1>b DEF Sent, Ordered, Nearly
  <2>2. ~ Early(r)
    BY <1>p, <2>1 DEF Good, Opening, Blank
  <2>3. Opening(r)' /\ Replied(r)' /\ (Live(r)' <=> Live(r))
    BY <1>b, <2>1, <2>2, EntryAndExit DEF Good, Opening, Replied, Early, Live
  <2>4. ASSUME Live(r) PROVE Carries(x, y, r)' /\ Carries(y, x, r)'
    <3>1. Carries(x, y, r) /\ Carries(y, x, r)
      BY <2>1, <2>4, Both DEF Good, y
    <3>2. /\ in[x][r] \in Nat /\ Sent(x, "DATA", r) \in Nat
          /\ reader[x] = r /\ reader'[x] # r /\ reader'[y] = reader[y]
          /\ in'[y][r] = in[y][r] /\ (far[x][r] = "up" => in'[x][r] = in[x][r] + 1)
      BY <1>a, <1>c, <1>d, <1>p, SentTypes DEF Shape
    <3>h. \A z \in Sides : Held(z, r)' = Held(z, r) /\ Last(z, r)' = Last(z, r) /\ Held(z, r) \in {0, 1}
      BY <1>b DEF Held, Last
    <3>3. Carries(x, y, r)'
      <4>1. UnderWay(x, y, r) = UnderWay(x, y, r)' + 1 /\ UnderWay(x, y, r)' \in Nat
        BY <1>a, <2>1, <3>2, <3>h DEF UnderWay, Reading
      <4>2. /\ Sent(x, "CLOSE", r)' = Sent(x, "CLOSE", r) /\ Held(y, r)' = Held(y, r)
            /\ Last(y, r)' = Last(y, r)
            /\ (Ordered(x, r)' <=> Ordered(x, r)) /\ (Nearly(x, r)' <=> Nearly(x, r))
        BY <1>a, <2>1, <3>h
      <4> QED BY <1>b, <1>p, <3>1, <3>2, <4>1, <4>2 DEF Carries
    <3>4. Carries(y, x, r)'
      <4>1. /\ Sent(y, "CLOSE", r)' = Sent(y, "CLOSE", r) /\ Sent(y, "DATA", r)' = Sent(y, "DATA", r)
            /\ (Ordered(y, r)' <=> Ordered(y, r)) /\ (Nearly(y, r)' <=> Nearly(y, r))
        BY <1>a, <2>1
      <4> QED BY <1>a, <1>b, <3>1, <3>2, <3>h, <4>1, CarriesKept
    <3> QED BY <3>3, <3>4
  <2>5. Carried(r)'
    BY <2>3, <2>4, Both DEF y
  <2> QED BY <2>3, <2>5 DEF Good
<1> QED BY <1>2, <1>3, <1>4, OthersGood

LEMMA DeliverFailsGood ==
  ASSUME EndInv, link = "up", NEW x \in Sides, DeliverFails(x)
  PROVE  EndInv'
<1> USE DEF EndInv
<1> DEFINE y == Other(x)
<1>p. PICK r \in Tcp :
        /\ reader[x] = r
        /\ \/ x = Entry /\ r \notin ready /\ thread[x][r] = "end"
           \/ sock[x][r] # "open" \/ far[x][r] = "shut"
        /\ Remove(x, r)
        /\ Send(x, "reader", "CLOSE", r)
        /\ reader' = [reader EXCEPT ![x] = "recv"]
        /\ cutOff' = [cutOff EXCEPT ![x] = IF thread[x][r] = "end" THEN @ ELSE @ \cup {r}]
  BY Reads DEF DeliverFails
<1>a. y \in Sides /\ y # x /\ (\A z \in Sides : z = x \/ z = y) /\ r \in Sids
  BY Both, Streams
<1>b. /\ Puts(y, "CLOSE", r) /\ "CLOSE" \in Types
      /\ UNCHANGED <<thread, done, stopper, far, ready, in, out, answer>>
  BY <1>p, SendsUp DEF DeliverFails, Types, replyVars
<1>k. /\ cutOff' \in [Sides -> SUBSET Tcp]
      /\ \A z \in Sides : \A s :
           (s \in cutOff'[z] <=> s \in cutOff[z] \/ (z = x /\ s = r /\ thread[x][r] # "end"))
  BY <1>p DEF Shape
<1>c. /\ reader' \in [Sides -> Sids \cup {"recv"}] /\ "recv" \notin Sids
      /\ \A z \in Sides : reader'[z] = IF z = x THEN "recv" ELSE reader[z]
  BY <1>p, Reads DEF Shape
<1> HIDE DEF y
<1>e. /\ table' \in [Sides -> SUBSET Sids]
      /\ sock' \in [Sides -> [Sids -> {"none", "open", "late", "closed"}]]
      /\ \A z \in Sides, s \in Sids :
           /\ (s \in table'[z] <=> s \in table[z] /\ ~ (z = x /\ s = r))
           /\ ~ (z = x /\ s = r) => sock'[z][s] = sock[z][s]
           /\ sock[z][s] # "open" => sock'[z][s] = sock[z][s]
           /\ z = x /\ s = r /\ s \in table[x] => sock'[z][s] # "open"
           /\ sock'[z][s] = "none" => sock[z][s] = "none"
           /\ sock'[z][s] = "late" /\ s \in Tcp => sock[z][s] = "late" \/ thread[z][s] = "read"
  BY <1>a, <1>p, RemoveEffect
<1>2. Shape'
  BY <1>a, <1>b, <1>c, <1>e, <1>k, PutClose DEF Shape
<1>3. Elsewhere(r) /\ WireElsewhere(r)
  <2>1. WireElsewhere(r)
    BY <1>a, <1>b, PutElsewhere
  <2>2. Elsewhere(r)
    BY <1>b, <1>c, <1>e, <1>k, <1>p, Streams DEF Elsewhere
  <2> QED BY <2>1, <2>2
<1>4. Good(r)'
  <2>1. Good(r)
    OBVIOUS
  <2>2. /\ \A z \in Sides : \A u : z # y \/ u # "CLOSE" => Sent(z, u, r)' = Sent(z, u, r)
        /\ \A z \in Sides : (Ordered(z, r) => Ordered(z, r)') /\ (Nearly(z, r) => Nearly(z, r)')
    BY <1>a, <1>b, PutClose
  <2>3. ~ Early(r) /\ thread[Entry][r] # "checked"
    BY <1>p, <2>1 DEF Good, Opening, Blank, Early
  <2>o. \A z \in Sides : Sent(z, "OPEN", r)' = Sent(z, "OPEN", r) /\ Sent(z, "OK", r)' = Sent(z, "OK", r)
                        /\ Sent(z, "UDP_CLOSE", r)' = Sent(z, "UDP_CLOSE", r)
    BY <2>2
  <2>4. Opening(r)' /\ Replied(r)' /\ (Live(r)' <=> Live(r))
    <3>1. ~ Early(r)' /\ thread[Exit][r] # "dialed"
      BY <1>b, <2>3 DEF Early
    <3>2. Opening(r)'
      BY <1>b, <2>1, <2>3, <2>o, <3>1, EntryAndExit DEF Good, Opening
    <3>3. \A z \in Sides : sock'[z][r] = "late" => thread'[z][r] = "read"
      BY <1>a, <1>b, <1>e, <2>1 DEF Good, Replied
    <3>4. Replied(r)'
      BY <1>b, <2>1, <2>o, <3>3, EntryAndExit DEF Good, Replied
    <3>5. Live(r)' <=> Live(r)
      BY <1>b, <2>o, EntryAndExit DEF Live
    <3> QED BY <3>2, <3>4, <3>5
  <2>5. ASSUME Live(r) PROVE Carries(x, y, r)' /\ Carries(y, x, r)'
    <3>1. Carries(x, y, r) /\ Carries(y, x, r)
      BY <2>1, <2>5, Both DEF Good, y
    <3>2. sock[x][r] # "open" \/ far[x][r] = "shut"
      BY <1>p, <2>5 DEF Live
    <3>3. far[x][r] = "shut" \/ far[y][r] = "shut"
      BY <1>a, <3>1, <3>2 DEF Carries, Shape
    <3>4. /\ sock'[x][r] # "open" /\ sock'[x][r] # "none"
          /\ sock[x][r] # "open" => sock'[x][r] = sock[x][r]
          /\ sock'[y][r] = sock[y][r] /\ (r \in table'[y] <=> r \in table[y])
      BY <1>a, <1>e, <3>1 DEF Carries
    <3>5. /\ (r \in cutOff'[y] <=> r \in cutOff[y])
          /\ (r \in cutOff'[x] <=> r \in cutOff[x] \/ thread[x][r] # "end")
          /\ thread' = thread /\ far' = far /\ in' = in /\ out' = out
      BY <1>a, <1>b, <1>k
    <3>6. \A z \in Sides : Held(z, r)' = Held(z, r)
      BY <1>b DEF Held
    <3>7. Carries(x, y, r)'
      <4>1. Last(y, r)' = Last(y, r) /\ Held(y, r)' = Held(y, r)
        BY <1>a, <3>4, <3>5, <3>6 DEF Last
      <4>2. /\ Sent(x, "CLOSE", r)' = Sent(x, "CLOSE", r)
            /\ (Ordered(x, r) => Ordered(x, r)') /\ (Nearly(x, r) => Nearly(x, r)')
        BY <1>a, <2>2
      <4>3. far[x][r] = "up" => sock[x][r] # "open"
        BY <3>2
      <4> QED BY <3>1, <3>4, <3>5, <4>1, <4>2, <4>3 DEF Carries
    <3>8. Carries(y, x, r)'
      <4>1. UnderWay(y, x, r)' = UnderWay(y, x, r)
        <5>1. Sent(y, "DATA", r)' = Sent(y, "DATA", r) /\ Held(x, r)' = Held(x, r)
          BY <1>a, <2>2, <3>6
        <5>2. Reading(y, r)' = Reading(y, r)
          BY <1>a, <1>c DEF Reading
        <5> QED BY <5>1, <5>2 DEF UnderWay
      <4>2. (Ordered(y, r) => Ordered(y, r)') /\ (Nearly(y, r) => Nearly(y, r)') /\ Held(x, r)' = Held(x, r)
        BY <1>a, <2>2, <3>6
      <4>3. r \in cutOff[x] => Last(x, r)' = Last(x, r)
        BY <3>1, <3>4, <3>5 DEF Carries, Last
      <4>4. far[y][r] = "up" /\ r \in cutOff'[x] /\ sock[y][r] # "open" => r \in cutOff[x]
        BY <3>1, <3>5 DEF Carries
      <4>5. /\ sock'[y][r] # "none" /\ (sock'[y][r] = "open" => r \in table'[y])
            /\ r \in cutOff'[y] => sock'[y][r] # "open"
            /\ far'[x][r] = "shut" \/ far'[y][r] = "shut"
            /\ r \in cutOff'[x] \/ thread'[x][r] = "end"
        BY <3>1, <3>3, <3>4, <3>5 DEF Carries
      <4>6. ASSUME far[y][r] = "up"
            PROVE  /\ Nearly(y, r)'
                   /\ r \notin cutOff'[x] \/ Held(x, r)' + Last(x, r)' > 0 => Ordered(y, r)'
                   /\ sock'[y][r] = "open" => in'[y][r] + UnderWay(y, x, r)' = out'[x][r]
        BY <3>1, <3>4, <3>5, <4>1, <4>2, <4>3, <4>6 DEF Carries
      <4>7. ASSUME far[y][r] = "up", sock[y][r] # "open"
            PROVE  /\ far'[x][r] = "shut" /\ in'[y][r] <= out'[x][r]
                   /\ r \in cutOff'[x] => out'[x][r] - in'[y][r] + Last(x, r)' <= 1
                   /\ r \notin cutOff'[x] => in'[y][r] = out'[x][r] /\ thread'[x][r] = "end"
        BY <3>1, <3>4, <3>5, <4>3, <4>4, <4>7 DEF Carries
      <4> QED BY <3>4, <3>5, <4>5, <4>6, <4>7 DEF Carries
    <3> QED BY <3>7, <3>8
  <2>6. Carried(r)'
    BY <2>4, <2>5, Both DEF y
  <2> QED BY <2>4, <2>6 DEF Good
<1> QED BY <1>2, <1>3, <1>4, OthersGood

LEMMA FarShutsGood ==
  ASSUME EndInv, NEW x \in Sides, NEW r \in Sids, FarShuts(x, r)
  PROVE  EndInv'
<1> USE DEF EndInv
<1> DEFINE y == Other(x)
<1>a. y \in Sides /\ y # x /\ (\A z \in Sides : z = x \/ z = y)
  BY Both
<1>b. /\ UNCHANGED <<wire, table, thread, sock, done, stopper, reader, ready, cutOff, in, out, answer>>
      /\ far' = [far EXCEPT ![x][r] = "shut"]
  BY DEF FarShuts, replyVars, muxVars, streamVars
<1>c. /\ far' \in [Sides -> [Sids -> {"up", "shut"}]]
      /\ \A z \in Sides, s \in Sids : far'[z][s] = IF z = x /\ s = r THEN "shut" ELSE far[z][s]
  BY <1>b DEF Shape
<1> HIDE DEF y
<1>2. Shape'
  BY <1>b, <1>c DEF Shape
<1>3. Elsewhere(r) /\ WireElsewhere(r)
  BY <1>b, <1>c, Streams, QuietWire DEF Elsewhere
<1>4. ASSUME r \in Tcp PROVE Good(r)'
  <2>1. Good(r) /\ \A z \in Sides : \A u : Sent(z, u, r)' = Sent(z, u, r) /\ (Ordered(z, r)' <=> Ordered(z, r)) /\ (Nearly(z, r)' <=> Nearly(z, r))
    BY <1>4, <1>b DEF Sent, Ordered, Nearly
  <2>2. Opening(r)' /\ Replied(r)' /\ (Live(r)' <=> Live(r))
    BY <1>b, <2>1, EntryAndExit DEF Good, Opening, Blank, Replied, Early, Live
  <2>3. ASSUME Live(r) PROVE Carries(x, y, r)' /\ Carries(y, x, r)'
    <3>1. Carries(x, y, r) /\ Carries(y, x, r)
      BY <2>1, <2>3, Both DEF Good, y
    <3>h. \A z \in Sides : /\ Held(z, r)' = Held(z, r) /\ Last(z, r)' = Last(z, r)
                           /\ Reading(z, r)' = Reading(z, r)
      BY <1>b DEF Held, Last, Reading
    <3>f. far'[x][r] = "shut" /\ far'[y][r] = far[y][r]
      BY <1>a, <1>c
    <3>2. Carries(x, y, r)'
      <4>1. Sent(x, "CLOSE", r)' = Sent(x, "CLOSE", r)
        BY <2>1
      <4> QED BY <1>b, <3>1, <3>f, <4>1 DEF Carries
    <3>3. Carries(y, x, r)'
      <4>1. /\ Sent(y, "CLOSE", r)' = Sent(y, "CLOSE", r) /\ Sent(y, "DATA", r)' = Sent(y, "DATA", r)
            /\ (Ordered(y, r)' <=> Ordered(y, r)) /\ (Nearly(y, r)' <=> Nearly(y, r))
        BY <1>a, <2>1
      <4>2. UnderWay(y, x, r)' = UnderWay(y, x, r)
        BY <1>a, <3>h, <4>1 DEF UnderWay
      <4> QED BY <1>b, <3>1, <3>f, <3>h, <4>1, <4>2 DEF Carries
    <3> QED BY <3>2, <3>3
  <2>4. Carried(r)'
    BY <2>2, <2>3, Both DEF y
  <2> QED BY <2>2, <2>4 DEF Good
<1> QED BY <1>2, <1>3, <1>4, OthersGood, Streams

LEMMA Enters ==
  ASSUME Shape, NEW x \in Sides, NEW r \in Sids, table' = [table EXCEPT ![x] = @ \cup {r}]
  PROVE  /\ table' \in [Sides -> SUBSET Sids]
         /\ \A z \in Sides, s \in Sids :
              (s \in table'[z] <=> s \in table[z] \/ (z = x /\ s = r))
<1>1. \A z \in Sides : table'[z] = IF z = x THEN table[z] \cup {r} ELSE table[z]
  BY DEF Shape
<1> QED BY <1>1 DEF Shape

LEMMA PutCounts ==
  ASSUME Shape, NEW y \in Sides, NEW type \in Types, NEW r \in Sids, Puts(y, type, r)
  PROVE  /\ Sent(y, type, r)' = Sent(y, type, r) + 1
         /\ \A z \in Sides : \A u : /\ z # y \/ u # type => Sent(z, u, r)' = Sent(z, u, r)
                                    /\ Sent(z, u, r) \in Nat
         /\ type # "DATA" => \A z \in Sides : /\ Ordered(z, r) => Ordered(z, r)'
                                              /\ Nearly(z, r) => Nearly(z, r)'
<1>1. /\ wire' \in [Sides -> Seq(Frames)]
      /\ \A z \in Sides : \A u, s :
           /\ Sent(z, u, s)' = Sent(z, u, s) + IF z = y /\ u = type /\ s = r THEN 1 ELSE 0
           /\ Ordered(z, s) /\ (z # y \/ type # "DATA" \/ s # r \/ Sent(z, "CLOSE", s) = 0)
                => Ordered(z, s)'
           /\ Nearly(z, s) /\ (z # y \/ type # "DATA" \/ s # r \/ Ordered(z, s)) => Nearly(z, s)'
  BY PutEffect
<1>2. \A z \in Sides : \A u : Sent(z, u, r) \in Nat
  BY SentTypes
<1>3. \A z \in Sides : \A u : z # y \/ u # type => Sent(z, u, r)' = Sent(z, u, r)
  BY <1>1, <1>2
<1>4. Sent(y, type, r)' = Sent(y, type, r) + 1
  BY <1>1
<1> QED BY <1>1, <1>2, <1>3, <1>4

LEMMA TakeCounts ==
  ASSUME Shape, NEW y \in Sides, NEW type \in Types, NEW r \in Sids, Takes(y, type, r)
  PROVE  /\ Sent(y, type, r) = Sent(y, type, r)' + 1
         /\ \A z \in Sides : \A u : /\ z # y \/ u # type => Sent(z, u, r)' = Sent(z, u, r)
                                    /\ Sent(z, u, r)' \in Nat
         /\ \A z \in Sides : (Ordered(z, r) => Ordered(z, r)') /\ (Nearly(z, r) => Nearly(z, r)')
<1>1. \A z \in Sides : \A u, s :
        /\ Sent(z, u, s) = Sent(z, u, s)' + IF z = y /\ u = type /\ s = r THEN 1 ELSE 0
        /\ Sent(z, u, s)' \in Nat
        /\ (Ordered(z, s) => Ordered(z, s)') /\ (Nearly(z, s) => Nearly(z, s)')
  BY TakeEffect
<1>2. \A z \in Sides : \A u : z # y \/ u # type => Sent(z, u, r)' = Sent(z, u, r)
  BY <1>1
<1>3. Sent(y, type, r) = Sent(y, type, r)' + 1
  BY <1>1
<1> QED BY <1>1, <1>2, <1>3

LEMMA GetAnswerGood ==
  ASSUME EndInv, link = "up", NEW r \in Sids, GetAnswer(r, "OK", "ok") \/ GetAnswer(r, "ERR", "err")
  PROVE  EndInv'
<1> USE EntryAndExit DEF EndInv
<1>p. PICK type \in {"OK", "ERR"}, result \in {"ok", "err"} :
        GetAnswer(r, type, result) /\ (type = "ERR" => result = "err")
  OBVIOUS
<1>b. /\ Takes(Entry, type, r) /\ type \in Types
      /\ UNCHANGED <<table, thread, sock, done, stopper, far, ready, cutOff, out, in>>
      /\ answer' = IF r \in table[Entry] THEN [answer EXCEPT ![r] = result] ELSE answer
  BY <1>p DEF GetAnswer, Arrived, Takes, Types, streamVars
<1>r. reader' = reader
  <2>1. reader[Entry] = "recv" /\ reader' = [reader EXCEPT ![Entry] = "recv"]
    BY <1>p, Reads DEF GetAnswer, Arrived
  <2> QED BY <2>1 DEF Shape
<1>c. /\ answer' \in [Sids -> {"no", "ok", "err"}]
      /\ \A s \in Sids : s # r => answer'[s] = answer[s]
      /\ answer'[r] = answer[r] \/ answer'[r] = result
  BY <1>b DEF Shape
<1>2. Shape'
  BY <1>b, <1>c, <1>r, TakeEffect DEF Shape
<1>3. Elsewhere(r) /\ WireElsewhere(r)
  <2>1. WireElsewhere(r)
    BY <1>b, TakeElsewhere
  <2>2. Elsewhere(r)
    BY <1>b, <1>c, <1>r, Streams DEF Elsewhere
  <2> QED BY <2>1, <2>2
<1>4. ASSUME r \in Tcp PROVE Good(r)'
  <2>1. Good(r)
    BY <1>4
  <2>2. /\ Sent(Entry, type, r) = Sent(Entry, type, r)' + 1
        /\ \A z \in Sides : \A u : /\ z # Entry \/ u # type => Sent(z, u, r)' = Sent(z, u, r)
                                   /\ Sent(z, u, r)' \in Nat
        /\ \A z \in Sides : (Ordered(z, r) => Ordered(z, r)') /\ (Nearly(z, r) => Nearly(z, r)')
    BY <1>b, TakeCounts
  <2>3. Early(r) => type = "ERR" /\ answer'[r] # "ok"
    BY <1>c, <1>p, <2>1, <2>2 DEF Good, Opening, Blank
  <2>4. Opening(r)' /\ Replied(r)'
    BY <1>b, <1>r, <2>1, <2>2, <2>3 DEF Good, Opening, Blank, Replied, Early
  <2>5. Live(r)' => Live(r)
    BY <1>b, <1>c, <1>p, <2>2 DEF Live
  <2>6. ASSUME NEW y \in Sides, NEW z \in Sides, Carries(y, z, r) PROVE Carries(y, z, r)'
    <3>1. Sent(y, "CLOSE", r)' = Sent(y, "CLOSE", r) /\ Sent(y, "DATA", r)' = Sent(y, "DATA", r)
      BY <2>2
    <3>2. Held(z, r)' = Held(z, r) /\ Last(z, r)' = Last(z, r)
      BY <1>b DEF Held, Last
    <3> QED BY <1>b, <1>r, <2>2, <2>6, <3>1, <3>2, CarriesKept
  <2> QED BY <2>1, <2>4, <2>5, <2>6 DEF Good, Carried
<1> QED BY <1>2, <1>3, <1>4, OthersGood, Streams

LEMMA GetOpenGood ==
  ASSUME EndInv, link = "up", NEW r \in Tcp, GetOpen(r)
  PROVE  EndInv'
<1> USE EntryAndExit, Streams DEF EndInv
<1>b. /\ Takes(Exit, "OPEN", r) /\ "OPEN" \in Types /\ Goto(Exit, r, "dial") /\ "dial" \in Steps \ {"eof"}
      /\ UNCHANGED <<table, sock, done, stopper, far, ready, cutOff, out, in, answer>>
  BY DEF GetOpen, Arrived, Takes, Types, Steps
<1>r. reader' = reader
  <2>1. reader[Exit] = "recv" /\ reader' = [reader EXCEPT ![Exit] = "recv"]
    BY Reads DEF GetOpen, Arrived
  <2> QED BY <2>1 DEF Shape
<1>c. /\ thread' \in [Sides -> [Sids -> Steps \ {"eof"}]]
      /\ \A z \in Sides, s \in Sids :
           thread'[z][s] = IF z = Exit /\ s = r THEN "dial" ELSE thread[z][s]
  BY <1>b DEF Goto, Shape
<1>2. Shape'
  BY <1>b, <1>c, <1>r, TakeEffect DEF Shape
<1>3. Elsewhere(r) /\ WireElsewhere(r)
  <2>1. WireElsewhere(r)
    BY <1>b, TakeElsewhere
  <2>2. Elsewhere(r)
    BY <1>b, <1>c, <1>r DEF Elsewhere
  <2> QED BY <2>1, <2>2
<1>4. Good(r)'
  <2>1. Good(r)
    OBVIOUS
  <2>2. /\ Sent(Exit, "OPEN", r) = Sent(Exit, "OPEN", r)' + 1
        /\ \A z \in Sides : \A u : /\ z # Exit \/ u # "OPEN" => Sent(z, u, r)' = Sent(z, u, r)
                                   /\ Sent(z, u, r)' \in Nat
    BY <1>b, TakeCounts
  <2>3. thread[Exit][r] = "none" /\ thread[Entry][r] \notin {"none", "checked"}
    BY <2>1, <2>2 DEF Good, Opening
  <2>4. Blank(r) /\ Early(r)
    BY <2>1, <2>3 DEF Good, Opening, Early
  <2>r. Replied(r)'
    <3>1. \A z \in Sides : sock'[z][r] = "late" => thread'[z][r] = "read"
      BY <1>b, <1>c, <2>1, <2>3 DEF Good, Replied
    <3>2. thread'[Entry][r] = thread[Entry][r]
      BY <1>c
    <3> QED BY <1>b, <2>1, <2>2, <3>1, <3>2, RepliedKept DEF Good, Replied
  <2>5. Blank(r)' /\ Replied(r)'
    BY <1>b, <1>c, <1>r, <2>1, <2>2, <2>4, <2>r DEF Good, Blank
  <2>6. Opening(r)'
    BY <1>b, <1>c, <2>1, <2>2, <2>3, <2>4, <2>5 DEF Good, Opening, Early
  <2>7. ~ Live(r)'
    BY <2>5 DEF Blank, Live
  <2> QED BY <2>5, <2>6, <2>7 DEF Good, Carried
<1> QED BY <1>2, <1>3, <1>4, OthersGood

(* The SOCKS handlers.                                                                *)
LEMMA HandleGood ==
  ASSUME EndInv, link = "up", NEW r \in Sids, Handle(r)
  PROVE  EndInv'
<1> USE EntryAndExit DEF EndInv
<1>b. /\ thread[Entry][r] = "none"
      /\ UNCHANGED <<wire, done, stopper, reader, table, far, answer, ready, cutOff, out, in>>
      /\ thread' = [thread EXCEPT ![Entry][r] = IF r \in Tcp THEN "checked" ELSE "bind"]
      /\ sock' = [sock EXCEPT ![Entry][r] = "open"]
  <2>1. done[Entry] = FALSE
    BY DEF Shape
  <2> QED BY <2>1 DEF Handle, Goto, muxVars, appVars, replyVars
<1>c. /\ thread' \in [Sides -> [Sids -> Steps \ {"eof"}]]
      /\ \A z \in Sides, s \in Sids : ~ (z = Entry /\ s = r) => thread'[z][s] = thread[z][s]
      /\ r \in Tcp => thread'[Entry][r] = "checked"
  BY <1>b DEF Shape, Steps
<1>d. /\ sock' \in [Sides -> [Sids -> {"none", "open", "late", "closed"}]]
      /\ \A z \in Sides, s \in Sids :
           sock'[z][s] = IF z = Entry /\ s = r THEN "open" ELSE sock[z][s]
  BY <1>b DEF Shape
<1>2. Shape'
  BY <1>b, <1>c, <1>d DEF Shape
<1>3. Elsewhere(r) /\ WireElsewhere(r)
  BY <1>b, <1>c, <1>d, Streams, QuietWire DEF Elsewhere
<1>4. ASSUME r \in Tcp PROVE Good(r)'
  <2>1. Good(r) /\ \A z \in Sides : \A u : Sent(z, u, r)' = Sent(z, u, r)
    BY <1>4, <1>b DEF Sent
  <2>2. Opening(r)' /\ Replied(r)' /\ ~ Live(r)'
    BY <1>4, <1>b, <1>c, <1>d, <2>1 DEF Good, Opening, Blank, Replied, Early, Live
  <2> QED BY <2>2 DEF Good, Carried
<1> QED BY <1>2, <1>3, <1>4, OthersGood, Streams

LEMMA ConnectGood ==
  ASSUME EndInv, link = "up", NEW r \in Tcp, Connect(r)
  PROVE  EndInv'
<1> USE EntryAndExit, Streams DEF EndInv
<1>b. /\ thread[Entry][r] = "checked"
      /\ UNCHANGED <<done, stopper, reader, far, answer, ready, cutOff, out, in>>
  <2>1. UNCHANGED <<done, stopper>>
    BY SendsUp DEF Connect, muxVars
  <2> QED BY <2>1 DEF Connect, appVars, replyVars
<1>1. /\ Good(r) /\ thread[Exit][r] = "none" /\ Early(r) /\ Sent(Exit, "OPEN", r) = 0
      /\ sock[Entry][r] = "open" /\ Blank(r) /\ r \notin ready
  BY <1>b DEF Good, Opening, Early, Blank
<1>2. CASE Full(Entry)
  <2>1. /\ Goto(Entry, r, "end") /\ sock' = Closed(Entry, {r}) /\ UNCHANGED <<table, wire>>
    BY <1>2 DEF Connect, muxVars
  <2>2. /\ thread' \in [Sides -> [Sids -> Steps \ {"eof"}]]
        /\ \A z \in Sides, s \in Sids :
             thread'[z][s] = IF z = Entry /\ s = r THEN "end" ELSE thread[z][s]
    BY <2>1 DEF Goto, Shape, Steps
  <2>3. /\ sock' \in [Sides -> [Sids -> {"none", "open", "late", "closed"}]]
        /\ \A z \in Sides, s \in Sids : ~ (z = Entry /\ s = r) => sock'[z][s] = sock[z][s]
        /\ sock'[Entry][r] # "late"
    <3>1. ~ InRecv(Entry, r)
      BY <1>b DEF InRecv
    <3>2. sock[Entry][r] # "late"
      BY <1>1
    <3> QED BY <2>1, <3>1, <3>2, ClosedOne, ClosedAtOnce
  <2>4. Shape'
    BY <1>b, <2>1, <2>2, <2>3 DEF Shape
  <2>5. Elsewhere(r) /\ WireElsewhere(r)
    <3>1. WireElsewhere(r)
      BY <2>1, QuietWire
    <3>2. \A z \in Sides, s \in Tcp \ {r} :
            /\ thread'[z][s] = thread[z][s] /\ sock'[z][s] = sock[z][s]
            /\ (s \in table'[z] <=> s \in table[z])
      <4>1. UNCHANGED table
        BY <2>1
      <4> HIDE DEF EndInv
      <4> QED BY <2>2, <2>3, <4>1
    <3> HIDE DEF EndInv
    <3>3. Elsewhere(r)
      BY <1>b, <3>2 DEF Elsewhere
    <3> QED BY <3>1, <3>3
  <2>6. \A z \in Sides : \A u : Sent(z, u, r)' = Sent(z, u, r)
    BY <2>1 DEF Sent
  <2>r. Replied(r)'
    <3>1. Replied(r) /\ r \notin ready' /\ thread'[Entry][r] = "end"
      BY <1>1, <1>b, <2>2 DEF Good
    <3>2. \A z \in Sides : sock'[z][r] = "late" => thread'[z][r] = "read"
      BY <1>1, <1>b, <2>2, <2>3 DEF Good, Replied
    <3> QED BY <2>6, <3>1, <3>2, RepliedKept
  <2>7. Opening(r)' /\ Replied(r)' /\ ~ Live(r)'
    BY <1>1, <1>b, <2>2, <2>3, <2>6, <2>r DEF Good, Opening, Blank, Early, Live
  <2> QED BY <2>4, <2>5, <2>7, OthersGood DEF Good, Carried
<1>3. CASE ~ Full(Entry)
  <2>1. /\ Goto(Entry, r, "wait") /\ Puts(Exit, "OPEN", r) /\ "OPEN" \in Types
        /\ table' = [table EXCEPT ![Entry] = @ \cup {r}] /\ UNCHANGED sock
    <3>1. Other(Entry) = Exit
      BY DEF Other
    <3> QED BY <1>3, <3>1, SendsUp DEF Connect, Types
  <2>2. /\ thread' \in [Sides -> [Sids -> Steps \ {"eof"}]]
        /\ \A z \in Sides, s \in Sids :
             thread'[z][s] = IF z = Entry /\ s = r THEN "wait" ELSE thread[z][s]
    BY <2>1 DEF Goto, Shape, Steps
  <2>3. /\ table' \in [Sides -> SUBSET Sids]
        /\ \A z \in Sides, s \in Sids :
             (s \in table'[z] <=> s \in table[z] \/ (z = Entry /\ s = r))
    BY <2>1, Enters
  <2>4. Shape'
    BY <1>b, <2>1, <2>2, <2>3, PutEffect DEF Shape
  <2>5. Elsewhere(r) /\ WireElsewhere(r)
    <3>1. WireElsewhere(r)
      BY <2>1, PutElsewhere
    <3>2. Elsewhere(r)
      BY <1>b, <2>1, <2>2, <2>3 DEF Elsewhere
    <3> QED BY <3>1, <3>2
  <2>6. /\ Sent(Exit, "OPEN", r)' = 1
        /\ \A z \in Sides : \A u : z # Exit \/ u # "OPEN" => Sent(z, u, r)' = Sent(z, u, r)
    BY <1>1, <2>1, PutCounts
  <2>r. Replied(r)'
    <3>1. Replied(r) /\ r \notin ready' /\ thread'[Entry][r] = "wait"
      BY <1>1, <1>b, <2>2 DEF Good
    <3>2. \A z \in Sides : sock'[z][r] = "late" => thread'[z][r] = "read"
      BY <1>1, <1>b, <2>1, <2>2 DEF Good, Replied
    <3> QED BY <2>6, <3>1, <3>2, RepliedKept
  <2>7. Blank(r)' /\ Replied(r)'
    BY <1>1, <1>b, <2>2, <2>6, <2>r DEF Blank
  <2>8. Opening(r)' /\ ~ Live(r)'
    BY <1>1, <1>b, <2>1, <2>2, <2>3, <2>6, <2>7 DEF Opening, Blank, Early, Live
  <2> QED BY <2>4, <2>5, <2>7, <2>8, OthersGood DEF Good, Carried
<1> QED BY <1>2, <1>3

(* The reply is written, and then st.ready is set: the stream is live already.        *)
LEMMA HandlerGood ==
  ASSUME EndInv, link = "up", NEW r \in Tcp, WriteReply(r) \/ SetReady(r)
  PROVE  EndInv'
<1> USE EntryAndExit, Streams DEF EndInv
<1>b. /\ UNCHANGED <<wire, done, stopper, reader, table, sock, far, answer, cutOff, out, in>>
      /\ \/ thread[Entry][r] = "wait" /\ answer[r] = "ok" /\ Goto(Entry, r, "written") /\ ready' = ready
         \/ thread[Entry][r] = "written" /\ Goto(Entry, r, "read") /\ ready' = ready \cup {r}
  BY Pumps DEF WriteReply, SetReady, ReplyThenReady, muxVars
<1>c. PICK step \in {"written", "read"} :
        /\ thread' \in [Sides -> [Sids -> Steps \ {"eof"}]]
        /\ \A z \in Sides, s \in Sids :
             thread'[z][s] = IF z = Entry /\ s = r THEN step ELSE thread[z][s]
        /\ step = "written" => thread[Entry][r] = "wait" /\ answer[r] = "ok" /\ ready' = ready
        /\ step = "read" => thread[Entry][r] = "written" /\ ready' = ready \cup {r}
  <2>1. PICK step \in {"written", "read"} :
          /\ Goto(Entry, r, step)
          /\ step = "written" => thread[Entry][r] = "wait" /\ answer[r] = "ok" /\ ready' = ready
          /\ step = "read" => thread[Entry][r] = "written" /\ ready' = ready \cup {r}
    BY <1>b
  <2> QED BY <2>1 DEF Goto, Shape, Steps
<1>2. Shape'
  BY <1>b, <1>c DEF Shape
<1>3. Elsewhere(r) /\ WireElsewhere(r)
  BY <1>b, <1>c, QuietWire DEF Elsewhere
<1>4. Good(r)'
  <2>1. /\ Good(r)
        /\ \A z \in Sides : /\ \A u : Sent(z, u, r)' = Sent(z, u, r)
                            /\ (Ordered(z, r)' <=> Ordered(z, r)) /\ (Nearly(z, r)' <=> Nearly(z, r))
    BY <1>b DEF Sent, Ordered, Nearly
  <2>2. Live(r) /\ ~ Early(r)
    BY <1>c, <2>1, LiveIsLate DEF Live, Good
  <2>3. Opening(r)' /\ Replied(r)'
    <3>1. r \in ready' => thread'[Entry][r] \in {"read", "got", "end"}
      BY <1>c, <2>1 DEF Good, Replied
    <3>2. \A z \in Sides : sock'[z][r] = "late" => thread'[z][r] = "read"
      BY <1>b, <1>c, <2>1 DEF Good, Replied
    <3>3. Replied(r)'
      BY <1>c, <2>1, <3>1, <3>2, RepliedKept DEF Good
    <3>4. ~ Early(r)'
      BY <1>c, <2>2 DEF Early
    <3>5. Opening(r)'
      BY <1>b, <1>c, <2>1, <2>2, <3>4 DEF Good, Opening
    <3> QED BY <3>3, <3>5
  <2>4. ASSUME NEW y \in Sides, NEW z \in Sides, Carries(y, z, r) PROVE Carries(y, z, r)'
    <3>1. thread[z][r] = "end" => thread'[z][r] = "end"
      BY <1>c
    <3>2. Held(z, r)' = Held(z, r) /\ Last(z, r)' = Last(z, r)
      <4>1. CASE z # Entry
        BY <1>b, <1>c, <4>1 DEF Held, Last
      <4>2. CASE z = Entry
        <5>1. sock[Entry][r] # "late"
          BY <1>c, <2>1 DEF Good, Replied
        <5> QED BY <1>b, <1>c, <4>2, <5>1 DEF Held, Last
      <4> QED BY <4>1, <4>2
    <3> QED BY <1>b, <2>1, <2>4, <3>1, <3>2, CarriesKept
  <2> QED BY <2>1, <2>2, <2>3, <2>4 DEF Good, Carried
<1> QED BY <1>2, <1>3, <1>4, OthersGood

(* The handler gives up before its pump runs: the gateway is told only if it had      *)
(* answered.                                                                          *)
LEMMA NoReplyGood ==
  ASSUME EndInv, link = "up", NEW r \in Tcp, ReplyFails(r) \/ NotConnected(r)
  PROVE  EndInv'
<1> USE EntryAndExit, Streams DEF EndInv
<1>b. /\ thread[Entry][r] = "wait" /\ Remove(Entry, r) /\ Goto(Entry, r, "end")
      /\ UNCHANGED <<done, stopper, reader, far, answer, ready, cutOff, out, in>>
  <2>1. UNCHANGED <<done, stopper>>
    BY SendsUp DEF ReplyFails, NotConnected, muxVars
  <2> QED BY <2>1 DEF ReplyFails, NotConnected, appVars, replyVars
<1>w. UNCHANGED wire \/ (Puts(Exit, "CLOSE", r) /\ answer[r] = "ok")
  <2>1. Other(Entry) = Exit
    BY DEF Other
  <2> QED BY <2>1, SendsUp DEF ReplyFails, NotConnected, muxVars
<1>t. "CLOSE" \in Types
  BY DEF Types
<1>c. /\ thread' \in [Sides -> [Sids -> Steps \ {"eof"}]]
      /\ \A z \in Sides, s \in Sids :
           thread'[z][s] = IF z = Entry /\ s = r THEN "end" ELSE thread[z][s]
  BY <1>b DEF Goto, Shape, Steps
<1>e. /\ table' \in [Sides -> SUBSET Sids]
      /\ sock' \in [Sides -> [Sids -> {"none", "open", "late", "closed"}]]
      /\ \A z \in Sides, s \in Sids :
           /\ (s \in table'[z] <=> s \in table[z] /\ ~ (z = Entry /\ s = r))
           /\ ~ (z = Entry /\ s = r) => sock'[z][s] = sock[z][s]
           /\ sock'[z][s] = "late" /\ s \in Tcp => sock[z][s] = "late" \/ thread[z][s] = "read"
  BY <1>b, EntryRemoves
<1>2. Shape'
  <2>1. wire' \in [Sides -> Seq(Frames)]
    BY <1>w, <1>t, PutEffect DEF Shape
  <2> QED BY <1>b, <1>c, <1>e, <2>1 DEF Shape
<1>3. Elsewhere(r) /\ WireElsewhere(r)
  <2>1. WireElsewhere(r)
    BY <1>t, <1>w, PutElsewhere, QuietWire
  <2>2. Elsewhere(r)
    BY <1>b, <1>c, <1>e DEF Elsewhere
  <2> QED BY <2>1, <2>2
<1>4. Good(r)'
  <2>1. Good(r) /\ r \notin ready
    BY <1>b DEF Good, Replied
  <2>2. \A z \in Sides : \A u : u # "CLOSE" => Sent(z, u, r)' = Sent(z, u, r)
    <3>1. CASE UNCHANGED wire
      BY <3>1 DEF Sent
    <3>2. CASE Puts(Exit, "CLOSE", r)
      BY <3>2, PutClose
    <3> QED BY <1>w, <3>1, <3>2
  <2>3. Early(r) => \A z \in Sides : \A u : Sent(z, u, r)' = Sent(z, u, r)
    <3>1. Early(r) => UNCHANGED wire
      BY <1>w, <2>1 DEF Good, Opening, Blank
    <3> QED BY <3>1 DEF Sent
  <2>r. Replied(r)'
    <3>1. Replied(r) /\ r \notin ready' /\ thread'[Entry][r] = "end"
      BY <1>b, <1>c, <2>1 DEF Good
    <3>2. \A z \in Sides : sock'[z][r] = "late" => thread'[z][r] = "read"
      BY <1>b, <1>c, <1>e, <3>1 DEF Replied
    <3> QED BY <2>2, <3>1, <3>2, RepliedKept
  <2>4. Opening(r)' /\ ~ Live(r)'
    BY <1>b, <1>c, <1>e, <2>1, <2>2, <2>3 DEF Good, Opening, Blank, Early, Live
  <2> QED BY <2>4, <2>r DEF Good, Carried
<1> QED BY <1>2, <1>3, <1>4, OthersGood

(* The gateway's opener, before it answers: the stream has carried nothing.           *)
LEMMA DialGood ==
  ASSUME EndInv, link = "up", NEW r \in Sids, Dial(r)
  PROVE  EndInv'
<1> USE EntryAndExit DEF EndInv
<1>b. /\ thread[Exit][r] = "dial" /\ Goto(Exit, r, "dialed")
      /\ sock' = [sock EXCEPT ![Exit][r] = "open"]
      /\ UNCHANGED <<wire, done, stopper, reader, table, far, answer, ready, cutOff, out, in>>
  BY DEF Dial, muxVars, appVars, replyVars
<1>c. /\ thread' \in [Sides -> [Sids -> Steps \ {"eof"}]]
      /\ \A z \in Sides, s \in Sids :
           thread'[z][s] = IF z = Exit /\ s = r THEN "dialed" ELSE thread[z][s]
  BY <1>b DEF Goto, Shape, Steps
<1>d. /\ sock' \in [Sides -> [Sids -> {"none", "open", "late", "closed"}]]
      /\ \A z \in Sides, s \in Sids :
           sock'[z][s] = IF z = Exit /\ s = r THEN "open" ELSE sock[z][s]
  BY <1>b DEF Shape
<1>2. Shape'
  BY <1>b, <1>c, <1>d DEF Shape
<1>3. Elsewhere(r) /\ WireElsewhere(r)
  <2>1. WireElsewhere(r)
    BY <1>b, QuietWire
  <2>2. Elsewhere(r)
    BY <1>b, <1>c, <1>d, Streams DEF Elsewhere
  <2> QED BY <2>1, <2>2
<1>4. ASSUME r \in Tcp PROVE Good(r)'
  <2>1. Good(r) /\ Early(r) /\ \A z \in Sides : \A u : Sent(z, u, r)' = Sent(z, u, r)
    BY <1>4, <1>b DEF Sent, Early
  <2>r. Replied(r)'
    <3>2. \A z \in Sides : sock'[z][r] = "late" => thread'[z][r] = "read"
      BY <1>4, <1>b, <1>c, <1>d, <2>1, Streams DEF Good, Replied
    <3>3. thread'[Entry][r] = thread[Entry][r]
      BY <1>4, <1>c, Streams
    <3> QED BY <1>b, <2>1, <3>2, <3>3, RepliedKept DEF Good, Replied
  <2>2. Opening(r)' /\ Replied(r)' /\ ~ Live(r)'
    BY <1>4, <1>b, <1>c, <1>d, <2>1, <2>r, Streams DEF Good, Opening, Blank, Early, Live
  <2> QED BY <2>2 DEF Good, Carried
<1> QED BY <1>2, <1>3, <1>4, OthersGood, Streams

LEMMA RefusedGood ==
  ASSUME EndInv, link = "up", NEW r \in Sids, Refuse(r) \/ Bar(r)
  PROVE  EndInv'
<1> USE EntryAndExit DEF EndInv
<1>b. /\ thread[Exit][r] \in {"dial", "dialed"} /\ Goto(Exit, r, "end")
      /\ Puts(Entry, "ERR", r) /\ "ERR" \in Types
      /\ UNCHANGED <<done, stopper, reader, table, far, answer, ready, cutOff, out, in>>
  <2>1. Other(Exit) = Entry
    BY DEF Other
  <2> QED BY <2>1, SendsUp DEF Refuse, Bar, Types, appVars, replyVars
<1>c. /\ thread' \in [Sides -> [Sids -> Steps \ {"eof"}]]
      /\ \A z \in Sides, s \in Sids :
           thread'[z][s] = IF z = Exit /\ s = r THEN "end" ELSE thread[z][s]
  BY <1>b DEF Goto, Shape, Steps
<1>d. /\ sock' \in [Sides -> [Sids -> {"none", "open", "late", "closed"}]]
      /\ \A z \in Sides, s \in Sids : ~ (z = Exit /\ s = r) => sock'[z][s] = sock[z][s]
      /\ r \in Tcp /\ sock'[Exit][r] = "late" => sock[Exit][r] = "late"
  <2>1. CASE Refuse(r)
    BY <2>1 DEF Refuse, Shape
  <2>2. CASE Bar(r)
    <3>1. sock' = Closed(Exit, {r})
      BY <2>2 DEF Bar
    <3>2. r \in Tcp => ~ InRecv(Exit, r)
      BY <1>b DEF InRecv
    <3> QED BY <3>1, <3>2, ClosedOne, ClosedAtOnce
  <2> QED BY <2>1, <2>2
<1>2. Shape'
  BY <1>b, <1>c, <1>d, PutEffect DEF Shape
<1>3. Elsewhere(r) /\ WireElsewhere(r)
  <2>1. WireElsewhere(r)
    BY <1>b, PutElsewhere
  <2>2. Elsewhere(r)
    BY <1>b, <1>c, <1>d, Streams DEF Elsewhere
  <2> QED BY <2>1, <2>2
<1>4. ASSUME r \in Tcp PROVE Good(r)'
  <2>1. Good(r) /\ Early(r)
    BY <1>4, <1>b DEF Early
  <2>2. \A z \in Sides : \A u : u # "ERR" => Sent(z, u, r)' = Sent(z, u, r)
    BY <1>b, PutCounts
  <2>r. Replied(r)'
    <3>2. \A z \in Sides : sock'[z][r] = "late" => thread'[z][r] = "read"
      BY <1>4, <1>b, <1>c, <1>d, <2>1, Streams DEF Good, Replied
    <3>3. thread'[Entry][r] = thread[Entry][r]
      BY <1>4, <1>c, Streams
    <3> QED BY <1>b, <2>1, <2>2, <3>2, <3>3, RepliedKept DEF Good, Replied
  <2>3. Opening(r)' /\ Replied(r)' /\ ~ Live(r)'
    BY <1>4, <1>b, <1>c, <1>d, <2>1, <2>2, <2>r, Streams
       DEF Good, Opening, Blank, Early, Live
  <2> QED BY <2>3 DEF Good, Carried
<1> QED BY <1>2, <1>3, <1>4, OthersGood, Streams

(* MUX_OK: from here on the stream is live, if its handler still waits.               *)
LEMMA InsertGood ==
  ASSUME EndInv, link = "up", NEW r \in Sids, Insert(r)
  PROVE  EndInv'
<1> USE EntryAndExit DEF EndInv
<1>b. /\ thread[Exit][r] = "dialed" /\ Goto(Exit, r, "read")
      /\ Puts(Entry, "OK", r) /\ "OK" \in Types
      /\ table' = [table EXCEPT ![Exit] = @ \cup {r}]
      /\ UNCHANGED <<done, stopper, reader, sock, far, answer, ready, cutOff, out, in>>
  <2>1. Other(Exit) = Entry
    BY DEF Other
  <2>2. Puts(Entry, "OK", r) /\ UNCHANGED <<done, stopper>>
    BY <2>1, SendsUp DEF Insert
  <2> QED BY <2>2, Pumps DEF Insert, Types, appVars, replyVars
<1>c. /\ thread' \in [Sides -> [Sids -> Steps \ {"eof"}]]
      /\ \A z \in Sides, s \in Sids :
           thread'[z][s] = IF z = Exit /\ s = r THEN "read" ELSE thread[z][s]
  BY <1>b DEF Goto, Shape, Steps
<1>d. /\ table' \in [Sides -> SUBSET Sids]
      /\ \A z \in Sides, s \in Sids : (s \in table'[z] <=> s \in table[z] \/ (z = Exit /\ s = r))
  BY <1>b, Enters
<1>2. Shape'
  BY <1>b, <1>c, <1>d, PutEffect DEF Shape
<1>3. Elsewhere(r) /\ WireElsewhere(r)
  <2>1. WireElsewhere(r)
    BY <1>b, PutElsewhere
  <2>2. Elsewhere(r)
    BY <1>b, <1>c, <1>d, Streams DEF Elsewhere
  <2> QED BY <2>1, <2>2
<1>4. ASSUME r \in Tcp PROVE Good(r)'
  <2>1. Good(r) /\ Early(r) /\ Blank(r) /\ sock[Exit][r] = "open"
    BY <1>4, <1>b DEF Good, Opening, Early
  <2>2. /\ \A z \in Sides : \A u : /\ u # "OK" => Sent(z, u, r)' = Sent(z, u, r)
                                   /\ Sent(z, u, r) \in Nat
        /\ \A z \in Sides : (Ordered(z, r) => Ordered(z, r)') /\ (Nearly(z, r) => Nearly(z, r)')
    BY <1>b, PutCounts
  <2>r. Replied(r)'
    <3>2. \A z \in Sides : sock'[z][r] = "late" => thread'[z][r] = "read"
      BY <1>4, <1>b, <1>c, <2>1, Streams DEF Good, Replied
    <3>3. thread'[Entry][r] = thread[Entry][r]
      BY <1>4, <1>c, Streams
    <3> QED BY <1>b, <2>1, <2>2, <3>2, <3>3, RepliedKept DEF Good, Replied
  <2>3. Opening(r)' /\ Replied(r)'
    BY <1>4, <1>b, <1>c, <2>1, <2>2, <2>r, Streams DEF Good, Opening, Early
  <2>4. ASSUME Live(r)' PROVE Carries(Entry, Exit, r)' /\ Carries(Exit, Entry, r)'
    <3>0. thread[Entry][r] = "wait"
      BY <1>4, <1>b, <1>c, <2>1, <2>4, Streams DEF Live, Blank
    <3>1. thread[Entry][r] = "wait" /\ sock[Entry][r] = "open" /\ r \in table[Entry]
      BY <2>1, <3>0 DEF Good, Opening
    <3>2. \A z \in Sides : sock'[z][r] = "open" /\ r \in table'[z]
      BY <1>4, <1>b, <1>d, <2>1, <3>1, Streams DEF Sides
    <3>3. \A z \in Sides : /\ Sent(z, "DATA", r)' = 0 /\ Sent(z, "CLOSE", r)' = 0
                           /\ in'[z][r] = 0 /\ out'[z][r] = 0 /\ reader'[z] # r
                           /\ Ordered(z, r)' /\ Nearly(z, r)' /\ r \notin cutOff'[z]
      BY <1>b, <2>1, <2>2, SentTypes DEF Blank
    <3>4. \A z \in Sides : thread'[z][r] # "got" /\ Held(z, r)' = 0 /\ Reading(z, r)' = 0
      BY <1>4, <1>c, <3>1, <3>3, Streams DEF Sides, Held, Reading
    <3>5. \A x, y \in Sides : UnderWay(x, y, r)' = 0
      BY <3>3, <3>4 DEF UnderWay
    <3> QED BY <3>2, <3>3, <3>4, <3>5 DEF Carries
  <2> QED BY <2>3, <2>4 DEF Good, Carried
<1> QED BY <1>2, <1>3, <1>4, OthersGood, Streams

(* A step about a UDP association touches no CONNECT stream.                          *)
LEMMA UdpGood ==
  ASSUME EndInv, NEW r \in Udp, Shape', Elsewhere(r), WireElsewhere(r)
  PROVE  EndInv'
<1>1. Tcp = Tcp \ {r}
  BY Streams
<1> QED BY <1>1, OthersGood DEF EndInv

LEMMA GetAssocGood ==
  ASSUME EndInv, link = "up", NEW r \in Udp, GetAssoc(r)
  PROVE  EndInv'
<1> USE EntryAndExit, Streams DEF EndInv
<1>b. /\ Takes(Exit, "UDP_ASSOC", r) /\ "UDP_ASSOC" \in Types /\ Goto(Exit, r, "read")
      /\ table' = [table EXCEPT ![Exit] = @ \cup {r}]
      /\ sock' = [sock EXCEPT ![Exit][r] = "open"]
      /\ UNCHANGED <<done, stopper, far, ready, cutOff, out, in, answer>>
  BY DEF GetAssoc, Arrived, Takes, Types
<1>r. reader' = reader
  <2>1. reader[Exit] = "recv" /\ reader' = [reader EXCEPT ![Exit] = "recv"]
    BY Reads DEF GetAssoc, Arrived
  <2> QED BY <2>1 DEF Shape
<1>c. /\ thread' \in [Sides -> [Sids -> Steps \ {"eof"}]]
      /\ \A z \in Sides, s \in Sids :
           thread'[z][s] = IF z = Exit /\ s = r THEN "read" ELSE thread[z][s]
  BY <1>b DEF Goto, Shape, Steps
<1>d. /\ table' \in [Sides -> SUBSET Sids]
      /\ \A z \in Sides, s \in Sids : (s \in table'[z] <=> s \in table[z] \/ (z = Exit /\ s = r))
  BY <1>b, Enters
<1>e. /\ sock' \in [Sides -> [Sids -> {"none", "open", "late", "closed"}]]
      /\ \A z \in Sides, s \in Sids :
           sock'[z][s] = IF z = Exit /\ s = r THEN "open" ELSE sock[z][s]
  BY <1>b DEF Shape
<1>1. Shape'
  BY <1>b, <1>c, <1>d, <1>e, <1>r, TakeEffect DEF Shape
<1>2. WireElsewhere(r)
  BY <1>b, TakeElsewhere
<1>3. Elsewhere(r)
  BY <1>b, <1>c, <1>d, <1>e, <1>r DEF Elsewhere
<1> QED BY <1>1, <1>2, <1>3, UdpGood

LEMMA EntryUdpGood ==
  ASSUME EndInv, link = "up", NEW r \in Udp, Associate(r) \/ AssociateFails(r) \/ AfterHold(r)
  PROVE  EndInv'
<1> USE EntryAndExit, Streams DEF EndInv
<1>b. UNCHANGED <<done, stopper, reader, far, answer, ready, cutOff, out, in>>
  <2>1. UNCHANGED <<done, stopper>>
    BY SendsUp DEF Associate, AssociateFails, AfterHold
  <2> QED BY <2>1 DEF Associate, AssociateFails, AfterHold, appVars, replyVars
<1>w. PICK type \in Types : Puts(Exit, type, r)
  <2>1. Other(Exit) = Entry /\ Other(Entry) = Exit
    BY DEF Other
  <2> QED BY <2>1, SendsUp DEF Associate, AssociateFails, AfterHold, Types
<1>c. /\ thread' \in [Sides -> [Sids -> Steps \ {"eof"}]]
      /\ \A z \in Sides, s \in Sids : ~ (z = Entry /\ s = r) => thread'[z][s] = thread[z][s]
  <2>1. PICK step \in Steps \ {"eof"} : Goto(Entry, r, step)
    BY DEF Associate, AssociateFails, AfterHold, Steps
  <2> QED BY <2>1 DEF Goto, Shape
<1>d. /\ table' \in [Sides -> SUBSET Sids]
      /\ sock' \in [Sides -> [Sids -> {"none", "open", "late", "closed"}]]
      /\ \A z \in Sides, s \in Sids :
           ~ (z = Entry /\ s = r) => /\ (s \in table'[z] <=> s \in table[z])
                                     /\ sock'[z][s] = sock[z][s]
  <2>1. CASE Associate(r)
    <3>1. table' = [table EXCEPT ![Entry] = @ \cup {r}] /\ UNCHANGED sock
      BY <2>1 DEF Associate
    <3>2. /\ table' \in [Sides -> SUBSET Sids]
          /\ \A z \in Sides, s \in Sids :
               (s \in table'[z] <=> s \in table[z] \/ (z = Entry /\ s = r))
      BY <3>1, Enters
    <3>3. sock' = sock /\ sock \in [Sides -> [Sids -> {"none", "open", "late", "closed"}]]
      BY <3>1 DEF Shape
    <3>4. ASSUME NEW z \in Sides, NEW s \in Sids, ~ (z = Entry /\ s = r)
          PROVE  (s \in table'[z] <=> s \in table[z]) /\ sock'[z][s] = sock[z][s]
      BY <3>2, <3>3, <3>4
    <3> QED BY <3>2, <3>3, <3>4
  <2>2. CASE AssociateFails(r)
    <3>1. sock' = Closed(Entry, {r}) /\ UNCHANGED table
      BY <2>2 DEF AssociateFails
    <3>2. /\ sock' \in [Sides -> [Sids -> {"none", "open", "late", "closed"}]]
          /\ \A z \in Sides, s \in Sids : ~ (z = Entry /\ s = r) => sock'[z][s] = sock[z][s]
      BY <3>1, ClosedOne
    <3> QED BY <3>1, <3>2 DEF Shape
  <2>3. CASE AfterHold(r)
    <3>1. Remove(Entry, r)
      BY <2>3 DEF AfterHold
    <3>2. /\ table' \in [Sides -> SUBSET Sids]
          /\ sock' \in [Sides -> [Sids -> {"none", "open", "late", "closed"}]]
          /\ \A z \in Sides, s \in Sids :
               /\ (s \in table'[z] <=> s \in table[z] /\ ~ (z = Entry /\ s = r))
               /\ ~ (z = Entry /\ s = r) => sock'[z][s] = sock[z][s]
               /\ sock'[z][s] = "late" /\ s \in Tcp => sock[z][s] = "late" \/ thread[z][s] = "read"
      BY <3>1, EntryRemoves
    <3>3. ASSUME NEW z \in Sides, NEW s \in Sids, ~ (z = Entry /\ s = r)
          PROVE  (s \in table'[z] <=> s \in table[z]) /\ sock'[z][s] = sock[z][s]
      BY <3>2, <3>3
    <3> QED BY <3>2, <3>3
  <2> QED BY <2>1, <2>2, <2>3
<1>1. Shape'
  BY <1>b, <1>c, <1>d, <1>w, PutEffect DEF Shape
<1>2. WireElsewhere(r)
  BY <1>w, PutElsewhere
<1>3. Elsewhere(r)
  BY <1>b, <1>c, <1>d DEF Elsewhere
<1> QED BY <1>1, <1>2, <1>3, UdpGood

LEMMA BindFailsGood ==
  ASSUME EndInv, NEW r \in Udp, BindFails(r)
  PROVE  EndInv'
<1> USE EntryAndExit, Streams DEF EndInv
<1>b. /\ UNCHANGED <<wire, done, stopper, reader, table, far, answer, ready, cutOff, out, in>>
      /\ sock' = Closed(Entry, {r}) /\ Goto(Entry, r, "end")
  BY DEF BindFails, muxVars, appVars, replyVars
<1>c. /\ thread' \in [Sides -> [Sids -> Steps \ {"eof"}]]
      /\ \A z \in Sides, s \in Sids : ~ (z = Entry /\ s = r) => thread'[z][s] = thread[z][s]
  BY <1>b DEF Goto, Shape, Steps
<1>d. /\ sock' \in [Sides -> [Sids -> {"none", "open", "late", "closed"}]]
      /\ \A z \in Sides, s \in Sids : ~ (z = Entry /\ s = r) => sock'[z][s] = sock[z][s]
  BY <1>b, ClosedOne
<1>1. Shape'
  BY <1>b, <1>c, <1>d DEF Shape
<1>2. WireElsewhere(r)
  BY <1>b, QuietWire
<1>3. Elsewhere(r)
  <2>1. /\ far' = far /\ in' = in /\ out' = out /\ table' = table /\ reader' = reader
        /\ cutOff' = cutOff /\ ready' = ready /\ answer' = answer
    BY <1>b
  <2> HIDE <1>b DEF EndInv
  <2>2. ASSUME NEW s \in Tcp \ {r}, NEW x \in Sides
        PROVE  thread'[x][s] = thread[x][s] /\ sock'[x][s] = sock[x][s]
    BY <1>c, <1>d, Streams
  <2> QED BY <2>1, <2>2 DEF Elsewhere
<1> QED BY <1>1, <1>2, <1>3, UdpGood

LEMMA DatagramEndsGood ==
  ASSUME EndInv, NEW x \in Sides, NEW r \in Sids, DatagramEnds(x, r)
  PROVE  EndInv'
<1>b. /\ r \in Udp /\ sock' = Back(x, r)
      /\ UNCHANGED <<wire, done, stopper, reader, table, far, answer, ready, cutOff, out, in>>
      /\ thread' = thread \/ Goto(Exit, r, "end")
  BY DEF DatagramEnds, muxVars, appVars, replyVars, Goto
<1>s. Shape
  BY DEF EndInv
<1>c. /\ thread' \in [Sides -> [Sids -> Steps \ {"eof"}]]
      /\ \A z \in Sides, s \in Sids : s # r => thread'[z][s] = thread[z][s]
  <2>1. CASE thread' = thread
    BY <1>s, <2>1 DEF Shape
  <2>2. CASE Goto(Exit, r, "end")
    BY <1>s, <2>2, EntryAndExit DEF Goto, Shape, Steps
  <2> QED BY <1>b, <2>1, <2>2
<1>d. /\ sock' \in [Sides -> [Sids -> {"none", "open", "late", "closed"}]]
      /\ \A z \in Sides, s \in Sids :
           \/ sock'[z][s] = sock[z][s]
           \/ z = x /\ s = r /\ sock[z][s] = "late" /\ sock'[z][s] = "closed"
  BY <1>b, <1>s, BackOne
<1>1. Shape'
  BY <1>b, <1>c, <1>d, <1>s DEF Shape
<1>2. WireElsewhere(r)
  BY <1>b, QuietWire
<1>3. Elsewhere(r)
  BY <1>b, <1>c, <1>d, Streams DEF Elsewhere
<1> QED BY <1>1, <1>2, <1>3, <1>b, UdpGood

(* The channel is never repaired, and nobody stops before it breaks.                  *)
LEMMA UpBefore ==
  ASSUME Next, link' = "up" PROVE link = "up"
<1>1. ASSUME NEW x \in Sides, ReaderStep(x) \/ Clear(x) PROVE link' = link
  BY <1>1 DEF ReaderStep, Leave, Deliver, DeliverFails, GetData, GetClose, GetAnswer, GetOpen,
              GetAssoc, Arrived, Clear
<1>2. ASSUME NEW s \in Sids, Handle(s) \/ EntryStep(s) \/ ExitStep(s) PROVE link' = link
  BY <1>2 DEF Handle, EntryStep, Connect, WriteReply, SetReady, ReplyFails, NotConnected, PumpSends,
              PumpEnds, AfterPump, Associate, BindFails, AssociateFails, ControlEnds, AfterHold,
              ExitStep, Dial, Refuse, Insert, Bar
<1>3. ASSUME NEW x \in Sides, NEW s \in Sids,
             PumpReads(x, s) \/ PumpWakes(x, s) \/ DatagramEnds(x, s) \/ FarShuts(x, s)
      PROVE  link' = link
  BY <1>3 DEF PumpReads, PumpWakes, AfterPump, DatagramEnds, FarShuts
<1>4. CASE Beat
  BY <1>4 DEF Beat
<1>5. CASE Break
  BY <1>5 DEF Break
<1>6. ASSUME NEW s \in Udp, HoldSeesDone(s) PROVE link' = link
  BY <1>6 DEF HoldSeesDone, AfterHold
<1> QED BY <1>1, <1>2, <1>3, <1>4, <1>5, <1>6 DEF Next

LEMMA NobodyStops ==
  ASSUME EndInv, link = "up", NEW x \in Sides PROVE ~ Leave(x) /\ ~ Clear(x) /\ ~ Beat
<1>1. done[x] = FALSE /\ stopper[x] = None /\ reader[x] \in Sids \cup {"recv"}
  BY DEF EndInv, Shape
<1>2. "leave" \notin Sids
  BY SocksMuxAssumption DEF Sids
<1> QED BY <1>1, <1>2 DEF Leave, Noticed, Clear, Beat

LEMMA NextEnds ==
  ASSUME EndInv, link = "up", link' = "up", Next PROVE EndInv'
<1>1. ASSUME NEW x \in Sides, ReaderStep(x) \/ Clear(x) PROVE EndInv'
  <2>1. ~ Leave(x) /\ ~ Clear(x)
    BY <1>1, NobodyStops
  <2>2. CASE Deliver(x) \/ DeliverFails(x)
    BY <2>2, DeliverGood, DeliverFailsGood
  <2>3. ASSUME NEW s \in Sids, GetData(x, s) \/ GetClose(x, s) PROVE EndInv'
    BY <2>3, GetDataGood, GetCloseGood
  <2>4. ASSUME NEW s \in Sids, GetAnswer(s, "OK", "ok") \/ GetAnswer(s, "ERR", "err") PROVE EndInv'
    BY <2>4, GetAnswerGood
  <2>5. ASSUME NEW s \in Tcp, GetOpen(s) PROVE EndInv'
    BY <2>5, GetOpenGood
  <2>6. ASSUME NEW s \in Udp, GetAssoc(s) PROVE EndInv'
    BY <2>6, GetAssocGood
  <2> QED BY <1>1, <2>1, <2>2, <2>3, <2>4, <2>5, <2>6 DEF ReaderStep
<1>2. ASSUME NEW s \in Sids, Handle(s) \/ EntryStep(s) \/ ExitStep(s) PROVE EndInv'
  <2>1. CASE Handle(s)
    BY <2>1, HandleGood
  <2>2. CASE EntryStep(s)
    <3>1. CASE s \in Tcp /\ Connect(s)
      BY <3>1, ConnectGood
    <3>2. CASE s \in Tcp /\ (WriteReply(s) \/ SetReady(s) \/ PumpSends(Entry, s))
      BY <3>2, EntryAndExit, HandlerGood, PumpSendsGood
    <3>3. CASE s \in Tcp /\ (ReplyFails(s) \/ NotConnected(s))
      BY <3>3, NoReplyGood
    <3>4. CASE PumpEnds(Entry, s)
      BY <3>4, EntryAndExit, PumpEndsGood
    <3>5. CASE s \in Udp /\ (Associate(s) \/ BindFails(s) \/ AssociateFails(s) \/ ControlEnds(s))
      BY <3>5, EntryUdpGood, BindFailsGood DEF ControlEnds
    <3> QED BY <2>2, <3>1, <3>2, <3>3, <3>4, <3>5 DEF EntryStep
  <2>3. CASE ExitStep(s)
    <3>1. CASE PumpSends(Exit, s)
      <4>1. s \in Tcp
        BY <3>1 DEF PumpSends
      <4> QED BY <3>1, <4>1, EntryAndExit, PumpSendsGood
    <3>2. CASE Dial(s) \/ Refuse(s) \/ Insert(s) \/ Bar(s) \/ PumpEnds(Exit, s)
      BY <3>2, EntryAndExit, DialGood, RefusedGood, InsertGood, PumpEndsGood
    <3> QED BY <2>3, <3>1, <3>2 DEF ExitStep
  <2> QED BY <1>2, <2>1, <2>2, <2>3
<1>3. ASSUME NEW x \in Sides, NEW s \in Sids,
             PumpReads(x, s) \/ PumpWakes(x, s) \/ DatagramEnds(x, s) \/ FarShuts(x, s)
      PROVE  EndInv'
  BY <1>3, PumpReadsGood, PumpEndsGood, DatagramEndsGood, FarShutsGood
<1>4. ~ Beat /\ ~ Break
  BY NobodyStops, EntryAndExit DEF Break
<1>5. ~ \E s \in Udp : HoldSeesDone(s)
  <2>1. done[Entry] = FALSE
    BY EntryAndExit DEF EndInv, Shape
  <2> QED BY <2>1 DEF HoldSeesDone
<1> QED BY <1>1, <1>2, <1>3, <1>4, <1>5 DEF Next

LEMMA StutterEnds ==
  ASSUME EndInv, UNCHANGED vars PROVE EndInv'
<1>1. /\ UNCHANGED <<wire, done, stopper, reader, table, thread, sock, far, answer, ready, cutOff, out, in>>
      /\ \A x \in Sides : \A u, s :
           /\ Sent(x, u, s)' = Sent(x, u, s)
           /\ (Ordered(x, s)' <=> Ordered(x, s)) /\ (Nearly(x, s)' <=> Nearly(x, s))
  BY DEF vars, Sent, Ordered, Nearly
<1>2. Shape'
  BY <1>1 DEF EndInv, Shape
<1>3. ASSUME NEW s \in Tcp PROVE Good(s)'
  <2>1. Good(s)
    BY DEF EndInv
  <2>2. Opening(s)' /\ Replied(s)' /\ (Live(s)' <=> Live(s))
    BY <1>1, <2>1, EntryAndExit DEF Good, Opening, Replied, Early, Blank, Live
  <2>3. ASSUME NEW x \in Sides, NEW y \in Sides, Carries(x, y, s) PROVE Carries(x, y, s)'
    <3>1. Held(y, s)' = Held(y, s) /\ Last(y, s)' = Last(y, s) /\ s \in Sids
      BY <1>1, Streams DEF Held, Last
    <3> QED BY <1>1, <2>3, <3>1, CarriesKept
  <2> QED BY <2>1, <2>2, <2>3, EntryAndExit DEF Good, Carried
<1> QED BY <1>2, <1>3 DEF EndInv

LEMMA InitEnds ==
  ASSUME Init PROVE EndInv
<1> USE EntryAndExit, Streams
<1>1. \A x \in Sides : \A u, s : Sent(x, u, s) = 0
  BY CountEmpty DEF Init, Sent
<1>2. \A x \in Sides, s \in Sids :
        thread[x][s] = "none" /\ out[x][s] = 0 /\ in[x][s] = 0 /\ reader[x] = "recv"
  BY DEF Init, Each
<1>3. Shape
  BY DEF Init, Each, Shape, Steps, Frames
<1>4. \A s \in Tcp : ~ Live(s) /\ Blank(s)
  BY <1>1, <1>2, Reads, <1>3 DEF Init, Live, Blank
<1>5. \A s \in Tcp : Opening(s) /\ Replied(s)
  BY <1>1, <1>2, <1>4 DEF Init, Opening, Replied, Early
<1> QED BY <1>3, <1>4, <1>5 DEF EndInv, Good, Carried

LEMMA EndInvTells ==
  ASSUME EndInv, link = "up" PROVE EndIsTruthful
<1>1. ASSUME NEW x \in Sides, NEW s \in Tcp, s \in ready, sock[x][s] = "closed", far[x][s] = "up"
      PROVE  \/ in[x][s] = out[Other(x)][s]
             \/ s \in cutOff[Other(x)] /\ in[x][s] + 1 = out[Other(x)][s]
  <2>1. Carried(s) /\ Live(s)
    BY <1>1 DEF EndInv, Good, Live
  <2>2. Carries(x, Other(x), s)
    BY <2>1, Both
  <2>3. in[x][s] \in Nat /\ out[Other(x)][s] \in Nat /\ Last(Other(x), s) \in {0, 1}
    <3>1. Other(x) \in Sides /\ s \in Sids
      BY Both, Streams
    <3>2. Last(Other(x), s) \in {0, 1}
      BY DEF Last
    <3> QED BY <3>1, <3>2 DEF EndInv, Shape
  <2>4. /\ in[x][s] <= out[Other(x)][s]
        /\ s \in cutOff[Other(x)] => out[Other(x)][s] - in[x][s] + Last(Other(x), s) <= 1
        /\ s \notin cutOff[Other(x)] => in[x][s] = out[Other(x)][s]
    BY <1>1, <2>2 DEF Carries
  <2> QED BY <2>3, <2>4
<1> QED BY <1>1 DEF EndIsTruthful

(* As long as the tunnel holds, an application or a server that sees its connection   *)
(* end without having closed it has received all that _pump() read at the other end,  *)
(* for any number of streams, requests and chunks.  If the other end's reader cut the *)
(* stream off because it could not write, one chunk may be missing, never two: the    *)
(* one that its pump held, or that recv() still returned, behind the MUX_CLOSE.       *)
THEOREM EndsAreTruthful == Spec => []EndIsTruthful
<1> DEFINE Inv == link = "up" => EndInv
<1>1. Init => Inv
  BY InitEnds
<1>2. Inv /\ [Next]_vars => Inv'
  <2>1. ASSUME Inv, Next, link' = "up" PROVE EndInv'
    BY <2>1, UpBefore, NextEnds
  <2>2. ASSUME Inv, UNCHANGED vars, link' = "up" PROVE EndInv'
    <3>1. link = "up"
      BY <2>2 DEF vars
    <3> QED BY <2>2, <3>1, StutterEnds
  <2> QED BY <2>1, <2>2
<1>3. Inv => EndIsTruthful
  BY EndInvTells DEF EndIsTruthful
<1> HIDE DEF Inv
<1> QED BY <1>1, <1>2, <1>3, PTL DEF Spec
=============================================================================
