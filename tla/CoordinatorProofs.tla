------------------------- MODULE CoordinatorProofs -------------------------
(***************************************************************************)
(* Theorems about Coordinator, for any number of nodes, keys and control      *)
(* connections and any number of events.                                     *)
(***************************************************************************)
EXTENDS Coordinator, FiniteSetTheorems, TLAPS

-----------------------------------------------------------------------------
(* Types.  A letter is addressed to a node that is still to be sent to, a       *)
(* thread that is not in _push_all() has nobody to send to, and every update   *)
(* of endpoints was an event.                                                *)
TypeInv ==
  /\ TypeOK
  /\ \A s \in Sessions : pc[s] \notin {"push", "pushDown"} => todo[s] = {}
  /\ \A s \in Sessions : eps[s] <= events

LEMMA AddrsAreNumbers == Addrs \subseteq Nat /\ None \notin Addrs
  BY CoordinatorAssumption, FS_CardinalityType DEF Addrs

LEMMA NoLetterToSend ==
  ASSUME TypeInv, NEW s \in Sessions, todo[s] = {}
  PROVE  letter[s] = None
  BY DEF TypeInv, TypeOK

LEMMA InitTypes == Init => TypeInv
<1> SUFFICES ASSUME Init PROVE TypeInv
  OBVIOUS
<1>1. MaxEvents \in Nat
  BY CoordinatorAssumption
<1>2. /\ pc \in [Sessions -> {"new", "gone"} \cup Working]
      /\ chan \in [Sessions -> {"open", "dead"}]
      /\ nodes \in [Keys -> Sessions \cup {None}]
      /\ eps \in [Sessions -> 0 .. MaxEvents] /\ events \in 0 .. MaxEvents
  BY <1>1 DEF Init
<1>3. /\ addr \in [Sessions -> Addrs \cup {None}]
      /\ memory \in [Keys -> Addrs \cup {None}]
      /\ disk \in [Keys -> Addrs \cup {None}]
      /\ saveFailed \in BOOLEAN
      /\ view \in [Sessions -> SUBSET Entries]
      /\ told \in [Sessions -> SUBSET Sessions]
  BY DEF Init
<1>4. /\ todo \in [Sessions -> SUBSET Sessions]
      /\ DOMAIN letter = Sessions
      /\ \A s \in Sessions : letter[s] = None /\ todo[s] = {} /\ eps[s] <= events
  BY DEF Init
<1> QED BY <1>2, <1>3, <1>4 DEF TypeInv, TypeOK

(* Types of the variables a push changes.                                    *)
LEMMA PushTypes ==
  ASSUME TypeInv, NEW s \in Sessions, UNCHANGED <<handlerVars, addressVars, events>>,
         \/ \E x \in Sessions : Compute(s, x)
         \/ Send(s)
  PROVE  TypeInv'
<1>1. CASE \E x \in Sessions : Compute(s, x)
  <2>1. PICK x \in Sessions : Compute(s, x)
    BY <1>1
  <2>2. MapFor(x) \in SUBSET Entries /\ \A e \in MapFor(x) : KeyOf[e[1]] # KeyOf[x]
    <3>1. \A n \in Present : n \in Sessions
      BY DEF Present, TypeInv, TypeOK
    <3> QED BY <3>1 DEF MapFor, Entries, TypeInv, TypeOK
  <2>3. [to |-> x, map |-> MapFor(x)] \in [to : todo[s], map : SUBSET Entries]
    BY <2>1, <2>2 DEF Compute
  <2>4. letter' = [letter EXCEPT ![s] = [to |-> x, map |-> MapFor(x)]]
        /\ UNCHANGED <<todo, view, told>>
    BY <2>1 DEF Compute
  <2> QED BY <2>2, <2>3, <2>4 DEF TypeInv, TypeOK, handlerVars, addressVars
<1>2. CASE Send(s)
  <2> DEFINE x == letter[s].to
             m == letter[s].map
  <2>1. x \in todo[s] /\ x \in Sessions /\ m \in SUBSET Entries
    BY <1>2 DEF Send, TypeInv, TypeOK
  <2>2. {e[1] : e \in m} \in SUBSET Sessions
    BY <2>1 DEF Entries
  <2>3. /\ todo' = [todo EXCEPT ![s] = @ \ {x}] /\ letter' = [letter EXCEPT ![s] = None]
        /\ view' \in [Sessions -> SUBSET Entries] /\ told' \in [Sessions -> SUBSET Sessions]
    <3>1. view \in [Sessions -> SUBSET Entries] /\ told \in [Sessions -> SUBSET Sessions]
      BY DEF TypeInv, TypeOK
    <3>2. /\ todo' = [todo EXCEPT ![s] = @ \ {x}] /\ letter' = [letter EXCEPT ![s] = None]
      BY <1>2 DEF Send
    <3>3. \/ UNCHANGED <<view, told>>
          \/ /\ view' = [view EXCEPT ![x] = m]
             /\ told' = [told EXCEPT ![x] = @ \cup {e[1] : e \in m}]
      BY <1>2 DEF Send
    <3>4. CASE UNCHANGED <<view, told>>
      BY <3>1, <3>2, <3>4
    <3>5. CASE /\ view' = [view EXCEPT ![x] = m]
               /\ told' = [told EXCEPT ![x] = @ \cup {e[1] : e \in m}]
      <4>1. view' \in [Sessions -> SUBSET Entries]
        BY <2>1, <3>1, <3>5
      <4>2. told' \in [Sessions -> SUBSET Sessions]
        <5> DEFINE g == {e[1] : e \in m}
        <5>1. g \in SUBSET Sessions /\ told' = [told EXCEPT ![x] = @ \cup g]
          BY <2>2, <3>5
        <5> HIDE DEF g
        <5> QED BY <2>1, <3>1, <5>1
      <4> QED BY <3>2, <4>1, <4>2
    <3> QED BY <3>3, <3>4, <3>5
  <2>4. /\ todo' \in [Sessions -> SUBSET Sessions] /\ DOMAIN letter' = Sessions
        /\ letter'[s] = None /\ todo'[s] \subseteq todo[s]
        /\ \A t \in Sessions \ {s} : letter'[t] = letter[t] /\ todo'[t] = todo[t]
    BY <2>1, <2>3 DEF TypeInv, TypeOK
  <2>5. \A t \in Sessions : pc[t] \notin {"push", "pushDown"} => todo'[t] = {}
    BY <2>4 DEF TypeInv
  <2> HIDE DEF x, m
  <2> QED BY <2>3, <2>4, <2>5 DEF TypeInv, TypeOK, handlerVars, addressVars
<1> QED BY <1>1, <1>2

LEMMA NextTypes == TypeInv /\ [Next]_vars => TypeInv'
<1> SUFFICES ASSUME TypeInv, [Next]_vars PROVE TypeInv'
  OBVIOUS
<1>a. None \notin Sessions /\ KeyOf \in [Sessions -> Keys] /\ MaxEvents \in Nat
  BY CoordinatorAssumption
<1>1. ASSUME NEW s \in Sessions, Admit(s) PROVE TypeInv'
  BY <1>1 DEF Admit, Goto, Working, TypeInv, TypeOK, addressVars, pushVars
<1>2. ASSUME NEW s \in Sessions, TurnAway(s) \/ Malformed(s) PROVE TypeInv'
  BY <1>2 DEF TurnAway, Malformed, Goto, Working, TypeInv, TypeOK, addressVars, pushVars
<1>3. ASSUME NEW s \in Sessions, KnownAddress(s) PROVE TypeInv'
  BY <1>a, <1>3 DEF KnownAddress, Goto, Working, TypeInv, TypeOK, pushVars
<1>4. ASSUME NEW s \in Sessions, NewAddress(s) PROVE TypeInv'
  BY <1>a, <1>4 DEF NewAddress, Goto, Working, TypeInv, TypeOK, pushVars
<1>5. ASSUME NEW s \in Sessions, Save(s) PROVE TypeInv'
  <2>1. /\ disk' \in [Keys -> Addrs \cup {None}] /\ saveFailed' \in BOOLEAN
        /\ events' \in 0 .. MaxEvents /\ events <= events'
    <3>1. CASE disk' = memory /\ UNCHANGED <<saveFailed, events>>
      BY <1>a, <3>1 DEF TypeInv, TypeOK
    <3>2. CASE Event /\ saveFailed' = TRUE /\ UNCHANGED disk
      BY <1>a, <3>2 DEF Event, TypeInv, TypeOK
    <3> QED BY <1>5, <3>1, <3>2 DEF Save
  <2>2. /\ pc' = [pc EXCEPT ![s] = "install"]
        /\ pc[s] = "save" /\ todo[s] = {}
        /\ addr' = [addr EXCEPT ![s] = memory[KeyOf[s]]]
        /\ UNCHANGED <<chan, nodes, eps, memory, todo, letter, view, told>>
    BY <1>5 DEF Save, Goto, pushVars, TypeInv
  <2>3. pc' \in [Sessions -> {"new", "gone"} \cup Working]
        /\ \A t \in Sessions : pc'[t] \notin {"push", "pushDown"} => todo[t] = {}
    BY <2>2 DEF TypeInv, TypeOK, Working
  <2>4. addr' \in [Sessions -> Addrs \cup {None}]
    BY <1>a, <2>2 DEF TypeInv, TypeOK
  <2>5. \A t \in Sessions : eps[t] <= events'
    BY <1>a, <2>1 DEF TypeInv, TypeOK
  <2> QED BY <2>1, <2>2, <2>3, <2>4, <2>5 DEF TypeInv, TypeOK
<1>6. ASSUME NEW s \in Sessions, Install(s) PROVE TypeInv'
  BY <1>a, <1>6 DEF Install, Evicted, Goto, Working, TypeInv, TypeOK, addressVars, pushVars
<1>7. ASSUME NEW s \in Sessions, Snapshot(s) PROVE TypeInv'
  <2>1. letter[s] = None
    BY <1>7, NoLetterToSend DEF Snapshot, TypeInv
  <2>2. Targets(s) \in SUBSET Sessions
    BY DEF Targets, Present, TypeInv, TypeOK
  <2> QED BY <1>7, <2>1, <2>2 DEF Snapshot, Goto, Working, TypeInv, TypeOK, addressVars
<1>8. ASSUME NEW s \in Sessions, (\E x \in Sessions : Compute(s, x)) \/ Send(s)
      PROVE  TypeInv'
  BY <1>8, PushTypes DEF Compute, Send
<1>9. ASSUME NEW s \in Sessions, PushDone(s) PROVE TypeInv'
  BY <1>9 DEF PushDone, Goto, Working, TypeInv, TypeOK, addressVars, pushVars
<1>10. ASSUME NEW s \in Sessions, Endpoints(s) PROVE TypeInv'
  BY <1>a, <1>10 DEF Endpoints, Event, Goto, Working, TypeInv, TypeOK, addressVars, pushVars
<1>11. ASSUME NEW s \in Sessions, Die(s) PROVE TypeInv'
  BY <1>a, <1>11 DEF Die, Event, TypeInv, TypeOK, addressVars, pushVars
<1>12. ASSUME NEW s \in Sessions, RecvFails(s) PROVE TypeInv'
  BY <1>a, <1>12 DEF RecvFails, Removed, Goto, Working, TypeInv, TypeOK, addressVars, pushVars
<1>13. CASE Crash
  BY <1>a, <1>13 DEF Crash, Survivors, Event, TypeInv, TypeOK
<1>14. CASE UNCHANGED vars
  BY <1>14 DEF TypeInv, TypeOK, vars
<1> QED
  BY <1>1, <1>2, <1>3, <1>4, <1>5, <1>6, <1>7, <1>8, <1>9, <1>10, <1>11, <1>12,
     <1>13, <1>14 DEF Next, Handler

(* The types of the coordinator's state.                                     *)
THEOREM TypeCorrect == Spec => []TypeOK
<1>1. TypeInv => TypeOK
  BY DEF TypeInv
<1> QED BY <1>1, InitTypes, NextTypes, PTL DEF Spec

-----------------------------------------------------------------------------
(* The registry.  A session that is being served was installed, and whoever     *)
(* was registered under its key then was closed.                             *)
RegInv == RecordIsWatched /\ ServingIsRegistered

LEMMA NextReg == TypeInv /\ RegInv /\ [Next]_vars => RegInv'
<1> SUFFICES ASSUME TypeInv, RegInv, [Next]_vars PROVE RegInv'
  OBVIOUS
<1> USE DEF RegInv, RecordIsWatched, ServingIsRegistered, Registered
<1>a. None \notin Sessions /\ KeyOf \in [Sessions -> Keys]
  BY CoordinatorAssumption
<1>b. /\ pc \in [Sessions -> {"new", "gone"} \cup Working]
      /\ chan \in [Sessions -> {"open", "dead"}]
      /\ nodes \in [Keys -> Sessions \cup {None}]
  BY DEF TypeInv, TypeOK
(* Most steps move one thread among the phases in which it is watched, or among *)
(* those in which it has no record yet.                                      *)
<1>c. ASSUME NEW s \in Sessions, NEW where, pc' = [pc EXCEPT ![s] = where],
             pc[s] \in Up <=> where \in Up, UNCHANGED <<chan, nodes>>
      PROVE  RegInv'
  <2>1. \A t \in Sessions : pc'[t] \in Up <=> pc[t] \in Up
    BY <1>b, <1>c
  <2> QED BY <1>a, <1>b, <1>c, <2>1
<1>1. ASSUME NEW s \in Sessions,
             \/ Admit(s) \/ KnownAddress(s) \/ NewAddress(s) \/ Save(s)
             \/ Snapshot(s) \/ Endpoints(s)
      PROVE  RegInv'
  <2>1. PICK where : pc' = [pc EXCEPT ![s] = where] /\ (pc[s] \in Up <=> where \in Up)
    BY <1>1 DEF Admit, KnownAddress, NewAddress, Save, Snapshot, Endpoints, Goto, Up
  <2>2. UNCHANGED <<chan, nodes>>
    BY <1>1 DEF Admit, KnownAddress, NewAddress, Save, Snapshot, Endpoints
  <2> QED BY <1>c, <2>1, <2>2
<1>2. ASSUME NEW s \in Sessions, TurnAway(s) \/ Malformed(s) PROVE RegInv'
  BY <1>a, <1>b, <1>2 DEF TurnAway, Malformed, Goto, Up
<1>3. ASSUME NEW s \in Sessions, Install(s) PROVE RegInv'
  <2>1. /\ pc' = [pc EXCEPT ![s] = "snap"] /\ pc[s] = "install"
        /\ nodes' = [nodes EXCEPT ![KeyOf[s]] = s]
        /\ \A t \in Sessions : chan'[t] = IF t = nodes[KeyOf[s]] THEN "dead" ELSE chan[t]
    BY <1>3 DEF Install, Goto, Evicted
  <2>2. RecordIsWatched'
    BY <1>a, <1>b, <2>1 DEF Up
  <2>3. ASSUME NEW t \in Sessions, pc'[t] \in Up, chan'[t] = "open"
        PROVE  nodes'[KeyOf[t]] = t
    <3>1. CASE t = s
      BY <1>a, <1>b, <2>1, <3>1
    <3>2. CASE t # s
      <4>1. pc[t] \in Up /\ chan[t] = "open" /\ t # nodes[KeyOf[s]]
        BY <1>b, <2>1, <2>3, <3>2
      <4> QED BY <1>a, <1>b, <2>1, <3>2, <4>1
    <3> QED BY <3>1, <3>2
  <2> QED BY <2>2, <2>3
<1>4. ASSUME NEW s \in Sessions, (\E x \in Sessions : Compute(s, x)) \/ Send(s)
      PROVE  RegInv'
  BY <1>4 DEF Compute, Send, handlerVars
<1>5. ASSUME NEW s \in Sessions, PushDone(s) PROVE RegInv'
  <2>1. CASE pc[s] = "push" /\ Goto(s, "serve") /\ UNCHANGED chan
    <3>1. UNCHANGED <<chan, nodes>> /\ pc' = [pc EXCEPT ![s] = "serve"]
      BY <1>5, <2>1 DEF PushDone, Goto
    <3> QED BY <1>c, <2>1, <3>1 DEF Up
  <2>2. CASE pc[s] = "pushDown" /\ Goto(s, "gone") /\ chan' = [chan EXCEPT ![s] = "dead"]
    BY <1>a, <1>b, <1>5, <2>2 DEF PushDone, Goto, Up
  <2> QED BY <1>5, <2>1, <2>2 DEF PushDone
<1>6. ASSUME NEW s \in Sessions, Die(s) PROVE RegInv'
  BY <1>a, <1>b, <1>6 DEF Die
<1>7. ASSUME NEW s \in Sessions, RecvFails(s) PROVE RegInv'
  <2>1. /\ pc' = [pc EXCEPT ![s] = "snapDown"] /\ chan' = chan /\ chan[s] = "dead"
        /\ nodes' = IF nodes[KeyOf[s]] = s THEN [nodes EXCEPT ![KeyOf[s]] = None] ELSE nodes
    BY <1>7 DEF RecvFails, Goto, Removed
  <2> QED BY <1>a, <1>b, <2>1 DEF Up
<1>8. CASE Crash
  BY <1>a, <1>b, <1>8 DEF Crash, Up
<1>9. CASE UNCHANGED vars
  BY <1>9 DEF vars
<1> QED
  BY <1>1, <1>2, <1>3, <1>4, <1>5, <1>6, <1>7, <1>8, <1>9 DEF Next, Handler

LEMMA RegistryHolds == Spec => [](TypeInv /\ RegInv)
<1>1. Init => RegInv
  BY CoordinatorAssumption
     DEF Init, RegInv, RecordIsWatched, ServingIsRegistered, Up
<1> QED BY <1>1, InitTypes, NextTypes, NextReg, PTL DEF Spec

(* A registered record has a thread that will remove it.                       *)
THEOREM RecordsAreWatched == Spec => []RecordIsWatched
<1>1. RegInv => RecordIsWatched
  BY DEF RegInv
<1> QED BY <1>1, RegistryHolds, PTL

(* No cleanup of an older session removes the record of a working one.          *)
THEOREM ServedAreRegistered == Spec => []ServingIsRegistered
<1>1. RegInv => ServingIsRegistered
  BY DEF RegInv
<1> QED BY <1>1, RegistryHolds, PTL

-----------------------------------------------------------------------------
(* Introductions.  While both are being served, session s has been told of x,   *)
(* or one of the two is in _push_all() and will still tell it: the one that      *)
(* registered later took its snapshot when both were registered.              *)
WillTell(p, s, x) ==
  \/ pc[p] = "snap"
  \/ /\ pc[p] = "push" /\ s \in todo[p]
     /\ letter[p] # None /\ letter[p].to = s => \E e \in letter[p].map : e[1] = x

Introduced ==
  \A s, x \in Sessions :
    s # x /\ pc[s] \in Up /\ pc[x] \in Up /\ chan[s] = "open" /\ chan[x] = "open"
      => x \in told[s] \/ WillTell(s, s, x) \/ WillTell(x, s, x)

(* What Introduced says of two sessions goes on to hold when the thread of       *)
(* neither moves and nothing it says they were told is taken back.             *)
LEMMA OthersMove ==
  ASSUME TypeInv, Introduced, NEW r \in Sessions,
         \A t \in Sessions : t # r => /\ pc'[t] = pc[t] /\ todo'[t] = todo[t]
                                      /\ letter'[t] = letter[t],
         \A t \in Sessions : chan'[t] = "open" => chan[t] = "open",
         \A t \in Sessions : told[t] \subseteq told'[t],
         \A s, x \in Sessions :
            /\ s # x /\ r \in {s, x}
            /\ pc'[s] \in Up /\ pc'[x] \in Up /\ chan'[s] = "open" /\ chan'[x] = "open"
            => \/ x \in told'[s] \/ WillTell(r, s, x)'
               \/ /\ pc[r] \in Up
                  /\ WillTell(r, s, x) => x \in told'[s] \/ WillTell(r, s, x)'
  PROVE  Introduced'
<1> SUFFICES ASSUME NEW s \in Sessions, NEW x \in Sessions, s # x,
                    pc'[s] \in Up, pc'[x] \in Up, chan'[s] = "open", chan'[x] = "open"
             PROVE  x \in told'[s] \/ WillTell(s, s, x)' \/ WillTell(x, s, x)'
  BY DEF Introduced
<1>1. \A p \in {s, x} \ {r} : WillTell(p, s, x) => WillTell(p, s, x)'
  BY DEF WillTell
<1>2. CASE r \notin {s, x}
  <2>1. x \in told[s] \/ WillTell(s, s, x) \/ WillTell(x, s, x)
    BY <1>2 DEF Introduced
  <2> QED BY <1>1, <1>2, <2>1
<1>3. CASE r \in {s, x}
  <2>1. CASE x \in told'[s] \/ WillTell(r, s, x)'
    BY <1>3, <2>1
  <2>2. CASE /\ pc[r] \in Up
             /\ WillTell(r, s, x) => x \in told'[s] \/ WillTell(r, s, x)'
    <3>1. x \in told[s] \/ WillTell(s, s, x) \/ WillTell(x, s, x)
      BY <1>3, <2>2 DEF Introduced
    <3> QED BY <1>1, <1>3, <2>2, <3>1
  <2> QED BY <1>3, <2>1, <2>2
<1> QED BY <1>2, <1>3

LEMMA MapsNameEveryone ==
  ASSUME TypeInv, RegInv, NEW s \in Sessions, NEW x \in Sessions, s # x,
         pc[s] \in Up, pc[x] \in Up, chan[s] = "open", chan[x] = "open"
  PROVE  s \in Present /\ <<x, eps[x]>> \in MapFor(s)
<1>1. KeyOf \in [Sessions -> Keys] /\ None \notin Sessions
  BY CoordinatorAssumption
<1>2. nodes[KeyOf[s]] = s /\ nodes[KeyOf[x]] = x
  BY DEF RegInv, ServingIsRegistered, Registered
<1>3. s \in Present /\ x \in Present /\ KeyOf[x] # KeyOf[s]
  BY <1>1, <1>2 DEF Present
<1> QED BY <1>3 DEF MapFor

LEMMA NextIntroduced ==
  TypeInv /\ RegInv /\ Introduced /\ [Next]_vars => Introduced'
<1> SUFFICES ASSUME TypeInv, RegInv, Introduced, [Next]_vars PROVE Introduced'
  OBVIOUS
<1>b. /\ pc \in [Sessions -> {"new", "gone"} \cup Working]
      /\ chan \in [Sessions -> {"open", "dead"}]
      /\ todo \in [Sessions -> SUBSET Sessions]
      /\ told \in [Sessions -> SUBSET Sessions]
      /\ DOMAIN letter = Sessions
  BY DEF TypeInv, TypeOK
(* Before its record exists, and after its channel has died, a thread owes        *)
(* nobody an introduction.                                                   *)
<1>1. ASSUME NEW r \in Sessions,
             \/ Admit(r) \/ TurnAway(r) \/ KnownAddress(r) \/ NewAddress(r) \/ Save(r)
             \/ Malformed(r) \/ RecvFails(r)
      PROVE  Introduced'
  <2>1. /\ \A t \in Sessions : t # r => pc'[t] = pc[t]
        /\ pc'[r] \notin Up /\ UNCHANGED <<todo, letter, told>>
        /\ \A t \in Sessions : chan'[t] = "open" => chan[t] = "open"
    BY <1>b, <1>1 DEF Admit, TurnAway, KnownAddress, NewAddress, Save, Malformed, RecvFails,
                      Goto, Up, pushVars
  <2> QED BY <2>1, OthersMove
<1>2. ASSUME NEW r \in Sessions, Install(r) \/ Endpoints(r) PROVE Introduced'
  <2>1. /\ \A t \in Sessions : t # r => pc'[t] = pc[t]
        /\ pc'[r] = "snap" /\ UNCHANGED <<todo, letter, told>>
        /\ \A t \in Sessions : chan'[t] = "open" => chan[t] = "open"
    BY <1>b, <1>2 DEF Install, Endpoints, Evicted, Goto, pushVars
  <2>2. \A s, x : WillTell(r, s, x)'
    BY <2>1 DEF WillTell
  <2> QED BY <2>1, <2>2, OthersMove
<1>3. ASSUME NEW r \in Sessions, Snapshot(r) PROVE Introduced'
  <2>1. /\ \A t \in Sessions : t # r => pc'[t] = pc[t] /\ todo'[t] = todo[t]
        /\ pc[r] \in {"snap", "snapDown"}
        /\ pc'[r] = IF pc[r] = "snap" THEN "push" ELSE "pushDown"
        /\ todo'[r] = Present /\ UNCHANGED <<chan, letter, told>>
    BY <1>b, <1>3 DEF Snapshot, Goto, Targets
  <2>2. letter[r] = None
    BY <2>1, NoLetterToSend DEF TypeInv
  <2>3. ASSUME NEW s \in Sessions, NEW x \in Sessions, s # x, r \in {s, x},
               pc'[s] \in Up, pc'[x] \in Up, chan'[s] = "open", chan'[x] = "open"
        PROVE  WillTell(r, s, x)'
    <3>1. pc'[r] = "push" /\ pc[r] = "snap"
      BY <2>1, <2>3 DEF Up
    <3>2. pc[s] \in Up /\ pc[x] \in Up
      BY <2>1, <2>3, <3>1 DEF Up
    <3>3. s \in Present
      BY <2>1, <2>3, <3>2, MapsNameEveryone
    <3> QED BY <2>1, <2>2, <3>1, <3>3 DEF WillTell
  <2> QED BY <2>1, <2>3, OthersMove
<1>4. ASSUME NEW r \in Sessions, NEW y \in Sessions, Compute(r, y) PROVE Introduced'
  <2>1. /\ UNCHANGED <<pc, chan, todo, told>>
        /\ letter'[r] = [to |-> y, map |-> MapFor(y)]
        /\ \A t \in Sessions : t # r => letter'[t] = letter[t]
    BY <1>b, <1>4 DEF Compute, handlerVars
  <2>2. ASSUME NEW s \in Sessions, NEW x \in Sessions, s # x, r \in {s, x},
               pc[s] \in Up, pc[x] \in Up, chan[s] = "open", chan[x] = "open",
               WillTell(r, s, x)
        PROVE  WillTell(r, s, x)'
    <3>1. <<x, eps[x]>> \in MapFor(s)
      BY <2>2, MapsNameEveryone
    <3>2. y = s => \E e \in letter'[r].map : e[1] = x
      BY <2>1, <3>1
    <3> QED BY <2>1, <2>2, <3>2 DEF WillTell
  <2> QED BY <2>1, <2>2, OthersMove
<1>5. ASSUME NEW r \in Sessions, Send(r) PROVE Introduced'
  <2> DEFINE to == letter[r].to
             names == {e[1] : e \in letter[r].map}
  <2>1. /\ UNCHANGED <<pc, chan>> /\ letter[r] # None
        /\ letter'[r] = None /\ to \in Sessions
        /\ \A t \in Sessions : t # r => letter'[t] = letter[t] /\ todo'[t] = todo[t]
        /\ todo'[r] = todo[r] \ {to}
    BY <1>b, <1>5 DEF Send, handlerVars, TypeInv, TypeOK
  <2>2. /\ \A t \in Sessions : told[t] \subseteq told'[t]
        /\ chan[to] = "open" => names \subseteq told'[to]
    BY <1>b, <1>5, <2>1 DEF Send
  <2>3. ASSUME NEW s \in Sessions, NEW x \in Sessions, s # x, r \in {s, x},
               chan[s] = "open", WillTell(r, s, x)
        PROVE  x \in told'[s] \/ WillTell(r, s, x)'
    <3>1. CASE pc[r] = "snap"
      BY <2>1, <3>1 DEF WillTell
    <3>2. CASE pc[r] # "snap" /\ to = s
      BY <2>1, <2>2, <2>3, <3>2 DEF WillTell
    <3>3. CASE pc[r] # "snap" /\ to # s
      BY <2>1, <2>3, <3>3 DEF WillTell
    <3> QED BY <3>1, <3>2, <3>3
  <2> HIDE DEF to, names
  <2> QED BY <2>1, <2>2, <2>3, OthersMove
<1>6. ASSUME NEW r \in Sessions, PushDone(r) PROVE Introduced'
  <2>1. /\ \A t \in Sessions : t # r => pc'[t] = pc[t]
        /\ \A t \in Sessions : chan'[t] = "open" => chan[t] = "open"
        /\ UNCHANGED <<todo, letter, told>> /\ todo[r] = {}
        /\ pc[r] = "push" \/ pc'[r] \notin Up
    BY <1>b, <1>6 DEF PushDone, Goto, Up, pushVars
  <2>2. pc[r] = "push" => pc[r] \in Up /\ \A s, x : ~WillTell(r, s, x)
    BY <2>1 DEF WillTell, Up
  <2> QED BY <2>1, <2>2, OthersMove
<1>7. ASSUME NEW r \in Sessions, Die(r) PROVE Introduced'
  <2>1. /\ UNCHANGED <<pc, todo, letter, told>> /\ chan'[r] # "open"
        /\ \A t \in Sessions : chan'[t] = "open" => chan[t] = "open"
    BY <1>b, <1>7 DEF Die, pushVars
  <2> QED BY <2>1, OthersMove
<1>8. CASE Crash
  BY <1>8 DEF Crash, Up, Introduced
<1>9. CASE UNCHANGED vars
  BY <1>9 DEF vars, Introduced, WillTell
<1> QED
  BY <1>1, <1>2, <1>3, <1>4, <1>5, <1>6, <1>7, <1>8, <1>9 DEF Next, Handler

(* Two nodes that are both being served know of each other.                    *)
THEOREM EveryoneIsIntroduced == Spec => []AllIntroduced
<1>1. Init => Introduced
  BY DEF Init, Introduced, Up
<1>2. TypeInv /\ RegInv /\ Introduced => AllIntroduced
  BY DEF Introduced, AllIntroduced, WillTell, Up
<1> QED BY <1>1, <1>2, NextIntroduced, RegistryHolds, PTL DEF Spec

-----------------------------------------------------------------------------
(* Addresses. *)

(* In memory an address belongs to one key; the state file holds a part of it.  *)
MemoryInv ==
  /\ \A k, l \in Keys : memory[k] # None /\ memory[k] = memory[l] => k = l
  /\ \A k \in Keys : disk[k] # None => memory[k] = disk[k]

(* A record carries the address of its key, from the allocator's answer on.      *)
RecordInv ==
  /\ \A s \in Sessions : pc[s] = "save" => memory[KeyOf[s]] # None
  /\ \A s \in Sessions : pc[s] = "install" \/ Registered(s)
                           => addr[s] = memory[KeyOf[s]] /\ addr[s] # None

(* The allocator lock; and while no save has failed, the state file lacks only   *)
(* the address that is being saved, and every address handed out is in it.      *)
SavedInv ==
  /\ \A s, t \in Sessions : pc[s] = "save" /\ pc[t] = "save" => s = t
  /\ ~saveFailed => /\ \A s \in Sessions : addr[s] # None => disk[KeyOf[s]] = addr[s]
                    /\ \A k \in Keys : \/ memory[k] = disk[k]
                                       \/ \E s \in Sessions : pc[s] = "save" /\ KeyOf[s] = k

AddressInv == MemoryInv /\ RecordInv /\ SavedInv

LEMMA NextAddress ==
  TypeInv /\ RegInv /\ AddressInv /\ [Next]_vars => AddressInv'
<1> SUFFICES ASSUME TypeInv, RegInv, AddressInv, [Next]_vars PROVE AddressInv'
  OBVIOUS
<1> USE DEF AddressInv
<1>a. None \notin Sessions /\ None \notin Addrs /\ KeyOf \in [Sessions -> Keys]
  BY CoordinatorAssumption, AddrsAreNumbers
<1>b. /\ pc \in [Sessions -> {"new", "gone"} \cup Working]
      /\ nodes \in [Keys -> Sessions \cup {None}]
      /\ addr \in [Sessions -> Addrs \cup {None}]
      /\ memory \in [Keys -> Addrs \cup {None}]
      /\ disk \in [Keys -> Addrs \cup {None}]
  BY DEF TypeInv, TypeOK
<1>c. \A s \in Sessions : Registered(s) => pc[s] \in Up
  BY <1>a DEF RegInv, RecordIsWatched, Registered
(* A step that leaves the addresses alone, gives up records at most, and does not  *)
(* enter the allocator.                                                      *)
<1>d. ASSUME UNCHANGED addressVars,
             \A s \in Sessions : pc'[s] \in {"save", "install"} => pc[s] \in {"save", "install"},
             \A s \in Sessions : pc'[s] = "save" <=> pc[s] = "save",
             \A s \in Sessions : Registered(s)' => Registered(s)
      PROVE  AddressInv'
  <2>1. MemoryInv'
    BY <1>d DEF MemoryInv, addressVars
  <2>2. RecordInv'
    BY <1>d DEF RecordInv, addressVars
  <2>3. SavedInv'
    BY <1>d DEF SavedInv, addressVars
  <2> QED BY <2>1, <2>2, <2>3
<1>1. ASSUME NEW s \in Sessions,
             \/ Admit(s) \/ TurnAway(s) \/ Malformed(s)
             \/ Snapshot(s) \/ PushDone(s) \/ Endpoints(s)
      PROVE  AddressInv'
  <2>1. /\ UNCHANGED addressVars /\ UNCHANGED nodes
        /\ pc[s] # "save"
        /\ \E where : pc' = [pc EXCEPT ![s] = where] /\ where \notin {"save", "install"}
    BY <1>1 DEF Admit, TurnAway, Malformed, Snapshot, PushDone, Endpoints, Goto
  <2>2. \A t \in Sessions : t # s => pc'[t] = pc[t]
    BY <1>b, <2>1
  <2>3. pc'[s] \notin {"save", "install"}
    BY <1>b, <2>1
  <2> QED BY <1>d, <2>1, <2>2, <2>3 DEF Registered
<1>2. ASSUME NEW s \in Sessions, (\E x \in Sessions : Compute(s, x)) \/ Send(s) \/ Die(s)
      PROVE  AddressInv'
  <2>1. UNCHANGED addressVars /\ UNCHANGED <<pc, nodes>>
    BY <1>2 DEF Compute, Send, Die, handlerVars
  <2> QED BY <1>d, <2>1 DEF Registered
<1>3. ASSUME NEW s \in Sessions, RecvFails(s) PROVE AddressInv'
  <2>1. /\ UNCHANGED addressVars /\ pc[s] = "serve" /\ pc' = [pc EXCEPT ![s] = "snapDown"]
        /\ \A k \in Keys : nodes'[k] = nodes[k] \/ nodes'[k] = None
    BY <1>a, <1>b, <1>3 DEF RecvFails, Removed, Goto
  <2>2. \A t \in Sessions : Registered(t)' => Registered(t)
    BY <1>a, <2>1 DEF Registered
  <2> QED BY <1>b, <1>d, <2>1, <2>2
<1>4. ASSUME NEW s \in Sessions, Install(s) PROVE AddressInv'
  <2>1. /\ UNCHANGED addressVars /\ pc[s] = "install" /\ pc' = [pc EXCEPT ![s] = "snap"]
        /\ nodes' = [nodes EXCEPT ![KeyOf[s]] = s]
    BY <1>4 DEF Install, Goto
  <2>2. MemoryInv'
    BY <2>1 DEF MemoryInv, addressVars
  <2>3. SavedInv'
    BY <1>b, <2>1 DEF SavedInv, addressVars
  <2>4. \A t \in Sessions : Registered(t)' => t = s \/ Registered(t)
    BY <1>a, <1>b, <2>1 DEF Registered
  <2>5. RecordInv'
    BY <1>a, <1>b, <2>1, <2>4 DEF RecordInv, addressVars
  <2> QED BY <2>2, <2>3, <2>5
<1>5. ASSUME NEW s \in Sessions, KnownAddress(s) PROVE AddressInv'
  <2>1. /\ \A t \in Sessions : pc[t] # "save"
        /\ memory[KeyOf[s]] # None
        /\ addr' = [addr EXCEPT ![s] = memory[KeyOf[s]]]
        /\ pc[s] = "alloc" /\ pc' = [pc EXCEPT ![s] = "install"]
        /\ UNCHANGED <<nodes, memory, disk, saveFailed>>
    BY <1>5 DEF KnownAddress, AllocatorFree, Goto
  <2>2. MemoryInv'
    BY <2>1 DEF MemoryInv
  <2>3. RecordInv'
    BY <1>a, <1>b, <1>c, <2>1 DEF RecordInv, Registered, Up
  <2>4. SavedInv'
    BY <1>a, <1>b, <2>1 DEF SavedInv
  <2> QED BY <2>2, <2>3, <2>4
<1>6. ASSUME NEW s \in Sessions, NewAddress(s) PROVE AddressInv'
  <2>1. PICK a \in Addrs \ Used : memory' = [memory EXCEPT ![KeyOf[s]] = a]
    BY <1>6 DEF NewAddress
  <2>2. /\ \A t \in Sessions : pc[t] # "save"
        /\ memory[KeyOf[s]] = None /\ a # None /\ \A k \in Keys : memory[k] # a
        /\ pc[s] = "alloc" /\ pc' = [pc EXCEPT ![s] = "save"]
        /\ UNCHANGED <<nodes, addr, disk, saveFailed>>
    BY <1>a, <1>6, <2>1 DEF NewAddress, AllocatorFree, Goto, Used
  <2>3. MemoryInv'
    BY <1>a, <1>b, <2>1, <2>2 DEF MemoryInv
  <2>4. RecordInv'
    BY <1>a, <1>b, <2>1, <2>2 DEF RecordInv, Registered
  <2>5. SavedInv'
    BY <1>a, <1>b, <2>1, <2>2 DEF SavedInv
  <2> QED BY <2>3, <2>4, <2>5
<1>7. ASSUME NEW s \in Sessions, Save(s) PROVE AddressInv'
  <2>1. /\ pc[s] = "save" /\ pc' = [pc EXCEPT ![s] = "install"]
        /\ addr' = [addr EXCEPT ![s] = memory[KeyOf[s]]]
        /\ UNCHANGED <<nodes, memory>>
        /\ \/ disk' = memory /\ saveFailed' = saveFailed
           \/ saveFailed' /\ disk' = disk
    BY <1>7 DEF Save, Event, Goto
  <2>2. MemoryInv'
    BY <2>1 DEF MemoryInv
  <2>3. RecordInv'
    BY <1>a, <1>b, <1>c, <2>1 DEF RecordInv, Registered, Up
  <2>4. \A t, u \in Sessions : pc'[t] = "save" /\ pc'[u] = "save" => t = u
    BY <1>b, <2>1 DEF SavedInv
  <2>5. CASE disk' = memory /\ saveFailed' = saveFailed
    <3>1. \A t \in Sessions : addr[t] # None /\ ~saveFailed => memory[KeyOf[t]] = addr[t]
      BY <1>a, <2>1 DEF MemoryInv, SavedInv
    <3>2. SavedInv'
      BY <1>a, <1>b, <2>1, <2>4, <2>5, <3>1 DEF SavedInv
    <3> QED BY <2>2, <2>3, <3>2
  <2>6. CASE saveFailed' /\ disk' = disk
    BY <2>2, <2>3, <2>4, <2>6 DEF SavedInv
  <2> QED BY <2>1, <2>5, <2>6
<1>8. CASE Crash
  <2>1. /\ memory' = disk /\ disk' = disk
        /\ \A s \in Sessions : pc'[s] \in {"new", "gone"}
        /\ \A k \in Keys : nodes'[k] = None
        /\ UNCHANGED <<addr, saveFailed>>
    BY <1>8 DEF Crash, Survivors
  <2>2. MemoryInv'
    BY <2>1 DEF MemoryInv
  <2>3. RecordInv'
    BY <1>a, <2>1 DEF RecordInv, Registered
  <2>4. SavedInv'
    BY <2>1 DEF SavedInv
  <2> QED BY <2>2, <2>3, <2>4
<1>9. CASE UNCHANGED vars
  BY <1>9, <1>d DEF vars, addressVars, Registered
<1> QED
  BY <1>1, <1>2, <1>3, <1>4, <1>5, <1>6, <1>7, <1>8, <1>9 DEF Next, Handler

LEMMA AddressesHold == Spec => [](TypeInv /\ RegInv /\ AddressInv)
<1>1. Init => AddressInv
  <2> SUFFICES ASSUME Init PROVE AddressInv
    OBVIOUS
  <2>1. \A s \in Sessions : KeyOf[s] \in Keys /\ s # None
    BY CoordinatorAssumption
  <2>2. MemoryInv
    BY DEF Init, MemoryInv
  <2>3. RecordInv
    BY <2>1 DEF Init, RecordInv, Registered
  <2>4. SavedInv
    BY <2>1 DEF Init, SavedInv
  <2> QED BY <2>2, <2>3, <2>4 DEF AddressInv
<1> QED BY <1>1, NextAddress, RegistryHolds, PTL DEF Spec

(* Registered nodes have different overlay addresses, whether or not the state    *)
(* file can be written.                                                      *)
THEOREM AddressesAreDifferent == Spec => []AddressesDiffer
<1>1. TypeInv /\ RegInv /\ AddressInv => AddressesDiffer
  <2> SUFFICES ASSUME TypeInv, RegInv, AddressInv, NEW k \in Keys, NEW l \in Keys, k # l,
                      nodes[k] # None, nodes[l] # None
               PROVE  addr[nodes[k]] # addr[nodes[l]]
    BY DEF AddressesDiffer
  <2>1. /\ KeyOf[nodes[k]] = k /\ KeyOf[nodes[l]] = l
    BY DEF RegInv, RecordIsWatched
  <2>2. nodes[k] \in Sessions /\ nodes[l] \in Sessions
    BY DEF TypeInv, TypeOK
  <2> QED BY <2>1, <2>2 DEF AddressInv, MemoryInv, RecordInv, Registered
<1> QED BY <1>1, AddressesHold, PTL

(* An address once handed out identifies its key over all restarts, until a save  *)
(* fails.                                                                    *)
THEOREM AddressesAreStable == Spec => []AddressIdentifiesKey
<1>1. AddressInv => AddressIdentifiesKey
  <2> SUFFICES ASSUME AddressInv, ~saveFailed, NEW s \in Sessions, NEW t \in Sessions,
                      addr[s] # None, addr[t] # None
               PROVE  addr[s] = addr[t] <=> KeyOf[s] = KeyOf[t]
    BY DEF AddressIdentifiesKey
  <2>1. KeyOf[s] \in Keys /\ KeyOf[t] \in Keys
    BY CoordinatorAssumption
  <2>2. addr[s] = disk[KeyOf[s]] /\ addr[t] = disk[KeyOf[t]]
    BY DEF AddressInv, SavedInv
  <2>3. addr[s] = memory[KeyOf[s]] /\ addr[t] = memory[KeyOf[t]]
    BY <2>1, <2>2 DEF AddressInv, MemoryInv
  <2> QED BY <2>1, <2>3 DEF AddressInv, MemoryInv
<1> QED BY <1>1, AddressesHold, PTL
=============================================================================
