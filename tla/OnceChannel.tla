---------------------------- MODULE OnceChannel -----------------------------
(***************************************************************************)
(* The channel a mesh session promises its node: packets are sent, each is  *)
(* received at most once, in any order, and may be lost for good.           *)
(***************************************************************************)
EXTENDS Naturals

CONSTANT Packets

VARIABLES sent,     \* packets sent so far
          received  \* received[p]: how often packet p was received

Init ==
  /\ sent = {}
  /\ received = [p \in Packets |-> 0]

Send(p) ==
  /\ p \in Packets \ sent
  /\ sent' = sent \cup {p}
  /\ UNCHANGED received

Receive(p) ==
  /\ p \in sent
  /\ received[p] = 0
  /\ received' = [received EXCEPT ![p] = 1]
  /\ UNCHANGED sent

Next == \E p \in Packets : Send(p) \/ Receive(p)

Spec == Init /\ [][Next]_<<sent, received>>

=============================================================================
