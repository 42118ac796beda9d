--------------------------- MODULE PrefixChannel ---------------------------
(***************************************************************************)
(* What a secure channel promises, one direction of it: the receiver gets   *)
(* the frames in the order in which they entered the channel, each once,     *)
(* none left out and none altered, up to some point, and nothing after it.   *)
(***************************************************************************)
EXTENDS Sequences, Naturals

CONSTANT Frames
VARIABLES sent,        \* the frames that have entered the channel
          delivered    \* the frames that came out

Init == sent = <<>> /\ delivered = <<>>

Enter == \E f \in Frames : sent' = Append(sent, f) /\ UNCHANGED delivered

Arrive ==
  /\ Len(delivered) < Len(sent)
  /\ delivered' = Append(delivered, sent[Len(delivered) + 1])
  /\ UNCHANGED sent

Spec == Init /\ [][Enter \/ Arrive]_<<sent, delivered>>
=============================================================================
