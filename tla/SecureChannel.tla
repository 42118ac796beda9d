--------------------------- MODULE SecureChannel ---------------------------
(***************************************************************************)
(* SecureChannel of remote_desktop.py, one direction: the threads of one     *)
(* side that send, the single consumer on the other side, and the byte        *)
(* stream between them.                                                     *)
(*                                                                          *)
(* A frame is [4B length][32B MAC][ciphertext]; the model cuts it in two      *)
(* halves, which is what a time-out or a failed send can leave behind.  The   *)
(* MAC covers the sequence number, so a frame is accepted only when both      *)
(* halves belong to the number the receiver expects.  No caller sends an      *)
(* empty frame, so the cipher counters go with the sequence numbers.          *)
(***************************************************************************)
EXTENDS Integers, Sequences, FiniteSets

CONSTANTS Threads,    \* threads of the sending side
          Pressers,   \* those that use send_multi(): a move and a button
          Careless,   \* those that go on after a failed send
          None,
          Capacity,   \* halves the socket buffers hold
          MaxRate,    \* _MAX_FPS, 5000 in the code
          Second,     \* ticks of the clock in a second
          MaxFrames,  \* bound: frames that are begun
          MaxTime     \* bound: the clock

ASSUME SecureChannelAssumption ==
  /\ Pressers \subseteq Threads /\ Careless \subseteq Threads \ Pressers
  /\ None \notin Threads
  /\ Capacity \in Nat \ {0} /\ MaxRate \in Nat \ {0} /\ Second \in Nat \ {0}
  /\ MaxFrames \in Nat /\ MaxTime \in Nat

VARIABLES sent,       \* the frames, in the order their senders took _wlock
          holder,     \* the thread that holds _wlock
          half,       \* the half of the last frame it sends next
          failed,     \* the threads whose send() has raised and that close next
          torn,       \* the frames whose send() raised
          whole,      \* the frames whose send() went through
          pipe,       \* halves in the byte stream
          senderUp,   \* the sending side has not closed
          patient,    \* the receiver's caller goes on after a time-out
          phase,      \* of the receiver: "call", "read" or "ended"
          got,        \* halves of the frame being read
          outOfStep,  \* a time-out has dropped half of a frame
          rseq,       \* self._rseq
          delivered,  \* the frames recv() has returned
          now, count, start,    \* the clock; _RateLimiter's _count and _start
          calls       \* when recv() was let through

sendVars == <<sent, holder, half, failed, torn, whole>>
recvVars == <<phase, got, outOfStep, rseq, delivered>>
rateVars == <<count, start, calls>>
vars == <<sendVars, pipe, senderUp, patient, recvVars, now, rateVars>>

Kinds  == {"only", "move", "button"}
Frames == [by : Threads, kind : Kinds]
Halves == [n : Nat, half : {"head", "body"}]

Receiving == phase # "ended"

TypeOK ==
  /\ sent \in Seq(Frames)
  /\ holder \in Threads \cup {None}
  /\ half \in {"head", "body"}
  /\ failed \in SUBSET Threads
  /\ torn \in SUBSET (1 .. Len(sent)) /\ whole \in SUBSET (1 .. Len(sent))
  /\ pipe \in Seq(Halves)
  /\ senderUp \in BOOLEAN /\ patient \in BOOLEAN
  /\ phase \in {"call", "read", "ended"}
  /\ got \in Seq(Halves) /\ Len(got) <= 1
  /\ outOfStep \in BOOLEAN
  /\ rseq \in Nat
  /\ delivered \in Seq(Frames)
  /\ now \in Nat /\ start \in 0 .. now /\ count \in Nat
  /\ Receiving => count <= MaxRate
  /\ calls \in Seq(Nat)

Init ==
  /\ sent = <<>> /\ holder = None /\ half = "head"
  /\ failed = {} /\ torn = {} /\ whole = {}
  /\ pipe = <<>>
  /\ senderUp = TRUE
  /\ patient \in BOOLEAN          \* host and gateway are; viewer, pipe and socks are not
  /\ phase = "call" /\ got = <<>> /\ outOfStep = FALSE /\ rseq = 0 /\ delivered = <<>>
  /\ now = 0 /\ count = 0 /\ start = 0 /\ calls = <<>>

-----------------------------------------------------------------------------
(* send() and send_multi(). *)

(* What thread t sends next: send_multi() has a move and then a button.        *)
Own(t) == {i \in DOMAIN sent : sent[i].by = t}
NextKind(t) ==
  IF t \notin Pressers THEN "only" ELSE IF Cardinality(Own(t)) % 2 = 0 THEN "move" ELSE "button"
NextFrame(t) == [by |-> t, kind |-> NextKind(t)]

(* The thread takes the lock; the frame gets the next sequence number.         *)
Begin(t) ==
  /\ senderUp /\ holder = None /\ t \notin failed
  /\ Len(sent) + (IF t \in Pressers THEN 2 ELSE 1) <= MaxFrames
  /\ holder' = t
  /\ half' = "head"
  /\ sent' = Append(sent, NextFrame(t))
  /\ UNCHANGED <<failed, torn, whole, pipe, senderUp, patient, recvVars, now, rateVars>>

Push == /\ senderUp /\ Receiving /\ Len(pipe) < Capacity
        /\ pipe' = Append(pipe, [n |-> Len(sent), half |-> half])

SendHead ==
  /\ holder # None /\ half = "head"
  /\ Push
  /\ half' = "body"
  /\ UNCHANGED <<sent, holder, failed, torn, whole, senderUp, patient, recvVars, now, rateVars>>

(* send_multi() goes on with its second frame under the same lock.             *)
NeverGoesOn(t) == FALSE                        \* slip: the lock is released in between
GoesOn(t) == NextKind(t) = "button"

SendBody ==
  /\ holder # None /\ half = "body"
  /\ Push
  /\ whole' = whole \cup {Len(sent)}
  /\ half' = "head"
  /\ IF GoesOn(holder)
     THEN sent' = Append(sent, NextFrame(holder)) /\ UNCHANGED holder
     ELSE holder' = None /\ UNCHANGED sent
  /\ UNCHANGED <<failed, torn, senderUp, patient, recvVars, now, rateVars>>

(* sock.send() raises: nothing could be sent for _IDLE_TIMEOUT, or the          *)
(* connection is gone.  The sequence number is spent.                          *)
SendFails ==
  /\ holder # None
  /\ Len(pipe) = Capacity \/ ~senderUp \/ ~Receiving
  /\ torn' = torn \cup {Len(sent)}
  /\ failed' = IF holder \in Careless THEN failed ELSE failed \cup {holder}
  /\ holder' = None
  /\ UNCHANGED <<sent, half, whole, pipe, senderUp, patient, recvVars, now, rateVars>>

(* The side closes: after a failed send, or because the session is over.        *)
SenderCloses ==
  /\ senderUp
  /\ senderUp' = FALSE
  /\ failed' = {}
  /\ UNCHANGED <<sent, holder, half, torn, whole, pipe, patient, recvVars, now, rateVars>>

-----------------------------------------------------------------------------
(* recv() and its caller. *)

(* _RateLimiter.check(), the first thing recv() does.                          *)
AlwaysOver == TRUE                             \* slip
WindowOver == now - start >= Second
CountNow   == (IF WindowOver THEN 0 ELSE count) + 1
OverLimit  == CountNow > MaxRate

Call ==
  /\ phase = "call"
  /\ start' = IF WindowOver THEN now ELSE start
  /\ count' = CountNow
  /\ IF OverLimit
     THEN phase' = "ended" /\ UNCHANGED calls
     ELSE phase' = "read" /\ calls' = Append(calls, now)
  /\ UNCHANGED <<sendVars, pipe, senderUp, patient, got, outOfStep, rseq, delivered, now>>

Expected == rseq + 1
AnyNumber(a, b) == a.half = "head" /\ b.half = "body" /\ a.n = b.n      \* slip: no number in the MAC
Authentic(a, b) == a = [n |-> Expected, half |-> "head"] /\ b = [n |-> Expected, half |-> "body"]

GoesOnReading == "call"                        \* slip: the error is swallowed
AfterMacError == "ended"

Take ==
  /\ phase = "read" /\ pipe # <<>>
  /\ pipe' = Tail(pipe)

TakeFirst ==
  /\ Take /\ got = <<>>
  /\ got' = <<Head(pipe)>>
  /\ UNCHANGED <<sendVars, senderUp, patient, phase, outOfStep, rseq, delivered, now, rateVars>>

TakeFrame ==
  /\ Take /\ got # <<>>
  /\ got' = <<>>
  /\ IF Authentic(got[1], Head(pipe))
     THEN /\ rseq' = Expected
          /\ delivered' = Append(delivered, sent[Head(pipe).n])
          /\ phase' = "call"
     ELSE phase' = AfterMacError /\ UNCHANGED <<rseq, delivered>>
  /\ UNCHANGED <<sendVars, senderUp, patient, outOfStep, now, rateVars>>

(* What is read in the place of the length is larger than _MAX_FRAME.           *)
TooLarge ==
  /\ Take /\ got = <<>>
  /\ Head(pipe).half = "body"
  /\ got' = <<>> /\ phase' = "ended"
  /\ UNCHANGED <<sendVars, senderUp, patient, outOfStep, rseq, delivered, now, rateVars>>

(* Nothing arrived for _IDLE_TIMEOUT: what was read of the frame is dropped.    *)
TimesOut ==
  /\ phase = "read" /\ pipe = <<>> /\ senderUp
  /\ got' = <<>>
  /\ outOfStep' = (outOfStep \/ got # <<>>)
  /\ phase' = IF patient THEN "call" ELSE "ended"
  /\ UNCHANGED <<sendVars, pipe, senderUp, patient, rseq, delivered, now, rateVars>>

(* End of file, or this side ends the session for reasons of its own.           *)
EndOfFile ==
  /\ phase = "read" /\ pipe = <<>> /\ ~senderUp
  /\ phase' = "ended"
  /\ UNCHANGED <<sendVars, pipe, senderUp, patient, got, outOfStep, rseq, delivered, now, rateVars>>

ReceiverCloses ==
  /\ Receiving
  /\ phase' = "ended"
  /\ UNCHANGED <<sendVars, pipe, senderUp, patient, got, outOfStep, rseq, delivered, now, rateVars>>

Tick ==
  /\ now < MaxTime
  /\ now' = now + 1
  /\ UNCHANGED <<sendVars, pipe, senderUp, patient, recvVars, rateVars>>

-----------------------------------------------------------------------------
SenderStep   == SendHead \/ SendBody \/ SendFails
ReceiverStep == Call \/ TakeFirst \/ TakeFrame \/ TooLarge \/ EndOfFile

Next ==
  \/ \E t \in Threads : Begin(t)
  \/ SenderStep \/ SenderCloses
  \/ ReceiverStep \/ TimesOut \/ ReceiverCloses \/ Tick

Spec == Init /\ [][Next]_vars

(* The consumer keeps calling recv(), and a send() that has begun goes on.      *)
FairSpec == Spec /\ WF_vars(SenderStep) /\ WF_vars(ReceiverStep)

-----------------------------------------------------------------------------
(* Properties. *)

(* What the channel promises (PrefixChannel): the frames in order, each once.   *)
Promise == INSTANCE PrefixChannel
PromiseSpec == Promise!Spec

(* A button reaches the host right behind the move that was sent with it, with  *)
(* nothing of another thread in between.                                      *)
PressFollowsItsMove ==
  \A i \in DOMAIN delivered :
    delivered[i].kind = "button" =>
      i > 1 /\ delivered[i - 1] = [by |-> delivered[i].by, kind |-> "move"]

(* After a send() that failed, by a thread that ignores it too, no frame is     *)
(* delivered any more: not the torn one and none behind it.                    *)
NothingAfterFailure == \A n \in torn : Len(delivered) < n

(* Within less than a second at most twice _MAX_FPS calls of recv() get by.      *)
RateBounded ==
  \A i \in DOMAIN calls :
    i + 2 * MaxRate \in DOMAIN calls => calls[i + 2 * MaxRate] - calls[i] >= Second

(* A frame whose send() went through does not vanish in silence: it is          *)
(* delivered or the session ends.  The exception is a patient caller that a      *)
(* time-out has put out of step: it waits for the bytes that give it away.       *)
SentArrives ==
  \A n \in 1 .. MaxFrames :
    n \in whole ~> n <= Len(delivered) \/ ~Receiving \/ outOfStep
=============================================================================
