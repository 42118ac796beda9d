------------------------ MODULE SecureChannelProofs ------------------------
(***************************************************************************)
(* Theorems about SecureChannel, for any threads, any room in the buffers    *)
(* and any moment at which a send fails or a read times out.                 *)
(***************************************************************************)
EXTENDS SecureChannel, FiniteSetTheorems, TLAPS

-----------------------------------------------------------------------------
(* The types of what the theorems speak of.  The limiter's variables have no   *)
(* part in the argument.                                                     *)
Types ==
  /\ sent \in Seq(Frames)
  /\ holder \in Threads \cup {None}
  /\ half \in {"head", "body"}
  /\ torn \in SUBSET (1 .. Len(sent))
  /\ pipe \in Seq(Halves)
  /\ got \in Seq(Halves) /\ Len(got) <= 1
  /\ rseq \in Nat
  /\ delivered \in Seq(Frames)

(* What recv() has returned is the beginning of what was sent.                *)
Prefix ==
  /\ rseq = Len(delivered)
  /\ Len(delivered) <= Len(sent)
  /\ \A i \in 1 .. Len(delivered) : delivered[i] = sent[i]

(* A body that could still complete frame n is under way.                     *)
BodyOf(n) ==
  \/ \E i \in 1 .. Len(pipe) : pipe[i] = [n |-> n, half |-> "body"]
  \/ \E i \in 1 .. Len(got) : got[i] = [n |-> n, half |-> "body"]

(* Halves under way belong to frames that were begun.                        *)
HalvesOfSent ==
  /\ \A i \in 1 .. Len(pipe) : pipe[i].n \in 1 .. Len(sent)
  /\ \A i \in 1 .. Len(got) : got[i].n \in 1 .. Len(sent)

(* The frame in the hands of the thread that holds _wlock is the last one; it  *)
(* has no body yet, and has neither been given up nor delivered.               *)
LastIsOpen ==
  holder # None =>
    /\ Len(sent) > 0
    /\ Len(sent) \notin torn
    /\ ~BodyOf(Len(sent))
    /\ Len(delivered) < Len(sent)

(* A frame whose send() raised never gets a body.                             *)
TornHasNoBody == \A n \in torn : ~BodyOf(n)

(* NothingAfterFailure is not inductive by itself: that no frame behind a torn *)
(* one is delivered rests on the torn one never becoming complete.             *)
IInv ==
  /\ Types
  /\ Prefix
  /\ HalvesOfSent
  /\ LastIsOpen
  /\ TornHasNoBody
  /\ NothingAfterFailure

-----------------------------------------------------------------------------
(* The sequence operators, as far as they are needed. *)

LEMMA AppendFacts ==
  ASSUME NEW S, NEW s \in Seq(S), NEW x \in S
  PROVE  /\ Append(s, x) \in Seq(S)
         /\ Len(Append(s, x)) = Len(s) + 1
         /\ \A i \in 1 .. Len(s) : Append(s, x)[i] = s[i]
         /\ Append(s, x)[Len(s) + 1] = x
OBVIOUS

LEMMA TailFacts ==
  ASSUME NEW S, NEW s \in Seq(S), s # <<>>
  PROVE  /\ Head(s) = s[1] /\ Head(s) \in S
         /\ Tail(s) \in Seq(S)
         /\ Len(s) >= 1 /\ Len(Tail(s)) = Len(s) - 1
         /\ \A i \in 1 .. Len(s) - 1 : Tail(s)[i] = s[i + 1]
OBVIOUS

LEMMA InitIInv == Init => IInv
BY SecureChannelAssumption
   DEF Init, IInv, Types, Prefix, HalvesOfSent, LastIsOpen, TornHasNoBody,
       NothingAfterFailure, BodyOf

-----------------------------------------------------------------------------
(* The sender. *)

LEMMA BeginStep ==
  ASSUME IInv, NEW t \in Threads, Begin(t)
  PROVE  IInv'
<1> USE DEF Begin, recvVars
<1>1. NextFrame(t) \in Frames
  BY DEF NextFrame, NextKind, Frames, Kinds
<1>2. /\ sent' \in Seq(Frames) /\ Len(sent') = Len(sent) + 1 /\ Len(sent) \in Nat
      /\ \A i \in 1 .. Len(sent) : sent'[i] = sent[i]
  BY <1>1, AppendFacts DEF IInv, Types
<1>3. Types'
  BY <1>2 DEF IInv, Types
<1>4. Prefix'
  BY <1>2 DEF IInv, Types, Prefix
<1>5. HalvesOfSent'
  BY <1>2 DEF IInv, Types, HalvesOfSent
<1>6. LastIsOpen'
  BY <1>2 DEF IInv, Types, Prefix, HalvesOfSent, LastIsOpen, BodyOf
<1> QED
  BY <1>2, <1>3, <1>4, <1>5, <1>6 DEF IInv, TornHasNoBody, NothingAfterFailure, BodyOf

LEMMA SendHeadStep ==
  ASSUME IInv, SendHead
  PROVE  IInv'
<1> USE DEF SendHead, Push, recvVars
<1>1. [n |-> Len(sent), half |-> "head"] \in Halves /\ Len(sent) \in Nat
  BY DEF IInv, Types, Halves
<1>2. /\ pipe' \in Seq(Halves) /\ Len(pipe') = Len(pipe) + 1 /\ Len(pipe) \in Nat
      /\ \A i \in 1 .. Len(pipe) : pipe'[i] = pipe[i]
      /\ pipe'[Len(pipe) + 1] = [n |-> Len(sent), half |-> "head"]
  BY <1>1, AppendFacts DEF IInv, Types
<1>3. Types'
  BY <1>2 DEF IInv, Types
<1>4. HalvesOfSent'
  BY <1>1, <1>2 DEF IInv, HalvesOfSent, LastIsOpen
<1>5. \A n \in Nat : BodyOf(n)' => BodyOf(n)
  BY <1>2 DEF BodyOf
<1> QED
  BY <1>1, <1>3, <1>4, <1>5
     DEF IInv, Types, Prefix, LastIsOpen, TornHasNoBody, NothingAfterFailure

(* The lock is released, or the same thread goes on with its second frame.      *)
LEMMA SendBodyStep ==
  ASSUME IInv, SendBody
  PROVE  IInv'
<1>a. /\ holder # None /\ pipe' = Append(pipe, [n |-> Len(sent), half |-> "body"])
      /\ half' = "head"
      /\ UNCHANGED <<torn, rseq, delivered, got>>
      /\ \/ sent' = Append(sent, NextFrame(holder)) /\ holder' = holder
         \/ holder' = None /\ sent' = sent
  BY DEF SendBody, Push, recvVars
<1>0. holder \in Threads
  BY <1>a DEF IInv, Types
<1>1. [n |-> Len(sent), half |-> "body"] \in Halves /\ Len(sent) \in Nat /\ Len(sent) > 0
  BY <1>a DEF IInv, Types, Halves, LastIsOpen
<1>2. /\ pipe' \in Seq(Halves) /\ Len(pipe') = Len(pipe) + 1 /\ Len(pipe) \in Nat
      /\ \A i \in 1 .. Len(pipe) : pipe'[i] = pipe[i]
      /\ pipe'[Len(pipe) + 1] = [n |-> Len(sent), half |-> "body"]
  BY <1>a, <1>1, AppendFacts DEF IInv, Types
<1>3. NextFrame(holder) \in Frames
  BY <1>0 DEF NextFrame, NextKind, Frames, Kinds
<1>4. /\ sent' \in Seq(Frames)
      /\ \/ sent' = sent /\ holder' = None
         \/ Len(sent') = Len(sent) + 1 /\ holder' = holder
      /\ \A i \in 1 .. Len(sent) : sent'[i] = sent[i]
  <2>1. CASE holder' = None /\ sent' = sent
    BY <2>1 DEF IInv, Types
  <2>2. CASE sent' = Append(sent, NextFrame(holder)) /\ holder' = holder
    BY <1>3, <2>2, AppendFacts DEF IInv, Types
  <2> QED BY <1>a, <2>1, <2>2
<1>5. Types'
  BY <1>a, <1>1, <1>2, <1>4 DEF IInv, Types
<1>6. Prefix'
  BY <1>a, <1>1, <1>4 DEF IInv, Types, Prefix
<1>7. HalvesOfSent'
  BY <1>a, <1>1, <1>2, <1>4 DEF IInv, Types, HalvesOfSent
<1>8. \A n \in Nat : n # Len(sent) => (BodyOf(n)' => BodyOf(n))
  <2> TAKE n \in Nat
  <2>1. ASSUME n # Len(sent), NEW i \in 1 .. Len(pipe'), pipe'[i] = [n |-> n, half |-> "body"]
        PROVE  \E j \in 1 .. Len(pipe) : pipe[j] = [n |-> n, half |-> "body"]
    <3>1. i # Len(pipe) + 1
      BY <1>2, <2>1
    <3> QED BY <1>2, <2>1, <3>1
  <2> QED BY <1>a, <2>1 DEF BodyOf
<1>9. LastIsOpen'
  <2>1. CASE sent' = sent /\ holder' = None
    BY <2>1 DEF LastIsOpen
  <2>2. CASE Len(sent') = Len(sent) + 1 /\ holder' = holder
    <3>1. ~BodyOf(Len(sent) + 1)
      BY <1>1 DEF IInv, HalvesOfSent, BodyOf
    <3>2. \A n \in Nat : n = Len(sent) + 1 => ~BodyOf(n)'
      BY <1>1, <1>8, <3>1
    <3>3. ~BodyOf(Len(sent))'
      BY <1>1, <2>2, <3>2 DEF BodyOf
    <3>4. Len(sent) + 1 \notin torn
      BY <1>1 DEF IInv, Types
    <3> QED
      BY <1>a, <1>1, <2>2, <3>3, <3>4 DEF IInv, Types, Prefix, LastIsOpen
  <2> QED BY <1>4, <2>1, <2>2
<1>10. TornHasNoBody'
  BY <1>a, <1>1, <1>8 DEF IInv, Types, LastIsOpen, TornHasNoBody
<1> QED
  BY <1>a, <1>5, <1>6, <1>7, <1>9, <1>10 DEF IInv, NothingAfterFailure

LEMMA SendFailsStep ==
  ASSUME IInv, SendFails
  PROVE  IInv'
<1>1. /\ holder # None /\ holder' = None
      /\ torn' = torn \cup {Len(sent)}
      /\ UNCHANGED <<sent, half, pipe, rseq, delivered, got>>
  BY DEF SendFails, recvVars
<1>2. Len(sent) \in Nat /\ Len(sent) > 0 /\ ~BodyOf(Len(sent)) /\ Len(delivered) < Len(sent)
  BY <1>1 DEF IInv, Types, LastIsOpen
<1>3. Types'
  <2>1. torn' \in SUBSET (1 .. Len(sent'))
    <3>1. Len(sent) \in 1 .. Len(sent)
      BY <1>2
    <3>2. torn \subseteq 1 .. Len(sent)
      BY DEF IInv, Types
    <3>3. torn \cup {Len(sent)} \subseteq 1 .. Len(sent)
      BY <3>1, <3>2, Zenon
    <3> QED BY <1>1, <3>3, Zenon
  <2>2. Types /\ holder' \in Threads \cup {None}
    BY <1>1 DEF IInv
  <2>3. UNCHANGED <<sent, half, pipe, rseq, delivered, got>>
    BY <1>1
  <2> QED BY <2>1, <2>2, <2>3 DEF Types
<1>4. \A n \in Nat : BodyOf(n)' => BodyOf(n)
  BY <1>1 DEF BodyOf
<1>5. TornHasNoBody'
  <2> SUFFICES ASSUME NEW n \in torn \cup {Len(sent)}, BodyOf(n)'
               PROVE  FALSE
    BY <1>1 DEF TornHasNoBody
  <2>1. n \in Nat /\ BodyOf(n)
    BY <1>2, <1>4 DEF IInv, Types
  <2> QED BY <1>2, <2>1 DEF IInv, TornHasNoBody
<1>6. NothingAfterFailure'
  BY <1>1, <1>2 DEF IInv, NothingAfterFailure
<1> QED
  BY <1>1, <1>3, <1>5, <1>6 DEF IInv, Prefix, HalvesOfSent, LastIsOpen

-----------------------------------------------------------------------------
(* The receiver.  Its steps take halves away, and never bring one back.         *)

LEMMA HalvesLeave ==
  ASSUME IInv, UNCHANGED sendVars, Types', Prefix', HalvesOfSent',
         \A n \in Nat : BodyOf(n)' => BodyOf(n),
         NothingAfterFailure',
         holder # None => Len(delivered') < Len(sent)
  PROVE  IInv'
<1>1. Len(sent) \in Nat /\ \A n \in torn : n \in Nat
  BY DEF IInv, Types
<1>2. UNCHANGED <<sent, holder, torn>>
  BY DEF sendVars
<1>3. TornHasNoBody'
  <2> SUFFICES ASSUME NEW n \in torn, BodyOf(n)'
               PROVE  FALSE
    BY <1>2 DEF TornHasNoBody
  <2> QED BY <1>1 DEF IInv, TornHasNoBody
<1>4. ASSUME holder # None
      PROVE  ~BodyOf(Len(sent))'
  <2> SUFFICES ASSUME BodyOf(Len(sent))'
               PROVE  FALSE
    OBVIOUS
  <2>1. \A n \in Nat : n = Len(sent) => BodyOf(n)'
    BY <1>2 DEF BodyOf
  <2> QED BY <1>1, <1>4, <2>1 DEF IInv, LastIsOpen
<1>5. LastIsOpen'
  BY <1>2, <1>4 DEF IInv, LastIsOpen
<1> QED BY <1>3, <1>5 DEF IInv

(* Steps that take nothing from the stream, or drop what was read.             *)
LEMMA DropStep ==
  ASSUME IInv, UNCHANGED <<sendVars, pipe, rseq, delivered>>, got' \in {got, <<>>}
  PROVE  IInv'
<1>1. Len(got') <= Len(got) /\ got' \in Seq(Halves)
      /\ \A i \in 1 .. Len(got') : i \in 1 .. Len(got) /\ got'[i] = got[i]
  <2>1. CASE got' = got
    BY <2>1 DEF IInv, Types
  <2>2. CASE got' = <<>>
    BY <2>2 DEF IInv, Types
  <2> QED BY <2>1, <2>2
<1>2. Types'
  BY <1>1 DEF IInv, Types, sendVars
<1>3. HalvesOfSent'
  BY <1>1 DEF IInv, HalvesOfSent, sendVars
<1>4. \A n \in Nat : BodyOf(n)' => BodyOf(n)
  BY <1>1 DEF BodyOf
<1> QED
  BY <1>2, <1>3, <1>4, HalvesLeave
     DEF IInv, Prefix, LastIsOpen, NothingAfterFailure, sendVars

LEMMA TakeFirstStep ==
  ASSUME IInv, TakeFirst
  PROVE  IInv'
<1> USE DEF TakeFirst, Take
<1>1. /\ Head(pipe) = pipe[1] /\ Head(pipe) \in Halves
      /\ pipe' \in Seq(Halves) /\ Len(pipe) \in Nat
      /\ Len(pipe) >= 1 /\ Len(pipe') = Len(pipe) - 1
      /\ \A i \in 1 .. Len(pipe) - 1 : pipe'[i] = pipe[i + 1]
  BY TailFacts DEF IInv, Types
<1>2. got' \in Seq(Halves) /\ Len(got') = 1 /\ got'[1] = pipe[1]
  BY <1>1
<1>3. Types'
  BY <1>1, <1>2 DEF IInv, Types, sendVars
<1>4. HalvesOfSent'
  BY <1>1, <1>2 DEF IInv, HalvesOfSent, sendVars
<1>5. \A n \in Nat : BodyOf(n)' => BodyOf(n)
  BY <1>1, <1>2 DEF BodyOf
<1> QED
  BY <1>3, <1>4, <1>5, HalvesLeave
     DEF IInv, Prefix, LastIsOpen, NothingAfterFailure, sendVars

LEMMA TooLargeStep ==
  ASSUME IInv, TooLarge
  PROVE  IInv'
<1> USE DEF TooLarge, Take
<1>1. /\ pipe' \in Seq(Halves) /\ Len(pipe) \in Nat
      /\ Len(pipe) >= 1 /\ Len(pipe') = Len(pipe) - 1
      /\ \A i \in 1 .. Len(pipe) - 1 : pipe'[i] = pipe[i + 1]
  BY TailFacts DEF IInv, Types
<1>2. got' \in Seq(Halves) /\ Len(got') = 0
  OBVIOUS
<1>3. Types'
  BY <1>1, <1>2 DEF IInv, Types, sendVars
<1>4. HalvesOfSent'
  BY <1>1, <1>2 DEF IInv, HalvesOfSent, sendVars
<1>5. \A n \in Nat : BodyOf(n)' => BodyOf(n)
  BY <1>1, <1>2 DEF BodyOf
<1> QED
  BY <1>3, <1>4, <1>5, HalvesLeave
     DEF IInv, Prefix, LastIsOpen, NothingAfterFailure, sendVars

(* A frame that passes is the next one, and complete, hence not torn.           *)
LEMMA Accepted ==
  ASSUME IInv, TakeFrame, Authentic(got[1], Head(pipe))
  PROVE  /\ BodyOf(Expected)
         /\ Expected \in 1 .. Len(sent)
         /\ Expected = Len(delivered) + 1
         /\ rseq' = Expected
         /\ delivered' = Append(delivered, sent[Expected])
<1> USE DEF TakeFrame, Take
<1>1. Head(pipe) = pipe[1] /\ Len(pipe) \in Nat /\ Len(pipe) >= 1
  BY TailFacts DEF IInv, Types
<1>2. pipe[1] = [n |-> Expected, half |-> "body"]
  BY <1>1 DEF Authentic
<1> QED
  BY <1>1, <1>2 DEF IInv, Types, Prefix, HalvesOfSent, BodyOf, Expected

LEMMA TakeFrameStep ==
  ASSUME IInv, TakeFrame
  PROVE  IInv'
<1> USE DEF TakeFrame, Take
<1>1. /\ pipe' \in Seq(Halves) /\ Len(pipe) \in Nat
      /\ Len(pipe) >= 1 /\ Len(pipe') = Len(pipe) - 1
      /\ \A i \in 1 .. Len(pipe) - 1 : pipe'[i] = pipe[i + 1]
  BY TailFacts DEF IInv, Types
<1>2. got' \in Seq(Halves) /\ Len(got') = 0
  OBVIOUS
<1>3. HalvesOfSent'
  BY <1>1, <1>2 DEF IInv, HalvesOfSent, sendVars
<1>4. \A n \in Nat : BodyOf(n)' => BodyOf(n)
  BY <1>1, <1>2 DEF BodyOf
<1>5. CASE Authentic(got[1], Head(pipe))
  <2>1. /\ BodyOf(Expected) /\ Expected \in 1 .. Len(sent)
        /\ Expected = Len(delivered) + 1 /\ rseq' = Expected
        /\ delivered' = Append(delivered, sent[Expected])
    BY <1>5, Accepted
  <2>2. sent[Expected] \in Frames
    BY <2>1 DEF IInv, Types
  <2>3. /\ delivered' \in Seq(Frames) /\ Len(delivered) \in Nat
        /\ Len(delivered') = Len(delivered) + 1
        /\ \A i \in 1 .. Len(delivered) : delivered'[i] = delivered[i]
        /\ delivered'[Len(delivered) + 1] = sent[Expected]
    BY <2>1, <2>2, AppendFacts DEF IInv, Types
  <2>4. Types'
    BY <1>1, <1>2, <2>1, <2>3 DEF IInv, Types, sendVars
  <2>5. Prefix'
    BY <2>1, <2>3 DEF IInv, Types, Prefix, sendVars
  <2>6. NothingAfterFailure'
    <3>1. \A n \in torn : n \in Nat /\ n # Expected /\ Len(delivered) < n
      BY <2>1 DEF IInv, Types, TornHasNoBody, NothingAfterFailure
    <3> QED
      BY <2>1, <2>3, <3>1 DEF NothingAfterFailure, sendVars
  <2>7. holder # None => Len(delivered') < Len(sent)
    BY <2>1, <2>3 DEF IInv, Types, LastIsOpen
  <2> QED
    BY <1>3, <1>4, <2>4, <2>5, <2>6, <2>7, HalvesLeave
<1>6. CASE ~Authentic(got[1], Head(pipe))
  <2>1. Types'
    BY <1>1, <1>2, <1>6 DEF IInv, Types, sendVars
  <2> QED
    BY <1>3, <1>4, <1>6, <2>1, HalvesLeave
       DEF IInv, Prefix, LastIsOpen, NothingAfterFailure, sendVars
<1> QED BY <1>5, <1>6

-----------------------------------------------------------------------------
LEMMA NextIInv == IInv /\ [Next]_vars => IInv'
<1> SUFFICES ASSUME IInv, [Next]_vars
             PROVE  IInv'
  OBVIOUS
<1>1. ASSUME NEW t \in Threads, Begin(t)
      PROVE  IInv'
  BY <1>1, BeginStep
<1>2. CASE SenderStep
  BY <1>2, SendHeadStep, SendBodyStep, SendFailsStep DEF SenderStep
<1>3. CASE TakeFirst \/ TakeFrame \/ TooLarge
  BY <1>3, TakeFirstStep, TakeFrameStep, TooLargeStep
<1>4. CASE Call \/ EndOfFile \/ TimesOut \/ ReceiverCloses
  BY <1>4, DropStep DEF Call, EndOfFile, TimesOut, ReceiverCloses
<1>5. CASE SenderCloses \/ Tick \/ UNCHANGED vars
  <2>1. /\ UNCHANGED <<sent, holder, half, torn, pipe, recvVars>>
    BY <1>5 DEF SenderCloses, Tick, vars, sendVars, recvVars
  <2> QED
    BY <2>1 DEF IInv, recvVars, Types, Prefix, HalvesOfSent, LastIsOpen, TornHasNoBody,
                NothingAfterFailure, BodyOf
<1> QED
  BY <1>1, <1>2, <1>3, <1>4, <1>5 DEF Next, ReceiverStep

LEMMA Invariance == Spec => []IInv
BY InitIInv, NextIInv, PTL DEF Spec

(* A failed send is the end: whatever other threads send on the same channel,   *)
(* nothing from the torn frame on is ever delivered.                          *)
THEOREM FailureIsFinal == Spec => []NothingAfterFailure
<1>1. IInv => NothingAfterFailure
  BY DEF IInv
<1> QED BY <1>1, Invariance, PTL

-----------------------------------------------------------------------------
(* The channel implements PrefixChannel: every step maps to a frame entering,   *)
(* to one arriving, or to a stutter.                                         *)
LEMMA StepRefines ==
  ASSUME IInv, [Next]_vars
  PROVE  [Promise!Enter \/ Promise!Arrive]_<<sent, delivered>>
<1>1. ASSUME NEW t \in Threads, Begin(t)
      PROVE  Promise!Enter
  <2>1. NextFrame(t) \in Frames
    BY DEF NextFrame, NextKind, Frames, Kinds
  <2> QED
    BY <1>1, <2>1 DEF Begin, Promise!Enter, recvVars
<1>2. CASE SendBody
  <2>1. holder \in Threads
    BY <1>2 DEF IInv, Types, SendBody
  <2>2. NextFrame(holder) \in Frames
    BY <2>1 DEF NextFrame, NextKind, Frames, Kinds
  <2> QED
    BY <1>2, <2>2 DEF SendBody, Promise!Enter, recvVars
<1>3. CASE TakeFrame
  <2>1. CASE Authentic(got[1], Head(pipe))
    BY <1>3, <2>1, Accepted DEF TakeFrame, Promise!Arrive, sendVars, IInv, Types
  <2>2. CASE ~Authentic(got[1], Head(pipe))
    BY <1>3, <2>2 DEF TakeFrame, sendVars
  <2> QED BY <2>1, <2>2
<1>4. CASE \/ SendHead \/ SendFails \/ SenderCloses \/ Tick \/ UNCHANGED vars
           \/ Call \/ TakeFirst \/ TooLarge \/ EndOfFile \/ TimesOut \/ ReceiverCloses
  BY <1>4 DEF SendHead, SendFails, SenderCloses, Tick, Call, TakeFirst, TooLarge, EndOfFile,
              TimesOut, ReceiverCloses, vars, sendVars, recvVars
<1> QED
  BY <1>1, <1>2, <1>3, <1>4 DEF Next, SenderStep, ReceiverStep

(* The receiver gets the frames in the order in which their senders took the    *)
(* lock, each once and none left out, up to some point and nothing after it.     *)
THEOREM ChannelKeepsItsPromise == Spec => PromiseSpec
<1>1. Init => Promise!Init
  BY DEF Init, Promise!Init
<1>2. IInv /\ [Next]_vars => [Promise!Enter \/ Promise!Arrive]_<<sent, delivered>>
  BY StepRefines
<1> QED BY <1>1, <1>2, Invariance, PTL DEF Spec, PromiseSpec, Promise!Spec

-----------------------------------------------------------------------------
(* The limiter, over a record c of L calls: a window is a second that starts     *)
(* with a call; the last k calls are in the present one, which began at b; those *)
(* before them are not younger than b, and those a full window before them lie a  *)
(* second further back.  No call is later than z.  RateBounded, the last conjunct, *)
(* is not inductive without the others.                                        *)
Windows(c, L, k, b, z) ==
  /\ \A i \in 1 .. L : c[i] \in Nat /\ c[i] <= z
  /\ \A i \in 1 .. L : i <= L - k => c[i] <= b
  /\ \A i \in 1 .. L : i <= L - k - MaxRate => b - c[i] >= Second
  /\ \A i, j \in 1 .. L : j = i + 2 * MaxRate => c[j] - c[i] >= Second

RateInv ==
  /\ now \in Nat /\ start \in Nat /\ count \in Nat /\ start <= now
  /\ calls \in Seq(Nat)
  /\ Receiving => count <= MaxRate
  /\ Windows(calls, Len(calls), count, start, now)

LEMMA Limits == MaxRate \in Nat /\ MaxRate >= 1 /\ Second \in Nat /\ Second >= 1
BY SecureChannelAssumption

(* A call that opens a window, and one that stays in the present window.        *)
LEMMA WindowRolls ==
  ASSUME NEW c, NEW d, NEW L \in Nat, NEW k \in Nat, NEW b \in Nat, NEW z \in Nat,
         Windows(c, L, k, b, z), k <= MaxRate, z - b >= Second,
         \A i \in 1 .. L : d[i] = c[i], d[L + 1] = z
  PROVE  Windows(d, L + 1, 1, z, z)
<1> USE Limits DEF Windows
<1>1. \A i \in 1 .. L + 1 : d[i] \in Nat /\ d[i] <= z
  OBVIOUS
<1>2. \A i \in 1 .. L : i <= L - MaxRate => z - d[i] >= Second
  OBVIOUS
<1>3. \A i \in 1 .. L + 1 : i <= L + 1 - 1 - MaxRate => z - d[i] >= Second
  BY <1>2
<1>4. \A i, j \in 1 .. L + 1 : j = i + 2 * MaxRate => d[j] - d[i] >= Second
  <2> SUFFICES ASSUME NEW i \in 1 .. L + 1, NEW j \in 1 .. L + 1, j = i + 2 * MaxRate
               PROVE  d[j] - d[i] >= Second
    OBVIOUS
  <2>1. CASE j \in 1 .. L
    BY <2>1
  <2>2. CASE j = L + 1
    BY <1>2, <2>2
  <2> QED BY <2>1, <2>2
<1> QED BY <1>1, <1>3, <1>4

LEMMA WindowGoesOn ==
  ASSUME NEW c, NEW d, NEW L \in Nat, NEW k \in Nat, NEW b \in Nat, NEW z \in Nat,
         Windows(c, L, k, b, z), k + 1 <= MaxRate, b <= z,
         \A i \in 1 .. L : d[i] = c[i], d[L + 1] = z
  PROVE  Windows(d, L + 1, k + 1, b, z)
<1> USE Limits DEF Windows
<1>1. /\ \A i \in 1 .. L + 1 : d[i] \in Nat /\ d[i] <= z
      /\ \A i \in 1 .. L + 1 : i <= L + 1 - (k + 1) => d[i] <= b
      /\ \A i \in 1 .. L + 1 : i <= L + 1 - (k + 1) - MaxRate => b - d[i] >= Second
  OBVIOUS
<1>2. \A i, j \in 1 .. L + 1 : j = i + 2 * MaxRate => d[j] - d[i] >= Second
  <2> SUFFICES ASSUME NEW i \in 1 .. L + 1, NEW j \in 1 .. L + 1, j = i + 2 * MaxRate
               PROVE  d[j] - d[i] >= Second
    OBVIOUS
  <2>1. CASE j \in 1 .. L
    BY <2>1
  <2>2. CASE j = L + 1
    BY <2>2
  <2> QED BY <2>1, <2>2
<1> QED BY <1>1, <1>2

(* A call that is refused is counted, and nothing else.                        *)
LEMMA WindowShrinks ==
  ASSUME NEW c, NEW L \in Nat, NEW k \in Nat, NEW l \in Nat, NEW b \in Nat, NEW z \in Nat,
         NEW e \in Nat, Windows(c, L, k, b, z),
         \/ l = k + 1 /\ e = b
         \/ l = 1 /\ e = z /\ z - b >= Second /\ k <= MaxRate
  PROVE  l > MaxRate => Windows(c, L, l, e, z)
BY Limits DEF Windows

LEMMA CallRateInv ==
  ASSUME RateInv, Call
  PROVE  RateInv'
<1> USE Limits
<1>1. /\ now' = now /\ phase = "call"
      /\ start' = IF WindowOver THEN now ELSE start
      /\ count' = (IF WindowOver THEN 0 ELSE count) + 1
      /\ \/ count' > MaxRate /\ phase' = "ended" /\ calls' = calls
         \/ count' <= MaxRate /\ calls' = Append(calls, now)
  BY DEF Call, CountNow, OverLimit, RateInv
<1>2. /\ now \in Nat /\ start \in Nat /\ count \in Nat /\ start <= now
      /\ calls \in Seq(Nat) /\ Len(calls) \in Nat
      /\ count <= MaxRate
      /\ Windows(calls, Len(calls), count, start, now)
  BY <1>1 DEF RateInv, Receiving
<1>3. CASE count' > MaxRate /\ phase' = "ended" /\ calls' = calls
  <2>1. Windows(calls, Len(calls), count', start', now)
    BY <1>1, <1>2, <1>3, WindowShrinks DEF WindowOver
  <2> QED
    BY <1>1, <1>2, <1>3, <2>1 DEF RateInv, WindowOver, Receiving
<1>4. CASE count' <= MaxRate /\ calls' = Append(calls, now)
  <2>1. /\ calls' \in Seq(Nat) /\ Len(calls') = Len(calls) + 1
        /\ \A i \in 1 .. Len(calls) : calls'[i] = calls[i]
        /\ calls'[Len(calls) + 1] = now
    BY <1>2, <1>4, AppendFacts
  <2>2. Windows(calls', Len(calls) + 1, count', start', now)
    <3>1. CASE WindowOver
      <4>1. start' = now /\ count' = 1 /\ now - start >= Second
        BY <1>1, <3>1 DEF WindowOver
      <4>2. Windows(calls', Len(calls) + 1, 1, now, now)
        BY <1>2, <2>1, <4>1, WindowRolls
      <4> QED BY <4>1, <4>2
    <3>2. CASE ~WindowOver
      <4>1. start' = start /\ count' = count + 1
        BY <1>1, <3>2
      <4>2. Windows(calls', Len(calls) + 1, count + 1, start, now)
        BY <1>2, <1>4, <2>1, <4>1, WindowGoesOn
      <4> QED BY <4>1, <4>2
    <3> QED BY <3>1, <3>2
  <2> QED
    BY <1>1, <1>2, <1>4, <2>1, <2>2 DEF RateInv, WindowOver
<1> QED BY <1>1, <1>3, <1>4

(* Every window of less than a second lets at most twice _MAX_FPS calls by,      *)
(* for every limit, although the limiter counts in windows of its own.          *)
THEOREM RateIsBounded == Spec => []RateBounded
<1>1. Init => RateInv
  BY Limits DEF Init, RateInv, Receiving, Windows
<1>2. RateInv /\ [Next]_vars => RateInv'
  <2> SUFFICES ASSUME RateInv, [Next]_vars
               PROVE  RateInv'
    OBVIOUS
  <2>1. CASE Call
    BY <2>1, CallRateInv
  <2>2. CASE UNCHANGED <<now, rateVars>> /\ (Receiving' => Receiving)
    BY <2>2 DEF RateInv, rateVars, Windows
  <2>3. CASE Tick
    BY <2>3 DEF Tick, RateInv, rateVars, recvVars, Receiving, Windows
  <2>4. ASSUME NEW t \in Threads, Begin(t)
        PROVE  UNCHANGED <<now, rateVars>> /\ (Receiving' => Receiving)
    BY <2>4 DEF Begin, recvVars, Receiving
  <2>5. ASSUME SenderStep \/ SenderCloses \/ UNCHANGED vars
        PROVE  UNCHANGED <<now, rateVars>> /\ (Receiving' => Receiving)
    BY <2>5 DEF SenderStep, SendHead, SendBody, SendFails, SenderCloses, vars, recvVars,
                Receiving
  <2>6. ASSUME \/ TakeFirst \/ TakeFrame \/ TooLarge \/ EndOfFile \/ TimesOut
               \/ ReceiverCloses
        PROVE  UNCHANGED <<now, rateVars>> /\ (Receiving' => Receiving)
    BY <2>6 DEF TakeFirst, TakeFrame, Take, TooLarge, EndOfFile, TimesOut, ReceiverCloses,
                Receiving, sendVars
  <2> QED
    BY <2>1, <2>2, <2>3, <2>4, <2>5, <2>6 DEF Next, ReceiverStep
<1>3. RateInv => RateBounded
  <2> SUFFICES ASSUME RateInv, NEW i \in DOMAIN calls, i + 2 * MaxRate \in DOMAIN calls
               PROVE  calls[i + 2 * MaxRate] - calls[i] >= Second
    BY DEF RateBounded
  <2>1. DOMAIN calls = 1 .. Len(calls)
    BY DEF RateInv
  <2> QED BY <2>1 DEF RateInv, Windows
<1> QED BY <1>1, <1>2, <1>3, PTL DEF Spec

-----------------------------------------------------------------------------
(* send_multi().  What a thread sends next follows from how many frames it has   *)
(* sent; so the argument counts them.                                        *)
Even(t) == Cardinality(Own(t)) % 2 = 0

(* In the order of the lock, every button stands right behind its move.         *)
Paired ==
  \A i \in 1 .. Len(sent) :
    sent[i].kind = "button" =>
      i > 1 /\ sent[i - 1] = [by |-> sent[i].by, kind |-> "move"]

(* A thread that presses is between a move and its button only while it holds     *)
(* the lock, or after its send has failed, and then it sends no more.            *)
BetweenTwo ==
  \A t \in Pressers :
    \/ Even(t) /\ (holder = t => sent[Len(sent)].kind = "button")
    \/ holder = t /\ sent[Len(sent)] = [by |-> t, kind |-> "move"]
    \/ holder # t /\ (t \in failed \/ ~senderUp)

PressInv ==
  /\ failed \subseteq Threads
  /\ holder # None => Len(sent) > 0 /\ sent[Len(sent)].by = holder
  /\ Paired
  /\ BetweenTwo

LEMMA OwnIsFinite ==
  ASSUME NEW t, sent \in Seq(Frames)
  PROVE  IsFiniteSet(Own(t)) /\ Cardinality(Own(t)) \in Nat /\ Len(sent) + 1 \notin Own(t)
<1>1. Own(t) \subseteq 1 .. Len(sent) /\ Len(sent) \in Nat
  BY DEF Own
<1>2. IsFiniteSet(1 .. Len(sent))
  BY <1>1, FS_Interval
<1>3. IsFiniteSet(Own(t))
  BY <1>1, <1>2, FS_Subset
<1> QED BY <1>1, <1>3, FS_CardinalityType

(* One more frame of thread t turns its parity, and no other thread's.           *)
LEMMA OneMore ==
  ASSUME sent \in Seq(Frames), NEW t \in Threads, NEW f \in Frames, f.by = t,
         sent' = Append(sent, f)
  PROVE  /\ Even(t)' <=> ~Even(t)
         /\ \A u \in Threads : u # t => (Even(u)' <=> Even(u))
<1>1. /\ sent' \in Seq(Frames) /\ Len(sent') = Len(sent) + 1 /\ Len(sent) \in Nat
      /\ \A i \in 1 .. Len(sent) : sent'[i] = sent[i]
      /\ sent'[Len(sent) + 1] = f
  BY AppendFacts
<1>2. DOMAIN sent = 1 .. Len(sent) /\ DOMAIN sent' = 1 .. Len(sent) + 1
  BY <1>1
<1>3. Own(t)' = Own(t) \cup {Len(sent) + 1}
  <2>1. \A i : i \in Own(t)' <=> i \in 1 .. Len(sent) + 1 /\ sent'[i].by = t
    BY <1>2 DEF Own
  <2>2. \A i : i \in Own(t) <=> i \in 1 .. Len(sent) /\ sent[i].by = t
    BY <1>2 DEF Own
  <2>3. \A i : i \in 1 .. Len(sent) + 1 <=> i \in 1 .. Len(sent) \/ i = Len(sent) + 1
    BY <1>1
  <2> QED BY <1>1, <2>1, <2>2, <2>3
<1>4. Cardinality(Own(t)') = Cardinality(Own(t)) + 1
  BY <1>3, OwnIsFinite, FS_AddElement
<1>5. Even(t)' <=> ~Even(t)
  BY <1>4, OwnIsFinite DEF Even
<1>6. ASSUME NEW u \in Threads, u # t
      PROVE  Own(u)' = Own(u)
  <2>1. \A i : i \in Own(u)' <=> i \in 1 .. Len(sent) + 1 /\ sent'[i].by = u
    BY <1>2 DEF Own
  <2>2. \A i : i \in Own(u) <=> i \in 1 .. Len(sent) /\ sent[i].by = u
    BY <1>2 DEF Own
  <2>3. \A i : i \in 1 .. Len(sent) + 1 <=> i \in 1 .. Len(sent) \/ i = Len(sent) + 1
    BY <1>1
  <2> QED BY <1>1, <1>6, <2>1, <2>2, <2>3
<1> QED BY <1>5, <1>6 DEF Even

(* A frame that enters the order: behind its own move if it is a button.         *)
LEMMA PairedAppend ==
  ASSUME sent \in Seq(Frames), Paired, NEW f \in Frames, sent' = Append(sent, f),
         f.kind = "button" =>
           Len(sent) > 0 /\ sent[Len(sent)] = [by |-> f.by, kind |-> "move"]
  PROVE  Paired' /\ Len(sent') > 0 /\ sent'[Len(sent')] = f
<1>1. /\ Len(sent') = Len(sent) + 1 /\ Len(sent) \in Nat
      /\ \A i \in 1 .. Len(sent) : sent'[i] = sent[i]
      /\ sent'[Len(sent) + 1] = f
  BY AppendFacts
<1>2. ASSUME NEW i \in 1 .. Len(sent'), sent'[i].kind = "button"
      PROVE  i > 1 /\ sent'[i - 1] = [by |-> sent'[i].by, kind |-> "move"]
  <2>1. CASE i \in 1 .. Len(sent)
    BY <1>1, <1>2, <2>1 DEF Paired
  <2>2. CASE i = Len(sent) + 1
    BY <1>1, <1>2, <2>2
  <2> QED BY <1>1, <2>1, <2>2
<1> QED BY <1>1, <1>2 DEF Paired

LEMMA BeginPress ==
  ASSUME IInv, PressInv, NEW t \in Threads, Begin(t)
  PROVE  PressInv'
<1>1. /\ holder = None /\ t \notin failed /\ senderUp
      /\ holder' = t /\ sent' = Append(sent, NextFrame(t))
      /\ UNCHANGED <<failed, senderUp>>
  BY DEF Begin
<1>2. /\ NextFrame(t) \in Frames /\ NextFrame(t).by = t
      /\ NextFrame(t).kind = NextKind(t) /\ sent \in Seq(Frames)
  BY DEF NextFrame, NextKind, Frames, Kinds, IInv, Types
<1>3. None \notin Threads /\ Pressers \subseteq Threads
  BY SecureChannelAssumption
<1>4. t \in Pressers => Even(t) /\ NextKind(t) = "move"
  BY <1>1, <1>3 DEF PressInv, BetweenTwo, NextKind, Even
<1>5. NextFrame(t).kind # "button"
  BY <1>2, <1>4 DEF NextKind
<1>6. Paired' /\ Len(sent') > 0 /\ sent'[Len(sent')] = NextFrame(t)
  BY <1>1, <1>2, <1>5, PairedAppend DEF PressInv
<1>7. BetweenTwo'
  <2> SUFFICES ASSUME NEW u \in Pressers
               PROVE  \/ Even(u)' /\ (holder' = u => sent'[Len(sent')].kind = "button")
                      \/ holder' = u /\ sent'[Len(sent')] = [by |-> u, kind |-> "move"]
                      \/ holder' # u /\ (u \in failed' \/ ~senderUp')
    BY DEF BetweenTwo
  <2>1. CASE u = t
    BY <1>1, <1>4, <1>6, <2>1 DEF NextFrame
  <2>2. CASE u # t
    <3>1. Even(u)' <=> Even(u)
      BY <1>1, <1>2, <1>3, <2>2, OneMore
    <3>2. Even(u) \/ u \in failed
      BY <1>1, <1>3 DEF PressInv, BetweenTwo
    <3> QED BY <1>1, <2>2, <3>1, <3>2
  <2> QED BY <2>1, <2>2
<1> QED BY <1>1, <1>2, <1>6, <1>7 DEF PressInv

(* send_multi() goes on while the lock is held, and only with a button.          *)
LEMMA BodyPress ==
  ASSUME IInv, PressInv, SendBody
  PROVE  PressInv'
<1> DEFINE t == holder
           last == sent[Len(sent)]
<1>1. /\ t \in Threads /\ None \notin Threads /\ Pressers \subseteq Threads
      /\ senderUp /\ failed' = failed /\ senderUp' = senderUp
      /\ sent \in Seq(Frames)
  BY SecureChannelAssumption DEF SendBody, Push, IInv, Types
<1>2. Len(sent) > 0 /\ last.by = t
  BY <1>1 DEF PressInv
<1>3. CASE GoesOn(t)
  <2>1. t \in Pressers /\ ~Even(t) /\ NextKind(t) = "button"
    BY <1>3 DEF GoesOn, NextKind, Even
  <2>2. last = [by |-> t, kind |-> "move"]
    BY <1>1, <2>1 DEF PressInv, BetweenTwo
  <2>3. holder' = t /\ sent' = Append(sent, NextFrame(t))
    BY <1>3 DEF SendBody
  <2>4. /\ NextFrame(t) \in Frames /\ NextFrame(t).by = t
        /\ NextFrame(t).kind = "button"
    BY <1>1, <2>1 DEF NextFrame, Frames, Kinds
  <2>5. Paired' /\ Len(sent') > 0 /\ sent'[Len(sent')] = NextFrame(t)
    BY <1>1, <1>2, <2>2, <2>3, <2>4, PairedAppend DEF PressInv
  <2>6. BetweenTwo'
    <3> SUFFICES ASSUME NEW u \in Pressers
                 PROVE  \/ Even(u)' /\ (holder' = u => sent'[Len(sent')].kind = "button")
                        \/ holder' = u /\ sent'[Len(sent')] = [by |-> u, kind |-> "move"]
                        \/ holder' # u /\ (u \in failed' \/ ~senderUp')
      BY DEF BetweenTwo
    <3>1. CASE u = t
      <4>1. Even(t)'
        BY <1>1, <2>1, <2>3, <2>4, OneMore
      <4> QED BY <2>3, <2>4, <2>5, <3>1, <4>1
    <3>2. CASE u # t
      <4>1. Even(u)' <=> Even(u)
        BY <1>1, <2>3, <2>4, <3>2, OneMore
      <4>2. Even(u) \/ u \in failed
        BY <1>1, <3>2 DEF PressInv, BetweenTwo
      <4> QED BY <1>1, <2>3, <3>2, <4>1, <4>2
    <3> QED BY <3>1, <3>2
  <2> QED BY <1>1, <2>3, <2>4, <2>5, <2>6 DEF PressInv
<1>4. CASE ~GoesOn(t)
  <2>1. holder' = None /\ sent' = sent
    BY <1>4 DEF SendBody
  <2>2. t \in Pressers => Even(t)
    BY <1>4 DEF GoesOn, NextKind, Even
  <2>3. BetweenTwo'
    <3> SUFFICES ASSUME NEW u \in Pressers
                 PROVE  Even(u) \/ u \in failed
      BY <1>1, <2>1 DEF BetweenTwo, Even, Own
    <3>1. CASE u = t
      BY <2>2, <3>1
    <3>2. CASE u # t
      BY <1>1, <3>2 DEF PressInv, BetweenTwo
    <3> QED BY <3>1, <3>2
  <2>4. Paired'
    BY <2>1 DEF PressInv, Paired
  <2> QED BY <1>1, <2>1, <2>3, <2>4 DEF PressInv
<1> QED BY <1>3, <1>4

(* A press that is cut short takes its thread, or the whole side, with it.       *)
LEMMA FailPress ==
  ASSUME IInv, PressInv, SendFails \/ SenderCloses
  PROVE  PressInv'
<1>1. /\ None \notin Threads /\ Pressers \subseteq Threads
      /\ Careless \cap Pressers = {}
  BY SecureChannelAssumption
<1>2. sent' = sent /\ failed' \subseteq Threads
  BY DEF SendFails, SenderCloses, PressInv, IInv, Types
<1>3. Paired' /\ \A u : Even(u)' <=> Even(u)
  BY <1>2 DEF PressInv, Paired, Even, Own
<1>4. CASE SendFails
  <2>1. /\ holder' = None /\ senderUp' = senderUp /\ failed \subseteq failed'
        /\ holder \in Pressers => holder \in failed'
    BY <1>1, <1>4 DEF SendFails
  <2>2. BetweenTwo'
    <3> SUFFICES ASSUME NEW u \in Pressers
                 PROVE  Even(u) \/ u \in failed' \/ ~senderUp
      BY <1>1, <1>3, <2>1 DEF BetweenTwo
    <3> QED BY <1>1, <2>1 DEF PressInv, BetweenTwo
  <2> QED BY <1>2, <1>3, <2>1, <2>2 DEF PressInv
<1>5. CASE SenderCloses
  <2>1. holder' = holder /\ ~senderUp'
    BY <1>5 DEF SenderCloses
  <2>2. BetweenTwo'
    BY <1>2, <1>3, <2>1 DEF PressInv, BetweenTwo
  <2> QED BY <1>2, <1>3, <2>1, <2>2 DEF PressInv
<1> QED BY <1>4, <1>5

(* PressFollowsItsMove: what is delivered is the beginning of an order in which   *)
(* every button stands right behind its move.                                *)
THEOREM PressesStayTogether == Spec => []PressFollowsItsMove
<1>1. Init => PressInv
  <2> SUFFICES ASSUME Init PROVE PressInv
    OBVIOUS
  <2>1. \A t : Own(t) = {}
    BY DEF Init, Own
  <2>2. \A t : Even(t)
    BY <2>1, FS_EmptySet DEF Even
  <2>3. \A t \in Pressers : t # None
    BY SecureChannelAssumption
  <2> QED BY <2>2, <2>3 DEF Init, PressInv, Paired, BetweenTwo
<1>2. IInv /\ PressInv /\ [Next]_vars => PressInv'
  <2> SUFFICES ASSUME IInv, PressInv, [Next]_vars PROVE PressInv'
    OBVIOUS
  <2>1. CASE UNCHANGED <<sent, holder, failed, senderUp>>
    BY <2>1 DEF PressInv, Paired, BetweenTwo, Even, Own
  <2>2. CASE \E t \in Threads : Begin(t)
    BY <2>2, BeginPress
  <2>3. CASE SenderStep
    <3>1. CASE SendHead
      BY <2>1, <3>1 DEF SendHead
    <3> QED BY <2>3, <3>1, BodyPress, FailPress DEF SenderStep
  <2>4. CASE ReceiverStep \/ TimesOut \/ ReceiverCloses \/ Tick \/ UNCHANGED vars
    BY <2>1, <2>4 DEF ReceiverStep, Call, TakeFirst, TakeFrame, TooLarge, EndOfFile,
       TimesOut, ReceiverCloses, Tick, sendVars, vars
  <2> QED BY <2>2, <2>3, <2>4, FailPress DEF Next
<1>3. IInv /\ PressInv => PressFollowsItsMove
  <2> SUFFICES ASSUME IInv, PressInv, NEW i \in DOMAIN delivered,
                      delivered[i].kind = "button"
               PROVE  i > 1 /\ delivered[i - 1] = [by |-> delivered[i].by, kind |-> "move"]
    BY DEF PressFollowsItsMove
  <2>1. /\ i \in 1 .. Len(delivered) /\ Len(delivered) \in Nat /\ Len(sent) \in Nat
        /\ Len(delivered) <= Len(sent)
        /\ \A j \in 1 .. Len(delivered) : delivered[j] = sent[j]
    BY DEF IInv, Types, Prefix
  <2>2. i > 1 /\ sent[i - 1] = [by |-> sent[i].by, kind |-> "move"]
    BY <2>1 DEF PressInv, Paired
  <2> QED BY <2>1, <2>2
<1> QED BY <1>1, <1>2, <1>3, Invariance, PTL DEF Spec
=============================================================================
