-------------------------- MODULE TlmWrapperProofs --------------------------
(***************************************************************************)
(* Proofs about the bridge, for any cycle time, any set of messages and    *)
(* any bounds: its two paths are FIFO channels, no wake-up of its clocks   *)
(* is lost, and no message stays inside longer than a cycle past its edge. *)
(***************************************************************************)
EXTENDS TlmWrapper, SequenceTheorems, TLAPS

QueuesOK ==
  /\ innerIn \in Queues /\ innerOut \in Queues
  /\ outerIn \in Queues /\ outerOut \in Queues
  /\ sent \in Queues /\ delivered \in Queues

-----------------------------------------------------------------------------
(* Lemmas about the operators on queues.                                   *)

\* Appending to the last of two concatenated sequences.
LEMMA AppendLast ==
  ASSUME NEW a \in Seq(Message), NEW d \in Seq(Message), NEW m \in Message
  PROVE  a \o Append(d, m) = Append(a \o d, m)
<1>1. Append(d, m) = d \o <<m>> /\ <<m>> \in Seq(Message)
  BY AppendIsConcat
<1>2. a \o d \in Seq(Message)
  BY ConcatProperties
<1>3. Append(a \o d, m) = (a \o d) \o <<m>>
  BY <1>2, AppendIsConcat
<1>4. (a \o d) \o <<m>> = a \o (d \o <<m>>)
  BY <1>1, ConcatAssociative
<1> QED BY <1>1, <1>3, <1>4

\* Concatenating the queues of both paths gives queues of messages.
LEMMA FollowedType ==
  ASSUME NEW q1 \in Queues, NEW q2 \in Queues
  PROVE  /\ Followed(q1, q2) \in Queues
         /\ EmptyQueues \in Queues
         /\ Followed(q1, EmptyQueues) = q1
<1>1. ASSUME NEW p \in Path
      PROVE  q1[p] \o q2[p] \in Seq(Message) /\ q1[p] \o << >> = q1[p]
  <2>1. q1[p] \in Seq(Message) /\ q2[p] \in Seq(Message)
    BY DEF Queues
  <2> QED BY <2>1, ConcatProperties, ConcatEmptySeq
<1> QED BY <1>1 DEF Followed, EmptyQueues, Queues

-----------------------------------------------------------------------------
(* What a step does to one path.                                           *)

\* Every step leaves a path alone, puts one message at its end, or takes some
\* out at its front and delivers them.
Untouched(p) ==
  sent'[p] = sent[p] /\ delivered'[p] = delivered[p] /\ InFlight(p)' = InFlight(p)

Accepted(p) ==
  \E m \in Message :
    /\ sent'[p] = Append(sent[p], m)
    /\ InFlight(p)' = Append(InFlight(p), m)
    /\ delivered'[p] = delivered[p]

Passed(p) ==
  \E out \in Seq(Message) :
    /\ delivered'[p] = delivered[p] \o out
    /\ InFlight(p) = out \o InFlight(p)'
    /\ sent'[p] = sent[p]

PathStep(p) == Untouched(p) \/ Accepted(p) \/ Passed(p)

\* A queue of one path, and everything in flight on it, is a sequence.
LEMMA InFlightType ==
  ASSUME QueuesOK, NEW p \in Path
  PROVE  /\ outerOut[p] \in Seq(Message) /\ innerOut[p] \in Seq(Message)
         /\ innerIn[p] \in Seq(Message) /\ outerIn[p] \in Seq(Message)
         /\ (outerOut[p] \o innerOut[p]) \o innerIn[p] \in Seq(Message)
         /\ InFlight(p) \in Seq(Message)
<1>1. /\ outerOut[p] \in Seq(Message) /\ innerOut[p] \in Seq(Message)
      /\ innerIn[p] \in Seq(Message) /\ outerIn[p] \in Seq(Message)
  BY DEF QueuesOK, Queues
<1>2. (outerOut[p] \o innerOut[p]) \o innerIn[p] \in Seq(Message)
  BY <1>1, ConcatProperties
<1>3. InFlight(p) \in Seq(Message)
  BY <1>1, <1>2, ConcatProperties DEF InFlight
<1> QED BY <1>1, <1>2, <1>3

\* Moving a suffix or a prefix of one queue to its neighbour changes nothing
\* of what is in flight: what fwClock, the two inner clocks and bwClock do.
LEMMA InFlightRegroup ==
  ASSUME QueuesOK, NEW p \in Path
  PROVE  /\ ((outerOut[p] \o innerOut[p]) \o (innerIn[p] \o outerIn[p])) \o << >>
              = InFlight(p)
         /\ ((outerOut[p] \o (innerOut[p] \o innerIn[p])) \o << >>) \o outerIn[p]
              = InFlight(p)
         /\ (((outerOut[p] \o innerOut[p]) \o << >>) \o innerIn[p]) \o outerIn[p]
              = InFlight(p)
         /\ outerOut[p] \o (((<< >> \o innerOut[p]) \o innerIn[p]) \o outerIn[p])
              = InFlight(p)
         /\ \A m \in Message :
              ((outerOut[p] \o innerOut[p]) \o innerIn[p]) \o Append(outerIn[p], m)
                = Append(InFlight(p), m)
<1>1. /\ outerOut[p] \in Seq(Message) /\ innerOut[p] \in Seq(Message)
      /\ innerIn[p] \in Seq(Message) /\ outerIn[p] \in Seq(Message)
      /\ (outerOut[p] \o innerOut[p]) \o innerIn[p] \in Seq(Message)
  BY InFlightType
<1> DEFINE a == outerOut[p]  b == innerOut[p]  c == innerIn[p]  d == outerIn[p]
<1>2. InFlight(p) = ((a \o b) \o c) \o d
  BY DEF InFlight
<1> HIDE DEF a, b, c, d
<1>t. a \in Seq(Message) /\ b \in Seq(Message) /\ c \in Seq(Message)
      /\ d \in Seq(Message)
  BY <1>1 DEF a, b, c, d
<1>3. /\ ((a \o b) \o (c \o d)) \o << >> = ((a \o b) \o c) \o d
      /\ ((a \o (b \o c)) \o << >>) \o d = ((a \o b) \o c) \o d
      /\ (((a \o b) \o << >>) \o c) \o d = ((a \o b) \o c) \o d
      /\ a \o (((<< >> \o b) \o c) \o d) = ((a \o b) \o c) \o d
  <2>1. ((a \o b) \o (c \o d)) \o << >> = ((a \o b) \o c) \o d
    <3>1. a \o b \in Seq(Message) /\ (a \o b) \o (c \o d) \in Seq(Message)
      BY <1>t, ConcatProperties
    <3>2. ((a \o b) \o (c \o d)) \o << >> = (a \o b) \o (c \o d)
      BY <1>t, <3>1, ConcatEmptySeq
    <3>3. ((a \o b) \o c) \o d = (a \o b) \o (c \o d)
      BY <1>t, <3>1, ConcatAssociative
    <3> QED BY <1>t, <3>2, <3>3
  <2>2. ((a \o (b \o c)) \o << >>) \o d = ((a \o b) \o c) \o d
    <3>1. a \o (b \o c) \in Seq(Message)
      BY <1>t, ConcatProperties
    <3>2. (a \o (b \o c)) \o << >> = a \o (b \o c)
      BY <1>t, <3>1, ConcatEmptySeq
    <3>3. (a \o b) \o c = a \o (b \o c)
      BY <1>t, ConcatAssociative
    <3> QED BY <1>t, <3>2, <3>3
  <2>3. (((a \o b) \o << >>) \o c) \o d = ((a \o b) \o c) \o d
    <3>1. a \o b \in Seq(Message)
      BY <1>t, ConcatProperties
    <3> QED BY <1>t, <3>1, ConcatEmptySeq
  <2>4. a \o (((<< >> \o b) \o c) \o d) = ((a \o b) \o c) \o d
    <3>1. b \o c \in Seq(Message) /\ << >> \o b = b
      BY <1>t, ConcatProperties, ConcatEmptySeq
    <3>2. (a \o (b \o c)) \o d = a \o ((b \o c) \o d)
      <4> DEFINE bc == b \o c
      <4>1. bc \in Seq(Message)
        BY <1>t, <3>1
      <4> HIDE DEF bc
      <4>2. (a \o bc) \o d = a \o (bc \o d)
        BY <4>1, ConcatAssociative
      <4> QED BY <4>2 DEF bc
    <3>3. (a \o b) \o c = a \o (b \o c)
      BY <1>t, ConcatAssociative
    <3> QED BY <1>t, <3>1, <3>2, <3>3
  <2> QED BY <2>1, <2>2, <2>3, <2>4
<1>4. \A m \in Message : ((a \o b) \o c) \o Append(d, m) = Append(InFlight(p), m)
  <2>1. (a \o b) \o c \in Seq(Message) /\ d \in Seq(Message)
    BY <1>1 DEF a, b, c, d
  <2> QED BY <2>1, <1>2, AppendLast
<1> QED BY <1>2, <1>3, <1>4 DEF a, b, c, d

\* The bridge's steps, path by path.
LEMMA StepOfPath ==
  ASSUME QueuesOK, [Next]_vars
  PROVE  QueuesOK' /\ \A p \in Path : PathStep(p)
<1> USE DEF QueuesOK
<1>s. ASSUME NEW p \in Path,
             sent'[p] = sent[p], delivered'[p] = delivered[p],
             outerOut'[p] = outerOut[p], innerOut'[p] = innerOut[p],
             innerIn'[p] = innerIn[p], outerIn'[p] = outerIn[p]
      PROVE  PathStep(p)
  BY <1>s DEF PathStep, Untouched, InFlight
<1>1. ASSUME NEW q \in Path, NEW m \in Message, NbTransport(q, m)
      PROVE  QueuesOK' /\ \A p \in Path : PathStep(p)
  <2>1. QueuesOK'
    BY <1>1 DEF NbTransport, innerVars, Queues
  <2>2. PathStep(q)
    <3>1. /\ sent'[q] = Append(sent[q], m) /\ delivered'[q] = delivered[q]
          /\ outerIn'[q] = Append(outerIn[q], m) /\ outerOut'[q] = outerOut[q]
          /\ innerIn'[q] = innerIn[q] /\ innerOut'[q] = innerOut[q]
      BY <1>1 DEF NbTransport, innerVars, Queues
    <3>2. InFlight(q)' = Append(InFlight(q), m)
      BY <3>1, InFlightRegroup DEF InFlight
    <3> QED BY <3>1, <3>2 DEF PathStep, Accepted
  <2>3. ASSUME NEW p \in Path, p # q PROVE PathStep(p)
    BY <1>1, <1>s, <2>3 DEF NbTransport, innerVars, Queues
  <2> QED BY <2>1, <2>2, <2>3
<1>2. CASE FwClock
  <2>1. CASE isFullCycle(now, CycleTime)
    <3>1. /\ innerIn' = Followed(innerIn, outerIn) /\ outerIn' = EmptyQueues
          /\ UNCHANGED <<innerOut, outerOut, sent, delivered>>
      BY <1>2, <2>1 DEF FwClock, Start, history
    <3>2. QueuesOK'
      BY <3>1, FollowedType
    <3>3. ASSUME NEW p \in Path PROVE PathStep(p)
      <4>1. /\ innerIn'[p] = innerIn[p] \o outerIn[p] /\ outerIn'[p] = << >>
            /\ innerOut'[p] = innerOut[p] /\ outerOut'[p] = outerOut[p]
        BY <3>1 DEF Followed, EmptyQueues
      <4>2. InFlight(p)' = InFlight(p)
        BY <4>1, InFlightRegroup DEF InFlight
      <4> QED BY <3>1, <4>2 DEF PathStep, Untouched
    <3> QED BY <3>2, <3>3
  <2>2. CASE ~isFullCycle(now, CycleTime)
    <3>1. /\ innerIn' = Followed(innerIn, EmptyQueues)
          /\ UNCHANGED <<outerIn, innerOut, outerOut, sent, delivered>>
      BY <1>2, <2>2 DEF FwClock, Start, history
    <3>2. innerIn' = innerIn
      BY <3>1, FollowedType
    <3> QED BY <3>1, <3>2, <1>s
  <2> QED BY <2>1, <2>2
<1>3. CASE InnerFwClock /\ UNCHANGED <<outerVars, history>>
  <2>1. CASE isFullCycle(innerNow, CycleTime)
    <3>1. /\ innerOut' = Followed(innerOut, innerIn) /\ innerIn' = EmptyQueues
          /\ UNCHANGED <<outerIn, outerOut, sent, delivered>>
      BY <1>3, <2>1 DEF InnerFwClock, outerVars, history
    <3>2. QueuesOK'
      BY <3>1, FollowedType
    <3>3. ASSUME NEW p \in Path PROVE PathStep(p)
      <4>1. /\ innerOut'[p] = innerOut[p] \o innerIn[p] /\ innerIn'[p] = << >>
            /\ outerIn'[p] = outerIn[p] /\ outerOut'[p] = outerOut[p]
        BY <3>1 DEF Followed, EmptyQueues
      <4>2. InFlight(p)' = InFlight(p)
        BY <4>1, InFlightRegroup DEF InFlight
      <4> QED BY <3>1, <4>2 DEF PathStep, Untouched
    <3> QED BY <3>2, <3>3
  <2>2. CASE ~isFullCycle(innerNow, CycleTime)
    BY <1>3, <2>2, <1>s DEF InnerFwClock, outerVars, history
  <2> QED BY <2>1, <2>2
<1>4. CASE InnerBwClock /\ outerOut' = Followed(outerOut, HandedOver)
           /\ UNCHANGED <<outerIn, history>>
  <2>1. CASE isFullCycle(innerNow, CycleTime)
    <3>1. /\ outerOut' = Followed(outerOut, innerOut) /\ innerOut' = EmptyQueues
          /\ UNCHANGED <<outerIn, innerIn, sent, delivered>>
      BY <1>4, <2>1 DEF InnerBwClock, HandedOver, history
    <3>2. QueuesOK'
      BY <3>1, FollowedType
    <3>3. ASSUME NEW p \in Path PROVE PathStep(p)
      <4>1. /\ outerOut'[p] = outerOut[p] \o innerOut[p] /\ innerOut'[p] = << >>
            /\ outerIn'[p] = outerIn[p] /\ innerIn'[p] = innerIn[p]
        BY <3>1 DEF Followed, EmptyQueues
      <4>2. InFlight(p)' = InFlight(p)
        BY <4>1, InFlightRegroup DEF InFlight
      <4> QED BY <3>1, <4>2 DEF PathStep, Untouched
    <3> QED BY <3>2, <3>3
  <2>2. CASE ~isFullCycle(innerNow, CycleTime)
    <3>1. /\ outerOut' = Followed(outerOut, EmptyQueues)
          /\ UNCHANGED <<innerOut, outerIn, innerIn, sent, delivered>>
      BY <1>4, <2>2 DEF InnerBwClock, HandedOver, history
    <3>2. outerOut' = outerOut
      BY <3>1, FollowedType
    <3> QED BY <3>1, <3>2, <1>s
  <2> QED BY <2>1, <2>2
<1>5. CASE BwClock
  <2>1. CASE isFullCycle(now, CycleTime)
    <3>1. /\ delivered' = Followed(delivered, outerOut) /\ outerOut' = EmptyQueues
          /\ UNCHANGED <<outerIn, innerIn, innerOut, sent>>
      BY <1>5, <2>1 DEF BwClock, innerVars
    <3>2. QueuesOK'
      BY <3>1, FollowedType
    <3>3. ASSUME NEW p \in Path PROVE PathStep(p)
      <4>4. /\ outerOut'[p] = << >> /\ innerOut'[p] = innerOut[p]
            /\ outerIn'[p] = outerIn[p] /\ innerIn'[p] = innerIn[p]
        BY <3>1 DEF EmptyQueues
      <4>1. InFlight(p) = outerOut[p] \o InFlight(p)'
        BY <4>4, InFlightRegroup DEF InFlight
      <4>2. delivered'[p] = delivered[p] \o outerOut[p]
        BY <3>1 DEF Followed
      <4>3. outerOut[p] \in Seq(Message)
        BY InFlightType
      <4> QED BY <3>1, <4>1, <4>2, <4>3 DEF PathStep, Passed
    <3> QED BY <3>2, <3>3
  <2>2. CASE ~isFullCycle(now, CycleTime)
    BY <1>5, <2>2, <1>s DEF BwClock, innerVars
  <2> QED BY <2>1, <2>2
<1>6. CASE UNCHANGED <<innerIn, innerOut, outerIn, outerOut, sent, delivered>>
  BY <1>6, <1>s
<1>7. InnerStep \/ Tick \/ UNCHANGED vars
        => \/ InnerFwClock /\ UNCHANGED <<outerVars, history>>
           \/ /\ InnerBwClock /\ outerOut' = Followed(outerOut, HandedOver)
              /\ UNCHANGED <<outerIn, history>>
           \/ UNCHANGED <<innerIn, innerOut, outerIn, outerOut, sent, delivered>>
  BY DEF InnerStep, InnerAdvance, InnerReturn, Tick, vars, innerVars, outerVars,
         history
<1> QED BY <1>1, <1>2, <1>3, <1>4, <1>5, <1>6, <1>7 DEF Next

-----------------------------------------------------------------------------
(* The theorems.                                                           *)

\* All queues are empty at first.
LEMMA QueuesInit == Init => QueuesOK /\ InOrderExactlyOnce
<1> SUFFICES ASSUME Init PROVE QueuesOK /\ InOrderExactlyOnce
  OBVIOUS
<1>1. /\ innerIn = EmptyQueues /\ innerOut = EmptyQueues
      /\ outerIn = EmptyQueues /\ outerOut = EmptyQueues
      /\ sent = EmptyQueues /\ delivered = EmptyQueues
  BY DEF Init, InnerInit
<1>2. EmptyQueues \in Queues
  BY DEF EmptyQueues, Queues
<1>3. << >> \o << >> = << >>
  BY ConcatEmptySeq
<1> QED
  BY <1>1, <1>2, <1>3 DEF QueuesOK, InOrderExactlyOnce, InFlight, EmptyQueues

\* The six queues hold messages in every reachable state.
LEMMA QueuesTyped == Spec => []QueuesOK
<1>1. Init => QueuesOK
  BY QueuesInit
<1>2. QueuesOK /\ [Next]_vars => QueuesOK'
  BY StepOfPath
<1> QED BY <1>1, <1>2, PTL DEF Spec

\* Nothing that gem5 passes to the bridge is lost, duplicated or reordered on
\* its path, whatever the cycle time and however the two kernels interleave.
THEOREM InOrder == Spec => []InOrderExactlyOnce
<1>1. Init => InOrderExactlyOnce
  BY QueuesInit
<1>2. QueuesOK /\ InOrderExactlyOnce /\ [Next]_vars => InOrderExactlyOnce'
  <2> SUFFICES ASSUME QueuesOK, InOrderExactlyOnce, [Next]_vars, NEW p \in Path
               PROVE  sent'[p] = delivered'[p] \o InFlight(p)'
    BY DEF InOrderExactlyOnce, InFlight
  <2>1. sent[p] = delivered[p] \o InFlight(p)
    BY DEF InOrderExactlyOnce
  <2>2. delivered[p] \in Seq(Message) /\ InFlight(p) \in Seq(Message)
    BY InFlightType DEF QueuesOK, Queues
  <2>3. InFlight(p)' \in Seq(Message)
    <3>1. QueuesOK'
      BY StepOfPath
    <3>2. /\ outerOut'[p] \in Seq(Message) /\ innerOut'[p] \in Seq(Message)
          /\ innerIn'[p] \in Seq(Message) /\ outerIn'[p] \in Seq(Message)
      BY <3>1 DEF QueuesOK, Queues
    <3>3. (outerOut'[p] \o innerOut'[p]) \o innerIn'[p] \in Seq(Message)
      BY <3>2, ConcatProperties
    <3> QED BY <3>2, <3>3, ConcatProperties DEF InFlight
  <2>4. CASE Untouched(p)
    BY <2>1, <2>4 DEF Untouched
  <2>5. CASE Accepted(p)
    BY <2>1, <2>2, <2>5, AppendLast DEF Accepted
  <2>6. CASE Passed(p)
    <3>1. PICK out \in Seq(Message) :
            /\ delivered'[p] = delivered[p] \o out
            /\ InFlight(p) = out \o InFlight(p)'
            /\ sent'[p] = sent[p]
      BY <2>6 DEF Passed
    <3> DEFINE rest == InFlight(p)'
               done == delivered[p]
    <3>2. rest \in Seq(Message) /\ done \in Seq(Message)
      BY <2>2, <2>3
    <3>3. InFlight(p) = out \o rest /\ delivered'[p] = done \o out
      BY <3>1
    <3>4. sent'[p] = done \o (out \o rest)
      BY <2>1, <3>1
    <3> HIDE DEF rest, done
    <3>5. (done \o out) \o rest = done \o (out \o rest)
      BY <3>2, ConcatAssociative
    <3>6. sent'[p] = delivered'[p] \o rest
      BY <3>3, <3>4, <3>5
    <3> QED BY <3>6 DEF rest
  <2> QED BY <2>4, <2>5, <2>6, StepOfPath DEF PathStep
<1> QED BY <1>1, <1>2, QueuesTyped, PTL DEF Spec

\* Cutting a concatenation where it was made.
LEMMA CutConcat ==
  ASSUME NEW out \in Seq(Message), NEW rest \in Seq(Message), out # << >>
  PROVE  LET s == out \o rest  n == Len(out)
         IN /\ n \in 1 .. Len(s)
            /\ SubSeq(s, 1, n) = out
            /\ SubSeq(s, n + 1, Len(s)) = rest
<1> DEFINE s == out \o rest  n == Len(out)
<1>1. /\ s \in Seq(Message) /\ Len(s) = n + Len(rest)
      /\ n \in Nat \ {0} /\ Len(rest) \in Nat
  BY ConcatProperties, EmptySeq
<1>2. SubSeq(s, 1, n) = out
  <2>1. SubSeq(s, 1, n) = SubSeq(out, 1, n)
    BY <1>1, SubSeqOfConcat1
  <2> QED BY <2>1, SubSeqFull
<1>3. SubSeq(s, n + 1, Len(s)) = rest
  <2>1. CASE rest = << >>
    BY <1>1, <2>1, SubSeqEmpty
  <2>2. CASE rest # << >>
    <3>1. Len(rest) \in Nat \ {0}
      BY <2>2, EmptySeq
    <3>2. SubSeq(s, n + 1, n + Len(rest)) = SubSeq(rest, 1, Len(rest))
      BY <1>1, <3>1, SubSeqOfConcat2
    <3> QED BY <1>1, <3>2, SubSeqFull
  <2> QED BY <2>1, <2>2
<1> QED BY <1>1, <1>2, <1>3

\* What bwClock passes on is a prefix of what is in flight on its path.
LEMMA PassedCut ==
  ASSUME QueuesOK, QueuesOK', NEW p \in Path, Passed(p)
  PROVE  \/ Untouched(p)
         \/ \E n \in 1 .. Len(InFlight(p)) :
              /\ delivered'[p] = delivered[p] \o SubSeq(InFlight(p), 1, n)
              /\ InFlight(p)' = SubSeq(InFlight(p), n + 1, Len(InFlight(p)))
              /\ sent'[p] = sent[p]
<1> DEFINE rest == InFlight(p)'
           full == InFlight(p)
<1>1. PICK out \in Seq(Message) :
        /\ delivered'[p] = delivered[p] \o out
        /\ full = out \o rest
        /\ sent'[p] = sent[p]
  BY DEF Passed
<1>2. rest \in Seq(Message)
  <2>1. /\ outerOut'[p] \in Seq(Message) /\ innerOut'[p] \in Seq(Message)
        /\ innerIn'[p] \in Seq(Message) /\ outerIn'[p] \in Seq(Message)
    BY DEF QueuesOK, Queues
  <2>2. (outerOut'[p] \o innerOut'[p]) \o innerIn'[p] \in Seq(Message)
    BY <2>1, ConcatProperties
  <2> QED BY <2>1, <2>2, ConcatProperties DEF InFlight
<1>3. delivered[p] \in Seq(Message)
  BY DEF QueuesOK, Queues
<1> HIDE DEF rest, full
<1>4. CASE out = << >>
  <2>1. full = rest /\ delivered'[p] = delivered[p]
    BY <1>1, <1>2, <1>3, <1>4, ConcatEmptySeq
  <2> QED BY <1>1, <2>1 DEF Untouched, rest, full
<1>5. CASE out # << >>
  <2>1. /\ Len(out) \in 1 .. Len(full)
        /\ SubSeq(full, 1, Len(out)) = out
        /\ SubSeq(full, Len(out) + 1, Len(full)) = rest
    BY <1>1, <1>2, <1>5, CutConcat
  <2>2. \E n \in 1 .. Len(full) :
          /\ delivered'[p] = delivered[p] \o SubSeq(full, 1, n)
          /\ rest = SubSeq(full, n + 1, Len(full))
          /\ sent'[p] = sent[p]
    BY <1>1, <2>1
  <2> QED BY <2>2 DEF rest, full
<1> QED BY <1>4, <1>5

\* Each path of the bridge is an unbounded FIFO channel: the bridge implements
\* FifoChannel, once for requests and once for responses.
THEOREM PathsRefine == Spec => PathsAreFifoChannels
<1>1. Init => FwChannel!Init /\ BwChannel!Init
  <2> SUFFICES ASSUME Init PROVE FwChannel!Init /\ BwChannel!Init
    OBVIOUS
  <2>1. /\ innerIn = EmptyQueues /\ innerOut = EmptyQueues
        /\ outerIn = EmptyQueues /\ outerOut = EmptyQueues
        /\ sent = EmptyQueues /\ delivered = EmptyQueues
    BY DEF Init, InnerInit
  <2>2. << >> \o << >> = << >>
    BY ConcatEmptySeq
  <2> QED
    BY <2>1, <2>2 DEF FwChannel!Init, BwChannel!Init, InFlight, EmptyQueues, Path
<1>2. QueuesOK /\ [Next]_vars => /\ [FwChannel!Next]_FwChannel!channelVars
                                 /\ [BwChannel!Next]_BwChannel!channelVars
  <2> SUFFICES ASSUME QueuesOK, [Next]_vars
               PROVE  /\ [FwChannel!Next]_FwChannel!channelVars
                      /\ [BwChannel!Next]_BwChannel!channelVars
    OBVIOUS
  <2>1. QueuesOK' /\ \A p \in Path : PathStep(p)
    BY StepOfPath
  <2>2. \A p \in Path :
          \/ Untouched(p)
          \/ Accepted(p)
          \/ \E n \in 1 .. Len(InFlight(p)) :
               /\ delivered'[p] = delivered[p] \o SubSeq(InFlight(p), 1, n)
               /\ InFlight(p)' = SubSeq(InFlight(p), n + 1, Len(InFlight(p)))
               /\ sent'[p] = sent[p]
    BY <2>1, PassedCut DEF PathStep
  <2>3. [FwChannel!Next]_FwChannel!channelVars
    BY <2>2 DEF Path, Untouched, Accepted, FwChannel!Next, FwChannel!Accept,
                FwChannel!PassOn, FwChannel!channelVars
  <2>4. [BwChannel!Next]_BwChannel!channelVars
    BY <2>2 DEF Path, Untouched, Accepted, BwChannel!Next, BwChannel!Accept,
                BwChannel!PassOn, BwChannel!channelVars
  <2> QED BY <2>3, <2>4
<1> QED
  BY <1>1, <1>2, QueuesTyped, PTL
  DEF Spec, PathsAreFifoChannels, FwChannel!Spec, BwChannel!Spec

-----------------------------------------------------------------------------
(* Cycle edges.                                                            *)

\* The wait for the next cycle edge is shorter than a cycle.
LEMMA AlignRange ==
  ASSUME NEW t \in Nat
  PROVE  alignAtNext(t, CycleTime) \in 0 .. CycleTime - 1
BY TimeAssumption DEF alignAtNext

\* Remainders are unique.
LEMMA ModUnique ==
  ASSUME NEW k \in Int, NEW r \in 0 .. CycleTime - 1
  PROVE  (CycleTime * k + r) % CycleTime = r
BY TimeAssumption
\* A time is some cycles and a remainder.
LEMMA DivMod ==
  ASSUME NEW t \in Nat
  PROVE  \E k \in Int : t = CycleTime * k + (t % CycleTime)
<1>1. t = CycleTime * (t \div CycleTime) + (t % CycleTime)
BY TimeAssumption
<1>2. t \div CycleTime \in Int
BY TimeAssumption
<1> QED BY <1>1, <1>2

\* alignAtNext is what is missing to the next multiple of the cycle time.
LEMMA AlignValue ==
  ASSUME NEW t \in Nat
  PROVE  alignAtNext(t, CycleTime) =
           IF t % CycleTime = 0 THEN 0 ELSE CycleTime - (t % CycleTime)
<1> DEFINE r == t % CycleTime
<1>1. r \in 0 .. CycleTime - 1
BY TimeAssumption
<1>2. CASE r = 0
 <2>1. (CycleTime * 1 + 0) % CycleTime = 0
   BY ModUnique, TimeAssumption
 <2>2. CycleTime - r = CycleTime * 1 + 0
   BY <1>2, TimeAssumption
 <2> QED BY <1>2, <2>1, <2>2 DEF alignAtNext
<1>3. CASE r # 0
 <2>1. (CycleTime * 0 + (CycleTime - r)) % CycleTime = CycleTime - r
   BY <1>1, <1>3, ModUnique, TimeAssumption
 <2>2. CycleTime - r = CycleTime * 0 + (CycleTime - r)
   BY <1>1, TimeAssumption
 <2> QED BY <1>3, <2>1, <2>2 DEF alignAtNext
<1> QED BY <1>2, <1>3

\* The wait shrinks as time passes.
LEMMA AlignTick ==
  ASSUME NEW t \in Nat, alignAtNext(t, CycleTime) # 0
  PROVE  alignAtNext(t + 1, CycleTime) = alignAtNext(t, CycleTime) - 1
<1>1. PICK k \in Int : t = CycleTime * k + (t % CycleTime)
BY DivMod
<1> DEFINE r == t % CycleTime
<1>2. r \in 1 .. CycleTime - 1 /\ alignAtNext(t, CycleTime) = CycleTime - r
BY AlignValue, TimeAssumption
<1>3. CASE r < CycleTime - 1
  <2>1. t + 1 = CycleTime * k + (r + 1)
    BY <1>1, <1>2, TimeAssumption
  <2>2. (t + 1) % CycleTime = r + 1
    <3>1. r + 1 \in 0 .. CycleTime - 1
      BY <1>2, <1>3, TimeAssumption
    <3> HIDE DEF r
    <3> QED BY <3>1, <2>1, ModUnique
  <2> QED BY <1>2, <2>2, AlignValue, TimeAssumption
<1>4. CASE r = CycleTime - 1
  <2>1. t + 1 = CycleTime * (k + 1) + 0
    BY <1>1, <1>4, TimeAssumption
  <2>2. (t + 1) % CycleTime = 0
    <3>1. k + 1 \in Int /\ 0 \in 0 .. CycleTime - 1
      BY TimeAssumption
    <3>2. (CycleTime * (k + 1) + 0) % CycleTime = 0
      BY <3>1, ModUnique
    <3> HIDE DEF r
    <3> QED BY <3>2, <2>1
  <2> QED BY <1>2, <1>4, <2>2, AlignValue, TimeAssumption
<1> QED BY <1>2, <1>3, <1>4, TimeAssumption

\* The time a notification is made for is a multiple of the cycle time ...
LEMMA NextEdge ==
  ASSUME NEW t \in Nat
  PROVE  \E k \in Nat : t + alignAtNext(t, CycleTime) = CycleTime * k
<1>1. PICK k \in Int : t = CycleTime * k + (t % CycleTime)
BY DivMod
<1>2. t % CycleTime \in 0 .. CycleTime - 1
BY TimeAssumption
<1>2a. k >= 0
  BY <1>1, <1>2, TimeAssumption
<1>3. CASE t % CycleTime = 0
  <2>1. t + alignAtNext(t, CycleTime) = CycleTime * k
    BY <1>1, <1>3, AlignValue, TimeAssumption
  <2> QED BY <2>1, <1>2a
<1>4. CASE t % CycleTime # 0
  <2>1. t + alignAtNext(t, CycleTime) = CycleTime * (k + 1)
   BY <1>1, <1>2, <1>4, AlignValue, TimeAssumption
  <2> QED BY <2>1, <1>2a
<1> QED BY <1>3, <1>4

\* ... which is what isFullCycle recognises ...
LEMMA FullCycle ==
  ASSUME NEW t \in Nat
  PROVE  isFullCycle(t, CycleTime) <=> \E k \in Nat : t = CycleTime * k
<1>1. ASSUME NEW k \in Nat, t = CycleTime * k PROVE isFullCycle(t, CycleTime)
  <2>1. t = CycleTime * k + 0
    BY <1>1, TimeAssumption
  <2>2. t % CycleTime = 0
    BY <2>1, ModUnique, TimeAssumption
  <2> QED BY <2>2, AlignValue DEF isFullCycle
<1>2. ASSUME isFullCycle(t, CycleTime) PROVE \E k \in Nat : t = CycleTime * k
  <2>1. t + alignAtNext(t, CycleTime) = t
    BY <1>2 DEF isFullCycle
  <2> QED BY <2>1, NextEdge
<1> QED BY <1>1, <1>2

\* ... and a cycle later there is another one ...
LEMMA EdgeIsFull ==
  ASSUME NEW t \in Nat
  PROVE  /\ isFullCycle(t + alignAtNext(t, CycleTime), CycleTime)
         /\ isFullCycle(t, CycleTime) => isFullCycle(t + CycleTime, CycleTime)
<1>1. t + alignAtNext(t, CycleTime) \in Nat
  BY AlignRange, TimeAssumption
<1>2. isFullCycle(t + alignAtNext(t, CycleTime), CycleTime)
  BY <1>1, NextEdge, FullCycle
<1>3. ASSUME isFullCycle(t, CycleTime) PROVE isFullCycle(t + CycleTime, CycleTime)
  <2>1. PICK k \in Nat : t = CycleTime * k
    BY <1>3, FullCycle
  <2>2. t + CycleTime = CycleTime * (k + 1)
    BY <2>1, TimeAssumption
  <2>3. t + CycleTime \in Nat
    BY TimeAssumption
  <2> QED BY <2>2, <2>3, FullCycle
<1> QED BY <1>2, <1>3

\* ... but none before it.
LEMMA NoEdgeBetween ==
  ASSUME NEW t \in Nat, NEW u \in Nat, t <= u, isFullCycle(u, CycleTime)
  PROVE  t + alignAtNext(t, CycleTime) <= u
<1>1. PICK k \in Nat : t + alignAtNext(t, CycleTime) = CycleTime * k
  BY NextEdge
<1>2. PICK j \in Nat : u = CycleTime * j
  BY FullCycle
<1>3. alignAtNext(t, CycleTime) \in 0 .. CycleTime - 1
  BY AlignRange
<1>4. CASE j >= k
  BY <1>1, <1>2, <1>4, TimeAssumption
<1>5. CASE j < k
  <2>1. k - j >= 1
    BY <1>5
  <2>2. CycleTime * (k - j) >= CycleTime
    BY <2>1, TimeAssumption
  <2>3. CycleTime * (k - j) = CycleTime * k - CycleTime * j
    BY TimeAssumption
  <2> QED BY <1>1, <1>2, <1>3, <2>2, <2>3, TimeAssumption
<1> QED BY <1>4, <1>5

\* The cycle edge a notification made at this time is for.
nextEdge(time) == time + alignAtNext(time, CycleTime)

\* What the clocks rely on.
LEMMA EdgeFacts ==
  ASSUME NEW t \in Nat
  PROVE  /\ nextEdge(t) \in Nat
         /\ t <= nextEdge(t) /\ nextEdge(t) < t + CycleTime
         /\ isFullCycle(nextEdge(t), CycleTime)
         /\ isFullCycle(t, CycleTime) <=> nextEdge(t) = t
         /\ isFullCycle(t, CycleTime) => isFullCycle(t + CycleTime, CycleTime)
         /\ nextEdge(t) # t => nextEdge(t + 1) = nextEdge(t)
         /\ \A u \in Nat : t <= u /\ isFullCycle(u, CycleTime) => nextEdge(t) <= u
<1> DEFINE a == alignAtNext(t, CycleTime)
<1>1. a \in Nat /\ 0 <= a /\ a < CycleTime /\ nextEdge(t) = t + a
  BY AlignRange, TimeAssumption DEF nextEdge
<1>2. isFullCycle(t, CycleTime) <=> a = 0
  BY DEF isFullCycle
<1>3. isFullCycle(nextEdge(t), CycleTime)
  BY EdgeIsFull DEF nextEdge
<1>4. isFullCycle(t, CycleTime) => isFullCycle(t + CycleTime, CycleTime)
  BY EdgeIsFull
<1>5. ASSUME a # 0 PROVE nextEdge(t + 1) = nextEdge(t)
  <2>1. alignAtNext(t + 1, CycleTime) = a - 1
    BY <1>5, AlignTick
  <2> HIDE DEF a
  <2> QED BY <1>1, <2>1 DEF nextEdge
<1>6. ASSUME NEW u \in Nat, t <= u, isFullCycle(u, CycleTime)
      PROVE  nextEdge(t) <= u
  BY <1>6, NoEdgeBetween DEF nextEdge
<1> HIDE DEF a
<1> QED BY <1>1, <1>2, <1>3, <1>4, <1>5, <1>6, TimeAssumption

-----------------------------------------------------------------------------
(* The two clocks.                                                         *)

TimesOK ==
  /\ now \in Nat /\ innerNow \in Nat
  /\ until \in Nat \union {Never}
  /\ fwEvent \in Nat \union {Never} /\ bwEvent \in Nat \union {Never}
  /\ innerFwEvent \in Nat \union {Never} /\ innerBwEvent \in Nat \union {Never}

\* gem5's kernel: events are pending for cycle edges, fwClock at most a cycle
\* ahead, and a queue that holds something has its event pending.
OuterClockOK ==
  /\ fwEvent # Never =>
       /\ isFullCycle(fwEvent, CycleTime)
       /\ now <= fwEvent /\ fwEvent <= now + CycleTime
  /\ bwEvent # Never => bwEvent = now /\ isFullCycle(now, CycleTime)
  /\ outerOut # EmptyQueues => bwEvent = now
  /\ outerIn # EmptyQueues => ~InKernel /\ fwEvent = nextEdge(now)

\* The inner kernel: it rests at a cycle edge that gem5's kernel has reached,
\* every event of its is due at once, and what it has not yet run is run no
\* later than a cycle after that edge.
InnerClockOK ==
  /\ isFullCycle(innerNow, CycleTime) /\ innerNow <= now
  /\ innerFwEvent \in {Never, innerNow}
  /\ innerBwEvent \in {Never, innerNow}
  /\ innerIn # EmptyQueues => innerFwEvent = innerNow
  /\ innerOut # EmptyQueues => innerBwEvent = innerNow
  /\ innerBwEvent # Never => InKernel
  /\ innerIn # EmptyQueues /\ ~InKernel =>
       fwEvent # Never /\ fwEvent <= innerNow + CycleTime

\* Inside scnode_start: called at a cycle edge, which is where it will stop
\* with nothing left to run; fwClock has asked for the next edge.
KernelOK ==
  InKernel =>
    /\ until = now /\ isFullCycle(now, CycleTime) /\ fwEvent = now + CycleTime
    /\ innerNow = until => innerFwEvent = Never /\ innerBwEvent = Never

ClockInv == TimesOK /\ OuterClockOK /\ InnerClockOK /\ KernelOK

\* A notification is for the next edge unless an earlier one was pending.
LEMMA NotifyEdge ==
  ASSUME NEW t \in Nat, NEW event \in Nat \union {Never},
         event # Never => t <= event /\ isFullCycle(event, CycleTime)
  PROVE  NotifyAligned(event, t) = nextEdge(t)
<1>1. CASE event = Never
  BY <1>1 DEF NotifyAligned, Notify, nextEdge
<1>2. CASE event # Never
  <2>1. event \in Nat /\ nextEdge(t) \in Nat /\ nextEdge(t) <= event
    BY <1>2, EdgeFacts
  <2> QED BY <2>1 DEF NotifyAligned, Notify, nextEdge
<1> QED BY <1>1, <1>2

\* No clock is running at first.
LEMMA ClockInit == Init => ClockInv
<1> SUFFICES ASSUME Init PROVE ClockInv
  OBVIOUS
<1>1. 0 \in Nat /\ isFullCycle(0, CycleTime)
  <2>1. 0 = CycleTime * 0
    BY TimeAssumption
  <2> QED BY <2>1, FullCycle
<1> QED
  BY <1>1, TimeAssumption
  DEF Init, InnerInit, ClockInv, TimesOK, OuterClockOK, InnerClockOK, KernelOK,
      InKernel

\* Every step of either kernel keeps the clocks' discipline.
LEMMA ClockStep ==
  ASSUME QueuesOK, ClockInv, [Next]_vars
  PROVE  ClockInv'
<1> USE DEF ClockInv, TimesOK, OuterClockOK, InnerClockOK, KernelOK, InKernel
<1>0. /\ CycleTime \in Nat /\ CycleTime > 0
      /\ \A t \in Nat : t # Never
  BY TimeAssumption
<1>e. /\ nextEdge(now) \in Nat /\ now <= nextEdge(now)
      /\ nextEdge(now) < now + CycleTime
      /\ isFullCycle(nextEdge(now), CycleTime)
      /\ isFullCycle(now, CycleTime) <=> nextEdge(now) = now
      /\ isFullCycle(now, CycleTime) => isFullCycle(now + CycleTime, CycleTime)
      /\ nextEdge(now) # now => nextEdge(now + 1) = nextEdge(now)
      /\ nextEdge(innerNow) = innerNow
      /\ fwEvent # Never => nextEdge(now) <= fwEvent
  BY EdgeFacts
<1>n. /\ NotifyAligned(fwEvent, now) = nextEdge(now)
      /\ NotifyAligned(bwEvent, now) = nextEdge(now)
      /\ NotifyAligned(innerFwEvent, innerNow) = innerNow
      /\ NotifyAligned(innerBwEvent, innerNow) = innerNow
  BY <1>e, NotifyEdge
<1>1. ASSUME NEW q \in Path, NEW m \in Message, NbTransport(q, m)
      PROVE  ClockInv'
  <2>1. /\ ~InKernel
        /\ fwEvent' = nextEdge(now)
        /\ UNCHANGED <<now, bwEvent, outerOut, innerNow, until, innerFwEvent,
                       innerBwEvent, innerIn, innerOut>>
    BY <1>1, <1>n DEF NbTransport, innerVars
  <2>2. TimesOK'
    BY <2>1, <1>e
  <2>3. OuterClockOK'
    BY <2>1, <1>e, <1>0
  <2>4. InnerClockOK'
    BY <2>1, <1>e, <1>0
  <2>5. KernelOK'
    BY <2>1
  <2> QED BY <2>2, <2>3, <2>4, <2>5
<1>2. CASE FwClock
  <2>1. isFullCycle(now, CycleTime) /\ ~InKernel /\ fwEvent = now
    BY <1>2, <1>0 DEF FwClock
  <2>2. /\ outerIn' = EmptyQueues
        /\ fwEvent' = now + CycleTime
        /\ innerIn' = Followed(innerIn, outerIn)
        /\ innerFwEvent' = innerNow
        /\ until' = IF now > innerNow THEN now ELSE Never
        /\ UNCHANGED <<now, bwEvent, outerOut, innerNow, innerBwEvent, innerOut>>
    BY <1>2, <2>1, <1>n DEF FwClock, Start
  <2>3. TimesOK'
    BY <2>2, <1>0
  <2>4. OuterClockOK'
    BY <2>1, <2>2, <1>0, <1>e
  <2>5. InnerClockOK'
    BY <2>1, <2>2, <1>0
  <2>6. KernelOK'
    BY <2>1, <2>2, <1>0
  <2> QED BY <2>3, <2>4, <2>5, <2>6
<1>3. CASE InnerFwClock /\ UNCHANGED <<outerVars, history>>
  <2>1. InKernel /\ innerNow < until /\ innerFwEvent = innerNow
    BY <1>3 DEF InnerFwClock, Runs
  <2>2. /\ innerOut' = Followed(innerOut, innerIn)
        /\ innerIn' = EmptyQueues
        /\ innerBwEvent' = IF innerIn = EmptyQueues THEN innerBwEvent ELSE innerNow
        /\ innerFwEvent' = Never
        /\ UNCHANGED <<innerNow, until, now, fwEvent, bwEvent, outerIn, outerOut>>
    BY <1>3, <1>n DEF InnerFwClock, outerVars
  <2>3. innerIn = EmptyQueues => innerOut' = innerOut
    BY <2>2, FollowedType DEF QueuesOK
  <2>4. TimesOK'
    BY <2>2
  <2>5. OuterClockOK'
    BY <2>2
  <2>6. InnerClockOK'
    BY <2>1, <2>2, <2>3, <1>0
  <2>7. KernelOK'
    BY <2>1, <2>2, <1>0
  <2> QED BY <2>4, <2>5, <2>6, <2>7
<1>4. CASE /\ InnerBwClock
           /\ outerOut' = Followed(outerOut, HandedOver)
           /\ bwEvent' = IF HandedOver = EmptyQueues THEN bwEvent
                         ELSE NotifyAligned(bwEvent, now)
           /\ UNCHANGED <<now, fwEvent, outerIn, history>>
  <2>1. InKernel /\ innerNow < until /\ until = now /\ isFullCycle(now, CycleTime)
    BY <1>4 DEF InnerBwClock, Runs
  <2>2. /\ innerOut' = EmptyQueues /\ innerBwEvent' = Never
        /\ outerOut' = Followed(outerOut, innerOut)
        /\ bwEvent' = IF innerOut = EmptyQueues THEN bwEvent ELSE now
        /\ UNCHANGED <<innerNow, until, innerFwEvent, innerIn, now, fwEvent,
                       outerIn>>
    BY <1>4, <1>n, <1>e, <2>1 DEF InnerBwClock, HandedOver
  <2>3. innerOut = EmptyQueues => outerOut' = outerOut
    BY <2>2, FollowedType DEF QueuesOK
  <2>4. TimesOK'
    BY <2>2
  <2>5. OuterClockOK'
    BY <2>1, <2>2, <2>3
  <2>6. InnerClockOK'
    BY <2>1, <2>2
  <2>7. KernelOK'
    BY <2>1, <2>2, <1>0
  <2> QED BY <2>4, <2>5, <2>6, <2>7
<1>5. CASE InnerAdvance /\ UNCHANGED <<outerVars, history>>
  <2>1. InKernel /\ innerFwEvent = Never /\ innerBwEvent = Never
    BY <1>5 DEF InnerAdvance
  <2>2. {until, innerFwEvent, innerBwEvent} \ {Never} = {until}
    BY <2>1
  <2>3. innerNow' = (CHOOSE t \in {until} : \A u \in {until} : t <= u)
    BY <1>5, <2>2 DEF InnerAdvance
  <2>4. innerNow' = until
    BY <2>1, <2>3, <1>0
  <2>5. UNCHANGED <<until, innerFwEvent, innerBwEvent, innerIn, innerOut, now,
                    fwEvent, bwEvent, outerIn, outerOut>>
    BY <1>5 DEF InnerAdvance, outerVars
  <2> QED BY <2>1, <2>4, <2>5, <1>0
<1>6. CASE InnerReturn /\ UNCHANGED <<outerVars, history>>
  <2>1. InKernel /\ innerNow = until
    BY <1>6 DEF InnerReturn
  <2>2. /\ until' = Never
        /\ UNCHANGED <<innerNow, innerFwEvent, innerBwEvent, innerIn, innerOut, now,
                       fwEvent, bwEvent, outerIn, outerOut>>
    BY <1>6 DEF InnerReturn, outerVars
  <2> QED BY <2>1, <2>2, <1>0
<1>7. CASE BwClock
  <2>1. ~InKernel /\ bwEvent = now /\ isFullCycle(now, CycleTime)
    BY <1>7, <1>0 DEF BwClock
  <2>2. /\ outerOut' = EmptyQueues /\ bwEvent' = Never
        /\ UNCHANGED <<innerNow, until, innerFwEvent, innerBwEvent, innerIn, innerOut,
                       now, fwEvent, outerIn>>
    BY <1>7, <2>1 DEF BwClock, innerVars
  <2> QED BY <2>1, <2>2
<1>8. CASE Tick
  <2>1. /\ ~InKernel /\ fwEvent # now /\ bwEvent = Never /\ now' = now + 1
        /\ UNCHANGED <<innerNow, until, innerFwEvent, innerBwEvent, innerIn, innerOut,
                       fwEvent, bwEvent, outerIn, outerOut>>
    BY <1>8, <1>0 DEF Tick, innerVars
  <2>2. TimesOK'
    BY <2>1
  <2>3. OuterClockOK'
    BY <2>1, <1>e, <1>0
  <2>4. InnerClockOK' /\ KernelOK'
    BY <2>1
  <2> QED BY <2>2, <2>3, <2>4
<1>9. CASE UNCHANGED vars
  BY <1>9 DEF vars, innerVars, outerVars
<1> QED
  BY <1>1, <1>2, <1>3, <1>4, <1>5, <1>6, <1>7, <1>8, <1>9
  DEF Next, InnerStep

\* The discipline holds in every reachable state.
LEMMA Clocks == Spec => []ClockInv
<1>1. QueuesOK /\ ClockInv /\ [Next]_vars => ClockInv'
  BY ClockStep
<1> QED BY <1>1, ClockInit, QueuesTyped, PTL DEF Spec

\* A queue of the bridge that holds something always has its wake-up pending: its
\* own event, or the fwClock that calls start again by the next cycle edge. No
\* interleaving of the two kernels' clocks loses a notification.
THEOREM NoWakeupLost == Spec => []NoLostWakeup
<1>1. ClockInv => NoLostWakeup
  BY TimeAssumption
  DEF ClockInv, TimesOK, OuterClockOK, InnerClockOK, NoLostWakeup, nextEdge, InKernel
<1> QED BY <1>1, Clocks, PTL
-----------------------------------------------------------------------------
(* Types, and how long a message stays inside.                             *)

SentAtOK == sentAt \in [Path -> Seq(Nat)]

\* Every state the bridge reaches is well typed; no pending notification of
\* either kernel is in its past, as sc_event requires.
THEOREM TypeCorrect == Spec => []TypeOK
<1>1. Init => SentAtOK
  BY DEF Init, SentAtOK, EmptyQueues
<1>2. TimesOK /\ SentAtOK /\ [Next]_vars => SentAtOK'
  <2> SUFFICES ASSUME TimesOK, SentAtOK, [Next]_vars PROVE SentAtOK'
    OBVIOUS
  <2>1. ASSUME NEW p \in Path, NEW m \in Message, NbTransport(p, m)
        PROVE  SentAtOK'
    BY <2>1 DEF NbTransport, SentAtOK, TimesOK
  <2>2. CASE UNCHANGED sentAt
    BY <2>2 DEF SentAtOK
  <2> QED
    BY <2>1, <2>2
    DEF Next, FwClock, InnerStep, BwClock, Tick, vars, outerVars, history
<1>3. ClockInv /\ QueuesOK /\ SentAtOK => TypeOK
  <2> SUFFICES ASSUME ClockInv, QueuesOK, SentAtOK PROVE TypeOK
    OBVIOUS
  <2>1. InnerTypeOK
    BY DEF ClockInv, TimesOK, InnerClockOK, QueuesOK, InnerTypeOK, EventAt
  <2>2. fwEvent \in EventAt(now) /\ bwEvent \in EventAt(now)
    BY DEF ClockInv, TimesOK, OuterClockOK, EventAt
  <2> QED BY <2>1, <2>2 DEF ClockInv, TimesOK, QueuesOK, SentAtOK, TypeOK
<1>4. ClockInv => TimesOK
  BY DEF ClockInv
<1> QED BY <1>1, <1>2, <1>3, <1>4, Clocks, QueuesTyped, PTL DEF Spec

\* The first cycle edge at which fwClock may take message i of path p.
EdgeOf(p, i) == nextEdge(sentAt[p][i])

\* A message not yet delivered is at most a cycle past its edge; while it waits
\* for fwClock its edge is the next one; and while it waits for the inner
\* kernel that kernel rests no later than its edge.
PathLatency(p) ==
  LET total == Len(sent[p])
  IN /\ Len(sentAt[p]) = total
     /\ \A i \in Len(delivered[p]) + 1 .. total :
          /\ now <= EdgeOf(p, i) + CycleTime
          /\ i > total - Len(outerIn[p]) => EdgeOf(p, i) = nextEdge(now)
          /\ ~InKernel /\ i > total - Len(outerIn[p]) - Len(innerIn[p])
               => innerNow <= EdgeOf(p, i)

LatencyInv == \A p \in Path : PathLatency(p)

\* What was sent is what was delivered and what the four queues hold.
LEMMA PathLengths ==
  ASSUME QueuesOK, InOrderExactlyOnce, NEW p \in Path
  PROVE  /\ Len(sent[p]) \in Nat /\ Len(delivered[p]) \in Nat
         /\ Len(outerOut[p]) \in Nat /\ Len(innerOut[p]) \in Nat
         /\ Len(innerIn[p]) \in Nat /\ Len(outerIn[p]) \in Nat
         /\ Len(sent[p]) = Len(delivered[p]) + Len(outerOut[p]) + Len(innerOut[p])
                             + Len(innerIn[p]) + Len(outerIn[p])
<1>1. /\ outerOut[p] \in Seq(Message) /\ innerOut[p] \in Seq(Message)
      /\ innerIn[p] \in Seq(Message) /\ outerIn[p] \in Seq(Message)
      /\ (outerOut[p] \o innerOut[p]) \o innerIn[p] \in Seq(Message)
      /\ InFlight(p) \in Seq(Message)
      /\ delivered[p] \in Seq(Message) /\ sent[p] \in Seq(Message)
  BY InFlightType DEF QueuesOK, Queues
<1>2. Len(sent[p]) = Len(delivered[p]) + Len(InFlight(p))
  BY <1>1, ConcatProperties DEF InOrderExactlyOnce
<1>3. Len(InFlight(p))
        = Len((outerOut[p] \o innerOut[p]) \o innerIn[p]) + Len(outerIn[p])
  BY <1>1, ConcatProperties DEF InFlight
<1>4. /\ outerOut[p] \o innerOut[p] \in Seq(Message)
      /\ Len(outerOut[p] \o innerOut[p]) = Len(outerOut[p]) + Len(innerOut[p])
  BY <1>1, ConcatProperties
<1>5. Len((outerOut[p] \o innerOut[p]) \o innerIn[p])
        = Len(outerOut[p] \o innerOut[p]) + Len(innerIn[p])
  BY <1>1, <1>4, ConcatProperties
<1>6. /\ Len(sent[p]) \in Nat /\ Len(delivered[p]) \in Nat
      /\ Len(outerOut[p]) \in Nat /\ Len(innerOut[p]) \in Nat
      /\ Len(innerIn[p]) \in Nat /\ Len(outerIn[p]) \in Nat
  BY <1>1
<1>7. Len(sent[p]) = Len(delivered[p])
        + (((Len(outerOut[p]) + Len(innerOut[p])) + Len(innerIn[p])) + Len(outerIn[p]))
  BY <1>2, <1>3, <1>4, <1>5
<1> DEFINE a == Len(outerOut[p])  b == Len(innerOut[p])  c == Len(innerIn[p])
           e == Len(outerIn[p])   f == Len(delivered[p])
<1>8. a \in Nat /\ b \in Nat /\ c \in Nat /\ e \in Nat /\ f \in Nat
      /\ Len(sent[p]) = f + (((a + b) + c) + e)
  BY <1>6, <1>7
<1> HIDE DEF a, b, c, e, f
<1>9. f + (((a + b) + c) + e) = f + a + b + c + e
  BY <1>8
<1> QED BY <1>6, <1>8, <1>9 DEF a, b, c, e, f

\* An empty queue is empty on each path.
LEMMA EmptyPath ==
  ASSUME NEW q \in Queues, NEW p \in Path
  PROVE  /\ q = EmptyQueues => Len(q[p]) = 0
         /\ Len(EmptyQueues[p]) = 0
BY DEF Queues, EmptyQueues

\* No step makes an undelivered message late.
LEMMA LatencyStep ==
  ASSUME QueuesOK, InOrderExactlyOnce, ClockInv, SentAtOK, LatencyInv, [Next]_vars
  PROVE  LatencyInv'
<1> SUFFICES ASSUME NEW p \in Path PROVE PathLatency(p)'
  BY DEF LatencyInv
<1> DEFINE s  == Len(sent[p])
           d  == Len(delivered[p])
           w  == Len(innerIn[p])
           o  == Len(outerIn[p])
           r  == Len(outerOut[p]) + Len(innerOut[p])
<1>0. /\ CycleTime \in Nat /\ CycleTime > 0 /\ now \in Nat /\ innerNow \in Nat
      /\ innerNow <= now
      /\ \A t \in Nat : t # Never
  BY TimeAssumption DEF ClockInv, TimesOK, InnerClockOK
<1>l. /\ s \in Nat /\ d \in Nat /\ w \in Nat /\ o \in Nat /\ r \in Nat
      /\ s = d + r + w + o
  <2> DEFINE a == Len(outerOut[p])  b == Len(innerOut[p])
  <2>1. /\ s \in Nat /\ d \in Nat /\ a \in Nat /\ b \in Nat /\ w \in Nat
        /\ o \in Nat /\ s = d + a + b + w + o /\ r = a + b
    BY PathLengths
  <2> HIDE DEF s, d, w, o, r, a, b
  <2> QED BY <2>1
<1>t. sentAt[p] \in Seq(Nat) /\ Len(sentAt[p]) = s
  BY DEF SentAtOK, LatencyInv, PathLatency
<1>p. \A i \in d + 1 .. s :
        /\ now <= EdgeOf(p, i) + CycleTime
        /\ i > s - o => EdgeOf(p, i) = nextEdge(now)
        /\ ~InKernel /\ i > s - o - w => innerNow <= EdgeOf(p, i)
  BY DEF LatencyInv, PathLatency
<1>q. ASSUME NEW s2, NEW d2, NEW w2, NEW o2,
             Len(sentAt'[p]) = s2, Len(sent'[p]) = s2, Len(delivered'[p]) = d2,
             Len(innerIn'[p]) = w2, Len(outerIn'[p]) = o2,
             \A i \in d2 + 1 .. s2 :
               /\ now' <= EdgeOf(p, i)' + CycleTime
               /\ i > s2 - o2 => EdgeOf(p, i)' = nextEdge(now')
               /\ ~InKernel' /\ i > s2 - o2 - w2 => innerNow' <= EdgeOf(p, i)'
      PROVE  PathLatency(p)'
  BY <1>q DEF PathLatency, nextEdge
<1>x. /\ outerIn = EmptyQueues => o = 0
      /\ innerIn = EmptyQueues => w = 0
      /\ outerOut = EmptyQueues /\ innerOut = EmptyQueues => r = 0
  <2>1. ASSUME outerOut = EmptyQueues, innerOut = EmptyQueues PROVE r = 0
    <3>1. Len(outerOut[p]) = 0 /\ Len(innerOut[p]) = 0
      BY <2>1, EmptyPath DEF QueuesOK
    <3> QED BY <3>1
  <2> QED BY <2>1, EmptyPath DEF QueuesOK
<1>e. \A i \in 1 .. s : sentAt[p][i] \in Nat /\ EdgeOf(p, i) \in Nat
  <2>1. \A i \in 1 .. s : sentAt[p][i] \in Nat
    BY <1>t
  <2> HIDE DEF s
  <2> QED BY <2>1, EdgeFacts DEF EdgeOf
<1>same. ASSUME UNCHANGED <<sent, sentAt>>
         PROVE  /\ Len(sent'[p]) = s /\ Len(sentAt'[p]) = s
                /\ \A i : EdgeOf(p, i)' = EdgeOf(p, i)
  BY <1>same, <1>t DEF EdgeOf
<1>1. ASSUME NEW q \in Path, NEW m \in Message, NbTransport(q, m)
      PROVE  PathLatency(p)'
  <2>1. /\ ~InKernel /\ ~InKernel'
        /\ UNCHANGED <<now, innerNow, until, innerIn, delivered>>
    BY <1>1 DEF NbTransport, innerVars, InKernel
  <2>2. CASE p # q
    <3>1. UNCHANGED <<sent[p], sentAt[p], outerIn[p]>>
      BY <1>1, <2>2 DEF NbTransport, QueuesOK, Queues, SentAtOK
    <3>2. \A i : EdgeOf(p, i)' = EdgeOf(p, i)
      BY <3>1 DEF EdgeOf
    <3>3. /\ Len(sentAt'[p]) = s /\ Len(sent'[p]) = s /\ Len(delivered'[p]) = d
          /\ Len(innerIn'[p]) = w /\ Len(outerIn'[p]) = o
      BY <2>1, <3>1, <1>t
    <3> HIDE DEF s, d, w, o, r
    <3> QED BY <1>p, <1>q, <2>1, <3>2, <3>3
  <2>3. CASE p = q
    <3>1. /\ sent'[p] = Append(sent[p], m) /\ outerIn'[p] = Append(outerIn[p], m)
          /\ sentAt'[p] = Append(sentAt[p], now)
      BY <1>1, <2>3 DEF NbTransport, QueuesOK, Queues, SentAtOK
    <3>2. /\ Len(sent'[p]) = s + 1 /\ Len(outerIn'[p]) = o + 1
          /\ Len(sentAt'[p]) = s + 1
          /\ Len(delivered'[p]) = d /\ Len(innerIn'[p]) = w
      <4>1. sent[p] \in Seq(Message) /\ outerIn[p] \in Seq(Message)
        BY DEF QueuesOK, Queues
      <4> QED BY <2>1, <3>1, <4>1, <1>t, <1>0
    <3>3. /\ \A i \in 1 .. s : sentAt'[p][i] = sentAt[p][i]
          /\ \A i \in Nat : i = s + 1 => sentAt'[p][i] = now
      <4> DEFINE a == sentAt[p]
      <4>1. a \in Seq(Nat) /\ Len(a) = s /\ sentAt'[p] = Append(a, now)
        BY <1>t, <3>1
      <4> HIDE DEF a, s
      <4>2. /\ \A i \in 1 .. s : sentAt'[p][i] = a[i]
            /\ \A i \in Nat : i = s + 1 => sentAt'[p][i] = now
        BY <4>1, <1>0
      <4> QED BY <4>2 DEF a
    <3> HIDE DEF s, d, w, o, r
    <3>4. /\ \A i \in 1 .. s : EdgeOf(p, i)' = EdgeOf(p, i)
          /\ \A i \in Nat : i = s + 1 => EdgeOf(p, i)' = nextEdge(now)
      BY <3>3 DEF EdgeOf, nextEdge
    <3>5. nextEdge(now) \in Nat /\ now <= nextEdge(now)
      BY <1>0, EdgeFacts
    <3>6. ASSUME NEW i \in d + 1 .. s + 1
          PROVE  /\ now <= EdgeOf(p, i)' + CycleTime
                 /\ i > (s + 1) - (o + 1) => EdgeOf(p, i)' = nextEdge(now)
                 /\ i > (s + 1) - (o + 1) - w => innerNow <= EdgeOf(p, i)'
      <4>1. CASE i = s + 1
        <5>1. i \in Nat /\ EdgeOf(p, i)' = nextEdge(now)
          BY <4>1, <3>4, <1>l
        <5> QED BY <5>1, <3>5, <1>0
      <4>2. CASE i # s + 1
        <5>1. i \in d + 1 .. s /\ i \in 1 .. s
          BY <4>2, <1>l
        <5> QED BY <5>1, <3>4, <2>1, <1>p, <1>l
      <4> QED BY <4>1, <4>2
    <3> QED BY <3>2, <3>6, <2>1, <1>q
  <2> QED BY <2>2, <2>3
<1>2. CASE FwClock
  <2>1. ~InKernel /\ isFullCycle(now, CycleTime)
    BY <1>2, <1>0 DEF FwClock, ClockInv, OuterClockOK
  <2>2. /\ innerIn'[p] = innerIn[p] \o outerIn[p] /\ outerIn'[p] = << >>
        /\ UNCHANGED <<now, innerNow, sent, sentAt, delivered>>
    BY <1>2, <2>1 DEF FwClock, Start, history, Followed, EmptyQueues
  <2>3. /\ Len(innerIn'[p]) = w + o /\ Len(outerIn'[p]) = 0
        /\ Len(delivered'[p]) = d
    BY <2>2, InFlightType, ConcatProperties
  <2>4. /\ Len(sent'[p]) = s /\ Len(sentAt'[p]) = s
        /\ \A i : EdgeOf(p, i)' = EdgeOf(p, i)
    BY <2>2, <1>same
  <2> HIDE DEF s, d, w, o, r
  <2>5. ASSUME NEW i \in d + 1 .. s
        PROVE  /\ now' <= EdgeOf(p, i)' + CycleTime
               /\ i > s - 0 => EdgeOf(p, i)' = nextEdge(now')
               /\ ~InKernel' /\ i > s - 0 - (w + o) => innerNow' <= EdgeOf(p, i)'
    BY <1>p, <1>l, <2>1, <2>2, <2>4
  <2> QED BY <2>3, <2>4, <2>5, <1>q
<1>3. CASE InKernel' /\ UNCHANGED <<now, sent, sentAt, delivered, outerIn>>
  <2>1. /\ Len(sent'[p]) = s /\ Len(sentAt'[p]) = s
        /\ \A i : EdgeOf(p, i)' = EdgeOf(p, i)
    BY <1>3, <1>same
  <2>2. Len(delivered'[p]) = d /\ Len(outerIn'[p]) = o
    BY <1>3
  <2> DEFINE w2 == Len(innerIn'[p])
  <2> HIDE DEF s, d, w, o, r
  <2>3. \A i \in d + 1 .. s :
          /\ now' <= EdgeOf(p, i)' + CycleTime
          /\ i > s - o => EdgeOf(p, i)' = nextEdge(now')
          /\ ~InKernel' /\ i > s - o - w2 => innerNow' <= EdgeOf(p, i)'
    BY <1>3, <2>1, <1>p
  <2>4. Len(innerIn'[p]) = w2
    OBVIOUS
  <2> HIDE DEF w2
  <2> QED BY <2>1, <2>2, <2>3, <2>4, <1>q
<1>4. CASE InnerReturn /\ UNCHANGED <<outerVars, history>>
  <2>1. innerIn = EmptyQueues /\ outerIn = EmptyQueues
    BY <1>4, <1>0
    DEF InnerReturn, InKernel, ClockInv, KernelOK, InnerClockOK, OuterClockOK
  <2>2. UNCHANGED <<now, innerIn, outerIn, sent, sentAt, delivered>>
    BY <1>4 DEF InnerReturn, outerVars, history
  <2>3. w = 0 /\ o = 0
    BY <2>1, <1>x
  <2>4. Len(innerIn'[p]) = w /\ Len(outerIn'[p]) = o /\ Len(delivered'[p]) = d
    BY <2>2
  <2>5. /\ Len(sent'[p]) = s /\ Len(sentAt'[p]) = s
        /\ \A i : EdgeOf(p, i)' = EdgeOf(p, i)
    BY <2>2, <1>same
  <2> HIDE DEF s, d, w, o, r
  <2>6. ASSUME NEW i \in d + 1 .. s
        PROVE  /\ now' <= EdgeOf(p, i)' + CycleTime
               /\ ~ (i > s - o) /\ ~ (i > s - o - w)
    BY <1>p, <1>l, <2>2, <2>3, <2>5
  <2> QED BY <2>4, <2>5, <2>6, <1>q
<1>5. CASE BwClock
  <2>1. isFullCycle(now, CycleTime)
    BY <1>5, <1>0 DEF BwClock, ClockInv, OuterClockOK
  <2>2. /\ delivered'[p] = delivered[p] \o outerOut[p]
        /\ UNCHANGED <<now, innerNow, until, innerIn, outerIn, sent, sentAt>>
    BY <1>5, <2>1 DEF BwClock, Followed, innerVars
  <2>3. Len(outerOut[p]) \in Nat /\ Len(delivered'[p]) = d + Len(outerOut[p])
    <3>1. delivered[p] \in Seq(Message) /\ outerOut[p] \in Seq(Message)
      BY DEF QueuesOK, Queues
    <3> QED BY <2>2, <3>1, ConcatProperties
  <2>4. PICK n \in Nat : Len(delivered'[p]) = d + n
    BY <2>3
  <2>5. /\ Len(sent'[p]) = s /\ Len(sentAt'[p]) = s
        /\ \A i : EdgeOf(p, i)' = EdgeOf(p, i)
    BY <2>2, <1>same
  <2>6. Len(innerIn'[p]) = w /\ Len(outerIn'[p]) = o /\ (InKernel <=> InKernel')
    BY <2>2 DEF InKernel
  <2> HIDE DEF s, d, w, o, r
  <2>7. \A i \in (d + n) + 1 .. s : i \in d + 1 .. s
    BY <1>l
  <2> QED BY <2>2, <2>4, <2>5, <2>6, <2>7, <1>p, <1>q
<1>6. CASE Tick
  <2>1. /\ ~InKernel /\ now' = now + 1 /\ fwEvent # now
        /\ outerOut = EmptyQueues /\ innerOut = EmptyQueues
        /\ UNCHANGED <<innerNow, until, innerIn, outerIn, sent, sentAt, delivered>>
    BY <1>6, <1>0
    DEF Tick, innerVars, history, ClockInv, OuterClockOK, InnerClockOK, InKernel,
        TimesOK
  <2>2. r = 0
    BY <2>1, <1>x
  <2>3. /\ Len(innerIn'[p]) = w /\ Len(outerIn'[p]) = o /\ Len(delivered'[p]) = d
    BY <2>1
  <2>4. /\ Len(sent'[p]) = s /\ Len(sentAt'[p]) = s
        /\ \A i : EdgeOf(p, i)' = EdgeOf(p, i)
    BY <2>1, <1>same
  <2> HIDE DEF s, d, w, o, r
  <2>5. ASSUME NEW i \in d + 1 .. s
        PROVE  /\ now + 1 <= EdgeOf(p, i) + CycleTime
               /\ i > s - o => EdgeOf(p, i) = nextEdge(now + 1)
               /\ innerNow <= EdgeOf(p, i)
    <3>0. i \in 1 .. s /\ EdgeOf(p, i) \in Nat
      BY <1>l, <1>e
    <3>1. innerNow <= EdgeOf(p, i)
      BY <2>1, <2>2, <1>l, <1>p
    <3>2. CASE i > s - o
      <4>1. outerIn # EmptyQueues
        BY <3>2, <1>l, <1>x
      <4>2. nextEdge(now) # now
        BY <4>1, <2>1 DEF ClockInv, OuterClockOK
      <4>3. nextEdge(now + 1) = nextEdge(now) /\ now <= nextEdge(now)
            /\ nextEdge(now) \in Nat
        BY <4>2, <1>0, EdgeFacts
      <4>4. EdgeOf(p, i) = nextEdge(now)
        BY <3>2, <1>p
      <4> QED BY <3>1, <4>2, <4>3, <4>4, <1>0
    <3>3. CASE ~ (i > s - o)
      <4>1. innerIn # EmptyQueues
        BY <3>3, <2>2, <1>l, <1>x
      <4>2. fwEvent \in Nat /\ fwEvent <= innerNow + CycleTime /\ now < fwEvent
        BY <4>1, <2>1, <1>0
        DEF ClockInv, TimesOK, OuterClockOK, InnerClockOK
      <4>3. now + 1 <= EdgeOf(p, i) + CycleTime
        BY <4>2, <3>0, <3>1, <1>0
      <4> QED BY <3>1, <3>3, <4>3
    <3> QED BY <3>2, <3>3
  <2> QED BY <2>1, <2>3, <2>4, <2>5, <1>q
<1>7. CASE UNCHANGED vars
  <2>1. /\ UNCHANGED <<now, innerNow, until, innerIn, outerIn, sent, sentAt, delivered>>
        /\ (InKernel <=> InKernel')
    BY <1>7 DEF vars, innerVars, outerVars, history, InKernel
  <2>2. /\ Len(innerIn'[p]) = w /\ Len(outerIn'[p]) = o /\ Len(delivered'[p]) = d
        /\ Len(sent'[p]) = s /\ Len(sentAt'[p]) = s
        /\ \A i : EdgeOf(p, i)' = EdgeOf(p, i)
    BY <2>1, <1>same
  <2> HIDE DEF s, d, w, o, r
  <2> QED BY <2>1, <2>2, <1>p, <1>q
<1>8. ASSUME InnerStep
      PROVE  \/ InKernel' /\ UNCHANGED <<now, sent, sentAt, delivered, outerIn>>
             \/ InnerReturn /\ UNCHANGED <<outerVars, history>>
  BY <1>8
  DEF InnerStep, InnerFwClock, InnerBwClock, InnerAdvance, Runs, InKernel, outerVars,
      history
<1> QED
  BY <1>1, <1>2, <1>3, <1>4, <1>5, <1>6, <1>7, <1>8 DEF Next

\* A message leaves the bridge within the cycle that follows the first cycle
\* edge after it came in, whatever the cycle time and the other messages: the
\* lockstep of the two kernels costs no message a cycle more.
THEOREM LatencyBounded == Spec => []BoundedLatency
<1>1. Init => LatencyInv
  BY DEF Init, InnerInit, LatencyInv, PathLatency, EmptyQueues
<1>2. QueuesOK /\ InOrderExactlyOnce /\ ClockInv /\ SentAtOK /\ LatencyInv
        /\ [Next]_vars => LatencyInv'
  BY LatencyStep
<1>3. TypeOK => SentAtOK
  BY DEF TypeOK, SentAtOK
<1>4. LatencyInv => BoundedLatency
  BY DEF LatencyInv, PathLatency, BoundedLatency, EdgeOf, nextEdge
<1> QED
  BY <1>1, <1>2, <1>3, <1>4, QueuesTyped, InOrder, Clocks, TypeCorrect, PTL DEF Spec

=============================================================================
