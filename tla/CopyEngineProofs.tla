-------------------------- MODULE CopyEngineProofs --------------------------
(***************************************************************************)
(* For operations of any size, lines and buffers of any size and any order *)
(* of the answers, the copy engine never writes a byte it has not read.    *)
(***************************************************************************)
EXTENDS CopyEngine, FiniteSetTheorems, TLAPS

\* The number of bytes, of the first n, that are in S with all before them.
Contiguous(S, n) == Cardinality({i \in 0 .. n - 1 : 0 .. i \subseteq S})

\* They are the first ones: were byte m missing, only bytes before m would count.
LEMMA ContiguousPrefix ==
  ASSUME NEW n \in Nat, NEW S
  PROVE  /\ Contiguous(S, n) \in 0 .. n
         /\ 0 .. Contiguous(S, n) - 1 \subseteq S
         /\ \A m \in 0 .. n : S = 0 .. m - 1 => Contiguous(S, n) = m
<1> DEFINE Region == {i \in 0 .. n - 1 : 0 .. i \subseteq S}
           done == Contiguous(S, n)
<1>1. \A m \in 0 .. n : IsFiniteSet(0 .. m - 1) /\ Cardinality(0 .. m - 1) = m
  <2> SUFFICES ASSUME NEW m \in 0 .. n
               PROVE  IsFiniteSet(0 .. m - 1) /\ Cardinality(0 .. m - 1) = m
    OBVIOUS
  <2>1. m \in Nat /\ m - 1 \in Int
    OBVIOUS
  <2>2. Cardinality(0 .. m - 1) = IF 0 > m - 1 THEN 0 ELSE (m - 1) - 0 + 1
    BY <2>1, FS_Interval
  <2>3. IsFiniteSet(0 .. m - 1)
    BY <2>1, FS_Interval
  <2> QED BY <2>1, <2>2, <2>3
<1>2. IsFiniteSet(0 .. n - 1) /\ Cardinality(0 .. n - 1) = n
  BY <1>1
<1>3. IsFiniteSet(Region) /\ Cardinality(Region) <= n
  BY <1>2, FS_Subset
<1>4. done = Cardinality(Region) /\ done \in Nat
  BY <1>3, FS_CardinalityType DEF Contiguous
<1> HIDE DEF done
<1>5. done \in 0 .. n
  BY <1>3, <1>4
<1>6. ASSUME NEW m \in 0 .. done - 1, m \notin S
      PROVE  FALSE
  <2>1. Region \subseteq 0 .. m - 1
    BY <1>5, <1>6
  <2>2. m \in 0 .. n
    BY <1>5
  <2>3. Cardinality(Region) <= m
    BY <1>1, <2>1, <2>2, FS_Subset
  <2> QED BY <1>4, <2>3
<1>7. ASSUME NEW m \in 0 .. n, S = 0 .. m - 1
      PROVE  done = m
  <2>1. Region = 0 .. m - 1
    BY <1>7
  <2> QED BY <1>1, <1>4, <2>1
<1> QED BY <1>5, <1>6, <1>7 DEF done

\* Every byte before readDone has been read, however the responses were ordered.
LEMMA ReadDonePrefix ==
  ASSUME op.length \in Nat
  PROVE  ReadDone \in 0 .. op.length /\ 0 .. ReadDone - 1 \subseteq readsDone
<1>1. ReadDone = Contiguous(readsDone, op.length)
  BY DEF ReadDone, Contiguous
<1> QED BY <1>1, ContiguousPrefix

\* A packet's size is positive, fits the line and is no more than is left.
LEMMA SizeBounds ==
  ASSUME NEW address \in Nat, NEW left \in Nat, left > 0
  PROVE  SizeAt(address, left) \in 1 .. left
<1>1. address % LineSize \in 0 .. LineSize - 1
  BY EngineAssumption
<1> DEFINE line == LineSize - (address % LineSize)
<1>2. line \in Nat /\ line > 0
  BY <1>1, EngineAssumption
<1>3. SizeAt(address, left) = IF left > line - 1 THEN line ELSE left
  BY DEF SizeAt
<1> QED BY <1>2, <1>3

-----------------------------------------------------------------------------
(* The invariant: what is left to read and write stays in range, and every *)
(* packet that may still change the destination was cut from valid data.   *)

Valid == {pkt \in [cmd: {"Read", "Write"}, first: Int, size: Int, data: BOOLEAN] :
            pkt.cmd = "Write" => pkt.data}

ValidIO == [translating: SUBSET Valid, stalled: [Port -> Seq(Valid)],
            sent: SUBSET Valid]

RangeInv ==
  /\ op \in Operation
  /\ readLeft \in 0 .. op.length /\ writeLeft \in 0 .. op.length
  /\ needToRead => readLeft > 0

IOInv == io \in ValidIO

Inv == RangeInv /\ IOInv /\ NoGarbage

-----------------------------------------------------------------------------

\* The ports of an operation are ports.
LEMMA PortsTyped ==
  ASSUME NEW pkt
  PROVE  readPort \in Port /\ writePort \in Port /\ PortOf(pkt) \in Port
BY DEF readPort, writePort, PortOf, Port

\* sendPacket keeps the packets valid, sent or queued.
LEMMA SendPacketValid ==
  ASSUME NEW state \in ValidIO, NEW pkt \in Valid, NEW accepted
  PROVE  SendPacket(state, pkt, accepted) \in ValidIO
<1> DEFINE port == PortOf(pkt)
           queued == [state EXCEPT !.stalled[port] = Append(@, pkt)]
           sent == [state EXCEPT !.sent = @ \union {pkt}]
<1>1. port \in Port
  BY PortsTyped
<1>2. sent \in ValidIO
  BY DEF ValidIO
<1>3. Append(state.stalled[port], pkt) \in Seq(Valid)
  BY <1>1 DEF ValidIO
<1>4. queued \in ValidIO
  BY <1>1, <1>3 DEF ValidIO
<1> QED BY <1>2, <1>4 DEF SendPacket

\* So does a translation, whatever its outcome.
LEMMA TranslateValid ==
  ASSUME NEW state \in ValidIO, NEW pkt \in Valid, NEW outcome
  PROVE  Translate(state, pkt, outcome) \in ValidIO
<1>1. [state EXCEPT !.translating = @ \union {pkt}] \in ValidIO
  BY DEF ValidIO
<1> QED BY <1>1, SendPacketValid DEF Translate

\* The invariant holds initially.
LEMMA InitInv == Init => Inv
<1> SUFFICES ASSUME Init PROVE Inv
  OBVIOUS
<1>1. op \in Operation /\ op.length = 1
  BY DEF Init
<1>2. RangeInv
  BY <1>1 DEF Init, RangeInv
<1>3. IOInv
  BY DEF Init, IOInv, ValidIO
<1>4. NoGarbage
  BY DEF Init, NoGarbage
<1> QED BY <1>2, <1>3, <1>4 DEF Inv

\* memcpy and memset start from an empty destination.
LEMMA BeginInv ==
  ASSUME Inv, NEW o \in Operation, Begin(o)
  PROVE  Inv'
<1>1. o.length \in Nat /\ o.length > 0
  BY EngineAssumption DEF Operation
<1>2. RangeInv'
  <2>1. op' = o /\ writeLeft' = o.length
    BY DEF Begin
  <2>2. o.kind = "memset" => readLeft' = 0 /\ ~needToRead'
    BY DEF Begin
  <2>3. o.kind # "memset" => readLeft' = o.length
    BY DEF Begin
  <2> QED BY <1>1, <2>1, <2>2, <2>3 DEF RangeInv
<1>3. IOInv'
  BY DEF Begin, Inv, IOInv
<1>4. NoGarbage'
  BY DEF Begin, NoGarbage
<1> QED BY <1>2, <1>3, <1>4 DEF Inv

\* A read packet is valid, a write packet when tryWrite sends it: the bytes it
\* copies are before readDone.
LEMMA PacketsValid ==
  ASSUME RangeInv
  PROVE  /\ readLeft > 0 => /\ ReadPacket \in Valid
                            /\ ReadPacket.size \in 1 .. readLeft
         /\ \A state : Writes(state) =>
              /\ WritePacket \in Valid
              /\ WritePacket.size \in 1 .. writeLeft
<1>1. op.length \in Nat /\ op.src \in Nat /\ op.dst \in Nat
  BY EngineAssumption DEF RangeInv, Operation
<1>2. /\ ReadOffset \in Nat /\ WriteOffset \in Nat
      /\ readLeft \in Nat /\ writeLeft \in Nat
  BY <1>1 DEF RangeInv, ReadOffset, WriteOffset
<1>3. ASSUME readLeft > 0
      PROVE  ReadPacket \in Valid /\ ReadPacket.size \in 1 .. readLeft
  <2>1. SizeAt(op.src + ReadOffset, readLeft) \in 1 .. readLeft
    BY <1>1, <1>2, <1>3, SizeBounds
  <2> QED BY <1>2, <2>1 DEF ReadPacket, Valid
<1>4. ASSUME NEW state, Writes(state)
      PROVE  WritePacket \in Valid /\ WritePacket.size \in 1 .. writeLeft
  <2> DEFINE size == SizeAt(op.dst + WriteOffset, writeLeft)
  <2>1. ReadDone \in 0 .. op.length /\ 0 .. ReadDone - 1 \subseteq readsDone
    BY <1>1, ReadDonePrefix
  <2>3. writeLeft > 0
    BY <1>1, <1>2, <1>4, <2>1 DEF Writes, WriteOffset
  <2>4. size \in 1 .. writeLeft
    BY <1>1, <1>2, <2>3, SizeBounds
  <2>5. size + WriteOffset <= ReadDone
    BY <1>4 DEF Writes, WritePacket
  <2> HIDE DEF size
  <2>6. WriteOffset .. WriteOffset + size - 1 \subseteq 0 .. ReadDone - 1
    BY <1>2, <2>1, <2>4, <2>5
  <2>7. WritePacket = [cmd |-> "Write", first |-> WriteOffset, size |-> size,
          data |-> WriteOffset .. WriteOffset + size - 1 \subseteq readsDone]
    BY DEF WritePacket, size
  <2>8. (WriteOffset .. WriteOffset + size - 1 \subseteq readsDone) = TRUE
    BY <2>1, <2>6
  <2>9. WritePacket = [cmd |-> "Write", first |-> WriteOffset, size |-> size,
                       data |-> TRUE]
    BY <2>7, <2>8
  <2> QED BY <1>2, <2>4, <2>9 DEF Valid
<1> QED BY <1>3, <1>4

\* A tick takes what it sends from what is left, and sends valid packets.
LEMMA TickInv ==
  ASSUME Inv, Tick
  PROVE  Inv'
<1>1. UNCHANGED <<op, dest>>
  BY DEF Tick, control
<1>2. RangeInv /\ io \in ValidIO /\ op.length \in Nat
  BY DEF Inv, RangeInv, IOInv, Operation
<1>3. CASE ~running
  BY <1>1, <1>3 DEF Tick, Inv, RangeInv, IOInv, NoGarbage
<1>4. CASE running
  <2>1. PICK r \in Outcome, w \in Outcome :
          LET middle == IF Reads THEN Translate(io, ReadPacket, r) ELSE io
          IN /\ readLeft' = IF Reads THEN readLeft - ReadPacket.size ELSE readLeft
             /\ needToRead' = (needToRead /\ (Reads => readLeft' > 0))
             /\ io' = IF Writes(middle) THEN Translate(middle, WritePacket, w)
                                        ELSE middle
             /\ writeLeft' = IF Writes(middle) THEN writeLeft - WritePacket.size
                                               ELSE writeLeft
    BY <1>4, Zenon DEF Tick
  <2> DEFINE middle == IF Reads THEN Translate(io, ReadPacket, r) ELSE io
  <2>2. Reads => readLeft > 0 /\ needToRead
    BY <1>2 DEF Reads, RangeInv
  <2>3. Reads => ReadPacket \in Valid /\ ReadPacket.size \in 1 .. readLeft
    BY <1>2, <2>2, PacketsValid
  <2>4. middle \in ValidIO
    BY <1>2, <2>3, TranslateValid
  <2> HIDE DEF middle
  <2>5. Writes(middle) => /\ WritePacket \in Valid
                          /\ WritePacket.size \in 1 .. writeLeft
    BY <1>2, PacketsValid
  <2>6. io' \in ValidIO
    <3>1. io' = IF Writes(middle) THEN Translate(middle, WritePacket, w)
                                  ELSE middle
      BY <2>1 DEF middle
    <3>2. Writes(middle) => Translate(middle, WritePacket, w) \in ValidIO
      BY <2>4, <2>5, TranslateValid
    <3> QED BY <2>4, <3>1, <3>2
  <2>7. readLeft' \in 0 .. op.length
    <3>1. readLeft' = IF Reads THEN readLeft - ReadPacket.size ELSE readLeft
      BY <2>1
    <3> QED BY <1>2, <2>3, <3>1 DEF RangeInv
  <2>8. writeLeft' \in 0 .. op.length
    <3>1. writeLeft' = IF Writes(middle) THEN writeLeft - WritePacket.size
                                         ELSE writeLeft
      BY <2>1 DEF middle
    <3> QED BY <1>2, <2>5, <3>1 DEF RangeInv
  <2>9. needToRead' => readLeft' > 0
    <3>1. CASE Reads
      BY <2>1, <3>1
    <3>2. CASE ~Reads
      <4>1. readLeft' = readLeft /\ (needToRead' => needToRead)
        BY <2>1, <3>2
      <4> QED BY <1>2, <4>1 DEF RangeInv
    <3> QED BY <3>1, <3>2
  <2> QED BY <1>1, <1>2, <2>6, <2>7, <2>8, <2>9
          DEF Inv, RangeInv, IOInv, NoGarbage
<1> QED BY <1>3, <1>4

\* A finished translation only moves a valid packet.
LEMMA FinishTranslationInv ==
  ASSUME Inv, FinishTranslation
  PROVE  Inv'
<1>1. PICK pkt \in io.translating, accepted \in BOOLEAN :
        /\ io' = SendPacket([io EXCEPT !.translating = @ \ {pkt}], pkt, accepted)
        /\ UNCHANGED <<control, needToRead, needToWrite, readLeft, writeLeft,
                       readsDone, writeDone, tick, dest>>
  BY DEF FinishTranslation
<1>2. io \in ValidIO
  BY DEF Inv, IOInv
<1>3. pkt \in Valid
  BY <1>2 DEF ValidIO
<1>4. [io EXCEPT !.translating = @ \ {pkt}] \in ValidIO
  BY <1>2 DEF ValidIO
<1>5. io' \in ValidIO
  BY <1>1, <1>3, <1>4, SendPacketValid
<1> QED BY <1>1, <1>5 DEF Inv, RangeInv, IOInv, NoGarbage, control

\* So does a retry.
LEMMA RecvReqRetryInv ==
  ASSUME Inv, RecvReqRetry
  PROVE  Inv'
<1>1. PICK port \in Port : \E n \in 1 .. Len(io.stalled[port]) :
        /\ io' = [io EXCEPT
             !.stalled[port] = SubSeq(@, n + 1, Len(@)),
             !.sent = @ \union {io.stalled[port][i] : i \in 1 .. n}]
        /\ UNCHANGED <<control, needToRead, readLeft, writeLeft, dest>>
  BY DEF RecvReqRetry
<1>2. PICK n \in 1 .. Len(io.stalled[port]) :
        /\ io' = [io EXCEPT
             !.stalled[port] = SubSeq(@, n + 1, Len(@)),
             !.sent = @ \union {io.stalled[port][i] : i \in 1 .. n}]
        /\ UNCHANGED <<control, needToRead, readLeft, writeLeft, dest>>
  BY <1>1
<1>3. io \in ValidIO /\ io.stalled[port] \in Seq(Valid)
  BY DEF Inv, IOInv, ValidIO
<1>4. SubSeq(io.stalled[port], n + 1, Len(io.stalled[port])) \in Seq(Valid)
  BY <1>3
<1>5. {io.stalled[port][i] : i \in 1 .. n} \subseteq Valid
  BY <1>3
<1>6. io' \in ValidIO
  BY <1>2, <1>3, <1>4, <1>5 DEF ValidIO
<1> QED BY <1>2, <1>6 DEF Inv, RangeInv, IOInv, NoGarbage, control

\* A response leaves the rest in flight, and what a write stored was valid.
LEMMA RecvPacketInv ==
  ASSUME Inv, RecvPacket
  PROVE  Inv'
<1>1. PICK pkt \in io.sent :
        /\ UNCHANGED <<op, started, readLeft, writeLeft>>
        /\ RecvRead(pkt) \/ RecvWrite(pkt)
        /\ io' = [io EXCEPT !.sent = @ \ {pkt}]
  BY DEF RecvPacket
<1>2. io \in ValidIO /\ pkt \in Valid
  BY DEF Inv, IOInv, ValidIO
<1>3. io' \in ValidIO
  BY <1>1, <1>2 DEF ValidIO
<1>4. needToRead' => needToRead
  BY <1>1 DEF RecvRead, RecvWrite
<1>5. NoGarbage'
  <2>1. CASE RecvRead(pkt)
    BY <2>1 DEF RecvRead, Inv, NoGarbage
  <2>2. CASE RecvWrite(pkt)
    <3>1. pkt.data
      BY <1>2, <2>2 DEF RecvWrite, Valid
    <3>2. dest' = [i \in DOMAIN dest |->
                     IF i \notin Bytes(pkt) THEN dest[i]
                     ELSE IF pkt.data THEN "copied" ELSE "garbage"]
      BY <2>2 DEF RecvWrite
    <3> QED BY <3>1, <3>2 DEF Inv, NoGarbage
  <2> QED BY <1>1, <2>1, <2>2
<1> QED BY <1>1, <1>3, <1>4, <1>5 DEF Inv, RangeInv, IOInv

\* Every step preserves the invariant.
LEMMA NextInv ==
  ASSUME Inv, [Next]_vars
  PROVE  Inv'
<1>1. CASE \E o \in Operation : Begin(o)
  BY <1>1, BeginInv
<1>2. CASE Tick
  BY <1>2, TickInv
<1>3. CASE FinishTranslation
  BY <1>3, FinishTranslationInv
<1>4. CASE RecvReqRetry
  BY <1>4, RecvReqRetryInv
<1>5. CASE RecvPacket
  BY <1>5, RecvPacketInv
<1>6. CASE UNCHANGED vars
  BY <1>6 DEF vars, Inv, RangeInv, IOInv, NoGarbage
<1> QED BY <1>1, <1>2, <1>3, <1>4, <1>5, <1>6 DEF Next

\* What the copy engine writes to the destination it has read from the source
\* (tryWrite's comparison with readDone, recvPacket's contiguous region), for
\* operations, lines and buffers of any size.
THEOREM NothingUnreadIsWritten == Spec => []NoGarbage
<1>1. Init => Inv
  BY InitInv
<1>2. Inv /\ [Next]_vars => Inv'
  BY NextInv
<1>3. Inv => NoGarbage
  BY DEF Inv
<1> QED BY <1>1, <1>2, <1>3, PTL DEF Spec
=============================================================================
