----------------------------- MODULE CopyEngine -----------------------------
(***************************************************************************)
(* GPUCopyEngine (copy_engine.cc): DMA copies and memsets of the GPU, read *)
(* and written a cache line at a time through two memory ports.            *)
(*                                                                         *)
(* Bytes are named by their offset in the operation. currentReadAddr and   *)
(* currentWriteAddr advance with readLeft and writeLeft, and readDone is   *)
(* always recomputed from readsDone; they are operators here. The memories *)
(* and TLBs are external: responses come back in any order, a translation  *)
(* finishes at once (a hit) or later (a miss), and a port may refuse a     *)
(* packet, which is sent again when the peer asks for it.                  *)
(***************************************************************************)
EXTENDS Integers, Sequences, FiniteSets

CONSTANTS LineSize,     \* cacheLineSize, in bytes
          BufferDepth,  \* bufferDepth, whole lines in bytes; 0 is unlimited
          MaxLength,    \* longest operation (bound)
          MaxOps,       \* operations started (bound)
          Kind          \* the stream operations issued (bound)

ASSUME EngineAssumption ==
  /\ LineSize \in Nat \ {0}
  /\ BufferDepth \in Nat /\ (BufferDepth = 0 \/ BufferDepth >= LineSize)
  /\ MaxLength \in Nat \ {0}
  /\ MaxOps \in Nat
  /\ Kind \subseteq {"h2d", "d2h", "d2d", "memset"}

VARIABLES
  running,      \* running
  op,           \* the arguments of memcpy or memset
  needToRead,   \* needToRead
  needToWrite,  \* needToWrite
  readLeft,     \* readLeft
  writeLeft,    \* writeLeft
  readsDone,    \* offsets i with readsDone[i]: curData[i] is valid
  writeDone,    \* writeDone
  tick,         \* tickEvent: "idle", or scheduled
  io,           \* packets in the TLBs, stalled at a port, and in memory
  dest,         \* external: the destination, byte by byte
  started       \* operations started (bound)

control == <<op, running, started>>
vars == <<running, op, needToRead, needToWrite, readLeft, writeLeft, readsDone,
          writeDone, tick, io, dest, started>>

Port == {"host", "device"}

\* src and dst are the addresses' offsets in their cache lines.
Operation == [kind: Kind, src: 0 .. LineSize - 1, dst: 0 .. LineSize - 1,
              length: 1 .. MaxLength]

\* data: every byte of a write had been read when it was copied from curData.
Packet == [cmd: {"Read", "Write"}, first: 0 .. MaxLength - 1,
           size: 1 .. LineSize, data: BOOLEAN]

Bytes(pkt) == pkt.first .. pkt.first + pkt.size - 1

readPort  == IF op.kind \in {"h2d", "memset"} THEN "host" ELSE "device"
writePort == IF op.kind = "d2h" THEN "host" ELSE "device"
PortOf(pkt) == IF pkt.cmd = "Read" THEN readPort ELSE writePort

\* Offsets of the next read and the next write.
ReadOffset  == op.length - readLeft
WriteOffset == op.length - writeLeft

\* Mutant of ReadDone: bytes are counted in whatever order they arrive.
ReadDoneCounted == Cardinality(readsDone)

\* readDone, the length of the contiguous region that has been read: a byte
\* counts when it and all bytes before it are there.
ReadDone ==
  Cardinality({i \in 0 .. op.length - 1 : 0 .. i \subseteq readsDone})

\* Mutant of SizeAt: the last line is not cut to what is left.
SizeAtUncut(address, left) == LineSize - (address % LineSize)

\* Up to the end of the cache line, and no more than is left.
SizeAt(address, left) ==
  LET line == LineSize - (address % LineSize)
  IN IF left > line - 1 THEN line ELSE left

TypeOK ==
  /\ running \in BOOLEAN /\ needToRead \in BOOLEAN /\ needToWrite \in BOOLEAN
  /\ op \in Operation
  /\ readLeft \in 0 .. op.length /\ writeLeft \in 0 .. op.length
  /\ readsDone \subseteq 0 .. op.length - 1
  /\ writeDone \in 0 .. op.length
  /\ tick \in {"idle", "scheduled"}
  /\ io.translating \subseteq Packet
  /\ io.stalled \in [Port -> Seq(Packet)]
  /\ io.sent \subseteq Packet
  /\ dest \in [0 .. op.length - 1 -> {"old", "copied", "garbage"}]
  /\ started \in 0 .. MaxOps

-----------------------------------------------------------------------------
(* The ports.                                                              *)

IsStalled(state, port) == state.stalled[port] # << >>

\* sendPacket: behind the packets that wait already, or refused by the peer.
SendPacket(state, pkt, accepted) ==
  IF IsStalled(state, PortOf(pkt)) \/ ~accepted
  THEN [state EXCEPT !.stalled[PortOf(pkt)] = Append(@, pkt)]
  ELSE [state EXCEPT !.sent = @ \union {pkt}]

Outcome == {"miss", "accepted", "refused"}

\* beginTranslateTiming: a hit calls finishTranslation, which sends the packet.
Translate(state, pkt, outcome) ==
  IF outcome = "miss"
  THEN [state EXCEPT !.translating = @ \union {pkt}]
  ELSE SendPacket(state, pkt, outcome = "accepted")

FinishTranslation ==
  \E pkt \in io.translating, accepted \in BOOLEAN :
    /\ io' = SendPacket([io EXCEPT !.translating = @ \ {pkt}], pkt, accepted)
    /\ UNCHANGED <<control, needToRead, needToWrite, readLeft, writeLeft,
                   readsDone, writeDone, tick, dest>>

\* recvReqRetry, in which the peer accepts n packets before it refuses one.
RecvReqRetry ==
  \E port \in Port : \E n \in 1 .. Len(io.stalled[port]) :
    /\ io' = [io EXCEPT
         !.stalled[port] = SubSeq(@, n + 1, Len(@)),
         !.sent = @ \union {io.stalled[port][i] : i \in 1 .. n}]
    /\ tick' = "scheduled"
    /\ UNCHANGED <<control, needToRead, needToWrite, readLeft, writeLeft,
                   readsDone, writeDone, dest>>

-----------------------------------------------------------------------------
(* tick                                                                    *)

\* More than bufferDepth bytes have been read that no write has taken yet.
buffersFull ==
  BufferDepth > 0 /\ ReadDone - WriteOffset > BufferDepth

ReadPacket ==
  [cmd |-> "Read", first |-> ReadOffset,
   size |-> SizeAt(op.src + ReadOffset, readLeft), data |-> FALSE]

WritePacket ==
  LET size == SizeAt(op.dst + WriteOffset, writeLeft)
  IN [cmd |-> "Write", first |-> WriteOffset, size |-> size,
      data |-> WriteOffset .. WriteOffset + size - 1 \subseteq readsDone]

\* When tick reaches tryRead, and when it reaches tryWrite and that does not
\* return early because the bytes of the whole packet have not been read.
Reads == needToRead /\ ~IsStalled(io, readPort) /\ ~buffersFull

\* Mutant of Writes: one byte more than has been written is enough.
WritesWhenAnyRead(state) ==
  /\ needToWrite /\ ~IsStalled(state, writePort)
  /\ WriteOffset < ReadDone

\* Mutant of Writes: nothing is written before everything has been read.
WritesAfterReads(state) ==
  /\ needToWrite /\ ~IsStalled(state, writePort)
  /\ ReadDone = op.length /\ WriteOffset < ReadDone

Writes(state) ==
  /\ needToWrite /\ ~IsStalled(state, writePort)
  /\ WriteOffset < ReadDone
  /\ WritePacket.size + WriteOffset <= ReadDone

\* tryRead and then tryWrite. The event is scheduled again after the last read,
\* after a read whose port is still free, and after the last write.
Tick ==
  /\ tick = "scheduled"
  /\ IF ~running
     THEN tick' = "idle"
          /\ UNCHANGED <<needToRead, readLeft, writeLeft, io>>
     ELSE \E r, w \in Outcome :
       LET reads  == Reads
           middle == IF reads THEN Translate(io, ReadPacket, r) ELSE io
           writes == Writes(middle)
       IN /\ readLeft'   = IF reads THEN readLeft - ReadPacket.size ELSE readLeft
          /\ needToRead' = (needToRead /\ (reads => readLeft' > 0))
          /\ io' = IF writes THEN Translate(middle, WritePacket, w) ELSE middle
          /\ writeLeft' = IF writes THEN writeLeft - WritePacket.size
                                    ELSE writeLeft
          /\ tick' = IF \/ reads /\ (readLeft' = 0 \/ ~IsStalled(middle, readPort))
                        \/ writes /\ writeLeft' = 0
                     THEN "scheduled" ELSE "idle"
  /\ UNCHANGED <<control, needToWrite, readsDone, writeDone, dest>>

-----------------------------------------------------------------------------
(* recvPacket                                                              *)

\* Mutant of RecvRead: a response does not wake the engine.
RecvReadSilent(pkt) ==
  /\ pkt.cmd = "Read"
  /\ readsDone'   = readsDone \union Bytes(pkt)
  /\ needToWrite' = (needToWrite \/ ReadDone < op.length)
  /\ needToRead'  = (needToRead /\ ReadDone' < op.length)
  /\ UNCHANGED <<running, tick, writeDone, dest>>

\* A read response; readDone is compared before it is brought up to date.
RecvRead(pkt) ==
  /\ pkt.cmd = "Read"
  /\ readsDone'   = readsDone \union Bytes(pkt)
  /\ needToWrite' = (needToWrite \/ ReadDone < op.length)
  /\ tick'        = IF ReadDone < op.length THEN "scheduled" ELSE tick
  /\ needToRead'  = (needToRead /\ ReadDone' < op.length)
  /\ UNCHANGED <<running, writeDone, dest>>

\* Mutant of RecvWrite: done when the last write has been sent, not answered.
RecvWriteSent(pkt) ==
  /\ pkt.cmd = "Write"
  /\ dest' = [i \in DOMAIN dest |->
       IF i \notin Bytes(pkt) THEN dest[i]
       ELSE IF pkt.data THEN "copied" ELSE "garbage"]
  /\ writeDone' = writeDone + pkt.size
  /\ IF writeLeft > 0
     THEN tick' = "scheduled" /\ UNCHANGED <<running, needToWrite>>
     ELSE running' = FALSE /\ needToWrite' = FALSE /\ UNCHANGED tick
  /\ UNCHANGED <<needToRead, readsDone>>

\* A write response: the memory has the bytes. finishMemcpy after the last one.
RecvWrite(pkt) ==
  /\ pkt.cmd = "Write"
  /\ dest' = [i \in DOMAIN dest |->
       IF i \notin Bytes(pkt) THEN dest[i]
       ELSE IF pkt.data THEN "copied" ELSE "garbage"]
  /\ writeDone' = writeDone + pkt.size
  /\ IF writeDone' < op.length
     THEN tick' = "scheduled" /\ UNCHANGED <<running, needToWrite>>
     ELSE running' = FALSE /\ needToWrite' = FALSE /\ UNCHANGED tick
  /\ UNCHANGED <<needToRead, readsDone>>

\* The memory answers any packet it was sent.
RecvPacket ==
  \E pkt \in io.sent :
    /\ UNCHANGED <<op, started, readLeft, writeLeft>>
    /\ RecvRead(pkt) \/ RecvWrite(pkt)
    /\ io' = [io EXCEPT !.sent = @ \ {pkt}]

-----------------------------------------------------------------------------
(* memcpy and memset, called by CudaGPU, which runs one operation at a     *)
(* time (beginStreamOperation) and panics otherwise.                       *)

Begin(o) ==
  /\ ~running
  /\ started < MaxOps /\ started' = started + 1
  /\ running' = TRUE
  /\ op' = o
  /\ needToRead'  = (o.kind # "memset")
  /\ needToWrite' = (o.kind = "memset")
  /\ readLeft'  = IF o.kind = "memset" THEN 0 ELSE o.length
  /\ writeLeft' = o.length
  /\ readsDone' = IF o.kind = "memset" THEN 0 .. o.length - 1 ELSE {}
  /\ writeDone' = 0
  /\ tick' = "scheduled"
  /\ dest' = [i \in 0 .. o.length - 1 |-> "old"]
  /\ UNCHANGED io

Init ==
  /\ op \in {o \in Operation : o.length = 1 /\ o.src = 0 /\ o.dst = 0}
  /\ running = FALSE /\ needToRead = FALSE /\ needToWrite = FALSE
  /\ readLeft = 0 /\ writeLeft = 0 /\ writeDone = 1
  /\ readsDone = {0}
  /\ dest = [i \in {0} |-> "copied"]
  /\ tick = "idle"
  /\ io = [translating |-> {}, stalled |-> [p \in Port |-> << >>], sent |-> {}]
  /\ started = 0

Next ==
  \/ \E o \in Operation : Begin(o)
  \/ Tick
  \/ FinishTranslation
  \/ RecvReqRetry
  \/ RecvPacket

Spec == Init /\ [][Next]_vars

\* Scheduled events run, the TLBs and memories answer, and a peer that refused
\* a packet asks for it again and then accepts it. Nobody need start anything.
Fairness ==
  /\ WF_vars(Tick)
  /\ WF_vars(FinishTranslation)
  /\ WF_vars(RecvReqRetry)
  /\ WF_vars(RecvPacket)

FairSpec == Spec /\ Fairness

-----------------------------------------------------------------------------

InFlight ==
  io.translating \union io.sent
    \union UNION {{io.stalled[p][i] : i \in DOMAIN io.stalled[p]} : p \in Port}

BytesInFlight(cmd) ==
  UNION {Bytes(pkt) : pkt \in {q \in InFlight : q.cmd = cmd}}

\* Every byte asked for is either on its way or has been read, never both;
\* every byte handed to the write port is on its way or stored. So no byte is
\* read or written twice, and no packet of an operation outlives it to be
\* counted for the next one.
EveryByteAccounted ==
  /\ op.kind # "memset" =>
       /\ BytesInFlight("Read") \union readsDone = 0 .. ReadOffset - 1
       /\ BytesInFlight("Read") \intersect readsDone = {}
  /\ BytesInFlight("Write") = {i \in 0 .. WriteOffset - 1 : dest[i] = "old"}
  /\ writeDone = Cardinality({i \in DOMAIN dest : dest[i] # "old"})
  /\ ~running => InFlight = {}

\* What is written was read before, whatever the order of the read responses.
NoGarbage == \A i \in DOMAIN dest : dest[i] # "garbage"

\* A running operation always has an event or an answer to wait for: tryWrite
\* does not schedule the event after most writes, nor tryRead when its packet
\* was refused.
NoLostWakeup == running => tick = "scheduled" \/ InFlight # {}

\* Each operation is, for the GPU that waits for finishCopyOperation, one
\* transfer that is over exactly when the last byte has arrived.
AbstractTransfer == INSTANCE Transfer WITH
  busy <- running, missing <- {i \in DOMAIN dest : dest[i] # "copied"}

ImplementsTransfer == AbstractTransfer!Spec

\* Every operation completes.
OperationsComplete == running ~> ~running
=============================================================================
