---------------------------- MODULE TransferProofs --------------------------
(***************************************************************************)
(* For operations of any size, lines and buffers of any size and any order *)
(* of the answers: the copy engine accounts for every byte and implements  *)
(* Transfer.                                                               *)
(***************************************************************************)
EXTENDS CopyEngineProofs

-----------------------------------------------------------------------------
(* Packets in flight are in one place.                                     *)

Queued(state, p) == {state.stalled[p][i] : i \in DOMAIN state.stalled[p]}
FlightOf(state) == state.translating \union state.sent
                     \union Queued(state, "host") \union Queued(state, "device")

NoRepeats(s) == \A i, j \in DOMAIN s : i # j => s[i] # s[j]

IO == [translating: SUBSET Packet, stalled: [Port -> Seq(Packet)],
       sent: SUBSET Packet]

Placed(state) ==
  /\ state \in IO
  /\ state.translating \intersect state.sent = {}
  /\ \A p \in Port :
       /\ Queued(state, p) \intersect (state.translating \union state.sent) = {}
       /\ NoRepeats(state.stalled[p])
       /\ \A q \in Port : q # p => Queued(state, p) \intersect Queued(state, q) = {}

LEMMA FlightIsInFlight == FlightOf(io) = InFlight /\ FlightOf(io') = InFlight'
<1>1. FlightOf(io) = InFlight
  <2>1. UNION {Queued(io, p) : p \in Port} =
          Queued(io, "host") \union Queued(io, "device")
    BY DEF Port
  <2> QED BY <2>1 DEF FlightOf, InFlight, Queued
<1>2. FlightOf(io') = InFlight'
  <2>1. UNION {Queued(io', p) : p \in Port} =
          Queued(io', "host") \union Queued(io', "device")
    BY DEF Port
  <2> QED BY <2>1 DEF FlightOf, InFlight, Queued
<1> QED BY <1>1, <1>2

LEMMA FlightTyped ==
  ASSUME NEW state, Placed(state), NEW pkt \in FlightOf(state)
  PROVE  pkt \in Packet
BY DEF Placed, IO, FlightOf, Queued, Port

\* sendPacket puts a new packet into one place.
LEMMA SendPlaced ==
  ASSUME NEW state, Placed(state), NEW pkt \in Packet, pkt \notin FlightOf(state),
         NEW accepted
  PROVE  /\ Placed(SendPacket(state, pkt, accepted))
         /\ FlightOf(SendPacket(state, pkt, accepted)) =
              FlightOf(state) \union {pkt}
<1> DEFINE port == PortOf(pkt)
           s == state.stalled[port]
           queued == [state EXCEPT !.stalled[port] = Append(@, pkt)]
           sent == [state EXCEPT !.sent = @ \union {pkt}]
<1>1. port \in Port /\ state \in IO /\ s \in Seq(Packet)
  BY PortsTyped DEF Placed, IO
<1>2. /\ sent \in IO
      /\ sent.translating = state.translating /\ sent.stalled = state.stalled
      /\ sent.sent = state.sent \union {pkt}
  BY <1>1 DEF IO
<1>3. Placed(sent) /\ FlightOf(sent) = FlightOf(state) \union {pkt}
  <2>1. \A p \in Port : Queued(sent, p) = Queued(state, p)
    BY <1>2 DEF Queued
  <2>2. FlightOf(sent) = FlightOf(state) \union {pkt}
    BY <1>2, <2>1 DEF FlightOf, Port
  <2>3. \A p \in Port : pkt \notin Queued(state, p)
    BY DEF FlightOf, Port
  <2>4. pkt \notin state.translating
    BY DEF FlightOf
  <2> QED BY <1>2, <2>1, <2>2, <2>3, <2>4 DEF Placed
<1>4. /\ Append(s, pkt) \in Seq(Packet)
      /\ DOMAIN s = 1 .. Len(s) /\ Len(s) \in Nat
      /\ DOMAIN Append(s, pkt) = 1 .. Len(s) + 1
      /\ \A i \in 1 .. Len(s) : Append(s, pkt)[i] = s[i]
      /\ Append(s, pkt)[Len(s) + 1] = pkt
  BY <1>1
<1>5. /\ queued \in IO
      /\ queued.translating = state.translating /\ queued.sent = state.sent
      /\ queued.stalled[port] = Append(s, pkt)
      /\ \A p \in Port : p # port => queued.stalled[p] = state.stalled[p]
  BY <1>1, <1>4 DEF IO
<1>6. Placed(queued) /\ FlightOf(queued) = FlightOf(state) \union {pkt}
  <2>1. \A p \in Port : p # port => Queued(queued, p) = Queued(state, p)
    BY <1>5 DEF Queued
  <2>2. Queued(queued, port) = Queued(state, port) \union {pkt}
    BY <1>4, <1>5 DEF Queued
  <2>3. FlightOf(queued) = FlightOf(state) \union {pkt}
    <3>1. CASE port = "host"
      BY <1>5, <2>1, <2>2, <3>1 DEF FlightOf, Port
    <3>2. CASE port = "device"
      BY <1>5, <2>1, <2>2, <3>2 DEF FlightOf, Port
    <3> QED BY <1>1, <3>1, <3>2 DEF Port
  <2>4. /\ \A p \in Port : pkt \notin Queued(state, p)
        /\ pkt \notin state.translating /\ pkt \notin state.sent
    BY DEF FlightOf, Port
  <2>5. NoRepeats(Append(s, pkt))
    <3>1. NoRepeats(s) /\ \A i \in 1 .. Len(s) : s[i] # pkt
      BY <1>1, <1>4, <2>4 DEF Placed, Queued
    <3> QED BY <1>4, <3>1 DEF NoRepeats
  <2>6. \A p \in Port : NoRepeats(queued.stalled[p])
    BY <1>5, <2>5 DEF Placed
  <2>7. ASSUME NEW p \in Port, NEW q \in Port, q # p
        PROVE  Queued(queued, p) \intersect Queued(queued, q) = {}
    <3>1. Queued(state, p) \intersect Queued(state, q) = {}
      BY <2>7 DEF Placed
    <3> QED BY <2>1, <2>2, <2>4, <2>7, <3>1
  <2>8. ASSUME NEW p \in Port
        PROVE  Queued(queued, p) \intersect
                 (queued.translating \union queued.sent) = {}
    <3>1. Queued(state, p) \intersect (state.translating \union state.sent) = {}
      BY DEF Placed
    <3> QED BY <1>5, <2>1, <2>2, <2>4, <3>1
  <2>9. queued.translating \intersect queued.sent = {}
    BY <1>5 DEF Placed
  <2> QED BY <1>5, <2>3, <2>6, <2>7, <2>8, <2>9 DEF Placed
<1> QED BY <1>3, <1>6 DEF SendPacket

\* So does a translation, whatever its outcome.
LEMMA TranslatePlaced ==
  ASSUME NEW state, Placed(state), NEW pkt \in Packet, pkt \notin FlightOf(state),
         NEW outcome
  PROVE  /\ Placed(Translate(state, pkt, outcome))
         /\ FlightOf(Translate(state, pkt, outcome)) =
              FlightOf(state) \union {pkt}
<1> DEFINE missed == [state EXCEPT !.translating = @ \union {pkt}]
<1>1. /\ missed \in IO
      /\ missed.translating = state.translating \union {pkt}
      /\ missed.sent = state.sent /\ missed.stalled = state.stalled
  BY DEF Placed, IO
<1>2. \A p \in Port : /\ Queued(missed, p) = Queued(state, p)
                      /\ pkt \notin Queued(state, p)
  BY <1>1 DEF Queued, FlightOf, Port
<1>3. FlightOf(missed) = FlightOf(state) \union {pkt}
  BY <1>1, <1>2 DEF FlightOf, Port
<1>4. pkt \notin state.sent
  BY DEF FlightOf
<1>5. Placed(missed)
  BY <1>1, <1>2, <1>4 DEF Placed
<1> QED BY <1>3, <1>5, SendPlaced DEF Translate

\* A packet that leaves the TLBs, or the memory, is nowhere else.
LEMMA TakenFromTLB ==
  ASSUME NEW state, Placed(state), NEW pkt \in state.translating
  PROVE  LET rest == [state EXCEPT !.translating = @ \ {pkt}] IN
         /\ Placed(rest) /\ FlightOf(rest) = FlightOf(state) \ {pkt}
         /\ pkt \in Packet /\ pkt \in FlightOf(state)
<1> DEFINE rest == [state EXCEPT !.translating = @ \ {pkt}]
<1>1. /\ rest \in IO /\ pkt \in Packet
      /\ rest.translating = state.translating \ {pkt}
      /\ rest.sent = state.sent /\ rest.stalled = state.stalled
  BY DEF Placed, IO
<1>2. \A p \in Port : /\ Queued(rest, p) = Queued(state, p)
                      /\ pkt \notin Queued(state, p)
  BY <1>1 DEF Queued, Placed
<1>3. FlightOf(rest) = FlightOf(state) \ {pkt}
  <2>1. pkt \notin state.sent /\ {"host", "device"} \subseteq Port
    BY DEF Placed, Port
  <2> QED BY <1>1, <1>2, <2>1 DEF FlightOf
<1>4. Placed(rest)
  BY <1>1, <1>2 DEF Placed
<1> QED BY <1>1, <1>3, <1>4 DEF FlightOf

LEMMA TakenFromMemory ==
  ASSUME NEW state, Placed(state), NEW pkt \in state.sent
  PROVE  LET rest == [state EXCEPT !.sent = @ \ {pkt}] IN
         /\ Placed(rest) /\ FlightOf(rest) = FlightOf(state) \ {pkt}
         /\ pkt \in Packet /\ pkt \in FlightOf(state)
<1> DEFINE rest == [state EXCEPT !.sent = @ \ {pkt}]
<1>1. /\ rest \in IO /\ pkt \in Packet
      /\ rest.sent = state.sent \ {pkt}
      /\ rest.translating = state.translating /\ rest.stalled = state.stalled
  BY DEF Placed, IO
<1>2. \A p \in Port : /\ Queued(rest, p) = Queued(state, p)
                      /\ pkt \notin Queued(state, p)
  BY <1>1 DEF Queued, Placed
<1>3. FlightOf(rest) = FlightOf(state) \ {pkt}
  <2>1. pkt \notin state.translating /\ {"host", "device"} \subseteq Port
    BY DEF Placed, Port
  <2> QED BY <1>1, <1>2, <2>1 DEF FlightOf
<1>4. Placed(rest)
  BY <1>1, <1>2 DEF Placed
<1> QED BY <1>1, <1>3, <1>4 DEF FlightOf

\* A retry moves the packets at the front of a port's queue to the memory.
Retried(state, port, n) ==
  [state EXCEPT !.stalled[port] = SubSeq(@, n + 1, Len(@)),
                !.sent = @ \union {state.stalled[port][i] : i \in 1 .. n}]

LEMMA RetryPlaced ==
  ASSUME NEW state, Placed(state), NEW port \in Port,
         NEW n \in 1 .. Len(state.stalled[port])
  PROVE  /\ Placed(Retried(state, port, n))
         /\ FlightOf(Retried(state, port, n)) = FlightOf(state)
<1> DEFINE next == Retried(state, port, n)
           s == state.stalled[port]
           rest == SubSeq(s, n + 1, Len(s))
           moved == {s[i] : i \in 1 .. n}
<1>0. n \in 1 .. Len(s) /\ \A x : x \in moved <=> \E i \in 1 .. n : x = s[i]
  OBVIOUS
<1>1. /\ s \in Seq(Packet) /\ Len(s) \in Nat /\ DOMAIN s = 1 .. Len(s)
      /\ rest \in Seq(Packet) /\ DOMAIN rest = 1 .. Len(s) - n
      /\ \A i \in 1 .. Len(s) - n : rest[i] = s[i + n]
      /\ moved \subseteq Packet
  BY DEF Placed, IO
<1>2. /\ next \in IO
      /\ next.translating = state.translating
      /\ next.sent = state.sent \union moved
      /\ next.stalled[port] = rest
      /\ \A p \in Port : p # port => next.stalled[p] = state.stalled[p]
  BY <1>1 DEF Placed, IO, Retried
<1> HIDE DEF next, s, rest, moved
<1>3. \A p \in Port : p # port => Queued(next, p) = Queued(state, p)
  BY <1>2 DEF Queued
<1>4. /\ Queued(state, port) = moved \union Queued(next, port)
      /\ moved \intersect Queued(next, port) = {}
  <2>1. NoRepeats(s)
    BY DEF Placed, s
  <2>2. ASSUME NEW i \in 1 .. n, NEW j \in 1 .. Len(s) - n PROVE s[i] # rest[j]
    <3>1. i \in 1 .. Len(s) /\ j + n \in 1 .. Len(s) /\ i # j + n
      BY <1>0, <1>1
    <3>2. rest[j] = s[j + n]
      BY <1>1
    <3> QED BY <1>1, <2>1, <3>1, <3>2 DEF NoRepeats
  <2>3. ASSUME NEW x \in Queued(state, port) PROVE x \in moved \union Queued(next, port)
    <3>1. PICK i \in 1 .. Len(s) : x = s[i]
      BY <1>1 DEF Queued, s
    <3>2. CASE i <= n
      BY <1>0, <3>1, <3>2
    <3>3. CASE ~(i <= n)
      <4>1. i - n \in 1 .. Len(s) - n /\ rest[i - n] = x
        BY <1>0, <1>1, <3>1, <3>3
      <4> QED BY <1>1, <1>2, <4>1 DEF Queued
    <3> QED BY <3>2, <3>3
  <2>4. moved \subseteq Queued(state, port)
    BY <1>0, <1>1 DEF Queued, s
  <2>5. ASSUME NEW x \in Queued(next, port) PROVE x \in Queued(state, port)
    <3>1. PICK j \in 1 .. Len(s) - n : x = s[j + n]
      BY <1>1, <1>2 DEF Queued
    <3>2. j + n \in 1 .. Len(s)
      BY <1>0, <1>1, <3>1
    <3> QED BY <1>1, <3>1, <3>2 DEF Queued, s
  <2>6. moved \intersect Queued(next, port) = {}
    BY <1>0, <1>1, <1>2, <2>2 DEF Queued
  <2> QED BY <2>3, <2>4, <2>5, <2>6
<1>5. FlightOf(next) = FlightOf(state)
  <2>1. CASE port = "host"
    BY <1>2, <1>3, <1>4, <2>1 DEF FlightOf, Port
  <2>2. CASE port = "device"
    BY <1>2, <1>3, <1>4, <2>2 DEF FlightOf, Port
  <2> QED BY <2>1, <2>2 DEF Port
<1>6. NoRepeats(rest)
  <2> SUFFICES ASSUME NEW i \in 1 .. Len(s) - n, NEW j \in 1 .. Len(s) - n, i # j
               PROVE  rest[i] # rest[j]
    BY <1>1 DEF NoRepeats
  <2>1. n \in 1 .. Len(s)
    BY <1>0
  <2>3. i + n \in 1 .. Len(s) /\ j + n \in 1 .. Len(s) /\ i + n # j + n
    BY <1>1, <2>1
  <2>2. NoRepeats(s)
    BY DEF Placed, s
  <2> QED BY <1>1, <2>2, <2>3 DEF NoRepeats
<1>7. ASSUME NEW p \in Port
      PROVE  Queued(next, p) \intersect (next.translating \union next.sent) = {}
  <2>1. CASE p = port
    BY <1>2, <1>4, <2>1 DEF Placed
  <2>2. CASE p # port
    <3>1. Queued(state, p) \intersect Queued(state, port) = {}
      BY <2>2 DEF Placed
    <3> QED BY <1>2, <1>3, <1>4, <2>2, <3>1 DEF Placed
  <2> QED BY <2>1, <2>2
<1>8. ASSUME NEW p \in Port, NEW q \in Port, q # p
      PROVE  Queued(next, p) \intersect Queued(next, q) = {}
  <2>1. Queued(state, p) \intersect Queued(state, q) = {}
    BY <1>8 DEF Placed
  <2> QED BY <1>3, <1>4, <2>1
<1>9. next.translating \intersect next.sent = {}
  BY <1>2, <1>4 DEF Placed
<1>10. \A p \in Port : NoRepeats(next.stalled[p])
  BY <1>2, <1>6 DEF Placed
<1> QED BY <1>2, <1>5, <1>7, <1>8, <1>9, <1>10 DEF Placed, next

-----------------------------------------------------------------------------
(* The bytes of the packets in flight.                                     *)

BytesOf(flight, cmd) == UNION {Bytes(pkt) : pkt \in {q \in flight : q.cmd = cmd}}

\* Packets of one kind do not overlap.
Apart(flight) ==
  \A p, q \in flight : p # q /\ p.cmd = q.cmd => Bytes(p) \intersect Bytes(q) = {}

\* The bytes in flight are those of BytesInFlight.
LEMMA BytesAreInFlight ==
  ASSUME NEW cmd
  PROVE  BytesOf(FlightOf(io), cmd) = BytesInFlight(cmd)
BY FlightIsInFlight DEF BytesOf, BytesInFlight

LEMMA BytesMember ==
  ASSUME NEW flight, NEW cmd, NEW x
  PROVE  x \in BytesOf(flight, cmd) <=>
           \E q \in flight : q.cmd = cmd /\ x \in Bytes(q)
BY Zenon DEF BytesOf

LEMMA NoneInFlight ==
  ASSUME NEW cmd
  PROVE  BytesOf({}, cmd) = {}
BY BytesMember

\* A packet of the engine has at least one byte.
LEMMA SomeBytes ==
  ASSUME NEW pkt \in Packet
  PROVE  /\ pkt.first \in Int /\ pkt.size \in Nat /\ pkt.size > 0
         /\ pkt.first \in Bytes(pkt)
         /\ IsFiniteSet(Bytes(pkt)) /\ Cardinality(Bytes(pkt)) = pkt.size
<1>1. /\ pkt.first \in Int /\ pkt.size \in Nat /\ pkt.size > 0
      /\ pkt.first <= pkt.first + pkt.size - 1
  BY EngineAssumption DEF Packet
<1>2. ASSUME NEW a \in Int, NEW b \in Int
      PROVE  /\ IsFiniteSet(a .. b)
             /\ Cardinality(a .. b) = IF a > b THEN 0 ELSE b - a + 1
  BY FS_Interval, Zenon
<1> DEFINE last == pkt.first + pkt.size - 1
<1>3. last \in Int
  BY <1>1
<1>4. /\ IsFiniteSet(pkt.first .. last)
      /\ Cardinality(pkt.first .. last) =
           IF pkt.first > last THEN 0 ELSE last - pkt.first + 1
  BY <1>1, <1>2, <1>3
<1> QED BY <1>1, <1>4 DEF Bytes

\* A packet whose bytes are not in flight is new, and stays apart.
LEMMA AddedBytes ==
  ASSUME NEW flight, Apart(flight), NEW pkt \in Packet,
         Bytes(pkt) \intersect BytesOf(flight, pkt.cmd) = {}
  PROVE  /\ pkt \notin flight
         /\ Apart(flight \union {pkt})
         /\ \A cmd : BytesOf(flight \union {pkt}, cmd) =
                       IF cmd = pkt.cmd THEN BytesOf(flight, cmd) \union Bytes(pkt)
                       ELSE BytesOf(flight, cmd)
<1>1. pkt \notin flight
  BY SomeBytes, BytesMember
<1>2. ASSUME NEW q \in flight, q.cmd = pkt.cmd
      PROVE  Bytes(q) \intersect Bytes(pkt) = {}
  BY <1>2, BytesMember
<1>3. Apart(flight \union {pkt})
  BY <1>2 DEF Apart
<1>4. ASSUME NEW cmd
      PROVE  BytesOf(flight \union {pkt}, cmd) =
               IF cmd = pkt.cmd THEN BytesOf(flight, cmd) \union Bytes(pkt)
               ELSE BytesOf(flight, cmd)
  <2>1. \A x : x \in BytesOf(flight \union {pkt}, cmd) <=>
                 \/ \E q \in flight : q.cmd = cmd /\ x \in Bytes(q)
                 \/ pkt.cmd = cmd /\ x \in Bytes(pkt)
    BY BytesMember
  <2>2. \A x : x \in BytesOf(flight, cmd) <=>
                 \E q \in flight : q.cmd = cmd /\ x \in Bytes(q)
    BY BytesMember
  <2> QED BY <2>1, <2>2
<1> QED BY <1>1, <1>3, <1>4

\* A packet that arrives takes its bytes with it.
LEMMA TakenBytes ==
  ASSUME NEW flight, Apart(flight), NEW pkt \in flight
  PROVE  /\ Apart(flight \ {pkt})
         /\ Bytes(pkt) \subseteq BytesOf(flight, pkt.cmd)
         /\ \A cmd : BytesOf(flight \ {pkt}, cmd) =
                       IF cmd = pkt.cmd THEN BytesOf(flight, cmd) \ Bytes(pkt)
                       ELSE BytesOf(flight, cmd)
<1>1. Apart(flight \ {pkt})
  BY DEF Apart
<1>2. Bytes(pkt) \subseteq BytesOf(flight, pkt.cmd)
  BY BytesMember
<1>3. ASSUME NEW cmd
      PROVE  BytesOf(flight \ {pkt}, cmd) =
               IF cmd = pkt.cmd THEN BytesOf(flight, cmd) \ Bytes(pkt)
               ELSE BytesOf(flight, cmd)
  <2>1. \A x : x \in BytesOf(flight \ {pkt}, cmd) <=>
                 \E q \in flight \ {pkt} : q.cmd = cmd /\ x \in Bytes(q)
    BY BytesMember
  <2>2. \A x : x \in BytesOf(flight, cmd) <=>
                 \E q \in flight : q.cmd = cmd /\ x \in Bytes(q)
    BY BytesMember
  <2>3. ASSUME NEW q \in flight, q # pkt, q.cmd = pkt.cmd
        PROVE  Bytes(q) \intersect Bytes(pkt) = {}
    BY <2>3 DEF Apart
  <2> QED BY <2>1, <2>2, <2>3
<1> QED BY <1>1, <1>2, <1>3

-----------------------------------------------------------------------------
(* The invariant. What is in flight of the reads, with what has been read, *)
(* is what was asked for; what is in flight of the writes is what was      *)
(* handed over and is not stored. A memset has read everything.            *)

Ranges ==
  /\ RangeInv
  /\ running \in BOOLEAN /\ needToRead \in BOOLEAN /\ needToWrite \in BOOLEAN
  /\ readsDone \subseteq 0 .. op.length - 1
  /\ tick \in {"idle", "scheduled"}
  /\ dest \in [0 .. op.length - 1 -> {"old", "copied", "garbage"}]
  /\ started \in 0 .. MaxOps

Arrived == {i \in DOMAIN dest : dest[i] # "old"}

ReadsAccounted ==
  /\ BytesOf(FlightOf(io), "Read") \union readsDone = 0 .. ReadOffset - 1
  /\ BytesOf(FlightOf(io), "Read") \intersect readsDone = {}

WritesAccounted ==
  /\ BytesOf(FlightOf(io), "Write") =
       {i \in 0 .. WriteOffset - 1 : dest[i] = "old"}
  /\ \A i \in WriteOffset .. op.length - 1 : dest[i] = "old"
  /\ 0 .. WriteOffset - 1 \subseteq readsDone
  /\ writeDone = Cardinality(Arrived)

\* An operation is over when nothing of it is in flight or missing.
OverWhenArrived ==
  /\ ~running => FlightOf(io) = {}
  /\ running => Arrived # DOMAIN dest

AInv ==
  /\ Ranges
  /\ Placed(io)
  /\ Apart(FlightOf(io))
  /\ ReadsAccounted
  /\ WritesAccounted
  /\ OverWhenArrived

\* The invariant says that the state is well typed.
LEMMA AInvTypes == AInv => TypeOK
<1> SUFFICES ASSUME AInv PROVE TypeOK
  OBVIOUS
<1>1. op.length \in Nat
  BY DEF AInv, Ranges, RangeInv, Operation
<1>2. io.translating \subseteq Packet /\ io.sent \subseteq Packet
      /\ io.stalled \in [Port -> Seq(Packet)]
  BY DEF AInv, Placed, IO
<1>3. writeDone \in 0 .. op.length
  <2>1. Arrived \subseteq 0 .. op.length - 1
    BY DEF Arrived, AInv, Ranges
  <2> DEFINE last == op.length - 1
  <2>2. last \in Int
    BY <1>1
  <2> HIDE DEF last
  <2>3. IsFiniteSet(0 .. last) /\ Cardinality(0 .. last) = IF 0 > last THEN 0 ELSE last - 0 + 1
    BY <2>2, FS_Interval
  <2>4. /\ IsFiniteSet(Arrived) /\ Cardinality(Arrived) <= Cardinality(0 .. last)
    BY <2>1, <2>3, FS_Subset DEF last
  <2>5. Cardinality(Arrived) \in Nat
    BY <2>4, FS_CardinalityType
  <2> QED BY <1>1, <2>3, <2>4, <2>5 DEF last, AInv, WritesAccounted
<1> QED BY <1>2, <1>3 DEF TypeOK, AInv, Ranges, RangeInv

\* It says what EveryByteAccounted says.
LEMMA AInvAccounts == AInv => EveryByteAccounted
BY BytesAreInFlight, FlightIsInFlight
   DEF AInv, ReadsAccounted, WritesAccounted, OverWhenArrived, Arrived,
       EveryByteAccounted

LEMMA InitAInv == Init => AInv
<1> SUFFICES ASSUME Init PROVE AInv
  OBVIOUS
<1>1. op \in Operation /\ op.length = 1
  BY DEF Init
<1>2. FlightOf(io) = {}
  BY DEF Init, FlightOf, Queued, Port
<1>3. Placed(io)
  BY DEF Init, Placed, IO, Queued, NoRepeats, Port
<1>4. Apart(FlightOf(io))
  BY <1>2 DEF Apart
<1>5. BytesOf(FlightOf(io), "Read") = {} /\ BytesOf(FlightOf(io), "Write") = {}
  BY <1>2, NoneInFlight
<1>6. ReadOffset = 1 /\ WriteOffset = 1
  BY <1>1 DEF Init, ReadOffset, WriteOffset
<1>7. Arrived = {0} /\ Cardinality({0}) = 1
  BY FS_Singleton DEF Init, Arrived
<1>8. ReadsAccounted /\ WritesAccounted
  <2>1. 0 .. 1 - 1 = {0} /\ 1 .. 1 - 1 = {} /\ 1 .. 0 = {}
    OBVIOUS
  <2>2. readsDone = {0} /\ dest[0] = "copied" /\ writeDone = 1
    BY DEF Init
  <2>3. ReadsAccounted
    BY <1>5, <1>6, <2>1, <2>2 DEF ReadsAccounted
  <2>4. {i \in 0 .. WriteOffset - 1 : dest[i] = "old"} = {}
    BY <1>6, <2>1, <2>2
  <2> QED BY <1>1, <1>5, <1>6, <1>7, <2>1, <2>2, <2>3, <2>4 DEF WritesAccounted
<1>9. Ranges
  <2>1. 0 .. op.length - 1 = {0} /\ 0 \in 0 .. op.length
    BY <1>1
  <2>2. RangeInv
    BY <1>1, <2>1 DEF Init, RangeInv
  <2>3. dest \in [{0} -> {"old", "copied", "garbage"}]
    BY DEF Init
  <2>4. started \in 0 .. MaxOps
    BY EngineAssumption DEF Init
  <2> QED BY <2>1, <2>2, <2>3, <2>4 DEF Init, Ranges
<1>10. OverWhenArrived
  BY <1>2 DEF Init, OverWhenArrived
<1> QED BY <1>3, <1>4, <1>8, <1>9, <1>10 DEF AInv

\* memcpy and memset find nothing in flight.
LEMMA BeginAInv ==
  ASSUME AInv, NEW o \in Operation, Begin(o)
  PROVE  AInv'
<1>1. o.length \in Nat /\ o.length > 0 /\ op' = o
  BY EngineAssumption DEF Operation, Begin
<1>2. FlightOf(io) = {} /\ io' = io
  BY DEF AInv, OverWhenArrived, Begin
<1>3. Placed(io') /\ Apart(FlightOf(io'))
  BY <1>2 DEF AInv
<1>4. BytesOf(FlightOf(io'), "Read") = {} /\ BytesOf(FlightOf(io'), "Write") = {}
  BY <1>2, NoneInFlight
<1>5. /\ WriteOffset' = 0
      /\ ReadOffset' = IF o.kind = "memset" THEN o.length ELSE 0
  BY <1>1 DEF Begin, WriteOffset, ReadOffset
<1>6. ReadsAccounted'
  BY <1>1, <1>4, <1>5 DEF Begin, ReadsAccounted
<1>7. Arrived' = {} /\ 0 \in DOMAIN dest'
  BY <1>1 DEF Begin, Arrived
<1>8. WritesAccounted'
  <2>1. writeDone' = Cardinality(Arrived')
    BY <1>7, FS_EmptySet DEF Begin
  <2>2. 0 .. WriteOffset' - 1 = {}
    BY <1>5
  <2>3. \A i \in 0 .. op'.length - 1 : dest'[i] = "old"
    BY <1>1 DEF Begin
  <2> QED BY <1>4, <1>5, <2>1, <2>2, <2>3 DEF WritesAccounted
<1>9. Ranges'
  <2>1. RangeInv'
    <3>1. writeLeft' = o.length
      BY DEF Begin
    <3>2. o.kind = "memset" => readLeft' = 0 /\ ~needToRead'
      BY DEF Begin
    <3>3. o.kind # "memset" => readLeft' = o.length
      BY DEF Begin
    <3> QED BY <1>1, <3>1, <3>2, <3>3 DEF RangeInv
  <2>2. started' \in 0 .. MaxOps
    BY EngineAssumption DEF Begin, AInv, Ranges
  <2> QED BY <1>1, <2>1, <2>2 DEF Begin, Ranges
<1>10. OverWhenArrived'
  BY <1>7 DEF OverWhenArrived, Begin
<1> QED BY <1>3, <1>6, <1>8, <1>9, <1>10 DEF AInv

\* Packets may move as long as the same ones stay in flight.
LEMMA MovedAInv ==
  ASSUME AInv, Placed(io'), FlightOf(io') = FlightOf(io),
         UNCHANGED <<control, needToRead, needToWrite, readLeft, writeLeft,
                     readsDone, writeDone, dest>>,
         tick' \in {"idle", "scheduled"}
  PROVE  AInv'
<1>1. Ranges'
  BY DEF AInv, Ranges, RangeInv, control
<1>2. ReadsAccounted' /\ WritesAccounted'
  BY DEF AInv, ReadsAccounted, WritesAccounted, ReadOffset, WriteOffset, Arrived,
         control
<1>3. OverWhenArrived'
  BY DEF AInv, OverWhenArrived, Arrived, control
<1> QED BY <1>1, <1>2, <1>3 DEF AInv

LEMMA FinishTranslationAInv ==
  ASSUME AInv, FinishTranslation
  PROVE  AInv'
<1>1. PICK pkt \in io.translating, accepted \in BOOLEAN :
        /\ io' = SendPacket([io EXCEPT !.translating = @ \ {pkt}], pkt, accepted)
        /\ UNCHANGED <<control, needToRead, needToWrite, readLeft, writeLeft,
                       readsDone, writeDone, tick, dest>>
  BY DEF FinishTranslation
<1> DEFINE rest == [io EXCEPT !.translating = @ \ {pkt}]
<1>2. /\ Placed(rest) /\ FlightOf(rest) = FlightOf(io) \ {pkt}
      /\ pkt \in Packet /\ pkt \in FlightOf(io)
  BY TakenFromTLB DEF AInv
<1> HIDE DEF rest
<1>3. Placed(io') /\ FlightOf(io') = FlightOf(rest) \union {pkt}
  <2>1. io' = SendPacket(rest, pkt, accepted)
    BY <1>1 DEF rest
  <2> QED BY <1>2, <2>1, SendPlaced
<1>4. FlightOf(io') = FlightOf(io)
  BY <1>2, <1>3
<1> QED BY <1>1, <1>3, <1>4, MovedAInv DEF AInv, Ranges

LEMMA RecvReqRetryAInv ==
  ASSUME AInv, RecvReqRetry
  PROVE  AInv'
<1>1. PICK port \in Port : \E n \in 1 .. Len(io.stalled[port]) :
        /\ io' = [io EXCEPT
             !.stalled[port] = SubSeq(@, n + 1, Len(@)),
             !.sent = @ \union {io.stalled[port][i] : i \in 1 .. n}]
        /\ tick' = "scheduled"
        /\ UNCHANGED <<control, needToRead, needToWrite, readLeft, writeLeft,
                       readsDone, writeDone, dest>>
  BY DEF RecvReqRetry
<1>2. PICK n \in 1 .. Len(io.stalled[port]) :
        /\ io' = [io EXCEPT
             !.stalled[port] = SubSeq(@, n + 1, Len(@)),
             !.sent = @ \union {io.stalled[port][i] : i \in 1 .. n}]
        /\ tick' = "scheduled"
        /\ UNCHANGED <<control, needToRead, needToWrite, readLeft, writeLeft,
                       readsDone, writeDone, dest>>
  BY <1>1
<1>3. Placed(io') /\ FlightOf(io') = FlightOf(io)
  <2>1. Placed(io)
    BY DEF AInv
  <2>2. io' = Retried(io, port, n)
    BY <1>2 DEF Retried
  <2> QED BY <2>1, <2>2, RetryPlaced
<1> QED BY <1>2, <1>3, MovedAInv

-----------------------------------------------------------------------------
(* tick                                                                    *)

\* What tryRead sends begins where the reads asked for so far end.
LEMMA ReadIsNew ==
  ASSUME AInv, Reads
  PROVE  /\ ReadPacket \in Packet /\ ReadPacket.cmd = "Read"
         /\ ReadPacket.size \in 1 .. readLeft
         /\ Bytes(ReadPacket) = ReadOffset .. ReadOffset + ReadPacket.size - 1
<1>1. /\ op.length \in 1 .. MaxLength /\ op.src \in Nat /\ readLeft > 0
      /\ readLeft \in 0 .. op.length
  BY EngineAssumption DEF AInv, Ranges, RangeInv, Reads, Operation
<1>2. ReadOffset \in 0 .. op.length - 1 /\ readLeft \in Nat
  BY <1>1, EngineAssumption DEF ReadOffset
<1> DEFINE address == op.src + ReadOffset
<1>3. address \in Nat
  BY <1>1, <1>2
<1> HIDE DEF address
<1>4. SizeAt(address, readLeft) \in 1 .. readLeft
  BY <1>1, <1>2, <1>3, SizeBounds
<1>5. SizeAt(address, readLeft) \in 1 .. LineSize
  <2>1. address % LineSize \in 0 .. LineSize - 1
    BY <1>3, EngineAssumption
  <2> QED BY <1>2, <1>4, <2>1, EngineAssumption DEF SizeAt
<1>6. ReadPacket = [cmd |-> "Read", first |-> ReadOffset,
                    size |-> SizeAt(address, readLeft), data |-> FALSE]
  BY DEF ReadPacket, address
<1> QED BY <1>1, <1>2, <1>4, <1>5, <1>6, EngineAssumption DEF Packet, Bytes

\* What tryWrite sends begins where the writes end, and has been read.
LEMMA WriteIsNew ==
  ASSUME AInv, NEW state, Writes(state)
  PROVE  /\ WritePacket \in Packet /\ WritePacket.cmd = "Write"
         /\ WritePacket.size \in 1 .. writeLeft
         /\ Bytes(WritePacket) = WriteOffset .. WriteOffset + WritePacket.size - 1
         /\ Bytes(WritePacket) \subseteq readsDone
<1> DEFINE size == SizeAt(op.dst + WriteOffset, writeLeft)
           read == WriteOffset .. WriteOffset + size - 1 \subseteq readsDone
<1>1. WritePacket = [cmd |-> "Write", first |-> WriteOffset, size |-> size,
                     data |-> read]
  BY DEF WritePacket
<1>2. WritePacket \in Valid /\ WritePacket.size \in 1 .. writeLeft
  BY PacketsValid DEF AInv, Ranges
<1>3. /\ op.length \in 1 .. MaxLength /\ op.dst \in Nat
      /\ writeLeft \in 0 .. op.length
  BY EngineAssumption DEF AInv, Ranges, RangeInv, Operation
<1>4. size \in 1 .. writeLeft
  BY <1>1, <1>2
<1>5. WriteOffset \in 0 .. op.length - 1 /\ op.dst + WriteOffset \in Nat
  BY <1>3, <1>4, EngineAssumption DEF WriteOffset
<1>6. size \in 1 .. LineSize
  <2>1. (op.dst + WriteOffset) % LineSize \in 0 .. LineSize - 1
    BY <1>5, EngineAssumption
  <2> QED BY <1>3, <1>4, <2>1, EngineAssumption DEF SizeAt
<1>7. read
  BY <1>1, <1>2 DEF Valid
<1>8. read \in BOOLEAN
  OBVIOUS
<1> HIDE DEF size, read
<1>9. WritePacket \in Packet
  BY <1>1, <1>3, <1>5, <1>6, <1>8, EngineAssumption DEF Packet
<1>10. Bytes(WritePacket) = WriteOffset .. WriteOffset + WritePacket.size - 1
  BY <1>1 DEF Bytes
<1>11. Bytes(WritePacket) \subseteq readsDone
  BY <1>1, <1>7, <1>10 DEF read
<1> QED BY <1>1, <1>2, <1>9, <1>10, <1>11

\* A tick adds to what is in flight what it takes from what is left.
LEMMA TickAInv ==
  ASSUME AInv, Tick
  PROVE  AInv'
<1>1. UNCHANGED <<op, running, started, needToWrite, readsDone, writeDone, dest>>
  BY DEF Tick, control
<1>2. op.length \in Nat /\ readLeft \in 0 .. op.length /\ writeLeft \in 0 .. op.length
  BY DEF AInv, Ranges, RangeInv, Operation
<1>3. CASE ~running
  <2>1. tick' = "idle" /\ UNCHANGED <<needToRead, readLeft, writeLeft, io>>
    BY <1>3 DEF Tick
  <2> QED BY <1>1, <2>1, MovedAInv DEF AInv, control
<1>4. CASE running
  <2>1. PICK r \in Outcome, w \in Outcome :
          LET middle == IF Reads THEN Translate(io, ReadPacket, r) ELSE io
          IN /\ readLeft' = IF Reads THEN readLeft - ReadPacket.size ELSE readLeft
             /\ needToRead' = (needToRead /\ (Reads => readLeft' > 0))
             /\ io' = IF Writes(middle) THEN Translate(middle, WritePacket, w)
                                        ELSE middle
             /\ writeLeft' = IF Writes(middle) THEN writeLeft - WritePacket.size
                                               ELSE writeLeft
             /\ tick' \in {"scheduled", "idle"}
    BY <1>4, Zenon DEF Tick
  <2> DEFINE middle == IF Reads THEN Translate(io, ReadPacket, r) ELSE io
             flight == FlightOf(io)
             half == FlightOf(middle)
  <2>2. /\ readLeft' = IF Reads THEN readLeft - ReadPacket.size ELSE readLeft
        /\ needToRead' = (needToRead /\ (Reads => readLeft' > 0))
        /\ io' = IF Writes(middle) THEN Translate(middle, WritePacket, w)
                                   ELSE middle
        /\ writeLeft' = IF Writes(middle) THEN writeLeft - WritePacket.size
                                          ELSE writeLeft
        /\ tick' \in {"scheduled", "idle"}
    BY <2>1
  <2>3. /\ Placed(io) /\ Apart(flight)
        /\ BytesOf(flight, "Read") \union readsDone = 0 .. ReadOffset - 1
        /\ BytesOf(flight, "Read") \intersect readsDone = {}
        /\ BytesOf(flight, "Write") =
             {i \in 0 .. WriteOffset - 1 : dest[i] = "old"}
    BY DEF AInv, ReadsAccounted, WritesAccounted
  <2>4. ReadOffset \in 0 .. op.length /\ WriteOffset \in 0 .. op.length
    BY <1>2 DEF ReadOffset, WriteOffset
  <2>5. /\ Placed(middle) /\ Apart(half)
        /\ BytesOf(half, "Write") = BytesOf(flight, "Write")
        /\ BytesOf(half, "Read") \union readsDone = 0 .. ReadOffset' - 1
        /\ BytesOf(half, "Read") \intersect readsDone = {}
        /\ readLeft' \in 0 .. op.length
    <3>1. CASE ~Reads
      <4>1. middle = io /\ readLeft' = readLeft /\ ReadOffset' = ReadOffset
        BY <1>1, <2>2, <3>1 DEF ReadOffset
      <4> QED BY <1>2, <2>3, <4>1
    <3>2. CASE Reads
      <4>1. /\ ReadPacket \in Packet /\ ReadPacket.cmd = "Read"
            /\ ReadPacket.size \in 1 .. readLeft
            /\ Bytes(ReadPacket) = ReadOffset .. ReadOffset + ReadPacket.size - 1
        BY <3>2, ReadIsNew
      <4> DEFINE new == ReadPacket
      <4> HIDE DEF new
      <4>2. /\ new \in Packet /\ new.cmd = "Read" /\ new.size \in 1 .. readLeft
            /\ Bytes(new) = ReadOffset .. ReadOffset + new.size - 1
        BY <4>1 DEF new
      <4>3. ReadOffset' = ReadOffset + new.size /\ readLeft' \in 0 .. op.length
        BY <1>1, <1>2, <2>2, <3>2, <4>2 DEF new, ReadOffset
      <4>4. Bytes(new) \intersect BytesOf(flight, "Read") = {}
        BY <2>3, <2>4, <4>2
      <4>5. /\ new \notin flight /\ Apart(flight \union {new})
            /\ BytesOf(flight \union {new}, "Read") =
                 BytesOf(flight, "Read") \union Bytes(new)
            /\ BytesOf(flight \union {new}, "Write") = BytesOf(flight, "Write")
        <5> HIDE DEF flight
        <5>1. Apart(flight) /\ Bytes(new) \intersect BytesOf(flight, new.cmd) = {}
          BY <2>3, <4>2, <4>4
        <5>2. /\ new \notin flight /\ Apart(flight \union {new})
              /\ \A cmd : BytesOf(flight \union {new}, cmd) =
                   IF cmd = new.cmd THEN BytesOf(flight, cmd) \union Bytes(new)
                   ELSE BytesOf(flight, cmd)
          BY <4>2, <5>1, AddedBytes
        <5> QED BY <4>2, <5>2
      <4>6. Placed(middle) /\ half = flight \union {new}
        <5>1. middle = Translate(io, new, r)
          BY <3>2 DEF new
        <5> HIDE DEF middle
        <5> QED BY <2>3, <4>2, <4>5, <5>1, TranslatePlaced
      <4>7. Bytes(new) \intersect readsDone = {}
        BY <2>3, <2>4, <4>2
      <4>8. 0 .. ReadOffset' - 1 = (0 .. ReadOffset - 1) \union Bytes(new)
        BY <1>2, <2>4, <4>2, <4>3
      <4> HIDE DEF middle, half, flight
      <4> QED BY <2>3, <4>3, <4>5, <4>6, <4>7, <4>8
    <3> QED BY <3>1, <3>2
  <2>6. /\ Placed(io') /\ Apart(FlightOf(io'))
        /\ BytesOf(FlightOf(io'), "Read") = BytesOf(half, "Read")
        /\ BytesOf(FlightOf(io'), "Write") =
             {i \in 0 .. WriteOffset' - 1 : dest[i] = "old"}
        /\ \A i \in WriteOffset' .. op.length - 1 : dest[i] = "old"
        /\ 0 .. WriteOffset' - 1 \subseteq readsDone
        /\ writeLeft' \in 0 .. op.length
    <3> HIDE DEF middle
    <3>0. /\ \A i \in WriteOffset .. op.length - 1 : dest[i] = "old"
          /\ 0 .. WriteOffset - 1 \subseteq readsDone
      BY DEF AInv, WritesAccounted
    <3>1. CASE ~Writes(middle)
      <4>1. io' = middle /\ writeLeft' = writeLeft /\ WriteOffset' = WriteOffset
        BY <1>1, <2>2, <3>1 DEF WriteOffset
      <4> QED BY <1>2, <2>3, <2>5, <3>0, <4>1
    <3>2. CASE Writes(middle)
      <4>1. /\ WritePacket \in Packet /\ WritePacket.cmd = "Write"
            /\ WritePacket.size \in 1 .. writeLeft
            /\ Bytes(WritePacket) = WriteOffset .. WriteOffset + WritePacket.size - 1
            /\ Bytes(WritePacket) \subseteq readsDone
        BY <3>2, WriteIsNew
      <4> DEFINE new == WritePacket
      <4> HIDE DEF new
      <4>2. /\ new \in Packet /\ new.cmd = "Write" /\ new.size \in 1 .. writeLeft
            /\ Bytes(new) = WriteOffset .. WriteOffset + new.size - 1
            /\ Bytes(new) \subseteq readsDone
        BY <4>1 DEF new
      <4>3. WriteOffset' = WriteOffset + new.size /\ writeLeft' \in 0 .. op.length
        BY <1>1, <1>2, <2>2, <3>2, <4>2 DEF new, WriteOffset
      <4>4. Bytes(new) \intersect BytesOf(half, "Write") = {}
        BY <2>3, <2>4, <2>5, <4>2
      <4>5. /\ new \notin half /\ Apart(half \union {new})
            /\ BytesOf(half \union {new}, "Write") =
                 BytesOf(half, "Write") \union Bytes(new)
            /\ BytesOf(half \union {new}, "Read") = BytesOf(half, "Read")
        <5> HIDE DEF half
        <5>1. Apart(half) /\ Bytes(new) \intersect BytesOf(half, new.cmd) = {}
          BY <2>5, <4>2, <4>4
        <5>2. /\ new \notin half /\ Apart(half \union {new})
              /\ \A cmd : BytesOf(half \union {new}, cmd) =
                   IF cmd = new.cmd THEN BytesOf(half, cmd) \union Bytes(new)
                   ELSE BytesOf(half, cmd)
          BY <4>2, <5>1, AddedBytes
        <5> QED BY <4>2, <5>2
      <4>6. Placed(io') /\ FlightOf(io') = half \union {new}
        <5>1. io' = Translate(middle, new, w)
          BY <2>2, <3>2 DEF new
        <5> QED BY <2>5, <4>2, <4>5, <5>1, TranslatePlaced
      <4>7. 0 .. WriteOffset' - 1 = (0 .. WriteOffset - 1) \union Bytes(new)
        BY <1>2, <2>4, <4>2, <4>3
      <4>8. Bytes(new) \subseteq WriteOffset .. op.length - 1
        BY <1>2, <2>4, <4>2 DEF WriteOffset
      <4>9. \A i \in Bytes(new) : dest[i] = "old"
        BY <3>0, <4>8
      <4>10. \A i \in WriteOffset' .. op.length - 1 : dest[i] = "old"
        BY <1>2, <2>4, <3>0, <4>2, <4>3
      <4> HIDE DEF half, flight
      <4>11. {i \in 0 .. WriteOffset' - 1 : dest[i] = "old"} =
               {i \in 0 .. WriteOffset - 1 : dest[i] = "old"} \union Bytes(new)
        BY <4>7, <4>9
      <4>12. 0 .. WriteOffset' - 1 \subseteq readsDone
        BY <3>0, <4>2, <4>7
      <4> QED BY <2>3, <2>5, <4>3, <4>5, <4>6, <4>10, <4>11, <4>12
    <3> QED BY <3>1, <3>2
  <2> HIDE DEF middle, half
  <2>7. ReadsAccounted'
    BY <1>1, <2>5, <2>6 DEF ReadsAccounted
  <2>8. WritesAccounted'
    BY <1>1, <2>6 DEF WritesAccounted, AInv, Arrived
  <2>9. needToRead' \in BOOLEAN /\ (needToRead' => readLeft' > 0)
    <3>1. CASE Reads
      BY <2>2, <3>1
    <3>2. CASE ~Reads
      BY <2>2, <3>2 DEF AInv, Ranges, RangeInv
    <3> QED BY <3>1, <3>2
  <2>10. Ranges'
    BY <1>1, <2>2, <2>5, <2>6, <2>9 DEF AInv, Ranges, RangeInv
  <2>11. OverWhenArrived'
    BY <1>1, <1>4 DEF AInv, OverWhenArrived, Arrived
  <2> QED BY <2>6, <2>7, <2>8, <2>10, <2>11 DEF AInv
<1>5. running \in BOOLEAN
  BY DEF AInv, Ranges
<1> QED BY <1>3, <1>4, <1>5

-----------------------------------------------------------------------------
(* recvPacket                                                              *)

\* Counting the bytes that have arrived: a write adds its own.
LEMMA ArrivedCounts ==
  ASSUME op.length \in Nat, DOMAIN dest = 0 .. op.length - 1
  PROVE  /\ IsFiniteSet(Arrived) /\ Cardinality(Arrived) \in Nat
         /\ \A pkt \in Packet : Bytes(pkt) \intersect Arrived = {} =>
              Cardinality(Arrived \union Bytes(pkt)) =
                Cardinality(Arrived) + pkt.size
         /\ \A S \in SUBSET DOMAIN dest :
              Cardinality(S) < op.length <=> S # DOMAIN dest
<1> DEFINE last == op.length - 1
<1>1. last \in Int
  OBVIOUS
<1> HIDE DEF last
<1>2. /\ IsFiniteSet(0 .. last)
      /\ Cardinality(0 .. last) = IF 0 > last THEN 0 ELSE last - 0 + 1
  BY <1>1, FS_Interval
<1>3. DOMAIN dest = 0 .. last /\ Cardinality(0 .. last) = op.length
  BY <1>2 DEF last
<1>4. Arrived \in SUBSET (0 .. last)
  BY <1>3 DEF Arrived
<1>5. IsFiniteSet(Arrived) /\ Cardinality(Arrived) \in Nat
  BY <1>2, <1>4, FS_Subset, FS_CardinalityType
<1>6. ASSUME NEW pkt \in Packet, Bytes(pkt) \intersect Arrived = {}
      PROVE  Cardinality(Arrived \union Bytes(pkt)) = Cardinality(Arrived) + pkt.size
  <2>1. IsFiniteSet(Bytes(pkt)) /\ Cardinality(Bytes(pkt)) = pkt.size /\ pkt.size \in Nat
    BY SomeBytes
  <2>2. Cardinality(Arrived \union Bytes(pkt)) =
          Cardinality(Arrived) + Cardinality(Bytes(pkt))
            - Cardinality(Arrived \intersect Bytes(pkt))
    BY <1>5, <2>1, FS_Union
  <2>3. Arrived \intersect Bytes(pkt) = {} /\ Cardinality({}) = 0
    BY <1>6, FS_EmptySet
  <2>4. Cardinality(Arrived \intersect Bytes(pkt)) = 0
    BY <2>3
  <2>5. Cardinality(Arrived \union Bytes(pkt)) = Cardinality(Arrived) + pkt.size - 0
    BY <2>1, <2>2, <2>4
  <2> QED BY <1>5, <2>1, <2>5
<1>7. ASSUME NEW S \in SUBSET DOMAIN dest
      PROVE  Cardinality(S) < op.length <=> S # DOMAIN dest
  <2>1. /\ Cardinality(S) <= Cardinality(0 .. last) /\ IsFiniteSet(S)
        /\ Cardinality(0 .. last) = Cardinality(S) => 0 .. last = S
    BY <1>2, <1>3, FS_Subset
  <2>2. Cardinality(S) \in Nat
    BY <2>1, FS_CardinalityType
  <2> QED BY <1>3, <2>1, <2>2
<1> QED BY <1>5, <1>6, <1>7

\* What has arrived after the response to a write.
LEMMA WriteArrives ==
  ASSUME AInv, NEW pkt \in io.sent, RecvWrite(pkt), UNCHANGED <<op, writeLeft>>
  PROVE  /\ Bytes(pkt) \subseteq {i \in 0 .. WriteOffset - 1 : dest[i] = "old"}
         /\ Bytes(pkt) \subseteq DOMAIN dest
         /\ DOMAIN dest = 0 .. op.length - 1 /\ DOMAIN dest' = DOMAIN dest
         /\ \A i \in DOMAIN dest : dest'[i] = "old" <=>
                                     dest[i] = "old" /\ i \notin Bytes(pkt)
         /\ Arrived' = Arrived \union Bytes(pkt)
         /\ writeDone' = Cardinality(Arrived')
         /\ writeDone' < op.length <=> Arrived' # DOMAIN dest
<1>1. pkt \in Packet /\ pkt \in FlightOf(io) /\ pkt.cmd = "Write"
  BY TakenFromMemory DEF AInv, RecvWrite
<1>2. Bytes(pkt) \subseteq {i \in 0 .. WriteOffset - 1 : dest[i] = "old"}
  <2>1. Bytes(pkt) \subseteq BytesOf(FlightOf(io), pkt.cmd)
    BY <1>1, TakenBytes DEF AInv
  <2> QED BY <1>1, <2>1 DEF AInv, WritesAccounted
<1>3. /\ op.length \in Nat /\ WriteOffset \in 0 .. op.length
      /\ DOMAIN dest = 0 .. op.length - 1
  BY DEF AInv, Ranges, RangeInv, Operation, WriteOffset
<1>4. Bytes(pkt) \subseteq DOMAIN dest
  BY <1>2, <1>3
<1>5. dest' = [i \in DOMAIN dest |->
        IF i \notin Bytes(pkt) THEN dest[i]
        ELSE IF pkt.data THEN "copied" ELSE "garbage"]
  BY DEF RecvWrite
<1>6. /\ DOMAIN dest' = DOMAIN dest
      /\ \A i \in DOMAIN dest : dest'[i] = "old" <=>
                                  dest[i] = "old" /\ i \notin Bytes(pkt)
  BY <1>5
<1>7. Arrived' = Arrived \union Bytes(pkt)
  BY <1>4, <1>6 DEF Arrived
<1>8. Bytes(pkt) \intersect Arrived = {}
  BY <1>2 DEF Arrived
<1>9. writeDone' = Cardinality(Arrived')
  <2>1. writeDone' = Cardinality(Arrived) + pkt.size
    BY DEF RecvWrite, AInv, WritesAccounted
  <2> QED BY <1>1, <1>3, <1>7, <1>8, <2>1, ArrivedCounts
<1>10. writeDone' < op.length <=> Arrived' # DOMAIN dest
  <2>1. Arrived' \in SUBSET DOMAIN dest
    BY <1>6 DEF Arrived
  <2> QED BY <1>3, <1>9, <2>1, ArrivedCounts
<1> QED BY <1>2, <1>3, <1>4, <1>6, <1>7, <1>9, <1>10

\* A response takes its bytes from those in flight to those that have been
\* read or stored; the last one leaves nothing in flight.
LEMMA RecvPacketAInv ==
  ASSUME AInv, RecvPacket
  PROVE  AInv'
<1>1. PICK pkt \in io.sent :
        /\ UNCHANGED <<op, started, readLeft, writeLeft>>
        /\ RecvRead(pkt) \/ RecvWrite(pkt)
        /\ io' = [io EXCEPT !.sent = @ \ {pkt}]
  BY DEF RecvPacket
<1> DEFINE flight == FlightOf(io)
<1>2. /\ Placed(io') /\ FlightOf(io') = flight \ {pkt}
      /\ pkt \in Packet /\ pkt \in flight
  BY <1>1, TakenFromMemory DEF AInv
<1>3. /\ Apart(FlightOf(io'))
      /\ Bytes(pkt) \subseteq BytesOf(flight, pkt.cmd)
      /\ \A cmd : BytesOf(FlightOf(io'), cmd) =
                    IF cmd = pkt.cmd THEN BytesOf(flight, cmd) \ Bytes(pkt)
                    ELSE BytesOf(flight, cmd)
  <2>1. Apart(flight)
    BY DEF AInv
  <2> HIDE DEF flight
  <2>2. /\ Apart(flight \ {pkt})
        /\ Bytes(pkt) \subseteq BytesOf(flight, pkt.cmd)
        /\ \A cmd : BytesOf(flight \ {pkt}, cmd) =
                      IF cmd = pkt.cmd THEN BytesOf(flight, cmd) \ Bytes(pkt)
                      ELSE BytesOf(flight, cmd)
    BY <1>2, <2>1, TakenBytes
  <2> QED BY <1>2, <2>2
<1>4. /\ op.length \in Nat /\ ReadOffset \in 0 .. op.length
      /\ WriteOffset \in 0 .. op.length
      /\ ReadOffset' = ReadOffset /\ WriteOffset' = WriteOffset
  BY <1>1 DEF AInv, Ranges, RangeInv, Operation, ReadOffset, WriteOffset
<1>5. RangeInv'
  BY <1>1 DEF AInv, Ranges, RangeInv, RecvRead, RecvWrite
<1>6. CASE RecvRead(pkt)
  <2>1. /\ readsDone' = readsDone \union Bytes(pkt) /\ pkt.cmd = "Read"
        /\ UNCHANGED <<running, writeDone, dest>>
    BY <1>6 DEF RecvRead
  <2>2. /\ BytesOf(FlightOf(io'), "Read") = BytesOf(flight, "Read") \ Bytes(pkt)
        /\ BytesOf(FlightOf(io'), "Write") = BytesOf(flight, "Write")
        /\ Bytes(pkt) \subseteq BytesOf(flight, "Read")
    BY <1>3, <2>1
  <2>3. ReadsAccounted'
    BY <1>4, <2>1, <2>2 DEF AInv, ReadsAccounted
  <2>4. WritesAccounted'
    BY <1>1, <1>4, <2>1, <2>2 DEF AInv, WritesAccounted, Arrived
  <2>5. readsDone' \subseteq 0 .. op'.length - 1
    BY <1>1, <1>4, <2>3 DEF ReadsAccounted
  <2>6. tick' \in {"idle", "scheduled"}
    BY <1>6 DEF RecvRead, AInv, Ranges
  <2>7. needToWrite' \in BOOLEAN /\ needToRead' \in BOOLEAN
    BY <1>6 DEF RecvRead, AInv, Ranges
  <2>8. Ranges'
    BY <1>1, <1>5, <2>1, <2>5, <2>6, <2>7 DEF AInv, Ranges
  <2>9. OverWhenArrived'
    BY <1>2, <2>1 DEF AInv, OverWhenArrived, Arrived
  <2> QED BY <1>2, <1>3, <2>3, <2>4, <2>8, <2>9 DEF AInv
<1>7. CASE RecvWrite(pkt)
  <2>1. /\ pkt.cmd = "Write" /\ UNCHANGED <<needToRead, readsDone>>
        /\ dest' = [i \in DOMAIN dest |->
             IF i \notin Bytes(pkt) THEN dest[i]
             ELSE IF pkt.data THEN "copied" ELSE "garbage"]
        /\ IF writeDone' < op.length
           THEN tick' = "scheduled" /\ UNCHANGED <<running, needToWrite>>
           ELSE running' = FALSE /\ needToWrite' = FALSE /\ UNCHANGED tick
    BY <1>7 DEF RecvWrite
  <2>2. /\ BytesOf(FlightOf(io'), "Write") = BytesOf(flight, "Write") \ Bytes(pkt)
        /\ BytesOf(FlightOf(io'), "Read") = BytesOf(flight, "Read")
    BY <1>3, <2>1
  <2>3. /\ DOMAIN dest = 0 .. op.length - 1 /\ DOMAIN dest' = DOMAIN dest
        /\ \A i \in DOMAIN dest : dest'[i] = "old" <=>
                                    dest[i] = "old" /\ i \notin Bytes(pkt)
        /\ Bytes(pkt) \subseteq {i \in 0 .. WriteOffset - 1 : dest[i] = "old"}
        /\ writeDone' = Cardinality(Arrived')
        /\ writeDone' < op.length <=> Arrived' # DOMAIN dest
    BY <1>1, <1>7, WriteArrives
  <2>4. ReadsAccounted'
    BY <1>4, <2>1, <2>2 DEF AInv, ReadsAccounted
  <2>5. BytesOf(FlightOf(io'), "Write") =
          {i \in 0 .. WriteOffset - 1 : dest'[i] = "old"}
    <3>1. BytesOf(flight, "Write") = {i \in 0 .. WriteOffset - 1 : dest[i] = "old"}
      BY DEF AInv, WritesAccounted
    <3>2. 0 .. WriteOffset - 1 \subseteq DOMAIN dest
      BY <1>4, <2>3
    <3> HIDE DEF flight
    <3> QED BY <2>2, <2>3, <3>1, <3>2
  <2>6. \A i \in WriteOffset .. op.length - 1 : dest'[i] = "old"
    <3>1. ASSUME NEW i \in WriteOffset .. op.length - 1 PROVE dest'[i] = "old"
      <4>1. dest[i] = "old" /\ i \in DOMAIN dest /\ i \notin 0 .. WriteOffset - 1
        BY <1>4, <2>3 DEF AInv, WritesAccounted
      <4> QED BY <2>3, <4>1
    <3> QED BY <3>1
  <2>7. WritesAccounted'
    BY <1>1, <1>4, <2>1, <2>3, <2>5, <2>6 DEF AInv, WritesAccounted
  <2>8. dest' \in [0 .. op.length - 1 -> {"old", "copied", "garbage"}]
    BY <2>1, <2>3 DEF AInv, Ranges
  <2>9. Ranges'
    BY <1>1, <1>5, <2>1, <2>8 DEF AInv, Ranges
  <2>10. running
    BY <1>2 DEF AInv, OverWhenArrived
  <2>11. running' => Arrived' # DOMAIN dest'
    BY <2>1, <2>3
  <2>12. ASSUME ~running' PROVE FlightOf(io') = {}
    <3>1. Arrived' = DOMAIN dest'
      BY <2>1, <2>3, <2>10, <2>12
    <3>2. \A i \in 0 .. op.length - 1 : dest'[i] # "old"
      BY <2>3, <3>1 DEF Arrived
    <3>3. WriteOffset = op.length
      BY <1>4, <2>6, <3>2
    <3>4. BytesOf(FlightOf(io'), "Write") = {}
      BY <2>5, <3>2, <3>3
    <3>5. 0 .. op.length - 1 \subseteq readsDone'
      BY <2>1, <3>3 DEF AInv, WritesAccounted
    <3>6. BytesOf(FlightOf(io'), "Read") = {}
      BY <1>4, <2>4, <3>5 DEF ReadsAccounted
    <3>7. ASSUME NEW q \in FlightOf(io') PROVE FALSE
      <4>1. q \in Packet
        BY <1>2, FlightTyped
      <4>2. q.cmd \in {"Read", "Write"} /\ q.first \in Bytes(q)
        BY <4>1, SomeBytes DEF Packet
      <4>3. q.first \in BytesOf(FlightOf(io'), q.cmd)
        BY <4>2, BytesMember
      <4> QED BY <3>4, <3>6, <4>2, <4>3
    <3> QED BY <3>7
  <2> QED BY <1>2, <1>3, <2>4, <2>7, <2>9, <2>11, <2>12 DEF AInv, OverWhenArrived
<1> QED BY <1>1, <1>6, <1>7

-----------------------------------------------------------------------------
(* The theorems.                                                           *)

LEMMA NextAInv ==
  ASSUME AInv, [Next]_vars
  PROVE  AInv'
<1>1. CASE \E o \in Operation : Begin(o)
  BY <1>1, BeginAInv
<1>2. CASE Tick
  BY <1>2, TickAInv
<1>3. CASE FinishTranslation
  BY <1>3, FinishTranslationAInv
<1>4. CASE RecvReqRetry
  BY <1>4, RecvReqRetryAInv
<1>5. CASE RecvPacket
  BY <1>5, RecvPacketAInv
<1>6. CASE UNCHANGED vars
  <2>1. Placed(io') /\ FlightOf(io') = FlightOf(io) /\ tick' \in {"idle", "scheduled"}
    BY <1>6 DEF vars, AInv, Ranges
  <2>2. UNCHANGED <<control, needToRead, needToWrite, readLeft, writeLeft,
                    readsDone, writeDone, dest>>
    BY <1>6 DEF vars, control
  <2> QED BY <2>1, <2>2, MovedAInv
<1> QED BY <1>1, <1>2, <1>3, <1>4, <1>5, <1>6 DEF Next

\* For operations, lines and buffers of any size, the copy engine's counters
\* stay in the ranges their types promise.
THEOREM EngineTypes == Spec => []TypeOK
<1>1. Init => AInv
  BY InitAInv
<1>2. AInv /\ [Next]_vars => AInv'
  BY NextAInv
<1>3. AInv => TypeOK
  BY AInvTypes
<1> QED BY <1>1, <1>2, <1>3, PTL DEF Spec

\* Whatever the order of the translations, retries and answers, tryRead,
\* tryWrite and recvPacket read and write every byte of an operation exactly
\* once, and no packet outlives its operation (finishMemcpy).
THEOREM BytesAccounted == Spec => []EveryByteAccounted
<1>1. Init => AInv
  BY InitAInv
<1>2. AInv /\ [Next]_vars => AInv'
  BY NextAInv
<1>3. AInv => EveryByteAccounted
  BY AInvAccounts
<1> QED BY <1>1, <1>2, <1>3, PTL DEF Spec

-----------------------------------------------------------------------------
(* The refinement. Only Begin and the answer to a write change what        *)
(* Transfer sees.                                                          *)

Missing == {i \in DOMAIN dest : dest[i] # "copied"}

RInv == AInv /\ Inv

\* Without garbage, what is missing is what has not arrived.
LEMMA MissingIsOld ==
  ASSUME NoGarbage, AInv
  PROVE  Missing = DOMAIN dest \ Arrived
BY DEF Missing, Arrived, NoGarbage, AInv, Ranges

LEMMA InitRefines == Init => AbstractTransfer!Init
BY DEF Init, AbstractTransfer!Init

LEMMA BeginRefines ==
  ASSUME RInv, NEW o \in Operation, Begin(o)
  PROVE  AbstractTransfer!Next
<1>1. o.length \in 1 .. MaxLength
  BY DEF Operation
<1>2. ~running /\ running' = TRUE
  BY DEF Begin
<1>3. Missing' = 0 .. o.length - 1
  BY <1>1 DEF Begin, Missing
<1>4. AbstractTransfer!Begin(o.length)
  BY <1>2, <1>3 DEF AbstractTransfer!Begin, Missing
<1> QED BY <1>1, <1>4 DEF AbstractTransfer!Next

\* The answer to a write fills bytes that were missing, and running becomes
\* FALSE with the last of them.
LEMMA RecvWriteRefines ==
  ASSUME RInv, RInv', NEW pkt \in io.sent, RecvWrite(pkt),
         UNCHANGED <<op, writeLeft>>
  PROVE  AbstractTransfer!Next
<1>1. /\ Bytes(pkt) \subseteq {i \in 0 .. WriteOffset - 1 : dest[i] = "old"}
      /\ Bytes(pkt) \subseteq DOMAIN dest
      /\ DOMAIN dest' = DOMAIN dest
      /\ Arrived' = Arrived \union Bytes(pkt)
      /\ writeDone' < op.length <=> Arrived' # DOMAIN dest
  BY WriteArrives DEF RInv
<1>2. Missing = DOMAIN dest \ Arrived
  BY MissingIsOld DEF RInv, Inv
<1>3. Missing' = DOMAIN dest' \ Arrived'
  BY DEF RInv, AInv, Inv, Ranges, NoGarbage, Missing, Arrived
<1>4. Bytes(pkt) \subseteq Missing /\ Bytes(pkt) # {}
  <2>1. pkt \in Packet
    BY TakenFromMemory DEF RInv, AInv
  <2> QED BY <1>1, <2>1, SomeBytes DEF Missing
<1>5. Missing' = Missing \ Bytes(pkt)
  BY <1>1, <1>2, <1>3
<1>6. running
  BY TakenFromMemory DEF RInv, AInv, OverWhenArrived
<1>7. running' = (Missing' # {})
  <2>1. Arrived' \subseteq DOMAIN dest
    BY <1>1 DEF Arrived
  <2>2. Missing' # {} <=> writeDone' < op.length
    BY <1>1, <1>3, <2>1
  <2>3. running = TRUE
    BY <1>6 DEF RInv, AInv, Ranges
  <2>4. IF writeDone' < op.length THEN running' = running ELSE running' = FALSE
    BY DEF RecvWrite
  <2>5. CASE writeDone' < op.length
    BY <2>2, <2>3, <2>4, <2>5
  <2>6. CASE ~(writeDone' < op.length)
    BY <2>2, <2>4, <2>6
  <2> QED BY <2>5, <2>6
<1>8. AbstractTransfer!Fill(Bytes(pkt))
  BY <1>5, <1>6, <1>7 DEF AbstractTransfer!Fill, Missing
<1> QED BY <1>4, <1>8 DEF AbstractTransfer!Next, Missing

LEMMA NextRefines ==
  ASSUME RInv, RInv', [Next]_vars
  PROVE  [AbstractTransfer!Next]_<<running, Missing>>
<1>1. CASE \E o \in Operation : Begin(o)
  BY <1>1, BeginRefines
<1>2. CASE Tick
  BY <1>2 DEF Tick, control, Missing
<1>3. CASE FinishTranslation
  BY <1>3 DEF FinishTranslation, control, Missing
<1>4. CASE RecvReqRetry
  BY <1>4 DEF RecvReqRetry, control, Missing
<1>5. CASE RecvPacket
  <2>1. PICK pkt \in io.sent :
          /\ UNCHANGED <<op, started, readLeft, writeLeft>>
          /\ RecvRead(pkt) \/ RecvWrite(pkt)
    BY <1>5 DEF RecvPacket
  <2>2. CASE RecvRead(pkt)
    BY <2>2 DEF RecvRead, Missing
  <2>3. CASE RecvWrite(pkt)
    BY <2>1, <2>3, RecvWriteRefines
  <2> QED BY <2>1, <2>2, <2>3
<1>6. CASE UNCHANGED vars
  BY <1>6 DEF vars, Missing
<1> QED BY <1>1, <1>2, <1>3, <1>4, <1>5, <1>6 DEF Next

\* For operations, lines and buffers of any size, the copy engine implements
\* Transfer: finishMemcpy is called exactly when the last byte has arrived.
THEOREM EngineRefines == Spec => ImplementsTransfer
<1>1. Init => RInv
  BY InitAInv, InitInv DEF RInv
<1>2. RInv /\ [Next]_vars => RInv'
  BY NextAInv, NextInv DEF RInv
<1>3. Init => AbstractTransfer!Init
  BY InitRefines
<1>4. RInv /\ RInv' /\ [Next]_vars => [AbstractTransfer!Next]_<<running, Missing>>
  BY NextRefines
<1> QED BY <1>1, <1>2, <1>3, <1>4, PTL
        DEF Spec, ImplementsTransfer, AbstractTransfer!Spec, Missing

-----------------------------------------------------------------------------
(* The engine does not stop on its own.                                    *)

\* As long as something is to be read, tryRead is enabled by needToRead; as
\* soon as something has been read, tryWrite is by needToWrite.
WakeInv ==
  /\ running /\ ~needToRead => readLeft = 0
  /\ running /\ readsDone # {} => needToWrite
  /\ NoLostWakeup

\* With nothing in flight, every byte asked for has been read, so that there is
\* something to read, or the whole next packet can be written: a full buffer
\* holds at least a line.
LEMMA TickProgresses ==
  ASSUME AInv, WakeInv, running, FlightOf(io) = {}
  PROVE  Reads \/ Writes(io)
<1>1. /\ op.length \in Nat /\ op.dst \in Nat /\ readLeft \in 0 .. op.length
      /\ writeLeft \in 0 .. op.length /\ DOMAIN dest = 0 .. op.length - 1
      /\ ReadOffset \in 0 .. op.length /\ WriteOffset \in 0 .. op.length
  BY EngineAssumption
     DEF AInv, Ranges, RangeInv, Operation, ReadOffset, WriteOffset
<1>2. \A p \in Port : ~IsStalled(io, p)
  <2> SUFFICES ASSUME NEW p \in Port PROVE io.stalled[p] = << >>
    BY DEF IsStalled
  <2>1. io.stalled[p] \in Seq(Packet) /\ Queued(io, p) = {}
    BY DEF AInv, Placed, IO, FlightOf, Port
  <2>2. DOMAIN io.stalled[p] = {}
    BY <2>1 DEF Queued
  <2>3. Len(io.stalled[p]) = 0
    <3> DEFINE s == io.stalled[p]
    <3>1. Len(s) \in Nat /\ DOMAIN s = 1 .. Len(s)
      BY <2>1
    <3>2. 1 \notin DOMAIN s
      BY <2>2
    <3> QED BY <3>1, <3>2
  <2> QED BY <2>1, <2>3
<1>3. readPort \in Port /\ writePort \in Port
  BY DEF readPort, writePort, Port
<1>4. readsDone = 0 .. ReadOffset - 1
  BY NoneInFlight DEF AInv, ReadsAccounted
<1>5. ReadDone = ReadOffset
  <2>1. ReadDone = Contiguous(readsDone, op.length)
    BY DEF ReadDone, Contiguous
  <2> QED BY <1>1, <1>4, <2>1, ContiguousPrefix
<1>6. WriteOffset < op.length /\ writeLeft > 0
  <2>1. PICK i \in DOMAIN dest : dest[i] = "old"
    BY DEF AInv, OverWhenArrived, Arrived
  <2>2. i \notin 0 .. WriteOffset - 1
    BY <2>1, NoneInFlight DEF AInv, WritesAccounted
  <2> QED BY <1>1, <2>1, <2>2 DEF WriteOffset
<1> DEFINE size == SizeAt(op.dst + WriteOffset, writeLeft)
<1>7. WritePacket.size = size
  BY DEF WritePacket
<1>8. size \in 1 .. writeLeft /\ size <= LineSize
  <2>1. op.dst + WriteOffset \in Nat /\ writeLeft \in Nat
    BY <1>1
  <2>2. (op.dst + WriteOffset) % LineSize \in 0 .. LineSize - 1
    BY <2>1, EngineAssumption
  <2>3. size \in 1 .. writeLeft
    BY <1>6, <2>1, SizeBounds
  <2> QED BY <2>1, <2>2, <2>3, EngineAssumption DEF SizeAt
<1> HIDE DEF size
<1>9. WriteOffset + size <= op.length
  BY <1>1, <1>8 DEF WriteOffset
<1>10. ReadOffset > 0 => needToWrite
  <2>1. ReadOffset > 0 => 0 \in readsDone
    BY <1>1, <1>4
  <2> QED BY <2>1 DEF WakeInv
<1>11. CASE ~needToRead
  <2>1. ReadOffset = op.length
    BY <1>1, <1>11 DEF WakeInv, ReadOffset
  <2>2. ReadOffset > 0 /\ WriteOffset < ReadOffset /\ size + WriteOffset <= ReadOffset
    BY <1>1, <1>6, <1>8, <1>9, <2>1
  <2> QED BY <1>2, <1>3, <1>5, <1>7, <1>10, <2>2 DEF Writes
<1>12. CASE needToRead /\ buffersFull
  <2>1. ReadOffset - WriteOffset > LineSize
    BY <1>1, <1>5, <1>12, EngineAssumption DEF buffersFull
  <2>2. ReadOffset > 0 /\ WriteOffset < ReadOffset /\ size + WriteOffset <= ReadOffset
    BY <1>1, <1>8, <2>1, EngineAssumption
  <2> QED BY <1>2, <1>3, <1>5, <1>7, <1>10, <2>2 DEF Writes
<1>13. CASE needToRead /\ ~buffersFull
  BY <1>2, <1>3, <1>13 DEF Reads
<1> QED BY <1>11, <1>12, <1>13

LEMMA InitWakeInv == Init => WakeInv
BY DEF Init, WakeInv, NoLostWakeup

\* What a tick leaves with nothing in flight it found so, and with nothing to do.
LEMMA TickWakeInv ==
  ASSUME AInv, AInv', WakeInv, Tick
  PROVE  WakeInv'
<1>1. UNCHANGED <<op, running, needToWrite, readsDone, dest>>
  BY DEF Tick, control
<1>2. CASE ~running
  BY <1>1, <1>2 DEF WakeInv, NoLostWakeup
<1>3. CASE running
  <2>1. PICK r \in Outcome, w \in Outcome :
          LET middle == IF Reads THEN Translate(io, ReadPacket, r) ELSE io
          IN /\ readLeft' = IF Reads THEN readLeft - ReadPacket.size ELSE readLeft
             /\ needToRead' = (needToRead /\ (Reads => readLeft' > 0))
             /\ io' = IF Writes(middle) THEN Translate(middle, WritePacket, w)
                                        ELSE middle
             /\ writeLeft' = IF Writes(middle) THEN writeLeft - WritePacket.size
                                               ELSE writeLeft
    BY <1>3, Zenon DEF Tick
  <2>2. /\ op.length \in Nat /\ readLeft \in 0 .. op.length
        /\ writeLeft \in 0 .. op.length
        /\ readLeft' \in 0 .. op.length /\ writeLeft' \in 0 .. op.length
    BY <1>1 DEF AInv, Ranges, RangeInv, Operation
  <2>3. ~needToRead' => readLeft' = 0
    <3>1. needToRead' = (needToRead /\ (Reads => readLeft' > 0))
      BY <2>1
    <3>2. readLeft' = IF Reads THEN readLeft - ReadPacket.size ELSE readLeft
      BY <2>1
    <3>3. ASSUME Reads, ~(readLeft' > 0) PROVE readLeft' = 0
      BY <2>2, <3>3
    <3>4. ASSUME ~Reads, ~needToRead PROVE readLeft' = 0
      BY <1>3, <3>2, <3>4 DEF WakeInv
    <3>5. Reads => needToRead
      BY DEF Reads
    <3> HIDE DEF Reads
    <3> QED BY <3>1, <3>3, <3>4, <3>5
  <2>4. ASSUME FlightOf(io') = {} PROVE FALSE
    <3> DEFINE middle == IF Reads THEN Translate(io, ReadPacket, r) ELSE io
    <3>1. ~Reads
      <4>1. SUFFICES ASSUME Reads PROVE FALSE
        OBVIOUS
      <4>2. ReadPacket.size \in 1 .. readLeft
        BY <4>1, ReadIsNew
      <4>3. ReadOffset' > ReadOffset /\ ReadOffset \in Nat
        BY <1>1, <2>1, <2>2, <4>1, <4>2 DEF ReadOffset
      <4>4. readsDone = 0 .. ReadOffset' - 1
        BY <1>1, <2>4, NoneInFlight DEF AInv, ReadsAccounted
      <4>5. readsDone \subseteq 0 .. ReadOffset - 1
        BY DEF AInv, ReadsAccounted
      <4>6. ReadOffset \in 0 .. ReadOffset' - 1
        BY <2>2, <4>3, <1>1 DEF ReadOffset
      <4> QED BY <4>3, <4>4, <4>5, <4>6
    <3>2. middle = io
      BY <3>1
    <3>3. ~Writes(io)
      <4>1. SUFFICES ASSUME Writes(io) PROVE FALSE
        OBVIOUS
      <4>2. WritePacket.size \in 1 .. writeLeft
        BY <4>1, WriteIsNew
      <4>3. writeLeft' = writeLeft - WritePacket.size
        BY <2>1, <3>1, <4>1
      <4>4. /\ WriteOffset \in 0 .. WriteOffset' - 1
            /\ WriteOffset \in WriteOffset .. op.length - 1
        BY <1>1, <2>2, <4>2, <4>3 DEF WriteOffset
      <4>5. dest[WriteOffset] = "old"
        BY <4>4 DEF AInv, WritesAccounted
      <4>6. {i \in 0 .. WriteOffset' - 1 : dest[i] = "old"} = {}
        BY <1>1, <2>4, NoneInFlight DEF AInv, WritesAccounted
      <4> QED BY <4>4, <4>5, <4>6
    <3>4. io' = io
      BY <2>1, <3>1, <3>3
    <3> QED BY <1>3, <2>4, <3>1, <3>3, <3>4, TickProgresses
  <2> QED BY <1>1, <2>3, <2>4, FlightIsInFlight DEF WakeInv, NoLostWakeup
<1> QED BY <1>2, <1>3 DEF AInv, Ranges

\* A packet whose translation is finished is still in flight.
LEMMA FinishTranslationWakeInv ==
  ASSUME AInv, AInv', WakeInv, FinishTranslation
  PROVE  WakeInv'
<1>1. PICK pkt \in io.translating :
        UNCHANGED <<control, needToRead, needToWrite, readLeft, writeLeft,
                    readsDone, writeDone, tick, dest>>
  BY DEF FinishTranslation
<1>2. pkt \in Packet /\ pkt \in FlightOf(io)
  BY TakenFromTLB DEF AInv
<1>3. /\ BytesOf(FlightOf(io'), "Read") = BytesOf(FlightOf(io), "Read")
      /\ BytesOf(FlightOf(io'), "Write") = BytesOf(FlightOf(io), "Write")
  BY <1>1 DEF AInv, ReadsAccounted, WritesAccounted, ReadOffset, WriteOffset, control
<1>4. pkt.first \in BytesOf(FlightOf(io'), pkt.cmd)
  <2>1. pkt.cmd \in {"Read", "Write"} /\ pkt.first \in Bytes(pkt)
    BY <1>2, SomeBytes DEF Packet
  <2>2. pkt.first \in BytesOf(FlightOf(io), pkt.cmd)
    BY <1>2, <2>1, BytesMember
  <2> QED BY <1>3, <2>1, <2>2
<1>5. FlightOf(io') # {}
  BY <1>4, NoneInFlight
<1> QED BY <1>1, <1>5, FlightIsInFlight DEF WakeInv, NoLostWakeup, control

\* A read response finds bytes missing from readsDone and schedules the event.
LEMMA RecvPacketWakeInv ==
  ASSUME AInv, AInv', WakeInv, RecvPacket
  PROVE  WakeInv'
<1>1. PICK pkt \in io.sent :
        /\ UNCHANGED <<op, started, readLeft, writeLeft>>
        /\ RecvRead(pkt) \/ RecvWrite(pkt)
  BY DEF RecvPacket
<1>2. op.length \in Nat /\ readLeft \in 0 .. op.length
  BY DEF AInv, Ranges, RangeInv, Operation
<1>3. CASE RecvRead(pkt)
  <2>1. pkt \in Packet /\ pkt \in FlightOf(io) /\ pkt.cmd = "Read"
    BY <1>3, TakenFromMemory DEF AInv, RecvRead
  <2>2. pkt.first \in BytesOf(FlightOf(io), "Read")
    BY <2>1, SomeBytes, BytesMember
  <2>3. pkt.first \in 0 .. op.length - 1 /\ pkt.first \notin readsDone
    BY <1>2, <2>2 DEF AInv, ReadsAccounted, ReadOffset
  <2>4. ReadDone < op.length
    <3>1. ReadDone \in 0 .. op.length /\ 0 .. ReadDone - 1 \subseteq readsDone
      BY <1>2, ReadDonePrefix
    <3> QED BY <1>2, <2>3, <3>1
  <2>5. tick' = "scheduled" /\ needToWrite'
    BY <1>3, <2>4 DEF RecvRead
  <2>6. ASSUME running', ~needToRead' PROVE readLeft' = 0
    <3>1. CASE ~needToRead
      BY <1>1, <1>3, <2>6, <3>1 DEF RecvRead, WakeInv
    <3>2. CASE needToRead
      <4>1. ~(ReadDone' < op.length)
        BY <1>3, <2>6, <3>2 DEF RecvRead
      <4>2. ReadDone' = Contiguous(readsDone', op.length)
        BY <1>1 DEF ReadDone, Contiguous
      <4>3. 0 .. op.length - 1 \subseteq readsDone'
        <5> DEFINE done == Contiguous(readsDone', op.length)
        <5>1. done \in 0 .. op.length /\ 0 .. done - 1 \subseteq readsDone'
          BY <1>2, ContiguousPrefix
        <5> QED BY <1>2, <4>1, <4>2, <5>1
      <4>4. readsDone' \subseteq 0 .. ReadOffset' - 1
        BY DEF AInv, ReadsAccounted
      <4>5. pkt.first \in 0 .. op.length - 1
        BY <2>3
      <4>6. op.length - 1 \in 0 .. ReadOffset' - 1
        BY <1>2, <4>3, <4>4, <4>5
      <4> QED BY <1>1, <1>2, <4>6 DEF ReadOffset
    <3> QED BY <3>1, <3>2
  <2> QED BY <2>5, <2>6 DEF WakeInv, NoLostWakeup
<1>4. CASE RecvWrite(pkt)
  <2>1. /\ UNCHANGED <<needToRead, readsDone>>
        /\ running' => /\ tick' = "scheduled"
                       /\ UNCHANGED <<running, needToWrite>>
    BY <1>4 DEF RecvWrite
  <2> QED BY <1>1, <2>1 DEF WakeInv, NoLostWakeup
<1> QED BY <1>1, <1>3, <1>4

\* For operations, lines and buffers of any size, a running operation has an
\* event scheduled or a packet on its way, although tryRead and tryWrite seldom
\* schedule the event again.
THEOREM WakeupsKept == Spec => []NoLostWakeup
<1>1. Init => AInv /\ WakeInv
  BY InitAInv, InitWakeInv
<1>2. AInv /\ [Next]_vars => AInv'
  BY NextAInv
<1>3. ASSUME AInv, AInv', WakeInv, [Next]_vars PROVE WakeInv'
  <2>1. CASE \E o \in Operation : Begin(o)
    BY <2>1 DEF Begin, WakeInv, NoLostWakeup
  <2>2. CASE Tick
    BY <1>3, <2>2, TickWakeInv
  <2>3. CASE FinishTranslation
    BY <1>3, <2>3, FinishTranslationWakeInv
  <2>4. CASE RecvReqRetry
    BY <1>3, <2>4 DEF RecvReqRetry, WakeInv, NoLostWakeup, control
  <2>5. CASE RecvPacket
    BY <1>3, <2>5, RecvPacketWakeInv
  <2>6. CASE UNCHANGED vars
    BY <1>3, <2>6, FlightIsInFlight DEF vars, WakeInv, NoLostWakeup
  <2> QED BY <1>3, <2>1, <2>2, <2>3, <2>4, <2>5, <2>6 DEF Next
<1>4. WakeInv => NoLostWakeup
  BY DEF WakeInv
<1> QED BY <1>1, <1>2, <1>3, <1>4, PTL DEF Spec
=============================================================================
