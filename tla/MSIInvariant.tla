---------------------------- MODULE MSIInvariant ----------------------------
(***************************************************************************)
(* The inductive invariant of the MSI protocol.                            *)
(*                                                                         *)
(* It follows the right to write the line: it is with the directory        *)
(* (AtHome), with one cache, or on its way to one cache (Source); every    *)
(* further cache it is promised to waits for a forward to its predecessor, *)
(* and the last one is the owner the directory knows.                      *)
(***************************************************************************)
EXTENDS MSI, Functions

-----------------------------------------------------------------------------
(* What is in flight, by the cache it concerns.                            *)

InvFor(d, c)  == Request("Inv", c, NoValue) \in Range(forward[d])
FwdS(d, c)    == Request("GetS", c, NoValue) \in Range(forward[d])
FwdM(d, c)    == Request("GetM", c, NoValue) \in Range(forward[d])
PutAckTo(d)   == Request("PutAck", Directory, NoValue) \in Range(forward[d])

\* d has been asked to give the line up to another cache.
Recalled(d) == \E c \in Cache : FwdS(d, c) \/ FwdM(d, c)

Dat(n, c) == response[<<n, c>>] # << >> /\ Head(response[<<n, c>>]).type = "Data"
Ack(d, c) == response[<<d, c>>] # << >> /\ Head(response[<<d, c>>]).type = "InvAck"

\* The requests of c that the directory has not yet taken.
Asked(c) == Range(request[c])
              \union {m \in Range(requestQueue) : m.requestor = c}

\* The memory reads the line for c.
MemRead(c) == \E m \in Range(memRequest) \union Range(memResponse) :
                m.type = "MEMORY_READ" /\ m.sender = c

WaitS(c)    == cacheState[c] = "IS_D"
WaitM(c)    == cacheState[c] \in {"IM_AD", "SM_AD"}
WaitAcks(c) == cacheState[c] \in {"IM_A", "SM_A"}
Evicting(c) == cacheState[c] \in {"MI_A", "SI_A", "II_A"}

-----------------------------------------------------------------------------
(* The shapes of the channels.                                             *)

\* The order of the messages a cache may have waiting in forwardFromDir.
Rank(m) == CASE m.type = "Inv"              -> 0
             [] m.type \in {"GetS", "GetM"} -> 1
             [] OTHER                       -> 2

Ranked(q) == \A i, j \in DOMAIN q : i < j => Rank(q[i]) < Rank(q[j])

ForwardForm(m) ==
  \/ \E c \in Cache, t \in {"Inv", "GetS", "GetM"} : m = Request(t, c, NoValue)
  \/ m = Request("PutAck", Directory, NoValue)

\* At most one of each rank, in that order.
ForwardShape ==
  \A d \in Cache : /\ \A m \in Range(forward[d]) : ForwardForm(m)
                   /\ Ranked(forward[d])

\* At most one message on each channel; only caches acknowledge, and only to
\* caches.
ResponseShape ==
  /\ \A n1, n2 \in Node : Len(response[<<n1, n2>>]) <= 1
  /\ \A n \in Node : ~Ack(Directory, n) /\ ~Ack(n, Directory)
  /\ ~Dat(Directory, Directory)

\* At most one request of each cache, its own.
RequestShape ==
  /\ \A c \in Cache :
       /\ Len(request[c]) <= 1
       /\ \A m \in Range(request[c]) : m.requestor = c
       /\ request[c] # << >> => \A m \in Range(requestQueue) : m.requestor # c
  /\ \A i, j \in DOMAIN requestQueue :
       requestQueue[i].requestor = requestQueue[j].requestor => i = j

\* The memory has one access exactly while the directory waits for it, a read
\* or a write-back as the directory's state says.
MemoryShape ==
  IF dirState \in {"S_m", "M_m", "MI_m", "SS_m"}
  THEN \E m \in MemoryMsg :
         /\ m.type = "MEMORY_READ" <=> dirState \in {"S_m", "M_m"}
         /\ \/ memRequest = <<m>> /\ memResponse = << >>
            \/ memRequest = << >> /\ memResponse = <<m>>
  ELSE memRequest = << >> /\ memResponse = << >>

-----------------------------------------------------------------------------
(* Transactions.                                                           *)

\* Why a request is out.
AskedForBy(c) ==
  \A m \in Asked(c) : /\ m.type = "GetS" => WaitS(c)
                      /\ m.type = "GetM" => WaitM(c)
                      /\ m.type = "PutS" => cacheState[c] \in {"SI_A", "II_A"}
                      /\ m.type = "PutM" => Evicting(c)

\* An evicting cache has its put or the answer to it in flight, not both.
EvictionOf(c) ==
  /\ PutAckTo(c) => Evicting(c) /\ Asked(c) = {}
  /\ Evicting(c) => PutAckTo(c) \/ Asked(c) # {}

\* The answer to a waiting cache is in one place: with the directory (Asked),
\* with the memory, with one cache that is to send it, or on one channel.
GrantsFor(c) ==
  /\ MemRead(c) =>
       /\ Asked(c) = {}
       /\ \/ WaitS(c) /\ dirState = "S_m" /\ c \in sharers
          \/ WaitM(c) /\ dirState = "M_m" /\ c \in owner
  /\ \A d \in Cache :
       /\ FwdS(d, c) => WaitS(c)
       /\ FwdM(d, c) => WaitM(c)
       /\ FwdS(d, c) \/ FwdM(d, c) =>
            /\ d # c /\ Asked(c) = {} /\ ~MemRead(c)
            /\ \A n \in Node : ~Dat(n, c)
            /\ \A e \in Cache : FwdS(e, c) \/ FwdM(e, c) => e = d
  /\ \A n \in Node :
       Dat(n, c) => /\ n # c /\ Asked(c) = {} /\ ~MemRead(c)
                    /\ WaitS(c) \/ WaitM(c)
                    /\ \A k \in Node : Dat(k, c) => k = n
-----------------------------------------------------------------------------
(* The right to write.                                                     *)

\* c has it: it keeps it in MI_A until its put is accepted.
Exclusive(c) ==
  \/ cacheState[c] \in {"M", "IM_A", "SM_A"}
  \/ cacheState[c] = "MI_A" /\ (Recalled(c) \/ ~PutAckTo(c))

\* c has it, or will have it next.
Source(c) ==
  \/ Exclusive(c)
  \/ WaitM(c) /\ (MemRead(c) \/ \E n \in Node : Dat(n, c))

Promised(c) == Source(c) \/ \E d \in Cache : FwdM(d, c)

\* The directory has it.
AtHome ==
  \/ dirState \in {"I", "S", "S_m", "SS_m", "MI_m"}
  \/ dirState = "S_D" /\ \E c \in Cache : Dat(c, Directory)

\* Whoever it is promised to is the owner, or has been told who comes next.
OwnershipOf(c) ==
  /\ Promised(c) <=> c \in owner \/ Recalled(c)
  /\ c \in owner => ~Recalled(c)

OneSource == \A c, d \in Cache : Source(c) /\ Source(d) => c = d

\* Nobody waits, over any number of forwards, for itself.
NoCycle ==
  \A Z \in SUBSET Cache :
    (\A c \in Z : \E d \in Z : FwdM(c, d)) => Z = {}

\* While the directory is in S_D, the owner is asked to share or has just done
\* so.
Downgrades ==
  /\ \A d, c \in Cache : FwdS(d, c) =>
       /\ dirState = "S_D" /\ c \in sharers
       /\ d \in sharers \/ cacheState[d] = "MI_A"
       /\ \A e \in Cache : ~Dat(e, Directory)
       /\ \A e, f \in Cache : FwdS(e, f) => e = d
  /\ \A c \in Cache : Dat(c, Directory) =>
       /\ dirState = "S_D"
       /\ \A e \in Cache : Dat(e, Directory) => e = c

-----------------------------------------------------------------------------
(* Copies.                                                                 *)

\* c waits for acknowledgements, or will.
Awaits(c) ==
  \/ WaitAcks(c)
  \/ WaitM(c) /\ (MemRead(c) \/ Dat(Directory, c))

\* d has a copy, or the data for one is on its way.
Holds(d) ==
  \/ cacheState[d] \in {"S", "SM_AD"}
  \/ WaitS(d) /\ \E n \in Node : Dat(n, d)

Invalidated(d, c) ==
  /\ InvFor(d, c) \/ Ack(d, c) => d # c /\ Awaits(c)
  /\ InvFor(d, c) => ~Ack(d, c) /\ (Holds(d) \/ cacheState[d] = "SI_A")

\* Who may be in entry.Sharers: outside M_m, where the sharers have been sent
\* their Inv, whoever has a copy or is about to get one, or has sent its PutS.
SharerHolds(d) ==
  dirState # "M_m" /\ d \in sharers =>
    /\ ~PutAckTo(d)
    /\ \/ AtHome /\ (Holds(d) \/ cacheState[d] = "SI_A" \/ MemRead(d))
       \/ \E c \in Cache : FwdS(c, d) \/ FwdS(d, c)

\* Every copy is in entry.Sharers, or its Inv is on the way, or it is the copy
\* of the cache that is about to write.
CopyTracked(d) ==
  Holds(d) => \/ AtHome /\ d \in sharers
              \/ \E c \in Cache : InvFor(d, c)
              \/ Source(d)

Ackers(c) == {d \in Cache : InvFor(d, c) \/ Ack(d, c)}

AckCountOf(c) ==
  /\ WaitAcks(c) => acks[c] = Cardinality(Ackers(c)) /\ acks[c] > 0
  /\ WaitM(c) => /\ acks[c] <= 0
                 /\ acks[c] + AcksAnnounced(c) = Cardinality(Ackers(c))
  /\ ~WaitAcks(c) /\ ~WaitM(c) => acks[c] = 0
  /\ WaitS(c) /\ Dat(Directory, c) => Head(response[<<Directory, c>>]).acks = 0

ChannelShapes == ForwardShape /\ ResponseShape /\ RequestShape /\ MemoryShape

Transactions == \A c \in Cache : AskedForBy(c) /\ EvictionOf(c) /\ GrantsFor(c)

WriteRight == (\A c \in Cache : OwnershipOf(c)) /\ OneSource /\ NoCycle /\ Downgrades

Copies == /\ \A d, c \in Cache : Invalidated(d, c)
          /\ \A d \in Cache : SharerHolds(d) /\ CopyTracked(d) /\ AckCountOf(d)

CoherenceInv == ChannelShapes /\ Transactions /\ WriteRight /\ Copies

ProtocolInv == TypeOK /\ DirEntryByState /\ CoherenceInv

-----------------------------------------------------------------------------
(* Values.                                                                 *)

\* Every copy that can still be read or passed on is the line's last value.
CopiesCurrent ==
  \A c \in Cache :
    cacheState[c] \in Readable \/ Exclusive(c) => cacheData[c] = latest

\* So are the grants and write-backs on the response network, ...
GrantsCurrent ==
  \A n, k \in Node : Dat(n, k) => Head(response[<<n, k>>]).data = latest

\* ... a PutM is its sender's copy, ...
PutsCurrent ==
  \A c \in Cache : cacheState[c] = "MI_A" => \A m \in Asked(c) : m.data = cacheData[c]

\* ... and memory is current whenever a cache may be given what it holds, a
\* write-back whenever it is not.
MemoryCurrent ==
  /\ dirState \in {"I", "S", "S_m", "M_m"} \/ memResponse # << >> => memory = latest
  /\ \A m \in Range(memResponse) : m.data = latest
  /\ \A m \in Range(memRequest) : m.type = "MEMORY_WB" => m.data = latest

Current == CopiesCurrent /\ GrantsCurrent /\ PutsCurrent /\ MemoryCurrent
=============================================================================
