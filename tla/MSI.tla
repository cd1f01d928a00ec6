-------------------------------- MODULE MSI ---------------------------------
(***************************************************************************)
(* The MSI protocol: the L1 controllers, the network, the directory and    *)
(* its memory, for one cache line.                                         *)
(*                                                                         *)
(* A controller that meets an event it has no transition for, or whose     *)
(* assertion fails, panics, and the whole simulation stops there.          *)
(***************************************************************************)
EXTENDS MSICache, MSIDirectory

vars == <<networkVars, cacheVars, dirVars, panic>>

TypeOK == NetworkTypeOK /\ CacheTypeOK /\ DirTypeOK

Init ==
  /\ NetworkInit /\ CacheInit /\ DirInit
  /\ memory \in Value
  /\ latest = memory

\* The panics the state allows.
Fails(kind) ==
  \/ kind = "assertSharer" /\ DirAssertFails
  \/ /\ kind = "noTransition"
     /\ DirUndefined \/ \E c \in Cache : CacheUndefined(c)

Panic ==
  \E kind \in PanicKind :
    /\ Fails(kind)
    /\ panic' = kind
    /\ UNCHANGED <<networkVars, cacheVars, dirVars>>

AtCache(A)     == Running /\ A /\ UNCHANGED <<dirVars, panic>>
AtDirectory(A) == Running /\ A /\ UNCHANGED <<cacheVars, panic>>

\* gem5 has exited.
Halted == ~Running /\ UNCHANGED vars

Next ==
  \/ \E c \in Cache : AtCache(CacheStep(c))
  \/ AtDirectory(DirStep)
  \/ Running /\ Panic
  \/ Halted

Spec == Init /\ [][Next]_vars

\* A controller serves each of its ports in turn whenever it is woken, and a
\* message buffer wakes its consumer; the network and memory always deliver.
\* Nothing obliges a processor to issue a request.
Fairness ==
  /\ \A c \in Cache : /\ WF_vars(AtCache(MandatoryIn(c)))
                      /\ WF_vars(AtCache(ResponseIn(c)))
                      /\ WF_vars(AtCache(ForwardIn(c)))
                      /\ WF_vars(AtDirectory(DeliverRequest(c)))
                      /\ WF_vars(AtDirectory(RecvOwnerData(c)))
  /\ WF_vars(AtDirectory(ServeMemory))
  /\ WF_vars(AtDirectory(RequestIn))
  /\ WF_vars(AtDirectory(RecvMemData \/ RecvMemAck))
  /\ WF_vars(Running /\ Panic)

FairSpec == Spec /\ Fairness

-----------------------------------------------------------------------------
(* What the messages in flight amount to.                                  *)

InTransit(queue, P(_)) == {i \in DOMAIN queue : P(queue[i])}

\* Inv messages that will be acknowledged to c, and acknowledgements to c.
InvsFor(c) ==
  UNION {{<<d, i>> : i \in InTransit(forward[d],
                       LAMBDA m : m.type = "Inv" /\ m.requestor = c)} :
         d \in Cache}

AcksFor(c) ==
  UNION {{<<d, i>> : i \in InTransit(response[<<d, c>>],
                       LAMBDA m : m.type = "InvAck")} : d \in Cache}

AcksPending(c) == Cardinality(InvsFor(c)) + Cardinality(AcksFor(c))

\* The number of acknowledgements c will have been told to expect, once the
\* grant that is on its way (or still with the memory) has arrived.
AcksAnnounced(c) ==
  IF response[<<Directory, c>>] # << >> THEN Head(response[<<Directory, c>>]).acks
  ELSE IF dirState = "M_m" /\ c \in owner THEN Cardinality(sharers)
  ELSE 0

RequestsOf(c) ==
  Len(request[c])
    + Cardinality(InTransit(requestQueue, LAMBDA m : m.requestor = c))

PutAcksTo(c) ==
  Cardinality(InTransit(forward[c], LAMBDA m : m.type = "PutAck"))

ForwardPending(c, types) ==
  InTransit(forward[c], LAMBDA m : m.type \in types) # {}

-----------------------------------------------------------------------------
(* Safety.                                                                 *)

\* While one cache holds the line in M, no other cache can read or write it:
\* transition(M, FwdGetM, I), the Inv transitions and the ack counting together.
SingleWriter ==
  \A c, d \in Cache : c # d /\ cacheState[c] = "M" => cacheState[d] \notin Readable

\* The acknowledgements a writer still waits for are exactly the Invs and
\* InvAcks in flight for it, counting InvAcks that overtook the grant
\* (AcksOutstanding below zero); nobody else is ever sent one.
AckAccounting ==
  \A c \in Cache :
    CASE cacheState[c] \in {"IM_A", "SM_A"} ->
           acks[c] > 0 /\ acks[c] = AcksPending(c)
      [] cacheState[c] \in {"IM_AD", "SM_AD"} ->
           acks[c] + AcksAnnounced(c) = AcksPending(c)
      [] OTHER -> acks[c] = 0 /\ AcksPending(c) = 0

\* The directory knows of every copy, or has already sent what revokes it.
DirectoryTracksCopies ==
  \A c \in Cache :
    /\ cacheState[c] \in {"S", "SM_AD"} =>
         c \in sharers \union owner \/ ForwardPending(c, {"Inv", "GetM"})
    /\ cacheState[c] \in {"M", "SM_A"} =>
         c \in owner \/ ForwardPending(c, {"GetS", "GetM"})

\* What owner and sharers are in each directory state, which gives the
\* assertions of setState (M: one owner and no sharers), sendFwdGetS,
\* sendFwdGetM and addOwnerToSharers (one owner in M).
DirEntryByState ==
  /\ dirState \in {"I", "S", "S_D", "S_m", "SS_m", "MI_m"} => owner = {}
  /\ dirState \in {"M", "M_m"} => \E c \in Cache : owner = {c}
  /\ dirState \in {"I", "M", "MI_m"} => sharers = {}

\* A replacement is answered exactly once: while the cache waits, its put or
\* the PutAck is in flight, and at no other time, also when the put lost a race
\* (II_A) or changed its meaning on the way (MI_A to SI_A).
EvictionHandshake ==
  \A c \in Cache :
    PutAcksTo(c)
      + (IF cacheState[c] \in {"MI_A", "SI_A", "II_A"} THEN RequestsOf(c) ELSE 0)
      = (IF cacheState[c] \in {"MI_A", "SI_A", "II_A"} THEN 1 ELSE 0)

\* No cache has two requests between it and the directory, and the memory one
\* access: what bounds every buffer of the protocol.
OneRequestInFlight ==
  /\ \A c \in Cache : RequestsOf(c) <= 1
  /\ Len(memRequest) + Len(memResponse) <= 1

\* Whoever waits for messages is sent exactly those: acknowledgements to a
\* writer, one PutAck to an evicting cache, one answer to a request.
MessagesAccounted == AckAccounting /\ EvictionHandshake /\ OneRequestInFlight

\* No cache ever meets a forward or a response it has no transition for,
\* assert(is_valid(tbe)) holds for every response, and the directory lacks a
\* transition for one event only: a last PutS while it writes the owner's data
\* back.
PanicsOnlyInSSm ==
  /\ \A c \in Cache : ~CacheUndefined(c)
  /\ DirUndefined => dirState = "SS_m" /\ RequestEvent(Req) = "PutSLast"

-----------------------------------------------------------------------------
(* Refinement.                                                             *)

\* AccessPermission of the states (MSI-cache.sm:55-87): Read_Write,
\* Read_Only, or neither.
Permitted(c) ==
  CASE cacheState[c] = "M"                      -> "write"
    [] cacheState[c] \in {"S", "SM_AD", "SM_A"} -> "read"
    [] OTHER                                    -> "none"

Line == INSTANCE CoherentLine WITH
  perm  <- [c \in Cache |-> Permitted(c)],
  copy  <- [c \in Cache |-> IF cacheState[c] \in Readable THEN cacheData[c]
                                                          ELSE NoValue],
  value <- latest

\* Every run of the protocol is, for the processors, a run of CoherentLine: a
\* cache only becomes readable with the value of the last store while nobody
\* can write, and only stores while nobody else can read or write, whatever
\* the messages still in flight.
ImplementsCoherentLine == Line!Spec

-----------------------------------------------------------------------------
(* Liveness.                                                               *)

\* A load or store the processor issued is completed, whatever the other
\* caches do, and a replaced line leaves the cache, unless gem5 panics.
RequestsComplete ==
  \A c \in Cache :
    /\ Outstanding(c) ~> (~Outstanding(c) \/ ~Running)
    /\ cacheState[c] \in {"MI_A", "SI_A", "II_A"}
         ~> (cacheState[c] = "I" \/ ~Running)

-----------------------------------------------------------------------------
(* A claim of the source that the protocol does not keep.                  *)

\* assert(entry.Sharers.isElement(in_msg.Requestor)) for a PutS when there is
\* one sharer, "i.e., the requestor" (MSI-dir.sm:229-231).
OnlySharerSentPutS == ~DirAssertFails
=============================================================================
