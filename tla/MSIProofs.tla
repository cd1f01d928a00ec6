------------------------------ MODULE MSIProofs -----------------------------
(***************************************************************************)
(* Proofs about the MSI protocol, for any finite set of caches and any set *)
(* of values.                                                              *)
(***************************************************************************)
EXTENDS MSIInvariant, FiniteSetTheorems, TLAPS

-----------------------------------------------------------------------------
(* The network operators keep the types of the channels.                   *)

\* enqueue on one channel of a network of FIFOs over S.
LEMMA SentType ==
  ASSUME NEW K, NEW S, NEW net \in [K -> Seq(S)], NEW k \in K, NEW m \in S
  PROVE  Sent(net, k, m) \in [K -> Seq(S)]
BY DEF Sent

\* dequeue of a message that is there.
LEMMA PoppedType ==
  ASSUME NEW K, NEW S, NEW net \in [K -> Seq(S)], NEW k \in K, net[k] # << >>
  PROVE  Popped(net, k) \in [K -> Seq(S)]
BY DEF Popped

\* enqueue with a set of destinations.
LEMMA MulticastType ==
  ASSUME NEW K, NEW S, NEW net \in [K -> Seq(S)], NEW D, NEW m \in S
  PROVE  Multicast(net, D, m) \in [K -> Seq(S)]
BY DEF Multicast

\* The message at the head of a channel.
LEMMA HeadType ==
  ASSUME NEW S, NEW q \in Seq(S), q # << >>
  PROVE  Head(q) \in S /\ Tail(q) \in Seq(S)
OBVIOUS

-----------------------------------------------------------------------------
(* Type correctness.                                                       *)

\* The ends of the channels are the caches and the directory.
LEMMA NodeFacts ==
  /\ \A c \in Cache : c \in Node /\ c # Directory
  /\ Directory \in Node
  /\ NoValue \in Data
  /\ \A v \in Value : v \in Data
BY NodeAssumption DEF Node, Data

\* Whatever a cache sends to the directory is a request of its own.
LEMMA RequestType ==
  ASSUME NEW c \in Cache, NEW d \in Data,
         NEW type \in {"GetS", "GetM", "PutS", "PutM"}
  PROVE  Request(type, c, d) \in RequestMsg
BY DEF Request, RequestMsg

\* What the directory forwards or acknowledges fits the forward network.
LEMMA ForwardType ==
  ASSUME NEW n \in Node, NEW d \in Data,
         NEW type \in {"GetS", "GetM", "Inv", "PutAck"}
  PROVE  Request(type, n, d) \in ForwardMsg
BY DEF Request, ForwardMsg

\* A data message or an acknowledgement fits the response network.
LEMMA ReplyType ==
  ASSUME NEW type \in {"Data", "InvAck"}, NEW d \in Data, NEW n \in Nat
  PROVE  Reply(type, d, n) \in ResponseMsg
BY DEF Reply, ResponseMsg

\* The initial state is well typed.
LEMMA InitType == Init => TypeOK
<1> SUFFICES ASSUME Init PROVE TypeOK
  OBVIOUS
<1> USE DEF Init
<1>1. NetworkTypeOK
  BY DEF NetworkInit, NetworkTypeOK, PanicKind
<1>2. CacheTypeOK
  BY NodeFacts DEF CacheInit, CacheTypeOK, CacheState, MandatoryHead
<1>3. DirTypeOK
  BY NodeFacts DEF DirInit, DirTypeOK, DirState
<1> QED BY <1>1, <1>2, <1>3 DEF TypeOK

\* The processor and the mandatory queue.
LEMMA MandatoryType ==
  ASSUME TypeOK, NEW c \in Cache, AtCache(Processor(c) \/ MandatoryIn(c))
  PROVE  TypeOK'
<1> USE DEF TypeOK, NetworkTypeOK, CacheTypeOK, networkVars
<1>d. DirTypeOK' /\ panic' \in PanicKind
  BY DEF AtCache, DirTypeOK, dirVars
<1>1. ASSUME NEW op \in {"Load", "Store", "Other"}, Issue(c, op) PROVE TypeOK'
  BY <1>1, <1>d DEF Issue, MandatoryHead
<1>2. ASSUME NEW op \in {"Load", "Store"}, NEW next \in {"IS_D", "IM_AD"},
             NEW type \in {"GetS", "GetM"}, Miss(c, op, next, type)
      PROVE  TypeOK'
  <2>1. Request(type, c, NoValue) \in RequestMsg
    BY RequestType, NodeFacts
  <2>2. request' \in [Cache -> Seq(RequestMsg)]
    BY <1>2, <2>1, SentType DEF Miss
  <2>3. cacheState' \in [Cache -> CacheState]
    BY <1>2 DEF Miss, CacheState
  <2>4. acks' \in [Cache -> Int] /\ mandatory' \in [Cache -> MandatoryHead]
    BY <1>2 DEF Miss, MandatoryHead
  <2> QED BY <1>2, <2>2, <2>3, <2>4, <1>d DEF Miss
<1>3. CASE Upgrade(c)
  <2>1. Request("GetM", c, NoValue) \in RequestMsg
    BY RequestType, NodeFacts
  <2>2. request' \in [Cache -> Seq(RequestMsg)]
    BY <1>3, <2>1, SentType DEF Upgrade
  <2> QED BY <1>3, <2>2, <1>d DEF Upgrade, CacheState, MandatoryHead
<1>4. CASE LoadHit(c)
  BY <1>4, <1>d DEF LoadHit, MandatoryHead
<1>5. ASSUME NEW v \in Value, StoreHit(c, v) PROVE TypeOK'
  BY <1>5, <1>d, NodeFacts DEF StoreHit, MandatoryHead
<1>6. ASSUME NEW from, NEW to \in {"SI_A", "MI_A"}, NEW put \in RequestMsg,
             Replace(c, from, to, put)
      PROVE  TypeOK'
  <2>1. request' \in [Cache -> Seq(RequestMsg)]
    BY <1>6, SentType DEF Replace
  <2> QED BY <1>6, <2>1, <1>d DEF Replace, CacheState
<1>7. CASE ReplaceShared(c)
  <2>1. Request("PutS", c, NoValue) \in RequestMsg
    BY RequestType, NodeFacts
  <2> QED BY <1>7, <2>1, <1>6 DEF ReplaceShared
<1>8. CASE ReplaceModified(c)
  <2>1. Request("PutM", c, cacheData[c]) \in RequestMsg
    BY RequestType
  <2> QED BY <1>8, <2>1, <1>6 DEF ReplaceModified
<1>9. CASE OtherProceeds(c)
  BY <1>9, <1>d DEF OtherProceeds, MandatoryHead
<1> QED
  BY <1>1, <1>2, <1>3, <1>4, <1>5, <1>7, <1>8, <1>9, WorkloadAssumption
  DEF AtCache, Processor, MandatoryIn, LoadMiss, StoreMiss

\* Responses and forwards arriving at a cache.
LEMMA ArrivalType ==
  ASSUME TypeOK, NEW c \in Cache, AtCache(ResponseIn(c) \/ ForwardIn(c))
  PROVE  TypeOK'
<1> USE DEF TypeOK, NetworkTypeOK, CacheTypeOK, networkVars
<1>d. DirTypeOK' /\ panic' \in PanicKind
  BY DEF AtCache, DirTypeOK, dirVars
<1>h. ASSUME NEW n \in Node, Arrives(c, n)
      PROVE  /\ Popped(response, <<n, c>>) \in [Node \X Node -> Seq(ResponseMsg)]
             /\ Head(response[<<n, c>>]).data \in Data
             /\ Head(response[<<n, c>>]).acks \in Nat
  <2>1. <<n, c>> \in Node \X Node
    BY NodeFacts
  <2>2. Head(response[<<n, c>>]) \in ResponseMsg
    BY <1>h, <2>1, HeadType DEF Arrives
  <2>3. Popped(response, <<n, c>>) \in [Node \X Node -> Seq(ResponseMsg)]
    BY <1>h, <2>1, PoppedType DEF Arrives
  <2> QED BY <2>2, <2>3 DEF ResponseMsg
<1>f. ASSUME forward[c] # << >>
      PROVE  /\ Popped(forward, c) \in [Cache -> Seq(ForwardMsg)]
             /\ Head(forward[c]).requestor \in Node
  <2>1. Head(forward[c]) \in ForwardMsg
    BY <1>f, HeadType
  <2>2. Popped(forward, c) \in [Cache -> Seq(ForwardMsg)]
    BY <1>f, PoppedType
  <2> QED BY <2>1, <2>2 DEF ForwardMsg
<1>1. ASSUME NEW n \in Node, LoadDone(c, n) PROVE TypeOK'
  <2>1. Arrives(c, n) /\ response' = Popped(response, <<n, c>>)
    BY <1>1 DEF LoadDone
  <2>2. response' \in [Node \X Node -> Seq(ResponseMsg)]
    BY <2>1, <1>h
  <2>3. cacheState' \in [Cache -> CacheState] /\ acks' \in [Cache -> Int]
    BY <1>1 DEF LoadDone, Completed, CacheState
  <2>4. cacheData' \in [Cache -> Data]
    BY <1>1, <2>1, <1>h DEF LoadDone
  <2> QED BY <1>1, <2>2, <2>3, <2>4, <1>d DEF LoadDone
<1>2. ASSUME NEW n \in Node, NEW v \in Value, StoreDone(c, n, v) PROVE TypeOK'
  <2>1. Arrives(c, n) /\ response' = Popped(response, <<n, c>>)
    BY <1>2 DEF StoreDone
  <2>2. response' \in [Node \X Node -> Seq(ResponseMsg)]
    BY <2>1, <1>h
  <2>3. CacheTypeOK'
    BY <1>2, <2>1, <1>h, NodeFacts DEF StoreDone, Completed, CacheState
  <2> QED BY <1>2, <2>2, <2>3, <1>d DEF StoreDone
<1>3. ASSUME NEW n \in Node, StoreData(c, n) PROVE TypeOK'
  <2>1. Arrives(c, n) /\ response' = Popped(response, <<n, c>>)
    BY <1>3 DEF StoreData
  <2>2. response' \in [Node \X Node -> Seq(ResponseMsg)]
    BY <2>1, <1>h
  <2>3. cacheState' \in [Cache -> CacheState]
    BY <1>3 DEF StoreData, CacheState
  <2>4. cacheData' \in [Cache -> Data]
    BY <1>3, <2>1, <1>h DEF StoreData
  <2>5. PICK k \in Nat : k = Head(response[<<n, c>>]).acks
    BY <2>1, <1>h
  <2>6. acks' = [acks EXCEPT ![c] = @ + k]
    BY <1>3, <2>5 DEF StoreData
  <2>7. acks' \in [Cache -> Int]
    BY <2>6
  <2> QED BY <1>3, <2>2, <2>3, <2>4, <2>7, <1>d DEF StoreData
<1>4. ASSUME NEW n \in Node, CountInvAck(c, n) PROVE TypeOK'
  <2>1. Arrives(c, n) /\ response' = Popped(response, <<n, c>>)
    BY <1>4 DEF CountInvAck
  <2>2. response' \in [Node \X Node -> Seq(ResponseMsg)]
    BY <2>1, <1>h
  <2>3. CacheTypeOK'
    BY <1>4, <2>1, <1>h DEF CountInvAck
  <2> QED BY <1>4, <2>2, <2>3, <1>d DEF CountInvAck
<1>n. ASSUME NEW state \in CacheState, NewState(c, state)
      PROVE  cacheState' \in [Cache -> CacheState] /\ cacheData' \in [Cache -> Data]
  BY <1>n, NodeFacts DEF NewState
<1>5. CASE RecvInv(c)
  <2>1. Reply("InvAck", NoValue, 0) \in ResponseMsg
    BY ReplyType, NodeFacts
  <2>2. forward[c] # << >>
    BY <1>5 DEF RecvInv, Forwarded
  <2>3. <<c, Head(forward[c]).requestor>> \in Node \X Node
    BY <2>2, <1>f, NodeFacts
  <2>4. response' \in [Node \X Node -> Seq(ResponseMsg)]
    BY <1>5, <2>1, <2>3, SentType DEF RecvInv
  <2>5. PICK state \in CacheState : NewState(c, state)
    BY <1>5 DEF RecvInv, CacheState
  <2> QED BY <1>5, <2>2, <2>4, <2>5, <1>f, <1>n, <1>d DEF RecvInv
<1>6. CASE RecvFwdGetS(c)
  <2>1. CacheData(c) \in ResponseMsg
    BY ReplyType DEF CacheData
  <2>2. response' \in [Node \X Node -> Seq(ResponseMsg)]
    BY <1>6, <2>1, MulticastType DEF RecvFwdGetS
  <2>3. PICK state \in CacheState : NewState(c, state)
    BY <1>6 DEF RecvFwdGetS, CacheState
  <2> QED BY <1>6, <2>2, <2>3, <1>f, <1>n, <1>d DEF RecvFwdGetS, Forwarded
<1>7. CASE RecvFwdGetM(c)
  <2>1. CacheData(c) \in ResponseMsg
    BY ReplyType DEF CacheData
  <2>2. forward[c] # << >>
    BY <1>7 DEF RecvFwdGetM, Forwarded
  <2>3. <<c, Head(forward[c]).requestor>> \in Node \X Node
    BY <2>2, <1>f, NodeFacts
  <2>4. response' \in [Node \X Node -> Seq(ResponseMsg)]
    BY <1>7, <2>1, <2>3, SentType DEF RecvFwdGetM
  <2>5. PICK state \in CacheState : NewState(c, state)
    BY <1>7 DEF RecvFwdGetM, CacheState
  <2> QED BY <1>7, <2>2, <2>4, <2>5, <1>f, <1>n, <1>d DEF RecvFwdGetM
<1>8. CASE RecvPutAck(c)
  <2>1. "I" \in CacheState
    BY DEF CacheState
  <2> QED BY <1>8, <2>1, <1>f, <1>n, <1>d DEF RecvPutAck, Forwarded
<1> QED
  BY <1>1, <1>2, <1>3, <1>4, <1>5, <1>6, <1>7, <1>8
  DEF AtCache, ResponseIn, ForwardIn

\* What the directory sends to the memory fits its queue.
LEMMA MemoryMsgType ==
  ASSUME NEW c \in Cache, NEW d \in Data, NEW type \in {"MEMORY_READ", "MEMORY_WB"}
  PROVE  MemoryMessage(type, c, d) \in MemoryMsg
BY DEF MemoryMessage, MemoryMsg

\* What in_port(request_in) finds at its head, and what it leaves.
LEMMA TakesFacts ==
  ASSUME TypeOK, NEW states, NEW events, Takes(states, events)
  PROVE  /\ Req \in RequestMsg
         /\ Req.requestor \in Cache
         /\ Req.data \in Data
         /\ requestQueue' \in Seq(RequestMsg)
<1>1. Req \in RequestMsg /\ requestQueue' \in Seq(RequestMsg)
  BY HeadType DEF TypeOK, DirTypeOK, Takes, Req
<1> QED BY <1>1 DEF RequestMsg

\* in_port(request_in) of the directory.
LEMMA RequestInType ==
  ASSUME TypeOK, AtDirectory(RequestIn)
  PROVE  TypeOK'
<1> USE DEF TypeOK, NetworkTypeOK, DirTypeOK, networkVars
<1>c. CacheTypeOK' /\ panic' \in PanicKind
  BY DEF AtDirectory, CacheTypeOK, cacheVars
<1>f. ASSUME NEW D, NEW type \in {"GetS", "GetM", "Inv"}, Req.requestor \in Cache
      PROVE  Multicast(forward, D, Request(type, Req.requestor, NoValue))
               \in [Cache -> Seq(ForwardMsg)]
  <2>1. Request(type, Req.requestor, NoValue) \in ForwardMsg
    BY <1>f, ForwardType, NodeFacts
  <2> QED BY <2>1, MulticastType
<1>p. ASSUME NEW c \in Cache PROVE PutAck(c) \in [Cache -> Seq(ForwardMsg)]
  <2>1. Request("PutAck", Directory, NoValue) \in ForwardMsg
    BY ForwardType, NodeFacts
  <2> QED BY <2>1, SentType DEF PutAck
<1>m. ASSUME NEW c \in Cache, SendMemRead(c)
      PROVE  memRequest' \in Seq(MemoryMsg)
  <2>1. MemoryMessage("MEMORY_READ", c, NoValue) \in MemoryMsg
    BY MemoryMsgType, NodeFacts
  <2> QED BY <1>m, <2>1 DEF SendMemRead
<1>1. CASE GetS
  <2>1. Req.requestor \in Cache /\ requestQueue' \in Seq(RequestMsg)
    BY <1>1, TakesFacts DEF GetS
  <2> QED BY <1>1, <2>1, <1>m, <1>c DEF GetS, DirState
<1>2. CASE GetSFromOwner
  <2>1. Req.requestor \in Cache /\ requestQueue' \in Seq(RequestMsg)
    BY <1>2, TakesFacts DEF GetSFromOwner
  <2>2. forward' \in [Cache -> Seq(ForwardMsg)]
    BY <1>2, <2>1, <1>f DEF GetSFromOwner
  <2> QED BY <1>2, <2>1, <2>2, <1>c DEF GetSFromOwner, DirState
<1>3. CASE GetM
  <2>1. Req.requestor \in Cache /\ requestQueue' \in Seq(RequestMsg)
    BY <1>3, TakesFacts DEF GetM
  <2> QED BY <1>3, <2>1, <1>m, <1>c DEF GetM, DirState
<1>4. CASE GetMInvalidate
  <2>1. Req.requestor \in Cache /\ requestQueue' \in Seq(RequestMsg)
    BY <1>4, TakesFacts DEF GetMInvalidate
  <2>2. forward' \in [Cache -> Seq(ForwardMsg)]
    BY <1>4, <2>1, <1>f DEF GetMInvalidate
  <2> QED BY <1>4, <2>1, <2>2, <1>m, <1>c DEF GetMInvalidate, DirState
<1>5. CASE GetMFromOwner
  <2>1. Req.requestor \in Cache /\ requestQueue' \in Seq(RequestMsg)
    BY <1>5, TakesFacts DEF GetMFromOwner
  <2>2. forward' \in [Cache -> Seq(ForwardMsg)]
    BY <1>5, <2>1, <1>f DEF GetMFromOwner
  <2> QED BY <1>5, <2>1, <2>2, <1>c DEF GetMFromOwner, DirState
<1>6. CASE PutShared
  <2>1. Req.requestor \in Cache /\ requestQueue' \in Seq(RequestMsg)
    BY <1>6, TakesFacts DEF PutShared
  <2>2. forward' \in [Cache -> Seq(ForwardMsg)]
    BY <1>6, <2>1, <1>p DEF PutShared
  <2>3. dirState' \in DirState /\ sharers' \subseteq Cache
    BY <1>6 DEF PutShared, DirState
  <2> QED BY <1>6, <2>1, <2>2, <2>3, <1>c DEF PutShared
<1>7. CASE PutStale
  <2>1. Req.requestor \in Cache /\ requestQueue' \in Seq(RequestMsg)
    BY <1>7, TakesFacts DEF PutStale
  <2>2. forward' \in [Cache -> Seq(ForwardMsg)]
    BY <1>7, <2>1, <1>p DEF PutStale
  <2> QED BY <1>7, <2>1, <2>2, <1>c DEF PutStale
<1>8. CASE PutMOwner
  <2>1. /\ Req.requestor \in Cache /\ Req.data \in Data
        /\ requestQueue' \in Seq(RequestMsg)
    BY <1>8, TakesFacts DEF PutMOwner
  <2>2. forward' \in [Cache -> Seq(ForwardMsg)]
    BY <1>8, <2>1, <1>p DEF PutMOwner
  <2>3. MemoryMessage("MEMORY_WB", Req.requestor, Req.data) \in MemoryMsg
    BY <2>1, MemoryMsgType
  <2> QED BY <1>8, <2>1, <2>2, <2>3, <1>c DEF PutMOwner, DirState
<1> QED
  BY <1>1, <1>2, <1>3, <1>4, <1>5, <1>6, <1>7, <1>8 DEF AtDirectory, RequestIn

\* The network, the memory, and the directory's two other ports.
LEMMA DirArrivalType ==
  ASSUME TypeOK,
         AtDirectory(\/ \E c \in Cache : DeliverRequest(c) \/ RecvOwnerData(c)
                     \/ ServeMemory \/ RecvMemData \/ RecvMemAck)
  PROVE  TypeOK'
<1> USE DEF TypeOK, NetworkTypeOK, DirTypeOK, networkVars
<1>c. CacheTypeOK' /\ panic' \in PanicKind
  BY DEF AtDirectory, CacheTypeOK, cacheVars
<1>m. ASSUME NEW q \in Seq(MemoryMsg), q # << >>
      PROVE  /\ Head(q) \in MemoryMsg /\ Tail(q) \in Seq(MemoryMsg)
             /\ Head(q).sender \in Cache /\ Head(q).data \in Data
  <2>1. Head(q) \in MemoryMsg /\ Tail(q) \in Seq(MemoryMsg)
    BY <1>m, HeadType
  <2> QED BY <2>1 DEF MemoryMsg
<1>1. ASSUME NEW c \in Cache, DeliverRequest(c) PROVE TypeOK'
  <2>1. Head(request[c]) \in RequestMsg
    BY <1>1, HeadType DEF DeliverRequest
  <2>2. request' \in [Cache -> Seq(RequestMsg)]
    BY <1>1, PoppedType DEF DeliverRequest
  <2>3. requestQueue' \in Seq(RequestMsg)
    BY <1>1, <2>1 DEF DeliverRequest
  <2> QED BY <1>1, <2>2, <2>3, <1>c DEF DeliverRequest
<1>2. ASSUME NEW c \in Cache, RecvOwnerData(c) PROVE TypeOK'
  <2>1. <<c, Directory>> \in Node \X Node
    BY NodeFacts
  <2>2. Head(response[<<c, Directory>>]) \in ResponseMsg
    BY <1>2, <2>1, HeadType DEF RecvOwnerData
  <2>3. MemoryMessage("MEMORY_WB", c, Head(response[<<c, Directory>>]).data)
          \in MemoryMsg
    BY <2>2, MemoryMsgType DEF ResponseMsg
  <2>4. response' \in [Node \X Node -> Seq(ResponseMsg)]
    BY <1>2, <2>1, PoppedType DEF RecvOwnerData
  <2>5. memRequest' \in Seq(MemoryMsg)
    BY <1>2, <2>3 DEF RecvOwnerData
  <2> QED BY <1>2, <2>4, <2>5, <1>c DEF RecvOwnerData, DirState
<1>3. CASE ServeMemory
  <2> DEFINE m == Head(memRequest)
  <2>1. m \in MemoryMsg /\ m.data \in Data /\ memRequest' \in Seq(MemoryMsg)
    BY <1>3, <1>m DEF ServeMemory
  <2>2. [m EXCEPT !.data = memory] \in MemoryMsg
    BY <2>1 DEF MemoryMsg
  <2>3. PICK r \in {m, [m EXCEPT !.data = memory]} :
          memResponse' = Append(memResponse, r)
    BY <1>3 DEF ServeMemory
  <2>4. memResponse' \in Seq(MemoryMsg)
    <3>1. r \in MemoryMsg
      BY <2>1, <2>2
    <3> HIDE DEF m
    <3> QED BY <2>3, <3>1
  <2>5. memory' \in Data
    BY <1>3, <2>1 DEF ServeMemory
  <2> QED BY <1>3, <2>1, <2>4, <2>5, <1>c DEF ServeMemory
<1>4. CASE RecvMemData
  <2> DEFINE m == Head(memResponse)
             k == IF m.sender \in owner THEN Cardinality(sharers) ELSE 0
  <2>1. /\ m.data \in Data /\ memResponse' \in Seq(MemoryMsg)
        /\ <<Directory, m.sender>> \in Node \X Node
    BY <1>4, <1>m, NodeFacts DEF RecvMemData
  <2>2. k \in Nat
    BY NodeAssumption, FS_Subset, FS_CardinalityType
  <2>3. Reply("Data", m.data, k) \in ResponseMsg
    BY <2>1, <2>2, ReplyType
  <2>4. response' = Sent(response, <<Directory, m.sender>>, Reply("Data", m.data, k))
    BY <1>4 DEF RecvMemData
  <2>5. response' \in [Node \X Node -> Seq(ResponseMsg)]
    BY <2>1, <2>3, <2>4, SentType
  <2>6. dirState' \in DirState /\ sharers' \subseteq Cache
    BY <1>4 DEF RecvMemData, DirState
  <2> QED BY <1>4, <2>1, <2>5, <2>6, <1>c DEF RecvMemData
<1>5. CASE RecvMemAck
  <2>1. memResponse' \in Seq(MemoryMsg)
    BY <1>5, <1>m DEF RecvMemAck
  <2>2. dirState' \in DirState
    BY <1>5 DEF RecvMemAck, DirState
  <2> QED BY <1>5, <2>1, <2>2, <1>c DEF RecvMemAck
<1> QED
  BY <1>1, <1>2, <1>3, <1>4, <1>5 DEF AtDirectory

\* Every step keeps the types.
LEMMA TypeStep == TypeOK /\ [Next]_vars => TypeOK'
<1> SUFFICES ASSUME TypeOK, [Next]_vars PROVE TypeOK'
  OBVIOUS
<1>1. ASSUME NEW c \in Cache, AtCache(CacheStep(c)) PROVE TypeOK'
  BY <1>1, MandatoryType, ArrivalType DEF AtCache, CacheStep
<1>2. CASE AtDirectory(DirStep)
  BY <1>2, RequestInType, DirArrivalType DEF AtDirectory, DirStep
<1>3. CASE Running /\ Panic
  BY <1>3 DEF Panic, TypeOK, NetworkTypeOK, CacheTypeOK, DirTypeOK,
              networkVars, cacheVars, dirVars
<1>4. CASE UNCHANGED vars
  BY <1>4 DEF vars, TypeOK, NetworkTypeOK, CacheTypeOK, DirTypeOK,
              networkVars, cacheVars, dirVars
<1> QED BY <1>1, <1>2, <1>3, <1>4 DEF Next, Halted

\* Every state the protocol reaches has well-typed controllers, channels and
\* memory: sharers and owners are caches, every message in a channel is of a
\* kind that channel carries, ack counts sent by the directory are naturals.
THEOREM TypeCorrect == Spec => []TypeOK
BY InitType, TypeStep, PTL DEF Spec

-----------------------------------------------------------------------------
(* The directory entry.                                                    *)

\* PutSLast removes the only sharer: the assertion in request_in makes the
\* requestor that sharer.
LEMMA LastSharer ==
  ASSUME TypeOK, NEW states, Takes(states, {"PutSLast"})
  PROVE  sharers \ {Req.requestor} = {}
<1>1. Req.type = "PutS" /\ Cardinality(sharers) = 1
  <2>1. Req.type \in {"GetS", "GetM", "PutS", "PutM"}
    BY TakesFacts DEF RequestMsg
  <2> QED BY <2>1 DEF Takes, RequestEvent
<1>2. Req.requestor \in sharers
  BY <1>1 DEF Takes, SharerAssertFails
<1>3. IsFiniteSet(sharers)
  BY NodeAssumption, FS_Subset DEF TypeOK, DirTypeOK
<1>4. PICK c : sharers = {c}
  BY <1>1, <1>3, FS_Singleton
<1> QED BY <1>2, <1>4

\* Each step of the directory keeps the shape of its entry.
LEMMA DirStepEntry ==
  ASSUME TypeOK, DirEntryByState, DirStep
  PROVE  DirEntryByState'
<1> USE DEF DirEntryByState
<1>r. ASSUME NEW states, NEW events, Takes(states, events)
      PROVE  Req.requestor \in Cache /\ dirState \in states
  BY <1>r, TakesFacts DEF Takes
<1>1. ASSUME NEW c \in Cache, DeliverRequest(c) \/ RecvOwnerData(c)
      PROVE  DirEntryByState'
  BY <1>1 DEF DeliverRequest, RecvOwnerData
<1>2. CASE ServeMemory
  BY <1>2 DEF ServeMemory
<1>3. CASE GetS
  BY <1>3, <1>r DEF GetS
<1>4. CASE GetSFromOwner
  BY <1>4, <1>r DEF GetSFromOwner
<1>5. CASE GetM
  BY <1>5, <1>r DEF GetM
<1>6. CASE GetMInvalidate
  BY <1>6, <1>r DEF GetMInvalidate
<1>7. CASE GetMFromOwner
  BY <1>7, <1>r DEF GetMFromOwner
<1>8. CASE PutShared
  <2>1. CASE Takes({"S", "S_D", "SS_m", "S_m"}, {"PutSNotLast", "PutMNonOwner"})
             /\ UNCHANGED dirState
    BY <1>8, <2>1, <1>r DEF PutShared
  <2>2. CASE Takes({"S"}, {"PutSLast"}) /\ dirState' = "I"
    BY <1>8, <2>2, <1>r, LastSharer DEF PutShared
  <2>3. CASE Takes({"S_D"}, {"PutSLast"}) /\ UNCHANGED dirState
    BY <1>8, <2>3, <1>r DEF PutShared
  <2> QED BY <1>8, <2>1, <2>2, <2>3 DEF PutShared
<1>9. CASE PutStale
  BY <1>9 DEF PutStale
<1>10. CASE PutMOwner
  BY <1>10, <1>r DEF PutMOwner
<1>11. CASE RecvMemData
  BY <1>11 DEF RecvMemData
<1>12. CASE RecvMemAck
  BY <1>12 DEF RecvMemAck
<1> QED
  BY <1>1, <1>2, <1>3, <1>4, <1>5, <1>6, <1>7, <1>8, <1>9, <1>10, <1>11, <1>12
  DEF DirStep, RequestIn

\* Every step keeps it.
LEMMA EntryStep == TypeOK /\ DirEntryByState /\ [Next]_vars => DirEntryByState'
<1> SUFFICES ASSUME TypeOK, DirEntryByState, [Next]_vars
             PROVE  DirEntryByState'
  OBVIOUS
<1>1. CASE AtDirectory(DirStep)
  BY <1>1, DirStepEntry DEF AtDirectory
<1>2. CASE UNCHANGED dirVars
  BY <1>2 DEF dirVars, DirEntryByState
<1> QED BY <1>1, <1>2 DEF Next, AtCache, Panic, Halted, vars

\* In every reachable state of the directory the entry has the owner and the
\* sharers that setState, sendFwdGetS, sendFwdGetM and addOwnerToSharers assert.
THEOREM DirEntryCorrect == Spec => []DirEntryByState
<1>1. Init => DirEntryByState
  BY DEF Init, DirInit, DirEntryByState
<1> QED BY TypeCorrect, <1>1, EntryStep, PTL DEF Spec

-----------------------------------------------------------------------------
(* What is in a queue.                                                     *)

\* enqueue adds one message.
LEMMA RangeAppend ==
  ASSUME NEW S, NEW q \in Seq(S), NEW m \in S
  PROVE  Range(Append(q, m)) = Range(q) \union {m}
<1>1. /\ DOMAIN q = 1 .. Len(q) /\ Len(q) \in Nat
      /\ DOMAIN Append(q, m) = 1 .. Len(q) + 1
      /\ \A i \in 1 .. Len(q) : Append(q, m)[i] = q[i]
      /\ Append(q, m)[Len(q) + 1] = m
  OBVIOUS
<1> QED BY <1>1 DEF Range

\* dequeue takes the head away, one occurrence of it.
LEMMA RangeTail ==
  ASSUME NEW S, NEW q \in Seq(S), q # << >>
  PROVE  /\ Range(q) = {Head(q)} \union Range(Tail(q))
         /\ Head(q) \in S /\ Tail(q) \in Seq(S)
<1>1. /\ DOMAIN q = 1 .. Len(q) /\ Len(q) \in Nat \ {0}
      /\ DOMAIN Tail(q) = 1 .. Len(q) - 1
      /\ \A i \in 1 .. Len(q) - 1 : Tail(q)[i] = q[i + 1]
      /\ Head(q) = q[1]
      /\ Head(q) \in S /\ Tail(q) \in Seq(S)
  OBVIOUS
<1>2. ASSUME NEW i \in 1 .. Len(q)
      PROVE  q[i] \in {Head(q)} \union Range(Tail(q))
  <2>1. CASE i = 1
    BY <1>1, <2>1
  <2>2. CASE i # 1
    <3>1. i - 1 \in 1 .. Len(q) - 1 /\ Tail(q)[i - 1] = q[i]
      BY <1>1, <2>2
    <3> QED BY <1>1, <3>1 DEF Range
  <2> QED BY <2>1, <2>2
<1>3. \A i \in 1 .. Len(q) - 1 : i + 1 \in 1 .. Len(q)
  BY <1>1
<1>4. 1 \in 1 .. Len(q)
  BY <1>1
<1>5. Range(q) \subseteq {Head(q)} \union Range(Tail(q))
  BY <1>1, <1>2 DEF Range
<1>6. {Head(q)} \union Range(Tail(q)) \subseteq Range(q)
  BY <1>1, <1>3, <1>4 DEF Range
<1> QED BY <1>1, <1>5, <1>6

\* Only the empty queue has nothing in it.
LEMMA RangeEmpty ==
  ASSUME NEW S, NEW q \in Seq(S)
  PROVE  /\ Range(q) = {} <=> q = << >>
         /\ Range(q) \subseteq S
<1>1. /\ DOMAIN q = 1 .. Len(q) /\ Len(q) \in Nat
      /\ \A i \in 1 .. Len(q) : q[i] \in S
  OBVIOUS
<1>2. CASE q = << >>
  BY <1>2 DEF Range
<1>3. CASE q # << >>
  <2>1. Len(q) \in Nat \ {0}
    BY <1>3
  <2>2. 1 \in DOMAIN q
    BY <1>1, <2>1
  <2> QED BY <1>1, <1>3, <2>2 DEF Range
<1> QED BY <1>2, <1>3

\* A queue of one message.
LEMMA RangeSingle ==
  ASSUME NEW S, NEW q \in Seq(S), Len(q) <= 1, q # << >>
  PROVE  Range(q) = {Head(q)} /\ Tail(q) = << >>
<1>1. Len(q) = 1
  <2>1. Len(q) \in Nat /\ Len(q) # 0
    OBVIOUS
  <2> QED BY <2>1
<1>2. Tail(q) = << >>
  <2>1. Len(Tail(q)) = 0 /\ Tail(q) \in Seq(S)
    BY <1>1
  <2> QED BY <2>1
<1>3. Range(Tail(q)) = {}
  BY <1>2 DEF Range
<1> QED BY <1>2, <1>3, RangeTail

\* What is in a queue of none or one.
LEMMA RangeOne ==
  /\ Range(<< >>) = {}
  /\ \A m : Range(<<m>>) = {m}
<1>1. Range(<< >>) = {}
  BY DEF Range
<1>2. ASSUME NEW m PROVE Range(<<m>>) = {m}
  <2>1. DOMAIN <<m>> = {1} /\ <<m>>[1] = m
    OBVIOUS
  <2> QED BY <2>1 DEF Range
<1> QED BY <1>1, <1>2

\* Ranks are naturals.
LEMMA RankNat == \A m : Rank(m) \in Nat
BY DEF Rank

\* Messages of strictly increasing rank stay so without their head.
LEMMA RankedTail ==
  ASSUME NEW S, NEW q \in Seq(S), q # << >>, Ranked(q)
  PROVE  /\ Ranked(Tail(q))
         /\ \A m \in Range(Tail(q)) : Rank(Head(q)) < Rank(m)
         /\ Range(Tail(q)) = Range(q) \ {Head(q)}
<1>1. /\ DOMAIN q = 1 .. Len(q) /\ Len(q) \in Nat \ {0}
      /\ DOMAIN Tail(q) = 1 .. Len(q) - 1
      /\ \A i \in 1 .. Len(q) - 1 : Tail(q)[i] = q[i + 1]
      /\ Head(q) = q[1]
      /\ \A i \in 1 .. Len(q) : q[i] \in S
  OBVIOUS
<1>2. Ranked(Tail(q))
  BY <1>1 DEF Ranked
<1>3. \A m \in Range(Tail(q)) : Rank(Head(q)) < Rank(m)
  BY <1>1 DEF Ranked, Range
<1>4. Head(q) \notin Range(Tail(q))
  <2>1. Rank(Head(q)) \in Nat
    BY RankNat
  <2> QED BY <1>3, <2>1
<1> QED BY <1>2, <1>3, <1>4, RangeTail

\* ... and with a message of higher rank behind them.
LEMMA RankedAppend ==
  ASSUME NEW S, NEW q \in Seq(S), NEW m \in S, Ranked(q),
         \A x \in Range(q) : Rank(x) < Rank(m)
  PROVE  Ranked(Append(q, m))
<1>1. /\ DOMAIN q = 1 .. Len(q) /\ Len(q) \in Nat
      /\ DOMAIN Append(q, m) = 1 .. Len(q) + 1
      /\ \A i \in 1 .. Len(q) : Append(q, m)[i] = q[i]
      /\ Append(q, m)[Len(q) + 1] = m
  OBVIOUS
<1> SUFFICES ASSUME NEW i \in 1 .. Len(q) + 1, NEW j \in 1 .. Len(q) + 1, i < j
             PROVE  Rank(Append(q, m)[i]) < Rank(Append(q, m)[j])
  BY <1>1 DEF Ranked
<1>2. i \in 1 .. Len(q)
  BY <1>1
<1>3. CASE j \in 1 .. Len(q)
  BY <1>1, <1>2, <1>3 DEF Ranked
<1>4. CASE j = Len(q) + 1
  <2>1. q[i] \in Range(q)
    BY <1>1, <1>2 DEF Range
  <2> QED BY <1>1, <1>2, <1>4, <2>1
<1> QED BY <1>1, <1>3, <1>4

\* Two messages of the same rank are the same message.
LEMMA RankedUnique ==
  ASSUME NEW S, NEW q \in Seq(S), Ranked(q), NEW x \in Range(q), NEW y \in Range(q),
         Rank(x) = Rank(y)
  PROVE  x = y
<1>1. PICK i \in 1 .. Len(q), j \in 1 .. Len(q) : q[i] = x /\ q[j] = y
  BY DEF Range
<1>2. Len(q) \in Nat /\ DOMAIN q = 1 .. Len(q)
  OBVIOUS
<1>3. Rank(x) \in Nat
  BY RankNat
<1>4. ~(i < j) /\ ~(j < i)
  BY <1>1, <1>2, <1>3 DEF Ranked
<1> QED BY <1>1, <1>2, <1>4

-----------------------------------------------------------------------------
(* The forward network, seen through InvFor, FwdS, FwdM and PutAckTo.      *)

\* Requests are equal field by field.
LEMMA RequestEqual ==
  \A t1, t2, r1, r2, d1, d2 :
    Request(t1, r1, d1) = Request(t2, r2, d2) <=> t1 = t2 /\ r1 = r2 /\ d1 = d2
BY DEF Request

\* The rank of each kind of forward.
LEMMA RankOf ==
  \A r, d : /\ Rank(Request("Inv", r, d)) = 0
            /\ Rank(Request("GetS", r, d)) = 1
            /\ Rank(Request("GetM", r, d)) = 1
            /\ Rank(Request("PutAck", r, d)) = 2
BY DEF Rank, Request

\* What a cache may have waiting from the directory.
LEMMA ForwardKinds ==
  ASSUME TypeOK, ForwardShape, NEW d \in Cache
  PROVE  /\ \A m \in Range(forward[d]) :
              \/ \E c \in Cache : m = Request("Inv", c, NoValue) /\ InvFor(d, c)
              \/ \E c \in Cache : m = Request("GetS", c, NoValue) /\ FwdS(d, c)
              \/ \E c \in Cache : m = Request("GetM", c, NoValue) /\ FwdM(d, c)
              \/ m = Request("PutAck", Directory, NoValue) /\ PutAckTo(d)
         /\ \A c, e \in Cache :
              /\ InvFor(d, c) /\ InvFor(d, e) => c = e
              /\ FwdS(d, c) /\ FwdS(d, e) => c = e
              /\ FwdM(d, c) /\ FwdM(d, e) => c = e
              /\ ~(FwdS(d, c) /\ FwdM(d, e))
<1>1. forward[d] \in Seq(ForwardMsg) /\ Ranked(forward[d])
  BY DEF TypeOK, NetworkTypeOK, ForwardShape
<1>2. \A m \in Range(forward[d]) : ForwardForm(m)
  BY DEF ForwardShape
<1>3. ASSUME NEW m \in Range(forward[d])
      PROVE  \/ \E c \in Cache : m = Request("Inv", c, NoValue) /\ InvFor(d, c)
             \/ \E c \in Cache : m = Request("GetS", c, NoValue) /\ FwdS(d, c)
             \/ \E c \in Cache : m = Request("GetM", c, NoValue) /\ FwdM(d, c)
             \/ m = Request("PutAck", Directory, NoValue) /\ PutAckTo(d)
  BY <1>2, <1>3 DEF ForwardForm, InvFor, FwdS, FwdM, PutAckTo
<1>4. ASSUME NEW c \in Cache, NEW e \in Cache
      PROVE  /\ InvFor(d, c) /\ InvFor(d, e) => c = e
             /\ FwdS(d, c) /\ FwdS(d, e) => c = e
             /\ FwdM(d, c) /\ FwdM(d, e) => c = e
             /\ ~(FwdS(d, c) /\ FwdM(d, e))
  BY <1>1, RankedUnique, RankOf, RequestEqual DEF InvFor, FwdS, FwdM
<1> QED BY <1>3, <1>4

\* dequeue from forwardFromDir.
LEMMA ForwardPopped ==
  ASSUME TypeOK, ForwardShape, NEW c \in Cache, forward[c] # << >>,
         forward' = Popped(forward, c)
  PROVE  /\ ForwardShape'
         /\ \A d \in Cache \ {c} : forward'[d] = forward[d]
         /\ Range(forward'[c]) = Range(forward[c]) \ {Head(forward[c])}
         /\ Head(forward[c]) \in Range(forward[c])
         /\ \A m \in Range(forward'[c]) : Rank(Head(forward[c])) < Rank(m)
<1>1. /\ forward \in [Cache -> Seq(ForwardMsg)]
      /\ forward[c] \in Seq(ForwardMsg) /\ Ranked(forward[c])
  BY DEF TypeOK, NetworkTypeOK, ForwardShape
<1>2. /\ forward'[c] = Tail(forward[c])
      /\ \A d \in Cache \ {c} : forward'[d] = forward[d]
  BY <1>1 DEF Popped
<1>3. /\ Ranked(forward'[c])
      /\ Range(forward'[c]) = Range(forward[c]) \ {Head(forward[c])}
      /\ \A m \in Range(forward'[c]) : Rank(Head(forward[c])) < Rank(m)
  BY <1>1, <1>2, RankedTail
<1>4. Head(forward[c]) \in Range(forward[c])
  BY <1>1, RangeTail
<1>5. ForwardShape'
  <2> SUFFICES ASSUME NEW d \in Cache
               PROVE  /\ \A m \in Range(forward'[d]) : ForwardForm(m)
                      /\ Ranked(forward'[d])
    BY DEF ForwardShape
  <2>1. Range(forward'[d]) \subseteq Range(forward[d]) /\ Ranked(forward'[d])
    BY <1>2, <1>3 DEF ForwardShape
  <2> QED BY <2>1 DEF ForwardShape
<1> QED BY <1>2, <1>3, <1>4, <1>5

\* enqueue for the caches D, behind nothing of the same or a higher rank.
LEMMA ForwardSent ==
  ASSUME TypeOK, ForwardShape, NEW D \in SUBSET Cache,
         NEW m \in ForwardMsg, ForwardForm(m),
         \A d \in D : \A x \in Range(forward[d]) : Rank(x) < Rank(m),
         forward' = Multicast(forward, D, m)
  PROVE  /\ ForwardShape'
         /\ \A d \in Cache :
              Range(forward'[d]) =
                IF d \in D THEN Range(forward[d]) \union {m} ELSE Range(forward[d])
<1>1. forward \in [Cache -> Seq(ForwardMsg)]
  BY DEF TypeOK, NetworkTypeOK
<1>2. ASSUME NEW d \in Cache
      PROVE  /\ Range(forward'[d]) =
                  IF d \in D THEN Range(forward[d]) \union {m} ELSE Range(forward[d])
             /\ Ranked(forward'[d])
  <2>1. Ranked(forward[d]) /\ forward[d] \in Seq(ForwardMsg)
    BY <1>1 DEF ForwardShape
  <2>2. CASE d \in D
    <3>1. forward'[d] = Append(forward[d], m)
      BY <1>1, <2>2 DEF Multicast
    <3> QED BY <2>1, <2>2, <3>1, RangeAppend, RankedAppend
  <2>3. CASE d \notin D
    <3>1. forward'[d] = forward[d]
      BY <1>1, <2>3 DEF Multicast
    <3> QED BY <2>1, <2>3, <3>1
  <2> QED BY <2>2, <2>3
<1>3. ForwardShape'
  <2> SUFFICES ASSUME NEW d \in Cache
               PROVE  /\ \A x \in Range(forward'[d]) : ForwardForm(x)
                      /\ Ranked(forward'[d])
    BY DEF ForwardShape
  <2> QED BY <1>2 DEF ForwardShape
<1> QED BY <1>2, <1>3

\* The head of forwardFromDir is an Inv: nothing else of the cache's is.
LEMMA PopInv ==
  ASSUME TypeOK, ForwardShape, NEW c \in Cache, Forwarded(c, "Inv"),
         forward' = Popped(forward, c)
  PROVE  \E r \in Cache :
           /\ Head(forward[c]) = Request("Inv", r, NoValue)
           /\ \A e \in Cache : InvFor(c, e) <=> e = r
           /\ \A d, e \in Cache : /\ InvFor(d, e)' <=> InvFor(d, e) /\ d # c
                                  /\ FwdS(d, e)' <=> FwdS(d, e)
                                  /\ FwdM(d, e)' <=> FwdM(d, e)
           /\ \A d \in Cache : PutAckTo(d)' <=> PutAckTo(d)
           /\ ForwardShape'
<1>1. /\ ForwardShape'
      /\ \A d \in Cache \ {c} : forward'[d] = forward[d]
      /\ Range(forward'[c]) = Range(forward[c]) \ {Head(forward[c])}
      /\ Head(forward[c]) \in Range(forward[c])
  BY ForwardPopped DEF Forwarded
<1>2. PICK r \in Cache : Head(forward[c]) = Request("Inv", r, NoValue) /\ InvFor(c, r)
  <2>1. Head(forward[c]).type = "Inv"
    BY DEF Forwarded
  <2> QED BY <1>1, <2>1, ForwardKinds DEF Request
<1>3. \A e \in Cache : InvFor(c, e) <=> e = r
  BY <1>2, ForwardKinds
<1>4. ASSUME NEW d \in Cache, NEW e \in Cache
      PROVE  /\ InvFor(d, e)' <=> InvFor(d, e) /\ d # c
             /\ FwdS(d, e)' <=> FwdS(d, e)
             /\ FwdM(d, e)' <=> FwdM(d, e)
  BY <1>1, <1>2, <1>3, RequestEqual DEF InvFor, FwdS, FwdM
<1>5. ASSUME NEW d \in Cache PROVE PutAckTo(d)' <=> PutAckTo(d)
  BY <1>1, <1>2, RequestEqual DEF PutAckTo
<1> QED BY <1>1, <1>2, <1>3, <1>4, <1>5

\* ... a recall: no Inv is left, and no second recall.
LEMMA PopFwdS ==
  ASSUME TypeOK, ForwardShape, NEW c \in Cache, Forwarded(c, "GetS"),
         forward' = Popped(forward, c)
  PROVE  \E r \in Cache :
           /\ Head(forward[c]) = Request("GetS", r, NoValue)
           /\ \A e \in Cache : FwdS(c, e) <=> e = r
           /\ \A e \in Cache : ~InvFor(c, e) /\ ~FwdM(c, e)
           /\ \A d, e \in Cache : /\ InvFor(d, e)' <=> InvFor(d, e)
                                  /\ FwdS(d, e)' <=> FwdS(d, e) /\ d # c
                                  /\ FwdM(d, e)' <=> FwdM(d, e)
           /\ \A d \in Cache : PutAckTo(d)' <=> PutAckTo(d)
           /\ ForwardShape'
<1>1. /\ ForwardShape'
      /\ \A d \in Cache \ {c} : forward'[d] = forward[d]
      /\ Range(forward'[c]) = Range(forward[c]) \ {Head(forward[c])}
      /\ Head(forward[c]) \in Range(forward[c])
      /\ \A m \in Range(forward'[c]) : Rank(Head(forward[c])) < Rank(m)
  BY ForwardPopped DEF Forwarded
<1>2. PICK r \in Cache : Head(forward[c]) = Request("GetS", r, NoValue) /\ FwdS(c, r)
  <2>1. Head(forward[c]).type = "GetS"
    BY DEF Forwarded
  <2> QED BY <1>1, <2>1, ForwardKinds DEF Request
<1>3. \A e \in Cache : (FwdS(c, e) <=> e = r) /\ ~FwdM(c, e)
  BY <1>2, ForwardKinds
<1>4. \A e \in Cache : ~InvFor(c, e)
  BY <1>1, <1>2, RankOf, RequestEqual DEF InvFor
<1>5. ASSUME NEW d \in Cache, NEW e \in Cache
      PROVE  /\ InvFor(d, e)' <=> InvFor(d, e)
             /\ FwdS(d, e)' <=> FwdS(d, e) /\ d # c
             /\ FwdM(d, e)' <=> FwdM(d, e)
  BY <1>1, <1>2, <1>3, RequestEqual DEF InvFor, FwdS, FwdM
<1>6. ASSUME NEW d \in Cache PROVE PutAckTo(d)' <=> PutAckTo(d)
  BY <1>1, <1>2, RequestEqual DEF PutAckTo
<1> QED BY <1>1, <1>2, <1>3, <1>4, <1>5, <1>6

\* The head of forwardFromDir is a GetM: no Inv is before it, and it is the only
\* one.
LEMMA PopFwdM ==
  ASSUME TypeOK, ForwardShape, NEW c \in Cache, Forwarded(c, "GetM"),
         forward' = Popped(forward, c)
  PROVE  \E r \in Cache :
           /\ Head(forward[c]) = Request("GetM", r, NoValue)
           /\ \A e \in Cache : FwdM(c, e) <=> e = r
           /\ \A e \in Cache : ~InvFor(c, e) /\ ~FwdS(c, e)
           /\ \A d, e \in Cache : /\ InvFor(d, e)' <=> InvFor(d, e)
                                  /\ FwdS(d, e)' <=> FwdS(d, e)
                                  /\ FwdM(d, e)' <=> FwdM(d, e) /\ d # c
           /\ \A d \in Cache : PutAckTo(d)' <=> PutAckTo(d)
           /\ ForwardShape'
<1>1. /\ ForwardShape'
      /\ \A d \in Cache \ {c} : forward'[d] = forward[d]
      /\ Range(forward'[c]) = Range(forward[c]) \ {Head(forward[c])}
      /\ Head(forward[c]) \in Range(forward[c])
      /\ \A m \in Range(forward'[c]) : Rank(Head(forward[c])) < Rank(m)
  BY ForwardPopped DEF Forwarded
<1>2. PICK r \in Cache : Head(forward[c]) = Request("GetM", r, NoValue) /\ FwdM(c, r)
  <2>1. Head(forward[c]).type = "GetM"
    BY DEF Forwarded
  <2> QED BY <1>1, <2>1, ForwardKinds DEF Request
<1>3. \A e \in Cache : (FwdM(c, e) <=> e = r) /\ ~FwdS(c, e)
  BY <1>2, ForwardKinds
<1>4. \A e \in Cache : ~InvFor(c, e)
  BY <1>1, <1>2, RankOf, RequestEqual DEF InvFor
<1>5. ASSUME NEW d \in Cache, NEW e \in Cache
      PROVE  /\ InvFor(d, e)' <=> InvFor(d, e)
             /\ FwdS(d, e)' <=> FwdS(d, e)
             /\ FwdM(d, e)' <=> FwdM(d, e) /\ d # c
  BY <1>1, <1>2, <1>3, RequestEqual DEF InvFor, FwdS, FwdM
<1>6. ASSUME NEW d \in Cache PROVE PutAckTo(d)' <=> PutAckTo(d)
  BY <1>1, <1>2, RequestEqual DEF PutAckTo
<1> QED BY <1>1, <1>2, <1>3, <1>4, <1>5, <1>6

\* ... a PutAck: nothing is left.
LEMMA PopPutAck ==
  ASSUME TypeOK, ForwardShape, NEW c \in Cache, Forwarded(c, "PutAck"),
         forward' = Popped(forward, c)
  PROVE  /\ PutAckTo(c)
         /\ \A e \in Cache : ~InvFor(c, e) /\ ~FwdS(c, e) /\ ~FwdM(c, e)
         /\ \A d, e \in Cache : /\ InvFor(d, e)' <=> InvFor(d, e)
                                /\ FwdS(d, e)' <=> FwdS(d, e)
                                /\ FwdM(d, e)' <=> FwdM(d, e)
         /\ \A d \in Cache : PutAckTo(d)' <=> PutAckTo(d) /\ d # c
         /\ ForwardShape'
<1>1. /\ ForwardShape'
      /\ \A d \in Cache \ {c} : forward'[d] = forward[d]
      /\ Range(forward'[c]) = Range(forward[c]) \ {Head(forward[c])}
      /\ Head(forward[c]) \in Range(forward[c])
      /\ \A m \in Range(forward'[c]) : Rank(Head(forward[c])) < Rank(m)
  BY ForwardPopped DEF Forwarded
<1>2. Head(forward[c]) = Request("PutAck", Directory, NoValue) /\ PutAckTo(c)
  <2>1. Head(forward[c]).type = "PutAck"
    BY DEF Forwarded
  <2> QED BY <1>1, <2>1, ForwardKinds DEF Request
<1>4. \A e \in Cache : ~InvFor(c, e) /\ ~FwdS(c, e) /\ ~FwdM(c, e)
  BY <1>1, <1>2, RankOf, RequestEqual DEF InvFor, FwdS, FwdM
<1>5. ASSUME NEW d \in Cache, NEW e \in Cache
      PROVE  /\ InvFor(d, e)' <=> InvFor(d, e)
             /\ FwdS(d, e)' <=> FwdS(d, e)
             /\ FwdM(d, e)' <=> FwdM(d, e)
  BY <1>1, <1>2, RequestEqual DEF InvFor, FwdS, FwdM
<1>6. ASSUME NEW d \in Cache PROVE PutAckTo(d)' <=> PutAckTo(d) /\ d # c
  BY <1>1, <1>2, RequestEqual DEF PutAckTo
<1> QED BY <1>1, <1>2, <1>4, <1>5, <1>6

\* sendInvToSharers, to caches that have nothing waiting.
LEMMA SendInv ==
  ASSUME TypeOK, ForwardShape, NEW D \in SUBSET Cache, NEW r \in Cache,
         \A d \in D : /\ \A e \in Cache : ~InvFor(d, e) /\ ~FwdS(d, e) /\ ~FwdM(d, e)
                      /\ ~PutAckTo(d),
         forward' = Multicast(forward, D, Request("Inv", r, NoValue))
  PROVE  /\ \A d, e \in Cache :
              /\ InvFor(d, e)' <=> InvFor(d, e) \/ (d \in D /\ e = r)
              /\ FwdS(d, e)' <=> FwdS(d, e)
              /\ FwdM(d, e)' <=> FwdM(d, e)
         /\ \A d \in Cache : PutAckTo(d)' <=> PutAckTo(d)
         /\ ForwardShape'
<1> DEFINE m == Request("Inv", r, NoValue)
<1>1. m \in ForwardMsg /\ ForwardForm(m)
  BY ForwardType, NodeFacts DEF ForwardForm
<1>2. \A d \in D : \A x \in Range(forward[d]) : Rank(x) < Rank(m)
  BY ForwardKinds
<1>3. /\ ForwardShape'
      /\ \A d \in Cache :
           Range(forward'[d]) =
             IF d \in D THEN Range(forward[d]) \union {m} ELSE Range(forward[d])
  <2> HIDE DEF m
  <2>1. forward' = Multicast(forward, D, m)
    BY DEF m
  <2> QED BY <1>1, <1>2, <2>1, ForwardSent
<1>4. /\ \A e \in Cache : /\ Request("Inv", e, NoValue) = m <=> e = r
                        /\ Request("GetS", e, NoValue) # m
                        /\ Request("GetM", e, NoValue) # m
      /\ Request("PutAck", Directory, NoValue) # m
  BY DEF Request
<1> HIDE DEF m
<1>5. ASSUME NEW d \in Cache, NEW e \in Cache
      PROVE  /\ InvFor(d, e)' <=> InvFor(d, e) \/ (d \in D /\ e = r)
             /\ FwdS(d, e)' <=> FwdS(d, e)
             /\ FwdM(d, e)' <=> FwdM(d, e)
  BY <1>3, <1>4 DEF InvFor, FwdS, FwdM
<1>6. ASSUME NEW d \in Cache PROVE PutAckTo(d)' <=> PutAckTo(d)
  BY <1>3, <1>4 DEF PutAckTo
<1> QED BY <1>3, <1>5, <1>6

\* sendFwdGetS and sendFwdGetM, to an owner that may still have an Inv waiting.
LEMMA SendRecall ==
  ASSUME TypeOK, ForwardShape, NEW o \in Cache, NEW r \in Cache,
         NEW type \in {"GetS", "GetM"}, ~Recalled(o), ~PutAckTo(o),
         forward' = Multicast(forward, {o}, Request(type, r, NoValue))
  PROVE  /\ \A d, e \in Cache :
              /\ InvFor(d, e)' <=> InvFor(d, e)
              /\ FwdS(d, e)' <=> FwdS(d, e) \/ (type = "GetS" /\ d = o /\ e = r)
              /\ FwdM(d, e)' <=> FwdM(d, e) \/ (type = "GetM" /\ d = o /\ e = r)
         /\ \A d \in Cache : PutAckTo(d)' <=> PutAckTo(d)
         /\ ForwardShape'
<1> DEFINE m == Request(type, r, NoValue)
<1>1. m \in ForwardMsg /\ ForwardForm(m) /\ Rank(m) = 1
  BY ForwardType, NodeFacts, RankOf DEF ForwardForm
<1>2. \A x \in Range(forward[o]) : Rank(x) < 1
  BY ForwardKinds, RankOf DEF Recalled
<1>3. /\ ForwardShape'
      /\ \A d \in Cache :
           Range(forward'[d]) =
             IF d \in {o} THEN Range(forward[d]) \union {m} ELSE Range(forward[d])
  <2> HIDE DEF m
  <2>1. forward' = Multicast(forward, {o}, m)
    BY DEF m
  <2>2. /\ {o} \in SUBSET Cache
        /\ \A d \in {o} : \A x \in Range(forward[d]) : Rank(x) < Rank(m)
    BY <1>1, <1>2
  <2> QED BY <1>1, <2>1, <2>2, ForwardSent
<1>4. /\ \A e \in Cache :
           /\ Request("Inv", e, NoValue) # m
           /\ Request("GetS", e, NoValue) = m <=> (type = "GetS" /\ e = r)
           /\ Request("GetM", e, NoValue) = m <=> (type = "GetM" /\ e = r)
      /\ Request("PutAck", Directory, NoValue) # m
  BY DEF Request
<1> HIDE DEF m
<1>5. ASSUME NEW d \in Cache, NEW e \in Cache
      PROVE  /\ InvFor(d, e)' <=> InvFor(d, e)
             /\ FwdS(d, e)' <=> FwdS(d, e) \/ (type = "GetS" /\ d = o /\ e = r)
             /\ FwdM(d, e)' <=> FwdM(d, e) \/ (type = "GetM" /\ d = o /\ e = r)
  BY <1>3, <1>4 DEF InvFor, FwdS, FwdM
<1>6. ASSUME NEW d \in Cache PROVE PutAckTo(d)' <=> PutAckTo(d)
  BY <1>3, <1>4 DEF PutAckTo
<1> QED BY <1>3, <1>5, <1>6

\* sendPutAck, behind whatever the cache has waiting.
LEMMA SendPutAck ==
  ASSUME TypeOK, ForwardShape, NEW r \in Cache, ~PutAckTo(r), forward' = PutAck(r)
  PROVE  /\ \A d, e \in Cache : /\ InvFor(d, e)' <=> InvFor(d, e)
                                /\ FwdS(d, e)' <=> FwdS(d, e)
                                /\ FwdM(d, e)' <=> FwdM(d, e)
         /\ \A d \in Cache : PutAckTo(d)' <=> PutAckTo(d) \/ d = r
         /\ ForwardShape'
<1> DEFINE m == Request("PutAck", Directory, NoValue)
<1>1. m \in ForwardMsg /\ ForwardForm(m) /\ Rank(m) = 2
  BY ForwardType, NodeFacts, RankOf DEF ForwardForm
<1>2. \A x \in Range(forward[r]) : Rank(x) < 2
  BY ForwardKinds, RankOf
<1>3. /\ ForwardShape'
      /\ \A d \in Cache :
           Range(forward'[d]) =
             IF d \in {r} THEN Range(forward[d]) \union {m} ELSE Range(forward[d])
  <2>1. forward' = Multicast(forward, {r}, m)
    <3>1. forward \in [Cache -> Seq(ForwardMsg)]
      BY DEF TypeOK, NetworkTypeOK
    <3> HIDE DEF m
    <3>2. Sent(forward, r, m) = Multicast(forward, {r}, m)
      BY <3>1 DEF Sent, Multicast
    <3> QED BY <3>2 DEF PutAck, m
  <2> HIDE DEF m
  <2>2. /\ {r} \in SUBSET Cache
        /\ \A d \in {r} : \A x \in Range(forward[d]) : Rank(x) < Rank(m)
    BY <1>1, <1>2
  <2> QED BY <1>1, <2>1, <2>2, ForwardSent
<1>4. \A e \in Cache : /\ Request("Inv", e, NoValue) # m
                     /\ Request("GetS", e, NoValue) # m
                     /\ Request("GetM", e, NoValue) # m
  BY DEF Request
<1>5. ASSUME NEW d \in Cache, NEW e \in Cache
      PROVE  /\ InvFor(d, e)' <=> InvFor(d, e)
             /\ FwdS(d, e)' <=> FwdS(d, e)
             /\ FwdM(d, e)' <=> FwdM(d, e)
  BY <1>3, <1>4 DEF InvFor, FwdS, FwdM
<1>6. ASSUME NEW d \in Cache PROVE PutAckTo(d)' <=> PutAckTo(d) \/ d = r
  BY <1>3, RequestEqual DEF PutAckTo
<1> QED BY <1>3, <1>5, <1>6

-----------------------------------------------------------------------------
(* The response network, seen through Dat and Ack.                         *)

\* A channel is empty or carries one message of one of the two kinds.
LEMMA ResponseKinds ==
  ASSUME TypeOK, ResponseShape, NEW n \in Node, NEW k \in Node
  PROVE  /\ response[<<n, k>>] # << >> <=> (Dat(n, k) \/ Ack(n, k))
         /\ ~(Dat(n, k) /\ Ack(n, k))
         /\ response[<<n, k>>] # << >> => Head(response[<<n, k>>]) \in ResponseMsg
<1>1. response[<<n, k>>] \in Seq(ResponseMsg)
  BY DEF TypeOK, NetworkTypeOK
<1>2. response[<<n, k>>] # << >> => Head(response[<<n, k>>]) \in ResponseMsg
  BY <1>1, HeadType
<1> QED BY <1>2 DEF Dat, Ack, ResponseMsg

\* dequeue of a response.
LEMMA PopResponse ==
  ASSUME TypeOK, ResponseShape, NEW n \in Node, NEW k \in Node,
         response[<<n, k>>] # << >>, response' = Popped(response, <<n, k>>)
  PROVE  /\ \A a, b \in Node :
              /\ Dat(a, b)' <=> Dat(a, b) /\ ~(a = n /\ b = k)
              /\ Ack(a, b)' <=> Ack(a, b) /\ ~(a = n /\ b = k)
              /\ ~(a = n /\ b = k) => response'[<<a, b>>] = response[<<a, b>>]
         /\ response'[<<n, k>>] = << >>
         /\ ResponseShape'
<1>1. response \in [Node \X Node -> Seq(ResponseMsg)]
  BY DEF TypeOK, NetworkTypeOK
<1>2. Len(response[<<n, k>>]) <= 1
  BY DEF ResponseShape
<1>3. response'[<<n, k>>] = << >>
  <2>1. Tail(response[<<n, k>>]) = << >>
    BY <1>1, <1>2, RangeSingle
  <2> QED BY <1>1, <2>1 DEF Popped
<1>4. ASSUME NEW a \in Node, NEW b \in Node, ~(a = n /\ b = k)
      PROVE  response'[<<a, b>>] = response[<<a, b>>]
  <2>1. <<a, b>> \in Node \X Node /\ <<a, b>> # <<n, k>>
    BY <1>4
  <2> QED BY <1>1, <2>1 DEF Popped
<1>5. ASSUME NEW a \in Node, NEW b \in Node
      PROVE  /\ Dat(a, b)' <=> Dat(a, b) /\ ~(a = n /\ b = k)
             /\ Ack(a, b)' <=> Ack(a, b) /\ ~(a = n /\ b = k)
  BY <1>3, <1>4 DEF Dat, Ack
<1>6. ResponseShape'
  <2>1. \A a, b \in Node : Len(response'[<<a, b>>]) <= 1
    <3> SUFFICES ASSUME NEW a \in Node, NEW b \in Node
                 PROVE  Len(response'[<<a, b>>]) <= 1
      OBVIOUS
    <3>1. CASE a = n /\ b = k
      BY <1>3, <3>1
    <3>2. CASE ~(a = n /\ b = k)
      BY <1>4, <3>2 DEF ResponseShape
    <3> QED BY <3>1, <3>2
  <2>2. \A a \in Node : ~Ack(Directory, a)' /\ ~Ack(a, Directory)'
    BY <1>5, NodeFacts DEF ResponseShape
  <2>3. ~Dat(Directory, Directory)'
    BY <1>5, NodeFacts DEF ResponseShape
  <2> QED BY <2>1, <2>2, <2>3 DEF ResponseShape
<1> QED BY <1>3, <1>4, <1>5, <1>6

\* enqueue of a response on empty channels.
LEMMA SendResponses ==
  ASSUME TypeOK, ResponseShape, NEW D \in SUBSET (Node \X Node), NEW m \in ResponseMsg,
         \A k \in D : response[k] = << >>,
         <<Directory, Directory>> \notin D,
         m.type = "InvAck" => D \subseteq Cache \X Cache,
         response' = Multicast(response, D, m)
  PROVE  /\ \A a, b \in Node :
              /\ Dat(a, b)' <=> Dat(a, b) \/ (<<a, b>> \in D /\ m.type = "Data")
              /\ Ack(a, b)' <=> Ack(a, b) \/ (<<a, b>> \in D /\ m.type = "InvAck")
              /\ response'[<<a, b>>] = IF <<a, b>> \in D THEN <<m>>
                                       ELSE response[<<a, b>>]
         /\ ResponseShape'
<1>1. response \in [Node \X Node -> Seq(ResponseMsg)]
  BY DEF TypeOK, NetworkTypeOK
<1>2. ASSUME NEW a \in Node, NEW b \in Node
      PROVE  response'[<<a, b>>] = IF <<a, b>> \in D THEN <<m>>
                                                     ELSE response[<<a, b>>]
  <2>1. <<a, b>> \in Node \X Node
    OBVIOUS
  <2>2. CASE <<a, b>> \in D
    <3>1. response'[<<a, b>>] = Append(response[<<a, b>>], m)
      BY <1>1, <2>1, <2>2 DEF Multicast
    <3>2. response[<<a, b>>] = << >>
      BY <2>2
    <3>3. Append(<< >>, m) = <<m>>
      OBVIOUS
    <3> QED BY <2>2, <3>1, <3>2, <3>3
  <2>3. CASE <<a, b>> \notin D
    BY <1>1, <2>1, <2>3 DEF Multicast
  <2> QED BY <2>2, <2>3
<1>3. m.type \in {"Data", "InvAck"} /\ Head(<<m>>) = m /\ <<m>> # << >> /\ Len(<<m>>) = 1
  BY DEF ResponseMsg
<1>4. ASSUME NEW a \in Node, NEW b \in Node
      PROVE  /\ Dat(a, b)' <=> Dat(a, b) \/ (<<a, b>> \in D /\ m.type = "Data")
             /\ Ack(a, b)' <=> Ack(a, b) \/ (<<a, b>> \in D /\ m.type = "InvAck")
  <2>1. CASE <<a, b>> \in D
    <3>1. response'[<<a, b>>] = <<m>> /\ response[<<a, b>>] = << >>
      BY <1>2, <2>1
    <3> QED BY <1>3, <2>1, <3>1 DEF Dat, Ack
  <2>2. CASE <<a, b>> \notin D
    <3>1. response'[<<a, b>>] = response[<<a, b>>]
      BY <1>2, <2>2
    <3> QED BY <2>2, <3>1 DEF Dat, Ack
  <2> QED BY <2>1, <2>2
<1>5. ResponseShape'
  <2>1. ASSUME NEW a \in Node, NEW b \in Node
        PROVE  Len(response'[<<a, b>>]) <= 1
    <3>1. CASE <<a, b>> \in D
      BY <1>2, <1>3, <3>1
    <3>2. CASE <<a, b>> \notin D
      BY <1>2, <3>2 DEF ResponseShape
    <3> QED BY <3>1, <3>2
  <2>2. ASSUME NEW a \in Node
        PROVE  ~Ack(Directory, a)' /\ ~Ack(a, Directory)'
    <3>1. m.type = "InvAck" => <<Directory, a>> \notin D /\ <<a, Directory>> \notin D
      BY NodeFacts
    <3> QED BY <1>4, <3>1, NodeFacts DEF ResponseShape
  <2>3. ~Dat(Directory, Directory)'
    BY <1>4, NodeFacts DEF ResponseShape
  <2> QED BY <2>1, <2>2, <2>3 DEF ResponseShape
<1> QED BY <1>2, <1>4, <1>5

\* enqueue on one response channel is a multicast to it alone.
LEMMA SentOne ==
  ASSUME TypeOK, NEW k \in Node \X Node, NEW m
  PROVE  Sent(response, k, m) = Multicast(response, {k}, m)
<1>1. response \in [Node \X Node -> Seq(ResponseMsg)]
  BY DEF TypeOK, NetworkTypeOK
<1> QED BY <1>1 DEF Sent, Multicast

-----------------------------------------------------------------------------
(* The request network, seen through Asked.                                *)

\* A cache has at most one request out, of its own.
LEMMA AskedFacts ==
  ASSUME TypeOK, RequestShape, NEW c \in Cache
  PROVE  /\ \A m \in Asked(c) :
              /\ m \in RequestMsg /\ m.requestor = c
              /\ m.type \in {"GetS", "GetM", "PutS", "PutM"}
         /\ \A m, k \in Asked(c) : m = k
<1>1. request[c] \in Seq(RequestMsg) /\ requestQueue \in Seq(RequestMsg)
  BY DEF TypeOK, NetworkTypeOK, DirTypeOK
<1>2. Range(request[c]) \subseteq RequestMsg /\ Range(requestQueue) \subseteq RequestMsg
  BY <1>1, RangeEmpty
<1>3. \A m \in Asked(c) : m \in RequestMsg /\ m.requestor = c
  BY <1>2 DEF Asked, RequestShape
<1>4. ASSUME NEW m \in Asked(c), NEW k \in Asked(c) PROVE m = k
  <2>1. CASE request[c] = << >>
    <3>1. Range(request[c]) = {}
      BY <1>1, <2>1, RangeEmpty
    <3>2. PICK i \in DOMAIN requestQueue, j \in DOMAIN requestQueue :
            m = requestQueue[i] /\ k = requestQueue[j]
      BY <3>1 DEF Asked, Range
    <3>3. i = j
      BY <1>3, <3>2 DEF RequestShape
    <3> QED BY <3>2, <3>3
  <2>2. CASE request[c] # << >>
    <3>1. Range(request[c]) = {Head(request[c])}
      BY <1>1, <2>2, RangeSingle DEF RequestShape
    <3>2. {x \in Range(requestQueue) : x.requestor = c} = {}
      BY <2>2 DEF RequestShape
    <3> QED BY <3>1, <3>2 DEF Asked
  <2> QED BY <2>1, <2>2
<1> QED BY <1>3, <1>4 DEF RequestMsg

\* enqueue by a cache that has none out.
LEMMA SendRequest ==
  ASSUME TypeOK, RequestShape, NEW c \in Cache, NEW m \in RequestMsg,
         m.requestor = c, Asked(c) = {},
         request' = Sent(request, c, m), UNCHANGED requestQueue
  PROVE  /\ Asked(c)' = {m}
         /\ \A d \in Cache \ {c} : Asked(d)' = Asked(d)
         /\ RequestShape'
<1>1. /\ request \in [Cache -> Seq(RequestMsg)]
      /\ request[c] \in Seq(RequestMsg) /\ requestQueue \in Seq(RequestMsg)
  BY DEF TypeOK, NetworkTypeOK, DirTypeOK
<1>2. /\ request[c] = << >>
      /\ \A x \in Range(requestQueue) : x.requestor # c
  <2>1. Range(request[c]) = {} /\ \A x \in Range(requestQueue) : x.requestor # c
    BY DEF Asked
  <2> QED BY <1>1, <2>1, RangeEmpty
<1>3. /\ request'[c] = <<m>>
      /\ \A d \in Cache \ {c} : request'[d] = request[d]
  <2>1. Append(<< >>, m) = <<m>>
    OBVIOUS
  <2> QED BY <1>1, <1>2, <2>1 DEF Sent
<1>4. Range(request'[c]) = {m} /\ Len(request'[c]) = 1
  BY <1>3 DEF Range
<1>5. Asked(c)' = {m}
  BY <1>2, <1>4 DEF Asked
<1>6. ASSUME NEW d \in Cache \ {c} PROVE Asked(d)' = Asked(d)
  BY <1>3 DEF Asked
<1>7. RequestShape'
  <2> SUFFICES ASSUME NEW d \in Cache
               PROVE  /\ Len(request'[d]) <= 1
                      /\ \A x \in Range(request'[d]) : x.requestor = d
                      /\ request'[d] # << >> =>
                           \A x \in Range(requestQueue') : x.requestor # d
    BY DEF RequestShape
  <2>1. CASE d = c
    <3>1. Len(request'[c]) <= 1 /\ \A x \in Range(request'[c]) : x.requestor = c
      BY <1>4
    <3>2. Range(requestQueue') = Range(requestQueue)
      OBVIOUS
    <3> QED BY <1>2, <2>1, <3>1, <3>2
  <2>2. CASE d # c
    BY <1>3, <2>2 DEF RequestShape
  <2> QED BY <2>1, <2>2
<1> QED BY <1>5, <1>6, <1>7

\* The network moves a request on.
LEMMA MoveRequest ==
  ASSUME TypeOK, RequestShape, NEW c \in Cache, DeliverRequest(c)
  PROVE  /\ \A d \in Cache : Asked(d)' = Asked(d)
         /\ RequestShape'
<1>1. /\ request \in [Cache -> Seq(RequestMsg)]
      /\ request[c] \in Seq(RequestMsg) /\ requestQueue \in Seq(RequestMsg)
      /\ request[c] # << >>
  BY DEF TypeOK, NetworkTypeOK, DirTypeOK, DeliverRequest
<1> DEFINE m == Head(request[c])
<1>2. /\ Range(request[c]) = {m} /\ Tail(request[c]) = << >>
      /\ m \in RequestMsg /\ m.requestor = c
      /\ \A x \in Range(requestQueue) : x.requestor # c
  <2>1. Len(request[c]) <= 1
    BY DEF RequestShape
  <2>2. /\ Range(request[c]) = {m} /\ Tail(request[c]) = << >> /\ m \in RequestMsg
    BY <1>1, <2>1, RangeSingle, HeadType
  <2> QED BY <1>1, <2>2 DEF RequestShape
<1>3. /\ request'[c] = << >>
      /\ \A d \in Cache \ {c} : request'[d] = request[d]
      /\ requestQueue' = Append(requestQueue, m)
  BY <1>1, <1>2 DEF DeliverRequest, Popped
<1> HIDE DEF m
<1>4. Range(request'[c]) = {} /\ Range(requestQueue') = Range(requestQueue) \union {m}
  <2>1. Range(request'[c]) = {}
    BY <1>3 DEF Range
  <2>2. Range(requestQueue') = Range(requestQueue) \union {m}
    BY <1>1, <1>2, <1>3, RangeAppend
  <2> QED BY <2>1, <2>2
<1>5. ASSUME NEW d \in Cache PROVE Asked(d)' = Asked(d)
  <2>1. CASE d = c
    BY <1>2, <1>4, <2>1 DEF Asked
  <2>2. CASE d # c
    BY <1>2, <1>3, <1>4, <2>2 DEF Asked
  <2> QED BY <2>1, <2>2
<1>6. ASSUME NEW d \in Cache
      PROVE  /\ Len(request'[d]) <= 1
             /\ \A x \in Range(request'[d]) : x.requestor = d
             /\ request'[d] # << >> => \A x \in Range(requestQueue') : x.requestor # d
  <2>1. CASE d = c
    BY <1>3, <1>4, <2>1
  <2>2. CASE d # c
    BY <1>2, <1>3, <1>4, <2>2 DEF RequestShape
  <2> QED BY <2>1, <2>2
<1>7. \A i, j \in DOMAIN requestQueue' :
        requestQueue'[i].requestor = requestQueue'[j].requestor => i = j
  <2>1. /\ DOMAIN requestQueue = 1 .. Len(requestQueue) /\ Len(requestQueue) \in Nat
        /\ DOMAIN requestQueue' = 1 .. Len(requestQueue) + 1
        /\ \A i \in 1 .. Len(requestQueue) : requestQueue'[i] = requestQueue[i]
        /\ requestQueue'[Len(requestQueue) + 1] = m
    BY <1>1, <1>2, <1>3
  <2>2. \A i \in 1 .. Len(requestQueue) : requestQueue[i].requestor # c
    BY <1>2, <2>1 DEF Range
  <2> SUFFICES ASSUME NEW i \in DOMAIN requestQueue', NEW j \in DOMAIN requestQueue',
                      requestQueue'[i].requestor = requestQueue'[j].requestor
               PROVE  i = j
    OBVIOUS
  <2>3. CASE i \in 1 .. Len(requestQueue) /\ j \in 1 .. Len(requestQueue)
    BY <2>1, <2>3 DEF RequestShape
  <2>4. CASE i = Len(requestQueue) + 1 \/ j = Len(requestQueue) + 1
    BY <1>2, <2>1, <2>2, <2>4
  <2> QED BY <2>1, <2>3, <2>4
<1> QED BY <1>5, <1>6, <1>7 DEF RequestShape

\* The directory takes the request at the head of its queue.
LEMMA TakeRequest ==
  ASSUME TypeOK, RequestShape, requestQueue # << >>,
         requestQueue' = Tail(requestQueue), UNCHANGED request
  PROVE  \E r \in Cache :
           /\ Req.requestor = r
           /\ Asked(r) = {Req}
           /\ Asked(r)' = {}
           /\ \A d \in Cache \ {r} : Asked(d)' = Asked(d)
           /\ RequestShape'
<1>1. requestQueue \in Seq(RequestMsg) /\ \A d \in Cache : request[d] \in Seq(RequestMsg)
  BY DEF TypeOK, NetworkTypeOK, DirTypeOK
<1>2. /\ Req \in RequestMsg
      /\ Range(requestQueue) = {Req} \union Range(requestQueue')
  BY <1>1, RangeTail DEF Req
<1>3. PICK r \in Cache : Req.requestor = r
  BY <1>2 DEF RequestMsg
<1>4. Asked(r) = {Req}
  <2>1. Req \in Asked(r)
    BY <1>2, <1>3 DEF Asked
  <2> QED BY <2>1, AskedFacts
<1>5. /\ DOMAIN requestQueue = 1 .. Len(requestQueue) /\ Len(requestQueue) \in Nat \ {0}
      /\ DOMAIN requestQueue' = 1 .. Len(requestQueue) - 1
      /\ \A i \in 1 .. Len(requestQueue) - 1 : requestQueue'[i] = requestQueue[i + 1]
      /\ requestQueue[1] = Req
  BY <1>1 DEF Req
<1>6. \A x \in Range(requestQueue') : x.requestor # r
  <2> SUFFICES ASSUME NEW i \in DOMAIN requestQueue'
               PROVE  requestQueue'[i].requestor # r
    BY DEF Range
  <2>1. /\ i + 1 \in DOMAIN requestQueue /\ 1 \in DOMAIN requestQueue /\ i + 1 # 1
        /\ requestQueue'[i] = requestQueue[i + 1]
    BY <1>5
  <2> QED BY <1>3, <1>5, <2>1 DEF RequestShape
<1>7. Range(request[r]) = {}
  BY <1>1, <1>2, <1>3, RangeEmpty DEF RequestShape
<1>8. Asked(r)' = {}
  BY <1>6, <1>7 DEF Asked
<1>9. ASSUME NEW d \in Cache \ {r} PROVE Asked(d)' = Asked(d)
  BY <1>2, <1>3 DEF Asked
<1>10. RequestShape'
  <2>1. ASSUME NEW d \in Cache
        PROVE  /\ Len(request'[d]) <= 1
               /\ \A x \in Range(request'[d]) : x.requestor = d
               /\ request'[d] # << >> => \A x \in Range(requestQueue') : x.requestor # d
    BY <1>2 DEF RequestShape
  <2>2. ASSUME NEW i \in DOMAIN requestQueue', NEW j \in DOMAIN requestQueue',
               requestQueue'[i].requestor = requestQueue'[j].requestor
        PROVE  i = j
    <3>1. /\ i + 1 \in DOMAIN requestQueue /\ requestQueue'[i] = requestQueue[i + 1]
          /\ j + 1 \in DOMAIN requestQueue /\ requestQueue'[j] = requestQueue[j + 1]
      BY <1>5
    <3>2. i + 1 = j + 1
      BY <2>2, <3>1 DEF RequestShape
    <3> QED BY <1>5, <3>2
  <2> QED BY <2>1, <2>2 DEF RequestShape
<1> QED BY <1>3, <1>4, <1>8, <1>9, <1>10

-----------------------------------------------------------------------------
(* The memory, seen through MemRead.                                       *)

\* Outside its busy states the directory has no access at the memory; in S_m
\* and M_m it has one read, for one cache.
LEMMA MemoryReads ==
  ASSUME MemoryShape
  PROVE  /\ dirState \notin {"S_m", "M_m"} => \A c \in Cache : ~MemRead(c)
         /\ dirState \in {"S_m", "M_m"} =>
              \E r \in Cache : \A c \in Cache : MemRead(c) <=> c = r
<1>1. CASE dirState \notin {"S_m", "M_m", "MI_m", "SS_m"}
  BY <1>1 DEF MemoryShape, MemRead, Range
<1>2. CASE dirState \in {"S_m", "M_m", "MI_m", "SS_m"}
  <2>1. PICK m \in MemoryMsg :
          /\ m.type = "MEMORY_READ" <=> dirState \in {"S_m", "M_m"}
          /\ \/ memRequest = <<m>> /\ memResponse = << >>
             \/ memRequest = << >> /\ memResponse = <<m>>
    BY <1>2 DEF MemoryShape
  <2>2. Range(memRequest) \union Range(memResponse) = {m}
    BY <2>1, RangeOne
  <2>3. \A c \in Cache : MemRead(c) <=> m.type = "MEMORY_READ" /\ m.sender = c
    BY <2>2 DEF MemRead
  <2>4. m.sender \in Cache
    BY DEF MemoryMsg
  <2> QED BY <2>1, <2>3, <2>4
<1> QED BY <1>1, <1>2

\* queueMemoryRead by the idle directory.
LEMMA StartRead ==
  ASSUME MemoryShape, dirState \notin {"S_m", "M_m", "MI_m", "SS_m"},
         NEW r \in Cache, SendMemRead(r), UNCHANGED memResponse,
         dirState' \in {"S_m", "M_m"}
  PROVE  /\ \A c \in Cache : MemRead(c)' <=> c = r
         /\ MemoryShape'
<1> DEFINE m == MemoryMessage("MEMORY_READ", r, NoValue)
<1>1. memRequest = << >> /\ memResponse = << >>
  BY DEF MemoryShape
<1>2. m \in MemoryMsg /\ m.type = "MEMORY_READ" /\ m.sender = r
  BY MemoryMsgType, NodeFacts DEF MemoryMessage
<1>3. memRequest' = <<m>> /\ memResponse' = << >>
  BY <1>1 DEF SendMemRead
<1> HIDE DEF m
<1>4. Range(memRequest') \union Range(memResponse') = {m}
  BY <1>3, RangeOne
<1>5. \A c \in Cache : MemRead(c)' <=> c = r
  BY <1>2, <1>4 DEF MemRead
<1>6. MemoryShape'
  BY <1>2, <1>3 DEF MemoryShape
<1> QED BY <1>5, <1>6

\* queueMemoryWrite by the idle directory.
LEMMA StartWrite ==
  ASSUME MemoryShape, dirState \notin {"S_m", "M_m", "MI_m", "SS_m"},
         NEW r \in Cache, NEW v \in Data,
         memRequest' = Append(memRequest, MemoryMessage("MEMORY_WB", r, v)),
         UNCHANGED memResponse, dirState' \in {"MI_m", "SS_m"}
  PROVE  /\ \A c \in Cache : ~MemRead(c) /\ ~MemRead(c)'
         /\ MemoryShape'
<1> DEFINE m == MemoryMessage("MEMORY_WB", r, v)
<1>1. memRequest = << >> /\ memResponse = << >>
  BY DEF MemoryShape
<1>2. m \in MemoryMsg /\ m.type = "MEMORY_WB"
  BY MemoryMsgType DEF MemoryMessage
<1>3. memRequest' = <<m>> /\ memResponse' = << >>
  BY <1>1
<1> HIDE DEF m
<1>4. Range(memRequest') \union Range(memResponse') = {m}
  BY <1>3, RangeOne
<1>5. \A c \in Cache : ~MemRead(c)'
  BY <1>2, <1>4 DEF MemRead
<1>6. MemoryShape'
  BY <1>2, <1>3 DEF MemoryShape
<1> QED BY <1>5, <1>6, MemoryReads

\* The memory answers.
LEMMA MemoryAnswers ==
  ASSUME MemoryShape, TypeOK, ServeMemory
  PROVE  /\ \A c \in Cache : MemRead(c)' <=> MemRead(c)
         /\ MemoryShape'
<1>1. memRequest # << >> /\ dirState' = dirState
  BY DEF ServeMemory
<1>2. dirState \in {"S_m", "M_m", "MI_m", "SS_m"}
  BY <1>1 DEF MemoryShape
<1>3. PICK m \in MemoryMsg :
        /\ m.type = "MEMORY_READ" <=> dirState \in {"S_m", "M_m"}
        /\ memRequest = <<m>> /\ memResponse = << >>
  BY <1>1, <1>2 DEF MemoryShape
<1>4. PICK k \in MemoryMsg :
        /\ k.type = m.type /\ k.sender = m.sender
        /\ memRequest' = << >> /\ memResponse' = <<k>>
  <2>1. memory \in Data
    BY DEF TypeOK, DirTypeOK
  <2>2. Head(memRequest) = m /\ memRequest' = << >>
    BY <1>3 DEF ServeMemory
  <2>3. /\ [m EXCEPT !.data = memory] \in MemoryMsg
        /\ [m EXCEPT !.data = memory].type = m.type
        /\ [m EXCEPT !.data = memory].sender = m.sender
    BY <2>1 DEF MemoryMsg
  <2>4. PICK k \in {m, [m EXCEPT !.data = memory]} : memResponse' = Append(memResponse, k)
    BY <2>2 DEF ServeMemory
  <2>5. k \in MemoryMsg /\ k.type = m.type /\ k.sender = m.sender
    BY <2>3
  <2>6. memResponse' = <<k>>
    BY <1>3, <2>4
  <2> QED BY <2>2, <2>5, <2>6
<1>5. /\ Range(memRequest) \union Range(memResponse) = {m}
      /\ Range(memRequest') \union Range(memResponse') = {k}
  BY <1>3, <1>4, RangeOne
<1>6. \A c \in Cache : MemRead(c)' <=> MemRead(c)
  BY <1>4, <1>5 DEF MemRead
<1>7. MemoryShape'
  BY <1>1, <1>2, <1>3, <1>4 DEF MemoryShape
<1> QED BY <1>6, <1>7

\* The directory takes the answer and is no longer busy.
LEMMA MemoryTaken ==
  ASSUME MemoryShape, memResponse # << >>, memResponse' = Tail(memResponse),
         UNCHANGED memRequest, dirState' \notin {"S_m", "M_m", "MI_m", "SS_m"}
  PROVE  /\ Head(memResponse) \in MemoryMsg
         /\ Head(memResponse).type = "MEMORY_READ" <=> dirState \in {"S_m", "M_m"}
         /\ Head(memResponse).type = "MEMORY_READ" =>
              \A c \in Cache : MemRead(c) <=> c = Head(memResponse).sender
         /\ \A c \in Cache : ~MemRead(c)'
         /\ MemoryShape'
<1>1. dirState \in {"S_m", "M_m", "MI_m", "SS_m"}
  BY DEF MemoryShape
<1>2. PICK m \in MemoryMsg :
        /\ m.type = "MEMORY_READ" <=> dirState \in {"S_m", "M_m"}
        /\ memRequest = << >> /\ memResponse = <<m>>
  BY <1>1 DEF MemoryShape
<1>3. Head(memResponse) = m /\ memResponse' = << >> /\ memRequest' = << >>
  BY <1>2
<1>4. /\ Range(memRequest) \union Range(memResponse) = {m}
      /\ Range(memRequest') \union Range(memResponse') = {}
  BY <1>2, <1>3, RangeOne
<1>5. \A c \in Cache : MemRead(c) <=> m.type = "MEMORY_READ" /\ m.sender = c
  BY <1>4 DEF MemRead
<1>6. \A c \in Cache : ~MemRead(c)'
  BY <1>4 DEF MemRead
<1>7. MemoryShape'
  BY <1>3 DEF MemoryShape
<1> QED BY <1>2, <1>3, <1>5, <1>6, <1>7

-----------------------------------------------------------------------------
(* What the invariant says of one cache.                                   *)

\* The parts of the invariant.
LEMMA Parts ==
  ProtocolInv =>
    /\ TypeOK /\ DirEntryByState
    /\ ForwardShape /\ ResponseShape /\ RequestShape /\ MemoryShape
    /\ \A c \in Cache : /\ AskedForBy(c) /\ EvictionOf(c) /\ GrantsFor(c)
                        /\ OwnershipOf(c)
                        /\ SharerHolds(c) /\ CopyTracked(c) /\ AckCountOf(c)
    /\ \A d, c \in Cache : Invalidated(d, c)
    /\ OneSource /\ NoCycle /\ Downgrades
BY DEF ProtocolInv, CoherenceInv, ChannelShapes, Transactions, WriteRight, Copies

\* While the directory has the right to write, it is promised to nobody: every
\* promised cache would have to pass it on to another one.
LEMMA NoPromise ==
  ASSUME ProtocolInv, AtHome, NEW c \in Cache
  PROVE  ~Promised(c) /\ ~Source(c) /\ ~Exclusive(c) /\ ~Recalled(c) /\ c \notin owner
<1>i. /\ TypeOK /\ DirEntryByState /\ NoCycle /\ Downgrades
      /\ \A d \in Cache : OwnershipOf(d)
  BY Parts
<1>1. owner = {}
  BY <1>i DEF AtHome, DirEntryByState
<1>2. \A d, e \in Cache : ~FwdS(d, e)
  BY <1>i DEF AtHome, Downgrades
<1> DEFINE Z == {d \in Cache : Promised(d)}
<1>3. \A d \in Z : \E e \in Z : FwdM(d, e)
  <2> SUFFICES ASSUME NEW d \in Cache, Promised(d)
               PROVE  \E e \in Cache : Promised(e) /\ FwdM(d, e)
    OBVIOUS
  <2>1. Recalled(d)
    BY <1>i, <1>1 DEF OwnershipOf
  <2>2. PICK e \in Cache : FwdM(d, e)
    BY <2>1, <1>2 DEF Recalled
  <2> QED BY <2>2 DEF Promised
<1>4. Z = {}
  <2>1. Z \in SUBSET Cache
    OBVIOUS
  <2> HIDE DEF Z
  <2> QED BY <1>3, <1>i, <2>1 DEF NoCycle
<1>5. ~Promised(c)
  BY <1>4
<1> QED BY <1>1, <1>5, <1>i DEF OwnershipOf, Promised, Source

\* A cache that waits for nothing has nothing under way.
LEMMA Settled ==
  ASSUME ProtocolInv, NEW c \in Cache, ~WaitS(c), ~WaitM(c), ~Evicting(c)
  PROVE  /\ Asked(c) = {} /\ ~PutAckTo(c) /\ ~MemRead(c)
         /\ \A d \in Cache : ~FwdS(d, c) /\ ~FwdM(d, c)
         /\ \A n \in Node : ~Dat(n, c)
<1>i. TypeOK /\ RequestShape /\ AskedForBy(c) /\ EvictionOf(c) /\ GrantsFor(c)
  BY Parts
<1>1. Asked(c) = {}
  BY <1>i, AskedFacts DEF AskedForBy, Evicting
<1> QED BY <1>1, <1>i DEF EvictionOf, GrantsFor

\* What a request under way says of its cache.
LEMMA Asking ==
  ASSUME ProtocolInv, NEW c \in Cache, NEW m \in Asked(c)
  PROVE  /\ Asked(c) = {m} /\ m.requestor = c
         /\ m.type \in {"GetS", "GetM", "PutS", "PutM"}
         /\ m.type = "GetS" => WaitS(c)
         /\ m.type = "GetM" => WaitM(c)
         /\ m.type \in {"PutS", "PutM"} => Evicting(c)
         /\ m.type = "PutS" => cacheState[c] \in {"SI_A", "II_A"}
         /\ ~PutAckTo(c) /\ ~MemRead(c)
         /\ \A d \in Cache : ~FwdS(d, c) /\ ~FwdM(d, c)
         /\ \A n \in Node : ~Dat(n, c)
<1>i. TypeOK /\ RequestShape /\ AskedForBy(c) /\ EvictionOf(c) /\ GrantsFor(c)
  BY Parts
<1>1. /\ m.type \in {"GetS", "GetM", "PutS", "PutM"} /\ m.requestor = c
      /\ \A k \in Asked(c) : k = m
  BY <1>i, AskedFacts
<1>2. Asked(c) = {m}
  BY <1>1
<1>3. /\ m.type = "GetS" => WaitS(c)
      /\ m.type = "GetM" => WaitM(c)
      /\ m.type \in {"PutS", "PutM"} => Evicting(c)
      /\ m.type = "PutS" => cacheState[c] \in {"SI_A", "II_A"}
  BY <1>i DEF AskedForBy, Evicting
<1> QED BY <1>1, <1>2, <1>3, <1>i DEF EvictionOf, GrantsFor

\* Whoever awaits acknowledgements has the right to write, or has it next.
LEMMA AwaitsSource ==
  ASSUME NEW c \in Cache, Awaits(c)
  PROVE  Source(c) /\ Promised(c)
BY NodeFacts DEF Awaits, WaitAcks, Source, Exclusive, Promised

\* The states of a cache are exclusive.
LEMMA Modes ==
  ASSUME TypeOK, NEW c \in Cache
  PROVE  /\ WaitS(c) => ~WaitM(c) /\ ~WaitAcks(c) /\ ~Evicting(c) /\ ~Exclusive(c)
         /\ WaitM(c) => ~WaitAcks(c) /\ ~Evicting(c) /\ ~Exclusive(c)
         /\ WaitAcks(c) => ~Evicting(c) /\ Exclusive(c)
         /\ Evicting(c) => ~Source(c) \/ cacheState[c] = "MI_A"
BY DEF WaitS, WaitM, WaitAcks, Evicting, Exclusive, Source

\* A cache about to load has no part in the right to write.
LEMMA NoLoaderPromised ==
  ASSUME ProtocolInv, NEW c \in Cache, WaitS(c)
  PROVE  ~Source(c) /\ ~Promised(c) /\ ~Recalled(c) /\ c \notin owner
<1>i. TypeOK /\ GrantsFor(c) /\ OwnershipOf(c)
  BY Parts
<1>1. ~Source(c)
  BY <1>i, Modes DEF Source
<1>2. \A d \in Cache : ~FwdM(d, c)
  BY <1>i, Modes DEF GrantsFor
<1> QED BY <1>1, <1>2, <1>i DEF Promised, OwnershipOf

\* A cache whose request the directory has not taken is not promised the line,
\* unless it gives it up.
LEMMA AskingPromised ==
  ASSUME ProtocolInv, NEW c \in Cache, Asked(c) # {}, ~Evicting(c)
  PROVE  ~Source(c) /\ ~Promised(c) /\ ~Recalled(c) /\ c \notin owner
<1>i. TypeOK /\ OwnershipOf(c)
  BY Parts
<1>1. PICK m : m \in Asked(c)
  OBVIOUS
<1>2. WaitS(c) \/ WaitM(c)
  BY <1>1, Asking
<1>3. ~Source(c)
  BY <1>1, <1>2, <1>i, Asking, Modes DEF Source
<1>4. ~Promised(c)
  BY <1>1, <1>3, Asking DEF Promised
<1> QED BY <1>3, <1>4, <1>i DEF OwnershipOf

\* The owner the directory knows can be recalled.
LEMMA OwnerReady ==
  ASSUME ProtocolInv, NEW o \in Cache, o \in owner
  PROVE  ~Recalled(o) /\ ~PutAckTo(o) /\ Promised(o)
<1>i. TypeOK /\ OwnershipOf(o) /\ EvictionOf(o) /\ GrantsFor(o)
  BY Parts
<1>1. ~Recalled(o) /\ Promised(o)
  BY <1>i DEF OwnershipOf
<1>2. ASSUME PutAckTo(o) PROVE FALSE
  <2>1. Evicting(o)
    BY <1>2, <1>i DEF EvictionOf
  <2>2. ~Exclusive(o) /\ ~WaitM(o)
    BY <1>1, <1>2, <2>1 DEF Exclusive, Evicting, WaitM
  <2> QED BY <1>1, <2>2, <1>i DEF Promised, Source, GrantsFor
<1> QED BY <1>1, <1>2

\* Who gives the line up is still in a state in which it can.
LEMMA RecalledState ==
  ASSUME ProtocolInv, NEW c \in Cache, Recalled(c)
  PROVE  Promised(c) /\ c \notin owner /\ ~AtHome
<1>i. TypeOK /\ OwnershipOf(c)
  BY Parts
<1> QED BY <1>i, NoPromise DEF OwnershipOf

\* The acknowledgements c waits for can be counted.
LEMMA AckersFinite ==
  ASSUME NEW c \in Cache
  PROVE  /\ IsFiniteSet(Ackers(c)) /\ Cardinality(Ackers(c)) \in Nat
         /\ Cardinality(Ackers(c)) = 0 <=> Ackers(c) = {}
         /\ Ackers(c) = {} <=> \A d \in Cache : ~InvFor(d, c) /\ ~Ack(d, c)
<1>1. Ackers(c) \subseteq Cache
  BY DEF Ackers
<1>2. IsFiniteSet(Ackers(c))
  BY <1>1, NodeAssumption, FS_Subset
<1>3. Ackers(c) = {} <=> \A d \in Cache : ~InvFor(d, c) /\ ~Ack(d, c)
  BY DEF Ackers
<1> QED BY <1>2, <1>3, FS_CardinalityType, FS_EmptySet

-----------------------------------------------------------------------------
(* Frames.                                                                 *)

\* Nothing moves on the forward network.
LEMMA ForwardKept ==
  ASSUME UNCHANGED forward
  PROVE  /\ \A d, e \in Cache : /\ InvFor(d, e)' <=> InvFor(d, e)
                                /\ FwdS(d, e)' <=> FwdS(d, e)
                                /\ FwdM(d, e)' <=> FwdM(d, e)
         /\ \A d \in Cache : PutAckTo(d)' <=> PutAckTo(d)
         /\ ForwardShape => ForwardShape'
BY DEF InvFor, FwdS, FwdM, PutAckTo, ForwardShape

\* Nothing moves on the response network.
LEMMA ResponseKept ==
  ASSUME UNCHANGED response
  PROVE  /\ \A n, k \in Node : /\ Dat(n, k)' <=> Dat(n, k)
                               /\ Ack(n, k)' <=> Ack(n, k)
                               /\ response'[<<n, k>>] = response[<<n, k>>]
         /\ ResponseShape => ResponseShape'
BY DEF Dat, Ack, ResponseShape

\* No request moves.
LEMMA RequestsKept ==
  ASSUME UNCHANGED <<request, requestQueue>>
  PROVE  /\ \A c \in Cache : Asked(c)' = Asked(c)
         /\ RequestShape => RequestShape'
BY DEF Asked, RequestShape

\* No access moves at the memory.
LEMMA MemoryKept ==
  ASSUME UNCHANGED <<memRequest, memResponse>>
  PROVE  /\ \A c \in Cache : MemRead(c)' <=> MemRead(c)
         /\ MemoryShape /\ (dirState \in {"S_m", "M_m", "MI_m", "SS_m"} \/
                            dirState' \in {"S_m", "M_m", "MI_m", "SS_m"}
                              => dirState' = dirState)
              => MemoryShape'
BY DEF MemRead, MemoryShape

-----------------------------------------------------------------------------
(* The caches a step does not concern.                                     *)

\* Nothing of d's own changes, nor what is under way for it or to it, but for
\* the acknowledgements it gives.
Same(d) ==
  /\ cacheState'[d] = cacheState[d] /\ acks'[d] = acks[d]
  /\ Asked(d)' = Asked(d)
  /\ MemRead(d)' <=> MemRead(d)
  /\ PutAckTo(d)' <=> PutAckTo(d)
  /\ \A e \in Cache : /\ InvFor(d, e)' <=> InvFor(d, e)
                      /\ FwdS(d, e)' <=> FwdS(d, e)
                      /\ FwdM(d, e)' <=> FwdM(d, e)
                      /\ FwdS(e, d)' <=> FwdS(e, d)
                      /\ FwdM(e, d)' <=> FwdM(e, d)
  /\ \A k \in Node : Dat(k, d)' <=> Dat(k, d)
  /\ response'[<<Directory, d>>] = response[<<Directory, d>>]
  /\ Ackers(d)' = Ackers(d)

\* A cache that a step does not concern keeps its part in the protocol, ...
LEMMA SameRole ==
  ASSUME NEW d \in Cache, Same(d)
  PROVE  /\ WaitS(d)' <=> WaitS(d)
         /\ WaitM(d)' <=> WaitM(d)
         /\ WaitAcks(d)' <=> WaitAcks(d)
         /\ Evicting(d)' <=> Evicting(d)
         /\ Recalled(d)' <=> Recalled(d)
         /\ Exclusive(d)' <=> Exclusive(d)
         /\ Source(d)' <=> Source(d)
         /\ Promised(d)' <=> Promised(d)
         /\ Awaits(d)' <=> Awaits(d)
         /\ Holds(d)' <=> Holds(d)
<1>1. /\ WaitS(d)' <=> WaitS(d)
      /\ WaitM(d)' <=> WaitM(d)
      /\ WaitAcks(d)' <=> WaitAcks(d)
      /\ Evicting(d)' <=> Evicting(d)
  BY DEF Same, WaitS, WaitM, WaitAcks, Evicting
<1>2. Recalled(d)' <=> Recalled(d)
  BY DEF Same, Recalled
<1>3. Exclusive(d)' <=> Exclusive(d)
  BY <1>2 DEF Same, Exclusive
<1>4. Source(d)' <=> Source(d)
  BY <1>1, <1>3 DEF Same, Source
<1>5. Promised(d)' <=> Promised(d)
  BY <1>4 DEF Same, Promised
<1>6. Awaits(d)' <=> Awaits(d)
  BY <1>1, NodeFacts DEF Same, Awaits
<1>7. Holds(d)' <=> Holds(d)
  BY <1>1 DEF Same, Holds
<1> QED BY <1>1, <1>2, <1>3, <1>4, <1>5, <1>6, <1>7

\* What does not depend on the directory's entry.
LEMMA SameRequests ==
  ASSUME NEW d \in Cache, Same(d), AskedForBy(d), EvictionOf(d)
  PROVE  AskedForBy(d)' /\ EvictionOf(d)'
<1>1. AskedForBy(d)'
  BY SameRole DEF Same, AskedForBy
<1>2. EvictionOf(d)'
  BY SameRole DEF Same, EvictionOf
<1> QED BY <1>1, <1>2

\* ... the answers under way to it, if the entry says the same of it, ...
LEMMA SameGrants ==
  ASSUME NEW d \in Cache, Same(d), GrantsFor(d),
         MemRead(d) => /\ dirState' = dirState
                       /\ d \in owner' <=> d \in owner
                       /\ d \in sharers' <=> d \in sharers
  PROVE  GrantsFor(d)'
BY SameRole DEF Same, GrantsFor

\* ... whether the line is promised to it, ...
LEMMA SameOwnership ==
  ASSUME NEW d \in Cache, Same(d), OwnershipOf(d), d \in owner' <=> d \in owner
  PROVE  OwnershipOf(d)'
BY SameRole DEF OwnershipOf

\* ... the acknowledgements it waits for, ...
LEMMA SameAckCount ==
  ASSUME NEW d \in Cache, Same(d), AckCountOf(d), AcksAnnounced(d)' = AcksAnnounced(d)
  PROVE  AckCountOf(d)'
BY SameRole, NodeFacts DEF Same, AckCountOf

\* ... its place in entry.Sharers, ...
LEMMA SameSharer ==
  ASSUME NEW d \in Cache, Same(d), SharerHolds(d),
         d \in sharers' /\ dirState' # "M_m" =>
           d \in sharers /\ dirState # "M_m" /\ (AtHome => AtHome')
  PROVE  SharerHolds(d)'
BY SameRole DEF Same, SharerHolds

\* ... and its copy.
LEMMA SameCopy ==
  ASSUME NEW d \in Cache, Same(d), CopyTracked(d),
         AtHome /\ d \in sharers => AtHome' /\ d \in sharers'
  PROVE  CopyTracked(d)'
BY SameRole DEF Same, CopyTracked

\* A cache that a step of another cache does not concern.
LEMMA Bystander ==
  ASSUME ProtocolInv, NEW d \in Cache, Same(d),
         UNCHANGED <<dirState, sharers, owner>>, AtHome' <=> AtHome
  PROVE  /\ AskedForBy(d)' /\ EvictionOf(d)' /\ GrantsFor(d)' /\ OwnershipOf(d)'
         /\ SharerHolds(d)' /\ CopyTracked(d)' /\ AckCountOf(d)'
<1>i. /\ AskedForBy(d) /\ EvictionOf(d) /\ GrantsFor(d) /\ OwnershipOf(d)
      /\ SharerHolds(d) /\ CopyTracked(d) /\ AckCountOf(d)
  BY Parts
<1>1. AcksAnnounced(d)' = AcksAnnounced(d)
  BY DEF Same, AcksAnnounced
<1> QED BY <1>i, <1>1, SameRequests, SameGrants, SameOwnership, SameAckCount,
           SameSharer, SameCopy

\* The conjuncts that relate caches, when nobody's right to write changes.
LEMMA RightsKept ==
  ASSUME ProtocolInv, UNCHANGED <<dirState, sharers>>,
         \A d \in Cache : Source(d)' <=> Source(d),
         \A d, e \in Cache : (FwdS(d, e)' <=> FwdS(d, e)) /\ (FwdM(d, e)' <=> FwdM(d, e)),
         \A d \in Cache : Dat(d, Directory)' <=> Dat(d, Directory),
         \A d \in Cache : cacheState[d] = "MI_A" /\ Recalled(d) => cacheState'[d] = "MI_A"
  PROVE  OneSource' /\ NoCycle' /\ Downgrades'
<1>i. OneSource /\ NoCycle /\ Downgrades
  BY Parts
<1>1. OneSource'
  BY <1>i DEF OneSource
<1>2. NoCycle'
  BY <1>i DEF NoCycle
<1>3. Downgrades'
  <2>1. \A d, e \in Cache : FwdS(d, e) => Recalled(d)
    BY DEF Recalled
  <2> QED BY <1>i, <2>1 DEF Downgrades
<1> QED BY <1>1, <1>2, <1>3

-----------------------------------------------------------------------------
(* Steps of a cache.                                                       *)

\* A response arrives at c and only c's state and count change.
LEMMA ResponseTaken ==
  ASSUME ProtocolInv, NEW c \in Cache, NEW n \in Node,
         Arrives(c, n), response' = Popped(response, <<n, c>>),
         UNCHANGED <<request, forward>>, UNCHANGED dirVars,
         \A d \in Cache \ {c} : cacheState'[d] = cacheState[d] /\ acks'[d] = acks[d]
  PROVE  /\ \A d, e \in Cache : /\ InvFor(d, e)' <=> InvFor(d, e)
                                /\ FwdS(d, e)' <=> FwdS(d, e)
                                /\ FwdM(d, e)' <=> FwdM(d, e)
         /\ \A d \in Cache : /\ PutAckTo(d)' <=> PutAckTo(d)
                             /\ Asked(d)' = Asked(d)
                             /\ MemRead(d)' <=> MemRead(d)
                             /\ Dat(d, Directory)' <=> Dat(d, Directory)
         /\ \A a, b \in Node : /\ Dat(a, b)' <=> Dat(a, b) /\ ~(a = n /\ b = c)
                               /\ Ack(a, b)' <=> Ack(a, b) /\ ~(a = n /\ b = c)
         /\ AtHome' <=> AtHome
         /\ \A d \in Cache \ {c} : Same(d)
         /\ UNCHANGED <<dirState, sharers, owner>>
         /\ response'[<<n, c>>] = << >>
         /\ n # Directory => response'[<<Directory, c>>] = response[<<Directory, c>>]
         /\ ChannelShapes'
<1>i. TypeOK /\ ForwardShape /\ ResponseShape /\ RequestShape /\ MemoryShape
  BY Parts
<1>1. UNCHANGED <<dirState, sharers, owner, requestQueue, memRequest, memResponse>>
  BY DEF dirVars
<1>2. /\ \A d, e \in Cache : /\ InvFor(d, e)' <=> InvFor(d, e)
                             /\ FwdS(d, e)' <=> FwdS(d, e)
                             /\ FwdM(d, e)' <=> FwdM(d, e)
      /\ \A d \in Cache : /\ PutAckTo(d)' <=> PutAckTo(d)
                          /\ Asked(d)' = Asked(d)
                          /\ MemRead(d)' <=> MemRead(d)
      /\ ForwardShape' /\ RequestShape' /\ MemoryShape'
  BY <1>1, <1>i, ForwardKept, RequestsKept, MemoryKept
<1>3. /\ \A a, b \in Node :
              /\ Dat(a, b)' <=> Dat(a, b) /\ ~(a = n /\ b = c)
              /\ Ack(a, b)' <=> Ack(a, b) /\ ~(a = n /\ b = c)
              /\ ~(a = n /\ b = c) => response'[<<a, b>>] = response[<<a, b>>]
      /\ response'[<<n, c>>] = << >>
      /\ ResponseShape'
  <2>1. response[<<n, c>>] # << >> /\ c \in Node
    BY NodeFacts DEF Arrives
  <2> QED BY <1>i, <2>1, PopResponse
<1>4. \A d \in Cache : Dat(d, Directory)' <=> Dat(d, Directory)
  BY <1>3, NodeFacts
<1>5. AtHome' <=> AtHome
  BY <1>1, <1>4 DEF AtHome
<1>6. \A d \in Cache \ {c} : Ackers(d)' = Ackers(d)
  BY <1>2, <1>3, NodeFacts DEF Ackers
<1>7. \A d \in Cache \ {c} : Same(d)
  BY <1>2, <1>3, <1>6, NodeFacts DEF Same
<1> QED BY <1>1, <1>2, <1>3, <1>4, <1>5, <1>7, NodeFacts DEF ChannelShapes

\* The step of one cache, put together: what is left to show is about c.
LEMMA OneTouched ==
  ASSUME ProtocolInv, NEW c \in Cache,
         UNCHANGED <<dirState, sharers, owner>>, AtHome' <=> AtHome,
         \A d \in Cache \ {c} : Same(d),
         \A d, e \in Cache : (FwdS(d, e)' <=> FwdS(d, e)) /\ (FwdM(d, e)' <=> FwdM(d, e)),
         \A d \in Cache : Dat(d, Directory)' <=> Dat(d, Directory),
         Source(c)' <=> Source(c),
         cacheState[c] = "MI_A" /\ Recalled(c) => cacheState'[c] = "MI_A",
         ChannelShapes',
         \A d, e \in Cache : Invalidated(d, e)',
         AskedForBy(c)' /\ EvictionOf(c)' /\ GrantsFor(c)' /\ OwnershipOf(c)',
         SharerHolds(c)' /\ CopyTracked(c)' /\ AckCountOf(c)'
  PROVE  CoherenceInv'
<1>1. \A d \in Cache : /\ AskedForBy(d)' /\ EvictionOf(d)' /\ GrantsFor(d)' /\ OwnershipOf(d)'
                       /\ SharerHolds(d)' /\ CopyTracked(d)' /\ AckCountOf(d)'
  BY Bystander
<1>2. \A d \in Cache : Source(d)' <=> Source(d)
  BY SameRole
<1>3. \A d \in Cache : cacheState[d] = "MI_A" /\ Recalled(d) => cacheState'[d] = "MI_A"
  BY DEF Same
<1>4. OneSource' /\ NoCycle' /\ Downgrades'
  BY <1>2, <1>3, RightsKept
<1> QED BY <1>1, <1>4 DEF CoherenceInv, Transactions, WriteRight, Copies

\* A response from another cache than the directory, or the directory's data.
LEMMA ArrivalKinds ==
  ASSUME ProtocolInv, NEW c \in Cache, NEW n \in Node, Arrives(c, n)
  PROVE  /\ Event(c, n) \in {"DataDirNoAcks", "DataDirAcks", "DataOwner"} => Dat(n, c) /\ ~Ack(n, c)
         /\ Event(c, n) \in {"LastInvAck", "InvAck"} =>
              /\ Ack(n, c) /\ ~Dat(n, c) /\ n \in Cache
              /\ Event(c, n) = "LastInvAck" <=> acks[c] = 1
         /\ Event(c, n) \in {"DataDirNoAcks", "DataDirAcks"} => n = Directory
         /\ n = Directory =>
              /\ Head(response[<<n, c>>]).acks \in Nat
              /\ Event(c, n) \in {"DataDirNoAcks", "DataDirAcks"}
              /\ Event(c, n) = "DataDirNoAcks" <=> Head(response[<<n, c>>]).acks + acks[c] = 0
         /\ Event(c, n) \in {"DataDirNoAcks", "DataDirAcks", "DataOwner", "LastInvAck", "InvAck"}
         /\ acks[c] \in Int
<1>i. TypeOK /\ ResponseShape
  BY Parts
<1>1. /\ Dat(n, c) \/ Ack(n, c)
      /\ ~(Dat(n, c) /\ Ack(n, c))
      /\ Head(response[<<n, c>>]) \in ResponseMsg
  BY <1>i, NodeFacts, ResponseKinds DEF Arrives
<1>2. acks[c] \in Int /\ Head(response[<<n, c>>]).acks \in Nat
  BY <1>i, <1>1 DEF TypeOK, CacheTypeOK, ResponseMsg
<1>3. CASE n = Directory
  <2>1. Dat(n, c)
    BY <1>1, <1>3, <1>i, NodeFacts DEF ResponseShape
  <2> QED BY <1>1, <1>2, <1>3, <2>1 DEF Event, ResponseEvent
<1>4. CASE n # Directory
  <2>1. n \in Cache
    BY <1>4 DEF Node
  <2>2. Event(c, n) = IF Dat(n, c) THEN "DataOwner"
                      ELSE IF acks[c] = 1 THEN "LastInvAck" ELSE "InvAck"
    BY <1>1, <1>4 DEF Event, ResponseEvent, Dat, Ack, Arrives
  <2> QED BY <1>1, <1>2, <1>4, <2>1, <2>2
<1> QED BY <1>3, <1>4

\* transition({IM_AD, SM_AD}, {DataDirNoAcks, DataOwner}, M).
LEMMA StoreDoneByData ==
  ASSUME ProtocolInv, NEW c \in Cache, NEW n \in Node, NEW v \in Value,
         StoreDone(c, n, v), WaitM(c), UNCHANGED dirVars
  PROVE  CoherenceInv'
<1>i. /\ TypeOK
      /\ \A d \in Cache : /\ AskedForBy(d) /\ EvictionOf(d) /\ GrantsFor(d)
                          /\ OwnershipOf(d)
                          /\ SharerHolds(d) /\ CopyTracked(d) /\ AckCountOf(d)
      /\ \A d, e \in Cache : Invalidated(d, e)
      /\ OneSource
  BY Parts
<1>1. /\ Arrives(c, n) /\ response' = Popped(response, <<n, c>>)
      /\ Event(c, n) \in {"DataDirNoAcks", "DataOwner"}
      /\ UNCHANGED <<request, forward>>
      /\ cacheState'[c] = "M" /\ acks'[c] = 0
      /\ \A d \in Cache \ {c} : cacheState'[d] = cacheState[d] /\ acks'[d] = acks[d]
  BY <1>i, Modes DEF StoreDone, WaitM, WaitAcks, Completed, TypeOK, CacheTypeOK
<1>2. Dat(n, c) /\ ~Ack(n, c)
  BY <1>1, ArrivalKinds
<1>3. /\ Asked(c) = {} /\ ~MemRead(c) /\ n # c
      /\ \A k \in Node : Dat(k, c) => k = n
      /\ \A d \in Cache : ~FwdS(d, c) /\ ~FwdM(d, c)
      /\ Source(c)
  BY <1>2, <1>i DEF GrantsFor, Source
<1>4. \A d \in Cache : ~InvFor(d, c) /\ ~Ack(d, c)
  <2>1. CASE n = Directory
    <3>1. /\ Head(response[<<n, c>>]).acks \in Nat /\ acks[c] \in Int
          /\ Head(response[<<n, c>>]).acks + acks[c] = 0
      BY <1>1, <2>1, ArrivalKinds
    <3>2. acks[c] + Head(response[<<n, c>>]).acks = Cardinality(Ackers(c))
      BY <1>1, <1>i, <2>1 DEF AckCountOf, AcksAnnounced, Arrives
    <3>3. Cardinality(Ackers(c)) = 0
      BY <3>1, <3>2
    <3> QED BY <3>3, AckersFinite
  <2>2. CASE n # Directory
    <3>1. ~Awaits(c)
      BY <1>3, <1>i, <2>2, Modes, NodeFacts DEF Awaits
    <3> QED BY <3>1, <1>i DEF Invalidated
  <2> QED BY <2>1, <2>2
<1>5. /\ \A d, e \in Cache : /\ InvFor(d, e)' <=> InvFor(d, e)
                             /\ FwdS(d, e)' <=> FwdS(d, e)
                             /\ FwdM(d, e)' <=> FwdM(d, e)
      /\ \A d \in Cache : /\ PutAckTo(d)' <=> PutAckTo(d)
                          /\ Asked(d)' = Asked(d)
                          /\ MemRead(d)' <=> MemRead(d)
                          /\ Dat(d, Directory)' <=> Dat(d, Directory)
      /\ \A a, b \in Node : /\ Dat(a, b)' <=> Dat(a, b) /\ ~(a = n /\ b = c)
                            /\ Ack(a, b)' <=> Ack(a, b) /\ ~(a = n /\ b = c)
      /\ AtHome' <=> AtHome
      /\ \A d \in Cache \ {c} : Same(d)
      /\ UNCHANGED <<dirState, sharers, owner>>
      /\ ChannelShapes'
  BY <1>1, ResponseTaken
<1>6. /\ ~WaitM(c)' /\ \A k \in Node : ~Dat(k, c)'
      /\ Source(c)' /\ ~Holds(c)' /\ ~Awaits(c)'
  BY <1>1, <1>3, <1>5, NodeFacts
  DEF WaitM, WaitS, WaitAcks, Source, Exclusive, Holds, Awaits
<1>7. AskedForBy(c)' /\ EvictionOf(c)'
  BY <1>1, <1>3, <1>5, <1>i DEF AskedForBy, EvictionOf, Evicting, WaitM
<1>8. GrantsFor(c)'
  BY <1>3, <1>5, <1>6 DEF GrantsFor
<1>9. OwnershipOf(c)'
  BY <1>3, <1>5, <1>6, <1>i DEF OwnershipOf, Promised, Recalled
<1>10. SharerHolds(c)'
  BY <1>3, <1>5, <1>i, NoPromise DEF SharerHolds
<1>11. CopyTracked(c)'
  BY <1>6 DEF CopyTracked
<1>12. AckCountOf(c)'
  BY <1>1 DEF AckCountOf, WaitAcks, WaitM, WaitS
<1>13. ASSUME NEW d \in Cache, NEW e \in Cache PROVE Invalidated(d, e)'
  <2>1. CASE e = c
    BY <1>4, <1>5, <2>1, NodeFacts DEF Invalidated
  <2>2. CASE d = c /\ e # c
    <3>1. ~InvFor(c, e)
      BY <1>3, <1>i, <2>2, AwaitsSource DEF Invalidated, OneSource
    <3> QED BY <1>5, <1>i, <2>2, <3>1, SameRole, NodeFacts DEF Invalidated
  <2>3. CASE d # c /\ e # c
    BY <1>1, <1>5, <1>i, <2>3, SameRole, NodeFacts DEF Invalidated
  <2> QED BY <2>1, <2>2, <2>3
<1>14. Source(c)' <=> Source(c)
  BY <1>3, <1>6
<1>15. cacheState[c] # "MI_A"
  BY DEF WaitM
<1> QED BY <1>5, <1>7, <1>8, <1>9, <1>10, <1>11, <1>12, <1>13, <1>14, <1>15, OneTouched

\* transition(IS_D, {DataDirNoAcks, DataOwner}, S).
LEMMA LoadDoneKeeps ==
  ASSUME ProtocolInv, NEW c \in Cache, NEW n \in Node, LoadDone(c, n), UNCHANGED dirVars
  PROVE  CoherenceInv'
<1>i. /\ TypeOK
      /\ \A d \in Cache : /\ AskedForBy(d) /\ EvictionOf(d) /\ GrantsFor(d)
                          /\ OwnershipOf(d)
                          /\ SharerHolds(d) /\ CopyTracked(d) /\ AckCountOf(d)
      /\ \A d, e \in Cache : Invalidated(d, e)
  BY Parts
<1>1. /\ Arrives(c, n) /\ response' = Popped(response, <<n, c>>)
      /\ Event(c, n) \in {"DataDirNoAcks", "DataOwner"}
      /\ UNCHANGED <<request, forward>>
      /\ cacheState[c] = "IS_D" /\ cacheState'[c] = "S" /\ acks'[c] = 0
      /\ \A d \in Cache \ {c} : cacheState'[d] = cacheState[d] /\ acks'[d] = acks[d]
  BY <1>i DEF LoadDone, Completed, TypeOK, CacheTypeOK
<1>2. Dat(n, c) /\ ~Ack(n, c)
  BY <1>1, ArrivalKinds
<1>3. /\ Asked(c) = {} /\ ~MemRead(c) /\ n # c
      /\ \A k \in Node : Dat(k, c) => k = n
      /\ \A d \in Cache : ~FwdS(d, c) /\ ~FwdM(d, c)
      /\ ~Source(c) /\ ~Promised(c) /\ ~Recalled(c) /\ c \notin owner
      /\ Holds(c) /\ ~Awaits(c)
  BY <1>1, <1>2, <1>i, NoLoaderPromised
  DEF GrantsFor, WaitS, Holds, Awaits, WaitM, WaitAcks
<1>5. /\ \A d, e \in Cache : /\ InvFor(d, e)' <=> InvFor(d, e)
                             /\ FwdS(d, e)' <=> FwdS(d, e)
                             /\ FwdM(d, e)' <=> FwdM(d, e)
      /\ \A d \in Cache : /\ PutAckTo(d)' <=> PutAckTo(d)
                          /\ Asked(d)' = Asked(d)
                          /\ MemRead(d)' <=> MemRead(d)
                          /\ Dat(d, Directory)' <=> Dat(d, Directory)
      /\ \A a, b \in Node : /\ Dat(a, b)' <=> Dat(a, b) /\ ~(a = n /\ b = c)
                            /\ Ack(a, b)' <=> Ack(a, b) /\ ~(a = n /\ b = c)
      /\ AtHome' <=> AtHome
      /\ \A d \in Cache \ {c} : Same(d)
      /\ UNCHANGED <<dirState, sharers, owner>>
      /\ ChannelShapes'
  BY <1>1, ResponseTaken
<1>6. /\ ~WaitS(c)' /\ ~WaitM(c)' /\ \A k \in Node : ~Dat(k, c)'
      /\ ~Source(c)' /\ ~Promised(c)' /\ Holds(c)' /\ ~Awaits(c)'
  <2>1. ~WaitS(c)' /\ ~WaitM(c)' /\ ~WaitAcks(c)' /\ ~Exclusive(c)' /\ Holds(c)'
    BY <1>1 DEF WaitS, WaitM, WaitAcks, Exclusive, Holds
  <2>2. \A k \in Node : ~Dat(k, c)'
    BY <1>3, <1>5, NodeFacts
  <2> QED BY <1>3, <1>5, <2>1, <2>2 DEF Source, Promised, Awaits
<1>7. AskedForBy(c)' /\ EvictionOf(c)'
  BY <1>1, <1>3, <1>5, <1>i DEF AskedForBy, EvictionOf, Evicting
<1>8. GrantsFor(c)'
  BY <1>3, <1>5, <1>6 DEF GrantsFor
<1>9. OwnershipOf(c)'
  BY <1>3, <1>5, <1>6 DEF OwnershipOf, Recalled
<1>10. SharerHolds(c)'
  BY <1>3, <1>5, <1>6, <1>i DEF SharerHolds
<1>11. CopyTracked(c)'
  BY <1>3, <1>5, <1>6, <1>i DEF CopyTracked
<1>12. AckCountOf(c)'
  BY <1>1 DEF AckCountOf, WaitAcks, WaitM, WaitS
<1>13. ASSUME NEW d \in Cache, NEW e \in Cache PROVE Invalidated(d, e)'
  <2>1. CASE e = c
    <3>1. ~InvFor(d, c) /\ ~Ack(d, c)
      BY <1>3, <1>i DEF Invalidated
    <3> QED BY <1>5, <2>1, <3>1, NodeFacts DEF Invalidated
  <2>2. CASE d = c /\ e # c
    BY <1>5, <1>6, <1>i, <2>2, SameRole, NodeFacts DEF Invalidated
  <2>3. CASE d # c /\ e # c
    BY <1>1, <1>5, <1>i, <2>3, SameRole, NodeFacts DEF Invalidated
  <2> QED BY <2>1, <2>2, <2>3
<1>14. Source(c)' <=> Source(c)
  BY <1>3, <1>6
<1> QED BY <1>1, <1>5, <1>7, <1>8, <1>9, <1>10, <1>11, <1>12, <1>13, <1>14, OneTouched

\* transition({IM_A, SM_A}, LastInvAck, M).
LEMMA StoreDoneByAcks ==
  ASSUME ProtocolInv, NEW c \in Cache, NEW n \in Node, NEW v \in Value,
         StoreDone(c, n, v), WaitAcks(c), UNCHANGED dirVars
  PROVE  CoherenceInv'
<1>i. /\ TypeOK
      /\ \A d \in Cache : /\ AskedForBy(d) /\ EvictionOf(d) /\ GrantsFor(d)
                          /\ OwnershipOf(d)
                          /\ SharerHolds(d) /\ CopyTracked(d) /\ AckCountOf(d)
      /\ \A d, e \in Cache : Invalidated(d, e)
  BY Parts
<1>1. /\ Arrives(c, n) /\ response' = Popped(response, <<n, c>>)
      /\ Event(c, n) = "LastInvAck"
      /\ UNCHANGED <<request, forward>>
      /\ cacheState'[c] = "M" /\ acks'[c] = 0
      /\ \A d \in Cache \ {c} : cacheState'[d] = cacheState[d] /\ acks'[d] = acks[d]
  BY <1>i, Modes DEF StoreDone, WaitM, WaitAcks, Completed, TypeOK, CacheTypeOK
<1>2. Ack(n, c) /\ ~Dat(n, c) /\ acks[c] = 1 /\ n \in Cache
  BY <1>1, ArrivalKinds
<1>3. /\ Asked(c) = {} /\ ~MemRead(c) /\ ~PutAckTo(c)
      /\ \A k \in Node : ~Dat(k, c)
      /\ \A d \in Cache : ~FwdS(d, c) /\ ~FwdM(d, c)
      /\ Source(c) /\ ~Holds(c)
  BY <1>i, Settled, Modes DEF Source, WaitAcks, Holds, WaitS
<1>4. \A d \in Cache : ~InvFor(d, c) /\ (Ack(d, c) => d = n)
  <2>1. Cardinality(Ackers(c)) = 1
    BY <1>2, <1>i DEF AckCountOf
  <2>2. PICK k : Ackers(c) = {k}
    BY <2>1, AckersFinite, FS_Singleton
  <2>3. n \in Ackers(c)
    BY <1>2 DEF Ackers
  <2>4. ~InvFor(n, c)
    BY <1>2, <1>i DEF Invalidated
  <2> QED BY <2>2, <2>3, <2>4 DEF Ackers
<1>5. /\ \A d, e \in Cache : /\ InvFor(d, e)' <=> InvFor(d, e)
                             /\ FwdS(d, e)' <=> FwdS(d, e)
                             /\ FwdM(d, e)' <=> FwdM(d, e)
      /\ \A d \in Cache : /\ PutAckTo(d)' <=> PutAckTo(d)
                          /\ Asked(d)' = Asked(d)
                          /\ MemRead(d)' <=> MemRead(d)
                          /\ Dat(d, Directory)' <=> Dat(d, Directory)
      /\ \A a, b \in Node : /\ Dat(a, b)' <=> Dat(a, b) /\ ~(a = n /\ b = c)
                            /\ Ack(a, b)' <=> Ack(a, b) /\ ~(a = n /\ b = c)
      /\ AtHome' <=> AtHome
      /\ \A d \in Cache \ {c} : Same(d)
      /\ UNCHANGED <<dirState, sharers, owner>>
      /\ ChannelShapes'
  BY <1>1, ResponseTaken
<1>6. /\ ~WaitM(c)' /\ \A k \in Node : ~Dat(k, c)'
      /\ Source(c)' /\ ~Holds(c)' /\ ~Awaits(c)'
  BY <1>1, <1>3, <1>5, NodeFacts
  DEF WaitM, WaitS, WaitAcks, Source, Exclusive, Holds, Awaits
<1>7. AskedForBy(c)' /\ EvictionOf(c)'
  BY <1>1, <1>3, <1>5 DEF AskedForBy, EvictionOf, Evicting
<1>8. GrantsFor(c)'
  BY <1>3, <1>5, <1>6 DEF GrantsFor
<1>9. OwnershipOf(c)'
  BY <1>3, <1>5, <1>6, <1>i DEF OwnershipOf, Promised, Recalled
<1>10. SharerHolds(c)'
  BY <1>3, <1>5, <1>i, NoPromise DEF SharerHolds
<1>11. CopyTracked(c)'
  BY <1>6 DEF CopyTracked
<1>12. AckCountOf(c)'
  BY <1>1 DEF AckCountOf, WaitAcks, WaitM, WaitS
<1>13. ASSUME NEW d \in Cache, NEW e \in Cache PROVE Invalidated(d, e)'
  <2>1. CASE e = c
    BY <1>4, <1>5, <2>1, NodeFacts DEF Invalidated
  <2>2. CASE d = c /\ e # c
    <3>1. ~InvFor(c, e)
      BY <1>3, <1>i, <2>2 DEF Invalidated, WaitAcks
    <3> QED BY <1>5, <1>i, <2>2, <3>1, SameRole, NodeFacts DEF Invalidated
  <2>3. CASE d # c /\ e # c
    BY <1>1, <1>5, <1>i, <2>3, SameRole, NodeFacts DEF Invalidated
  <2> QED BY <2>1, <2>2, <2>3
<1>14. Source(c)' <=> Source(c)
  BY <1>3, <1>6
<1>15. cacheState[c] # "MI_A"
  BY DEF WaitAcks
<1> QED BY <1>5, <1>7, <1>8, <1>9, <1>10, <1>11, <1>12, <1>13, <1>14, <1>15, OneTouched

\* transition(IM_AD, DataDirAcks, IM_A) and transition(SM_AD, DataDirAcks, SM_A).
LEMMA StoreDataKeeps ==
  ASSUME ProtocolInv, NEW c \in Cache, NEW n \in Node, StoreData(c, n), UNCHANGED dirVars
  PROVE  CoherenceInv'
<1>i. /\ TypeOK
      /\ \A d \in Cache : /\ AskedForBy(d) /\ EvictionOf(d) /\ GrantsFor(d)
                          /\ OwnershipOf(d)
                          /\ SharerHolds(d) /\ CopyTracked(d) /\ AckCountOf(d)
      /\ \A d, e \in Cache : Invalidated(d, e)
      /\ OneSource
  BY Parts
<1>1. /\ Arrives(c, n) /\ response' = Popped(response, <<n, c>>)
      /\ Event(c, n) = "DataDirAcks"
      /\ UNCHANGED <<request, forward>>
      /\ cacheState'[c] \in {"IM_A", "SM_A"} /\ WaitM(c)
      /\ acks' = [acks EXCEPT ![c] = @ + Head(response[<<n, c>>]).acks]
      /\ \A d \in Cache \ {c} : cacheState'[d] = cacheState[d] /\ acks'[d] = acks[d]
  BY <1>i DEF StoreData, WaitM, TypeOK, CacheTypeOK
<1>2. /\ Dat(n, c) /\ ~Ack(n, c) /\ n = Directory
      /\ Head(response[<<n, c>>]).acks \in Nat /\ acks[c] \in Int
      /\ Head(response[<<n, c>>]).acks + acks[c] # 0
      /\ acks'[c] = acks[c] + Head(response[<<n, c>>]).acks
  BY <1>1, <1>i, ArrivalKinds DEF TypeOK, CacheTypeOK
<1>3. /\ Asked(c) = {} /\ ~MemRead(c) /\ n # c
      /\ \A k \in Node : Dat(k, c) => k = n
      /\ \A d \in Cache : ~FwdS(d, c) /\ ~FwdM(d, c)
      /\ Source(c)
  BY <1>1, <1>2, <1>i DEF GrantsFor, Source
<1>5. /\ \A d, e \in Cache : /\ InvFor(d, e)' <=> InvFor(d, e)
                             /\ FwdS(d, e)' <=> FwdS(d, e)
                             /\ FwdM(d, e)' <=> FwdM(d, e)
      /\ \A d \in Cache : /\ PutAckTo(d)' <=> PutAckTo(d)
                          /\ Asked(d)' = Asked(d)
                          /\ MemRead(d)' <=> MemRead(d)
                          /\ Dat(d, Directory)' <=> Dat(d, Directory)
      /\ \A a, b \in Node : /\ Dat(a, b)' <=> Dat(a, b) /\ ~(a = n /\ b = c)
                            /\ Ack(a, b)' <=> Ack(a, b) /\ ~(a = n /\ b = c)
      /\ AtHome' <=> AtHome
      /\ \A d \in Cache \ {c} : Same(d)
      /\ UNCHANGED <<dirState, sharers, owner>>
      /\ ChannelShapes'
  BY <1>1, ResponseTaken
<1>6. /\ ~WaitS(c)' /\ ~WaitM(c)' /\ WaitAcks(c)' /\ ~Evicting(c)'
      /\ \A k \in Node : ~Dat(k, c)'
      /\ Source(c)' /\ ~Holds(c)' /\ Awaits(c)'
  BY <1>1, <1>3, <1>5, NodeFacts
  DEF WaitM, WaitS, WaitAcks, Source, Exclusive, Holds, Awaits, Evicting
<1>7. AskedForBy(c)' /\ EvictionOf(c)'
  BY <1>1, <1>3, <1>5, <1>6, <1>i, Modes DEF AskedForBy, EvictionOf
<1>8. GrantsFor(c)'
  BY <1>3, <1>5, <1>6 DEF GrantsFor
<1>9. OwnershipOf(c)'
  BY <1>3, <1>5, <1>6, <1>i DEF OwnershipOf, Promised, Recalled
<1>10. SharerHolds(c)'
  BY <1>3, <1>5, <1>i, NoPromise DEF SharerHolds
<1>11. CopyTracked(c)'
  BY <1>6 DEF CopyTracked
<1>12. AckCountOf(c)'
  <2>1. acks[c] + Head(response[<<n, c>>]).acks = Cardinality(Ackers(c))
    BY <1>1, <1>2, <1>i DEF AckCountOf, AcksAnnounced, Arrives
  <2>2. Ackers(c)' = Ackers(c)
    BY <1>2, <1>5, NodeFacts DEF Ackers
  <2>3. acks'[c] = Cardinality(Ackers(c)) /\ acks'[c] > 0
    BY <1>2, <2>1, AckersFinite
  <2> QED BY <1>6, <2>2, <2>3 DEF AckCountOf
<1>13. ASSUME NEW d \in Cache, NEW e \in Cache PROVE Invalidated(d, e)'
  <2>1. CASE e = c
    <3>1. d # c => (Holds(d)' <=> Holds(d)) /\ cacheState'[d] = cacheState[d]
      BY <1>1, <1>5, SameRole
    <3> QED BY <1>2, <1>5, <1>6, <1>i, <2>1, <3>1, NodeFacts DEF Invalidated
  <2>2. CASE d = c /\ e # c
    <3>1. ~InvFor(c, e)
      BY <1>3, <1>i, <2>2, AwaitsSource DEF Invalidated, OneSource
    <3> QED BY <1>5, <1>i, <2>2, <3>1, SameRole, NodeFacts DEF Invalidated
  <2>3. CASE d # c /\ e # c
    BY <1>1, <1>5, <1>i, <2>3, SameRole, NodeFacts DEF Invalidated
  <2> QED BY <2>1, <2>2, <2>3
<1>14. Source(c)' <=> Source(c)
  BY <1>3, <1>6
<1>15. cacheState[c] # "MI_A"
  BY <1>1 DEF WaitM
<1> QED BY <1>5, <1>7, <1>8, <1>9, <1>10, <1>11, <1>12, <1>13, <1>14, <1>15, OneTouched

\* transition({IM_AD, IM_A, SM_AD, SM_A}, InvAck).
LEMMA CountInvAckKeeps ==
  ASSUME ProtocolInv, NEW c \in Cache, NEW n \in Node, CountInvAck(c, n), UNCHANGED dirVars
  PROVE  CoherenceInv'
<1>i. /\ TypeOK
      /\ \A d \in Cache : /\ AskedForBy(d) /\ EvictionOf(d) /\ GrantsFor(d)
                          /\ OwnershipOf(d)
                          /\ SharerHolds(d) /\ CopyTracked(d) /\ AckCountOf(d)
      /\ \A d, e \in Cache : Invalidated(d, e)
  BY Parts
<1>1. /\ Arrives(c, n) /\ response' = Popped(response, <<n, c>>)
      /\ Event(c, n) = "InvAck"
      /\ UNCHANGED <<request, forward, cacheState>>
      /\ WaitM(c) \/ WaitAcks(c)
      /\ acks' = [acks EXCEPT ![c] = @ - 1]
      /\ \A d \in Cache \ {c} : cacheState'[d] = cacheState[d] /\ acks'[d] = acks[d]
  BY <1>i DEF CountInvAck, WaitM, WaitAcks, TypeOK, CacheTypeOK
<1>2. /\ Ack(n, c) /\ ~Dat(n, c) /\ acks[c] # 1 /\ n \in Cache
      /\ acks[c] \in Int /\ acks'[c] = acks[c] - 1
  BY <1>1, <1>i, ArrivalKinds DEF TypeOK, CacheTypeOK
<1>5. /\ \A d, e \in Cache : /\ InvFor(d, e)' <=> InvFor(d, e)
                             /\ FwdS(d, e)' <=> FwdS(d, e)
                             /\ FwdM(d, e)' <=> FwdM(d, e)
      /\ \A d \in Cache : /\ PutAckTo(d)' <=> PutAckTo(d)
                          /\ Asked(d)' = Asked(d)
                          /\ MemRead(d)' <=> MemRead(d)
                          /\ Dat(d, Directory)' <=> Dat(d, Directory)
      /\ \A a, b \in Node : /\ Dat(a, b)' <=> Dat(a, b) /\ ~(a = n /\ b = c)
                            /\ Ack(a, b)' <=> Ack(a, b) /\ ~(a = n /\ b = c)
      /\ AtHome' <=> AtHome
      /\ \A d \in Cache \ {c} : Same(d)
      /\ UNCHANGED <<dirState, sharers, owner>>
      /\ n # Directory => response'[<<Directory, c>>] = response[<<Directory, c>>]
      /\ ChannelShapes'
  BY <1>1, ResponseTaken
<1>6. /\ WaitS(c)' <=> WaitS(c)
      /\ WaitM(c)' <=> WaitM(c)
      /\ WaitAcks(c)' <=> WaitAcks(c)
      /\ Evicting(c)' <=> Evicting(c)
      /\ \A k \in Node : Dat(k, c)' <=> Dat(k, c)
  BY <1>1, <1>2, <1>5, NodeFacts DEF WaitS, WaitM, WaitAcks, Evicting
<1>7. /\ Recalled(c)' <=> Recalled(c)
      /\ Exclusive(c)' <=> Exclusive(c)
      /\ Source(c)' <=> Source(c)
      /\ Promised(c)' <=> Promised(c)
      /\ Awaits(c)' <=> Awaits(c)
      /\ Holds(c)' <=> Holds(c)
  <2>1. Recalled(c)' <=> Recalled(c)
    BY <1>5 DEF Recalled
  <2>2. Exclusive(c)' <=> Exclusive(c)
    BY <1>1, <1>5, <2>1 DEF Exclusive
  <2>3. Source(c)' <=> Source(c)
    BY <1>5, <1>6, <2>2 DEF Source
  <2>4. Promised(c)' <=> Promised(c)
    BY <1>5, <2>3 DEF Promised
  <2>5. Awaits(c)' <=> Awaits(c)
    BY <1>5, <1>6, NodeFacts DEF Awaits
  <2>6. Holds(c)' <=> Holds(c)
    BY <1>1, <1>6 DEF Holds
  <2> QED BY <2>1, <2>2, <2>3, <2>4, <2>5, <2>6
<1>8. AskedForBy(c)' /\ EvictionOf(c)'
  BY <1>1, <1>5, <1>6, <1>i DEF AskedForBy, EvictionOf
<1>9. GrantsFor(c)'
  BY <1>5, <1>6, <1>i DEF GrantsFor
<1>10. OwnershipOf(c)'
  BY <1>5, <1>7, <1>i DEF OwnershipOf
<1>11. SharerHolds(c)'
  BY <1>1, <1>5, <1>7, <1>i DEF SharerHolds
<1>12. CopyTracked(c)'
  BY <1>5, <1>7, <1>i DEF CopyTracked
<1>13. AckCountOf(c)'
  <2>1. Ackers(c)' = Ackers(c) \ {n}
    BY <1>2, <1>5, <1>i, NodeFacts DEF Ackers, Invalidated
  <2>2. n \in Ackers(c)
    BY <1>2 DEF Ackers
  <2>3. Cardinality(Ackers(c)') = Cardinality(Ackers(c)) - 1
    BY <2>1, <2>2, AckersFinite, FS_RemoveElement
  <2>4. AcksAnnounced(c)' = AcksAnnounced(c) /\ AcksAnnounced(c) \in Int
    <3>1. AcksAnnounced(c)' = AcksAnnounced(c)
      BY <1>2, <1>5, NodeFacts DEF AcksAnnounced
    <3>2. Cardinality(sharers) \in Nat
      BY <1>i, NodeAssumption, FS_Subset, FS_CardinalityType DEF TypeOK, DirTypeOK
    <3>3. response[<<Directory, c>>] # << >> => Head(response[<<Directory, c>>]).acks \in Nat
      BY ArrivalKinds, NodeFacts DEF Arrives
    <3> QED BY <3>1, <3>2, <3>3 DEF AcksAnnounced
  <2>5. WaitAcks(c) => acks'[c] = Cardinality(Ackers(c)') /\ acks'[c] > 0
    <3>1. WaitAcks(c) => acks[c] = Cardinality(Ackers(c)) /\ acks[c] > 0
      BY <1>i DEF AckCountOf
    <3> QED BY <1>2, <2>3, <3>1
  <2>6. WaitM(c) => /\ acks'[c] <= 0
                    /\ acks'[c] + AcksAnnounced(c) = Cardinality(Ackers(c)')
    <3>1. WaitM(c) => /\ acks[c] <= 0
                      /\ acks[c] + AcksAnnounced(c) = Cardinality(Ackers(c))
      BY <1>i DEF AckCountOf
    <3> QED BY <1>2, <2>3, <2>4, <3>1
  <2> QED BY <1>1, <1>6, <1>i, <2>4, <2>5, <2>6, Modes DEF AckCountOf
<1>14. ASSUME NEW d \in Cache, NEW e \in Cache PROVE Invalidated(d, e)'
  <2>1. /\ Holds(d)' <=> Holds(d)
        /\ Awaits(e)' <=> Awaits(e)
    BY <1>5, <1>7, SameRole
  <2>2. cacheState'[d] = cacheState[d]
    BY <1>1
  <2> QED BY <1>5, <1>i, <2>1, <2>2, NodeFacts DEF Invalidated
<1>15. cacheState[c] # "MI_A"
  BY <1>1 DEF WaitM, WaitAcks
<1> QED BY <1>5, <1>7, <1>8, <1>9, <1>10, <1>11, <1>12, <1>13, <1>14, <1>15, OneTouched

\* The transitions of the mandatory queue that send a request.
Requesting(c, from, to, type) ==
  /\ cacheState[c] = from
  /\ cacheState' = [cacheState EXCEPT ![c] = to]
  /\ <<from, to, type>> \in {<<"I", "IS_D", "GetS">>, <<"I", "IM_AD", "GetM">>,
                             <<"S", "SM_AD", "GetM">>, <<"S", "SI_A", "PutS">>,
                             <<"M", "MI_A", "PutM">>}

\* A cache with nothing under way sends a request and waits for the answer.
LEMMA AskKeeps ==
  ASSUME ProtocolInv, NEW c \in Cache, NEW m \in RequestMsg, m.requestor = c,
         NEW from, NEW to, Requesting(c, from, to, m.type),
         request' = Sent(request, c, m),
         acks' = acks \/ acks' = [acks EXCEPT ![c] = 0],
         UNCHANGED <<forward, response>>, UNCHANGED dirVars
  PROVE  CoherenceInv'
<1>i. /\ TypeOK /\ ForwardShape /\ ResponseShape /\ RequestShape /\ MemoryShape
      /\ \A d \in Cache : /\ AskedForBy(d) /\ EvictionOf(d) /\ GrantsFor(d)
                          /\ OwnershipOf(d)
                          /\ SharerHolds(d) /\ CopyTracked(d) /\ AckCountOf(d)
      /\ \A d, e \in Cache : Invalidated(d, e)
  BY Parts
<1>t. \/ cacheState[c] = "I" /\ cacheState'[c] = "IS_D" /\ m.type = "GetS"
      \/ cacheState[c] = "I" /\ cacheState'[c] = "IM_AD" /\ m.type = "GetM"
      \/ cacheState[c] = "S" /\ cacheState'[c] = "SM_AD" /\ m.type = "GetM"
      \/ cacheState[c] = "S" /\ cacheState'[c] = "SI_A" /\ m.type = "PutS"
      \/ cacheState[c] = "M" /\ cacheState'[c] = "MI_A" /\ m.type = "PutM"
  BY <1>i DEF Requesting, TypeOK, CacheTypeOK
<1>1. ~WaitS(c) /\ ~WaitM(c) /\ ~Evicting(c) /\ ~WaitAcks(c) /\ ~Awaits(c)
  BY <1>t DEF WaitS, WaitM, Evicting, WaitAcks, Awaits
<1>2. /\ acks'[c] = 0 /\ acks[c] = 0
      /\ \A d \in Cache \ {c} : cacheState'[d] = cacheState[d] /\ acks'[d] = acks[d]
  BY <1>1, <1>i DEF Requesting, TypeOK, CacheTypeOK, AckCountOf
<1>3. /\ Asked(c) = {} /\ ~PutAckTo(c) /\ ~MemRead(c)
      /\ \A d \in Cache : ~FwdS(d, c) /\ ~FwdM(d, c)
      /\ \A n \in Node : ~Dat(n, c)
      /\ \A d \in Cache : ~InvFor(d, c) /\ ~Ack(d, c)
  BY <1>1, <1>i, Settled DEF Invalidated
<1>4. /\ UNCHANGED <<dirState, sharers, owner, requestQueue, memRequest, memResponse>>
      /\ \A d, e \in Cache : /\ InvFor(d, e)' <=> InvFor(d, e)
                             /\ FwdS(d, e)' <=> FwdS(d, e)
                             /\ FwdM(d, e)' <=> FwdM(d, e)
      /\ \A d \in Cache : PutAckTo(d)' <=> PutAckTo(d)
      /\ \A n, k \in Node : /\ Dat(n, k)' <=> Dat(n, k)
                            /\ Ack(n, k)' <=> Ack(n, k)
                            /\ response'[<<n, k>>] = response[<<n, k>>]
      /\ \A d \in Cache : MemRead(d)' <=> MemRead(d)
      /\ Asked(c)' = {m}
      /\ \A d \in Cache \ {c} : Asked(d)' = Asked(d)
      /\ ChannelShapes'
  BY <1>3, <1>i, ForwardKept, ResponseKept, SendRequest, MemoryKept
  DEF dirVars, ChannelShapes
<1>5. /\ \A d \in Cache : Dat(d, Directory)' <=> Dat(d, Directory)
      /\ AtHome' <=> AtHome
      /\ \A d \in Cache : Ackers(d)' = Ackers(d)
  BY <1>4, NodeFacts DEF AtHome, Ackers
<1>6. \A d \in Cache \ {c} : Same(d)
  BY <1>2, <1>4, <1>5, NodeFacts DEF Same
<1>7. Recalled(c)' <=> Recalled(c)
  BY <1>4 DEF Recalled
<1>8. /\ Source(c)' <=> Source(c)
      /\ Promised(c)' <=> Promised(c)
  <2>1. Exclusive(c)' <=> Exclusive(c)
    BY <1>t, <1>3, <1>4 DEF Exclusive
  <2>2. ~MemRead(c)' /\ \A n \in Node : ~Dat(n, c)'
    BY <1>3, <1>4, NodeFacts
  <2> QED BY <1>1, <1>4, <2>1, <2>2 DEF Source, Promised
<1>9. /\ Holds(c)' => Holds(c)
      /\ Holds(c) => Holds(c)' \/ cacheState'[c] = "SI_A"
      /\ ~Awaits(c)'
  BY <1>t, <1>3, <1>4, NodeFacts DEF Holds, WaitS, Awaits, WaitAcks, WaitM
<1>10. AskedForBy(c)' /\ EvictionOf(c)'
  BY <1>t, <1>3, <1>4 DEF AskedForBy, EvictionOf, Evicting, WaitS, WaitM
<1>11. GrantsFor(c)'
  BY <1>3, <1>4, NodeFacts DEF GrantsFor
<1>12. OwnershipOf(c)'
  BY <1>4, <1>7, <1>8, <1>i DEF OwnershipOf
<1>13. SharerHolds(c)'
  BY <1>t, <1>3, <1>4, <1>5, <1>9, <1>i DEF SharerHolds
<1>14. CopyTracked(c)'
  BY <1>4, <1>5, <1>8, <1>9, <1>i DEF CopyTracked
<1>15. AckCountOf(c)'
  <2>1. AcksAnnounced(c) = 0 /\ AcksAnnounced(c)' = AcksAnnounced(c)
    <3>1. response[<<Directory, c>>] = << >>
      BY <1>3, <1>i, NodeFacts, ResponseKinds DEF ResponseShape
    <3>2. ~Promised(c) \/ cacheState[c] = "M"
      BY <1>t, <1>1, <1>3 DEF Promised, Source, Exclusive
    <3>3. c \notin owner \/ dirState # "M_m"
      <4>1. CASE ~Promised(c)
        BY <1>i, <4>1 DEF OwnershipOf
      <4>2. CASE dirState = "M_m" /\ c \in owner
        <5>1. PICK r \in Cache : MemRead(r)
          BY <1>i, <4>2, MemoryReads
        <5>2. r \in owner /\ WaitM(r)
          BY <1>i, <4>2, <5>1 DEF GrantsFor
        <5>3. r = c
          BY <4>2, <5>2, Parts DEF DirEntryByState
        <5> QED BY <1>3, <5>1, <5>3
      <4> QED BY <4>1, <4>2
    <3> QED BY <1>4, <3>1, <3>3, NodeFacts DEF AcksAnnounced
  <2>2. Cardinality(Ackers(c)') = 0
    BY <1>3, <1>5, AckersFinite
  <2>3. ~WaitAcks(c)' /\ ~Dat(Directory, c)'
    BY <1>t, <1>3, <1>4, NodeFacts DEF WaitAcks
  <2> QED BY <1>2, <2>1, <2>2, <2>3 DEF AckCountOf
<1>16. ASSUME NEW d \in Cache, NEW e \in Cache PROVE Invalidated(d, e)'
  <2>1. CASE e = c
    BY <1>3, <1>4, <2>1, NodeFacts DEF Invalidated
  <2>2. CASE d = c /\ e # c
    <3>1. cacheState[c] # "SI_A"
      BY <1>t
    <3> QED BY <1>4, <1>6, <1>9, <1>i, <2>2, <3>1, SameRole, NodeFacts DEF Invalidated
  <2>3. CASE d # c /\ e # c
    BY <1>2, <1>4, <1>6, <1>i, <2>3, SameRole, NodeFacts DEF Invalidated
  <2> QED BY <2>1, <2>2, <2>3
<1>17. cacheState[c] # "MI_A"
  BY <1>t
<1> QED BY <1>4, <1>5, <1>6, <1>8, <1>10, <1>11, <1>12, <1>13, <1>14, <1>15, <1>16, <1>17,
           OneTouched

\* Everything that comes through the mandatory queue.
LEMMA MandatoryKeeps ==
  ASSUME ProtocolInv, NEW c \in Cache, Processor(c) \/ MandatoryIn(c), UNCHANGED dirVars
  PROVE  CoherenceInv' \/ UNCHANGED <<cacheState, acks, networkVars, dirVars>>
<1>i. TypeOK
  BY Parts
<1>1. ASSUME NEW op, NEW next, NEW type,
             <<op, next, type>> \in {<<"Load", "IS_D", "GetS">>, <<"Store", "IM_AD", "GetM">>},
             Miss(c, op, next, type)
      PROVE  CoherenceInv'
  <2>1. Request(type, c, NoValue) \in RequestMsg
    BY <1>1, RequestType, NodeFacts
  <2>2. /\ Request(type, c, NoValue).requestor = c
        /\ Request(type, c, NoValue).type = type
    BY DEF Request
  <2>3. Requesting(c, "I", next, type)
    BY <1>1 DEF Miss, Requesting
  <2> QED BY <1>1, <2>1, <2>2, <2>3, AskKeeps DEF Miss
<1>2. CASE Upgrade(c)
  <2>1. Request("GetM", c, NoValue) \in RequestMsg
    BY RequestType, NodeFacts
  <2>2. /\ Request("GetM", c, NoValue).requestor = c
        /\ Request("GetM", c, NoValue).type = "GetM"
    BY DEF Request
  <2>3. Requesting(c, "S", "SM_AD", "GetM")
    BY <1>2 DEF Upgrade, Requesting
  <2> QED BY <1>2, <2>1, <2>2, <2>3, AskKeeps DEF Upgrade
<1>3. CASE ReplaceShared(c)
  <2>1. Request("PutS", c, NoValue) \in RequestMsg
    BY RequestType, NodeFacts
  <2>2. /\ Request("PutS", c, NoValue).requestor = c
        /\ Request("PutS", c, NoValue).type = "PutS"
    BY DEF Request
  <2>3. Requesting(c, "S", "SI_A", "PutS")
    BY <1>3 DEF ReplaceShared, Replace, Requesting
  <2> QED BY <1>3, <2>1, <2>2, <2>3, AskKeeps DEF ReplaceShared, Replace
<1>4. CASE ReplaceModified(c)
  <2>0. PICK v \in Data : v = cacheData[c]
    BY <1>i DEF TypeOK, CacheTypeOK
  <2>1. Request("PutM", c, v) \in RequestMsg
    BY RequestType
  <2>2. /\ Request("PutM", c, v).requestor = c
        /\ Request("PutM", c, v).type = "PutM"
    BY DEF Request
  <2>3. Requesting(c, "M", "MI_A", "PutM")
    BY <1>4 DEF ReplaceModified, Replace, Requesting
  <2>4. request' = Sent(request, c, Request("PutM", c, v))
    BY <1>4, <2>0 DEF ReplaceModified, Replace
  <2> QED BY <1>4, <2>1, <2>2, <2>3, <2>4, AskKeeps DEF ReplaceModified, Replace
<1>5. CASE \/ Processor(c) \/ LoadHit(c) \/ OtherProceeds(c)
           \/ \E v \in Value : StoreHit(c, v)
  BY <1>5 DEF Processor, Issue, LoadHit, OtherProceeds, StoreHit, networkVars
<1> QED BY <1>1, <1>2, <1>3, <1>4, <1>5 DEF MandatoryIn, LoadMiss, StoreMiss

\* transition(S, Inv, I), transition(SM_AD, Inv, IM_AD), transition(SI_A, Inv, II_A).
LEMMA RecvInvKeeps ==
  ASSUME ProtocolInv, NEW c \in Cache, RecvInv(c), UNCHANGED dirVars
  PROVE  CoherenceInv'
<1>i. /\ TypeOK /\ ForwardShape /\ ResponseShape /\ RequestShape /\ MemoryShape
      /\ \A d \in Cache : /\ AskedForBy(d) /\ EvictionOf(d) /\ GrantsFor(d)
                          /\ OwnershipOf(d)
                          /\ SharerHolds(d) /\ CopyTracked(d) /\ AckCountOf(d)
      /\ \A d, e \in Cache : Invalidated(d, e)
  BY Parts
<1>1. /\ Forwarded(c, "Inv") /\ forward' = Popped(forward, c)
      /\ response' = Sent(response, <<c, Head(forward[c]).requestor>>,
                          Reply("InvAck", NoValue, 0))
      /\ UNCHANGED <<acks, request>>
      /\ \A d \in Cache \ {c} : cacheState'[d] = cacheState[d]
      /\ \/ cacheState[c] = "S" /\ cacheState'[c] = "I"
         \/ cacheState[c] = "SM_AD" /\ cacheState'[c] = "IM_AD"
         \/ cacheState[c] = "SI_A" /\ cacheState'[c] = "II_A"
  BY <1>i DEF RecvInv, NewState, TypeOK, CacheTypeOK
<1>2. PICK r \in Cache :
        /\ Head(forward[c]) = Request("Inv", r, NoValue)
        /\ \A e \in Cache : InvFor(c, e) <=> e = r
        /\ \A d, e \in Cache : /\ InvFor(d, e)' <=> InvFor(d, e) /\ d # c
                               /\ FwdS(d, e)' <=> FwdS(d, e)
                               /\ FwdM(d, e)' <=> FwdM(d, e)
        /\ \A d \in Cache : PutAckTo(d)' <=> PutAckTo(d)
        /\ ForwardShape'
  BY <1>1, <1>i, PopInv
<1>3. /\ InvFor(c, r) /\ ~Ack(c, r) /\ c # r /\ Awaits(r)
      /\ ~Dat(c, r)
  <2>1. InvFor(c, r) /\ ~Ack(c, r) /\ c # r /\ Awaits(r)
    BY <1>2, <1>i DEF Invalidated
  <2>2. ~Dat(c, r)
    BY <2>1, <1>i, Modes, NodeFacts DEF Awaits, GrantsFor
  <2> QED BY <2>1, <2>2
<1>4. /\ \A a, b \in Node : /\ Dat(a, b)' <=> Dat(a, b)
                            /\ Ack(a, b)' <=> Ack(a, b) \/ (a = c /\ b = r)
      /\ \A d \in Node : response'[<<Directory, d>>] = response[<<Directory, d>>]
      /\ ResponseShape'
  <2> DEFINE m == Reply("InvAck", NoValue, 0)
  <2>1. m \in ResponseMsg /\ m.type = "InvAck"
    BY ReplyType, NodeFacts DEF Reply
  <2>2. <<c, r>> \in Node \X Node /\ {<<c, r>>} \in SUBSET (Node \X Node)
    BY NodeFacts
  <2>3. Head(forward[c]).requestor = r
    BY <1>2 DEF Request
  <2>4. response[<<c, r>>] = << >>
    BY <1>3, <1>i, NodeFacts, ResponseKinds
  <2> HIDE DEF m
  <2>5. response' = Multicast(response, {<<c, r>>}, m)
    BY <1>1, <1>i, <2>2, <2>3, SentOne DEF m
  <2>6. /\ \A k \in {<<c, r>>} : response[k] = << >>
        /\ <<Directory, Directory>> \notin {<<c, r>>}
        /\ {<<c, r>>} \subseteq Cache \X Cache
    BY <2>4, NodeFacts
  <2>7. /\ \A a, b \in Node :
              /\ Dat(a, b)' <=> Dat(a, b) \/ (<<a, b>> \in {<<c, r>>} /\ m.type = "Data")
              /\ Ack(a, b)' <=> Ack(a, b) \/ (<<a, b>> \in {<<c, r>>} /\ m.type = "InvAck")
              /\ response'[<<a, b>>] = IF <<a, b>> \in {<<c, r>>} THEN <<m>>
                                       ELSE response[<<a, b>>]
        /\ ResponseShape'
    BY <1>i, <2>1, <2>2, <2>5, <2>6, SendResponses
  <2> QED BY <2>1, <2>7, NodeFacts
<1>5. /\ UNCHANGED <<dirState, sharers, owner, requestQueue, memRequest, memResponse>>
      /\ \A d \in Cache : Asked(d)' = Asked(d)
      /\ \A d \in Cache : MemRead(d)' <=> MemRead(d)
      /\ ChannelShapes'
  BY <1>1, <1>2, <1>4, <1>i, RequestsKept, MemoryKept DEF dirVars, ChannelShapes
<1>6. /\ \A d \in Cache : Dat(d, Directory)' <=> Dat(d, Directory)
      /\ AtHome' <=> AtHome
  BY <1>4, <1>5, NodeFacts DEF AtHome
<1>7. ASSUME NEW d \in Cache PROVE Ackers(d)' = Ackers(d)
  BY <1>2, <1>3, <1>4, NodeFacts DEF Ackers
<1>8. \A d \in Cache \ {c} : Same(d)
  BY <1>1, <1>2, <1>4, <1>5, <1>7, NodeFacts DEF Same
<1>9. /\ WaitM(c)' <=> WaitM(c)
      /\ Evicting(c)' <=> Evicting(c)
      /\ ~WaitS(c) /\ ~WaitS(c)' /\ ~WaitAcks(c) /\ ~WaitAcks(c)'
      /\ ~Holds(c)'
  BY <1>1 DEF WaitM, Evicting, WaitS, WaitAcks, Holds
<1>10. /\ Recalled(c)' <=> Recalled(c)
       /\ ~Exclusive(c) /\ ~Exclusive(c)'
       /\ Source(c)' <=> Source(c)
       /\ Promised(c)' <=> Promised(c)
       /\ Awaits(c)' <=> Awaits(c)
  <2>1. Recalled(c)' <=> Recalled(c)
    BY <1>2 DEF Recalled
  <2>2. ~Exclusive(c) /\ ~Exclusive(c)'
    BY <1>1 DEF Exclusive
  <2>3. Source(c)' <=> Source(c)
    BY <1>4, <1>5, <1>9, <2>2, NodeFacts DEF Source
  <2>4. Promised(c)' <=> Promised(c)
    BY <1>2, <2>3 DEF Promised
  <2>5. Awaits(c)' <=> Awaits(c)
    BY <1>4, <1>5, <1>9, NodeFacts DEF Awaits
  <2> QED BY <2>1, <2>2, <2>3, <2>4, <2>5
<1>11. AskedForBy(c)' /\ EvictionOf(c)'
  BY <1>1, <1>2, <1>5, <1>9, <1>i DEF AskedForBy, EvictionOf
<1>12. GrantsFor(c)'
  BY <1>2, <1>4, <1>5, <1>9, <1>i, NodeFacts DEF GrantsFor
<1>13. OwnershipOf(c)'
  BY <1>5, <1>10, <1>i DEF OwnershipOf
<1>14. SharerHolds(c)'
  <2>1. dirState = "M_m" \/ ~AtHome
    <3>1. Source(r)
      BY <1>3, AwaitsSource
    <3> QED BY <3>1, NoPromise
  <2> QED BY <1>2, <1>5, <1>6, <1>i, <2>1 DEF SharerHolds
<1>15. CopyTracked(c)'
  BY <1>9 DEF CopyTracked
<1>16. AckCountOf(c)'
  <2>1. AcksAnnounced(c)' = AcksAnnounced(c)
    BY <1>4, <1>5, NodeFacts DEF AcksAnnounced
  <2> QED BY <1>1, <1>7, <1>9, <1>i, <2>1 DEF AckCountOf
<1>17. ASSUME NEW d \in Cache, NEW e \in Cache PROVE Invalidated(d, e)'
  <2>1. CASE d = c
    <3>1. ~InvFor(c, e)' /\ (Ack(c, e)' => Ack(c, e) \/ e = r)
      BY <1>2, <1>4, NodeFacts
    <3>2. Awaits(e) => Awaits(e)'
      BY <1>8, <1>10, SameRole
    <3> QED BY <1>3, <1>i, <2>1, <3>1, <3>2 DEF Invalidated
  <2>2. CASE d # c
    <3>1. /\ Holds(d)' <=> Holds(d)
          /\ cacheState'[d] = cacheState[d]
          /\ Awaits(e)' <=> Awaits(e)
      BY <1>1, <1>8, <1>10, <2>2, SameRole
    <3> QED BY <1>2, <1>4, <1>i, <2>2, <3>1, NodeFacts DEF Invalidated
  <2> QED BY <2>1, <2>2
<1>18. cacheState[c] # "MI_A"
  BY <1>1
<1> QED BY <1>2, <1>5, <1>6, <1>8, <1>10, <1>11, <1>12, <1>13, <1>14, <1>15, <1>16, <1>17,
           <1>18, OneTouched

\* transition({MI_A, SI_A, II_A}, PutAck, I).
LEMMA RecvPutAckKeeps ==
  ASSUME ProtocolInv, NEW c \in Cache, RecvPutAck(c), UNCHANGED dirVars
  PROVE  CoherenceInv'
<1>i. /\ TypeOK /\ ForwardShape /\ ResponseShape /\ RequestShape /\ MemoryShape
      /\ \A d \in Cache : /\ AskedForBy(d) /\ EvictionOf(d) /\ GrantsFor(d)
                          /\ OwnershipOf(d)
                          /\ SharerHolds(d) /\ CopyTracked(d) /\ AckCountOf(d)
      /\ \A d, e \in Cache : Invalidated(d, e)
  BY Parts
<1>1. /\ Forwarded(c, "PutAck") /\ forward' = Popped(forward, c)
      /\ UNCHANGED <<acks, request, response>>
      /\ \A d \in Cache \ {c} : cacheState'[d] = cacheState[d]
      /\ cacheState'[c] = "I" /\ Evicting(c)
  BY <1>i DEF RecvPutAck, NewState, Evicting, TypeOK, CacheTypeOK
<1>2. /\ PutAckTo(c)
      /\ \A e \in Cache : ~InvFor(c, e) /\ ~FwdS(c, e) /\ ~FwdM(c, e)
      /\ \A d, e \in Cache : /\ InvFor(d, e)' <=> InvFor(d, e)
                             /\ FwdS(d, e)' <=> FwdS(d, e)
                             /\ FwdM(d, e)' <=> FwdM(d, e)
      /\ \A d \in Cache : PutAckTo(d)' <=> PutAckTo(d) /\ d # c
      /\ ForwardShape'
  BY <1>1, <1>i, PopPutAck
<1>3. /\ UNCHANGED <<dirState, sharers, owner, requestQueue, memRequest, memResponse>>
      /\ \A d \in Cache : Asked(d)' = Asked(d)
      /\ \A d \in Cache : MemRead(d)' <=> MemRead(d)
      /\ \A a, b \in Node : /\ Dat(a, b)' <=> Dat(a, b)
                            /\ Ack(a, b)' <=> Ack(a, b)
                            /\ response'[<<a, b>>] = response[<<a, b>>]
      /\ ChannelShapes'
  BY <1>1, <1>2, <1>i, RequestsKept, MemoryKept, ResponseKept DEF dirVars, ChannelShapes
<1>4. /\ \A d \in Cache : Dat(d, Directory)' <=> Dat(d, Directory)
      /\ AtHome' <=> AtHome
      /\ \A d \in Cache : Ackers(d)' = Ackers(d)
  BY <1>2, <1>3, NodeFacts DEF AtHome, Ackers
<1>5. \A d \in Cache \ {c} : Same(d)
  BY <1>1, <1>2, <1>3, <1>4, NodeFacts DEF Same
<1>6. /\ Asked(c) = {} /\ ~WaitS(c) /\ ~WaitM(c) /\ ~WaitAcks(c)
      /\ ~WaitS(c)' /\ ~WaitM(c)' /\ ~WaitAcks(c)' /\ ~Evicting(c)'
  BY <1>1, <1>2, <1>i DEF EvictionOf, WaitS, WaitM, WaitAcks, Evicting
<1>7. /\ ~MemRead(c) /\ \A d \in Cache : ~FwdS(d, c) /\ ~FwdM(d, c)
      /\ \A n \in Node : ~Dat(n, c)
  BY <1>6, <1>i DEF GrantsFor
<1>8. /\ ~Recalled(c) /\ ~Exclusive(c) /\ ~Source(c) /\ ~Promised(c) /\ ~Awaits(c) /\ ~Holds(c)
      /\ ~Recalled(c)' /\ ~Exclusive(c)' /\ ~Source(c)' /\ ~Promised(c)' /\ ~Awaits(c)' /\ ~Holds(c)'
  <2>1. ~Recalled(c) /\ ~Recalled(c)'
    BY <1>2 DEF Recalled
  <2>2. ~Exclusive(c) /\ ~Exclusive(c)'
    BY <1>1, <1>2, <2>1 DEF Exclusive, Evicting
  <2>3. ~Source(c) /\ ~Source(c)' /\ ~Awaits(c) /\ ~Awaits(c)'
    BY <1>6, <2>2 DEF Source, Awaits
  <2>4. ~Promised(c) /\ ~Promised(c)'
    BY <1>2, <1>7, <2>3 DEF Promised
  <2>5. ~Holds(c) /\ ~Holds(c)'
    BY <1>1, <1>6 DEF Holds, Evicting
  <2> QED BY <2>1, <2>2, <2>3, <2>4, <2>5
<1>9. AskedForBy(c)' /\ EvictionOf(c)'
  BY <1>2, <1>3, <1>6 DEF AskedForBy, EvictionOf
<1>10. GrantsFor(c)'
  BY <1>2, <1>3, <1>7, NodeFacts DEF GrantsFor
<1>11. OwnershipOf(c)'
  BY <1>3, <1>8, <1>i DEF OwnershipOf
<1>12. SharerHolds(c)'
  BY <1>2, <1>3, <1>i DEF SharerHolds
<1>13. CopyTracked(c)'
  BY <1>8 DEF CopyTracked
<1>14. AckCountOf(c)'
  BY <1>1, <1>6, <1>i DEF AckCountOf
<1>15. ASSUME NEW d \in Cache, NEW e \in Cache PROVE Invalidated(d, e)'
  <2>1. Awaits(e)' <=> Awaits(e)
    BY <1>5, <1>8, SameRole
  <2>2. InvFor(d, e) => (Holds(d)' <=> Holds(d)) /\ cacheState'[d] = cacheState[d]
    BY <1>1, <1>2, <1>5, SameRole
  <2> QED BY <1>2, <1>3, <1>i, <2>1, <2>2, NodeFacts DEF Invalidated
<1> QED BY <1>2, <1>3, <1>4, <1>5, <1>8, <1>9, <1>10, <1>11, <1>12, <1>13, <1>14, <1>15,
           OneTouched

\* A cache that gives the line up has it.
LEMMA Giver ==
  ASSUME ProtocolInv, NEW c \in Cache, Recalled(c), cacheState[c] \in {"M", "MI_A"}
  PROVE  /\ Exclusive(c) /\ Source(c) /\ Promised(c) /\ ~AtHome /\ c \notin owner
         /\ ~WaitS(c) /\ ~WaitM(c) /\ ~WaitAcks(c) /\ ~Awaits(c) /\ ~Holds(c)
         /\ acks[c] = 0
         /\ ~MemRead(c) /\ \A d \in Cache : ~FwdS(d, c) /\ ~FwdM(d, c)
         /\ \A n \in Node : ~Dat(n, c)
<1>i. GrantsFor(c) /\ AckCountOf(c)
  BY Parts
<1>1. Exclusive(c) /\ Source(c)
  BY DEF Exclusive, Source
<1>2. ~WaitS(c) /\ ~WaitM(c) /\ ~WaitAcks(c) /\ ~Awaits(c) /\ ~Holds(c)
  BY DEF WaitS, WaitM, WaitAcks, Awaits, Holds
<1> QED BY <1>i, <1>1, <1>2, RecalledState DEF GrantsFor, AckCountOf

\* transition(M, FwdGetS, S) and transition(MI_A, FwdGetS, SI_A).
LEMMA RecvFwdGetSKeeps ==
  ASSUME ProtocolInv, NEW c \in Cache, RecvFwdGetS(c), UNCHANGED dirVars
  PROVE  CoherenceInv'
<1>i. /\ TypeOK /\ ForwardShape /\ ResponseShape /\ RequestShape /\ MemoryShape
      /\ \A d \in Cache : /\ AskedForBy(d) /\ EvictionOf(d) /\ GrantsFor(d)
                          /\ OwnershipOf(d)
                          /\ SharerHolds(d) /\ CopyTracked(d) /\ AckCountOf(d)
      /\ \A d, e \in Cache : Invalidated(d, e)
      /\ DirEntryByState /\ OneSource /\ NoCycle /\ Downgrades
  BY Parts
<1>1. /\ Forwarded(c, "GetS") /\ forward' = Popped(forward, c)
      /\ response' = Multicast(response,
                       {<<c, Head(forward[c]).requestor>>, <<c, Directory>>},
                       CacheData(c))
      /\ UNCHANGED <<acks, request>>
      /\ \A d \in Cache \ {c} : cacheState'[d] = cacheState[d]
      /\ \/ cacheState[c] = "M" /\ cacheState'[c] = "S"
         \/ cacheState[c] = "MI_A" /\ cacheState'[c] = "SI_A"
  BY <1>i DEF RecvFwdGetS, NewState, TypeOK, CacheTypeOK
<1>2. PICK r \in Cache :
        /\ Head(forward[c]) = Request("GetS", r, NoValue)
        /\ \A e \in Cache : FwdS(c, e) <=> e = r
        /\ \A e \in Cache : ~InvFor(c, e) /\ ~FwdM(c, e)
        /\ \A d, e \in Cache : /\ InvFor(d, e)' <=> InvFor(d, e)
                               /\ FwdS(d, e)' <=> FwdS(d, e) /\ d # c
                               /\ FwdM(d, e)' <=> FwdM(d, e)
        /\ \A d \in Cache : PutAckTo(d)' <=> PutAckTo(d)
        /\ ForwardShape'
  BY <1>1, <1>i, PopFwdS
<1>3. /\ FwdS(c, r) /\ r # c /\ WaitS(r) /\ Asked(r) = {} /\ ~MemRead(r)
      /\ \A n \in Node : ~Dat(n, r)
      /\ \A e \in Cache : FwdS(e, r) \/ FwdM(e, r) => e = c
      /\ dirState = "S_D" /\ r \in sharers /\ (c \in sharers \/ cacheState[c] = "MI_A")
      /\ \A e \in Cache : ~Dat(e, Directory)
      /\ \A e, f \in Cache : FwdS(e, f) => e = c /\ f = r
  BY <1>2, <1>i DEF GrantsFor, Downgrades
<1>4. /\ Recalled(c) /\ Source(c) /\ ~AtHome /\ acks[c] = 0
      /\ ~WaitS(c) /\ ~WaitM(c) /\ ~WaitAcks(c) /\ ~Awaits(c)
      /\ ~MemRead(c) /\ \A d \in Cache : ~FwdS(d, c) /\ ~FwdM(d, c)
      /\ \A n \in Node : ~Dat(n, c)
  <2>1. Recalled(c)
    BY <1>3 DEF Recalled
  <2> QED BY <1>1, <2>1, Giver
<1>5. ~Source(r) /\ ~Promised(r) /\ ~Recalled(r) /\ ~Awaits(r) /\ r \notin owner
  BY <1>3, NoLoaderPromised, AwaitsSource
<1>6. owner = {}
  BY <1>3, <1>i DEF DirEntryByState
<1>7. /\ \A a, b \in Node : /\ Dat(a, b)' <=> Dat(a, b) \/ (a = c /\ b \in {r, Directory})
                            /\ Ack(a, b)' <=> Ack(a, b)
      /\ \A d \in Node : response'[<<Directory, d>>] = response[<<Directory, d>>]
      /\ ResponseShape'
  <2> DEFINE m == CacheData(c)
             D == {<<c, r>>, <<c, Directory>>}
  <2>1. m \in ResponseMsg /\ m.type = "Data"
    BY <1>i, ReplyType DEF CacheData, Reply, TypeOK, CacheTypeOK
  <2>2. D \in SUBSET (Node \X Node)
    BY NodeFacts
  <2>3. Head(forward[c]).requestor = r
    BY <1>2 DEF Request
  <2>4. response[<<c, r>>] = << >>
    <3>1. ~Ack(c, r)
      BY <1>5, <1>i DEF Invalidated
    <3> QED BY <1>3, <1>i, <3>1, NodeFacts, ResponseKinds
  <2>5. response[<<c, Directory>>] = << >>
    BY <1>3, <1>i, NodeFacts, ResponseKinds DEF ResponseShape
  <2>6. /\ \A k \in D : response[k] = << >>
        /\ <<Directory, Directory>> \notin D
    BY <2>4, <2>5, NodeFacts
  <2>7. \A a, b \in Node : <<a, b>> \in D <=> a = c /\ b \in {r, Directory}
    OBVIOUS
  <2>8. response' = Multicast(response, D, m)
    BY <1>1, <2>3
  <2> HIDE DEF m, D
  <2>9. /\ \A a, b \in Node :
              /\ Dat(a, b)' <=> Dat(a, b) \/ (<<a, b>> \in D /\ m.type = "Data")
              /\ Ack(a, b)' <=> Ack(a, b) \/ (<<a, b>> \in D /\ m.type = "InvAck")
              /\ response'[<<a, b>>] = IF <<a, b>> \in D THEN <<m>>
                                       ELSE response[<<a, b>>]
        /\ ResponseShape'
    BY <1>i, <2>1, <2>2, <2>6, <2>8, SendResponses
  <2> QED BY <2>1, <2>7, <2>9, NodeFacts
<1>8. /\ UNCHANGED <<dirState, sharers, owner, requestQueue, memRequest, memResponse>>
      /\ \A d \in Cache : Asked(d)' = Asked(d)
      /\ \A d \in Cache : MemRead(d)' <=> MemRead(d)
      /\ ChannelShapes'
  BY <1>1, <1>2, <1>7, <1>i, RequestsKept, MemoryKept DEF dirVars, ChannelShapes
<1>9. /\ \A d \in Cache : Dat(d, Directory)' <=> d = c
      /\ AtHome'
  <2>1. \A d \in Cache : Dat(d, Directory)' <=> d = c
    BY <1>3, <1>7, NodeFacts
  <2> QED BY <1>3, <1>8, <2>1 DEF AtHome
<1>10. ASSUME NEW d \in Cache PROVE Ackers(d)' = Ackers(d)
  BY <1>2, <1>7, NodeFacts DEF Ackers
<1>11. ASSUME NEW d \in Cache, d # c, d # r PROVE Same(d)
  BY <1>1, <1>2, <1>3, <1>7, <1>8, <1>10, <1>11, NodeFacts DEF Same
<1>12. /\ ~WaitS(c)' /\ ~WaitM(c)' /\ ~WaitAcks(c)'
       /\ ~Recalled(c)' /\ ~Exclusive(c)' /\ ~Source(c)' /\ ~Promised(c)' /\ ~Awaits(c)'
       /\ Evicting(c)' <=> Evicting(c)
       /\ Holds(c)' <=> cacheState'[c] = "S"
  <2>1. /\ ~WaitS(c)' /\ ~WaitM(c)' /\ ~WaitAcks(c)'
        /\ Evicting(c)' <=> Evicting(c)
    BY <1>1 DEF WaitS, WaitM, WaitAcks, Evicting
  <2>2. ~Recalled(c)' /\ ~Exclusive(c)'
    BY <1>1, <1>2 DEF Recalled, Exclusive
  <2>3. ~Source(c)' /\ ~Awaits(c)'
    BY <2>1, <2>2 DEF Source, Awaits
  <2>4. ~Promised(c)'
    BY <1>2, <1>4, <2>3 DEF Promised
  <2>5. Holds(c)' <=> cacheState'[c] = "S"
    BY <1>1, <2>1 DEF Holds
  <2> QED BY <2>1, <2>2, <2>3, <2>4, <2>5
<1>13. /\ WaitS(r)' /\ ~WaitM(r)' /\ ~WaitAcks(r)' /\ ~Evicting(r) /\ ~Evicting(r)'
       /\ ~Recalled(r)' /\ ~Source(r)' /\ ~Promised(r)' /\ ~Awaits(r)' /\ Holds(r)'
  <2>1. WaitS(r)' /\ ~WaitM(r)' /\ ~WaitAcks(r)' /\ ~Evicting(r) /\ ~Evicting(r)'
    BY <1>1, <1>3 DEF WaitS, WaitM, WaitAcks, Evicting
  <2>2. ~Recalled(r)'
    BY <1>2, <1>5 DEF Recalled
  <2>3. ~Source(r)' /\ ~Awaits(r)'
    BY <2>1 DEF Source, Awaits, Exclusive, WaitS, WaitM, WaitAcks
  <2>4. ~Promised(r)'
    BY <1>2, <1>5, <2>3 DEF Promised
  <2>5. Holds(r)'
    BY <1>7, <2>1, NodeFacts DEF Holds
  <2> QED BY <2>1, <2>2, <2>3, <2>4, <2>5
<1>14. ASSUME NEW d \in Cache PROVE AskedForBy(d)' /\ EvictionOf(d)'
  <2>1. CASE d = c
    BY <1>1, <1>2, <1>8, <1>12, <1>i, <2>1 DEF AskedForBy, EvictionOf, Evicting, WaitS, WaitM
  <2>2. CASE d = r
    BY <1>2, <1>3, <1>8, <1>13, <1>i, <2>2 DEF AskedForBy, EvictionOf
  <2>3. CASE d # c /\ d # r
    BY <1>11, <1>i, <2>3, SameRequests
  <2> QED BY <2>1, <2>2, <2>3
<1>15. ASSUME NEW d \in Cache PROVE GrantsFor(d)'
  <2>1. CASE d = c
    BY <1>2, <1>3, <1>4, <1>7, <1>8, <2>1, NodeFacts DEF GrantsFor
  <2>2. CASE d = r
    BY <1>2, <1>3, <1>7, <1>8, <1>13, <2>2, NodeFacts DEF GrantsFor
  <2>3. CASE d # c /\ d # r
    BY <1>8, <1>11, <1>i, <2>3, SameGrants
  <2> QED BY <2>1, <2>2, <2>3
<1>16. ASSUME NEW d \in Cache PROVE OwnershipOf(d)'
  <2>1. CASE d = c \/ d = r
    BY <1>6, <1>8, <1>12, <1>13, <2>1 DEF OwnershipOf
  <2>2. CASE d # c /\ d # r
    BY <1>8, <1>11, <1>i, <2>2, SameOwnership
  <2> QED BY <2>1, <2>2
<1>17. ASSUME NEW d \in Cache PROVE SharerHolds(d)'
  <2> SUFFICES ASSUME d \in sharers
               PROVE  /\ ~PutAckTo(d)'
                      /\ AtHome' /\ (Holds(d)' \/ cacheState'[d] = "SI_A")
    BY <1>8 DEF SharerHolds
  <2>1. ~PutAckTo(d) /\ (d = c \/ d = r)
    BY <1>3, <1>4, <1>i DEF SharerHolds
  <2> QED BY <1>1, <1>2, <1>9, <1>12, <1>13, <2>1
<1>18. ASSUME NEW d \in Cache PROVE CopyTracked(d)'
  <2>1. CASE d = c \/ d = r
    BY <1>1, <1>3, <1>8, <1>9, <1>12, <2>1 DEF CopyTracked
  <2>2. CASE d # c /\ d # r
    BY <1>4, <1>11, <1>i, <2>2, SameCopy
  <2> QED BY <2>1, <2>2
<1>19. ASSUME NEW d \in Cache PROVE AckCountOf(d)'
  <2>1. CASE d = c
    BY <1>1, <1>4, <1>12, <2>1 DEF AckCountOf
  <2>2. CASE d = r
    <3>1. acks[r] = 0
      BY <1>3, <1>i, Modes DEF AckCountOf
    <3> QED BY <1>1, <1>3, <1>7, <1>13, <2>2, <3>1, NodeFacts DEF AckCountOf
  <2>3. CASE d # c /\ d # r
    <3>1. AcksAnnounced(d)' = AcksAnnounced(d)
      BY <1>7, <1>8, NodeFacts DEF AcksAnnounced
    <3> QED BY <1>11, <1>i, <2>3, <3>1, SameAckCount
  <2> QED BY <2>1, <2>2, <2>3
<1>20. ASSUME NEW d \in Cache, NEW e \in Cache PROVE Invalidated(d, e)'
  <2>1. Awaits(e) => Awaits(e)'
    BY <1>4, <1>5, <1>11, SameRole
  <2>2. InvFor(d, e) => (Holds(d) \/ cacheState[d] = "SI_A"
                           => Holds(d)' \/ cacheState'[d] = "SI_A")
    BY <1>2, <1>11, <1>13, SameRole DEF Same
  <2> QED BY <1>2, <1>7, <1>i, <2>1, <2>2, NodeFacts DEF Invalidated
<1>21. OneSource'
  <2>1. \A d \in Cache : ~Source(d)'
    <3> SUFFICES ASSUME NEW d \in Cache PROVE ~Source(d)'
      OBVIOUS
    <3>1. CASE d # c /\ d # r
      BY <1>4, <1>11, <1>i, <3>1, SameRole DEF OneSource
    <3> QED BY <1>12, <1>13, <3>1
  <2> QED BY <2>1 DEF OneSource
<1>22. NoCycle'
  BY <1>2, <1>i DEF NoCycle
<1>23. Downgrades'
  <2>1. \A e, f \in Cache : ~FwdS(e, f)'
    BY <1>2, <1>3
  <2> QED BY <1>3, <1>8, <1>9, <2>1 DEF Downgrades
<1> QED BY <1>8, <1>14, <1>15, <1>16, <1>17, <1>18, <1>19, <1>20, <1>21, <1>22, <1>23
        DEF CoherenceInv, Transactions, WriteRight, Copies

\* transition(M, FwdGetM, I) and transition(MI_A, FwdGetM, II_A).
LEMMA RecvFwdGetMKeeps ==
  ASSUME ProtocolInv, NEW c \in Cache, RecvFwdGetM(c), UNCHANGED dirVars
  PROVE  CoherenceInv'
<1>i. /\ TypeOK /\ ForwardShape /\ ResponseShape /\ RequestShape /\ MemoryShape
      /\ \A d \in Cache : /\ AskedForBy(d) /\ EvictionOf(d) /\ GrantsFor(d)
                          /\ OwnershipOf(d)
                          /\ SharerHolds(d) /\ CopyTracked(d) /\ AckCountOf(d)
      /\ \A d, e \in Cache : Invalidated(d, e)
      /\ DirEntryByState /\ OneSource /\ NoCycle /\ Downgrades
  BY Parts
<1>1. /\ Forwarded(c, "GetM") /\ forward' = Popped(forward, c)
      /\ response' = Sent(response, <<c, Head(forward[c]).requestor>>, CacheData(c))
      /\ UNCHANGED <<acks, request>>
      /\ \A d \in Cache \ {c} : cacheState'[d] = cacheState[d]
      /\ \/ cacheState[c] = "M" /\ cacheState'[c] = "I"
         \/ cacheState[c] = "MI_A" /\ cacheState'[c] = "II_A"
  BY <1>i DEF RecvFwdGetM, NewState, TypeOK, CacheTypeOK
<1>2. PICK r \in Cache :
        /\ Head(forward[c]) = Request("GetM", r, NoValue)
        /\ \A e \in Cache : FwdM(c, e) <=> e = r
        /\ \A e \in Cache : ~InvFor(c, e) /\ ~FwdS(c, e)
        /\ \A d, e \in Cache : /\ InvFor(d, e)' <=> InvFor(d, e)
                               /\ FwdS(d, e)' <=> FwdS(d, e)
                               /\ FwdM(d, e)' <=> FwdM(d, e) /\ d # c
        /\ \A d \in Cache : PutAckTo(d)' <=> PutAckTo(d)
        /\ ForwardShape'
  BY <1>1, <1>i, PopFwdM
<1>3. /\ FwdM(c, r) /\ r # c /\ WaitM(r) /\ Asked(r) = {} /\ ~MemRead(r)
      /\ \A n \in Node : ~Dat(n, r)
      /\ \A e \in Cache : FwdS(e, r) \/ FwdM(e, r) => e = c
  BY <1>2, <1>i DEF GrantsFor
<1>4. /\ Recalled(c) /\ Source(c) /\ ~AtHome /\ acks[c] = 0 /\ c \notin owner
      /\ ~WaitS(c) /\ ~WaitM(c) /\ ~WaitAcks(c) /\ ~Awaits(c)
      /\ ~MemRead(c) /\ \A d \in Cache : ~FwdS(d, c) /\ ~FwdM(d, c)
      /\ \A n \in Node : ~Dat(n, c)
  <2>1. Recalled(c)
    BY <1>3 DEF Recalled
  <2> QED BY <1>1, <2>1, Giver
<1>5. Promised(r) /\ ~Awaits(r)
  <2>1. ~WaitAcks(r)
    BY <1>3, <1>i, Modes
  <2> QED BY <1>3, <2>1, NodeFacts DEF Promised, Awaits
<1>6. /\ \A a, b \in Node : /\ Dat(a, b)' <=> Dat(a, b) \/ (a = c /\ b = r)
                            /\ Ack(a, b)' <=> Ack(a, b)
      /\ \A d \in Node : response'[<<Directory, d>>] = response[<<Directory, d>>]
      /\ ResponseShape'
  <2> DEFINE m == CacheData(c)
  <2>1. m \in ResponseMsg /\ m.type = "Data"
    BY <1>i, ReplyType DEF CacheData, Reply, TypeOK, CacheTypeOK
  <2>2. <<c, r>> \in Node \X Node /\ {<<c, r>>} \in SUBSET (Node \X Node)
    BY NodeFacts
  <2>3. Head(forward[c]).requestor = r
    BY <1>2 DEF Request
  <2>4. response[<<c, r>>] = << >>
    <3>1. ~Ack(c, r)
      BY <1>5, <1>i DEF Invalidated
    <3> QED BY <1>3, <1>i, <3>1, NodeFacts, ResponseKinds
  <2>5. /\ \A k \in {<<c, r>>} : response[k] = << >>
        /\ <<Directory, Directory>> \notin {<<c, r>>}
    BY <2>4, NodeFacts
  <2> HIDE DEF m
  <2>6. response' = Multicast(response, {<<c, r>>}, m)
    BY <1>1, <1>i, <2>2, <2>3, SentOne DEF m
  <2>7. /\ \A a, b \in Node :
              /\ Dat(a, b)' <=> Dat(a, b) \/ (<<a, b>> \in {<<c, r>>} /\ m.type = "Data")
              /\ Ack(a, b)' <=> Ack(a, b) \/ (<<a, b>> \in {<<c, r>>} /\ m.type = "InvAck")
              /\ response'[<<a, b>>] = IF <<a, b>> \in {<<c, r>>} THEN <<m>>
                                       ELSE response[<<a, b>>]
        /\ ResponseShape'
    BY <1>i, <2>1, <2>2, <2>5, <2>6, SendResponses
  <2> QED BY <2>1, <2>7, NodeFacts
<1>7. /\ UNCHANGED <<dirState, sharers, owner, requestQueue, memRequest, memResponse>>
      /\ \A d \in Cache : Asked(d)' = Asked(d)
      /\ \A d \in Cache : MemRead(d)' <=> MemRead(d)
      /\ ChannelShapes'
  BY <1>1, <1>2, <1>6, <1>i, RequestsKept, MemoryKept DEF dirVars, ChannelShapes
<1>8. /\ \A d \in Cache : Dat(d, Directory)' <=> Dat(d, Directory)
      /\ AtHome' <=> AtHome
  <2>1. \A d \in Cache : Dat(d, Directory)' <=> Dat(d, Directory)
    BY <1>6, NodeFacts
  <2> QED BY <1>7, <2>1 DEF AtHome
<1>9. ASSUME NEW d \in Cache PROVE Ackers(d)' = Ackers(d)
  BY <1>2, <1>6, NodeFacts DEF Ackers
<1>10. ASSUME NEW d \in Cache, d # c, d # r PROVE Same(d)
  <2>1. \A e \in Cache : FwdM(e, d)' <=> FwdM(e, d)
    BY <1>2, <1>10
  <2> QED BY <1>1, <1>2, <1>6, <1>7, <1>9, <1>10, <2>1, NodeFacts DEF Same
<1>11. /\ ~WaitS(c)' /\ ~WaitM(c)' /\ ~WaitAcks(c)'
       /\ ~Recalled(c)' /\ ~Exclusive(c)' /\ ~Source(c)' /\ ~Promised(c)' /\ ~Awaits(c)'
       /\ Evicting(c)' <=> Evicting(c)
       /\ ~Holds(c)'
  <2>1. /\ ~WaitS(c)' /\ ~WaitM(c)' /\ ~WaitAcks(c)'
        /\ Evicting(c)' <=> Evicting(c)
    BY <1>1 DEF WaitS, WaitM, WaitAcks, Evicting
  <2>2. ~Recalled(c)' /\ ~Exclusive(c)'
    BY <1>1, <1>2 DEF Recalled, Exclusive
  <2>3. ~Source(c)' /\ ~Awaits(c)'
    BY <2>1, <2>2 DEF Source, Awaits
  <2>4. ~Promised(c)'
    BY <1>2, <1>4, <2>3 DEF Promised
  <2>5. ~Holds(c)'
    BY <1>1, <2>1 DEF Holds
  <2> QED BY <2>1, <2>2, <2>3, <2>4, <2>5
<1>12. /\ ~WaitS(r)' /\ WaitM(r)' /\ ~WaitAcks(r)' /\ ~Evicting(r) /\ ~Evicting(r)'
       /\ Recalled(r)' <=> Recalled(r)
       /\ Source(r)' /\ Promised(r)' /\ ~Awaits(r)'
       /\ Holds(r)' <=> Holds(r)
       /\ cacheState'[r] = cacheState[r] /\ acks'[r] = acks[r]
  <2>1. /\ ~WaitS(r)' /\ WaitM(r)' /\ ~WaitAcks(r)' /\ ~Evicting(r) /\ ~Evicting(r)'
        /\ cacheState'[r] = cacheState[r] /\ acks'[r] = acks[r]
    BY <1>1, <1>3 DEF WaitS, WaitM, WaitAcks, Evicting
  <2>2. Recalled(r)' <=> Recalled(r)
    BY <1>2, <1>3 DEF Recalled
  <2>3. Source(r)' /\ Promised(r)'
    BY <1>6, <2>1, NodeFacts DEF Source, Promised
  <2>4. ~Awaits(r)'
    BY <1>3, <1>6, <1>7, <2>1, NodeFacts DEF Awaits
  <2>5. Holds(r)' <=> Holds(r)
    BY <1>3, <2>1 DEF Holds, WaitS, WaitM
  <2> QED BY <2>1, <2>2, <2>3, <2>4, <2>5
<1>13. ASSUME NEW d \in Cache PROVE AskedForBy(d)' /\ EvictionOf(d)'
  <2>1. CASE d = c
    BY <1>1, <1>2, <1>7, <1>11, <1>i, <2>1 DEF AskedForBy, EvictionOf, Evicting, WaitS, WaitM
  <2>2. CASE d = r
    BY <1>2, <1>3, <1>7, <1>12, <1>i, <2>2 DEF AskedForBy, EvictionOf
  <2>3. CASE d # c /\ d # r
    BY <1>10, <1>i, <2>3, SameRequests
  <2> QED BY <2>1, <2>2, <2>3
<1>14. ASSUME NEW d \in Cache PROVE GrantsFor(d)'
  <2>1. CASE d = c
    BY <1>2, <1>3, <1>4, <1>6, <1>7, <2>1, NodeFacts DEF GrantsFor
  <2>2. CASE d = r
    <3>1. \A e \in Cache : ~FwdS(e, r)' /\ ~FwdM(e, r)'
      BY <1>2, <1>3
    <3>2. \A n \in Node : Dat(n, r)' <=> n = c
      BY <1>3, <1>6, NodeFacts
    <3> QED BY <1>3, <1>7, <1>12, <2>2, <3>1, <3>2 DEF GrantsFor
  <2>3. CASE d # c /\ d # r
    BY <1>7, <1>10, <1>i, <2>3, SameGrants
  <2> QED BY <2>1, <2>2, <2>3
<1>15. ASSUME NEW d \in Cache PROVE OwnershipOf(d)'
  <2>1. CASE d = c
    BY <1>4, <1>7, <1>11, <2>1 DEF OwnershipOf
  <2>2. CASE d = r
    BY <1>5, <1>7, <1>12, <1>i, <2>2 DEF OwnershipOf
  <2>3. CASE d # c /\ d # r
    BY <1>7, <1>10, <1>i, <2>3, SameOwnership
  <2> QED BY <2>1, <2>2, <2>3
<1>16. ASSUME NEW d \in Cache PROVE SharerHolds(d)'
  <2>1. CASE d = c
    BY <1>2, <1>4, <1>7, <1>i, <2>1 DEF SharerHolds
  <2>2. CASE d = r
    BY <1>2, <1>7, <1>8, <1>12, <1>i, <2>2 DEF SharerHolds
  <2>3. CASE d # c /\ d # r
    BY <1>7, <1>8, <1>10, <1>i, <2>3, SameSharer
  <2> QED BY <2>1, <2>2, <2>3
<1>17. ASSUME NEW d \in Cache PROVE CopyTracked(d)'
  <2>1. CASE d = c \/ d = r
    BY <1>11, <1>12, <2>1 DEF CopyTracked
  <2>2. CASE d # c /\ d # r
    BY <1>4, <1>10, <1>i, <2>2, SameCopy
  <2> QED BY <2>1, <2>2
<1>18. ASSUME NEW d \in Cache PROVE AckCountOf(d)'
  <2>0. AcksAnnounced(d)' = AcksAnnounced(d)
    BY <1>6, <1>7, NodeFacts DEF AcksAnnounced
  <2>1. CASE d = c
    BY <1>1, <1>4, <1>11, <2>1 DEF AckCountOf
  <2>2. CASE d = r
    BY <1>3, <1>9, <1>12, <1>i, <2>0, <2>2 DEF AckCountOf
  <2>3. CASE d # c /\ d # r
    BY <1>10, <1>i, <2>0, <2>3, SameAckCount
  <2> QED BY <2>1, <2>2, <2>3
<1>19. ASSUME NEW d \in Cache, NEW e \in Cache PROVE Invalidated(d, e)'
  <2>1. Awaits(e) => Awaits(e)'
    BY <1>4, <1>5, <1>10, SameRole
  <2>2. InvFor(d, e) => (Holds(d) \/ cacheState[d] = "SI_A"
                           => Holds(d)' \/ cacheState'[d] = "SI_A")
    BY <1>2, <1>10, <1>12, SameRole DEF Same
  <2> QED BY <1>2, <1>6, <1>i, <2>1, <2>2, NodeFacts DEF Invalidated
<1>20. OneSource'
  <2>1. \A d \in Cache : Source(d)' => d = r
    <3> SUFFICES ASSUME NEW d \in Cache, d # r PROVE ~Source(d)'
      OBVIOUS
    <3>1. CASE d # c /\ d # r
      BY <1>4, <1>10, <1>i, <3>1, SameRole DEF OneSource
    <3> QED BY <1>11, <3>1
  <2> QED BY <2>1 DEF OneSource
<1>21. NoCycle'
  <2> SUFFICES ASSUME NEW Z \in SUBSET Cache, \A d \in Z : \E e \in Z : FwdM(d, e)'
               PROVE  Z = {}
    BY DEF NoCycle
  <2>1. \A d \in Z : \E e \in Z : FwdM(d, e)
    BY <1>2
  <2> QED BY <1>i, <2>1 DEF NoCycle
<1>22. Downgrades'
  <2>1. ASSUME NEW d \in Cache, NEW e \in Cache, FwdS(d, e)'
        PROVE  /\ dirState' = "S_D" /\ e \in sharers'
               /\ d \in sharers' \/ cacheState'[d] = "MI_A"
               /\ \A f \in Cache : ~Dat(f, Directory)'
               /\ \A f, g \in Cache : FwdS(f, g)' => f = d
    <3>1. FwdS(d, e) /\ d # c
      BY <1>2, <2>1
    <3> QED BY <1>1, <1>2, <1>7, <1>8, <1>i, <3>1 DEF Downgrades
  <2> QED BY <1>7, <1>8, <1>i, <2>1 DEF Downgrades
<1> QED BY <1>7, <1>13, <1>14, <1>15, <1>16, <1>17, <1>18, <1>19, <1>20, <1>21, <1>22
        DEF CoherenceInv, Transactions, WriteRight, Copies

-----------------------------------------------------------------------------
(* Steps of the directory, the network and the memory.                     *)

\* The caches stay as they are.
LEMMA StillStates ==
  ASSUME UNCHANGED <<cacheState, acks>>, NEW d \in Cache
  PROVE  /\ WaitS(d)' <=> WaitS(d)
         /\ WaitM(d)' <=> WaitM(d)
         /\ WaitAcks(d)' <=> WaitAcks(d)
         /\ Evicting(d)' <=> Evicting(d)
BY DEF WaitS, WaitM, WaitAcks, Evicting

\* A step that concerns nobody.
LEMMA AllSame ==
  ASSUME ProtocolInv, UNCHANGED <<dirState, sharers, owner, cacheState>>,
         \A d \in Cache : Same(d),
         \A d \in Cache : Dat(d, Directory)' <=> Dat(d, Directory),
         \A d, e \in Cache : Ack(d, e)' <=> Ack(d, e),
         ChannelShapes'
  PROVE  CoherenceInv'
<1>i. \A d, e \in Cache : Invalidated(d, e)
  BY Parts
<1>1. AtHome' <=> AtHome
  BY DEF AtHome
<1>2. \A d \in Cache : /\ AskedForBy(d)' /\ EvictionOf(d)' /\ GrantsFor(d)' /\ OwnershipOf(d)'
                       /\ SharerHolds(d)' /\ CopyTracked(d)' /\ AckCountOf(d)'
  BY <1>1, Bystander
<1>3. \A d \in Cache : Source(d)' <=> Source(d)
  BY SameRole
<1>4. \A d, e \in Cache : (FwdS(d, e)' <=> FwdS(d, e)) /\ (FwdM(d, e)' <=> FwdM(d, e))
  BY DEF Same
<1>5. OneSource' /\ NoCycle' /\ Downgrades'
  BY <1>3, <1>4, RightsKept
<1>6. ASSUME NEW d \in Cache, NEW e \in Cache PROVE Invalidated(d, e)'
  <2>1. /\ Holds(d)' <=> Holds(d)
        /\ Awaits(e)' <=> Awaits(e)
        /\ InvFor(d, e)' <=> InvFor(d, e)
    BY SameRole DEF Same
  <2> QED BY <1>i, <2>1 DEF Invalidated
<1> QED BY <1>2, <1>5, <1>6 DEF CoherenceInv, Transactions, WriteRight, Copies

\* A step that touches none of what the invariant is about.
LEMMA FrameKeeps ==
  ASSUME ProtocolInv,
         UNCHANGED <<cacheState, acks, request, forward, response,
                     dirState, sharers, owner, requestQueue, memRequest, memResponse>>
  PROVE  CoherenceInv'
<1>i. /\ TypeOK /\ ForwardShape /\ ResponseShape /\ RequestShape /\ MemoryShape
  BY Parts
<1>1. /\ \A d, e \in Cache : /\ InvFor(d, e)' <=> InvFor(d, e)
                             /\ FwdS(d, e)' <=> FwdS(d, e)
                             /\ FwdM(d, e)' <=> FwdM(d, e)
      /\ \A d \in Cache : PutAckTo(d)' <=> PutAckTo(d)
      /\ ForwardShape'
  BY <1>i, ForwardKept
<1>2. /\ \A n, k \in Node : /\ Dat(n, k)' <=> Dat(n, k)
                            /\ Ack(n, k)' <=> Ack(n, k)
                            /\ response'[<<n, k>>] = response[<<n, k>>]
      /\ ResponseShape'
  BY <1>i, ResponseKept
<1>3. /\ \A c \in Cache : Asked(c)' = Asked(c)
      /\ \A c \in Cache : MemRead(c)' <=> MemRead(c)
      /\ RequestShape' /\ MemoryShape'
  BY <1>i, RequestsKept, MemoryKept
<1>4. \A d \in Cache : Ackers(d)' = Ackers(d)
  BY <1>1, <1>2, NodeFacts DEF Ackers
<1>5. \A d \in Cache : Same(d)
  BY <1>1, <1>2, <1>3, <1>4, NodeFacts DEF Same
<1> QED BY <1>1, <1>2, <1>3, <1>5, NodeFacts, AllSame DEF ChannelShapes

\* The network moves a request from a cache to requestFromCache.
LEMMA DeliverKeeps ==
  ASSUME ProtocolInv, NEW c \in Cache, DeliverRequest(c), UNCHANGED <<cacheState, acks>>
  PROVE  CoherenceInv'
<1>i. /\ TypeOK /\ ForwardShape /\ ResponseShape /\ RequestShape /\ MemoryShape
  BY Parts
<1>0. UNCHANGED <<dirState, sharers, owner, memRequest, memResponse, forward, response>>
  BY DEF DeliverRequest
<1>1. /\ \A d, e \in Cache : /\ InvFor(d, e)' <=> InvFor(d, e)
                             /\ FwdS(d, e)' <=> FwdS(d, e)
                             /\ FwdM(d, e)' <=> FwdM(d, e)
      /\ \A d \in Cache : PutAckTo(d)' <=> PutAckTo(d)
      /\ ForwardShape'
  BY <1>0, <1>i, ForwardKept
<1>2. /\ \A n, k \in Node : /\ Dat(n, k)' <=> Dat(n, k)
                            /\ Ack(n, k)' <=> Ack(n, k)
                            /\ response'[<<n, k>>] = response[<<n, k>>]
      /\ ResponseShape'
  BY <1>0, <1>i, ResponseKept
<1>3. /\ \A d \in Cache : Asked(d)' = Asked(d)
      /\ \A d \in Cache : MemRead(d)' <=> MemRead(d)
      /\ RequestShape' /\ MemoryShape'
  BY <1>0, <1>i, MoveRequest, MemoryKept
<1>4. \A d \in Cache : Ackers(d)' = Ackers(d)
  BY <1>1, <1>2, NodeFacts DEF Ackers
<1>5. \A d \in Cache : Same(d)
  BY <1>1, <1>2, <1>3, <1>4, NodeFacts DEF Same
<1> QED BY <1>0, <1>1, <1>2, <1>3, <1>5, NodeFacts, AllSame DEF ChannelShapes

\* The memory controller serves the access it has.
LEMMA ServeMemoryKeeps ==
  ASSUME ProtocolInv, ServeMemory, UNCHANGED <<cacheState, acks>>
  PROVE  CoherenceInv'
<1>i. /\ TypeOK /\ ForwardShape /\ ResponseShape /\ RequestShape /\ MemoryShape
  BY Parts
<1>0. UNCHANGED <<dirState, sharers, owner, request, requestQueue, forward, response>>
  BY DEF ServeMemory, networkVars
<1>1. /\ \A d, e \in Cache : /\ InvFor(d, e)' <=> InvFor(d, e)
                             /\ FwdS(d, e)' <=> FwdS(d, e)
                             /\ FwdM(d, e)' <=> FwdM(d, e)
      /\ \A d \in Cache : PutAckTo(d)' <=> PutAckTo(d)
      /\ ForwardShape'
  BY <1>0, <1>i, ForwardKept
<1>2. /\ \A n, k \in Node : /\ Dat(n, k)' <=> Dat(n, k)
                            /\ Ack(n, k)' <=> Ack(n, k)
                            /\ response'[<<n, k>>] = response[<<n, k>>]
      /\ ResponseShape'
  BY <1>0, <1>i, ResponseKept
<1>3. /\ \A d \in Cache : Asked(d)' = Asked(d)
      /\ \A d \in Cache : MemRead(d)' <=> MemRead(d)
      /\ RequestShape' /\ MemoryShape'
  BY <1>0, <1>i, RequestsKept, MemoryAnswers
<1>4. \A d \in Cache : Ackers(d)' = Ackers(d)
  BY <1>1, <1>2, NodeFacts DEF Ackers
<1>5. \A d \in Cache : Same(d)
  BY <1>1, <1>2, <1>3, <1>4, NodeFacts DEF Same
<1> QED BY <1>0, <1>1, <1>2, <1>3, <1>5, NodeFacts, AllSame DEF ChannelShapes

\* A step after which the directory has the right to write, as it had before.
LEMMA HomeKept ==
  ASSUME ProtocolInv, AtHome, AtHome', UNCHANGED <<cacheState, sharers, owner>>,
         dirState \notin {"S_m", "M_m"}, dirState' \notin {"S_D", "M_m"},
         \A d \in Cache : Same(d),
         \A d, e \in Cache : Ack(d, e)' <=> Ack(d, e),
         \A d \in Cache : ~Dat(d, Directory)',
         ChannelShapes'
  PROVE  CoherenceInv'
<1>i. /\ TypeOK /\ MemoryShape /\ NoCycle /\ Downgrades /\ OneSource
      /\ \A d \in Cache : /\ AskedForBy(d) /\ EvictionOf(d) /\ GrantsFor(d)
                          /\ OwnershipOf(d)
                          /\ SharerHolds(d) /\ CopyTracked(d) /\ AckCountOf(d)
      /\ \A d, e \in Cache : Invalidated(d, e)
  BY Parts
<1>1. \A d \in Cache : ~MemRead(d)
  BY <1>i, MemoryReads
<1>2. ASSUME NEW d \in Cache
      PROVE  AskedForBy(d)' /\ EvictionOf(d)' /\ GrantsFor(d)' /\ OwnershipOf(d)'
  BY <1>i, <1>1, SameRequests, SameGrants, SameOwnership
<1>3. ASSUME NEW d \in Cache PROVE SharerHolds(d)' /\ CopyTracked(d)'
  BY <1>i, SameSharer, SameCopy
<1>4. ASSUME NEW d \in Cache PROVE AckCountOf(d)'
  <2>1. AcksAnnounced(d)' = AcksAnnounced(d)
    BY DEF AcksAnnounced, Same
  <2> QED BY <1>i, <2>1, SameAckCount
<1>5. ASSUME NEW d \in Cache, NEW e \in Cache PROVE Invalidated(d, e)'
  <2>1. /\ Holds(d)' <=> Holds(d)
        /\ Awaits(e)' <=> Awaits(e)
        /\ InvFor(d, e)' <=> InvFor(d, e)
    BY SameRole DEF Same
  <2> QED BY <1>i, <2>1 DEF Invalidated
<1>6. OneSource' /\ NoCycle'
  <2>1. \A d, e \in Cache : FwdM(d, e)' <=> FwdM(d, e)
    BY DEF Same
  <2> QED BY <1>i, <2>1, SameRole DEF OneSource, NoCycle
<1>7. Downgrades'
  <2>1. \A d, e \in Cache : ~FwdS(d, e)'
    BY NoPromise DEF Same, Recalled
  <2> QED BY <2>1 DEF Downgrades
<1> QED BY <1>2, <1>3, <1>4, <1>5, <1>6, <1>7
        DEF CoherenceInv, Transactions, WriteRight, Copies

\* transition(MI_m, MemAck, I) and transition(SS_m, MemAck, S).
LEMMA RecvMemAckKeeps ==
  ASSUME ProtocolInv, RecvMemAck, UNCHANGED <<cacheState, acks>>
  PROVE  CoherenceInv'
<1>i. /\ TypeOK /\ ForwardShape /\ ResponseShape /\ RequestShape /\ MemoryShape /\ Downgrades
  BY Parts
<1>0. /\ UNCHANGED <<sharers, owner, request, requestQueue, memRequest, forward, response>>
      /\ dirState \in {"MI_m", "SS_m"} /\ dirState' \in {"I", "S"}
      /\ memResponse # << >> /\ memResponse' = Tail(memResponse)
  BY DEF RecvMemAck, networkVars
<1>1. /\ \A d, e \in Cache : /\ InvFor(d, e)' <=> InvFor(d, e)
                             /\ FwdS(d, e)' <=> FwdS(d, e)
                             /\ FwdM(d, e)' <=> FwdM(d, e)
      /\ \A d \in Cache : PutAckTo(d)' <=> PutAckTo(d)
      /\ ForwardShape'
  BY <1>0, <1>i, ForwardKept
<1>2. /\ \A n, k \in Node : /\ Dat(n, k)' <=> Dat(n, k)
                            /\ Ack(n, k)' <=> Ack(n, k)
                            /\ response'[<<n, k>>] = response[<<n, k>>]
      /\ ResponseShape'
  BY <1>0, <1>i, ResponseKept
<1>3. /\ \A d \in Cache : Asked(d)' = Asked(d)
      /\ \A d \in Cache : ~MemRead(d) /\ ~MemRead(d)'
      /\ RequestShape' /\ MemoryShape'
  BY <1>0, <1>i, RequestsKept, MemoryReads, MemoryTaken
<1>4. \A d \in Cache : Ackers(d)' = Ackers(d)
  BY <1>1, <1>2, NodeFacts DEF Ackers
<1>5. \A d \in Cache : Same(d)
  BY <1>1, <1>2, <1>3, <1>4, NodeFacts DEF Same
<1>6. \A d \in Cache : ~Dat(d, Directory)'
  BY <1>0, <1>2, <1>i, NodeFacts DEF Downgrades
<1>7. AtHome /\ AtHome'
  BY <1>0 DEF AtHome
<1> QED BY <1>0, <1>1, <1>2, <1>3, <1>5, <1>6, <1>7, NodeFacts, HomeKept DEF ChannelShapes

\* transition(S_D, Data, SS_m).
LEMMA RecvOwnerDataKeeps ==
  ASSUME ProtocolInv, NEW c \in Cache, RecvOwnerData(c), UNCHANGED <<cacheState, acks>>
  PROVE  CoherenceInv'
<1>i. /\ TypeOK /\ ForwardShape /\ ResponseShape /\ RequestShape /\ MemoryShape /\ Downgrades
  BY Parts
<1>0. /\ UNCHANGED <<sharers, owner, request, requestQueue, memResponse, forward>>
      /\ dirState = "S_D" /\ dirState' = "SS_m"
      /\ response[<<c, Directory>>] # << >>
      /\ response' = Popped(response, <<c, Directory>>)
      /\ memRequest' = Append(memRequest,
                         MemoryMessage("MEMORY_WB", c, Head(response[<<c, Directory>>]).data))
  BY DEF RecvOwnerData
<1>1. /\ \A d, e \in Cache : /\ InvFor(d, e)' <=> InvFor(d, e)
                             /\ FwdS(d, e)' <=> FwdS(d, e)
                             /\ FwdM(d, e)' <=> FwdM(d, e)
      /\ \A d \in Cache : PutAckTo(d)' <=> PutAckTo(d)
      /\ ForwardShape'
  BY <1>0, <1>i, ForwardKept
<1>2. Dat(c, Directory)
  BY <1>0, <1>i, NodeFacts, ResponseKinds DEF ResponseShape
<1>3. /\ \A n, k \in Node :
              /\ Dat(n, k)' <=> Dat(n, k) /\ ~(n = c /\ k = Directory)
              /\ Ack(n, k)' <=> Ack(n, k) /\ ~(n = c /\ k = Directory)
              /\ ~(n = c /\ k = Directory) => response'[<<n, k>>] = response[<<n, k>>]
      /\ ResponseShape'
  BY <1>0, <1>i, NodeFacts, PopResponse
<1>4. /\ \A d \in Cache : Asked(d)' = Asked(d)
      /\ \A d \in Cache : ~MemRead(d) /\ ~MemRead(d)'
      /\ RequestShape' /\ MemoryShape'
  <2>1. Head(response[<<c, Directory>>]).data \in Data
    BY <1>0, <1>i, NodeFacts, ResponseKinds DEF ResponseMsg
  <2>2. PICK v \in Data : v = Head(response[<<c, Directory>>]).data
    BY <2>1
  <2>3. memRequest' = Append(memRequest, MemoryMessage("MEMORY_WB", c, v))
    BY <1>0, <2>2
  <2> QED BY <1>0, <1>i, <2>3, RequestsKept, StartWrite
<1>5. \A d \in Cache : Ackers(d)' = Ackers(d)
  BY <1>1, <1>3, NodeFacts DEF Ackers
<1>6. \A d \in Cache : Same(d)
  BY <1>1, <1>3, <1>4, <1>5, NodeFacts DEF Same
<1>7. \A d \in Cache : ~Dat(d, Directory)'
  BY <1>2, <1>3, <1>i, NodeFacts DEF Downgrades
<1>8. AtHome /\ AtHome'
  BY <1>0, <1>2 DEF AtHome
<1>9. \A d, e \in Cache : Ack(d, e)' <=> Ack(d, e)
  BY <1>3, NodeFacts
<1> QED BY <1>0, <1>1, <1>3, <1>4, <1>6, <1>7, <1>8, <1>9, HomeKept DEF ChannelShapes

\* transition(S_m, MemData, S) and transition(M_m, MemData, M).
LEMMA RecvMemDataKeeps ==
  ASSUME ProtocolInv, RecvMemData, UNCHANGED <<cacheState, acks>>
  PROVE  CoherenceInv'
<1>i. /\ TypeOK /\ ForwardShape /\ ResponseShape /\ RequestShape /\ MemoryShape
      /\ \A d \in Cache : /\ AskedForBy(d) /\ EvictionOf(d) /\ GrantsFor(d)
                          /\ OwnershipOf(d)
                          /\ SharerHolds(d) /\ CopyTracked(d) /\ AckCountOf(d)
      /\ \A d, e \in Cache : Invalidated(d, e)
      /\ DirEntryByState /\ OneSource /\ NoCycle /\ Downgrades
  BY Parts
<1>0. /\ UNCHANGED <<owner, request, requestQueue, memRequest, forward>>
      /\ \/ dirState = "S_m" /\ dirState' = "S" /\ sharers' = sharers
         \/ dirState = "M_m" /\ dirState' = "M" /\ sharers' = {}
      /\ memResponse # << >> /\ memResponse' = Tail(memResponse)
      /\ Head(memResponse).type = "MEMORY_READ"
  BY DEF RecvMemData
<1>1. /\ \A d, e \in Cache : /\ InvFor(d, e)' <=> InvFor(d, e)
                             /\ FwdS(d, e)' <=> FwdS(d, e)
                             /\ FwdM(d, e)' <=> FwdM(d, e)
      /\ \A d \in Cache : PutAckTo(d)' <=> PutAckTo(d)
      /\ ForwardShape'
  BY <1>0, <1>i, ForwardKept
<1>2. PICK r \in Cache :
        /\ Head(memResponse).sender = r /\ Head(memResponse).data \in Data
        /\ \A d \in Cache : MemRead(d) <=> d = r
        /\ \A d \in Cache : ~MemRead(d)'
        /\ MemoryShape'
  <2>1. /\ Head(memResponse) \in MemoryMsg
        /\ \A d \in Cache : MemRead(d) <=> d = Head(memResponse).sender
        /\ \A d \in Cache : ~MemRead(d)'
        /\ MemoryShape'
    BY <1>0, <1>i, MemoryTaken
  <2> QED BY <2>1 DEF MemoryMsg
<1>3. /\ Asked(r) = {}
      /\ \/ WaitS(r) /\ dirState = "S_m" /\ r \in sharers
         \/ WaitM(r) /\ dirState = "M_m" /\ r \in owner
      /\ \A e \in Cache : ~FwdS(e, r) /\ ~FwdM(e, r)
      /\ \A n \in Node : ~Dat(n, r)
  BY <1>2, <1>i DEF GrantsFor
<1>4. PICK k \in Nat :
        /\ k = IF r \in owner THEN Cardinality(sharers) ELSE 0
        /\ dirState = "S_m" => k = 0
  <2>1. Cardinality(sharers) \in Nat
    BY <1>i, NodeAssumption, FS_Subset, FS_CardinalityType DEF TypeOK, DirTypeOK
  <2> QED BY <2>1, <1>i DEF DirEntryByState
<1>5. /\ \A a, b \in Node : /\ Dat(a, b)' <=> Dat(a, b) \/ (a = Directory /\ b = r)
                            /\ Ack(a, b)' <=> Ack(a, b)
                            /\ ~(a = Directory /\ b = r) =>
                                 response'[<<a, b>>] = response[<<a, b>>]
      /\ response[<<Directory, r>>] = << >>
      /\ response'[<<Directory, r>>] # << >> /\ Head(response'[<<Directory, r>>]).acks = k
      /\ ResponseShape'
  <2> DEFINE m == Reply("Data", Head(memResponse).data, k)
  <2>1. m \in ResponseMsg /\ m.type = "Data" /\ m.acks = k
    BY <1>2, ReplyType DEF Reply
  <2>2. <<Directory, r>> \in Node \X Node /\ {<<Directory, r>>} \in SUBSET (Node \X Node)
    BY NodeFacts
  <2>3. response[<<Directory, r>>] = << >>
    BY <1>3, <1>i, NodeFacts, ResponseKinds DEF ResponseShape
  <2>4. response' = Sent(response, <<Directory, r>>, m)
    BY <1>2, <1>4 DEF RecvMemData
  <2>5. /\ \A x \in {<<Directory, r>>} : response[x] = << >>
        /\ <<Directory, Directory>> \notin {<<Directory, r>>}
    BY <2>3, NodeFacts
  <2> HIDE DEF m
  <2>6. response' = Multicast(response, {<<Directory, r>>}, m)
    BY <1>i, <2>2, <2>4, SentOne
  <2>7. /\ \A a, b \in Node :
              /\ Dat(a, b)' <=> Dat(a, b) \/ (<<a, b>> \in {<<Directory, r>>} /\ m.type = "Data")
              /\ Ack(a, b)' <=> Ack(a, b) \/ (<<a, b>> \in {<<Directory, r>>} /\ m.type = "InvAck")
              /\ response'[<<a, b>>] = IF <<a, b>> \in {<<Directory, r>>} THEN <<m>>
                                       ELSE response[<<a, b>>]
        /\ ResponseShape'
    BY <1>i, <2>1, <2>2, <2>5, <2>6, SendResponses
  <2>8. response'[<<Directory, r>>] = <<m>>
    BY <2>7, NodeFacts
  <2>9. <<m>> # << >> /\ Head(<<m>>) = m
    OBVIOUS
  <2>10. \A a, b \in Node : <<a, b>> \in {<<Directory, r>>} <=> a = Directory /\ b = r
    OBVIOUS
  <2>11. \A a, b \in Node : /\ Dat(a, b)' <=> Dat(a, b) \/ (a = Directory /\ b = r)
                            /\ Ack(a, b)' <=> Ack(a, b)
                            /\ ~(a = Directory /\ b = r) =>
                                 response'[<<a, b>>] = response[<<a, b>>]
    BY <2>1, <2>7, <2>10
  <2>12. response'[<<Directory, r>>] # << >> /\ Head(response'[<<Directory, r>>]).acks = k
    BY <2>1, <2>8, <2>9
  <2> QED BY <2>3, <2>7, <2>11, <2>12
<1>6. /\ \A d \in Cache : Asked(d)' = Asked(d)
      /\ ChannelShapes'
  BY <1>0, <1>1, <1>2, <1>5, <1>i, RequestsKept DEF ChannelShapes
<1>7. /\ \A d \in Cache : Dat(d, Directory)' <=> Dat(d, Directory)
      /\ AtHome' <=> AtHome
      /\ dirState = "S_m" <=> AtHome
  <2>1. \A d \in Cache : Dat(d, Directory)' <=> Dat(d, Directory)
    BY <1>5, NodeFacts
  <2> QED BY <1>0, <2>1 DEF AtHome
<1>8. ASSUME NEW d \in Cache PROVE Ackers(d)' = Ackers(d)
  BY <1>1, <1>5, NodeFacts DEF Ackers
<1>9. ASSUME NEW d \in Cache, d # r PROVE Same(d)
  BY <1>1, <1>2, <1>5, <1>6, <1>8, <1>9, NodeFacts DEF Same
<1>10. /\ WaitS(r)' <=> WaitS(r)
       /\ WaitM(r)' <=> WaitM(r)
       /\ ~WaitAcks(r) /\ ~WaitAcks(r)' /\ ~Evicting(r) /\ ~Evicting(r)'
       /\ Recalled(r)' <=> Recalled(r)
       /\ Source(r)' <=> Source(r)
       /\ Promised(r)' <=> Promised(r)
       /\ Awaits(r)' <=> Awaits(r)
       /\ Holds(r) => Holds(r)'
       /\ WaitS(r) => Holds(r)'
       /\ WaitM(r) => Source(r)'
  <2>1. /\ WaitS(r)' <=> WaitS(r)
        /\ WaitM(r)' <=> WaitM(r)
        /\ ~WaitAcks(r) /\ ~WaitAcks(r)' /\ ~Evicting(r) /\ ~Evicting(r)'
        /\ ~Exclusive(r) /\ ~Exclusive(r)'
    BY <1>3 DEF WaitS, WaitM, WaitAcks, Evicting, Exclusive
  <2>2. Recalled(r)' <=> Recalled(r)
    BY <1>1 DEF Recalled
  <2>3. (Source(r)' <=> Source(r)) /\ (WaitM(r) => Source(r)')
    BY <1>2, <1>5, <2>1, NodeFacts DEF Source
  <2>4. Promised(r)' <=> Promised(r)
    BY <1>1, <2>3 DEF Promised
  <2>5. Awaits(r)' <=> Awaits(r)
    BY <1>2, <1>5, <2>1, NodeFacts DEF Awaits
  <2>6. (Holds(r) => Holds(r)') /\ (WaitS(r) => Holds(r)')
    BY <1>5, <2>1, NodeFacts DEF Holds
  <2> QED BY <2>1, <2>2, <2>3, <2>4, <2>5, <2>6
<1>11. ASSUME NEW d \in Cache PROVE AskedForBy(d)' /\ EvictionOf(d)'
  <2>1. CASE d = r
    BY <1>1, <1>3, <1>6, <1>10, <1>i, <2>1 DEF AskedForBy, EvictionOf
  <2>2. CASE d # r
    BY <1>9, <1>i, <2>2, SameRequests
  <2> QED BY <2>1, <2>2
<1>12. ASSUME NEW d \in Cache PROVE GrantsFor(d)'
  <2>1. CASE d = r
    <3>1. \A n \in Node : Dat(n, r)' <=> n = Directory
      BY <1>3, <1>5, NodeFacts
    <3>2. \A e \in Cache : ~FwdS(e, r)' /\ ~FwdM(e, r)'
      BY <1>1, <1>3
    <3>3. ~MemRead(r)' /\ Asked(r)' = {} /\ (WaitS(r)' \/ WaitM(r)') /\ r # Directory
      BY <1>2, <1>3, <1>6, <1>10, NodeFacts
    <3> QED BY <2>1, <3>1, <3>2, <3>3 DEF GrantsFor
  <2>2. CASE d # r
    BY <1>2, <1>9, <1>i, <2>2, SameGrants
  <2> QED BY <2>1, <2>2
<1>13. ASSUME NEW d \in Cache PROVE OwnershipOf(d)'
  <2>1. CASE d = r
    BY <1>0, <1>10, <1>i, <2>1 DEF OwnershipOf
  <2>2. CASE d # r
    BY <1>0, <1>9, <1>i, <2>2, SameOwnership
  <2> QED BY <2>1, <2>2
<1>14. ASSUME NEW d \in Cache PROVE SharerHolds(d)'
  <2>1. CASE dirState = "M_m"
    BY <1>0, <2>1 DEF SharerHolds
  <2>2. CASE dirState = "S_m" /\ d = r
    <3>1. WaitS(r) /\ r \in sharers
      BY <1>3, <2>2
    <3>2. ~PutAckTo(r)
      BY <1>10, <1>i DEF EvictionOf
    <3> QED BY <1>1, <1>7, <1>10, <2>2, <3>1, <3>2 DEF SharerHolds
  <2>3. CASE dirState = "S_m" /\ d # r
    BY <1>0, <1>7, <1>9, <1>i, <2>3, SameSharer
  <2> QED BY <1>0, <2>1, <2>2, <2>3
<1>15. ASSUME NEW d \in Cache PROVE CopyTracked(d)'
  <2>1. CASE d = r
    BY <1>0, <1>3, <1>7, <1>10, <2>1 DEF CopyTracked
  <2>2. CASE d # r
    BY <1>0, <1>7, <1>9, <1>i, <2>2, SameCopy
  <2> QED BY <2>1, <2>2
<1>16. ASSUME NEW d \in Cache PROVE AckCountOf(d)'
  <2>1. CASE d = r
    <3>1. AcksAnnounced(r) = k /\ AcksAnnounced(r)' = k
      BY <1>0, <1>3, <1>4, <1>5 DEF AcksAnnounced
    <3>2. WaitS(r) => k = 0
      BY <1>3, <1>4, <1>i, Modes
    <3> QED BY <1>5, <1>8, <1>10, <1>i, <2>1, <3>1, <3>2 DEF AckCountOf
  <2>2. CASE d # r
    <3>1. dirState = "M_m" => d \notin owner
      BY <1>3, <1>i, <2>2 DEF DirEntryByState, WaitS, WaitM
    <3>2. AcksAnnounced(d)' = AcksAnnounced(d)
      BY <1>0, <1>5, <2>2, <3>1, NodeFacts DEF AcksAnnounced
    <3> QED BY <1>9, <1>i, <2>2, <3>2, SameAckCount
  <2> QED BY <2>1, <2>2
<1>17. ASSUME NEW d \in Cache, NEW e \in Cache PROVE Invalidated(d, e)'
  <2>1. Awaits(e)' <=> Awaits(e)
    BY <1>9, <1>10, SameRole
  <2>2. Holds(d) => Holds(d)'
    BY <1>9, <1>10, SameRole
  <2> QED BY <1>1, <1>5, <1>i, <2>1, <2>2, NodeFacts DEF Invalidated
<1>18. OneSource' /\ NoCycle'
  <2>1. \A d \in Cache : Source(d)' <=> Source(d)
    BY <1>9, <1>10, SameRole
  <2> QED BY <1>1, <1>i, <2>1 DEF OneSource, NoCycle
<1>19. Downgrades'
  <2>1. \A d, e \in Cache : ~FwdS(d, e)' /\ ~Dat(d, Directory)'
    BY <1>0, <1>1, <1>7, <1>i DEF Downgrades
  <2> QED BY <2>1 DEF Downgrades
<1> QED BY <1>6, <1>11, <1>12, <1>13, <1>14, <1>15, <1>16, <1>17, <1>18, <1>19
        DEF CoherenceInv, Transactions, WriteRight, Copies

-----------------------------------------------------------------------------
(* Puts.                                                                   *)

\* A put of a cache that no longer has the right to write, or never had it.
LEMMA PutAcked ==
  ASSUME ProtocolInv, NEW r \in Cache,
         Asked(r) = {Req}, Asked(r)' = {}, \A d \in Cache \ {r} : Asked(d)' = Asked(d),
         RequestShape', Req.type \in {"PutS", "PutM"}, r \notin owner,
         forward' = PutAck(r),
         UNCHANGED <<owner, memRequest, memResponse, request, response, cacheState, acks>>,
         dirState' = dirState \/ (dirState = "S" /\ dirState' = "I"),
         sharers' = sharers \/ (sharers' = sharers \ {r} /\ dirState # "M_m"),
         r \in sharers' => dirState = "M_m"
  PROVE  CoherenceInv'
<1>i. /\ TypeOK /\ ForwardShape /\ ResponseShape /\ RequestShape /\ MemoryShape
      /\ \A d \in Cache : /\ AskedForBy(d) /\ EvictionOf(d) /\ GrantsFor(d)
                          /\ OwnershipOf(d)
                          /\ SharerHolds(d) /\ CopyTracked(d) /\ AckCountOf(d)
      /\ \A d, e \in Cache : Invalidated(d, e)
      /\ DirEntryByState /\ OneSource /\ NoCycle /\ Downgrades
  BY Parts
<1>1. /\ Evicting(r) /\ ~PutAckTo(r) /\ ~MemRead(r)
      /\ \A d \in Cache : ~FwdS(d, r) /\ ~FwdM(d, r)
      /\ \A n \in Node : ~Dat(n, r)
  <2>1. Req \in Asked(r)
    OBVIOUS
  <2> QED BY <2>1, Asking
<1>2. /\ \A d, e \in Cache : /\ InvFor(d, e)' <=> InvFor(d, e)
                             /\ FwdS(d, e)' <=> FwdS(d, e)
                             /\ FwdM(d, e)' <=> FwdM(d, e)
      /\ \A d \in Cache : PutAckTo(d)' <=> PutAckTo(d) \/ d = r
      /\ ForwardShape'
  BY <1>1, <1>i, SendPutAck
<1>3. /\ \A n, k \in Node : /\ Dat(n, k)' <=> Dat(n, k)
                            /\ Ack(n, k)' <=> Ack(n, k)
                            /\ response'[<<n, k>>] = response[<<n, k>>]
      /\ ResponseShape'
  BY <1>i, ResponseKept
<1>4. /\ \A d \in Cache : MemRead(d)' <=> MemRead(d)
      /\ MemoryShape'
      /\ ChannelShapes'
  <2>1. (\A d \in Cache : MemRead(d)' <=> MemRead(d)) /\ MemoryShape'
    BY <1>i, MemoryKept
  <2> QED BY <1>2, <1>3, <2>1 DEF ChannelShapes
<1>5. AtHome' <=> AtHome
  <2>1. \A d \in Cache : Dat(d, Directory)' <=> Dat(d, Directory)
    BY <1>3, NodeFacts
  <2> QED BY <2>1 DEF AtHome
<1>6. ASSUME NEW d \in Cache PROVE Ackers(d)' = Ackers(d)
  BY <1>2, <1>3, NodeFacts DEF Ackers
<1>7. ASSUME NEW d \in Cache, d # r PROVE Same(d)
  BY <1>2, <1>3, <1>4, <1>6, <1>7, NodeFacts DEF Same
<1>8. /\ ~WaitS(r) /\ ~WaitM(r) /\ ~WaitAcks(r) /\ Evicting(r)'
      /\ ~WaitS(r)' /\ ~WaitM(r)' /\ ~WaitAcks(r)'
      /\ ~Holds(r)' /\ ~Holds(r) /\ ~Awaits(r) /\ ~Awaits(r)'
  <2>1. /\ ~WaitS(r) /\ ~WaitM(r) /\ ~WaitAcks(r) /\ Evicting(r)'
        /\ ~WaitS(r)' /\ ~WaitM(r)' /\ ~WaitAcks(r)'
        /\ cacheState[r] \notin {"S", "SM_AD"}
    BY <1>1 DEF WaitS, WaitM, WaitAcks, Evicting
  <2> QED BY <2>1 DEF Holds, Awaits
<1>9. /\ Recalled(r)' <=> Recalled(r)
      /\ Source(r) <=> Recalled(r)
      /\ Recalled(r) => cacheState[r] = "MI_A"
      /\ Source(r)' <=> Source(r)
      /\ Promised(r)' <=> Promised(r)
  <2>1. Recalled(r)' <=> Recalled(r)
    BY <1>2 DEF Recalled
  <2>2. (Source(r) <=> Exclusive(r)) /\ (Promised(r) <=> Source(r))
    BY <1>1, <1>8 DEF Source, Promised
  <2>3. Source(r) <=> Recalled(r)
    BY <1>i, <2>2 DEF OwnershipOf
  <2>4. Exclusive(r) => cacheState[r] = "MI_A"
    BY <1>1 DEF Exclusive, Evicting
  <2>5. Source(r)' <=> Exclusive(r)'
    BY <1>8 DEF Source
  <2>6. Exclusive(r)' <=> Recalled(r)
    BY <1>2, <2>1, <2>2, <2>3, <2>4, <1>1 DEF Exclusive, Evicting
  <2>7. Promised(r)' <=> Source(r)'
    BY <1>1, <1>2 DEF Promised
  <2> QED BY <2>1, <2>2, <2>3, <2>4, <2>5, <2>6, <2>7
<1>10. ASSUME NEW d \in Cache PROVE AskedForBy(d)' /\ EvictionOf(d)'
  <2>1. CASE d = r
    BY <1>2, <1>8, <2>1 DEF AskedForBy, EvictionOf
  <2>2. CASE d # r
    BY <1>7, <1>i, <2>2, SameRequests
  <2> QED BY <2>1, <2>2
<1>11. ASSUME NEW d \in Cache PROVE GrantsFor(d)'
  <2>1. CASE d = r
    BY <1>1, <1>2, <1>3, <1>4, <2>1, NodeFacts DEF GrantsFor
  <2>2. CASE d # r
    <3>1. MemRead(d) => dirState # "S"
      BY <1>i, MemoryReads
    <3> QED BY <1>7, <1>i, <2>2, <3>1, SameGrants
  <2> QED BY <2>1, <2>2
<1>12. ASSUME NEW d \in Cache PROVE OwnershipOf(d)'
  <2>1. CASE d = r
    BY <1>9, <1>i, <2>1 DEF OwnershipOf
  <2>2. CASE d # r
    BY <1>7, <1>i, <2>2, SameOwnership
  <2> QED BY <2>1, <2>2
<1>13. ASSUME NEW d \in Cache PROVE SharerHolds(d)'
  <2>1. CASE d = r
    BY <2>1 DEF SharerHolds
  <2>2. CASE d # r
    BY <1>5, <1>7, <1>i, <2>2, SameSharer
  <2> QED BY <2>1, <2>2
<1>14. ASSUME NEW d \in Cache PROVE CopyTracked(d)'
  <2>1. CASE d = r
    BY <1>8, <2>1 DEF CopyTracked
  <2>2. CASE d # r
    BY <1>5, <1>7, <1>i, <2>2, SameCopy
  <2> QED BY <2>1, <2>2
<1>15. ASSUME NEW d \in Cache PROVE AckCountOf(d)'
  <2>1. CASE d = r
    BY <1>8, <1>i, <2>1 DEF AckCountOf
  <2>2. CASE d # r
    <3>1. AcksAnnounced(d)' = AcksAnnounced(d)
      BY <1>3, NodeFacts DEF AcksAnnounced
    <3> QED BY <1>7, <1>i, <2>2, <3>1, SameAckCount
  <2> QED BY <2>1, <2>2
<1>16. ASSUME NEW d \in Cache, NEW e \in Cache PROVE Invalidated(d, e)'
  <2>1. Awaits(e)' <=> Awaits(e)
    BY <1>7, <1>8, SameRole
  <2>2. Holds(d) => Holds(d)'
    BY <1>7, <1>8, SameRole
  <2> QED BY <1>2, <1>3, <1>i, <2>1, <2>2, NodeFacts DEF Invalidated
<1>17. OneSource' /\ NoCycle'
  <2>1. \A d \in Cache : Source(d)' <=> Source(d)
    BY <1>7, <1>9, SameRole
  <2> QED BY <1>2, <1>i, <2>1 DEF OneSource, NoCycle
<1>18. Downgrades'
  <2>1. ASSUME NEW d \in Cache, NEW e \in Cache, FwdS(d, e)'
        PROVE  /\ dirState' = "S_D" /\ e \in sharers'
               /\ d \in sharers' \/ cacheState'[d] = "MI_A"
               /\ \A f \in Cache : ~Dat(f, Directory)'
               /\ \A f, g \in Cache : FwdS(f, g)' => f = d
    <3>1. FwdS(d, e) /\ e # r
      BY <1>1, <1>2, <2>1
    <3>2. /\ dirState = "S_D" /\ e \in sharers
          /\ d \in sharers \/ cacheState[d] = "MI_A"
          /\ \A f \in Cache : ~Dat(f, Directory)
          /\ \A f, g \in Cache : FwdS(f, g) => f = d
      BY <1>i, <3>1 DEF Downgrades
    <3>3. d = r => cacheState[d] = "MI_A"
      BY <1>9, <3>1 DEF Recalled
    <3> QED BY <1>2, <1>3, <3>1, <3>2, <3>3, NodeFacts
  <2>2. ASSUME NEW d \in Cache, Dat(d, Directory)'
        PROVE  /\ dirState' = "S_D"
               /\ \A e \in Cache : Dat(e, Directory)' => e = d
    BY <1>3, <1>i, <2>2, NodeFacts DEF Downgrades
  <2> QED BY <2>1, <2>2 DEF Downgrades
<1> QED BY <1>4, <1>10, <1>11, <1>12, <1>13, <1>14, <1>15, <1>16, <1>17, <1>18
        DEF CoherenceInv, Transactions, WriteRight, Copies

\* What in_port(request_in) finds: the one request of a cache.
LEMMA Taken ==
  ASSUME ProtocolInv, NEW states, NEW events, Takes(states, events), UNCHANGED request
  PROVE  \E r \in Cache :
           /\ Req.requestor = r /\ Req.data \in Data
           /\ Asked(r) = {Req} /\ Asked(r)' = {}
           /\ \A d \in Cache \ {r} : Asked(d)' = Asked(d)
           /\ RequestShape'
           /\ ~PutAckTo(r) /\ ~MemRead(r)
           /\ \A d \in Cache : ~FwdS(d, r) /\ ~FwdM(d, r)
           /\ \A n \in Node : ~Dat(n, r)
           /\ dirState \in states
           /\ Req.type = "GetS" => WaitS(r)
           /\ Req.type = "GetM" => WaitM(r)
           /\ Req.type \in {"PutS", "PutM"} => Evicting(r)
           /\ Req.type = "PutS" => cacheState[r] \in {"SI_A", "II_A"}
           /\ RequestEvent(Req) = "GetS" <=> Req.type = "GetS"
           /\ RequestEvent(Req) = "GetM" <=> Req.type = "GetM"
           /\ RequestEvent(Req) \in {"PutSLast", "PutSNotLast"} <=> Req.type = "PutS"
           /\ RequestEvent(Req) = "PutMOwner" <=> Req.type = "PutM" /\ r \in owner
           /\ RequestEvent(Req) = "PutMNonOwner" <=> Req.type = "PutM" /\ r \notin owner
           /\ RequestEvent(Req) \in events
<1>i. TypeOK /\ RequestShape
  BY Parts
<1>1. PICK r \in Cache :
        /\ Req.requestor = r
        /\ Asked(r) = {Req} /\ Asked(r)' = {}
        /\ \A d \in Cache \ {r} : Asked(d)' = Asked(d)
        /\ RequestShape'
  BY <1>i, TakeRequest DEF Takes
<1>2. Req \in Asked(r)
  BY <1>1
<1>3. Req.data \in Data
  BY <1>i, TakesFacts
<1>4. Req.type \in {"GetS", "GetM", "PutS", "PutM"}
  BY <1>2, Asking
<1>5. /\ RequestEvent(Req) = "GetS" <=> Req.type = "GetS"
      /\ RequestEvent(Req) = "GetM" <=> Req.type = "GetM"
      /\ RequestEvent(Req) \in {"PutSLast", "PutSNotLast"} <=> Req.type = "PutS"
      /\ RequestEvent(Req) = "PutMOwner" <=> Req.type = "PutM" /\ r \in owner
      /\ RequestEvent(Req) = "PutMNonOwner" <=> Req.type = "PutM" /\ r \notin owner
  BY <1>1, <1>4 DEF RequestEvent
<1>6. dirState \in states /\ RequestEvent(Req) \in events
  BY DEF Takes
<1>7. /\ ~PutAckTo(r) /\ ~MemRead(r)
      /\ \A d \in Cache : ~FwdS(d, r) /\ ~FwdM(d, r)
      /\ \A n \in Node : ~Dat(n, r)
      /\ Req.type = "GetS" => WaitS(r)
      /\ Req.type = "GetM" => WaitM(r)
      /\ Req.type \in {"PutS", "PutM"} => Evicting(r)
      /\ Req.type = "PutS" => cacheState[r] \in {"SI_A", "II_A"}
  BY <1>2, Asking
<1> QED BY <1>1, <1>3, <1>5, <1>6, <1>7

\* A put that is not the owner's: the directory only forgets the sharer.
LEMMA PutSharedOrStaleKeeps ==
  ASSUME ProtocolInv, PutShared \/ PutStale, UNCHANGED <<cacheState, acks>>
  PROVE  CoherenceInv'
<1> DEFINE events == {"PutSNotLast", "PutSLast", "PutMNonOwner"}
<1>i. DirEntryByState /\ \A d \in Cache : OwnershipOf(d)
  BY Parts
<1>1. /\ UNCHANGED <<owner, memRequest, memResponse, request, response>>
      /\ forward' = PutAck(Req.requestor)
      /\ Takes(DirState, events)
      /\ dirState' = dirState \/ (dirState = "S" /\ dirState' = "I")
      /\ \/ sharers' = sharers \ {Req.requestor} /\ dirState # "M_m"
         \/ sharers' = sharers /\ dirState \in {"I", "M", "M_m", "MI_m"}
  BY DEF PutShared, PutStale, Takes, DirState
<1>2. PICK r \in Cache :
        /\ Req.requestor = r
        /\ Asked(r) = {Req} /\ Asked(r)' = {}
        /\ \A d \in Cache \ {r} : Asked(d)' = Asked(d)
        /\ RequestShape'
        /\ \A d \in Cache : ~FwdS(d, r) /\ ~FwdM(d, r)
        /\ ~PutAckTo(r)
        /\ Req.type = "PutS" => cacheState[r] \in {"SI_A", "II_A"}
        /\ RequestEvent(Req) \in {"PutSLast", "PutSNotLast"} <=> Req.type = "PutS"
        /\ RequestEvent(Req) = "PutMNonOwner" <=> Req.type = "PutM" /\ r \notin owner
        /\ RequestEvent(Req) \in events
  <2> HIDE DEF events
  <2> QED BY <1>1, Taken
<1>3. Req.type \in {"PutS", "PutM"}
  BY <1>2
<1>4. r \notin owner
  <2>1. CASE Req.type = "PutM"
    BY <1>2, <2>1
  <2>2. CASE Req.type = "PutS"
    <3>1. cacheState[r] \in {"SI_A", "II_A"}
      BY <1>2, <2>2
    <3>2. ~Source(r)
      BY <3>1 DEF Source, Exclusive, WaitM
    <3> QED BY <1>2, <1>i, <3>2 DEF OwnershipOf, Promised
  <2> QED BY <1>3, <2>1, <2>2
<1>5. r \in sharers' => dirState = "M_m"
  BY <1>1, <1>2, <1>i DEF DirEntryByState
<1>6. forward' = PutAck(r)
  BY <1>1, <1>2
<1>7. sharers' = sharers \/ (sharers' = sharers \ {r} /\ dirState # "M_m")
  BY <1>1, <1>2
<1> HIDE DEF events
<1> QED BY <1>1, <1>2, <1>3, <1>4, <1>5, <1>6, <1>7, PutAcked

\* transition(M, PutMOwner, MI_m).
LEMMA PutMOwnerKeeps ==
  ASSUME ProtocolInv, PutMOwner, UNCHANGED <<cacheState, acks>>
  PROVE  CoherenceInv'
<1>i. /\ TypeOK /\ ForwardShape /\ ResponseShape /\ RequestShape /\ MemoryShape
      /\ \A d \in Cache : /\ AskedForBy(d) /\ EvictionOf(d) /\ GrantsFor(d)
                          /\ OwnershipOf(d)
                          /\ SharerHolds(d) /\ CopyTracked(d) /\ AckCountOf(d)
      /\ \A d, e \in Cache : Invalidated(d, e)
      /\ DirEntryByState /\ OneSource /\ NoCycle /\ Downgrades
  BY Parts
<1>1. /\ UNCHANGED <<sharers, memResponse, request, response>>
      /\ forward' = PutAck(Req.requestor)
      /\ memRequest' = Append(memRequest,
                         MemoryMessage("MEMORY_WB", Req.requestor, Req.data))
      /\ dirState = "M" /\ dirState' = "MI_m" /\ owner' = {}
      /\ Takes({"M"}, {"PutMOwner"})
  BY DEF PutMOwner, Takes
<1>2. PICK r \in Cache :
        /\ Req.requestor = r /\ Req.data \in Data
        /\ Asked(r) = {Req} /\ Asked(r)' = {}
        /\ \A d \in Cache \ {r} : Asked(d)' = Asked(d)
        /\ RequestShape'
        /\ ~PutAckTo(r) /\ ~MemRead(r)
        /\ \A d \in Cache : ~FwdS(d, r) /\ ~FwdM(d, r)
        /\ \A n \in Node : ~Dat(n, r)
        /\ Req.type = "PutM" /\ r \in owner
        /\ Evicting(r)
  BY <1>1, Taken
<1>3. owner = {r}
  BY <1>1, <1>2, <1>i DEF DirEntryByState
<1>4. /\ \A d, e \in Cache : /\ InvFor(d, e)' <=> InvFor(d, e)
                             /\ FwdS(d, e)' <=> FwdS(d, e)
                             /\ FwdM(d, e)' <=> FwdM(d, e)
      /\ \A d \in Cache : PutAckTo(d)' <=> PutAckTo(d) \/ d = r
      /\ ForwardShape'
  BY <1>1, <1>2, <1>i, SendPutAck
<1>5. /\ \A n, k \in Node : /\ Dat(n, k)' <=> Dat(n, k)
                            /\ Ack(n, k)' <=> Ack(n, k)
                            /\ response'[<<n, k>>] = response[<<n, k>>]
      /\ ResponseShape'
  BY <1>1, <1>i, ResponseKept
<1>6. /\ \A d \in Cache : ~MemRead(d) /\ ~MemRead(d)'
      /\ MemoryShape'
      /\ ChannelShapes'
  <2>1. PICK v \in Data : v = Req.data
    BY <1>2
  <2>2. memRequest' = Append(memRequest, MemoryMessage("MEMORY_WB", r, v))
    BY <1>1, <1>2, <2>1
  <2>3. (\A d \in Cache : ~MemRead(d) /\ ~MemRead(d)') /\ MemoryShape'
    BY <1>1, <1>i, <2>2, StartWrite
  <2> QED BY <1>2, <1>4, <1>5, <2>3 DEF ChannelShapes
<1>7. AtHome' /\ ~AtHome
  BY <1>1 DEF AtHome
<1>8. ASSUME NEW d \in Cache PROVE Ackers(d)' = Ackers(d)
  BY <1>4, <1>5, NodeFacts DEF Ackers
<1>9. ASSUME NEW d \in Cache, d # r PROVE Same(d)
  BY <1>2, <1>4, <1>5, <1>6, <1>8, <1>9, NodeFacts DEF Same
<1>10. /\ ~WaitS(r) /\ ~WaitM(r) /\ ~WaitAcks(r) /\ Evicting(r)'
       /\ ~WaitS(r)' /\ ~WaitM(r)' /\ ~WaitAcks(r)'
       /\ ~Holds(r)' /\ ~Holds(r) /\ ~Awaits(r) /\ ~Awaits(r)'
  <2>1. /\ ~WaitS(r) /\ ~WaitM(r) /\ ~WaitAcks(r) /\ Evicting(r)'
        /\ ~WaitS(r)' /\ ~WaitM(r)' /\ ~WaitAcks(r)'
        /\ cacheState[r] \notin {"S", "SM_AD"}
    BY <1>2 DEF WaitS, WaitM, WaitAcks, Evicting
  <2> QED BY <2>1 DEF Holds, Awaits
<1>11. /\ ~Recalled(r) /\ ~Recalled(r)' /\ Source(r)
       /\ ~Source(r)' /\ ~Promised(r)'
  <2>1. ~Recalled(r) /\ Promised(r)
    BY <1>2, OwnerReady
  <2>2. Source(r)
    BY <1>2, <2>1 DEF Promised
  <2>3. ~Recalled(r)'
    BY <1>4, <2>1 DEF Recalled
  <2>4. ~Exclusive(r)'
    BY <1>2, <1>4, <2>3 DEF Exclusive, Evicting
  <2>5. ~Source(r)'
    BY <1>10, <2>4 DEF Source
  <2>6. ~Promised(r)'
    BY <1>2, <1>4, <2>5 DEF Promised
  <2> QED BY <2>1, <2>2, <2>3, <2>5, <2>6
<1>12. ASSUME NEW d \in Cache PROVE AskedForBy(d)' /\ EvictionOf(d)'
  <2>1. CASE d = r
    BY <1>2, <1>4, <1>10, <2>1 DEF AskedForBy, EvictionOf
  <2>2. CASE d # r
    BY <1>9, <1>i, <2>2, SameRequests
  <2> QED BY <2>1, <2>2
<1>13. ASSUME NEW d \in Cache PROVE GrantsFor(d)'
  <2>1. CASE d = r
    BY <1>2, <1>4, <1>5, <1>6, <2>1, NodeFacts DEF GrantsFor
  <2>2. CASE d # r
    BY <1>6, <1>9, <1>i, <2>2, SameGrants
  <2> QED BY <2>1, <2>2
<1>14. ASSUME NEW d \in Cache PROVE OwnershipOf(d)'
  <2>1. CASE d = r
    BY <1>1, <1>11, <2>1 DEF OwnershipOf
  <2>2. CASE d # r
    BY <1>1, <1>3, <1>9, <1>i, <2>2, SameOwnership
  <2> QED BY <2>1, <2>2
<1>15. ASSUME NEW d \in Cache PROVE SharerHolds(d)'
  BY <1>1, <1>i DEF DirEntryByState, SharerHolds
<1>16. ASSUME NEW d \in Cache PROVE CopyTracked(d)'
  <2>1. CASE d = r
    BY <1>10, <2>1 DEF CopyTracked
  <2>2. CASE d # r
    BY <1>7, <1>9, <1>i, <2>2, SameCopy
  <2> QED BY <2>1, <2>2
<1>17. ASSUME NEW d \in Cache PROVE AckCountOf(d)'
  <2>1. CASE d = r
    BY <1>10, <1>i, <2>1 DEF AckCountOf
  <2>2. CASE d # r
    <3>1. AcksAnnounced(d)' = AcksAnnounced(d)
      BY <1>1, <1>5, NodeFacts DEF AcksAnnounced
    <3> QED BY <1>9, <1>i, <2>2, <3>1, SameAckCount
  <2> QED BY <2>1, <2>2
<1>18. ASSUME NEW d \in Cache, NEW e \in Cache PROVE Invalidated(d, e)'
  <2>1. Awaits(e)' <=> Awaits(e)
    BY <1>9, <1>10, SameRole
  <2>2. Holds(d) => Holds(d)'
    BY <1>9, <1>10, SameRole
  <2> QED BY <1>4, <1>5, <1>i, <2>1, <2>2, NodeFacts DEF Invalidated
<1>19. OneSource' /\ NoCycle'
  <2>1. \A d \in Cache : Source(d)' => Source(d)
    BY <1>9, <1>11, SameRole
  <2> QED BY <1>4, <1>i, <2>1 DEF OneSource, NoCycle
<1>20. Downgrades'
  <2>1. \A d, e \in Cache : ~FwdS(d, e)' /\ ~Dat(d, Directory)'
    BY <1>1, <1>4, <1>5, <1>i, NodeFacts DEF Downgrades
  <2> QED BY <2>1 DEF Downgrades
<1> QED BY <1>6, <1>12, <1>13, <1>14, <1>15, <1>16, <1>17, <1>18, <1>19, <1>20
        DEF CoherenceInv, Transactions, WriteRight, Copies

-----------------------------------------------------------------------------
(* Gets.                                                                   *)

\* transition({I, S}, GetS, S_m).
LEMMA GetSKeeps ==
  ASSUME ProtocolInv, GetS, UNCHANGED <<cacheState, acks>>
  PROVE  CoherenceInv'
<1>i. /\ TypeOK /\ ForwardShape /\ ResponseShape /\ RequestShape /\ MemoryShape
      /\ \A d \in Cache : /\ AskedForBy(d) /\ EvictionOf(d) /\ GrantsFor(d)
                          /\ OwnershipOf(d)
                          /\ SharerHolds(d) /\ CopyTracked(d) /\ AckCountOf(d)
      /\ \A d, e \in Cache : Invalidated(d, e)
      /\ DirEntryByState /\ OneSource /\ NoCycle /\ Downgrades
  BY Parts
<1>1. /\ UNCHANGED <<owner, memResponse, request, forward, response>>
      /\ SendMemRead(Req.requestor)
      /\ dirState \in {"I", "S"} /\ dirState' = "S_m"
      /\ sharers' = sharers \union {Req.requestor}
      /\ Takes({"I", "S"}, {"GetS"})
  BY DEF GetS, Takes, networkVars
<1>2. PICK r \in Cache :
        /\ Req.requestor = r
        /\ Asked(r) = {Req} /\ Asked(r)' = {}
        /\ \A d \in Cache \ {r} : Asked(d)' = Asked(d)
        /\ RequestShape'
        /\ ~PutAckTo(r) /\ ~MemRead(r)
        /\ \A d \in Cache : ~FwdS(d, r) /\ ~FwdM(d, r)
        /\ \A n \in Node : ~Dat(n, r)
        /\ WaitS(r)
  BY <1>1, Taken
<1>3. /\ \A d, e \in Cache : /\ InvFor(d, e)' <=> InvFor(d, e)
                             /\ FwdS(d, e)' <=> FwdS(d, e)
                             /\ FwdM(d, e)' <=> FwdM(d, e)
      /\ \A d \in Cache : PutAckTo(d)' <=> PutAckTo(d)
      /\ \A n, k \in Node : /\ Dat(n, k)' <=> Dat(n, k)
                            /\ Ack(n, k)' <=> Ack(n, k)
                            /\ response'[<<n, k>>] = response[<<n, k>>]
      /\ ForwardShape' /\ ResponseShape'
  BY <1>1, <1>i, ForwardKept, ResponseKept
<1>4. /\ \A d \in Cache : ~MemRead(d)
      /\ \A d \in Cache : MemRead(d)' <=> d = r
      /\ ChannelShapes'
  <2>1. (\A d \in Cache : MemRead(d)' <=> d = r) /\ MemoryShape'
    BY <1>1, <1>2, <1>i, StartRead
  <2> QED BY <1>1, <1>2, <1>3, <1>i, <2>1, MemoryReads DEF ChannelShapes
<1>5. AtHome /\ AtHome'
  BY <1>1 DEF AtHome
<1>6. ASSUME NEW d \in Cache PROVE Ackers(d)' = Ackers(d)
  BY <1>3, NodeFacts DEF Ackers
<1>7. ASSUME NEW d \in Cache, d # r PROVE Same(d)
  BY <1>2, <1>3, <1>4, <1>6, <1>7, NodeFacts DEF Same
<1>8. /\ WaitS(r)' /\ ~WaitM(r) /\ ~WaitAcks(r) /\ ~WaitM(r)' /\ ~WaitAcks(r)'
      /\ ~Evicting(r) /\ ~Evicting(r)'
      /\ Holds(r)' <=> Holds(r)
      /\ ~Source(r)' /\ ~Recalled(r)' /\ ~Promised(r)' /\ ~Awaits(r)'
  <2>1. /\ WaitS(r)' /\ ~WaitM(r) /\ ~WaitAcks(r) /\ ~WaitM(r)' /\ ~WaitAcks(r)'
        /\ ~Evicting(r) /\ ~Evicting(r)' /\ ~Exclusive(r)'
    BY <1>2 DEF WaitS, WaitM, WaitAcks, Evicting, Exclusive
  <2>2. Holds(r)' <=> Holds(r)
    BY <1>2, <1>3, <2>1, NodeFacts DEF Holds
  <2>3. ~Source(r)' /\ ~Awaits(r)'
    BY <2>1 DEF Source, Awaits
  <2>4. ~Recalled(r)'
    BY <1>3, <1>5, NoPromise DEF Recalled
  <2>5. ~Promised(r)'
    BY <1>2, <1>3, <2>3 DEF Promised
  <2> QED BY <2>1, <2>2, <2>3, <2>4, <2>5
<1>9. ASSUME NEW d \in Cache PROVE AskedForBy(d)' /\ EvictionOf(d)'
  <2>1. CASE d = r
    BY <1>2, <1>3, <1>8, <2>1 DEF AskedForBy, EvictionOf
  <2>2. CASE d # r
    BY <1>7, <1>i, <2>2, SameRequests
  <2> QED BY <2>1, <2>2
<1>10. ASSUME NEW d \in Cache PROVE GrantsFor(d)'
  <2>1. CASE d = r
    BY <1>1, <1>2, <1>3, <1>8, <2>1, NodeFacts DEF GrantsFor
  <2>2. CASE d # r
    BY <1>4, <1>7, <1>i, <2>2, SameGrants
  <2> QED BY <2>1, <2>2
<1>11. ASSUME NEW d \in Cache PROVE OwnershipOf(d)'
  <2>1. CASE d = r
    BY <1>1, <1>5, <1>8, <2>1, NoPromise DEF OwnershipOf
  <2>2. CASE d # r
    BY <1>1, <1>7, <1>i, <2>2, SameOwnership
  <2> QED BY <2>1, <2>2
<1>12. ASSUME NEW d \in Cache PROVE SharerHolds(d)'
  <2>1. CASE d = r
    BY <1>2, <1>3, <1>4, <1>5, <2>1 DEF SharerHolds
  <2>2. CASE d # r
    BY <1>1, <1>2, <1>5, <1>7, <1>i, <2>2, SameSharer
  <2> QED BY <2>1, <2>2
<1>13. ASSUME NEW d \in Cache PROVE CopyTracked(d)'
  <2>1. CASE d = r
    BY <1>1, <1>2, <1>5, <2>1 DEF CopyTracked
  <2>2. CASE d # r
    BY <1>1, <1>5, <1>7, <1>i, <2>2, SameCopy
  <2> QED BY <2>1, <2>2
<1>14. ASSUME NEW d \in Cache PROVE AckCountOf(d)'
  <2>1. CASE d = r
    BY <1>2, <1>3, <1>8, <1>i, <2>1, NodeFacts DEF AckCountOf
  <2>2. CASE d # r
    <3>1. AcksAnnounced(d)' = AcksAnnounced(d)
      BY <1>1, <1>3, NodeFacts DEF AcksAnnounced
    <3> QED BY <1>7, <1>i, <2>2, <3>1, SameAckCount
  <2> QED BY <2>1, <2>2
<1>15. ASSUME NEW d \in Cache, NEW e \in Cache PROVE Invalidated(d, e)'
  <2>1. ~Awaits(e)
    BY <1>5, AwaitsSource, NoPromise
  <2> QED BY <1>3, <1>i, <2>1, NodeFacts DEF Invalidated
<1>16. OneSource' /\ NoCycle'
  <2>1. \A d \in Cache : ~Source(d)'
    BY <1>5, <1>7, <1>8, NoPromise, SameRole
  <2> QED BY <1>3, <1>i, <2>1 DEF OneSource, NoCycle
<1>17. Downgrades'
  <2>1. \A d, e \in Cache : ~FwdS(d, e)' /\ ~Dat(d, Directory)'
    BY <1>1, <1>3, <1>i, NodeFacts DEF Downgrades
  <2> QED BY <2>1 DEF Downgrades
<1> QED BY <1>4, <1>9, <1>10, <1>11, <1>12, <1>13, <1>14, <1>15, <1>16, <1>17
        DEF CoherenceInv, Transactions, WriteRight, Copies

\* While the directory has the right to write, no Inv is under way, and a
\* sharer has nothing from the directory waiting.
LEMMA HomeQuiet ==
  ASSUME ProtocolInv, dirState \in {"I", "S"}
  PROVE  /\ AtHome /\ owner = {} /\ \A d \in Cache : ~MemRead(d)
         /\ \A d \in Cache : ~Source(d) /\ ~Recalled(d) /\ ~Awaits(d)
         /\ \A d, e \in Cache : ~InvFor(d, e) /\ ~Ack(d, e) /\ ~FwdS(d, e) /\ ~FwdM(d, e)
         /\ \A d \in Cache : ~Dat(d, Directory)
         /\ \A d \in Cache : Ackers(d) = {}
         /\ \A d \in sharers : /\ ~PutAckTo(d)
                               /\ Holds(d) \/ cacheState[d] = "SI_A"
         /\ \A d \in Cache : Holds(d) => d \in sharers
<1>i. /\ TypeOK /\ MemoryShape /\ DirEntryByState /\ Downgrades
      /\ \A d \in Cache : SharerHolds(d) /\ CopyTracked(d)
      /\ \A d, e \in Cache : Invalidated(d, e)
  BY Parts
<1>1. AtHome
  BY DEF AtHome
<1>2. \A d \in Cache : ~Source(d) /\ ~Recalled(d) /\ ~Awaits(d)
  BY <1>1, NoPromise, AwaitsSource
<1>3. \A d, e \in Cache : ~InvFor(d, e) /\ ~Ack(d, e) /\ ~FwdS(d, e) /\ ~FwdM(d, e)
  BY <1>2, <1>i DEF Invalidated, Recalled
<1>4. \A d \in Cache : ~MemRead(d)
  BY <1>i, MemoryReads
<1>5. \A d \in Cache : Ackers(d) = {}
  BY <1>3 DEF Ackers
<1>6. \A d \in sharers : ~PutAckTo(d) /\ (Holds(d) \/ cacheState[d] = "SI_A")
  <2>1. \A d \in sharers : d \in Cache
    BY <1>i DEF TypeOK, DirTypeOK
  <2> QED BY <1>i, <1>3, <1>4, <2>1 DEF SharerHolds
<1>7. \A d \in Cache : Holds(d) => d \in sharers
  BY <1>2, <1>3, <1>i DEF CopyTracked
<1>8. owner = {} /\ \A d \in Cache : ~Dat(d, Directory)
  BY <1>i DEF DirEntryByState, Downgrades
<1> QED BY <1>1, <1>2, <1>3, <1>4, <1>5, <1>6, <1>7, <1>8

\* transition(I, GetM, M_m) and transition(S, GetM, M_m).
LEMMA WriteMissKeeps ==
  ASSUME ProtocolInv, GetM \/ GetMInvalidate, UNCHANGED <<cacheState, acks>>
  PROVE  CoherenceInv'
<1>i. /\ TypeOK /\ ForwardShape /\ ResponseShape /\ RequestShape /\ MemoryShape
      /\ \A d \in Cache : /\ AskedForBy(d) /\ EvictionOf(d) /\ GrantsFor(d)
                          /\ OwnershipOf(d)
                          /\ SharerHolds(d) /\ CopyTracked(d) /\ AckCountOf(d)
      /\ DirEntryByState
  BY Parts
<1>1. /\ UNCHANGED <<memResponse, request, response>>
      /\ SendMemRead(Req.requestor)
      /\ dirState \in {"I", "S"} /\ dirState' = "M_m"
      /\ owner' = owner \union {Req.requestor}
      /\ Takes({"I", "S"}, {"GetM"})
      /\ \/ dirState = "I" /\ UNCHANGED <<sharers, forward>>
         \/ /\ sharers' = sharers \ {Req.requestor}
            /\ forward' = Multicast(forward, sharers', Request("Inv", Req.requestor, NoValue))
  BY DEF GetM, GetMInvalidate, Takes, networkVars
<1>2. PICK r \in Cache :
        /\ Req.requestor = r
        /\ Asked(r) = {Req} /\ Asked(r)' = {}
        /\ \A d \in Cache \ {r} : Asked(d)' = Asked(d)
        /\ RequestShape'
        /\ ~PutAckTo(r) /\ ~MemRead(r)
        /\ \A d \in Cache : ~FwdS(d, r) /\ ~FwdM(d, r)
        /\ \A n \in Node : ~Dat(n, r)
        /\ WaitM(r)
  BY <1>1, Taken
<1>3. /\ AtHome /\ owner = {} /\ \A d \in Cache : ~MemRead(d)
      /\ \A d \in Cache : ~Source(d) /\ ~Recalled(d) /\ ~Awaits(d)
      /\ \A d, e \in Cache : ~InvFor(d, e) /\ ~Ack(d, e) /\ ~FwdS(d, e) /\ ~FwdM(d, e)
      /\ \A d \in Cache : ~Dat(d, Directory)
      /\ \A d \in Cache : Ackers(d) = {}
      /\ \A d \in sharers : /\ ~PutAckTo(d)
                            /\ Holds(d) \/ cacheState[d] = "SI_A"
      /\ \A d \in Cache : Holds(d) => d \in sharers
  BY <1>1, HomeQuiet
<1>4. owner' = {r} /\ sharers' = sharers \ {r} /\ sharers \subseteq Cache
  <2>1. dirState = "I" => sharers = {}
    BY <1>i DEF DirEntryByState
  <2>2. sharers \subseteq Cache
    BY <1>i DEF TypeOK, DirTypeOK
  <2> QED BY <1>1, <1>2, <1>3, <2>1, <2>2
<1>5. /\ \A d, e \in Cache : /\ InvFor(d, e)' <=> d \in sharers' /\ e = r
                             /\ ~FwdS(d, e)' /\ ~FwdM(d, e)'
      /\ \A d \in Cache : PutAckTo(d)' <=> PutAckTo(d)
      /\ ForwardShape'
  <2>1. CASE dirState = "I" /\ UNCHANGED <<sharers, forward>>
    <3>1. sharers' = {}
      BY <1>i, <2>1 DEF DirEntryByState
    <3> QED BY <1>3, <1>i, <2>1, <3>1, ForwardKept
  <2>2. CASE forward' = Multicast(forward, sharers', Request("Inv", Req.requestor, NoValue))
    <3>1. PICK D \in SUBSET Cache : D = sharers'
      BY <1>4
    <3>2. forward' = Multicast(forward, D, Request("Inv", r, NoValue))
      BY <1>2, <2>2, <3>1
    <3>3. \A d \in D : /\ \A e \in Cache : ~InvFor(d, e) /\ ~FwdS(d, e) /\ ~FwdM(d, e)
                       /\ ~PutAckTo(d)
      BY <1>3, <1>4, <3>1
    <3>4. /\ \A d, e \in Cache :
                /\ InvFor(d, e)' <=> InvFor(d, e) \/ (d \in D /\ e = r)
                /\ FwdS(d, e)' <=> FwdS(d, e)
                /\ FwdM(d, e)' <=> FwdM(d, e)
          /\ \A d \in Cache : PutAckTo(d)' <=> PutAckTo(d)
          /\ ForwardShape'
      BY <1>i, <3>2, <3>3, SendInv
    <3> QED BY <1>3, <3>1, <3>4
  <2> QED BY <1>1, <2>1, <2>2
<1>6. /\ \A n, k \in Node : /\ Dat(n, k)' <=> Dat(n, k)
                            /\ Ack(n, k)' <=> Ack(n, k)
                            /\ response'[<<n, k>>] = response[<<n, k>>]
      /\ ResponseShape'
  BY <1>1, <1>i, ResponseKept
<1>7. /\ \A d \in Cache : MemRead(d)' <=> d = r
      /\ ChannelShapes'
  <2>1. (\A d \in Cache : MemRead(d)' <=> d = r) /\ MemoryShape'
    BY <1>1, <1>2, <1>i, StartRead
  <2> QED BY <1>2, <1>5, <1>6, <2>1 DEF ChannelShapes
<1>8. /\ Ackers(r)' = sharers'
      /\ \A d \in Cache \ {r} : Ackers(d)' = {}
  BY <1>3, <1>4, <1>5, <1>6, NodeFacts DEF Ackers
<1>9. ASSUME NEW d \in Cache
      PROVE  /\ WaitS(d)' <=> WaitS(d)
             /\ WaitM(d)' <=> WaitM(d)
             /\ WaitAcks(d)' <=> WaitAcks(d)
             /\ Evicting(d)' <=> Evicting(d)
             /\ Holds(d)' <=> Holds(d)
             /\ ~Recalled(d)' /\ ~Exclusive(d)'
             /\ Source(d)' <=> d = r
             /\ Promised(d)' <=> d = r
             /\ ~WaitAcks(d)
  <2>1. /\ WaitS(d)' <=> WaitS(d)
        /\ WaitM(d)' <=> WaitM(d)
        /\ WaitAcks(d)' <=> WaitAcks(d)
        /\ Evicting(d)' <=> Evicting(d)
    BY StillStates
  <2>2. Holds(d)' <=> Holds(d)
    BY <1>6, <2>1, NodeFacts DEF Holds
  <2>3. ~Recalled(d)'
    BY <1>5 DEF Recalled
  <2>4. ~Exclusive(d)'
    BY <1>3, <1>5, <2>3 DEF Exclusive, Source
  <2>5. Source(d)' <=> d = r
    BY <1>2, <1>3, <1>6, <1>7, <2>1, <2>4, NodeFacts DEF Source
  <2>6. Promised(d)' <=> d = r
    BY <1>5, <2>5 DEF Promised
  <2>7. ~WaitAcks(d)
    BY <1>3 DEF Awaits
  <2> QED BY <2>1, <2>2, <2>3, <2>4, <2>5, <2>6, <2>7
<1>10. ASSUME NEW d \in Cache PROVE AskedForBy(d)' /\ EvictionOf(d)'
  <2>1. CASE d = r
    <3>1. ~Evicting(r)
      BY <1>2, <1>i, Modes
    <3> QED BY <1>2, <1>5, <1>9, <2>1, <3>1 DEF AskedForBy, EvictionOf
  <2>2. CASE d # r
    BY <1>2, <1>5, <1>9, <1>i, <2>2 DEF AskedForBy, EvictionOf
  <2> QED BY <2>1, <2>2
<1>11. ASSUME NEW d \in Cache PROVE GrantsFor(d)'
  <2>1. \A e \in Cache : ~FwdS(e, d)' /\ ~FwdM(e, d)'
    BY <1>5
  <2>2. CASE d = r
    <3>1. /\ \A n \in Node : ~Dat(n, r)'
          /\ Asked(r)' = {} /\ WaitM(r)' /\ dirState' = "M_m" /\ r \in owner'
      BY <1>1, <1>2, <1>4, <1>6, <1>9, NodeFacts
    <3> QED BY <2>1, <2>2, <3>1 DEF GrantsFor
  <2>3. CASE d # r
    <3>1. ~MemRead(d)' /\ Asked(d)' = Asked(d)
      BY <1>2, <1>7, <2>3
    <3>2. \A n \in Node : Dat(n, d)' <=> Dat(n, d)
      BY <1>6, NodeFacts
    <3> QED BY <1>9, <1>i, <2>1, <3>1, <3>2 DEF GrantsFor
  <2> QED BY <2>2, <2>3
<1>12. ASSUME NEW d \in Cache PROVE OwnershipOf(d)'
  BY <1>4, <1>9 DEF OwnershipOf
<1>13. ASSUME NEW d \in Cache PROVE SharerHolds(d)'
  BY <1>1 DEF SharerHolds
<1>14. ASSUME NEW d \in Cache PROVE CopyTracked(d)'
  BY <1>3, <1>4, <1>5, <1>9 DEF CopyTracked
<1>15. ASSUME NEW d \in Cache PROVE AckCountOf(d)'
  <2>1. CASE d = r
    <3>1. response[<<Directory, r>>] = << >> /\ response'[<<Directory, r>>] = << >>
      BY <1>2, <1>6, <1>i, NodeFacts, ResponseKinds DEF ResponseShape
    <3>2. AcksAnnounced(r) = 0 /\ AcksAnnounced(r)' = Cardinality(sharers')
      BY <1>1, <1>4, <3>1 DEF AcksAnnounced
    <3>3. Cardinality(Ackers(r)) = 0
      BY <1>3, FS_EmptySet
    <3>4. acks[r] \in Int /\ acks[r] <= 0
          /\ acks[r] + AcksAnnounced(r) = Cardinality(Ackers(r))
      BY <1>2, <1>i DEF AckCountOf, TypeOK, CacheTypeOK
    <3>5. acks[r] = 0
      BY <3>2, <3>3, <3>4
    <3>6. Cardinality(sharers') \in Nat /\ Cardinality(Ackers(r)') = Cardinality(sharers')
      BY <1>4, <1>8, NodeAssumption, FS_Subset, FS_CardinalityType
    <3>7. /\ acks'[r] <= 0
          /\ acks'[r] + AcksAnnounced(r)' = Cardinality(Ackers(r)')
      BY <3>2, <3>5, <3>6
    <3>8. WaitM(r)' /\ ~WaitS(r)' /\ ~WaitAcks(r)'
      BY <1>2, <1>9, <1>i, Modes
    <3> QED BY <2>1, <3>7, <3>8 DEF AckCountOf
  <2>2. CASE d # r
    <3>1. AcksAnnounced(d)' = AcksAnnounced(d)
      BY <1>1, <1>4, <1>6, <2>2, NodeFacts DEF AcksAnnounced
    <3>2. Ackers(d)' = Ackers(d)
      BY <1>3, <1>8, <2>2
    <3> QED BY <1>6, <1>9, <1>i, <3>1, <3>2, NodeFacts DEF AckCountOf
  <2> QED BY <2>1, <2>2
<1>16. ASSUME NEW d \in Cache, NEW e \in Cache PROVE Invalidated(d, e)'
  <2>1. ~Ack(d, e)'
    BY <1>3, <1>6, NodeFacts
  <2>2. Awaits(r)'
    BY <1>2, <1>7, <1>9 DEF Awaits
  <2> QED BY <1>3, <1>4, <1>5, <1>9, <2>1, <2>2 DEF Invalidated
<1>17. OneSource' /\ NoCycle'
  <2>1. OneSource'
    BY <1>9 DEF OneSource
  <2>2. NoCycle'
    BY <1>5 DEF NoCycle
  <2> QED BY <2>1, <2>2
<1>18. Downgrades'
  <2>1. \A d, e \in Cache : ~FwdS(d, e)' /\ ~Dat(d, Directory)'
    BY <1>3, <1>5, <1>6, NodeFacts
  <2> QED BY <2>1 DEF Downgrades
<1> QED BY <1>7, <1>10, <1>11, <1>12, <1>13, <1>14, <1>15, <1>16, <1>17, <1>18
        DEF CoherenceInv, Transactions, WriteRight, Copies

\* transition(M, GetS, S_D) and transition(M, GetM): the owner o is told to give
\* the line to r, and everything else stays as it is.
LEMMA RecallKeeps ==
  ASSUME ProtocolInv, GetSFromOwner \/ GetMFromOwner, UNCHANGED <<cacheState, acks>>
  PROVE  CoherenceInv'
<1>i. /\ TypeOK /\ ForwardShape /\ ResponseShape /\ RequestShape /\ MemoryShape
      /\ \A d \in Cache : /\ AskedForBy(d) /\ EvictionOf(d) /\ GrantsFor(d)
                          /\ OwnershipOf(d)
                          /\ SharerHolds(d) /\ CopyTracked(d) /\ AckCountOf(d)
      /\ \A d, e \in Cache : Invalidated(d, e)
      /\ DirEntryByState /\ OneSource /\ NoCycle /\ Downgrades
  BY Parts
<1>t. PICK type \in {"GetS", "GetM"} :
        /\ UNCHANGED <<memRequest, memResponse, request, response>>
        /\ forward' = Multicast(forward, owner, Request(type, Req.requestor, NoValue))
        /\ dirState = "M" /\ Takes({"M"}, {type})
        /\ type = "GetS" => /\ dirState' = "S_D" /\ owner' = {}
                            /\ sharers' = sharers \union {Req.requestor} \union owner
        /\ type = "GetM" => /\ dirState' = "M" /\ owner' = {Req.requestor}
                            /\ sharers' = sharers
  BY DEF GetSFromOwner, GetMFromOwner, Takes
<1>1. PICK r \in Cache :
        /\ Req.requestor = r
        /\ Asked(r) = {Req} /\ Asked(r)' = {}
        /\ \A d \in Cache \ {r} : Asked(d)' = Asked(d)
        /\ RequestShape'
        /\ ~PutAckTo(r) /\ ~MemRead(r)
        /\ \A d \in Cache : ~FwdS(d, r) /\ ~FwdM(d, r)
        /\ \A n \in Node : ~Dat(n, r)
        /\ type = "GetS" => WaitS(r)
        /\ type = "GetM" => WaitM(r)
  BY <1>t, Taken
<1>2. PICK o \in Cache : owner = {o}
  BY <1>t, <1>i DEF DirEntryByState
<1>3. ~Source(r) /\ ~Promised(r) /\ ~Recalled(r) /\ r # o /\ ~Evicting(r)
  <2>1. ~Evicting(r)
    BY <1>1, <1>i, Modes
  <2>2. Asked(r) # {}
    BY <1>1
  <2> QED BY <1>2, <2>1, <2>2, AskingPromised
<1>4. ~Recalled(o) /\ ~PutAckTo(o) /\ Promised(o)
  BY <1>2, OwnerReady
<1>5. /\ \A d, e \in Cache :
           /\ InvFor(d, e)' <=> InvFor(d, e)
           /\ FwdS(d, e)' <=> FwdS(d, e) \/ (type = "GetS" /\ d = o /\ e = r)
           /\ FwdM(d, e)' <=> FwdM(d, e) \/ (type = "GetM" /\ d = o /\ e = r)
      /\ \A d \in Cache : PutAckTo(d)' <=> PutAckTo(d)
      /\ ForwardShape'
  <2>1. forward' = Multicast(forward, {o}, Request(type, r, NoValue))
    BY <1>t, <1>1, <1>2
  <2> QED BY <1>t, <1>4, <1>i, <2>1, SendRecall
<1>6. /\ \A n, k \in Node : /\ Dat(n, k)' <=> Dat(n, k)
                            /\ Ack(n, k)' <=> Ack(n, k)
                            /\ response'[<<n, k>>] = response[<<n, k>>]
      /\ ResponseShape'
  BY <1>t, <1>i, ResponseKept
<1>7. /\ \A d \in Cache : ~MemRead(d) /\ ~MemRead(d)'
      /\ ChannelShapes'
  <2>1. /\ \A d \in Cache : MemRead(d)' <=> MemRead(d)
        /\ MemoryShape'
    BY <1>t, <1>i, MemoryKept
  <2>2. \A d \in Cache : ~MemRead(d)
    BY <1>t, <1>i, MemoryReads
  <2> QED BY <1>1, <1>5, <1>6, <2>1, <2>2 DEF ChannelShapes
<1>8. /\ sharers = {}
      /\ \A d \in Cache : ~Dat(d, Directory) /\ ~Dat(d, Directory)'
      /\ \A d, e \in Cache : ~FwdS(d, e)
      /\ ~AtHome /\ ~AtHome'
  <2>1. sharers = {} /\ ~AtHome
    BY <1>t, <1>i DEF DirEntryByState, AtHome
  <2>2. /\ \A d \in Cache : ~Dat(d, Directory) /\ ~Dat(d, Directory)'
        /\ \A d, e \in Cache : ~FwdS(d, e)
    BY <1>t, <1>6, <1>i, NodeFacts DEF Downgrades
  <2>3. ~AtHome'
    BY <1>t, <2>2 DEF AtHome
  <2> QED BY <2>1, <2>2, <2>3
<1>9. ASSUME NEW d \in Cache PROVE Ackers(d)' = Ackers(d)
  BY <1>5, <1>6, NodeFacts DEF Ackers
<1>10. ASSUME NEW d \in Cache, d # r, d # o PROVE Same(d)
  BY <1>1, <1>5, <1>6, <1>7, <1>9, <1>10, NodeFacts DEF Same
<1>11. ASSUME NEW d \in Cache
       PROVE  /\ WaitS(d)' <=> WaitS(d)
              /\ WaitM(d)' <=> WaitM(d)
              /\ WaitAcks(d)' <=> WaitAcks(d)
              /\ Evicting(d)' <=> Evicting(d)
              /\ Holds(d)' <=> Holds(d)
              /\ Awaits(d)' <=> Awaits(d)
              /\ Exclusive(d)' <=> Exclusive(d)
              /\ Source(d)' <=> Source(d)
              /\ Recalled(d)' <=> Recalled(d) \/ d = o
              /\ Promised(d)' <=> Promised(d) \/ (type = "GetM" /\ d = r)
  <2>1. /\ WaitS(d)' <=> WaitS(d)
        /\ WaitM(d)' <=> WaitM(d)
        /\ WaitAcks(d)' <=> WaitAcks(d)
        /\ Evicting(d)' <=> Evicting(d)
    BY StillStates
  <2>2. (Holds(d)' <=> Holds(d)) /\ (Awaits(d)' <=> Awaits(d))
    BY <1>6, <1>7, <2>1, NodeFacts DEF Holds, Awaits
  <2>3. Recalled(d)' <=> Recalled(d) \/ d = o
    BY <1>5 DEF Recalled
  <2>4. Exclusive(d)' <=> Exclusive(d)
    BY <1>4, <1>5, <2>3 DEF Exclusive
  <2>5. Source(d)' <=> Source(d)
    BY <1>6, <1>7, <2>1, <2>4, NodeFacts DEF Source
  <2>6. Promised(d)' <=> Promised(d) \/ (type = "GetM" /\ d = r)
    BY <1>5, <2>5 DEF Promised
  <2> QED BY <2>1, <2>2, <2>3, <2>4, <2>5, <2>6
<1>12. ASSUME NEW d \in Cache PROVE AskedForBy(d)' /\ EvictionOf(d)'
  <2>1. CASE d = r
    BY <1>1, <1>3, <1>5, <1>11, <2>1 DEF AskedForBy, EvictionOf
  <2>2. CASE d # r
    BY <1>1, <1>5, <1>11, <1>i, <2>2 DEF AskedForBy, EvictionOf
  <2> QED BY <2>1, <2>2
<1>13. ASSUME NEW d \in Cache PROVE GrantsFor(d)'
  <2>1. CASE d = r
    <3>1. /\ ~MemRead(r)' /\ Asked(r)' = {}
          /\ \A n \in Node : ~Dat(n, r)'
      BY <1>1, <1>6, <1>7, NodeFacts
    <3>2. \A e \in Cache : FwdS(e, r)' \/ FwdM(e, r)' => e = o
      BY <1>1, <1>5
    <3>3. \A e \in Cache : (FwdS(e, r)' => WaitS(r)') /\ (FwdM(e, r)' => WaitM(r)')
      BY <1>1, <1>5, <1>11
    <3> QED BY <1>3, <2>1, <3>1, <3>2, <3>3 DEF GrantsFor
  <2>2. CASE d # r
    <3>1. /\ Asked(d)' = Asked(d) /\ ~MemRead(d)' /\ ~MemRead(d)
          /\ \A n \in Node : Dat(n, d)' <=> Dat(n, d)
          /\ \A e \in Cache : (FwdS(e, d)' <=> FwdS(e, d)) /\ (FwdM(e, d)' <=> FwdM(e, d))
      BY <1>1, <1>5, <1>6, <1>7, <2>2, NodeFacts
    <3> QED BY <1>11, <1>i, <3>1 DEF GrantsFor
  <2> QED BY <2>1, <2>2
<1>14. ASSUME NEW d \in Cache PROVE OwnershipOf(d)'
  BY <1>t, <1>1, <1>2, <1>3, <1>4, <1>11, <1>i DEF OwnershipOf
<1>15. ASSUME NEW d \in Cache PROVE SharerHolds(d)'
  <2>1. d \in sharers' => type = "GetS" /\ (d = r \/ d = o)
    BY <1>t, <1>1, <1>2, <1>8
  <2> QED BY <1>1, <1>4, <1>5, <2>1 DEF SharerHolds
<1>16. ASSUME NEW d \in Cache PROVE CopyTracked(d)'
  BY <1>5, <1>8, <1>11, <1>i DEF CopyTracked
<1>17. ASSUME NEW d \in Cache PROVE AckCountOf(d)'
  <2>1. AcksAnnounced(d)' = AcksAnnounced(d)
    BY <1>t, <1>6, NodeFacts DEF AcksAnnounced
  <2> QED BY <1>6, <1>9, <1>11, <1>i, <2>1, NodeFacts DEF AckCountOf
<1>18. ASSUME NEW d \in Cache, NEW e \in Cache PROVE Invalidated(d, e)'
  BY <1>5, <1>6, <1>11, <1>i, NodeFacts DEF Invalidated
<1>19. OneSource'
  BY <1>11, <1>i DEF OneSource
<1>20. NoCycle'
  <2> SUFFICES ASSUME NEW Z \in SUBSET Cache, \A d \in Z : \E e \in Z : FwdM(d, e)'
               PROVE  Z = {}
    BY DEF NoCycle
  <2>1. r \notin Z
    BY <1>3, <1>5 DEF Recalled
  <2>2. \A d \in Z : \E e \in Z : FwdM(d, e)
    BY <1>5, <2>1
  <2> QED BY <1>i, <2>2 DEF NoCycle
<1>21. Downgrades'
  <2>1. ASSUME NEW d \in Cache, NEW e \in Cache, FwdS(d, e)'
        PROVE  d = o /\ e = r /\ type = "GetS"
    BY <1>5, <1>8, <2>1
  <2>2. type = "GetS" => dirState' = "S_D" /\ r \in sharers' /\ o \in sharers'
    BY <1>t, <1>1, <1>2
  <2> QED BY <1>8, <2>1, <2>2 DEF Downgrades
<1> QED BY <1>7, <1>12, <1>13, <1>14, <1>15, <1>16, <1>17, <1>18, <1>19, <1>20, <1>21
        DEF CoherenceInv, Transactions, WriteRight, Copies

-----------------------------------------------------------------------------
(* The invariant.                                                          *)

\* Initially nothing is under way and nobody has the line.
LEMMA InitInv == Init => ProtocolInv
<1> SUFFICES ASSUME Init PROVE ProtocolInv
  OBVIOUS
<1>1. TypeOK
  BY InitType
<1>2. DirEntryByState
  BY DEF Init, DirInit, DirEntryByState
<1>3. /\ \A c \in Cache : /\ cacheState[c] = "I" /\ acks[c] = 0
                          /\ request[c] = << >> /\ forward[c] = << >>
      /\ \A n, k \in Node : response[<<n, k>>] = << >>
      /\ dirState = "I" /\ sharers = {} /\ owner = {}
      /\ requestQueue = << >> /\ memRequest = << >> /\ memResponse = << >>
  BY DEF Init, CacheInit, NetworkInit, DirInit
<1>4. /\ \A d, e \in Cache : ~InvFor(d, e) /\ ~FwdS(d, e) /\ ~FwdM(d, e)
      /\ \A d \in Cache : ~PutAckTo(d) /\ ~MemRead(d) /\ Asked(d) = {}
      /\ \A n, k \in Node : ~Dat(n, k) /\ ~Ack(n, k)
  BY <1>3, RangeOne DEF InvFor, FwdS, FwdM, PutAckTo, MemRead, Asked, Dat, Ack
<1>5. ASSUME NEW c \in Cache
      PROVE  /\ ~WaitS(c) /\ ~WaitM(c) /\ ~WaitAcks(c) /\ ~Evicting(c)
             /\ ~Recalled(c) /\ ~Exclusive(c) /\ ~Source(c) /\ ~Promised(c)
             /\ ~Holds(c)
  <2>1. ~WaitS(c) /\ ~WaitM(c) /\ ~WaitAcks(c) /\ ~Evicting(c)
    BY <1>3 DEF WaitS, WaitM, WaitAcks, Evicting
  <2>2. ~Recalled(c) /\ ~Exclusive(c)
    BY <1>3, <1>4 DEF Recalled, Exclusive
  <2>3. ~Source(c) /\ ~Holds(c)
    BY <1>3, <2>1, <2>2 DEF Source, Holds
  <2> QED BY <1>4, <2>1, <2>2, <2>3 DEF Promised
<1>6. ChannelShapes
  <2>1. ForwardShape
    BY <1>3, RangeOne DEF ForwardShape, Ranked
  <2>2. ResponseShape
    <3>1. Len(<< >>) <= 1
      OBVIOUS
    <3> QED BY <1>3, <1>4, <3>1, NodeFacts DEF ResponseShape
  <2>3. RequestShape
    <3>1. Len(<< >>) <= 1
      OBVIOUS
    <3> QED BY <1>3, <3>1, RangeOne DEF RequestShape
  <2>4. MemoryShape
    BY <1>3 DEF MemoryShape
  <2> QED BY <2>1, <2>2, <2>3, <2>4 DEF ChannelShapes
<1>7. Transactions
  <2> SUFFICES ASSUME NEW c \in Cache
               PROVE  AskedForBy(c) /\ EvictionOf(c) /\ GrantsFor(c)
    BY DEF Transactions
  <2>1. AskedForBy(c)
    BY <1>4 DEF AskedForBy
  <2>2. EvictionOf(c)
    BY <1>4, <1>5 DEF EvictionOf
  <2>3. c \in Node
    BY NodeFacts
  <2>4. GrantsFor(c)
    BY <1>4, <2>3 DEF GrantsFor
  <2> QED BY <2>1, <2>2, <2>4
<1>8. WriteRight
  <2>1. \A c \in Cache : OwnershipOf(c)
    BY <1>3, <1>5 DEF OwnershipOf
  <2>2. OneSource /\ NoCycle
    BY <1>4, <1>5 DEF OneSource, NoCycle
  <2>3. Downgrades
    BY <1>4, NodeFacts DEF Downgrades
  <2> QED BY <2>1, <2>2, <2>3 DEF WriteRight
<1>9. Copies
  <2>1. \A d, c \in Cache : Invalidated(d, c)
    BY <1>4, NodeFacts DEF Invalidated
  <2>2. \A d \in Cache : SharerHolds(d) /\ CopyTracked(d)
    BY <1>3, <1>5 DEF SharerHolds, CopyTracked
  <2>3. \A d \in Cache : AckCountOf(d)
    BY <1>3, <1>5 DEF AckCountOf
  <2> QED BY <2>1, <2>2, <2>3 DEF Copies
<1> QED BY <1>1, <1>2, <1>6, <1>7, <1>8, <1>9 DEF ProtocolInv, CoherenceInv

\* The steps of a cache.
LEMMA CacheStepKeeps ==
  ASSUME ProtocolInv, NEW c \in Cache, AtCache(CacheStep(c))
  PROVE  CoherenceInv'
<1>1. UNCHANGED dirVars
  BY DEF AtCache
<1>2. CASE Processor(c) \/ MandatoryIn(c)
  <2>1. CASE UNCHANGED <<cacheState, acks, networkVars, dirVars>>
    BY <2>1, FrameKeeps DEF networkVars, dirVars
  <2> QED BY <1>1, <1>2, <2>1, MandatoryKeeps DEF AtCache
<1>3. CASE ResponseIn(c)
  <2>1. PICK n \in Node : \/ LoadDone(c, n)
                          \/ \E v \in Value : StoreDone(c, n, v)
                          \/ StoreData(c, n)
                          \/ CountInvAck(c, n)
    BY <1>3 DEF ResponseIn
  <2>2. CASE LoadDone(c, n)
    BY <1>1, <2>2, LoadDoneKeeps
  <2>3. ASSUME NEW v \in Value, StoreDone(c, n, v) PROVE CoherenceInv'
    BY <1>1, <2>3, StoreDoneByData, StoreDoneByAcks DEF StoreDone, WaitM, WaitAcks
  <2>4. CASE StoreData(c, n)
    BY <1>1, <2>4, StoreDataKeeps
  <2>5. CASE CountInvAck(c, n)
    BY <1>1, <2>5, CountInvAckKeeps
  <2> QED BY <2>1, <2>2, <2>3, <2>4, <2>5
<1>4. CASE ForwardIn(c)
  BY <1>1, <1>4, RecvInvKeeps, RecvFwdGetSKeeps, RecvFwdGetMKeeps, RecvPutAckKeeps
  DEF ForwardIn
<1> QED BY <1>2, <1>3, <1>4 DEF AtCache, CacheStep

\* The steps of the directory.
LEMMA DirStepKeeps ==
  ASSUME ProtocolInv, AtDirectory(DirStep)
  PROVE  CoherenceInv'
<1>1. UNCHANGED <<cacheState, acks>> /\ DirStep
  BY DEF AtDirectory, cacheVars
<1>2. ASSUME NEW c \in Cache, DeliverRequest(c) PROVE CoherenceInv'
  BY <1>1, <1>2, DeliverKeeps
<1>3. ASSUME NEW c \in Cache, RecvOwnerData(c) PROVE CoherenceInv'
  BY <1>1, <1>3, RecvOwnerDataKeeps
<1>4. CASE ServeMemory
  BY <1>1, <1>4, ServeMemoryKeeps
<1>5. CASE RequestIn
  BY <1>1, <1>5, GetSKeeps, WriteMissKeeps, RecallKeeps, PutSharedOrStaleKeeps, PutMOwnerKeeps
  DEF RequestIn
<1>6. CASE RecvMemData
  BY <1>1, <1>6, RecvMemDataKeeps
<1>7. CASE RecvMemAck
  BY <1>1, <1>7, RecvMemAckKeeps
<1> QED BY <1>1, <1>2, <1>3, <1>4, <1>5, <1>6, <1>7 DEF DirStep

\* Every step keeps the invariant.
LEMMA NextInv == ProtocolInv /\ [Next]_vars => ProtocolInv'
<1> SUFFICES ASSUME ProtocolInv, [Next]_vars PROVE ProtocolInv'
  OBVIOUS
<1>i. TypeOK /\ DirEntryByState
  BY Parts
<1>1. TypeOK'
  BY <1>i, TypeStep
<1>2. DirEntryByState'
  BY <1>i, EntryStep
<1>3. CoherenceInv'
  <2>1. ASSUME NEW c \in Cache, AtCache(CacheStep(c)) PROVE CoherenceInv'
    BY <2>1, CacheStepKeeps
  <2>2. CASE AtDirectory(DirStep)
    BY <2>2, DirStepKeeps
  <2>3. CASE Running /\ Panic
    BY <2>3, FrameKeeps DEF Panic, networkVars, cacheVars, dirVars
  <2>4. CASE UNCHANGED vars
    BY <2>4, FrameKeeps DEF vars, networkVars, cacheVars, dirVars
  <2> QED BY <2>1, <2>2, <2>3, <2>4 DEF Next, Halted
<1> QED BY <1>1, <1>2, <1>3 DEF ProtocolInv

\* The right to write the line, the copies of it and the messages about it are
\* where ProtocolInv says in every state the protocol reaches.
THEOREM ProtocolCorrect == Spec => []ProtocolInv
BY InitInv, NextInv, PTL DEF Spec

-----------------------------------------------------------------------------
(* Copies.                                                                 *)

\* A readable copy beside a cache in M would be known to the directory, which
\* has given the line away, or have an Inv on its way for a cache that still
\* waits for it.
LEMMA WriterAlone == ProtocolInv => SingleWriter
<1> SUFFICES ASSUME ProtocolInv, NEW c \in Cache, NEW d \in Cache, c # d,
                    cacheState[c] = "M", cacheState[d] \in Readable
             PROVE  FALSE
  BY DEF SingleWriter
<1>i. OneSource /\ CopyTracked(d) /\ \A e \in Cache : Invalidated(d, e)
  BY Parts
<1>1. Source(c) /\ ~Awaits(c)
  BY DEF Source, Exclusive, Awaits, WaitAcks, WaitM
<1>2. ~Source(d)
  BY <1>i, <1>1 DEF OneSource
<1>3. Holds(d)
  BY <1>2 DEF Readable, Source, Exclusive, Holds
<1>4. ~AtHome
  BY <1>1, NoPromise
<1>5. PICK e \in Cache : InvFor(d, e)
  BY <1>2, <1>3, <1>4, <1>i DEF CopyTracked
<1>6. Awaits(e)
  BY <1>5, <1>i DEF Invalidated
<1>7. e = c
  BY <1>1, <1>6, <1>i, AwaitsSource DEF OneSource
<1> QED BY <1>1, <1>6, <1>7

\* A message in a queue is at one of its indices.
LEMMA Pending ==
  ASSUME NEW d \in Cache, NEW m \in Range(forward[d]), NEW types, m.type \in types
  PROVE  ForwardPending(d, types)
<1>1. PICK i \in DOMAIN forward[d] : m = forward[d][i]
  BY DEF Range
<1> QED BY <1>1 DEF ForwardPending, InTransit

\* Every copy is in the directory's entry or about to be revoked.
LEMMA CopiesTracked == ProtocolInv => DirectoryTracksCopies
<1> SUFFICES ASSUME ProtocolInv, NEW c \in Cache
             PROVE  /\ cacheState[c] \in {"S", "SM_AD"} =>
                         c \in sharers \union owner \/ ForwardPending(c, {"Inv", "GetM"})
                    /\ cacheState[c] \in {"M", "SM_A"} =>
                         c \in owner \/ ForwardPending(c, {"GetS", "GetM"})
  BY DEF DirectoryTracksCopies
<1>i. CopyTracked(c) /\ OwnershipOf(c) /\ Downgrades
  BY Parts
<1>1. ASSUME NEW e \in Cache
      PROVE  /\ InvFor(c, e) => ForwardPending(c, {"Inv", "GetM"})
             /\ FwdM(c, e) => ForwardPending(c, {"Inv", "GetM"})
             /\ FwdM(c, e) \/ FwdS(c, e) => ForwardPending(c, {"GetS", "GetM"})
  BY Pending DEF InvFor, FwdM, FwdS, Request
<1>2. Promised(c) => c \in owner \/ \E e \in Cache : FwdS(c, e) \/ FwdM(c, e)
  BY <1>i DEF OwnershipOf, Recalled
<1>3. CASE cacheState[c] \in {"S", "SM_AD"}
  <2>1. Holds(c)
    BY <1>3 DEF Holds
  <2>2. \A e \in Cache : FwdS(c, e) => c \in sharers
    BY <1>3, <1>i DEF Downgrades
  <2>3. Source(c) => Promised(c)
    BY DEF Promised
  <2>4. \/ c \in sharers \/ c \in owner
        \/ \E e \in Cache : InvFor(c, e) \/ FwdM(c, e)
    BY <1>2, <2>1, <2>2, <2>3, <1>i DEF CopyTracked
  <2> QED BY <1>1, <1>3, <2>4
<1>4. CASE cacheState[c] \in {"M", "SM_A"}
  <2>1. Promised(c)
    BY <1>4 DEF Promised, Source, Exclusive
  <2> QED BY <1>1, <1>2, <1>4, <2>1
<1> QED BY <1>3, <1>4

-----------------------------------------------------------------------------
(* Counting the messages.                                                  *)

\* A set with at most one element.
LEMMA AtMostOne ==
  ASSUME NEW S, \A x, y \in S : x = y
  PROVE  Cardinality(S) = IF S = {} THEN 0 ELSE 1
<1>1. CASE S = {}
  BY <1>1, FS_EmptySet
<1>2. CASE S # {}
  <2>1. PICK x : x \in S
    BY <1>2
  <2>2. S = {x}
    BY <2>1
  <2> QED BY <1>2, <2>2, FS_Singleton
<1> QED BY <1>1, <1>2

\* Pairing the elements of a set with 1 does not change their number.
LEMMA Paired ==
  ASSUME NEW S, IsFiniteSet(S)
  PROVE  /\ IsFiniteSet({<<d, 1>> : d \in S})
         /\ Cardinality({<<d, 1>> : d \in S}) = Cardinality(S)
<1> DEFINE f == [d \in S |-> <<d, 1>>]
           T == {<<d, 1>> : d \in S}
<1>1. f \in Bijection(S, T)
  <2>1. f \in [S -> T]
    OBVIOUS
  <2>2. \A a, b \in S : f[a] = f[b] => a = b
    OBVIOUS
  <2>3. \A t \in T : \E s \in S : f[s] = t
    OBVIOUS
  <2> QED BY <2>1, <2>2, <2>3 DEF Bijection, Injection, Surjection, IsInjective
<1>2. ExistsBijection(S, T)
  BY <1>1 DEF ExistsBijection
<1> QED BY <1>2, FS_Bijection

\* The Invs and InvAcks for c, one of each cache of Ackers.
LEMMA AcksCounted ==
  ASSUME ProtocolInv, NEW c \in Cache
  PROVE  AcksPending(c) = Cardinality(Ackers(c))
<1>i. /\ TypeOK /\ ForwardShape /\ ResponseShape
      /\ \A d \in Cache : Invalidated(d, c)
  BY Parts
<1> DEFINE D == {d \in Cache : InvFor(d, c)}
           E == {d \in Cache : Ack(d, c)}
<1>1. /\ IsFiniteSet(D) /\ IsFiniteSet(E)
      /\ Cardinality(D) \in Nat /\ Cardinality(E) \in Nat
  <2>1. D \subseteq Cache /\ E \subseteq Cache
    OBVIOUS
  <2> HIDE DEF D, E
  <2> QED BY <2>1, NodeAssumption, FS_Subset, FS_CardinalityType
<1>2. D \intersect E = {} /\ Ackers(c) = D \union E
  BY <1>i DEF Invalidated, Ackers
<1>3. ASSUME NEW d \in Cache
      PROVE  InTransit(forward[d], LAMBDA m : m.type = "Inv" /\ m.requestor = c)
               = IF InvFor(d, c) THEN {1} ELSE {}
  <2>1. /\ forward[d] \in Seq(ForwardMsg) /\ Ranked(forward[d])
        /\ \A m \in Range(forward[d]) : ForwardForm(m)
    BY <1>i DEF TypeOK, NetworkTypeOK, ForwardShape
  <2>2. ASSUME NEW i \in DOMAIN forward[d]
        PROVE  forward[d][i].type = "Inv" /\ forward[d][i].requestor = c
                 <=> forward[d][i] = Request("Inv", c, NoValue)
    <3>1. ForwardForm(forward[d][i])
      BY <2>1 DEF Range
    <3>2. ASSUME NEW m, ForwardForm(m)
          PROVE  m.type = "Inv" /\ m.requestor = c <=> m = Request("Inv", c, NoValue)
      BY <3>2 DEF ForwardForm, Request
    <3> QED BY <3>1, <3>2
  <2>3. ASSUME NEW i \in DOMAIN forward[d], forward[d][i] = Request("Inv", c, NoValue)
        PROVE  i = 1
    <3>1. i \in Nat \ {0} /\ (i # 1 => 1 \in DOMAIN forward[d] /\ 1 < i)
      BY <2>1
    <3>2. ASSUME i # 1 PROVE FALSE
      <4>1. Rank(forward[d][1]) < Rank(forward[d][i])
        BY <2>1, <3>1, <3>2 DEF Ranked
      <4>2. Rank(forward[d][1]) \in Nat /\ Rank(forward[d][i]) = 0
        BY <2>3, RankNat, RankOf
      <4> QED BY <4>1, <4>2
    <3> QED BY <3>2
  <2>4. InvFor(d, c) <=> \E i \in DOMAIN forward[d] : forward[d][i] = Request("Inv", c, NoValue)
    BY DEF InvFor, Range
  <2> QED BY <2>2, <2>3, <2>4 DEF InTransit
<1>4. ASSUME NEW d \in Cache
      PROVE  InTransit(response[<<d, c>>], LAMBDA m : m.type = "InvAck")
               = IF Ack(d, c) THEN {1} ELSE {}
  <2>1. /\ response[<<d, c>>] \in Seq(ResponseMsg) /\ Len(response[<<d, c>>]) <= 1
    BY <1>i, NodeFacts DEF TypeOK, NetworkTypeOK, ResponseShape
  <2>2. CASE response[<<d, c>>] = << >>
    BY <2>2 DEF InTransit, Ack
  <2>3. CASE response[<<d, c>>] # << >>
    <3>1. DOMAIN response[<<d, c>>] = {1} /\ response[<<d, c>>][1] = Head(response[<<d, c>>])
      BY <2>1, <2>3
    <3> QED BY <2>3, <3>1 DEF InTransit, Ack
  <2> QED BY <2>2, <2>3
<1> DEFINE I(d) == InTransit(forward[d], LAMBDA m : m.type = "Inv" /\ m.requestor = c)
           A(d) == InTransit(response[<<d, c>>], LAMBDA m : m.type = "InvAck")
<1>5. InvsFor(c) = {<<d, 1>> : d \in D}
  <2>1. InvsFor(c) = UNION {{<<d, i>> : i \in I(d)} : d \in Cache}
    BY DEF InvsFor
  <2>2. \A d \in Cache : I(d) = IF d \in D THEN {1} ELSE {}
    BY <1>3
  <2>3. D \subseteq Cache
    OBVIOUS
  <2> HIDE DEF D, I
  <2> QED BY <2>1, <2>2, <2>3
<1>6. AcksFor(c) = {<<d, 1>> : d \in E}
  <2>1. AcksFor(c) = UNION {{<<d, i>> : i \in A(d)} : d \in Cache}
    BY DEF AcksFor
  <2>2. \A d \in Cache : A(d) = IF d \in E THEN {1} ELSE {}
    BY <1>4
  <2>3. E \subseteq Cache
    OBVIOUS
  <2> HIDE DEF E, A
  <2> QED BY <2>1, <2>2, <2>3
<1> HIDE DEF D, E
<1>7. Cardinality(InvsFor(c)) = Cardinality(D) /\ Cardinality(AcksFor(c)) = Cardinality(E)
  BY <1>1, <1>5, <1>6, Paired
<1>8. Cardinality(Ackers(c)) = Cardinality(D) + Cardinality(E)
  <2>1. Cardinality(D \intersect E) = 0
    BY <1>2, FS_EmptySet
  <2>2. Cardinality(D \union E) = Cardinality(D) + Cardinality(E) - Cardinality(D \intersect E)
    BY <1>1, FS_Union
  <2> QED BY <1>1, <1>2, <2>1, <2>2
<1> QED BY <1>7, <1>8 DEF AcksPending

\* The requests of c, at its own channel and in the directory's queue.
LEMMA RequestsCounted ==
  ASSUME ProtocolInv, NEW c \in Cache
  PROVE  RequestsOf(c) = IF Asked(c) = {} THEN 0 ELSE 1
<1>i. TypeOK /\ RequestShape
  BY Parts
<1> DEFINE Q == InTransit(requestQueue, LAMBDA m : m.requestor = c)
<1>1. request[c] \in Seq(RequestMsg) /\ requestQueue \in Seq(RequestMsg)
  BY <1>i DEF TypeOK, NetworkTypeOK, DirTypeOK
<1>2. \A i, j \in Q : i = j
  BY <1>i DEF RequestShape, InTransit
<1>3. Cardinality(Q) = IF Q = {} THEN 0 ELSE 1
  <2> HIDE DEF Q
  <2> QED BY <1>2, AtMostOne
<1>4. Q = {} <=> {m \in Range(requestQueue) : m.requestor = c} = {}
  BY DEF InTransit, Range
<1>5. CASE request[c] = << >>
  <2>1. Asked(c) = {} <=> Q = {}
    <3>1. Range(request[c]) = {}
      BY <1>5, RangeOne
    <3> HIDE DEF Q
    <3> QED BY <3>1, <1>4 DEF Asked
  <2>2. Len(request[c]) = 0
    BY <1>5
  <2>3. RequestsOf(c) = 0 + Cardinality(Q)
    BY <2>2 DEF RequestsOf
  <2> HIDE DEF Q
  <2> QED BY <1>3, <2>1, <2>3
<1>6. CASE request[c] # << >>
  <2>1. Q = {}
    <3>1. \A m \in Range(requestQueue) : m.requestor # c
      BY <1>6, <1>i DEF RequestShape
    <3> QED BY <3>1 DEF InTransit, Range
  <2>2. Len(request[c]) = 1
    <3>1. Len(request[c]) <= 1
      BY <1>i DEF RequestShape
    <3>2. Len(request[c]) \in Nat /\ Len(request[c]) # 0
      BY <1>1, <1>6
    <3>3. \A n \in Nat : n <= 1 /\ n # 0 => n = 1
      OBVIOUS
    <3> QED BY <3>1, <3>2, <3>3, Zenon
  <2>3. Asked(c) # {}
    <3>1. Head(request[c]) \in Range(request[c])
      BY <1>1, <1>6, RangeTail
    <3> QED BY <3>1 DEF Asked
  <2>4. RequestsOf(c) = 1 + Cardinality(Q)
    BY <2>2 DEF RequestsOf
  <2> HIDE DEF Q
  <2> QED BY <1>3, <2>1, <2>3, <2>4
<1> QED BY <1>5, <1>6

\* The PutAcks waiting for c.
LEMMA PutAcksCounted ==
  ASSUME ProtocolInv, NEW c \in Cache
  PROVE  PutAcksTo(c) = IF PutAckTo(c) THEN 1 ELSE 0
<1>i. TypeOK /\ ForwardShape
  BY Parts
<1> DEFINE P == InTransit(forward[c], LAMBDA m : m.type = "PutAck")
<1>1. /\ forward[c] \in Seq(ForwardMsg) /\ Ranked(forward[c])
      /\ \A m \in Range(forward[c]) : ForwardForm(m)
  BY <1>i DEF TypeOK, NetworkTypeOK, ForwardShape
<1>2. \A m : ForwardForm(m) => (m.type = "PutAck" <=> m = Request("PutAck", Directory, NoValue))
  BY DEF ForwardForm, Request
<1>3. \A i \in DOMAIN forward[c] :
        i \in P <=> forward[c][i] = Request("PutAck", Directory, NoValue)
  BY <1>1, <1>2 DEF InTransit, Range
<1>4. P # {} <=> PutAckTo(c)
  <2>1. P \subseteq DOMAIN forward[c]
    BY DEF InTransit
  <2> HIDE DEF P
  <2> QED BY <1>3, <2>1 DEF PutAckTo, Range
<1>5. ASSUME NEW i \in P, NEW j \in P PROVE i = j
  <2>1. i \in DOMAIN forward[c] /\ j \in DOMAIN forward[c]
    BY DEF InTransit
  <2>2. forward[c][i] = forward[c][j]
    BY <1>3, <2>1
  <2>3. Rank(forward[c][i]) \in Nat
    BY RankNat
  <2>4. ~(i < j) /\ ~(j < i)
    BY <1>1, <2>1, <2>2, <2>3 DEF Ranked
  <2>5. i \in Nat /\ j \in Nat
    BY <1>1, <2>1
  <2> QED BY <2>4, <2>5
<1>6. Cardinality(P) = IF P = {} THEN 0 ELSE 1
  <2> HIDE DEF P
  <2> QED BY <1>5, AtMostOne
<1>7. PutAcksTo(c) = Cardinality(P)
  BY DEF PutAcksTo
<1> HIDE DEF P
<1> QED BY <1>4, <1>6, <1>7

\* Whoever waits is sent exactly what it waits for.
LEMMA Accounted == ProtocolInv => MessagesAccounted
<1> SUFFICES ASSUME ProtocolInv PROVE MessagesAccounted
  OBVIOUS
<1>i. /\ TypeOK /\ MemoryShape
      /\ \A c \in Cache : EvictionOf(c) /\ AckCountOf(c)
      /\ \A d, c \in Cache : Invalidated(d, c)
  BY Parts
<1>1. AckAccounting
  <2> SUFFICES ASSUME NEW c \in Cache
               PROVE  CASE cacheState[c] \in {"IM_A", "SM_A"} ->
                             acks[c] > 0 /\ acks[c] = AcksPending(c)
                        [] cacheState[c] \in {"IM_AD", "SM_AD"} ->
                             acks[c] + AcksAnnounced(c) = AcksPending(c)
                        [] OTHER -> acks[c] = 0 /\ AcksPending(c) = 0
    BY DEF AckAccounting
  <2>1. AcksPending(c) = Cardinality(Ackers(c))
    BY AcksCounted
  <2>2. CASE WaitAcks(c)
    BY <1>i, <2>1, <2>2 DEF AckCountOf, WaitAcks
  <2>3. CASE WaitM(c)
    BY <1>i, <2>1, <2>3 DEF AckCountOf, WaitM
  <2>4. CASE ~WaitAcks(c) /\ ~WaitM(c)
    <3>1. \A d \in Cache : ~InvFor(d, c) /\ ~Ack(d, c)
      BY <1>i, <2>4 DEF Invalidated, Awaits
    <3>2. Cardinality(Ackers(c)) = 0
      BY <3>1, AckersFinite
    <3> QED BY <1>i, <2>1, <2>4, <3>2 DEF AckCountOf, WaitAcks, WaitM
  <2> QED BY <2>2, <2>3, <2>4
<1>2. EvictionHandshake
  <2> SUFFICES ASSUME NEW c \in Cache
               PROVE  PutAcksTo(c) + (IF Evicting(c) THEN RequestsOf(c) ELSE 0)
                        = (IF Evicting(c) THEN 1 ELSE 0)
    BY DEF EvictionHandshake, Evicting
  <2>1. EvictionOf(c)
    BY <1>i
  <2> QED BY <2>1, RequestsCounted, PutAcksCounted DEF EvictionOf
<1>3. OneRequestInFlight
  <2>1. \A c \in Cache : RequestsOf(c) <= 1
    BY RequestsCounted
  <2>2. Len(memRequest) + Len(memResponse) <= 1
    <3>1. \/ memRequest = << >> /\ memResponse = << >>
          \/ \E m : memRequest = <<m>> /\ memResponse = << >>
          \/ \E m : memRequest = << >> /\ memResponse = <<m>>
      BY <1>i DEF MemoryShape
    <3>2. Len(<< >>) = 0
      OBVIOUS
    <3>3. \A m : Len(<<m>>) = 1
      OBVIOUS
    <3>4. \/ Len(memRequest) = 0 /\ Len(memResponse) = 0
          \/ Len(memRequest) = 1 /\ Len(memResponse) = 0
          \/ Len(memRequest) = 0 /\ Len(memResponse) = 1
      BY <3>1, <3>2, <3>3, Zenon
    <3>5. 0 + 0 <= 1 /\ 1 + 0 <= 1 /\ 0 + 1 <= 1
      OBVIOUS
    <3> QED BY <3>4, <3>5, Zenon
  <2> QED BY <2>1, <2>2 DEF OneRequestInFlight
<1> QED BY <1>1, <1>2, <1>3 DEF MessagesAccounted

-----------------------------------------------------------------------------
(* Events without a transition.                                            *)

\* Who is asked to give the line up can be asked.
LEMMA RecalledReady ==
  ASSUME ProtocolInv, NEW c \in Cache, Recalled(c)
  PROVE  cacheState[c] \in {"M", "MI_A", "IM_AD", "IM_A", "SM_AD", "SM_A"}
<1>i. GrantsFor(c)
  BY Parts
<1>1. Promised(c)
  BY RecalledState
<1>2. CASE Source(c)
  BY <1>2 DEF Source, Exclusive, WaitM
<1>3. ASSUME NEW d \in Cache, FwdM(d, c)
      PROVE  cacheState[c] \in {"IM_AD", "SM_AD"}
  BY <1>3, <1>i DEF GrantsFor, WaitM
<1> QED BY <1>1, <1>2, <1>3 DEF Promised

\* A cache has a transition or a stall for every message, and the count it
\* asserts is not negative.
LEMMA CacheDefined ==
  ASSUME ProtocolInv, NEW c \in Cache
  PROVE  ~CacheUndefined(c)
<1>i. /\ TypeOK /\ ForwardShape /\ ResponseShape
      /\ EvictionOf(c) /\ GrantsFor(c) /\ AckCountOf(c)
      /\ \A d, e \in Cache : Invalidated(d, e)
  BY Parts
<1>1. ASSUME forward[c] # << >>
      PROVE  <<cacheState[c], Head(forward[c]).type>> \in ForwardDefined
  <2>1. Head(forward[c]) \in Range(forward[c])
    BY <1>1, <1>i, RangeTail DEF TypeOK, NetworkTypeOK
  <2>2. ASSUME NEW e \in Cache, InvFor(c, e)
        PROVE  cacheState[c] \in {"S", "SM_AD", "SI_A", "IS_D"}
    BY <2>2, <1>i DEF Invalidated, Holds, WaitS
  <2>3. ASSUME NEW e \in Cache, FwdS(c, e) \/ FwdM(c, e)
        PROVE  cacheState[c] \in {"M", "MI_A", "IM_AD", "IM_A", "SM_AD", "SM_A"}
    BY <2>3, RecalledReady DEF Recalled
  <2>4. ASSUME PutAckTo(c) PROVE cacheState[c] \in {"MI_A", "SI_A", "II_A"}
    BY <2>4, <1>i DEF EvictionOf, Evicting
  <2>5. \/ \E e \in Cache : Head(forward[c]) = Request("Inv", e, NoValue) /\ InvFor(c, e)
        \/ \E e \in Cache : Head(forward[c]) = Request("GetS", e, NoValue) /\ FwdS(c, e)
        \/ \E e \in Cache : Head(forward[c]) = Request("GetM", e, NoValue) /\ FwdM(c, e)
        \/ Head(forward[c]) = Request("PutAck", Directory, NoValue) /\ PutAckTo(c)
    BY <1>i, <2>1, ForwardKinds
  <2>6. \/ Head(forward[c]).type = "Inv" /\ \E e \in Cache : InvFor(c, e)
        \/ Head(forward[c]).type = "GetS" /\ \E e \in Cache : FwdS(c, e)
        \/ Head(forward[c]).type = "GetM" /\ \E e \in Cache : FwdM(c, e)
        \/ Head(forward[c]).type = "PutAck" /\ PutAckTo(c)
    <3>1. \A t, r, d : Request(t, r, d).type = t
      BY DEF Request
    <3> QED BY <2>5, <3>1
  <2> QED BY <2>2, <2>3, <2>4, <2>6 DEF ForwardDefined
<1>2. ASSUME NEW n \in Node, Arrives(c, n)
      PROVE  /\ <<cacheState[c], Event(c, n)>> \in ResponseDefined
             /\ n = Directory => Head(response[<<n, c>>]).acks + acks[c] >= 0
  <2>1. /\ Dat(n, c) \/ Ack(n, c)
        /\ acks[c] \in Int
    BY <1>2, <1>i, NodeFacts, ResponseKinds, ArrivalKinds DEF Arrives
  <2>2. CASE Dat(n, c)
    <3>1. WaitS(c) \/ WaitM(c)
      BY <2>2, <1>i DEF GrantsFor
    <3>2. Event(c, n) \in {"DataDirNoAcks", "DataDirAcks", "DataOwner"}
      <4>1. ~Ack(n, c)
        BY <2>2, <1>i, NodeFacts, ResponseKinds
      <4> QED BY <1>2, <4>1, ArrivalKinds
    <3>3. CASE WaitM(c)
      <4>1. <<cacheState[c], Event(c, n)>> \in ResponseDefined
        BY <3>2, <3>3 DEF WaitM, ResponseDefined
      <4>2. n = Directory => AcksAnnounced(c) = Head(response[<<n, c>>]).acks
        BY <1>2 DEF AcksAnnounced, Arrives
      <4>3. acks[c] + AcksAnnounced(c) = Cardinality(Ackers(c)) /\ Cardinality(Ackers(c)) \in Nat
        BY <3>3, <1>i, AckersFinite DEF AckCountOf
      <4>4. n = Directory => Head(response[<<n, c>>]).acks \in Nat
        BY <1>2, ArrivalKinds
      <4>5. n = Directory => Head(response[<<n, c>>]).acks + acks[c] >= 0
        BY <2>1, <4>2, <4>3, <4>4
      <4> QED BY <4>1, <4>5
    <3>4. CASE WaitS(c)
      <4>1. acks[c] = 0
        BY <3>4, <1>i, Modes DEF AckCountOf
      <4>2. n = Directory => Head(response[<<n, c>>]).acks = 0
        BY <2>2, <3>4, <1>i DEF AckCountOf
      <4>3. Event(c, n) \in {"DataDirNoAcks", "DataOwner"}
        BY <1>2, <3>2, <4>1, <4>2, ArrivalKinds
      <4> QED BY <3>4, <4>1, <4>2, <4>3 DEF WaitS, ResponseDefined
    <3> QED BY <3>1, <3>3, <3>4
  <2>3. CASE Ack(n, c)
    <3>1. n \in Cache
      BY <2>3, <1>i, NodeFacts DEF Node, ResponseShape
    <3>2. Awaits(c)
      BY <2>3, <3>1, <1>i DEF Invalidated
    <3>3. Event(c, n) \in {"LastInvAck", "InvAck"} /\ (Event(c, n) = "LastInvAck" <=> acks[c] = 1)
      <4>1. ~Dat(n, c)
        BY <2>3, <1>i, NodeFacts, ResponseKinds
      <4>2. n # Directory
        BY <3>1, NodeFacts
      <4> QED BY <1>2, <4>1, <4>2, ArrivalKinds
    <3>4. CASE WaitAcks(c)
      BY <3>1, <3>3, <3>4, NodeFacts DEF WaitAcks, ResponseDefined
    <3>5. CASE WaitM(c)
      <4>1. acks[c] <= 0
        BY <3>5, <1>i DEF AckCountOf
      <4>2. Event(c, n) = "InvAck"
        BY <2>1, <3>3, <4>1
      <4> QED BY <3>1, <3>5, <4>2, NodeFacts DEF WaitM, ResponseDefined
    <3> QED BY <3>2, <3>4, <3>5 DEF Awaits
  <2> QED BY <2>1, <2>2, <2>3
<1>3. \A n \in Node : Arrives(c, n) => <<cacheState[c], Event(c, n)>> \in ResponseDefined
  BY <1>2
<1>4. ~(Arrives(c, Directory) /\ Head(response[<<Directory, c>>]).acks + acks[c] < 0)
  <2> SUFFICES ASSUME Arrives(c, Directory)
               PROVE  ~(Head(response[<<Directory, c>>]).acks + acks[c] < 0)
    OBVIOUS
  <2>1. Head(response[<<Directory, c>>]).acks + acks[c] >= 0
    BY <1>2, NodeFacts
  <2>2. Head(response[<<Directory, c>>]).acks \in Nat /\ acks[c] \in Int
    BY NodeFacts, ArrivalKinds
  <2> QED BY <2>1, <2>2
<1> QED BY <1>1, <1>3, <1>4 DEF CacheUndefined

\* The cache the memory reads for has nothing else under way.
LEMMA ReaderQuiet ==
  ASSUME ProtocolInv, dirState \in {"S_m", "M_m"}
  PROVE  \E r \in Cache : /\ Asked(r) = {}
                          /\ dirState = "S_m" => r \in sharers
                          /\ dirState = "M_m" => owner = {r}
<1>i. /\ MemoryShape /\ DirEntryByState
      /\ \A r \in Cache : GrantsFor(r)
  BY Parts
<1>1. PICK r \in Cache : MemRead(r)
  BY <1>i, MemoryReads
<1>2. /\ Asked(r) = {}
      /\ dirState = "S_m" => r \in sharers
      /\ dirState = "M_m" => r \in owner
  BY <1>1, <1>i DEF GrantsFor
<1> QED BY <1>2, <1>i DEF DirEntryByState

\* The directory has a transition or a stall for every message but a last PutS
\* in SS_m.
LEMMA DirectoryDefined ==
  ASSUME ProtocolInv, DirUndefined
  PROVE  dirState = "SS_m" /\ RequestEvent(Req) = "PutSLast"
<1>i. /\ TypeOK /\ DirEntryByState /\ ResponseShape /\ MemoryShape /\ Downgrades
  BY Parts
<1>1. ASSUME NEW c \in Cache, response[<<c, Directory>>] # << >>
      PROVE  dirState = "S_D"
  <2>1. Dat(c, Directory)
    BY <1>1, <1>i, NodeFacts, ResponseKinds DEF ResponseShape
  <2> QED BY <2>1, <1>i DEF Downgrades
<1>2. ASSUME memResponse # << >>
      PROVE  /\ Head(memResponse).type = "MEMORY_READ" => dirState \in {"S_m", "M_m"}
             /\ Head(memResponse).type = "MEMORY_WB" => dirState \in {"MI_m", "SS_m"}
  <2>1. /\ dirState \in {"S_m", "M_m", "MI_m", "SS_m"}
        /\ Head(memResponse).type = "MEMORY_READ" <=> dirState \in {"S_m", "M_m"}
    BY <1>2, <1>i DEF MemoryShape
  <2> QED BY <2>1
<1>3. /\ requestQueue # << >> /\ ~SharerAssertFails(Req)
      /\ <<dirState, RequestEvent(Req)>> \notin RequestDefined
  BY <1>1, <1>2 DEF DirUndefined
<1>4. /\ Req \in RequestMsg /\ Req \in Range(requestQueue) /\ Req.requestor \in Cache
      /\ Req.type \in {"GetS", "GetM", "PutS", "PutM"}
  <2>1. Req \in RequestMsg /\ Req \in Range(requestQueue)
    BY <1>3, <1>i, RangeTail DEF TypeOK, DirTypeOK, Req
  <2> QED BY <2>1 DEF RequestMsg
<1>5. Req \in Asked(Req.requestor)
  BY <1>4 DEF Asked
<1>6. dirState \in DirState
  BY <1>i DEF TypeOK, DirTypeOK
<1>7. RequestEvent(Req) # "PutMOwner"
  <2> SUFFICES ASSUME RequestEvent(Req) = "PutMOwner" PROVE FALSE
    OBVIOUS
  <2>1. Req.requestor \in owner
    BY <1>4 DEF RequestEvent
  <2>2. dirState # "M"
    BY <1>3 DEF RequestDefined
  <2>3. dirState = "M_m"
    BY <1>6, <1>i, <2>1, <2>2 DEF DirState, DirEntryByState
  <2> QED BY <1>5, <2>1, <2>3, ReaderQuiet
<1>8. RequestEvent(Req) = "PutSLast" => dirState # "S_m"
  <2> SUFFICES ASSUME RequestEvent(Req) = "PutSLast", dirState = "S_m" PROVE FALSE
    OBVIOUS
  <2>1. Cardinality(sharers) = 1 /\ Req.requestor \in sharers
    BY <1>3, <1>4 DEF RequestEvent, SharerAssertFails
  <2>2. IsFiniteSet(sharers)
    BY <1>i, NodeAssumption, FS_Subset DEF TypeOK, DirTypeOK
  <2>3. PICK s : sharers = {s}
    BY <2>1, <2>2, FS_Singleton
  <2>4. PICK r \in Cache : Asked(r) = {} /\ r \in sharers
    BY ReaderQuiet
  <2> QED BY <1>5, <2>1, <2>3, <2>4
<1>9. RequestEvent(Req) \in {"GetS", "GetM", "PutSLast", "PutSNotLast", "PutMOwner", "PutMNonOwner"}
  BY <1>4 DEF RequestEvent
<1> QED BY <1>3, <1>6, <1>7, <1>8, <1>9 DEF RequestDefined

-----------------------------------------------------------------------------
(* What follows in every state the protocol reaches.                       *)

\* While one cache holds the line in M, no other cache can read or write it.
THEOREM WriteExclusive == Spec => []SingleWriter
BY ProtocolCorrect, WriterAlone, PTL

\* The directory knows of every copy, or has already sent what revokes it.
THEOREM CopiesKnown == Spec => []DirectoryTracksCopies
BY ProtocolCorrect, CopiesTracked, PTL

\* Whoever waits for messages is sent exactly those.
THEOREM MessagesCounted == Spec => []MessagesAccounted
BY ProtocolCorrect, Accounted, PTL

\* The only event without a transition is a last PutS that meets the directory
\* writing the owner's data back.
THEOREM OnePanic == Spec => []PanicsOnlyInSSm
<1>1. ProtocolInv => PanicsOnlyInSSm
  BY CacheDefined, DirectoryDefined DEF PanicsOnlyInSSm
<1> QED BY <1>1, ProtocolCorrect, PTL

-----------------------------------------------------------------------------
(* The values of the copies and of the messages.                           *)

\* A cache in M has the line's value.
WriterHasLatest == \E c \in Cache : cacheState[c] = "M" /\ cacheData[c] = latest

\* A cache in M is the only place with the line's value: all that matters is
\* that its own copy is current.
LEMMA WriterCurrent == ProtocolInv /\ PutsCurrent /\ WriterHasLatest => Current
<1> SUFFICES ASSUME NEW c \in Cache, ProtocolInv, PutsCurrent,
                    cacheState[c] = "M", cacheData[c] = latest
             PROVE  Current
  BY DEF WriterHasLatest
<1>i. /\ OneSource /\ MemoryShape /\ Downgrades /\ SingleWriter /\ TypeOK /\ ResponseShape
      /\ \A d \in Cache : CopyTracked(d) /\ GrantsFor(d)
      /\ \A d, e \in Cache : Invalidated(d, e)
  BY Parts, WriterAlone
<1>1. Source(c) /\ ~Awaits(c) /\ ~WaitM(c)
  BY DEF Source, Exclusive, Awaits, WaitAcks, WaitM
<1>2. ~AtHome
  BY <1>1, NoPromise
<1>3. \A d \in Cache : Source(d) => d = c
  BY <1>i, <1>1 DEF OneSource
<1>4. CopiesCurrent
  <2> SUFFICES ASSUME NEW d \in Cache, cacheState[d] \in Readable \/ Exclusive(d)
               PROVE  d = c
    BY DEF CopiesCurrent
  <2>1. Exclusive(d) => d = c
    BY <1>3 DEF Source
  <2>2. cacheState[d] \in Readable => d = c
    BY <1>i DEF SingleWriter
  <2> QED BY <2>1, <2>2
<1>5. GrantsCurrent
  <2> SUFFICES ASSUME NEW n \in Node, NEW k \in Node, Dat(n, k) PROVE FALSE
    BY DEF GrantsCurrent
  <2>1. k \in Cache
    <3>1. ASSUME k = Directory PROVE FALSE
      <4>1. n \in Cache
        BY <1>i, <3>1 DEF ResponseShape, Node
      <4>2. dirState = "S_D"
        BY <1>i, <3>1, <4>1 DEF Downgrades
      <4> QED BY <1>2, <3>1, <4>1, <4>2 DEF AtHome
    <3> QED BY <3>1 DEF Node
  <2>2. ~WaitM(k)
    BY <1>1, <1>3, <2>1 DEF Source
  <2>3. WaitS(k)
    BY <1>i, <2>1, <2>2 DEF GrantsFor
  <2>4. Holds(k) /\ ~Source(k)
    BY <1>3, <2>1, <2>3 DEF Holds, WaitS
  <2>5. PICK e \in Cache : InvFor(k, e)
    BY <1>2, <1>i, <2>1, <2>4 DEF CopyTracked
  <2>6. Awaits(e)
    BY <1>i, <2>1, <2>5 DEF Invalidated
  <2> QED BY <1>1, <1>3, <2>6, AwaitsSource
<1>6. MemoryCurrent
  <2>1. dirState \notin {"I", "S", "S_m", "MI_m", "SS_m"}
    BY <1>2 DEF AtHome
  <2>2. dirState # "M_m"
    <3>1. ASSUME dirState = "M_m" PROVE FALSE
      <4>1. PICK r \in Cache : MemRead(r)
        BY <1>i, <3>1, MemoryReads
      <4>2. WaitM(r)
        BY <1>i, <3>1, <4>1 DEF GrantsFor
      <4>3. Source(r)
        BY <4>1, <4>2 DEF Source
      <4> QED BY <1>1, <1>3, <4>2, <4>3
    <3> QED BY <3>1
  <2>3. memRequest = << >> /\ memResponse = << >>
    BY <1>i, <2>1, <2>2 DEF MemoryShape
  <2>4. Range(memRequest) = {} /\ Range(memResponse) = {}
    BY <2>3, RangeOne
  <2> QED BY <2>1, <2>2, <2>3, <2>4 DEF MemoryCurrent
<1> QED BY <1>4, <1>5, <1>6 DEF Current

\* enqueue of messages that carry the line's value, if any.
LEMMA GrantsSent ==
  ASSUME TypeOK, GrantsCurrent, UNCHANGED latest,
         NEW D, NEW m \in ResponseMsg, m.type = "Data" => m.data = latest,
         response' = Multicast(response, D, m)
  PROVE  GrantsCurrent'
<1>1. response \in [Node \X Node -> Seq(ResponseMsg)]
  BY DEF TypeOK, NetworkTypeOK
<1> SUFFICES ASSUME NEW n \in Node, NEW k \in Node, Dat(n, k)'
             PROVE  Head(response'[<<n, k>>]).data = latest
  BY DEF GrantsCurrent
<1>2. <<n, k>> \in Node \X Node /\ response[<<n, k>>] \in Seq(ResponseMsg)
  BY <1>1
<1>3. CASE <<n, k>> \notin D
  <2>1. response'[<<n, k>>] = response[<<n, k>>]
    BY <1>1, <1>2, <1>3 DEF Multicast
  <2> QED BY <2>1 DEF GrantsCurrent, Dat
<1>4. CASE <<n, k>> \in D
  <2>1. response'[<<n, k>>] = Append(response[<<n, k>>], m)
    BY <1>1, <1>2, <1>4 DEF Multicast
  <2>2. CASE response[<<n, k>>] = << >>
    <3>1. Head(response'[<<n, k>>]) = m
      BY <2>1, <2>2
    <3> QED BY <3>1 DEF Dat
  <2>3. CASE response[<<n, k>>] # << >>
    <3>1. Head(response'[<<n, k>>]) = Head(response[<<n, k>>])
      BY <1>2, <2>1, <2>3
    <3> QED BY <2>3, <3>1 DEF GrantsCurrent, Dat
  <2> QED BY <2>2, <2>3
<1> QED BY <1>3, <1>4

\* ... and dequeue.
LEMMA GrantsPopped ==
  ASSUME ProtocolInv, GrantsCurrent, UNCHANGED latest, NEW n \in Node, NEW k \in Node,
         response[<<n, k>>] # << >>, response' = Popped(response, <<n, k>>)
  PROVE  GrantsCurrent'
<1>1. TypeOK /\ ResponseShape
  BY Parts
<1>2. \A a, b \in Node :
        /\ Dat(a, b)' <=> Dat(a, b) /\ ~(a = n /\ b = k)
        /\ Ack(a, b)' <=> Ack(a, b) /\ ~(a = n /\ b = k)
        /\ ~(a = n /\ b = k) => response'[<<a, b>>] = response[<<a, b>>]
  BY <1>1, PopResponse
<1> QED BY <1>2 DEF GrantsCurrent

\* A step of cache c that does not store: nobody else is concerned.
LEMMA CopiesFrame ==
  ASSUME Current, NEW c \in Cache, UNCHANGED latest, UNCHANGED dirVars,
         \A d \in Cache \ {c} : /\ cacheState'[d] = cacheState[d]
                                /\ cacheData'[d] = cacheData[d]
                                /\ request'[d] = request[d]
                                /\ forward'[d] = forward[d],
         cacheState'[c] \in Readable \/ Exclusive(c)' => cacheData'[c] = latest,
         cacheState'[c] = "MI_A" => \A m \in Asked(c)' : m.data = cacheData'[c],
         GrantsCurrent'
  PROVE  Current'
<1>1. CopiesCurrent'
  <2> SUFFICES ASSUME NEW d \in Cache, cacheState'[d] \in Readable \/ Exclusive(d)'
               PROVE  cacheData'[d] = latest
    BY DEF CopiesCurrent
  <2>1. CASE d # c
    <3>1. Exclusive(d)' <=> Exclusive(d)
      BY <2>1 DEF Exclusive, Recalled, FwdS, FwdM, PutAckTo
    <3> QED BY <2>1, <3>1 DEF Current, CopiesCurrent
  <2> QED BY <2>1
<1>2. PutsCurrent'
  <2> SUFFICES ASSUME NEW d \in Cache, cacheState'[d] = "MI_A"
               PROVE  \A m \in Asked(d)' : m.data = cacheData'[d]
    BY DEF PutsCurrent
  <2>1. CASE d # c
    <3>1. Asked(d)' = Asked(d)
      BY <2>1 DEF Asked, dirVars
    <3> QED BY <2>1, <3>1 DEF Current, PutsCurrent
  <2> QED BY <2>1
<1>3. MemoryCurrent'
  BY DEF Current, MemoryCurrent, dirVars
<1> QED BY <1>1, <1>2, <1>3 DEF Current

\* A load that hits, a request, a replacement and the end of one.
LEMMA MandatoryCurrent ==
  ASSUME ProtocolInv, Current, NEW c \in Cache, UNCHANGED dirVars, ProtocolInv',
         Processor(c) \/ MandatoryIn(c)
  PROVE  Current'
<1>i. /\ TypeOK
      /\ CopiesCurrent /\ GrantsCurrent /\ PutsCurrent
  BY Parts DEF Current
<1>0. cacheState \in [Cache -> CacheState] /\ cacheData \in [Cache -> Data]
      /\ request \in [Cache -> Seq(RequestMsg)]
  BY <1>i DEF TypeOK, CacheTypeOK, NetworkTypeOK
<1>1. CASE UNCHANGED <<cacheState, cacheData, latest, networkVars>>
  BY <1>1, <1>i DEF networkVars, dirVars, Current, CopiesCurrent, GrantsCurrent, PutsCurrent,
     MemoryCurrent, Exclusive, Recalled, FwdS, FwdM, PutAckTo, Dat, Asked
<1>2. ASSUME NEW v \in Value, StoreHit(c, v) PROVE Current'
  <2>1. cacheState'[c] = "M" /\ cacheData'[c] = latest'
    BY <1>0, <1>2 DEF StoreHit
  <2>2. PutsCurrent'
    <3>1. /\ cacheState' = cacheState /\ \A d \in Cache : Asked(d)' = Asked(d)
          /\ \A d \in Cache \ {c} : cacheData'[d] = cacheData[d]
          /\ cacheState[c] = "M"
      BY <1>0, <1>2 DEF StoreHit, networkVars, Asked, dirVars
    <3> QED BY <1>i, <3>1 DEF PutsCurrent
  <2>3. WriterHasLatest'
    BY <2>1 DEF WriterHasLatest
  <2> QED BY <2>2, <2>3, WriterCurrent, PTL
<1>3. ASSUME NEW to \in {"IS_D", "IM_AD", "SM_AD", "SI_A", "MI_A"}, NEW m,
             cacheState' = [cacheState EXCEPT ![c] = to],
             request' = Sent(request, c, m),
             UNCHANGED <<cacheData, latest, forward, response>>,
             to \in {"SM_AD", "MI_A"} => cacheState[c] \in {"S", "M"},
             to = "MI_A" => \A k \in Asked(c)' : k.data = cacheData[c]
      PROVE  Current'
  <2>1. /\ cacheState'[c] = to
        /\ \A d \in Cache \ {c} : /\ cacheState'[d] = cacheState[d]
                                  /\ request'[d] = request[d]
    BY <1>0, <1>3 DEF Sent
  <2>2. GrantsCurrent'
    BY <1>i, <1>3 DEF GrantsCurrent, Dat
  <2>3. to \in {"SM_AD", "MI_A"} => cacheData[c] = latest
    BY <1>3, <1>i DEF CopiesCurrent, Readable
  <2>4. to \notin {"SM_AD", "MI_A"} => ~(cacheState'[c] \in Readable) /\ ~Exclusive(c)'
    BY <2>1 DEF Readable, Exclusive
  <2> QED BY <1>3, <2>1, <2>2, <2>3, <2>4, CopiesFrame
<1>4. CASE LoadMiss(c) \/ StoreMiss(c) \/ Upgrade(c) \/ ReplaceShared(c)
  BY <1>3, <1>4 DEF LoadMiss, StoreMiss, Upgrade, ReplaceShared, Miss, Replace
<1>5. CASE ReplaceModified(c)
  <2>1. /\ cacheState[c] = "M"
        /\ cacheState' = [cacheState EXCEPT ![c] = "MI_A"]
        /\ request' = Sent(request, c, Request("PutM", c, cacheData[c]))
        /\ UNCHANGED <<cacheData, latest, forward, response>>
    BY <1>5 DEF ReplaceModified, Replace
  <2>2. Asked(c) = {}
    BY <2>1, Settled DEF WaitS, WaitM, Evicting
  <2>3. Asked(c)' = {Request("PutM", c, cacheData[c])}
    <3>1. cacheData[c] \in Data /\ Request("PutM", c, cacheData[c]) \in RequestMsg
      BY <1>0, RequestType
    <3>2. RequestShape /\ UNCHANGED requestQueue
      BY Parts DEF dirVars
    <3>3. Request("PutM", c, cacheData[c]).requestor = c
      BY DEF Request
    <3> QED BY <1>i, <2>1, <2>2, <3>1, <3>2, <3>3, SendRequest
  <2>4. \A k \in Asked(c)' : k.data = cacheData[c]
    BY <2>3 DEF Request
  <2> QED BY <1>3, <2>1, <2>4
<1> QED BY <1>1, <1>2, <1>4, <1>5 DEF Processor, MandatoryIn, Issue, LoadHit, OtherProceeds

\* A response arrives: data is what the copy becomes, if it does.
LEMMA ResponseCurrent ==
  ASSUME ProtocolInv, Current, NEW c \in Cache, UNCHANGED dirVars, ProtocolInv',
         ResponseIn(c)
  PROVE  Current'
<1>i. /\ TypeOK
      /\ CopiesCurrent /\ GrantsCurrent /\ PutsCurrent
  BY Parts DEF Current
<1>0. cacheState \in [Cache -> CacheState] /\ cacheData \in [Cache -> Data]
  BY <1>i DEF TypeOK, CacheTypeOK
<1>1. PICK n \in Node : \/ LoadDone(c, n)
                        \/ \E v \in Value : StoreDone(c, n, v)
                        \/ StoreData(c, n)
                        \/ CountInvAck(c, n)
  BY DEF ResponseIn
<1>2. /\ Arrives(c, n) /\ response' = Popped(response, <<n, c>>)
      /\ UNCHANGED <<request, forward>>
  BY <1>1 DEF LoadDone, StoreDone, StoreData, CountInvAck
<1>3. Event(c, n) \in {"DataDirNoAcks", "DataDirAcks", "DataOwner"} =>
        Head(response[<<n, c>>]).data = latest
  BY <1>2, <1>i, ArrivalKinds, NodeFacts DEF GrantsCurrent
<1>4. ASSUME NEW v \in Value, StoreDone(c, n, v) PROVE Current'
  <2>1. cacheState'[c] = "M" /\ cacheData'[c] = latest'
    BY <1>0, <1>4 DEF StoreDone, Completed
  <2>2. PutsCurrent'
    <3>1. /\ \A d \in Cache : Asked(d)' = Asked(d)
          /\ \A d \in Cache \ {c} : /\ cacheData'[d] = cacheData[d]
                                    /\ cacheState'[d] = cacheState[d]
      BY <1>0, <1>2, <1>4 DEF StoreDone, Completed, Asked, dirVars
    <3> QED BY <1>i, <2>1, <3>1 DEF PutsCurrent
  <2>3. WriterHasLatest'
    BY <2>1 DEF WriterHasLatest
  <2> QED BY <2>2, <2>3, WriterCurrent, PTL
<1>5. ASSUME UNCHANGED latest,
             \A d \in Cache \ {c} : /\ cacheState'[d] = cacheState[d]
                                    /\ cacheData'[d] = cacheData[d],
             cacheState'[c] # "MI_A",
             cacheState'[c] \in Readable \/ Exclusive(c)' => cacheData'[c] = latest
      PROVE  Current'
  <2>1. GrantsCurrent'
    BY <1>2, <1>5, <1>i, NodeFacts, GrantsPopped DEF Arrives
  <2> QED BY <1>2, <1>5, <2>1, CopiesFrame
<1>6. CASE LoadDone(c, n)
  <2>1. /\ UNCHANGED latest /\ cacheState'[c] = "S"
        /\ cacheData'[c] = Head(response[<<n, c>>]).data
        /\ \A d \in Cache \ {c} : /\ cacheState'[d] = cacheState[d]
                                  /\ cacheData'[d] = cacheData[d]
        /\ Event(c, n) \in {"DataDirNoAcks", "DataOwner"}
    BY <1>0, <1>6 DEF LoadDone, Completed
  <2> QED BY <1>3, <1>5, <2>1
<1>7. CASE StoreData(c, n)
  <2>1. /\ UNCHANGED latest /\ cacheState'[c] # "MI_A"
        /\ cacheData'[c] = Head(response[<<n, c>>]).data
        /\ \A d \in Cache \ {c} : /\ cacheState'[d] = cacheState[d]
                                  /\ cacheData'[d] = cacheData[d]
        /\ Event(c, n) = "DataDirAcks"
    BY <1>0, <1>7 DEF StoreData
  <2> QED BY <1>3, <1>5, <2>1
<1>8. CASE CountInvAck(c, n)
  <2>1. /\ UNCHANGED <<latest, cacheState, cacheData>>
        /\ cacheState[c] \in {"IM_AD", "IM_A", "SM_AD", "SM_A"}
    BY <1>8 DEF CountInvAck
  <2>2. Exclusive(c)' => Exclusive(c)
    BY <2>1 DEF Exclusive
  <2>3. cacheState'[c] \in Readable \/ Exclusive(c)' => cacheData'[c] = latest
    BY <2>1, <2>2, <1>i DEF CopiesCurrent
  <2> QED BY <1>5, <2>1, <2>3
<1> QED BY <1>1, <1>4, <1>6, <1>7, <1>8

\* A forward is answered with the copy the cache has the right to write.
LEMMA ForwardCurrent ==
  ASSUME ProtocolInv, Current, NEW c \in Cache, UNCHANGED dirVars, ForwardIn(c)
  PROVE  Current'
<1>i. /\ TypeOK /\ ForwardShape
      /\ CopiesCurrent /\ GrantsCurrent /\ PutsCurrent
  BY Parts DEF Current
<1>0. /\ cacheState \in [Cache -> CacheState] /\ cacheData \in [Cache -> Data]
      /\ forward \in [Cache -> Seq(ForwardMsg)]
  BY <1>i DEF TypeOK, CacheTypeOK, NetworkTypeOK
<1>1. /\ UNCHANGED <<latest, request>> /\ forward' = Popped(forward, c)
      /\ \A d \in Cache \ {c} : /\ cacheState'[d] = cacheState[d]
                                /\ cacheData'[d] = cacheData[d]
                                /\ forward'[d] = forward[d]
      /\ cacheState'[c] \in {"S", "I", "IM_AD", "SI_A", "II_A"}
      /\ cacheState'[c] = "S" => cacheData'[c] = cacheData[c] /\ cacheState[c] = "M"
  BY <1>0 DEF ForwardIn, RecvInv, RecvFwdGetS, RecvFwdGetM, RecvPutAck, NewState, Popped
<1>2. ~Exclusive(c)'
  BY <1>1 DEF Exclusive
<1>3. cacheState'[c] \in Readable => cacheData'[c] = latest
  BY <1>1, <1>i DEF Readable, CopiesCurrent
<1>4. GrantsCurrent'
  <2>1. cacheData[c] \in Data /\ CacheData(c) \in ResponseMsg /\ CacheData(c).data = cacheData[c]
    BY <1>0, ReplyType DEF CacheData, Reply
  <2>2. ASSUME Recalled(c), cacheState[c] \in {"M", "MI_A"} PROVE cacheData[c] = latest
    BY <2>2, <1>i, Giver DEF CopiesCurrent
  <2>3. CASE RecvInv(c)
    <3>1. PICK r \in Cache : Head(forward[c]).requestor = r
      <4>1. PICK r \in Cache : Head(forward[c]) = Request("Inv", r, NoValue)
        BY <2>3, <1>i, PopInv DEF RecvInv
      <4> QED BY <4>1 DEF Request
    <3> DEFINE m == Reply("InvAck", NoValue, 0)
    <3>2. m \in ResponseMsg /\ m.type # "Data"
      BY ReplyType, NodeFacts DEF Reply
    <3>3. response' = Multicast(response, {<<c, r>>}, m)
      BY <2>3, <3>1, <1>i, SentOne, NodeFacts DEF RecvInv
    <3> HIDE DEF m
    <3> QED BY <1>1, <1>i, <3>2, <3>3, GrantsSent
  <2>4. CASE RecvFwdGetS(c)
    <3>1. Recalled(c) /\ cacheState[c] \in {"M", "MI_A"}
      <4>1. PICK r \in Cache : \A e \in Cache : FwdS(c, e) <=> e = r
        BY <2>4, <1>i, PopFwdS DEF RecvFwdGetS
      <4> QED BY <2>4, <4>1 DEF RecvFwdGetS, Recalled
    <3>2. response' = Multicast(response,
                        {<<c, Head(forward[c]).requestor>>, <<c, Directory>>}, CacheData(c))
      BY <2>4 DEF RecvFwdGetS
    <3> QED BY <1>1, <1>i, <2>1, <2>2, <3>1, <3>2, GrantsSent
  <2>5. CASE RecvFwdGetM(c)
    <3>1. PICK r \in Cache : /\ Head(forward[c]) = Request("GetM", r, NoValue)
                             /\ \A e \in Cache : FwdM(c, e) <=> e = r
      BY <2>5, <1>i, PopFwdM DEF RecvFwdGetM
    <3>2. Recalled(c) /\ cacheState[c] \in {"M", "MI_A"} /\ Head(forward[c]).requestor = r
      BY <2>5, <3>1 DEF RecvFwdGetM, Recalled, Request
    <3>3. response' = Multicast(response, {<<c, r>>}, CacheData(c))
      BY <2>5, <3>2, <1>i, SentOne, NodeFacts DEF RecvFwdGetM
    <3> QED BY <1>1, <1>i, <2>1, <2>2, <3>2, <3>3, GrantsSent
  <2>6. CASE RecvPutAck(c)
    BY <2>6, <1>i DEF RecvPutAck, GrantsCurrent, Dat
  <2> QED BY <2>3, <2>4, <2>5, <2>6 DEF ForwardIn
<1> QED BY <1>1, <1>2, <1>3, <1>4, CopiesFrame

\* A step of the directory that gives no cache the right to write.
LEMMA DirectoryFrame ==
  ASSUME Current, UNCHANGED <<cacheState, cacheData, latest>>,
         \A d \in Cache : (Exclusive(d)' => Exclusive(d)) /\ Asked(d)' \subseteq Asked(d),
         GrantsCurrent', MemoryCurrent'
  PROVE  Current'
<1>1. CopiesCurrent'
  BY DEF Current, CopiesCurrent
<1>2. PutsCurrent'
  BY DEF Current, PutsCurrent
<1> QED BY <1>1, <1>2 DEF Current

\* A forward takes the right to write from nobody, and gives it to nobody: who
\* is recalled has not been told that its put was accepted.
LEMMA RightsGiven ==
  ASSUME TypeOK, UNCHANGED cacheState, NEW D \in SUBSET Cache, NEW m \in ForwardMsg,
         forward' = Multicast(forward, D, m),
         \A d \in D : m.type \in {"GetS", "GetM"} => ~PutAckTo(d)
  PROVE  \A d \in Cache : Exclusive(d)' => Exclusive(d)
<1> SUFFICES ASSUME NEW d \in Cache, Exclusive(d)' PROVE Exclusive(d)
  OBVIOUS
<1>1. forward \in [Cache -> Seq(ForwardMsg)] /\ forward[d] \in Seq(ForwardMsg)
  BY DEF TypeOK, NetworkTypeOK
<1>2. Range(forward'[d]) = IF d \in D THEN Range(forward[d]) \union {m} ELSE Range(forward[d])
  <2>1. forward'[d] = IF d \in D THEN Append(forward[d], m) ELSE forward[d]
    BY <1>1 DEF Multicast
  <2>2. Range(Append(forward[d], m)) = Range(forward[d]) \union {m}
    BY <1>1, RangeAppend
  <2> QED BY <2>1, <2>2
<1>3. PutAckTo(d) => PutAckTo(d)'
  BY <1>2 DEF PutAckTo
<1>4. ASSUME Recalled(d)', ~Recalled(d) PROVE ~PutAckTo(d)
  <2>1. PICK e \in Cache : FwdS(d, e)' \/ FwdM(d, e)'
    BY <1>4 DEF Recalled
  <2>2. d \in D /\ m \in {Request("GetS", e, NoValue), Request("GetM", e, NoValue)}
    BY <1>2, <1>4, <2>1 DEF Recalled, FwdS, FwdM
  <2>3. m.type \in {"GetS", "GetM"}
    BY <2>2 DEF Request
  <2> QED BY <2>2, <2>3
<1> QED BY <1>3, <1>4 DEF Exclusive

\* queueMemoryRead and queueMemoryWB of a current value.
LEMMA MemoryAsked ==
  ASSUME TypeOK, MemoryCurrent, UNCHANGED <<latest, memory, memResponse>>,
         dirState' \in {"I", "S", "S_m", "M_m"} => dirState \in {"I", "S", "S_m", "M_m"},
         NEW m \in MemoryMsg, m.type = "MEMORY_WB" => m.data = latest,
         memRequest' = Append(memRequest, m)
  PROVE  MemoryCurrent'
<1>1. Range(memRequest') = Range(memRequest) \union {m}
  BY RangeAppend DEF TypeOK, DirTypeOK
<1> QED BY <1>1 DEF MemoryCurrent

\* in_port(request_in).
LEMMA RequestInCurrent ==
  ASSUME ProtocolInv, Current, RequestIn,
         UNCHANGED <<cacheState, cacheData, latest, memory, memResponse, response, request>>
  PROVE  Current'
<1>i. TypeOK /\ GrantsCurrent /\ MemoryCurrent /\ DirEntryByState
  BY Parts DEF Current
<1>0. owner \subseteq Cache /\ sharers \subseteq Cache /\ forward \in [Cache -> Seq(ForwardMsg)]
  BY <1>i DEF TypeOK, DirTypeOK, NetworkTypeOK
<1>1. GrantsCurrent'
  BY <1>i DEF GrantsCurrent, Dat
<1>2. \A d \in Cache : Asked(d)' \subseteq Asked(d)
  <2>1. \E states, events : Takes(states, events)
    BY DEF RequestIn, GetS, GetM, GetSFromOwner, GetMInvalidate, GetMFromOwner,
           PutShared, PutStale, PutMOwner
  <2>2. PICK states, events : Takes(states, events)
    BY <2>1
  <2>3. \E r \in Cache : /\ Asked(r) = {Req} /\ Asked(r)' = {}
                         /\ \A d \in Cache \ {r} : Asked(d)' = Asked(d)
    BY <2>2, Taken
  <2> QED BY <2>3
<1>3. Req.requestor \in Cache /\ Req.data \in Data /\ requestQueue # << >>
  <2>1. requestQueue # << >>
    BY DEF RequestIn, GetS, GetM, GetSFromOwner, GetMInvalidate, GetMFromOwner,
           PutShared, PutStale, PutMOwner, Takes
  <2>2. Req \in RequestMsg
    BY <2>1, <1>i, HeadType DEF TypeOK, DirTypeOK, Req
  <2> QED BY <2>1, <2>2 DEF RequestMsg
<1>4. ASSUME UNCHANGED memRequest,
             dirState' \in {"I", "S", "S_m", "M_m"} => dirState \in {"I", "S", "S_m", "M_m"}
      PROVE  MemoryCurrent'
  BY <1>4, <1>i DEF MemoryCurrent
<1>5. ASSUME SendMemRead(Req.requestor), dirState \in {"I", "S"}
      PROVE  MemoryCurrent'
  <2>1. MemoryMessage("MEMORY_READ", Req.requestor, NoValue) \in MemoryMsg
    BY <1>3, MemoryMsgType, NodeFacts DEF MemoryMessage
  <2>2. MemoryMessage("MEMORY_READ", Req.requestor, NoValue).type # "MEMORY_WB"
    BY DEF MemoryMessage
  <2> QED BY <1>5, <1>i, <2>1, <2>2, MemoryAsked DEF SendMemRead
<1>6. ASSUME UNCHANGED forward
      PROVE  \A d \in Cache : Exclusive(d)' => Exclusive(d)
  BY <1>6 DEF Exclusive, Recalled, FwdS, FwdM, PutAckTo
<1>7. ASSUME forward' = PutAck(Req.requestor)
      PROVE  \A d \in Cache : Exclusive(d)' => Exclusive(d)
  <2>1. Request("PutAck", Directory, NoValue) \in ForwardMsg
    BY ForwardType, NodeFacts
  <2>2. Request("PutAck", Directory, NoValue).type \notin {"GetS", "GetM"}
    BY DEF Request
  <2>3. forward' = Multicast(forward, {Req.requestor}, Request("PutAck", Directory, NoValue))
    BY <1>0, <1>7 DEF PutAck, Sent, Multicast
  <2>4. {Req.requestor} \in SUBSET Cache
    BY <1>3
  <2> QED BY <1>i, <2>1, <2>2, <2>3, <2>4, RightsGiven
<1>8. ASSUME NEW type \in {"GetS", "GetM"},
             forward' = Multicast(forward, owner, Request(type, Req.requestor, NoValue))
      PROVE  \A d \in Cache : Exclusive(d)' => Exclusive(d)
  <2>1. Request(type, Req.requestor, NoValue) \in ForwardMsg
    BY <1>3, ForwardType, NodeFacts
  <2>2. \A d \in owner : ~PutAckTo(d)
    BY <1>0, OwnerReady
  <2> QED BY <1>0, <1>i, <1>8, <2>1, <2>2, RightsGiven
<1>9. CASE GetS \/ GetM
  BY <1>1, <1>2, <1>5, <1>6, <1>9, DirectoryFrame DEF GetS, GetM, Takes, networkVars
<1>10. CASE GetMInvalidate
  <2>1. Request("Inv", Req.requestor, NoValue) \in ForwardMsg
    BY <1>3, ForwardType, NodeFacts
  <2>2. Request("Inv", Req.requestor, NoValue).type \notin {"GetS", "GetM"}
    BY DEF Request
  <2>3. /\ forward' = Multicast(forward, sharers \ {Req.requestor},
                                Request("Inv", Req.requestor, NoValue))
        /\ SendMemRead(Req.requestor) /\ dirState = "S"
    BY <1>10 DEF GetMInvalidate, Takes
  <2>4. sharers \ {Req.requestor} \in SUBSET Cache
    BY <1>0
  <2>5. \A d \in Cache : Exclusive(d)' => Exclusive(d)
    BY <1>i, <2>1, <2>2, <2>3, <2>4, RightsGiven
  <2>6. MemoryCurrent'
    BY <1>5, <2>3
  <2> QED BY <1>1, <1>2, <2>5, <2>6, DirectoryFrame
<1>11. CASE GetSFromOwner
  <2>1. /\ forward' = Multicast(forward, owner, Request("GetS", Req.requestor, NoValue))
        /\ UNCHANGED memRequest /\ dirState' = "S_D"
    BY <1>11 DEF GetSFromOwner
  <2> QED BY <1>1, <1>2, <1>4, <1>8, <2>1, DirectoryFrame
<1>12. CASE GetMFromOwner
  <2>1. /\ forward' = Multicast(forward, owner, Request("GetM", Req.requestor, NoValue))
        /\ UNCHANGED <<memRequest, dirState>>
    BY <1>12 DEF GetMFromOwner
  <2> QED BY <1>1, <1>2, <1>4, <1>8, <2>1, DirectoryFrame
<1>13. CASE PutShared \/ PutStale
  <2>1. /\ forward' = PutAck(Req.requestor) /\ UNCHANGED memRequest
        /\ dirState' # dirState => dirState = "S"
    BY <1>13 DEF PutShared, PutStale, Takes
  <2> QED BY <1>1, <1>2, <1>4, <1>7, <2>1, DirectoryFrame
<1>14. CASE PutMOwner
  <2>1. /\ forward' = PutAck(Req.requestor) /\ dirState' = "MI_m" /\ dirState = "M"
        /\ memRequest' = Append(memRequest, MemoryMessage("MEMORY_WB", Req.requestor, Req.data))
        /\ Takes({"M"}, {"PutMOwner"})
    BY <1>14 DEF PutMOwner, Takes
  <2>2. PICK o \in Cache : /\ Req.requestor = o /\ Asked(o) = {Req}
                           /\ Req.type \in {"PutS", "PutM"} => Evicting(o)
                           /\ Req.type = "PutM" /\ o \in owner
                           /\ \A d \in Cache : ~FwdM(d, o)
    <3>1. RequestEvent(Req) = "PutMOwner"
      BY <2>1 DEF Takes
    <3> QED BY <2>1, <3>1, Taken
  <2>3. Exclusive(o) /\ cacheState[o] = "MI_A"
    <3>1. Promised(o) /\ Evicting(o)
      BY <2>2, OwnerReady
    <3>2. Source(o)
      BY <2>2, <3>1 DEF Promised
    <3> QED BY <3>1, <3>2 DEF Source, Exclusive, Evicting, WaitM
  <2>4. Req.data = latest
    BY <2>2, <2>3 DEF Current, PutsCurrent, CopiesCurrent
  <2>5. MemoryCurrent'
    <3>1. /\ MemoryMessage("MEMORY_WB", Req.requestor, Req.data) \in MemoryMsg
          /\ MemoryMessage("MEMORY_WB", Req.requestor, Req.data).data = latest
      BY <1>3, <2>4, MemoryMsgType DEF MemoryMessage
    <3> QED BY <1>i, <2>1, <3>1, MemoryAsked
  <2> QED BY <1>1, <1>2, <1>7, <2>1, <2>5, DirectoryFrame
<1> QED BY <1>9, <1>10, <1>11, <1>12, <1>13, <1>14 DEF RequestIn

\* The memory's answers, and the owner's data.
LEMMA AnswerCurrent ==
  ASSUME ProtocolInv, Current, UNCHANGED <<cacheState, cacheData, latest>>,
         \/ ServeMemory \/ RecvMemData \/ RecvMemAck
         \/ \E c \in Cache : RecvOwnerData(c)
  PROVE  Current'
<1>i. TypeOK /\ GrantsCurrent /\ MemoryCurrent /\ MemoryShape /\ ResponseShape
  BY Parts DEF Current
<1>1. UNCHANGED <<request, forward, requestQueue>>
  BY DEF ServeMemory, RecvMemData, RecvMemAck, RecvOwnerData, networkVars
<1>2. \A d \in Cache : (Exclusive(d)' => Exclusive(d)) /\ Asked(d)' \subseteq Asked(d)
  BY <1>1 DEF Exclusive, Recalled, FwdS, FwdM, PutAckTo, Asked
<1>3. Range(<< >>) = {} /\ \A m : Range(<<m>>) = {m}
  BY RangeOne
<1>4. CASE ServeMemory
  <2>1. memRequest # << >> /\ UNCHANGED <<dirState, response>>
    BY <1>4 DEF ServeMemory, networkVars
  <2>2. PICK m \in MemoryMsg :
          /\ m.type = "MEMORY_READ" <=> dirState \in {"S_m", "M_m"}
          /\ memRequest = <<m>> /\ memResponse = << >>
    BY <2>1, <1>i DEF MemoryShape
  <2>3. /\ Head(memRequest) = m /\ Tail(memRequest) = << >> /\ memRequest' = << >>
        /\ \A x : Append(memResponse, x) = <<x>>
    BY <1>4, <2>2 DEF ServeMemory
  <2>4. m \in Range(memRequest)
    BY <2>2, <1>3
  <2>5. memory' = latest /\ \E x : memResponse' = <<x>> /\ x.data = latest
    <3>1. CASE m.type = "MEMORY_READ"
      <4>1. memory = latest
        BY <2>2, <3>1, <1>i DEF MemoryCurrent
      <4>2. memory' = memory /\ memResponse' = <<[m EXCEPT !.data = memory]>>
        BY <1>4, <2>3, <3>1 DEF ServeMemory
      <4>3. [m EXCEPT !.data = memory].data = memory
        BY DEF MemoryMsg
      <4> QED BY <4>1, <4>2, <4>3
    <3>2. CASE m.type # "MEMORY_READ"
      <4>1. m.data = latest
        <5>1. m.type = "MEMORY_WB"
          BY <3>2 DEF MemoryMsg
        <5> QED BY <5>1, <2>4, <1>i DEF MemoryCurrent
      <4>2. memory' = m.data /\ memResponse' = <<m>>
        BY <1>4, <2>3, <3>2 DEF ServeMemory
      <4> QED BY <4>1, <4>2
    <3> QED BY <3>1, <3>2
  <2>6. MemoryCurrent'
    BY <2>3, <2>5, <1>3 DEF MemoryCurrent
  <2>7. GrantsCurrent'
    BY <2>1, <1>i DEF GrantsCurrent, Dat
  <2> QED BY <1>2, <2>6, <2>7, DirectoryFrame
<1>5. CASE RecvMemData \/ RecvMemAck
  <2>1. /\ memResponse # << >> /\ memResponse' = Tail(memResponse)
        /\ UNCHANGED <<memRequest, memory>>
    BY <1>5 DEF RecvMemData, RecvMemAck
  <2>2. PICK m \in MemoryMsg : memRequest = << >> /\ memResponse = <<m>>
    BY <2>1, <1>i DEF MemoryShape
  <2>3. Head(memResponse) = m /\ Tail(memResponse) = << >>
    BY <2>2
  <2>4. m.data = latest /\ memory = latest
    <3>1. m \in Range(memResponse)
      BY <2>2, <1>3
    <3> QED BY <3>1, <2>1, <1>i DEF MemoryCurrent
  <2>5. MemoryCurrent'
    BY <2>1, <2>2, <2>3, <2>4, <1>3 DEF MemoryCurrent
  <2>6. GrantsCurrent'
    <3>1. CASE RecvMemAck
      BY <3>1, <1>i DEF RecvMemAck, networkVars, GrantsCurrent, Dat
    <3>2. CASE RecvMemData
      <4>1. PICK k \in Nat : k = IF m.sender \in owner THEN Cardinality(sharers) ELSE 0
        <5>1. Cardinality(sharers) \in Nat
          BY <1>i, NodeAssumption, FS_Subset, FS_CardinalityType DEF TypeOK, DirTypeOK
        <5> QED BY <5>1
      <4>2. m.sender \in Cache /\ m.data \in Data
        BY DEF MemoryMsg
      <4>3. Reply("Data", m.data, k) \in ResponseMsg /\ Reply("Data", m.data, k).data = latest
        BY <2>4, <4>2, ReplyType DEF Reply
      <4>4. response' = Sent(response, <<Directory, m.sender>>, Reply("Data", m.data, k))
        BY <2>3, <3>2, <4>1 DEF RecvMemData
      <4>5. response' = Multicast(response, {<<Directory, m.sender>>}, Reply("Data", m.data, k))
        BY <4>2, <4>4, <1>i, SentOne, NodeFacts
      <4> QED BY <1>i, <4>3, <4>5, GrantsSent
    <3> QED BY <1>5, <3>1, <3>2
  <2> QED BY <1>2, <2>5, <2>6, DirectoryFrame
<1>6. ASSUME NEW c \in Cache, RecvOwnerData(c) PROVE Current'
  <2> DEFINE v == Head(response[<<c, Directory>>]).data
  <2>1. /\ response[<<c, Directory>>] # << >> /\ dirState' = "SS_m"
        /\ response' = Popped(response, <<c, Directory>>)
        /\ memRequest' = Append(memRequest, MemoryMessage("MEMORY_WB", c, v))
        /\ UNCHANGED <<memory, memResponse>>
    BY <1>6 DEF RecvOwnerData
  <2>2. v = latest /\ v \in Data
    <3>1. Dat(c, Directory) /\ Head(response[<<c, Directory>>]) \in ResponseMsg
      BY <2>1, <1>i, NodeFacts, ResponseKinds DEF ResponseShape
    <3> QED BY <3>1, <1>i, NodeFacts DEF GrantsCurrent, ResponseMsg
  <2> HIDE DEF v
  <2>3. MemoryCurrent'
    <3>1. /\ MemoryMessage("MEMORY_WB", c, v) \in MemoryMsg
          /\ MemoryMessage("MEMORY_WB", c, v).data = latest
      BY <2>2, MemoryMsgType DEF MemoryMessage
    <3> QED BY <1>i, <2>1, <3>1, MemoryAsked
  <2>4. GrantsCurrent'
    BY <2>1, <1>i, NodeFacts, GrantsPopped
  <2> QED BY <1>2, <2>3, <2>4, DirectoryFrame
<1> QED BY <1>4, <1>5, <1>6

\* Every step keeps the copies and the messages current.
LEMMA CurrentStep == ProtocolInv /\ ProtocolInv' /\ Current /\ [Next]_vars => Current'
<1> SUFFICES ASSUME ProtocolInv, ProtocolInv', Current, [Next]_vars PROVE Current'
  OBVIOUS
<1>1. ASSUME NEW c \in Cache, AtCache(CacheStep(c)) PROVE Current'
  BY <1>1, MandatoryCurrent, ResponseCurrent, ForwardCurrent DEF AtCache, CacheStep
<1>2. CASE AtDirectory(DirStep)
  <2>1. UNCHANGED <<cacheState, cacheData, latest>> /\ DirStep
    BY <1>2 DEF AtDirectory, cacheVars
  <2>2. ASSUME NEW c \in Cache, DeliverRequest(c) PROVE Current'
    <3>1. \A d \in Cache : Asked(d)' = Asked(d)
      BY <2>2, Parts, MoveRequest
    <3>2. UNCHANGED <<forward, response, dirState, memory, memRequest, memResponse>>
      BY <2>2 DEF DeliverRequest
    <3>3. GrantsCurrent' /\ MemoryCurrent'
      BY <2>1, <3>2 DEF Current, GrantsCurrent, Dat, MemoryCurrent
    <3>4. \A d \in Cache : Exclusive(d)' => Exclusive(d)
      BY <2>1, <3>2 DEF Exclusive, Recalled, FwdS, FwdM, PutAckTo
    <3> QED BY <2>1, <3>1, <3>3, <3>4, DirectoryFrame
  <2>3. CASE RequestIn
    <3>1. UNCHANGED <<memory, memResponse, response, request>>
      BY <2>3 DEF RequestIn, GetS, GetM, GetSFromOwner, GetMInvalidate, GetMFromOwner,
                  PutShared, PutStale, PutMOwner, networkVars
    <3> QED BY <2>1, <2>3, <3>1, RequestInCurrent
  <2> QED BY <2>1, <2>2, <2>3, AnswerCurrent DEF DirStep
<1>3. CASE UNCHANGED <<networkVars, cacheVars, dirVars>>
  BY <1>3 DEF networkVars, cacheVars, dirVars, Current, CopiesCurrent, GrantsCurrent,
     PutsCurrent, MemoryCurrent, Exclusive, Recalled, FwdS, FwdM, PutAckTo, Dat, Asked
<1>4. CASE UNCHANGED vars
  BY <1>3, <1>4 DEF vars
<1> QED BY <1>1, <1>2, <1>3, <1>4 DEF Next, Panic, Halted

\* In every state the protocol reaches, each copy that can be read or passed on
\* is what the last store wrote, and so are the messages that carry the line.
THEOREM ValuesCurrent == Spec => []Current
<1>1. Init => Current
  <2> SUFFICES ASSUME Init PROVE Current
    OBVIOUS
  <2>1. /\ \A c \in Cache : cacheState[c] = "I"
        /\ \A n, k \in Node : response[<<n, k>>] = << >>
        /\ memRequest = << >> /\ memResponse = << >> /\ memory = latest
    BY DEF Init, CacheInit, NetworkInit, DirInit
  <2>2. CopiesCurrent /\ PutsCurrent
    BY <2>1 DEF CopiesCurrent, PutsCurrent, Readable, Exclusive
  <2>3. GrantsCurrent
    BY <2>1 DEF GrantsCurrent, Dat
  <2>4. MemoryCurrent
    BY <2>1, RangeOne DEF MemoryCurrent
  <2> QED BY <2>2, <2>3, <2>4 DEF Current
<1> QED BY <1>1, CurrentStep, ProtocolCorrect, PTL DEF Spec

-----------------------------------------------------------------------------
(* The protocol implements CoherentLine.                                   *)

\* What a processor sees of its copy.
Copy(c) == IF cacheState[c] \in Readable THEN cacheData[c] ELSE NoValue

PermOf  == [c \in Cache |-> Permitted(c)]
CopyOf == [c \in Cache |-> Copy(c)]

\* The permission of a cache says whether it reads, writes or neither.
LEMMA PermittedFacts ==
  \A c \in Cache :
    /\ Permitted(c) \in {"none", "read", "write"}
    /\ Permitted(c) = "write" <=> cacheState[c] = "M"
    /\ Permitted(c) = "none" <=> cacheState[c] \notin Readable
    /\ Permitted(c) = "none" => Copy(c) = NoValue
BY DEF Permitted, Readable, Copy

\* A step of cache c moves the permission and the copy of c only.
LEMMA OneMoves ==
  ASSUME NEW c \in Cache,
         \A d \in Cache \ {c} : cacheState'[d] = cacheState[d] /\ cacheData'[d] = cacheData[d]
  PROVE  /\ PermOf' = [PermOf EXCEPT ![c] = Permitted(c)']
         /\ CopyOf' = [CopyOf EXCEPT ![c] = Copy(c)']
         /\ \A d \in Cache \ {c} : Permitted(d)' = Permitted(d)
<1>1. \A d \in Cache \ {c} : Permitted(d)' = Permitted(d) /\ Copy(d)' = Copy(d)
  BY DEF Permitted, Copy
<1> QED BY <1>1 DEF PermOf, CopyOf

\* A step of cache c that changes neither its permission nor its copy.
LEMMA OneStutters ==
  ASSUME NEW c \in Cache, UNCHANGED latest,
         \A d \in Cache \ {c} : cacheState'[d] = cacheState[d] /\ cacheData'[d] = cacheData[d],
         Permitted(c)' = Permitted(c), Copy(c)' = Copy(c)
  PROVE  UNCHANGED <<PermOf, CopyOf, latest>>
BY OneMoves DEF PermOf, CopyOf

\* Each step of a cache is one of the abstract line's, or none.
LEMMA CacheRefines ==
  ASSUME ProtocolInv, ProtocolInv', Current, Current', NEW c \in Cache, CacheStep(c)
  PROVE  Line!Next \/ UNCHANGED <<PermOf, CopyOf, latest>>
<1>i. TypeOK /\ SingleWriter /\ SingleWriter' /\ CopiesCurrent /\ CopiesCurrent'
  <2>1. SingleWriter /\ SingleWriter'
    BY WriterAlone, PTL
  <2> QED BY <2>1, Parts DEF Current
<1>0. /\ cacheState \in [Cache -> CacheState] /\ cacheData \in [Cache -> Data]
  BY <1>i DEF TypeOK, CacheTypeOK
<1>1. \A d \in Cache \ {c} : cacheState'[d] = cacheState[d] /\ cacheData'[d] = cacheData[d]
  BY <1>0 DEF CacheStep, Processor, MandatoryIn, ResponseIn, ForwardIn, Issue, LoadMiss, StoreMiss,
     Miss, Upgrade, LoadHit, StoreHit, ReplaceShared, ReplaceModified, Replace, OtherProceeds,
     LoadDone, StoreDone, StoreData, CountInvAck, Completed, RecvInv, RecvFwdGetS, RecvFwdGetM,
     RecvPutAck, NewState
<1>2. ASSUME UNCHANGED latest, Permitted(c)' = Permitted(c), Copy(c)' = Copy(c)
      PROVE  UNCHANGED <<PermOf, CopyOf, latest>>
  BY <1>1, <1>2, OneStutters
<1>3. ASSUME UNCHANGED latest,
             cacheState[c] \notin Readable, cacheState'[c] \notin Readable
      PROVE  UNCHANGED <<PermOf, CopyOf, latest>>
  BY <1>2, <1>3 DEF Permitted, Copy, Readable
<1>4. ASSUME NEW v \in Value, cacheState'[c] = "M", cacheData'[c] = v, latest' = v
      PROVE  Line!Next
  <2>1. \A d \in Cache \ {c} : PermOf[d] = "none"
    <3> SUFFICES ASSUME NEW d \in Cache \ {c} PROVE Permitted(d) = "none"
      BY DEF PermOf
    <3>1. cacheState'[d] \notin Readable
      BY <1>4, <1>i DEF SingleWriter
    <3> QED BY <1>1, <3>1, PermittedFacts
  <2>2. Permitted(c)' = "write" /\ Copy(c)' = v
    BY <1>4 DEF Permitted, Copy, Readable
  <2>3. PermOf' = [PermOf EXCEPT ![c] = "write"] /\ CopyOf' = [CopyOf EXCEPT ![c] = v]
    BY <1>1, <2>2, OneMoves
  <2>4. Line!Write(c, v)
    BY <1>4, <2>1, <2>3 DEF Line!Write, PermOf, CopyOf, Copy
  <2> QED BY <2>4 DEF Line!Next
<1>5. ASSUME UNCHANGED latest, cacheState[c] \in Readable, cacheState'[c] \notin Readable
      PROVE  Line!Next
  <2>1. Permitted(c) # "none" /\ Permitted(c)' = "none" /\ Copy(c)' = NoValue
    BY <1>5 DEF Permitted, Copy, Readable
  <2>2. PermOf' = [PermOf EXCEPT ![c] = "none"] /\ CopyOf' = [CopyOf EXCEPT ![c] = NoValue]
    BY <1>1, <2>1, OneMoves
  <2>3. PermOf[c] # "none"
    BY <2>1 DEF PermOf
  <2>4. Line!Lose(c)
    BY <1>5, <2>2, <2>3 DEF Line!Lose, PermOf, CopyOf, Copy
  <2> QED BY <2>4 DEF Line!Next
<1>6. CASE Processor(c) \/ LoadHit(c) \/ OtherProceeds(c)
  <2>1. UNCHANGED <<latest, cacheState, cacheData>>
    BY <1>6 DEF Processor, Issue, LoadHit, OtherProceeds
  <2> QED BY <1>2, <2>1 DEF Permitted, Copy
<1>7. CASE LoadMiss(c) \/ StoreMiss(c)
  <2>1. /\ UNCHANGED latest /\ cacheState[c] = "I"
        /\ cacheState'[c] \in {"IS_D", "IM_AD"}
    BY <1>0, <1>7 DEF LoadMiss, StoreMiss, Miss
  <2> QED BY <1>3, <2>1 DEF Readable
<1>8. CASE Upgrade(c)
  <2>1. UNCHANGED <<latest, cacheData>> /\ cacheState[c] = "S" /\ cacheState'[c] = "SM_AD"
    BY <1>0, <1>8 DEF Upgrade
  <2> QED BY <1>2, <2>1 DEF Permitted, Copy, Readable
<1>9. ASSUME NEW v \in Value, StoreHit(c, v) PROVE Line!Next
  <2>1. cacheState'[c] = "M" /\ cacheData'[c] = v /\ latest' = v
    BY <1>0, <1>9 DEF StoreHit
  <2> QED BY <1>4, <2>1
<1>10. CASE ReplaceShared(c) \/ ReplaceModified(c)
  <2>1. /\ UNCHANGED latest /\ cacheState[c] \in {"S", "M"}
        /\ cacheState'[c] \in {"SI_A", "MI_A"}
    BY <1>0, <1>10 DEF ReplaceShared, ReplaceModified, Replace
  <2> QED BY <1>5, <2>1 DEF Readable
<1>11. ASSUME NEW n \in Node, LoadDone(c, n) PROVE Line!Next
  <2>1. UNCHANGED latest /\ cacheState[c] = "IS_D" /\ cacheState'[c] = "S"
    BY <1>0, <1>11 DEF LoadDone, Completed
  <2>2. cacheData'[c] = latest
    BY <2>1, <1>i DEF CopiesCurrent, Readable
  <2>3. Permitted(c) = "none" /\ Permitted(c)' = "read" /\ Copy(c)' = latest
    BY <2>1, <2>2 DEF Permitted, Copy, Readable
  <2>4. \A d \in Cache : PermOf[d] # "write"
    <3> SUFFICES ASSUME NEW d \in Cache, Permitted(d) = "write" PROVE FALSE
      BY DEF PermOf
    <3>1. d # c /\ cacheState'[d] = "M"
      BY <1>1, <2>3, PermittedFacts
    <3> QED BY <2>1, <3>1, <1>i DEF SingleWriter, Readable
  <2>5. /\ PermOf' = [PermOf EXCEPT ![c] = "read"]
        /\ CopyOf' = [CopyOf EXCEPT ![c] = latest]
        /\ PermOf[c] = "none"
    BY <1>1, <2>3, OneMoves DEF PermOf
  <2>6. Line!GainRead(c)
    BY <2>1, <2>4, <2>5 DEF Line!GainRead, PermOf, CopyOf, Copy
  <2> QED BY <2>6 DEF Line!Next
<1>12. ASSUME NEW n \in Node, NEW v \in Value, StoreDone(c, n, v) PROVE Line!Next
  <2>1. cacheState'[c] = "M" /\ cacheData'[c] = v /\ latest' = v
    BY <1>0, <1>12 DEF StoreDone, Completed
  <2> QED BY <1>4, <2>1
<1>13. ASSUME NEW n \in Node, StoreData(c, n) PROVE UNCHANGED <<PermOf, CopyOf, latest>>
  <2>1. /\ UNCHANGED latest
        /\ \/ cacheState[c] = "IM_AD" /\ cacheState'[c] = "IM_A"
           \/ cacheState[c] = "SM_AD" /\ cacheState'[c] = "SM_A"
    BY <1>0, <1>13 DEF StoreData
  <2>2. CASE cacheState[c] = "IM_AD"
    BY <1>3, <2>1, <2>2 DEF Readable
  <2>3. CASE cacheState[c] = "SM_AD"
    <3>1. cacheData[c] = latest /\ cacheData'[c] = latest
      BY <2>1, <2>3, <1>i DEF CopiesCurrent, Readable
    <3> QED BY <1>2, <2>1, <2>3, <3>1 DEF Permitted, Copy, Readable
  <2> QED BY <2>1, <2>2, <2>3
<1>14. ASSUME NEW n \in Node, CountInvAck(c, n) PROVE UNCHANGED <<PermOf, CopyOf, latest>>
  <2>1. UNCHANGED <<latest, cacheState, cacheData>>
    BY <1>14 DEF CountInvAck
  <2> QED BY <1>2, <2>1 DEF Permitted, Copy
<1>15. CASE RecvInv(c) \/ RecvFwdGetM(c) \/ RecvPutAck(c)
  <2>1. /\ UNCHANGED latest
        /\ cacheState'[c] \in {"I", "IM_AD", "II_A"}
    BY <1>0, <1>15 DEF RecvInv, RecvFwdGetM, RecvPutAck, NewState
  <2> QED BY <1>3, <1>5, <2>1 DEF Readable
<1>16. CASE RecvFwdGetS(c)
  <2>1. /\ UNCHANGED <<latest, cacheData>>
        /\ \/ cacheState[c] = "M" /\ cacheState'[c] = "S"
           \/ cacheState[c] = "MI_A" /\ cacheState'[c] = "SI_A"
    BY <1>0, <1>16 DEF RecvFwdGetS, NewState
  <2>2. CASE cacheState[c] = "MI_A"
    BY <1>3, <2>1, <2>2 DEF Readable
  <2>3. CASE cacheState[c] = "M"
    <3>1. Permitted(c) = "write" /\ Permitted(c)' = "read" /\ Copy(c)' = Copy(c)
      BY <2>1, <2>3 DEF Permitted, Copy, Readable
    <3>2. PermOf' = [PermOf EXCEPT ![c] = "read"] /\ PermOf[c] = "write" /\ UNCHANGED CopyOf
      BY <1>1, <3>1, OneMoves DEF PermOf, CopyOf
    <3>3. Line!Downgrade(c)
      BY <2>1, <3>2 DEF Line!Downgrade, PermOf, CopyOf, Copy
    <3> QED BY <3>3 DEF Line!Next
  <2> QED BY <2>1, <2>2, <2>3
<1> QED BY <1>6, <1>7, <1>8, <1>9, <1>10, <1>11, <1>12, <1>13, <1>14, <1>15, <1>16
        DEF CacheStep, MandatoryIn, ResponseIn, ForwardIn

\* Each step of the protocol is one of the abstract line's, or none.
LEMMA StepRefines ==
  ProtocolInv /\ ProtocolInv' /\ Current /\ Current' /\ [Next]_vars => [Line!Next]_Line!lineVars
<1> SUFFICES ASSUME ProtocolInv, ProtocolInv', Current, Current', [Next]_vars
             PROVE  Line!Next \/ UNCHANGED <<PermOf, CopyOf, latest>>
  BY DEF Line!lineVars, PermOf, CopyOf, Copy
<1>1. ASSUME NEW c \in Cache, AtCache(CacheStep(c))
      PROVE  Line!Next \/ UNCHANGED <<PermOf, CopyOf, latest>>
  BY <1>1, CacheRefines DEF AtCache
<1>2. ASSUME UNCHANGED cacheVars PROVE UNCHANGED <<PermOf, CopyOf, latest>>
  BY <1>2 DEF cacheVars, PermOf, CopyOf, Copy, Permitted
<1> QED BY <1>1, <1>2 DEF Next, AtDirectory, Panic, Halted, vars

\* For the processors the protocol is one line that many may read or one may
\* write, and of which every copy is current: it implements CoherentLine.
THEOREM Coherent == Spec => ImplementsCoherentLine
<1>1. Init => Line!Init
  <2> SUFFICES ASSUME Init PROVE Line!Init
    OBVIOUS
  <2>1. \A c \in Cache : cacheState[c] = "I"
    BY DEF Init, CacheInit
  <2>2. latest \in Value
    BY DEF Init
  <2> QED BY <2>1, <2>2 DEF Line!Init, Permitted, Readable
<1> QED BY <1>1, StepRefines, ProtocolCorrect, ValuesCurrent, PTL
        DEF Spec, ImplementsCoherentLine, Line!Spec
=============================================================================
