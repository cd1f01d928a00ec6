------------------------------ MODULE MSICache ------------------------------
(***************************************************************************)
(* The L1 cache controller of MSI-cache.sm for one cache line.             *)
(*                                                                         *)
(* getState: the TBE's state overrides the entry's, and setState writes    *)
(* both, so one variable holds the state. The entry is allocated exactly   *)
(* when the state is not I, the TBE exactly in the states of HasTBE.       *)
(* Each action is one transition, or the transitions that share a body;    *)
(* a z_stall transition changes nothing and leaves the message at the head *)
(* of its port, so it is the absence of an action.                         *)
(***************************************************************************)
EXTENDS MSINetwork

CONSTANT Workload  \* the operations the processors issue, a bound of the runs

ASSUME WorkloadAssumption == Workload \subseteq {"Load", "Store", "Other"}

VARIABLES
  cacheState,  \* [Cache -> CacheState]   TBEState / CacheState
  cacheData,   \* [Cache -> Data]         cache_entry.DataBlk
  acks,        \* [Cache -> Int]          tbe.AcksOutstanding, 0 without a TBE
  mandatory,   \* [Cache -> MandatoryHead] head of mandatoryQueue
  latest       \* ghost: the value of the last store performed on the line

cacheVars == <<cacheState, cacheData, acks, mandatory, latest>>

CacheState == {"I", "IS_D", "IM_AD", "IM_A", "S", "SM_AD", "SM_A", "M",
               "MI_A", "SI_A", "II_A"}

\* AccessPermission Read_Only or Read_Write: a load hits in these states.
Readable == {"S", "SM_AD", "SM_A", "M"}

\* States entered by allocateTBE and left by deallocateTBE.
HasTBE == {"IS_D", "IM_AD", "IM_A", "SM_AD", "SM_A"}

\* "Other" is a request to another line of the set, for which this line may
\* be chosen as the victim.
MandatoryHead == {"none", "Load", "Store", "Other"}

CacheTypeOK ==
  /\ cacheState \in [Cache -> CacheState]
  /\ cacheData  \in [Cache -> Data]
  /\ acks       \in [Cache -> Int]
  /\ mandatory  \in [Cache -> MandatoryHead]
  /\ latest     \in Value

CacheInit ==
  /\ cacheState = [c \in Cache |-> "I"]
  /\ cacheData  = [c \in Cache |-> NoValue]
  /\ acks       = [c \in Cache |-> 0]
  /\ mandatory  = [c \in Cache |-> "none"]

-----------------------------------------------------------------------------
(* The sequencer: it keeps one request per line outstanding.               *)

Outstanding(c) == cacheState[c] \in HasTBE \/ mandatory[c] \in {"Load", "Store"}

Issue(c, op) ==
  /\ mandatory[c] = "none"
  /\ op \in {"Load", "Store"} => ~Outstanding(c)
  /\ mandatory' = [mandatory EXCEPT ![c] = op]
  /\ UNCHANGED <<cacheState, cacheData, acks, latest, networkVars>>

\* The other line has room (cacheAvail) or takes another victim (cacheProbe).
OtherProceeds(c) ==
  /\ mandatory[c] = "Other"
  /\ mandatory' = [mandatory EXCEPT ![c] = "none"]
  /\ UNCHANGED <<cacheState, cacheData, acks, latest, networkVars>>

-----------------------------------------------------------------------------
(* in_port(mandatory_in)                                                   *)

\* transition(I, Load, IS_D) and transition(I, Store, IM_AD)
Miss(c, op, next, type) ==
  /\ mandatory[c] = op
  /\ cacheState[c] = "I"
  /\ cacheState' = [cacheState EXCEPT ![c] = next]
  /\ acks'       = [acks EXCEPT ![c] = 0]
  /\ request'    = Sent(request, c, Request(type, c, NoValue))
  /\ mandatory'  = [mandatory EXCEPT ![c] = "none"]
  /\ UNCHANGED <<cacheData, latest, forward, response>>

LoadMiss(c)  == Miss(c, "Load", "IS_D", "GetS")
StoreMiss(c) == Miss(c, "Store", "IM_AD", "GetM")

\* transition(S, Store, SM_AD)
Upgrade(c) ==
  /\ mandatory[c] = "Store"
  /\ cacheState[c] = "S"
  /\ cacheState' = [cacheState EXCEPT ![c] = "SM_AD"]
  /\ acks'       = [acks EXCEPT ![c] = 0]
  /\ request'    = Sent(request, c, Request("GetM", c, NoValue))
  /\ mandatory'  = [mandatory EXCEPT ![c] = "none"]
  /\ UNCHANGED <<cacheData, latest, forward, response>>

\* transition({S, SM_AD, SM_A, M}, Load)
LoadHit(c) ==
  /\ mandatory[c] = "Load"
  /\ cacheState[c] \in Readable
  /\ mandatory' = [mandatory EXCEPT ![c] = "none"]
  /\ UNCHANGED <<cacheState, cacheData, acks, latest, networkVars>>

\* transition(M, Store): writeCallback writes the block, here with v.
StoreHit(c, v) ==
  /\ mandatory[c] = "Store"
  /\ cacheState[c] = "M"
  /\ cacheData' = [cacheData EXCEPT ![c] = v]
  /\ latest'    = v
  /\ mandatory' = [mandatory EXCEPT ![c] = "none"]
  /\ UNCHANGED <<cacheState, acks, networkVars>>

\* transition(S, Replacement, SI_A) and transition(M, Replacement, MI_A): the
\* request that wanted room stays at the head of the mandatory queue.
Replace(c, from, to, put) ==
  /\ mandatory[c] = "Other"
  /\ cacheState[c] = from
  /\ cacheState' = [cacheState EXCEPT ![c] = to]
  /\ request'    = Sent(request, c, put)
  /\ UNCHANGED <<cacheData, acks, mandatory, latest, forward, response>>

ReplaceShared(c)   == Replace(c, "S", "SI_A", Request("PutS", c, NoValue))
ReplaceModified(c) == Replace(c, "M", "MI_A", Request("PutM", c, cacheData[c]))

-----------------------------------------------------------------------------
(* in_port(response_in)                                                    *)

\* Mutant of ResponseEvent: the acks that overtook the data are forgotten.
ResponseEventEarlyAcksLost(c, n, m) ==
  IF n = Directory
  THEN IF m.acks = 0 THEN "DataDirNoAcks" ELSE "DataDirAcks"
  ELSE IF m.type = "Data" THEN "DataOwner"
  ELSE IF acks[c] = 1 THEN "LastInvAck" ELSE "InvAck"

\* The event triggered by message m from node n at cache c.
ResponseEvent(c, n, m) ==
  IF n = Directory
  THEN IF m.acks + acks[c] = 0 THEN "DataDirNoAcks" ELSE "DataDirAcks"
  ELSE IF m.type = "Data" THEN "DataOwner"
  ELSE IF acks[c] = 1 THEN "LastInvAck" ELSE "InvAck"

Arrives(c, n) == response[<<n, c>>] # << >>

Event(c, n) == ResponseEvent(c, n, Head(response[<<n, c>>]))

\* Back to no TBE: deallocateTBE discards the count.
Completed(c, state) ==
  /\ cacheState' = [cacheState EXCEPT ![c] = state]
  /\ acks'       = [acks EXCEPT ![c] = 0]

\* transition(IS_D, {DataDirNoAcks, DataOwner}, S)
LoadDone(c, n) ==
  /\ Arrives(c, n)
  /\ cacheState[c] = "IS_D"
  /\ Event(c, n) \in {"DataDirNoAcks", "DataOwner"}
  /\ cacheData' = [cacheData EXCEPT ![c] = Head(response[<<n, c>>]).data]
  /\ Completed(c, "S")
  /\ response' = Popped(response, <<n, c>>)
  /\ UNCHANGED <<mandatory, latest, request, forward>>

\* The two ways to M: transition({IM_AD, SM_AD}, {DataDirNoAcks, DataOwner}, M)
\* and transition({IM_A, SM_A}, LastInvAck, M). externalStoreHit calls
\* writeCallback, which writes v over the block that has just arrived.
StoreDone(c, n, v) ==
  /\ Arrives(c, n)
  /\ \/ /\ cacheState[c] \in {"IM_AD", "SM_AD"}
        /\ Event(c, n) \in {"DataDirNoAcks", "DataOwner"}
     \/ /\ cacheState[c] \in {"IM_A", "SM_A"}
        /\ Event(c, n) = "LastInvAck"
  /\ cacheData' = [cacheData EXCEPT ![c] = v]
  /\ latest'    = v
  /\ Completed(c, "M")
  /\ response' = Popped(response, <<n, c>>)
  /\ UNCHANGED <<mandatory, request, forward>>

\* transition(IM_AD, DataDirAcks, IM_A) and transition(SM_AD, DataDirAcks, SM_A)
StoreData(c, n) ==
  /\ Arrives(c, n)
  /\ cacheState[c] \in {"IM_AD", "SM_AD"}
  /\ Event(c, n) = "DataDirAcks"
  /\ cacheState' = [cacheState EXCEPT
                      ![c] = IF @ = "IM_AD" THEN "IM_A" ELSE "SM_A"]
  /\ cacheData' = [cacheData EXCEPT ![c] = Head(response[<<n, c>>]).data]
  /\ acks'      = [acks EXCEPT ![c] = @ + Head(response[<<n, c>>]).acks]
  /\ response'  = Popped(response, <<n, c>>)
  /\ UNCHANGED <<mandatory, latest, request, forward>>

\* transition({IM_AD, IM_A, SM_AD, SM_A}, InvAck)
CountInvAck(c, n) ==
  /\ Arrives(c, n)
  /\ cacheState[c] \in {"IM_AD", "IM_A", "SM_AD", "SM_A"}
  /\ Event(c, n) = "InvAck"
  /\ acks'     = [acks EXCEPT ![c] = @ - 1]
  /\ response' = Popped(response, <<n, c>>)
  /\ UNCHANGED <<cacheState, cacheData, mandatory, latest, request, forward>>

-----------------------------------------------------------------------------
(* in_port(forward_in)                                                     *)

Forwarded(c, type) == forward[c] # << >> /\ Head(forward[c]).type = type

\* out_msg.DataBlk := cache_entry.DataBlk
CacheData(c) == Reply("Data", cacheData[c], 0)

\* deallocateCacheBlock, when the new state is I, discards the block.
NewState(c, state) ==
  /\ cacheState' = [cacheState EXCEPT ![c] = state]
  /\ cacheData'  = IF state = "I" THEN [cacheData EXCEPT ![c] = NoValue]
                                  ELSE cacheData

\* transition(S, Inv, I), transition(SM_AD, Inv, IM_AD), transition(SI_A, Inv, II_A)
RecvInv(c) ==
  /\ Forwarded(c, "Inv")
  /\ \/ cacheState[c] = "S"     /\ NewState(c, "I")
     \/ cacheState[c] = "SM_AD" /\ NewState(c, "IM_AD")
     \/ cacheState[c] = "SI_A"  /\ NewState(c, "II_A")
  /\ response' = Sent(response, <<c, Head(forward[c]).requestor>>,
                      Reply("InvAck", NoValue, 0))
  /\ forward'  = Popped(forward, c)
  /\ UNCHANGED <<acks, mandatory, latest, request>>

\* Mutant of RecvFwdGetS: the owner sends its data but stays in M.
RecvFwdGetSStaysOwner(c) ==
  /\ Forwarded(c, "GetS")
  /\ \/ cacheState[c] = "M"    /\ NewState(c, "M")
     \/ cacheState[c] = "MI_A" /\ NewState(c, "SI_A")
  /\ response' = Multicast(response,
                   {<<c, Head(forward[c]).requestor>>, <<c, Directory>>},
                   CacheData(c))
  /\ forward'  = Popped(forward, c)
  /\ UNCHANGED <<acks, mandatory, latest, request>>

\* transition(M, FwdGetS, S) and transition(MI_A, FwdGetS, SI_A)
RecvFwdGetS(c) ==
  /\ Forwarded(c, "GetS")
  /\ \/ cacheState[c] = "M"    /\ NewState(c, "S")
     \/ cacheState[c] = "MI_A" /\ NewState(c, "SI_A")
  /\ response' = Multicast(response,
                   {<<c, Head(forward[c]).requestor>>, <<c, Directory>>},
                   CacheData(c))
  /\ forward'  = Popped(forward, c)
  /\ UNCHANGED <<acks, mandatory, latest, request>>

\* transition(M, FwdGetM, I) and transition(MI_A, FwdGetM, II_A)
RecvFwdGetM(c) ==
  /\ Forwarded(c, "GetM")
  /\ \/ cacheState[c] = "M"    /\ NewState(c, "I")
     \/ cacheState[c] = "MI_A" /\ NewState(c, "II_A")
  /\ response' = Sent(response, <<c, Head(forward[c]).requestor>>, CacheData(c))
  /\ forward'  = Popped(forward, c)
  /\ UNCHANGED <<acks, mandatory, latest, request>>

\* transition({MI_A, SI_A, II_A}, PutAck, I)
RecvPutAck(c) ==
  /\ Forwarded(c, "PutAck")
  /\ cacheState[c] \in {"MI_A", "SI_A", "II_A"}
  /\ NewState(c, "I")
  /\ forward' = Popped(forward, c)
  /\ UNCHANGED <<acks, mandatory, latest, request, response>>

-----------------------------------------------------------------------------
(* What the tables leave out: an event with neither a transition nor a     *)
(* stall is an "Invalid transition" panic of the generated controller, as  *)
(* is a response for which assert(is_valid(tbe)) fails.                    *)

ForwardDefined ==
  ({"S", "SM_AD", "SI_A", "IS_D"} \X {"Inv"})
    \union ({"M", "MI_A", "IM_AD", "IM_A", "SM_AD", "SM_A"} \X {"GetS", "GetM"})
    \union ({"MI_A", "SI_A", "II_A"} \X {"PutAck"})

ResponseDefined ==
  ({"IS_D", "IM_AD", "SM_AD"} \X {"DataDirNoAcks", "DataOwner"})
    \union ({"IM_AD", "SM_AD"} \X {"DataDirAcks"})
    \union ({"IM_AD", "IM_A", "SM_AD", "SM_A"} \X {"InvAck"})
    \union ({"IM_A", "SM_A"} \X {"LastInvAck"})

CacheUndefined(c) ==
  \/ /\ forward[c] # << >>
     /\ <<cacheState[c], Head(forward[c]).type>> \notin ForwardDefined
  \/ \E n \in Node : /\ Arrives(c, n)
                     /\ <<cacheState[c], Event(c, n)>> \notin ResponseDefined
  \* assert(in_msg.Acks + tbe.AcksOutstanding >= 0)
  \/ /\ Arrives(c, Directory)
     /\ Head(response[<<Directory, c>>]).acks + acks[c] < 0

-----------------------------------------------------------------------------

Processor(c) == \E op \in Workload : Issue(c, op)

MandatoryIn(c) ==
  \/ LoadMiss(c) \/ StoreMiss(c) \/ Upgrade(c) \/ LoadHit(c)
  \/ \E v \in Value : StoreHit(c, v)
  \/ ReplaceShared(c) \/ ReplaceModified(c) \/ OtherProceeds(c)

ResponseIn(c) ==
  \E n \in Node : \/ LoadDone(c, n)
                  \/ \E v \in Value : StoreDone(c, n, v)
                  \/ StoreData(c, n)
                  \/ CountInvAck(c, n)

ForwardIn(c) ==
  RecvInv(c) \/ RecvFwdGetS(c) \/ RecvFwdGetM(c) \/ RecvPutAck(c)

CacheStep(c) == Processor(c) \/ MandatoryIn(c) \/ ResponseIn(c) \/ ForwardIn(c)
=============================================================================
