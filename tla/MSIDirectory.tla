---------------------------- MODULE MSIDirectory ----------------------------
(***************************************************************************)
(* The directory controller of MSI-dir.sm and the memory behind it, for    *)
(* one cache line.                                                         *)
(*                                                                         *)
(* requestFromCache is one FIFO for all caches: a GetS or GetM stalled at  *)
(* its head (z_stall) keeps every request behind it waiting, whichever     *)
(* cache sent it.                                                          *)
(***************************************************************************)
EXTENDS MSINetwork

VARIABLES
  dirState,     \* DirState of the entry
  sharers,      \* entry.Sharers
  owner,        \* entry.Owner, a NetDest as in the source
  requestQueue, \* requestFromCache
  memRequest,   \* requestToMemory
  memResponse,  \* responseFromMemory
  memory        \* contents of memory for the line

dirVars == <<dirState, sharers, owner, requestQueue, memRequest, memResponse,
             memory>>

DirState == {"I", "S", "M", "S_D", "S_m", "M_m", "MI_m", "SS_m"}

MemoryMsg == [type: {"MEMORY_READ", "MEMORY_WB"}, sender: Cache, data: Data]

DirTypeOK ==
  /\ dirState     \in DirState
  /\ sharers      \subseteq Cache
  /\ owner        \subseteq Cache
  /\ requestQueue \in Seq(RequestMsg)
  /\ memRequest   \in Seq(MemoryMsg)
  /\ memResponse  \in Seq(MemoryMsg)
  /\ memory       \in Data

DirInit ==
  /\ dirState     = "I"
  /\ sharers      = {}
  /\ owner        = {}
  /\ requestQueue = << >>
  /\ memRequest   = << >>
  /\ memResponse  = << >>

MemoryMessage(type, sender, data) ==
  [type |-> type, sender |-> sender, data |-> data]

-----------------------------------------------------------------------------
(* The network and the memory controller.                                  *)

\* A request of cache c reaches the directory's input buffer.
DeliverRequest(c) ==
  /\ request[c] # << >>
  /\ requestQueue' = Append(requestQueue, Head(request[c]))
  /\ request'      = Popped(request, c)
  /\ UNCHANGED <<dirState, sharers, owner, memRequest, memResponse, memory,
                 forward, response>>

\* The memory controller serves its queue in order; a read returns the data,
\* a write-back an acknowledgement.
ServeMemory ==
  /\ memRequest # << >>
  /\ LET m == Head(memRequest)
     IN IF m.type = "MEMORY_READ"
        THEN /\ memResponse' = Append(memResponse, [m EXCEPT !.data = memory])
             /\ UNCHANGED memory
        ELSE /\ memResponse' = Append(memResponse, m)
             /\ memory' = m.data
  /\ memRequest' = Tail(memRequest)
  /\ UNCHANGED <<dirState, sharers, owner, requestQueue, networkVars>>

-----------------------------------------------------------------------------
(* in_port(request_in)                                                     *)

\* The event triggered by request m, and whether a PutS of a cache that is not
\* the only sharer fails assert(entry.Sharers.isElement(in_msg.Requestor)).
RequestEvent(m) ==
  IF m.type = "PutS"
  THEN IF Cardinality(sharers) = 1 THEN "PutSLast" ELSE "PutSNotLast"
  ELSE IF m.type = "PutM"
  THEN IF m.requestor \in owner THEN "PutMOwner" ELSE "PutMNonOwner"
  ELSE m.type

SharerAssertFails(m) ==
  m.type = "PutS" /\ Cardinality(sharers) = 1 /\ m.requestor \notin sharers

\* in_msg: the request at the head of the port.
Req == Head(requestQueue)

\* The port has a message, its assertion holds, and its event finds the
\* directory in one of the given states; popRequestQueue.
Takes(states, events) ==
  /\ requestQueue # << >>
  /\ dirState \in states
  /\ RequestEvent(Req) \in events
  /\ ~SharerAssertFails(Req)
  /\ requestQueue' = Tail(requestQueue)

\* Mutant of SendMemRead: the reply would go to the directory itself.
SendMemReadToSelf(c) ==
  memRequest' = Append(memRequest, MemoryMessage("MEMORY_READ", Directory, NoValue))

SendMemRead(c) ==
  memRequest' = Append(memRequest, MemoryMessage("MEMORY_READ", c, NoValue))

PutAck(c) == Sent(forward, c, Request("PutAck", Directory, NoValue))

\* transition({I, S}, GetS, S_m)
GetS ==
  /\ Takes({"I", "S"}, {"GetS"})
  /\ dirState' = "S_m"
  /\ SendMemRead(Req.requestor)
  /\ sharers'  = sharers \union {Req.requestor}
  /\ UNCHANGED <<owner, memResponse, memory, networkVars>>

\* Mutant of GetSFromOwner: clearOwner is missing.
GetSKeepsOwner ==
  /\ Takes({"M"}, {"GetS"})
  /\ dirState' = "S_D"
  /\ forward'  = Multicast(forward, owner, Request("GetS", Req.requestor, NoValue))
  /\ sharers'  = sharers \union {Req.requestor} \union owner
  /\ UNCHANGED <<owner, memRequest, memResponse, memory, request, response>>

\* Mutant of GetSFromOwner: addOwnerToSharers after clearOwner.
GetSForgetsOwner ==
  /\ Takes({"M"}, {"GetS"})
  /\ dirState' = "S_D"
  /\ forward'  = Multicast(forward, owner, Request("GetS", Req.requestor, NoValue))
  /\ sharers'  = sharers \union {Req.requestor}
  /\ owner'    = {}
  /\ UNCHANGED <<memRequest, memResponse, memory, request, response>>

\* transition(M, GetS, S_D)
GetSFromOwner ==
  /\ Takes({"M"}, {"GetS"})
  /\ dirState' = "S_D"
  /\ forward'  = Multicast(forward, owner, Request("GetS", Req.requestor, NoValue))
  /\ sharers'  = sharers \union {Req.requestor} \union owner
  /\ owner'    = {}
  /\ UNCHANGED <<memRequest, memResponse, memory, request, response>>

\* transition(I, GetM, M_m)
GetM ==
  /\ Takes({"I"}, {"GetM"})
  /\ dirState' = "M_m"
  /\ SendMemRead(Req.requestor)
  /\ owner'    = owner \union {Req.requestor}
  /\ UNCHANGED <<sharers, memResponse, memory, networkVars>>

\* Mutant of GetMInvalidate: sendInvToSharers before removeReqFromSharers.
GetMInvalidateRequestor ==
  /\ Takes({"S"}, {"GetM"})
  /\ dirState' = "M_m"
  /\ SendMemRead(Req.requestor)
  /\ sharers'  = sharers \ {Req.requestor}
  /\ forward'  = Multicast(forward, sharers, Request("Inv", Req.requestor, NoValue))
  /\ owner'    = owner \union {Req.requestor}
  /\ UNCHANGED <<memResponse, memory, request, response>>

\* transition(S, GetM, M_m)
GetMInvalidate ==
  /\ Takes({"S"}, {"GetM"})
  /\ dirState' = "M_m"
  /\ SendMemRead(Req.requestor)
  /\ sharers'  = sharers \ {Req.requestor}
  /\ forward'  = Multicast(forward, sharers', Request("Inv", Req.requestor, NoValue))
  /\ owner'    = owner \union {Req.requestor}
  /\ UNCHANGED <<memResponse, memory, request, response>>

\* transition(M, GetM)
GetMFromOwner ==
  /\ Takes({"M"}, {"GetM"})
  /\ forward' = Multicast(forward, owner, Request("GetM", Req.requestor, NoValue))
  /\ owner'   = {Req.requestor}
  /\ UNCHANGED <<dirState, sharers, memRequest, memResponse, memory, request,
                 response>>

\* transition({S, S_D, SS_m, S_m}, {PutSNotLast, PutMNonOwner}),
\* transition(S, PutSLast, I) and transition(S_D, PutSLast)
PutShared ==
  /\ \/ /\ Takes({"S", "S_D", "SS_m", "S_m"}, {"PutSNotLast", "PutMNonOwner"})
        /\ UNCHANGED dirState
     \/ /\ Takes({"S"}, {"PutSLast"})
        /\ dirState' = "I"
     \/ /\ Takes({"S_D"}, {"PutSLast"})
        /\ UNCHANGED dirState
  /\ sharers' = sharers \ {Req.requestor}
  /\ forward' = PutAck(Req.requestor)
  /\ UNCHANGED <<owner, memRequest, memResponse, memory, request, response>>

\* transition(I, {PutSNotLast, PutSLast, PutMNonOwner}) and the same events in
\* {M, M_m, MI_m}: the put raced with a GetM and is only acknowledged.
PutStale ==
  /\ Takes({"I", "M", "M_m", "MI_m"},
           {"PutSNotLast", "PutSLast", "PutMNonOwner"})
  /\ forward' = PutAck(Req.requestor)
  /\ UNCHANGED <<dirState, sharers, owner, memRequest, memResponse, memory,
                 request, response>>

\* Mutant of PutMOwner: clearOwner is missing.
PutMKeepsOwner ==
  /\ Takes({"M"}, {"PutMOwner"})
  /\ dirState'   = "MI_m"
  /\ memRequest' = Append(memRequest,
                          MemoryMessage("MEMORY_WB", Req.requestor, Req.data))
  /\ forward'    = PutAck(Req.requestor)
  /\ UNCHANGED <<owner, sharers, memResponse, memory, request, response>>

\* transition(M, PutMOwner, MI_m)
PutMOwner ==
  /\ Takes({"M"}, {"PutMOwner"})
  /\ dirState'   = "MI_m"
  /\ memRequest' = Append(memRequest,
                          MemoryMessage("MEMORY_WB", Req.requestor, Req.data))
  /\ owner'      = {}
  /\ forward'    = PutAck(Req.requestor)
  /\ UNCHANGED <<sharers, memResponse, memory, request, response>>

-----------------------------------------------------------------------------
(* in_port(response_in) and in_port(memQueue_in)                           *)

\* transition(S_D, Data, SS_m)
RecvOwnerData(c) ==
  /\ response[<<c, Directory>>] # << >>
  /\ dirState = "S_D"
  /\ dirState'   = "SS_m"
  /\ memRequest' = Append(memRequest,
                     MemoryMessage("MEMORY_WB", c,
                                   Head(response[<<c, Directory>>]).data))
  /\ response'   = Popped(response, <<c, Directory>>)
  /\ UNCHANGED <<sharers, owner, requestQueue, memResponse, memory, request,
                 forward>>

\* Mutant of RecvMemData: clearSharers before sendDataToReq, so no ack is
\* announced.
RecvMemDataNoAcks ==
  /\ memResponse # << >>
  /\ dirState \in {"S_m", "M_m"}
  /\ LET m == Head(memResponse)
     IN /\ m.type = "MEMORY_READ"
        /\ response' = Sent(response, <<Directory, m.sender>>,
                            Reply("Data", m.data, 0))
  /\ \/ dirState = "S_m" /\ dirState' = "S" /\ UNCHANGED sharers
     \/ dirState = "M_m" /\ dirState' = "M" /\ sharers' = {}
  /\ memResponse' = Tail(memResponse)
  /\ UNCHANGED <<owner, requestQueue, memRequest, memory, request, forward>>

\* transition(S_m, MemData, S) and transition(M_m, MemData, M): the owner is
\* told how many acknowledgements to wait for.
RecvMemData ==
  /\ memResponse # << >>
  /\ dirState \in {"S_m", "M_m"}
  /\ LET m == Head(memResponse)
     IN /\ m.type = "MEMORY_READ"
        /\ response' = Sent(response, <<Directory, m.sender>>,
                         Reply("Data", m.data,
                           IF m.sender \in owner THEN Cardinality(sharers) ELSE 0))
  /\ \/ dirState = "S_m" /\ dirState' = "S" /\ UNCHANGED sharers
     \/ dirState = "M_m" /\ dirState' = "M" /\ sharers' = {}
  /\ memResponse' = Tail(memResponse)
  /\ UNCHANGED <<owner, requestQueue, memRequest, memory, request, forward>>

\* transition(MI_m, MemAck, I) and transition(SS_m, MemAck, S)
RecvMemAck ==
  /\ memResponse # << >>
  /\ Head(memResponse).type = "MEMORY_WB"
  /\ \/ dirState = "MI_m" /\ dirState' = "I"
     \/ dirState = "SS_m" /\ dirState' = "S"
  /\ memResponse' = Tail(memResponse)
  /\ UNCHANGED <<sharers, owner, requestQueue, memRequest, memory, networkVars>>

-----------------------------------------------------------------------------
(* Events the directory has no transition for.                             *)

RequestDefined ==
  (DirState \X {"GetS", "GetM"})
    \union ((DirState \ {"SS_m", "S_m"}) \X {"PutSLast"})
    \union (DirState \X {"PutSNotLast", "PutMNonOwner"})
    \union ({"M"} \X {"PutMOwner"})

DirUndefined ==
  \/ /\ requestQueue # << >> /\ ~SharerAssertFails(Req)
     /\ <<dirState, RequestEvent(Req)>> \notin RequestDefined
  \/ \E c \in Cache : response[<<c, Directory>>] # << >> /\ dirState # "S_D"
  \/ /\ memResponse # << >>
     /\ \/ Head(memResponse).type = "MEMORY_READ" /\ dirState \notin {"S_m", "M_m"}
        \/ Head(memResponse).type = "MEMORY_WB" /\ dirState \notin {"MI_m", "SS_m"}

DirAssertFails ==
  requestQueue # << >> /\ SharerAssertFails(Req)

-----------------------------------------------------------------------------

RequestIn ==
  \/ GetS \/ GetSFromOwner
  \/ GetM \/ GetMInvalidate \/ GetMFromOwner
  \/ PutShared \/ PutStale \/ PutMOwner

DirStep ==
  \/ \E c \in Cache : DeliverRequest(c) \/ RecvOwnerData(c)
  \/ ServeMemory
  \/ RequestIn
  \/ RecvMemData
  \/ RecvMemAck
=============================================================================
