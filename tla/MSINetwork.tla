----------------------------- MODULE MSINetwork -----------------------------
(***************************************************************************)
(* The messages of the MSI protocol and the three virtual networks between *)
(* the L1 caches and the directory, for one cache line (MSI-msg.sm and the *)
(* buffer declarations of MSI-cache.sm and MSI-dir.sm).                    *)
(*                                                                         *)
(*   request   (vnet 0)  cache -> directory, one FIFO per sending cache,   *)
(*   forward   (vnet 1)  directory -> cache, one FIFO per receiving cache, *)
(*   response  (vnet 2)  any node -> any node, one FIFO per ordered pair.  *)
(*                                                                         *)
(* Every buffer is a MessageBuffer(ordered = True), so two messages on one *)
(* channel stay in order; nothing orders messages on different channels.   *)
(* The network does not lose or duplicate messages.                        *)
(***************************************************************************)
EXTENDS Integers, Sequences, FiniteSets

CONSTANTS Cache,      \* the L1 controllers
          Directory,  \* the single directory controller
          Value,      \* contents a DataBlock may have
          NoValue     \* a DataBlk field that was never written

ASSUME NodeAssumption ==
  /\ IsFiniteSet(Cache) /\ Cache # {}
  /\ Directory \notin Cache
  /\ Value # {} /\ NoValue \notin Value

VARIABLES
  request,   \* [Cache -> Seq(RequestMsg)]          requestToDir and vnet 0
  forward,   \* [Cache -> Seq(ForwardMsg)]          vnet 1 and forwardFromDir
  response,  \* [Node \X Node -> Seq(ResponseMsg)]  vnet 2, by <<from, to>>
  panic      \* "none", or the assertion or missing transition that stopped gem5

networkVars == <<request, forward, response>>

Node == Cache \union {Directory}
Data == Value \union {NoValue}

\* RequestMsg, as the caches send it to the directory and as the directory
\* forwards it to the caches; a PutAck carries the directory's own MachineID.
RequestMsg ==
  [type: {"GetS", "GetM", "PutS", "PutM"}, requestor: Cache, data: Data]

ForwardMsg ==
  [type: {"GetS", "GetM", "Inv", "PutAck"}, requestor: Node, data: Data]

\* Sender and Destination are the channel the message travels on.
ResponseMsg == [type: {"Data", "InvAck"}, data: Data, acks: Nat]

PanicKind == {"none", "assertSharer", "noTransition"}

Running == panic = "none"

Request(type, requestor, data) ==
  [type |-> type, requestor |-> requestor, data |-> data]

Reply(type, data, acks) == [type |-> type, data |-> data, acks |-> acks]

\* enqueue(...) on one channel of a network, and dequeue() of its head.
Sent(net, channel, msg)  == [net EXCEPT ![channel] = Append(@, msg)]
Popped(net, channel)     == [net EXCEPT ![channel] = Tail(@)]

\* enqueue(...) whose out_msg.Destination is a set of caches.
Multicast(net, dests, msg) ==
  [d \in DOMAIN net |-> IF d \in dests THEN Append(net[d], msg) ELSE net[d]]

NetworkTypeOK ==
  /\ request  \in [Cache -> Seq(RequestMsg)]
  /\ forward  \in [Cache -> Seq(ForwardMsg)]
  /\ response \in [Node \X Node -> Seq(ResponseMsg)]
  /\ panic    \in PanicKind

NetworkInit ==
  /\ request  = [c \in Cache |-> << >>]
  /\ forward  = [c \in Cache |-> << >>]
  /\ response = [ch \in Node \X Node |-> << >>]
  /\ panic    = "none"
=============================================================================
