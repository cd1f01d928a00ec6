-------------------------- MODULE CudaRuntimeProofs -------------------------
(***************************************************************************)
(* Proofs about the CUDA runtime, for any number of hosts, streams and     *)
(* calls: the state keeps its types, m_last_stream and every position in   *)
(* m_streams included; a kernel stays at the front of a stream that exists *)
(* until it is finished; the operations of a host are performed in program *)
(* order; and a call that waits for some returns when they are.            *)
(***************************************************************************)
EXTENDS CudaRuntime, TLAPS

-----------------------------------------------------------------------------
(* Lemmas about the list of streams.                                       *)

\* What position a stream of the list has.
LEMMA PositionType ==
  ASSUME NEW s \in Alive
  PROVE  Position(s) \in DOMAIN streams /\ streams[Position(s)] = s
<1>1. \E i \in DOMAIN streams : streams[i] = s
  BY DEF Alive
<1> QED BY <1>1 DEF Position

\* ++s is the end of the list or one of its streams.
LEMMA FollowingType ==
  ASSUME streams \in Seq(Stream), NEW s \in Alive
  PROVE  Following(s) \in Alive \union {End}
BY PositionType DEF Following, Alive

\* front visits only streams of the list.
LEMMA RotationType ==
  ASSUME streams \in Seq(Stream), last \in Alive \union {End}
  PROVE  /\ DOMAIN Rotation = 1 .. Len(streams)
         /\ \A i \in DOMAIN Rotation : Rotation[i] \in Alive
<1> DEFINE n == Len(streams)
           k == IF last = End THEN 0 ELSE Position(last)
<1>1. n \in Nat /\ k \in 0 .. n /\ DOMAIN streams = 1 .. n
  BY PositionType
<1>2. Rotation = [i \in 1 .. n |-> streams[((k + i - 1) % n) + 1]]
  BY DEF Rotation
<1>3. ASSUME NEW i \in 1 .. n
      PROVE  ((k + i - 1) % n) + 1 \in 1 .. n
  <2>1. k + i - 1 \in Int /\ n \in Int /\ n > 0
    BY <1>1, <1>3
  <2>2. (k + i - 1) % n \in 0 .. n - 1
    <3> DEFINE a == k + i - 1
    <3>1. a \in Int /\ n \in Int /\ n > 0
      BY <2>1
    <3> HIDE DEF a, n
    <3>2. a % n \in 0 .. n - 1
      BY <3>1
    <3> QED BY <3>2 DEF a
  <2> QED BY <2>2, <1>1
<1> QED BY <1>1, <1>2, <1>3 DEF Alive

\* erase takes one stream out of the list and leaves the others in it.
LEMMA WithoutType ==
  ASSUME streams \in Seq(Stream), NEW i \in DOMAIN streams
  PROVE  /\ Without(i) \in Seq(Stream)
         /\ \A s \in Alive : s # streams[i] =>
              \E j \in DOMAIN Without(i) : Without(i)[j] = s
<1> DEFINE n == Len(streams)
<1>1. n \in Nat /\ n >= 1 /\ i \in 1 .. n /\ DOMAIN streams = 1 .. n
      /\ \A j \in 1 .. n : streams[j] \in Stream
  OBVIOUS
<1>2. DOMAIN Without(i) = 1 .. n - 1 /\ n - 1 \in Nat
      /\ Without(i) \in [1 .. n - 1 -> Stream]
  BY <1>1 DEF Without
<1>3. ASSUME NEW k \in 1 .. n, streams[k] # streams[i]
      PROVE  \E j \in 1 .. n - 1 : Without(i)[j] = streams[k]
  <2> DEFINE j == IF k < i THEN k ELSE k - 1
  <2>1. k # i
    BY <1>3
  <2>2. j \in 1 .. n - 1 /\ k = IF j < i THEN j ELSE j + 1
    BY <1>1, <2>1
  <2>3. Without(i)[j] = streams[k]
    BY <2>2 DEF Without
  <2> QED BY <2>2, <2>3
<1> QED BY <1>1, <1>2, <1>3 DEF Alive

-----------------------------------------------------------------------------
(* The steps of the stream manager.                                        *)

\* What the manager's steps keep, whoever takes them.
KernelOK ==
  /\ ManagerTypeOK
  /\ kernel # None => /\ ops[kernel] # << >>
                      /\ Head(ops[kernel]).type = "kernel"
                      /\ kernel \in Alive \union {Zero}
  /\ \A s \in AnyStream : pending[s] <=> s = kernel

\* The operation in front is taken out; what was before is kept elsewhere.
LEMMA RecordNextDoneOK ==
  ASSUME ManagerTypeOK, NEW s \in AnyStream, ops[s] # << >>, RecordNextDone(s)
  PROVE  /\ ops' \in [AnyStream -> Seq(Operation)]
         /\ pending' \in [AnyStream -> BOOLEAN]
         /\ performed' \subseteq Host \X (Nat \ {0})
         /\ ~pending'[s]
         /\ \A t \in AnyStream \ {s} : ops'[t] = ops[t] /\ pending'[t] = pending[t]
<1>1. ops[s] \in Seq(Operation) /\ Head(ops[s]) \in Operation
      /\ Tail(ops[s]) \in Seq(Operation)
  BY DEF ManagerTypeOK
<1>2. ops' \in [AnyStream -> Seq(Operation)] /\ pending' \in [AnyStream -> BOOLEAN]
  BY <1>1 DEF ManagerTypeOK, RecordNextDone
<1>3. <<Head(ops[s]).host, Head(ops[s]).num>> \in Host \X (Nat \ {0})
  BY <1>1 DEF Operation
<1>4. performed' \subseteq Host \X (Nat \ {0})
  BY <1>3 DEF ManagerTypeOK, RecordNextDone
<1> QED BY <1>2, <1>4 DEF ManagerTypeOK, RecordNextDone

\* An operation that is put at the end of a stream is not in front of the kernel.
LEMMA EnqueueOK ==
  ASSUME RuntimeAssumption, KernelOK,
         NEW s \in AnyStream, NEW o \in Operation, Enqueue(s, o)
  PROVE  KernelOK'
<1>1. ops' \in [AnyStream -> Seq(Operation)]
  BY DEF KernelOK, ManagerTypeOK, Enqueue
<1>2. ASSUME kernel # None
      PROVE  ops'[kernel] # << >> /\ Head(ops'[kernel]) = Head(ops[kernel])
  <2>1. kernel \in AnyStream /\ ops[kernel] \in Seq(Operation) /\ ops[kernel] # << >>
    BY <1>2 DEF KernelOK, ManagerTypeOK
  <2>2. CASE kernel = s
    <3>1. ops'[kernel] = Append(ops[kernel], o)
      BY <2>1, <2>2 DEF KernelOK, ManagerTypeOK, Enqueue
    <3> QED BY <2>1, <3>1
  <2>3. CASE kernel # s
    BY <2>1, <2>3 DEF KernelOK, ManagerTypeOK, Enqueue
  <2> QED BY <2>2, <2>3
<1>3. Alive' = Alive
  BY DEF Alive, Enqueue
<1> QED BY <1>1, <1>2, <1>3 DEF KernelOK, ManagerTypeOK, Enqueue

\* A stream that is created changes neither the kernel's nor m_last_stream.
LEMMA AddStreamOK ==
  ASSUME KernelOK, NEW s \in Stream, AddStream(s)
  PROVE  KernelOK'
<1>1. streams' \in Seq(Stream)
  BY DEF KernelOK, ManagerTypeOK, AddStream
<1>2. Alive \subseteq Alive'
  <2>1. ASSUME NEW i \in DOMAIN streams
        PROVE  i \in DOMAIN streams' /\ streams'[i] = streams[i]
    BY DEF KernelOK, ManagerTypeOK, AddStream
  <2> QED BY <2>1 DEF Alive
<1> QED BY <1>1, <1>2 DEF KernelOK, ManagerTypeOK, AddStream

\* A stream is destroyed when it holds no operation, so not that of the kernel.
LEMMA EraseStreamOK ==
  ASSUME RuntimeAssumption, KernelOK, NEW s \in AnyStream, EraseStream(s)
  PROVE  KernelOK'
<1>1. PICK i \in DOMAIN streams : streams[i] = s /\ streams' = Without(i)
  BY DEF EraseStream
<1>2. streams' \in Seq(Stream) /\ \A t \in Alive : t # s => t \in Alive'
  <2>1. streams \in Seq(Stream)
    BY DEF KernelOK, ManagerTypeOK
  <2>2. /\ streams' \in Seq(Stream)
        /\ \A t \in Alive : t # s => \E j \in DOMAIN streams' : streams'[j] = t
    BY <1>1, <2>1, WithoutType
  <2> QED BY <2>2 DEF Alive
<1>3. last' \in Alive' \union {End}
  BY <1>2 DEF EraseStream, Alive
<1>4. kernel # s
  BY DEF KernelOK, EraseStream, RuntimeAssumption, AnyStream
<1> QED BY <1>2, <1>3, <1>4 DEF KernelOK, ManagerTypeOK, EraseStream

\* front takes its operation from a stream of the list, or from stream zero.
LEMMA FrontType ==
  ASSUME RuntimeAssumption, KernelOK
  PROVE  /\ FrontIsNone => last' \in Alive \union {End}
         /\ \A s : FrontIs(s) =>
              /\ s \in AnyStream /\ s \in Alive \union {Zero}
              /\ Ready(s)
              /\ last' \in Alive \union {End}
<1>1. streams \in Seq(Stream) /\ last \in Alive \union {End} /\ Alive \subseteq Stream
  BY DEF KernelOK, ManagerTypeOK, Alive
<1>2. /\ DOMAIN Rotation = 1 .. Len(streams)
      /\ \A i \in DOMAIN Rotation : Rotation[i] \in Alive
  BY <1>1, RotationType
<1>3. streams # << >> => Len(streams) \in 1 .. Len(streams)
  BY <1>1
<1>4. FrontIsNone => last' \in Alive \union {End}
  BY <1>1, <1>2, <1>3 DEF FrontIsNone
<1>5. ASSUME NEW s, FrontIs(s)
      PROVE  /\ s \in Alive \union {Zero} /\ Ready(s)
             /\ last' \in Alive \union {End}
  BY <1>1, <1>2, <1>5 DEF FrontIs
<1> QED BY <1>1, <1>4, <1>5 DEF AnyStream

\* The operation that operation() takes is performed, becomes the kernel or
\* stays; there is no other kernel.
LEMMA ManagerOperationOK ==
  ASSUME RuntimeAssumption, KernelOK, kernel = None, ManagerOperation
  PROVE  KernelOK'
<1>1. streams' = streams /\ mLock' = mLock /\ Alive' = Alive
      /\ blocking' = blocking
  BY DEF ManagerOperation, Alive
<1>2. CASE FrontIsNone /\ UNCHANGED <<ops, pending, kernel, performed>>
  BY <1>1, <1>2, FrontType DEF KernelOK, ManagerTypeOK
<1>3. ASSUME NEW s, FrontIs(s), DoOperation(s)
      PROVE  KernelOK'
  <2>1. s \in AnyStream /\ s \in Alive \union {Zero} /\ ops[s] # << >>
        /\ last' \in Alive \union {End}
    BY <1>3, FrontType DEF Ready
  <2>2. ops[s] \in Seq(Operation) /\ Head(ops[s]) \in Operation
        /\ Tail(ops[s]) \in Seq(Operation)
    BY <2>1 DEF KernelOK, ManagerTypeOK
  <2>3. CASE RecordNextDone(s) /\ UNCHANGED kernel
    <3>1. ManagerTypeOK /\ \A t \in AnyStream : ~pending[t]
      BY DEF KernelOK, RuntimeAssumption, AnyStream
    <3>2. /\ ops' \in [AnyStream -> Seq(Operation)]
          /\ pending' \in [AnyStream -> BOOLEAN]
          /\ performed' \subseteq Host \X (Nat \ {0})
          /\ \A t \in AnyStream : ~pending'[t]
      BY <2>1, <2>3, <3>1, RecordNextDoneOK
    <3> QED BY <1>1, <2>1, <2>3, <3>1, <3>2
               DEF KernelOK, ManagerTypeOK, RuntimeAssumption, AnyStream
  <2>4. CASE /\ Head(ops[s]).type = "kernel"
             /\ pending' = [pending EXCEPT ![s] = TRUE]
             /\ kernel' = s
             /\ UNCHANGED <<ops, performed>>
    BY <1>1, <2>1, <2>2, <2>4
       DEF KernelOK, ManagerTypeOK, RuntimeAssumption, AnyStream
  <2>5. CASE UNCHANGED <<ops, pending, performed, kernel>>
    BY <1>1, <2>1, <2>5 DEF KernelOK, ManagerTypeOK
  <2> QED BY <1>3, <2>3, <2>4, <2>5 DEF DoOperation
<1> QED BY <1>2, <1>3 DEF ManagerOperation

\* The finished kernel leaves the front of its stream.
LEMMA RegisterFinishedKernelOK ==
  ASSUME RuntimeAssumption, KernelOK, kernel # None, RegisterFinishedKernel
  PROVE  KernelOK'
<1>1. kernel \in AnyStream /\ ops[kernel] # << >> /\ RecordNextDone(kernel)
      /\ ManagerTypeOK
  BY DEF KernelOK, ManagerTypeOK, RegisterFinishedKernel
<1>2. /\ ops' \in [AnyStream -> Seq(Operation)]
      /\ pending' \in [AnyStream -> BOOLEAN]
      /\ performed' \subseteq Host \X (Nat \ {0})
      /\ ~pending'[kernel]
      /\ \A t \in AnyStream \ {kernel} : pending'[t] = pending[t]
  BY <1>1, RecordNextDoneOK
<1>3. \A t \in AnyStream : ~pending'[t]
  BY <1>2 DEF KernelOK
<1>4. kernel' = None /\ streams' = streams /\ last' = last /\ mLock' = mLock
      /\ Alive' = Alive /\ blocking' = blocking
  BY DEF RegisterFinishedKernel, Alive
<1> QED BY <1>1, <1>2, <1>3, <1>4
       DEF KernelOK, ManagerTypeOK, RuntimeAssumption, AnyStream

-----------------------------------------------------------------------------
(* The steps of the hosts and of the simulation thread.                    *)

HostTypeOK ==
  /\ pc \in [Host -> HostPc]
  /\ op \in [Host -> Operation]
  /\ target \in [Host -> AnyStream]
  /\ iter \in [Host -> Stream \union {End, None}]
  /\ each \in [Host -> Stream \union {End, None}]
  /\ calls \in [Host -> 0 .. MaxCalls]
  /\ owner \in [Stream -> Host \union {None}]
  /\ events \in Nat
  /\ issued \in [Host -> Seq(AnyStream)]

SimTypeOK ==
  /\ simPc \in {"idle", "activate", "operate", "run", "check", "stop", "exited"}
  /\ simActive \in BOOLEAN /\ simDone \in BOOLEAN
  /\ simLock \in Host \union {None}
  /\ crashed \in BOOLEAN

SimRuns == simPc = "run" <=> kernel # None

\* The inductive invariant: m_last_stream and m_pending have to be right for the
\* kernel to stay where it is.
Inv == KernelOK /\ HostTypeOK /\ SimTypeOK /\ SimRuns

LEMMA InvImplies == Inv => TypeOK /\ KernelAtFront
BY DEF Inv, KernelOK, HostTypeOK, SimTypeOK, SimRuns, TypeOK, KernelAtFront

LEMMA InvInit ==
  ASSUME RuntimeAssumption, CallAssumption, Init
  PROVE  Inv
<1>1. KernelOK
  BY DEF RuntimeAssumption, Init, ManagerInit, KernelOK, ManagerTypeOK, AnyStream,
         Alive
<1>2. HostTypeOK
  BY DEF CallAssumption, Init, HostTypeOK, HostPc, Operation, AnyStream
<1>3. SimTypeOK /\ SimRuns
  BY DEF Init, ManagerInit, SimTypeOK, SimRuns
<1> QED BY <1>1, <1>2, <1>3 DEF Inv

\* A step that leaves the manager alone keeps what is true of it.
LEMMA ManagerUnchangedOK ==
  ASSUME KernelOK, UNCHANGED managerVars
  PROVE  KernelOK'
<1>1. Alive' = Alive
  BY DEF managerVars, Alive
<1> QED BY <1>1 DEF managerVars, KernelOK, ManagerTypeOK

\* A host that calls push is given an operation and a place to go.
LEMMA StartPushOK ==
  ASSUME HostTypeOK, NEW h \in Host, NEW type \in {"copy", "kernel", "event", "wait"},
         NEW s \in AnyStream, NEW cnt \in Nat, StartPush(h, type, s, cnt)
  PROVE  /\ op' \in [Host -> Operation]
         /\ target' \in [Host -> AnyStream]
         /\ pc' \in [Host -> HostPc]
<1>1. Len(issued[h]) + 1 \in Nat \ {0}
  BY DEF HostTypeOK
<1>2. [type |-> type, host |-> h, num |-> Len(issued[h]) + 1, cnt |-> cnt]
        \in Operation
  BY <1>1 DEF Operation
<1> QED BY <1>2 DEF HostTypeOK, StartPush, GoTo, HostPc

\* A call is counted, within its bound.
LEMMA CallCounted ==
  ASSUME CallAssumption, HostTypeOK, NEW h \in Host, NEW call, Call(h, call)
  PROVE  calls' \in [Host -> 0 .. MaxCalls]
BY DEF CallAssumption, HostTypeOK, Call

\* Whatever call a host makes.
LEMMA ApiCallOK ==
  ASSUME RuntimeAssumption, CallAssumption, Inv, NEW h \in Host, ApiCall(h)
  PROVE  Inv'
<1> USE DEF Inv
<1>0. streams \in Seq(Stream) /\ Alive \subseteq Stream /\ Stream \subseteq AnyStream
      /\ Begin \in Stream \union {End, None}
  BY DEF KernelOK, ManagerTypeOK, Alive, AnyStream, Begin
<1>1. ASSUME NEW type \in {"copy", "kernel", "event"}, NEW s \in AnyStream,
             CallPush(h, type, s)
      PROVE  Inv'
  <2>1. /\ op' \in [Host -> Operation] /\ target' \in [Host -> AnyStream]
        /\ pc' \in [Host -> HostPc]
    BY <1>1, StartPushOK DEF CallPush
  <2>2. HostTypeOK'
    <3>1. calls' \in [Host -> 0 .. MaxCalls] /\ events' \in Nat
      BY <1>1, CallCounted DEF CallPush, HostTypeOK
    <3> QED BY <1>1, <2>1, <3>1 DEF CallPush, HostTypeOK
  <2> QED BY <1>1, <2>2, ManagerUnchangedOK
          DEF CallPush, SimTypeOK, SimRuns, simVars, managerVars
<1>2. ASSUME NEW s \in Stream, CallWait(h, s)
      PROVE  Inv'
  <2>1. /\ op' \in [Host -> Operation] /\ target' \in [Host -> AnyStream]
        /\ pc' \in [Host -> HostPc]
    BY <1>0, <1>2, StartPushOK DEF CallWait, HostTypeOK
  <2>2. HostTypeOK'
    <3>1. calls' \in [Host -> 0 .. MaxCalls]
      BY <1>2, CallCounted DEF CallWait
    <3> QED BY <1>2, <2>1, <3>1 DEF CallWait, HostTypeOK
  <2> QED BY <1>2, <2>2, ManagerUnchangedOK
          DEF CallWait, SimTypeOK, SimRuns, simVars, managerVars
<1>3. CASE CallWaitAll(h)
  <2>1. HostTypeOK'
    BY <1>0, <1>3 DEF CallWaitAll, Call, GoTo, HostPc, HostTypeOK, CallAssumption
  <2> QED BY <1>3, <2>1, ManagerUnchangedOK
          DEF CallWaitAll, SimTypeOK, SimRuns, simVars, managerVars
<1>4. CASE CallCreate(h)
  <2>1. PICK s \in Stream :
          /\ Call(h, "create")
          /\ owner' = [owner EXCEPT ![s] = h]
          /\ AddStream(s)
          /\ UNCHANGED <<simVars, crashed, pc, op, target, iter, each, events, issued>>
    BY <1>4 DEF CallCreate
  <2>2. HostTypeOK'
    BY <2>1 DEF Call, HostTypeOK, CallAssumption
  <2>3. KernelOK' /\ kernel' = kernel
    BY <2>1, AddStreamOK DEF AddStream
  <2> QED BY <2>1, <2>2, <2>3 DEF SimTypeOK, SimRuns, simVars
<1>5. ASSUME NEW call \in {"streamSync", "destroy"}, NEW s \in Stream,
             CallOnStream(h, call, s)
      PROVE  Inv'
  <2>1. HostTypeOK'
    BY <1>0, <1>5 DEF CallOnStream, Call, GoTo, HostPc, HostTypeOK, CallAssumption
  <2> QED BY <1>5, <2>1, ManagerUnchangedOK
          DEF CallOnStream, SimTypeOK, SimRuns, simVars, managerVars
<1>6. CASE CallSync(h)
  <2>1. HostTypeOK'
    BY <1>6 DEF CallSync, Call, GoTo, HostPc, HostTypeOK, CallAssumption
  <2> QED BY <1>6, <2>1, ManagerUnchangedOK
          DEF CallSync, SimTypeOK, SimRuns, simVars, managerVars
<1>7. CASE CallExit(h)
  <2>1. HostTypeOK'
    BY <1>7 DEF CallExit, Call, GoTo, HostPc, HostTypeOK, CallAssumption
  <2> QED BY <1>7, <2>1, ManagerUnchangedOK
          DEF CallExit, SimTypeOK, SimRuns, simVars, managerVars
<1> QED BY <1>1, <1>2, <1>3, <1>4, <1>5, <1>6, <1>7 DEF ApiCall

\* Where a host goes, whichever way a push or a look at the streams ends.
LEMMA ReturnOK ==
  ASSUME HostTypeOK, NEW h \in Host, Return(h)
  PROVE  pc' \in [Host -> HostPc]
BY DEF HostTypeOK, Return, GoTo, HostPc

LEMMA ScanReturnsOK ==
  ASSUME HostTypeOK, SimTypeOK, NEW h \in Host, NEW result, ScanReturns(h, result)
  PROVE  /\ iter' \in [Host -> Stream \union {End, None}]
         /\ pc' \in [Host -> HostPc]
         /\ simLock' \in Host \union {None}
<1>1. iter' \in [Host -> Stream \union {End, None}]
  BY DEF ScanReturns, HostTypeOK
<1>2. CASE pc[h] = "drain"
  BY <1>1, <1>2, ReturnOK DEF ScanReturns, HostTypeOK, SimTypeOK
<1>3. CASE pc[h] = "syncScan"
  BY <1>1, <1>3 DEF ScanReturns, GoTo, HostPc, HostTypeOK, SimTypeOK
<1> QED BY <1>2, <1>3 DEF ScanReturns

\* Whatever a host does in a call.
LEMMA InCallOK ==
  ASSUME RuntimeAssumption, Inv, NEW h \in Host, InCall(h)
  PROVE  Inv'
<1> USE DEF Inv
<1>0. streams \in Seq(Stream) /\ Alive \subseteq Stream /\ Stream \subseteq AnyStream
      /\ Zero \in AnyStream /\ Begin \in Stream \union {End, None}
      /\ \A s \in Alive : Following(s) \in Stream \union {End, None}
  BY FollowingType DEF KernelOK, ManagerTypeOK, Alive, AnyStream, Begin
<1>1. CASE Block(h)
  <2>1. HostTypeOK'
    BY <1>1 DEF Block, GoTo, HostPc, HostTypeOK
  <2> QED BY <1>1, <2>1, ManagerUnchangedOK
          DEF Block, SimTypeOK, SimRuns, simVars, managerVars
<1>2. CASE Push(h)
  <2> DEFINE s == IF Blocks(target[h]) THEN Zero ELSE target[h]
  <2>1. s \in AnyStream /\ op[h] \in Operation
    BY <1>0 DEF HostTypeOK
  <2>2. Enqueue(s, op[h]) /\ issued' = [issued EXCEPT ![h] = Append(@, s)]
    BY <1>2 DEF Push
  <2> HIDE DEF s
  <2>3. issued' \in [Host -> Seq(AnyStream)]
    BY <2>1, <2>2 DEF HostTypeOK
  <2>4. pc' \in [Host -> HostPc]
    BY <1>2, ReturnOK DEF Push, GoTo, HostPc, HostTypeOK
  <2>5. HostTypeOK'
    BY <1>2, <2>3, <2>4 DEF Push, HostTypeOK
  <2>6. KernelOK' /\ kernel' = kernel
    BY <2>1, <2>2, EnqueueOK DEF Enqueue
  <2> QED BY <1>2, <2>5, <2>6 DEF Push, SimTypeOK, SimRuns, simVars
<1>3. CASE ScanBegin(h)
  <2>1. HostTypeOK'
    BY <1>0, <1>3 DEF ScanBegin, HostTypeOK
  <2> QED BY <1>3, <2>1, ManagerUnchangedOK
          DEF ScanBegin, SimTypeOK, SimRuns, simVars, managerVars
<1>4. CASE ScanStream(h)
  <2>1. CASE ops[iter[h]] = << >>
    <3>1. /\ iter' \in [Host -> Stream \union {End, None}]
          /\ UNCHANGED <<pc, simLock>>
      BY <1>0, <1>4, <2>1 DEF ScanStream, HostTypeOK
    <3> QED BY <1>4, <3>1, ManagerUnchangedOK
            DEF ScanStream, HostTypeOK, SimTypeOK, SimRuns, managerVars
  <2>2. CASE ops[iter[h]] # << >>
    <3>1. ScanReturns(h, FALSE)
      BY <1>4, <2>2 DEF ScanStream
    <3>2. /\ iter' \in [Host -> Stream \union {End, None}]
          /\ pc' \in [Host -> HostPc]
          /\ simLock' \in Host \union {None}
      BY <3>1, ScanReturnsOK
    <3> QED BY <1>4, <3>2, ManagerUnchangedOK
            DEF ScanStream, HostTypeOK, SimTypeOK, SimRuns, managerVars
  <2> QED BY <2>1, <2>2
<1>5. CASE ScanZero(h)
  <2>1. /\ iter' \in [Host -> Stream \union {End, None}]
        /\ pc' \in [Host -> HostPc]
        /\ simLock' \in Host \union {None}
    BY <1>5, ScanReturnsOK DEF ScanZero
  <2> QED BY <1>5, <2>1, ManagerUnchangedOK
          DEF ScanZero, HostTypeOK, SimTypeOK, SimRuns, managerVars
<1>6. CASE SyncLock(h)
  <2>1. HostTypeOK'
    BY <1>6 DEF SyncLock, GoTo, HostPc, HostTypeOK
  <2> QED BY <1>6, <2>1, ManagerUnchangedOK
          DEF SyncLock, SimTypeOK, SimRuns, managerVars
<1>7. CASE StreamSync(h)
  <2>1. HostTypeOK'
    BY <1>7 DEF StreamSync, GoTo, HostPc, HostTypeOK
  <2> QED BY <1>7, <2>1, ManagerUnchangedOK
          DEF StreamSync, SimTypeOK, SimRuns, simVars, managerVars
<1>8. CASE Each(h)
  <2>1. CASE each[h] = End
    <3>1. HostTypeOK'
      BY <1>8, <2>1 DEF Each, GoTo, HostPc, HostTypeOK
    <3> QED BY <1>8, <3>1, ManagerUnchangedOK
            DEF Each, SimTypeOK, SimRuns, simVars, managerVars
  <2>2. CASE each[h] # End
    <3>1. /\ op' \in [Host -> Operation] /\ target' \in [Host -> AnyStream]
          /\ pc' \in [Host -> HostPc]
      BY <1>0, <1>8, <2>2, StartPushOK DEF Each, HostTypeOK
    <3>2. HostTypeOK'
      BY <1>8, <2>2, <3>1 DEF Each, HostTypeOK
    <3> QED BY <1>8, <3>2, ManagerUnchangedOK
            DEF Each, SimTypeOK, SimRuns, simVars, managerVars
  <2> QED BY <2>1, <2>2
<1>9. CASE NextEach(h)
  <2>1. HostTypeOK'
    BY <1>0, <1>9 DEF NextEach, GoTo, HostPc, HostTypeOK
  <2> QED BY <1>9, <2>1, ManagerUnchangedOK
          DEF NextEach, SimTypeOK, SimRuns, simVars, managerVars
<1>10. CASE DestroyLock(h)
  <2>1. HostTypeOK'
    BY <1>10 DEF DestroyLock, GoTo, HostPc, HostTypeOK
  <2>2. KernelOK' /\ kernel' = kernel
    <3>1. Alive' = Alive
      BY <1>10 DEF DestroyLock, LockToDestroy, Alive
    <3> QED BY <1>10, <3>1 DEF DestroyLock, LockToDestroy, KernelOK, ManagerTypeOK
  <2> QED BY <1>10, <2>1, <2>2 DEF DestroyLock, SimTypeOK, SimRuns, simVars
<1>11. CASE DestroySpin(h)
  <2>1. HostTypeOK'
    BY <1>11 DEF DestroySpin, GoTo, HostPc, HostTypeOK
  <2>2. target[h] \in AnyStream /\ EraseStream(target[h])
    BY <1>11 DEF DestroySpin, HostTypeOK
  <2>3. KernelOK' /\ kernel' = kernel
    BY <2>2, EraseStreamOK DEF EraseStream
  <2> QED BY <1>11, <2>1, <2>3 DEF DestroySpin, SimTypeOK, SimRuns, simVars
<1>12. CASE Exit(h)
  <2>1. HostTypeOK'
    BY <1>12 DEF Exit, GoTo, HostPc, HostTypeOK
  <2> QED BY <1>12, <2>1, ManagerUnchangedOK
          DEF Exit, SimTypeOK, SimRuns, simVars, managerVars
<1> QED BY <1>1, <1>2, <1>3, <1>4, <1>5, <1>6, <1>7, <1>8, <1>9, <1>10, <1>11,
           <1>12 DEF InCall

\* Whatever the simulation thread does: it takes the next operation only when the
\* last kernel is finished.
LEMMA SimThreadOK ==
  ASSUME RuntimeAssumption, Inv, SimThread
  PROVE  Inv'
<1> USE DEF Inv
<1>1. HostTypeOK' /\ crashed' = crashed
  BY DEF SimThread, HostTypeOK, hostVars
<1>2. CASE SimWait \/ SimActivate \/ SimCheck \/ SimStop
  <2>1. UNCHANGED managerVars
    BY <1>2 DEF SimWait, SimActivate, SimCheck, SimStop
  <2>2. KernelOK' /\ kernel' = kernel
    BY <2>1, ManagerUnchangedOK DEF managerVars
  <2>3. SimTypeOK' /\ SimRuns'
    BY <1>1, <1>2, <2>2
       DEF SimWait, SimActivate, SimCheck, SimStop, SimTypeOK, SimRuns
  <2> QED BY <1>1, <2>2, <2>3
<1>3. CASE SimOperate
  <2>1. kernel = None /\ ManagerOperation
    BY <1>3 DEF SimOperate, SimRuns
  <2>2. KernelOK'
    BY <2>1, ManagerOperationOK
  <2>3. SimTypeOK' /\ SimRuns'
    BY <1>1, <1>3 DEF SimOperate, SimTypeOK, SimRuns
  <2> QED BY <1>1, <2>2, <2>3
<1>4. CASE SimRun
  <2>1. kernel # None /\ RegisterFinishedKernel
    BY <1>4 DEF SimRun, SimRuns
  <2>2. KernelOK' /\ kernel' = None
    BY <2>1, RegisterFinishedKernelOK DEF RegisterFinishedKernel
  <2>3. SimTypeOK' /\ SimRuns'
    BY <1>1, <1>4, <2>2 DEF SimRun, SimTypeOK, SimRuns
  <2> QED BY <1>1, <2>2, <2>3
<1> QED BY <1>2, <1>3, <1>4 DEF SimThread

LEMMA InvStep ==
  ASSUME RuntimeAssumption, CallAssumption, Inv, [Next]_vars
  PROVE  Inv'
<1>1. ASSUME NEW h \in Host, ApiCall(h)
      PROVE  Inv'
  BY <1>1, ApiCallOK
<1>2. ASSUME NEW h \in Host, InCall(h)
      PROVE  Inv'
  BY <1>2, InCallOK
<1>3. ASSUME NEW h \in Host, Crash(h)
      PROVE  Inv'
  BY <1>3, ManagerUnchangedOK
     DEF Crash, Inv, HostTypeOK, SimTypeOK, SimRuns, hostVars, simVars, managerVars
<1>4. CASE SimThread
  BY <1>4, SimThreadOK
<1>5. CASE UNCHANGED vars
  BY <1>5, ManagerUnchangedOK
     DEF vars, Inv, HostTypeOK, SimTypeOK, SimRuns, hostVars, simVars, managerVars
<1> QED BY <1>1, <1>2, <1>3, <1>4, <1>5 DEF Next, HostStep, SimStep

-----------------------------------------------------------------------------

LEMMA Invariance == Spec => []Inv
<1>1. Init => Inv
  BY RuntimeAssumption, CallAssumption, InvInit
<1>2. Inv /\ [Next]_vars => Inv'
  BY RuntimeAssumption, CallAssumption, InvStep
<1> QED BY <1>1, <1>2, PTL DEF Spec

\* The state keeps its types: whichever streams are created and destroyed,
\* m_last_stream is the end of the list or a stream that exists.
THEOREM RuntimeTypes == Spec => []TypeOK
BY Invariance, InvImplies, PTL

\* The assertions of record_next_done and register_finished_kernel hold for any
\* number of hosts and streams: a kernel stays at the front of a stream that
\* exists until it is finished, and only its stream is pending.
THEOREM KernelStaysAtFront == Spec => []KernelAtFront
BY Invariance, InvImplies, PTL
-----------------------------------------------------------------------------
(* The order of a host's operations: the inductive invariant.              *)

\* Host h has nothing in stream s that is still to be performed.
Quiet(h, s) == \A n \in DOMAIN issued[h] : issued[h][n] = s => Performed(h, n)

\* What a stream holds was issued to it and is not performed.
QueueOf(s) ==
  /\ \A j \in DOMAIN ops[s] :
       /\ ops[s][j].num \in DOMAIN issued[ops[s][j].host]
       /\ issued[ops[s][j].host][ops[s][j].num] = s
       /\ ~Performed(ops[s][j].host, ops[s][j].num)
  /\ \A i, j \in DOMAIN ops[s] :
       i < j /\ ops[s][i].host = ops[s][j].host => ops[s][i].num < ops[s][j].num

\* What is performed was issued; what is not waits in the stream it was issued to.
IssuedBy(h) ==
  /\ \A p \in performed : p[1] = h => p[2] \in DOMAIN issued[h]
  /\ \A n \in DOMAIN issued[h] : ~Performed(h, n) =>
       \E j \in DOMAIN ops[issued[h][n]] :
         ops[issued[h][n]][j].host = h /\ ops[issued[h][n]][j].num = n

\* A host that pushes for the default stream has nothing left in any other, and pushes
\* nothing else until the default stream has been empty.
PushOf(h) ==
  /\ pc[h] \in {"block", "push"} =>
       op[h].host = h /\ op[h].num = Len(issued[h]) + 1
  /\ pc[h] = "push" /\ Blocks(target[h]) =>
       \A n \in DOMAIN issued[h] : Performed(h, n)
  /\ pc[h] = "drain" =>
       \A n \in DOMAIN issued[h] :
         n # Len(issued[h]) \/ issued[h][n] # Zero => Performed(h, n)
  /\ pc[h] # "drain" => Quiet(h, Zero)

\* The streams a host has found empty while it synchronizes hold nothing of it.
ScanOf(h) ==
  /\ iter[h] \in Stream => owner[iter[h]] # None
  /\ pc[h] \notin {"drain", "syncScan"} => iter[h] = None
  /\ pc[h] = "syncScan" =>
       \A j \in DOMAIN streams :
         (iter[h] = End \/ \E k \in DOMAIN streams : j < k /\ streams[k] = iter[h])
           => Quiet(h, streams[j])

\* A stream is in the list once, from its creation until it is empty and destroyed.
StreamList ==
  /\ \A i, j \in DOMAIN streams : streams[i] = streams[j] => i = j
  /\ \A s \in Alive : owner[s] # None
  /\ \A s \in Stream : ops[s] # << >> => s \in Alive

OrderInv == /\ \A s \in AnyStream : QueueOf(s)
            /\ \A h \in Host : IssuedBy(h) /\ PushOf(h) /\ ScanOf(h)
            /\ StreamList

\* The types of what streams and hosts hold, element by element.
LEMMA OrderTypes ==
  ASSUME Inv
  PROVE  /\ \A s \in AnyStream : /\ ops[s] \in Seq(Operation)
                                 /\ Len(ops[s]) \in Nat /\ DOMAIN ops[s] = 1 .. Len(ops[s])
                                 /\ \A j \in DOMAIN ops[s] : ops[s][j] \in Operation
         /\ \A h \in Host : /\ issued[h] \in Seq(AnyStream)
                            /\ Len(issued[h]) \in Nat
                            /\ DOMAIN issued[h] = 1 .. Len(issued[h])
                            /\ \A n \in DOMAIN issued[h] : issued[h][n] \in AnyStream
         /\ streams \in Seq(Stream) /\ Len(streams) \in Nat
         /\ DOMAIN streams = 1 .. Len(streams)
         /\ \A j \in DOMAIN streams : streams[j] \in Stream
<1>1. /\ ops \in [AnyStream -> Seq(Operation)] /\ streams \in Seq(Stream)
      /\ issued \in [Host -> Seq(AnyStream)]
  BY DEF Inv, KernelOK, ManagerTypeOK, HostTypeOK
<1>2. ASSUME NEW s \in AnyStream
      PROVE  /\ ops[s] \in Seq(Operation)
             /\ Len(ops[s]) \in Nat /\ DOMAIN ops[s] = 1 .. Len(ops[s])
             /\ \A j \in DOMAIN ops[s] : ops[s][j] \in Operation
  BY <1>1
<1>3. ASSUME NEW h \in Host
      PROVE  /\ issued[h] \in Seq(AnyStream)
             /\ Len(issued[h]) \in Nat
             /\ DOMAIN issued[h] = 1 .. Len(issued[h])
             /\ \A n \in DOMAIN issued[h] : issued[h][n] \in AnyStream
  BY <1>1
<1> QED BY <1>1, <1>2, <1>3

\* A host has nothing left in a stream that is empty, and none in one that is not there.
LEMMA EmptyQuiet ==
  ASSUME OrderInv, NEW h \in Host, NEW s \in AnyStream,
         ops[s] = << >> \/ s \in Stream \ Alive
  PROVE  Quiet(h, s)
<1>1. ops[s] = << >>
  BY DEF OrderInv, StreamList
<1>2. DOMAIN ops[s] = {}
  BY <1>1
<1> QED BY <1>2 DEF OrderInv, IssuedBy, Quiet

\* Streams that are all empty, or not there, leave nothing to be performed.
LEMMA AllQuiet ==
  ASSUME Inv, NEW h \in Host, \A s \in AnyStream : Quiet(h, s)
  PROVE  \A n \in DOMAIN issued[h] : Performed(h, n)
BY OrderTypes DEF Quiet

LEMMA OrderInit ==
  ASSUME RuntimeAssumption, Init
  PROVE  OrderInv
<1>1. /\ \A s \in AnyStream : ops[s] = << >> /\ DOMAIN ops[s] = {}
      /\ \A h \in Host : DOMAIN issued[h] = {} /\ pc[h] = "ready" /\ iter[h] = None
      /\ DOMAIN streams = {} /\ performed = {} /\ Alive = {}
  BY DEF Init, ManagerInit, Alive
<1>2. \A s \in AnyStream : QueueOf(s)
  BY <1>1 DEF QueueOf
<1>3. \A h \in Host : IssuedBy(h) /\ PushOf(h) /\ ScanOf(h)
  BY <1>1 DEF IssuedBy, PushOf, ScanOf, Quiet, RuntimeAssumption
<1>4. StreamList
  BY <1>1 DEF StreamList, AnyStream
<1> QED BY <1>2, <1>3, <1>4 DEF OrderInv

-----------------------------------------------------------------------------
(* Steps that issue and perform nothing.                                   *)

LEMMA QuietKept ==
  ASSUME OrderInv, UNCHANGED <<ops, issued, performed>>
  PROVE  /\ \A s \in AnyStream : QueueOf(s)'
         /\ \A h \in Host : IssuedBy(h)'
         /\ \A h \in Host, s \in AnyStream : Quiet(h, s) => Quiet(h, s)'
BY DEF OrderInv, QueueOf, IssuedBy, Quiet, Performed

\* One host moves; what the others wait for stays.
LEMMA HostMoves ==
  ASSUME Inv, OrderInv, NEW h \in Host,
         UNCHANGED <<blocking, streams, ops, performed, issued, owner>>,
         \A g \in Host \ {h} : /\ pc'[g] = pc[g] /\ op'[g] = op[g]
                               /\ target'[g] = target[g] /\ iter'[g] = iter[g],
         PushOf(h)', ScanOf(h)'
  PROVE  OrderInv'
<1>1. Alive' = Alive
  BY DEF Alive
<1>2. StreamList'
  BY <1>1 DEF OrderInv, StreamList
<1>3. ASSUME NEW g \in Host \ {h}
      PROVE  PushOf(g)' /\ ScanOf(g)'
  <2>1. PushOf(g) /\ ScanOf(g)
    BY DEF OrderInv
  <2>2. /\ Quiet(g, Zero)' <=> Quiet(g, Zero)
        /\ \A j : Quiet(g, streams[j])' <=> Quiet(g, streams[j])
    BY DEF Quiet, Performed
  <2>3. PushOf(g)'
    BY <2>1, <2>2 DEF PushOf, Blocks, Performed
  <2>4. ScanOf(g)'
    BY <2>1, <2>2 DEF ScanOf
  <2> QED BY <2>3, <2>4
<1> QED BY <1>2, <1>3, QuietKept DEF OrderInv

\* A host that goes where it neither pushes nor looks at the streams.
LEMMA HostGoes ==
  ASSUME Inv, OrderInv, NEW h \in Host,
         UNCHANGED <<blocking, streams, ops, performed, issued, owner>>,
         \A g \in Host \ {h} : /\ pc'[g] = pc[g] /\ op'[g] = op[g]
                               /\ target'[g] = target[g] /\ iter'[g] = iter[g],
         pc'[h] \notin {"block", "push", "drain", "syncScan"},
         Quiet(h, Zero), iter'[h] = None, RuntimeAssumption
  PROVE  OrderInv'
<1>1. Quiet(h, Zero)'
  BY DEF Quiet, Performed
<1>2. PushOf(h)'
  BY <1>1 DEF PushOf
<1>3. ScanOf(h)'
  BY DEF ScanOf, RuntimeAssumption
<1> QED BY <1>2, <1>3, HostMoves

\* A host that calls push from a place where it has nothing in the default stream.
LEMMA HostStartsPush ==
  ASSUME Inv, OrderInv, RuntimeAssumption, NEW h \in Host,
         UNCHANGED <<blocking, streams, ops, performed, issued, owner, iter>>,
         NEW type, NEW s, NEW cnt, StartPush(h, type, s, cnt),
         pc[h] \notin {"drain", "syncScan"}
  PROVE  OrderInv'
<1>1. /\ pc \in [Host -> HostPc] /\ op \in [Host -> Operation]
      /\ target \in [Host -> AnyStream]
  BY DEF Inv, HostTypeOK
<1>2. /\ op'[h] = [type |-> type, host |-> h, num |-> Len(issued[h]) + 1, cnt |-> cnt]
      /\ target'[h] = s
      /\ pc'[h] = IF Blocks(s) THEN "block" ELSE "push"
      /\ \A g \in Host \ {h} : /\ pc'[g] = pc[g] /\ op'[g] = op[g]
                               /\ target'[g] = target[g] /\ iter'[g] = iter[g]
  BY <1>1 DEF StartPush, GoTo
<1>3. Quiet(h, Zero) /\ iter[h] = None
  BY DEF OrderInv, PushOf, ScanOf
<1>4. Quiet(h, Zero)' /\ (Blocks(s)' <=> Blocks(s))
  BY <1>3 DEF Quiet, Performed, Blocks
<1>5. PushOf(h)'
  <2>1. op'[h].host = h /\ op'[h].num = Len(issued'[h]) + 1
    BY <1>2
  <2>2. pc'[h] = "push" => ~Blocks(s)'
    BY <1>2, <1>4
  <2>3. pc'[h] # "drain"
    BY <1>2
  <2> QED BY <1>2, <1>4, <2>1, <2>2, <2>3 DEF PushOf, Blocks
<1>6. ScanOf(h)'
  BY <1>2, <1>3 DEF ScanOf, RuntimeAssumption
<1> QED BY <1>2, <1>5, <1>6, HostMoves

\* Whatever call a host makes, it has not pushed yet.
LEMMA ApiCallOrder ==
  ASSUME RuntimeAssumption, Inv, OrderInv, NEW h \in Host, ApiCall(h)
  PROVE  OrderInv'
<1>0. /\ pc \in [Host -> HostPc] /\ iter \in [Host -> Stream \union {End, None}]
      /\ target \in [Host -> AnyStream] /\ owner \in [Stream -> Host \union {None}]
  BY DEF Inv, HostTypeOK
<1>1. ASSUME NEW call, Call(h, call)
      PROVE  pc[h] = "ready" /\ Quiet(h, Zero) /\ iter[h] = None
  BY <1>1 DEF Call, OrderInv, PushOf, ScanOf
<1>2. ASSUME NEW type \in {"copy", "kernel", "event"}, NEW s \in AnyStream,
             CallPush(h, type, s)
      PROVE  OrderInv'
  <2>1. pc[h] = "ready" /\ StartPush(h, type, s, 0)
    BY <1>2 DEF CallPush, Call
  <2> QED BY <1>2, <2>1, HostStartsPush DEF CallPush, managerVars
<1>3. ASSUME NEW s \in Stream, CallWait(h, s)
      PROVE  OrderInv'
  <2>1. pc[h] = "ready" /\ StartPush(h, "wait", s, events)
    BY <1>3 DEF CallWait, Call
  <2> QED BY <1>3, <2>1, HostStartsPush DEF CallWait, managerVars
<1>4. CASE CallWaitAll(h)
  <2>1. pc'[h] = "each" /\ \A g \in Host \ {h} : pc'[g] = pc[g]
    BY <1>0, <1>4 DEF CallWaitAll, GoTo
  <2>2. Quiet(h, Zero) /\ iter[h] = None
    BY <1>1, <1>4 DEF CallWaitAll
  <2> QED BY <1>4, <2>1, <2>2, HostGoes DEF CallWaitAll, managerVars
<1>5. CASE CallCreate(h)
  <2>1. PICK s \in Stream :
          /\ owner[s] = None /\ owner' = [owner EXCEPT ![s] = h] /\ AddStream(s)
          /\ UNCHANGED <<pc, op, target, iter, issued>>
    BY <1>5 DEF CallCreate
  <2>2. UNCHANGED <<blocking, ops, performed>> /\ streams' = Append(streams, s)
    BY <2>1 DEF AddStream
  <2>3. /\ streams' \in Seq(Stream) /\ DOMAIN streams' = 1 .. Len(streams) + 1
        /\ \A j \in DOMAIN streams : j \in DOMAIN streams' /\ streams'[j] = streams[j]
        /\ streams'[Len(streams) + 1] = s
        /\ \A j \in DOMAIN streams' : j \in DOMAIN streams \/ j = Len(streams) + 1
        /\ \A j \in DOMAIN streams : j # Len(streams) + 1
        /\ \A j \in DOMAIN streams : ~(Len(streams) + 1 < j)
    BY <2>2, OrderTypes
  <2>4. Alive' = Alive \union {s}
    BY <2>3 DEF Alive
  <2>5. s \notin Alive /\ h # None /\ \A t \in Stream : owner[t] # None => owner'[t] # None
    BY <1>0, <2>1 DEF OrderInv, StreamList, RuntimeAssumption
  <2>6. owner'[s] = h
    BY <1>0, <2>1
  <2>7. StreamList'
    <3>1. \A i, j \in DOMAIN streams' : streams'[i] = streams'[j] => i = j
      BY <2>3, <2>5 DEF OrderInv, StreamList, Alive
    <3>2. \A t \in Alive' : owner'[t] # None
      <4>1. Alive \subseteq Stream
        BY OrderTypes DEF Alive
      <4> QED BY <2>4, <2>5, <2>6, <4>1 DEF OrderInv, StreamList
    <3> QED BY <2>2, <2>4, <3>1, <3>2 DEF OrderInv, StreamList
  <2>8. ASSUME NEW g \in Host
        PROVE  PushOf(g)' /\ ScanOf(g)'
    <3>1. PushOf(g) /\ ScanOf(g)
      BY DEF OrderInv
    <3>2. \A t : Quiet(g, t)' <=> Quiet(g, t)
      BY <2>1, <2>2 DEF Quiet, Performed
    <3>3. PushOf(g)'
      BY <2>1, <2>2, <3>1, <3>2 DEF PushOf, Blocks, Performed
    <3>4. Quiet(g, s)
      BY <2>5, EmptyQuiet DEF AnyStream
    <3>5. iter[g] \in Stream => iter[g] # s /\ owner'[iter[g]] # None
      BY <2>1, <2>5, <3>1 DEF ScanOf
    <3>6. ASSUME pc[g] = "syncScan", NEW j \in DOMAIN streams',
                 iter[g] = End \/ \E k \in DOMAIN streams' : j < k /\ streams'[k] = iter[g]
          PROVE  Quiet(g, streams'[j])
      <4>1. CASE j = Len(streams) + 1
        BY <2>3, <3>4, <4>1
      <4>2. CASE j \in DOMAIN streams /\ iter[g] = End
        BY <2>3, <3>1, <3>6, <4>2 DEF ScanOf
      <4>3. ASSUME j \in DOMAIN streams, NEW k \in DOMAIN streams',
                   j < k, streams'[k] = iter[g]
            PROVE  Quiet(g, streams'[j])
        <5>1. iter[g] \in Stream
          BY <2>3, <4>3
        <5>2. k \in DOMAIN streams /\ streams[k] = iter[g]
          BY <2>3, <3>5, <4>3, <5>1
        <5> QED BY <2>3, <3>1, <3>6, <4>3, <5>2 DEF ScanOf
      <4> QED BY <2>3, <3>6, <4>1, <4>2, <4>3
    <3>7. ScanOf(g)'
      <4>1. iter' = iter /\ pc' = pc
        BY <2>1
      <4> QED BY <3>1, <3>2, <3>5, <3>6, <4>1 DEF ScanOf
    <3> QED BY <3>3, <3>7
  <2> QED BY <2>1, <2>2, <2>7, <2>8, QuietKept DEF OrderInv
<1>6. ASSUME NEW call \in {"streamSync", "destroy"}, NEW s \in Stream,
             CallOnStream(h, call, s)
      PROVE  OrderInv'
  <2>1. /\ pc'[h] \in {"destroySync", "streamSync"}
        /\ \A g \in Host \ {h} : pc'[g] = pc[g] /\ target'[g] = target[g]
    BY <1>0, <1>6 DEF CallOnStream, GoTo
  <2>2. Quiet(h, Zero) /\ iter[h] = None
    BY <1>1, <1>6 DEF CallOnStream
  <2> QED BY <1>6, <2>1, <2>2, HostGoes DEF CallOnStream, managerVars
<1>7. CASE CallSync(h)
  <2>1. pc'[h] = "sync" /\ \A g \in Host \ {h} : pc'[g] = pc[g]
    BY <1>0, <1>7 DEF CallSync, GoTo
  <2>2. Quiet(h, Zero) /\ iter[h] = None
    BY <1>1, <1>7 DEF CallSync
  <2> QED BY <1>7, <2>1, <2>2, HostGoes DEF CallSync, managerVars
<1>8. CASE CallExit(h)
  <2>1. pc'[h] = "exiting" /\ \A g \in Host \ {h} : pc'[g] = pc[g]
    BY <1>0, <1>8 DEF CallExit, GoTo
  <2>2. Quiet(h, Zero) /\ iter[h] = None
    BY <1>1, <1>8 DEF CallExit
  <2> QED BY <1>8, <2>1, <2>2, HostGoes DEF CallExit, managerVars
<1> QED BY <1>2, <1>3, <1>4, <1>5, <1>6, <1>7, <1>8 DEF ApiCall

\* A look at the streams ends: what it says is right of the default stream, which is
\* looked at last.
LEMMA ScanReturnsOrder ==
  ASSUME RuntimeAssumption, Inv, OrderInv, NEW h \in Host, NEW result \in BOOLEAN,
         ScanReturns(h, result), result => ops[Zero] = << >>,
         UNCHANGED <<managerVars, op, target, owner, issued>>
  PROVE  OrderInv'
<1>1. pc \in [Host -> HostPc] /\ iter \in [Host -> Stream \union {End, None}]
  BY DEF Inv, HostTypeOK
<1>2. iter'[h] = None /\ \A g \in Host \ {h} : iter'[g] = iter[g]
  BY <1>1 DEF ScanReturns
<1>3. UNCHANGED <<blocking, streams, ops, performed>>
  BY DEF managerVars
<1>4. CASE pc[h] = "drain" /\ result
  <2>1. pc'[h] \in {"ready", "nextEach"} /\ \A g \in Host \ {h} : pc'[g] = pc[g]
    BY <1>1, <1>4 DEF ScanReturns, Return, GoTo
  <2>2. Quiet(h, Zero)
    BY <1>4, EmptyQuiet DEF AnyStream
  <2> QED BY <1>2, <1>3, <2>1, <2>2, HostGoes
<1>5. CASE pc[h] = "drain" /\ ~result
  <2>1. UNCHANGED pc
    BY <1>5 DEF ScanReturns
  <2>2. PushOf(h)'
    <3>1. PushOf(h)
      BY DEF OrderInv
    <3> QED BY <1>3, <1>5, <2>1, <3>1 DEF PushOf, Performed
  <2>3. ScanOf(h)'
    BY <1>2, <1>5, <2>1 DEF ScanOf, RuntimeAssumption
  <2> QED BY <1>2, <1>3, <2>1, <2>2, <2>3, HostMoves
<1>6. CASE pc[h] = "syncScan"
  <2>1. pc'[h] \in {"ready", "sync"} /\ \A g \in Host \ {h} : pc'[g] = pc[g]
    BY <1>1, <1>6 DEF ScanReturns, GoTo
  <2>2. Quiet(h, Zero)
    BY <1>6 DEF OrderInv, PushOf
  <2> QED BY <1>2, <1>3, <2>1, <2>2, HostGoes
<1> QED BY <1>4, <1>5, <1>6 DEF ScanReturns

-----------------------------------------------------------------------------
(* Steps that issue or perform an operation.                               *)

\* An operation at the end of a stream is the last of its host, which has waited for
\* what has to come before.
LEMMA PushOrder ==
  ASSUME RuntimeAssumption, Inv, OrderInv, NEW h \in Host, Push(h)
  PROVE  OrderInv'
<1> DEFINE s == IF Blocks(target[h]) THEN Zero ELSE target[h]
           N == Len(issued[h]) + 1
<1>0. /\ pc \in [Host -> HostPc] /\ ops \in [AnyStream -> Seq(Operation)]
      /\ target[h] \in AnyStream /\ issued \in [Host -> Seq(AnyStream)]
      /\ op[h] \in Operation
  BY DEF Inv, HostTypeOK, KernelOK, ManagerTypeOK
<1>1. s \in AnyStream
  BY <1>0 DEF AnyStream
<1>2. /\ op[h].host = h /\ op[h].num = N
      /\ Quiet(h, Zero) /\ iter[h] = None
      /\ Blocks(target[h]) => \A n \in DOMAIN issued[h] : Performed(h, n)
  BY DEF Push, OrderInv, PushOf, ScanOf
<1>3. /\ UNCHANGED <<blocking, streams, performed, target, iter, op, owner>>
      /\ ops' = [ops EXCEPT ![s] = Append(@, op[h])]
      /\ issued' = [issued EXCEPT ![h] = Append(@, s)]
      /\ s \in Alive \union {Zero}
  BY DEF Push, Enqueue
<1>4. /\ pc'[h] \in {"drain", "ready", "nextEach"} /\ (pc'[h] = "drain" <=> Blocks(target[h]))
      /\ \A g \in Host \ {h} : pc'[g] = pc[g]
  BY <1>0 DEF Push, Return, GoTo
<1>5. s # Zero \/ Blocks(target[h])
  BY DEF Blocks
<1> HIDE DEF s
<1>6. /\ N \in Nat /\ N \notin DOMAIN issued[h]
      /\ DOMAIN issued'[h] = DOMAIN issued[h] \union {N}
      /\ \A n \in DOMAIN issued[h] : issued'[h][n] = issued[h][n] /\ n < N
      /\ issued'[h][N] = s /\ Len(issued'[h]) = N
      /\ \A g \in Host \ {h} : issued'[g] = issued[g]
  BY <1>0, <1>1, <1>3, OrderTypes
<1>7. /\ DOMAIN ops'[s] = DOMAIN ops[s] \union {Len(ops[s]) + 1}
      /\ \A j \in DOMAIN ops[s] : ops'[s][j] = ops[s][j] /\ j < Len(ops[s]) + 1
      /\ ops'[s][Len(ops[s]) + 1] = op[h]
      /\ \A t \in AnyStream \ {s} : ops'[t] = ops[t]
      /\ \A i, j \in DOMAIN ops[s] : i < j => i \in DOMAIN ops[s]
      /\ \A j \in DOMAIN ops[s] : ~(Len(ops[s]) + 1 < j)
      /\ ~(Len(ops[s]) + 1 < Len(ops[s]) + 1)
  BY <1>0, <1>1, <1>3, OrderTypes
<1> HIDE DEF N
<1>8. ~Performed(h, N)
  <2>1. IssuedBy(h)
    BY DEF OrderInv
  <2>2. <<h, N>> \notin performed
    BY <1>6, <2>1 DEF IssuedBy
  <2> QED BY <2>2 DEF Performed
<1>9. \A g, n : Performed(g, n)' <=> Performed(g, n)
  BY <1>3 DEF Performed
<1>10. ASSUME NEW t \in AnyStream, NEW j \in DOMAIN ops[t]
       PROVE  /\ ops[t][j].host \in Host
              /\ ops[t][j].num \in DOMAIN issued'[ops[t][j].host]
              /\ issued'[ops[t][j].host][ops[t][j].num] = t
              /\ ~Performed(ops[t][j].host, ops[t][j].num)
              /\ ops[t][j].host = h => ops[t][j].num < N
  <2>1. ops[t][j].host \in Host
    BY OrderTypes DEF Operation
  <2>2. QueueOf(t)
    BY DEF OrderInv
  <2>3. /\ ops[t][j].num \in DOMAIN issued[ops[t][j].host]
        /\ issued[ops[t][j].host][ops[t][j].num] = t
        /\ ~Performed(ops[t][j].host, ops[t][j].num)
    BY <2>2 DEF QueueOf
  <2> QED BY <1>6, <2>1, <2>3
<1>11. ASSUME NEW t \in AnyStream
       PROVE  QueueOf(t)'
  <2>1. QueueOf(t)
    BY DEF OrderInv
  <2>2. CASE t # s
    BY <1>7, <1>9, <1>10, <2>1, <2>2 DEF QueueOf
  <2>3. CASE t = s
    <3>1. ASSUME NEW j \in DOMAIN ops'[t]
          PROVE  /\ ops'[t][j].num \in DOMAIN issued'[ops'[t][j].host]
                 /\ issued'[ops'[t][j].host][ops'[t][j].num] = t
                 /\ <<ops'[t][j].host, ops'[t][j].num>> \notin performed'
      <4>1. CASE j \in DOMAIN ops[t]
        BY <1>3, <1>7, <1>10, <2>3, <4>1 DEF Performed
      <4>2. CASE j = Len(ops[t]) + 1
        BY <1>2, <1>3, <1>6, <1>7, <1>8, <2>3, <4>2 DEF Performed
      <4> QED BY <1>7, <2>3, <3>1, <4>1, <4>2
    <3>2. ASSUME NEW i \in DOMAIN ops'[t], NEW j \in DOMAIN ops'[t],
                 i < j, ops'[t][i].host = ops'[t][j].host
          PROVE  ops'[t][i].num < ops'[t][j].num
      <4>1. i \in DOMAIN ops[t]
        BY <1>7, <2>3, <3>2
      <4>2. CASE j \in DOMAIN ops[t]
        BY <1>7, <2>1, <2>3, <3>2, <4>1, <4>2 DEF QueueOf
      <4>3. CASE j = Len(ops[t]) + 1
        BY <1>2, <1>7, <1>10, <2>3, <3>2, <4>1, <4>3
      <4> QED BY <1>7, <2>3, <4>2, <4>3
    <3> QED BY <3>1, <3>2 DEF QueueOf, Performed
  <2> QED BY <2>2, <2>3
<1>12. ASSUME NEW g \in Host
       PROVE  IssuedBy(g)'
  <2>1. IssuedBy(g)
    BY DEF OrderInv
  <2>2. \A p \in performed' : p[1] = g => p[2] \in DOMAIN issued'[g]
    BY <1>3, <1>6, <2>1 DEF IssuedBy
  <2>3. ASSUME NEW n \in DOMAIN issued'[g], ~Performed(g, n)'
        PROVE  \E j \in DOMAIN ops'[issued'[g][n]] :
                 /\ ops'[issued'[g][n]][j].host = g
                 /\ ops'[issued'[g][n]][j].num = n
    <3>1. CASE n \in DOMAIN issued[g]
      <4>1. PICK j \in DOMAIN ops[issued[g][n]] :
              ops[issued[g][n]][j].host = g /\ ops[issued[g][n]][j].num = n
        BY <1>9, <2>1, <2>3, <3>1 DEF IssuedBy
      <4>2. issued'[g][n] = issued[g][n] /\ issued[g][n] \in AnyStream
        BY <1>6, <3>1, OrderTypes
      <4>3. j \in DOMAIN ops'[issued[g][n]] /\ ops'[issued[g][n]][j] = ops[issued[g][n]][j]
        BY <1>7, <4>1, <4>2
      <4> QED BY <4>1, <4>2, <4>3
    <3>2. CASE g = h /\ n = N
      <4>1. issued'[g][n] = s
        BY <1>6, <3>2
      <4>2. /\ Len(ops[s]) + 1 \in DOMAIN ops'[s]
            /\ ops'[s][Len(ops[s]) + 1].host = g /\ ops'[s][Len(ops[s]) + 1].num = n
        BY <1>2, <1>7, <3>2
      <4> QED BY <4>1, <4>2
    <3> QED BY <1>6, <2>3, <3>1, <3>2
  <2> QED BY <2>2, <2>3 DEF IssuedBy
<1>13. ASSUME NEW g \in Host
       PROVE  PushOf(g)' /\ ScanOf(g)'
  <2>1. PushOf(g) /\ ScanOf(g)
    BY DEF OrderInv
  <2>2. CASE g # h
    <3>1. \A t : Quiet(g, t)' <=> Quiet(g, t)
      BY <1>6, <1>9, <2>2 DEF Quiet
    <3>2. PushOf(g)'
      <4>1. issued'[g] = issued[g] /\ pc'[g] = pc[g] /\ UNCHANGED <<op, target, blocking>>
        BY <1>3, <1>4, <1>6, <2>2
      <4> QED BY <1>9, <2>1, <3>1, <4>1 DEF PushOf, Blocks
    <3>3. ScanOf(g)'
      <4>1. pc'[g] = pc[g] /\ UNCHANGED <<iter, owner, streams>>
        BY <1>3, <1>4, <2>2
      <4> QED BY <2>1, <3>1, <4>1 DEF ScanOf
    <3> QED BY <3>2, <3>3
  <2>3. CASE g = h
    <3>1. ASSUME pc'[g] = "drain", NEW n \in DOMAIN issued'[g],
                 n # Len(issued'[g]) \/ issued'[g][n] # Zero
          PROVE  Performed(g, n)'
      <4>1. Blocks(target[h]) /\ s = Zero
        BY <1>4, <2>3, <3>1 DEF s
      <4> QED BY <1>2, <1>6, <1>9, <2>3, <3>1, <4>1
    <3>2. pc'[g] # "drain" => Quiet(g, Zero)'
      <4>1. ASSUME pc'[g] # "drain", NEW n \in DOMAIN issued'[g], issued'[g][n] = Zero
            PROVE  Performed(g, n)'
        <5>1. n # N
          BY <1>4, <1>5, <1>6, <2>3, <4>1
        <5>2. n \in DOMAIN issued[g] /\ issued[g][n] = Zero
          BY <1>6, <2>3, <4>1, <5>1
        <5> QED BY <1>2, <1>9, <2>3, <5>2 DEF Quiet
      <4> QED BY <4>1 DEF Quiet
    <3>3. PushOf(g)'
      BY <1>4, <2>3, <3>1, <3>2 DEF PushOf
    <3>4. ScanOf(g)'
      BY <1>2, <1>3, <1>4, <2>3 DEF ScanOf, RuntimeAssumption
    <3> QED BY <3>3, <3>4
  <2> QED BY <2>2, <2>3
<1>14. StreamList'
  <2>1. Alive' = Alive
    BY <1>3 DEF Alive
  <2>2. ASSUME NEW t \in Stream, ops'[t] # << >>
        PROVE  t \in Alive
    <3>1. t \in AnyStream /\ t # Zero
      BY DEF AnyStream, RuntimeAssumption
    <3>2. CASE t = s
      BY <1>3, <3>1, <3>2
    <3>3. CASE t # s
      BY <1>7, <2>2, <3>1, <3>3 DEF OrderInv, StreamList
    <3> QED BY <3>2, <3>3
  <2> QED BY <1>3, <2>1, <2>2 DEF OrderInv, StreamList
<1> QED BY <1>11, <1>12, <1>13, <1>14 DEF OrderInv

\* The operation at the front of a stream is performed once, after those of its host
\* that it is ordered with.
LEMMA FrontInOrder ==
  ASSUME RuntimeAssumption, Inv, OrderInv, NEW s \in AnyStream, ops[s] # << >>,
         NEW h, NEW n, h = Head(ops[s]).host, n = Head(ops[s]).num
  PROVE  /\ h \in Host /\ n \in DOMAIN issued[h] /\ issued[h][n] = s
         /\ ~Performed(h, n)
         /\ \A m \in 1 .. n - 1 :
              Order!Ordered(issued[h][m], issued[h][n]) => Performed(h, m)
<1>1. /\ 1 \in DOMAIN ops[s] /\ Head(ops[s]) = ops[s][1]
      /\ \A j \in DOMAIN ops[s] : j # 1 => 1 < j
  BY OrderTypes
<1>2. h = ops[s][1].host /\ n = ops[s][1].num /\ ops[s][1] \in Operation
  BY <1>1, OrderTypes
<1>3. QueueOf(s)
  BY DEF OrderInv
<1>4. /\ h \in Host /\ n \in DOMAIN issued[h] /\ issued[h][n] = s /\ ~Performed(h, n)
  BY <1>1, <1>2, <1>3 DEF QueueOf, Operation
<1>5. IssuedBy(h) /\ PushOf(h)
  BY <1>4 DEF OrderInv
<1>6. \A m \in 1 .. n - 1 : m \in DOMAIN issued[h] /\ m # Len(issued[h])
                            /\ m \in Nat /\ ~(n < m)
      /\ n \in 1 .. Len(issued[h])
  BY <1>4, OrderTypes
<1>7. ASSUME NEW m \in 1 .. n - 1, issued[h][m] = s
      PROVE  Performed(h, m)
  <2>1. SUFFICES ASSUME ~Performed(h, m) PROVE FALSE
    OBVIOUS
  <2>2. PICK j \in DOMAIN ops[s] : ops[s][j].host = h /\ ops[s][j].num = m
    BY <1>5, <1>6, <1>7, <2>1 DEF IssuedBy
  <2>3. j # 1
    BY <1>2, <1>6, <2>2
  <2>4. ops[s][1].num < ops[s][j].num
    BY <1>1, <1>2, <1>3, <2>2, <2>3 DEF QueueOf
  <2> QED BY <1>2, <1>6, <2>2, <2>4
<1>8. ASSUME NEW m \in 1 .. n - 1, issued[h][m] = Zero
      PROVE  Performed(h, m)
  <2>1. CASE pc[h] = "drain"
    BY <1>5, <1>6, <2>1 DEF PushOf
  <2>2. CASE pc[h] # "drain"
    BY <1>5, <1>6, <1>8, <2>2 DEF PushOf, Quiet
  <2> QED BY <2>1, <2>2
<1>9. ASSUME NEW m \in 1 .. n - 1, issued[h][n] = Zero
      PROVE  Performed(h, m)
  <2>1. pc[h] = "drain"
    BY <1>4, <1>5, <1>9 DEF PushOf, Quiet
  <2> QED BY <1>5, <1>6, <2>1 DEF PushOf
<1> QED BY <1>4, <1>7, <1>8, <1>9 DEF Order!Ordered

\* The operation at the front of a stream is performed: by operation(), or, if it is a
\* kernel, when the kernel is finished.
LEMMA PerformOrder ==
  ASSUME RuntimeAssumption, Inv, OrderInv, NEW s \in AnyStream, ops[s] # << >>,
         RecordNextDone(s), UNCHANGED <<hostVars, streams, blocking>>
  PROVE  /\ OrderInv'
         /\ \E h \in Host : \E n \in 1 .. Len(issued[h]) : Order!Perform(h, n)
<1> DEFINE h == Head(ops[s]).host
           n == Head(ops[s]).num
<1>1. /\ h \in Host /\ n \in DOMAIN issued[h] /\ issued[h][n] = s /\ ~Performed(h, n)
      /\ \A m \in 1 .. n - 1 :
           Order!Ordered(issued[h][m], issued[h][n]) => Performed(h, m)
  BY FrontInOrder
<1>2. /\ performed' = performed \union {<<h, n>>}
      /\ ops' = [ops EXCEPT ![s] = Tail(@)]
      /\ UNCHANGED <<pc, op, target, iter, owner, issued, streams, blocking>>
  BY DEF RecordNextDone, hostVars
<1>3. h = ops[s][1].host /\ n = ops[s][1].num
  BY OrderTypes
<1> HIDE DEF h, n
<1>4. Order!Perform(h, n)
  BY <1>1, <1>2 DEF Order!Perform, Performed
<1>5. /\ 1 \in DOMAIN ops[s]
      /\ DOMAIN ops'[s] = 1 .. Len(ops[s]) - 1
      /\ \A j \in DOMAIN ops'[s] : /\ j + 1 \in DOMAIN ops[s] /\ 1 < j + 1
                                   /\ ops'[s][j] = ops[s][j + 1]
      /\ \A i, j \in DOMAIN ops'[s] : i < j => i + 1 < j + 1
      /\ \A j \in DOMAIN ops[s] : j # 1 =>
           j - 1 \in DOMAIN ops'[s] /\ ops'[s][j - 1] = ops[s][j]
      /\ \A t \in AnyStream \ {s} : ops'[t] = ops[t]
  <2>1. ops \in [AnyStream -> Seq(Operation)]
    BY DEF Inv, KernelOK, ManagerTypeOK
  <2> QED BY <1>2, <2>1, OrderTypes
<1>6. \A g, m : Performed(g, m)' <=> Performed(g, m) \/ (g = h /\ m = n)
  BY <1>2 DEF Performed
<1>7. ASSUME NEW t \in AnyStream
      PROVE  QueueOf(t)'
  <2>1. QueueOf(t)
    BY DEF OrderInv
  <2>2. CASE t # s
    <3>1. ASSUME NEW j \in DOMAIN ops[t]
          PROVE  <<ops[t][j].host, ops[t][j].num>> \notin performed'
      <4>1. ops[t][j].host # h \/ ops[t][j].num # n
        BY <1>1, <2>1, <2>2 DEF QueueOf
      <4> QED BY <1>2, <2>1, <4>1 DEF QueueOf, Performed
    <3>2. ops'[t] = ops[t] /\ issued' = issued
      BY <1>2, <1>5, <2>2
    <3> QED BY <2>1, <3>1, <3>2 DEF QueueOf, Performed
  <2>3. CASE t = s
    <3>1. ASSUME NEW j \in DOMAIN ops[s], 1 < j
          PROVE  <<ops[s][j].host, ops[s][j].num>> \notin performed'
      <4>1. ops[s][j].host # h \/ ops[s][j].num # n
        <5>1. ops[s][j].host = h => n < ops[s][j].num
          BY <1>3, <1>5, <2>1, <2>3, <3>1 DEF QueueOf
        <5>2. n \in Nat
          BY <1>1, OrderTypes
        <5> QED BY <5>1, <5>2
      <4> QED BY <1>2, <2>1, <2>3, <4>1 DEF QueueOf, Performed
    <3>2. ASSUME NEW j \in DOMAIN ops'[s]
          PROVE  /\ ops'[s][j].num \in DOMAIN issued'[ops'[s][j].host]
                 /\ issued'[ops'[s][j].host][ops'[s][j].num] = s
                 /\ <<ops'[s][j].host, ops'[s][j].num>> \notin performed'
      <4>1. j + 1 \in DOMAIN ops[s] /\ 1 < j + 1 /\ ops'[s][j] = ops[s][j + 1]
        BY <1>5
      <4> QED BY <1>2, <2>1, <2>3, <3>1, <4>1 DEF QueueOf
    <3>3. ASSUME NEW i \in DOMAIN ops'[s], NEW j \in DOMAIN ops'[s],
                 i < j, ops'[s][i].host = ops'[s][j].host
          PROVE  ops'[s][i].num < ops'[s][j].num
      <4>1. /\ i + 1 \in DOMAIN ops[s] /\ ops'[s][i] = ops[s][i + 1]
            /\ j + 1 \in DOMAIN ops[s] /\ ops'[s][j] = ops[s][j + 1]
            /\ i + 1 < j + 1
        BY <1>5, <3>3
      <4> QED BY <2>1, <2>3, <3>3, <4>1 DEF QueueOf
    <3> QED BY <2>3, <3>2, <3>3 DEF QueueOf, Performed
  <2> QED BY <2>2, <2>3
<1>8. ASSUME NEW g \in Host
      PROVE  IssuedBy(g)'
  <2>1. IssuedBy(g)
    BY DEF OrderInv
  <2>2. \A p \in performed' : p[1] = g => p[2] \in DOMAIN issued'[g]
    BY <1>1, <1>2, <2>1 DEF IssuedBy
  <2>3. ASSUME NEW m \in DOMAIN issued[g], ~Performed(g, m)'
        PROVE  \E j \in DOMAIN ops'[issued[g][m]] :
                 /\ ops'[issued[g][m]][j].host = g
                 /\ ops'[issued[g][m]][j].num = m
    <3>1. PICK j \in DOMAIN ops[issued[g][m]] :
            ops[issued[g][m]][j].host = g /\ ops[issued[g][m]][j].num = m
      BY <1>6, <2>1, <2>3 DEF IssuedBy
    <3>2. issued[g][m] \in AnyStream
      BY OrderTypes
    <3>3. CASE issued[g][m] = s
      <4>1. j # 1
        BY <1>3, <1>6, <2>3, <3>1, <3>3
      <4>2. j - 1 \in DOMAIN ops'[s] /\ ops'[s][j - 1] = ops[s][j]
        BY <1>5, <3>1, <3>3, <4>1
      <4>3. ops'[s][j - 1].host = g /\ ops'[s][j - 1].num = m
        BY <3>1, <3>3, <4>2
      <4> QED BY <3>3, <4>2, <4>3
    <3>4. CASE issued[g][m] # s
      BY <1>5, <3>1, <3>2, <3>4
    <3> QED BY <3>3, <3>4
  <2> QED BY <1>2, <2>2, <2>3 DEF IssuedBy
<1>9. ASSUME NEW g \in Host
      PROVE  PushOf(g)' /\ ScanOf(g)'
  <2>1. PushOf(g) /\ ScanOf(g)
    BY DEF OrderInv
  <2>2. \A t : Quiet(g, t) => Quiet(g, t)'
    BY <1>2, <1>6 DEF Quiet
  <2>3. PushOf(g)'
    <3>1. UNCHANGED <<pc, op, target, issued, blocking>>
      BY <1>2
    <3> QED BY <1>6, <2>1, <2>2, <3>1 DEF PushOf, Blocks
  <2>4. ScanOf(g)'
    <3>1. UNCHANGED <<pc, iter, owner, streams>>
      BY <1>2
    <3> QED BY <2>1, <2>2, <3>1 DEF ScanOf
  <2> QED BY <2>3, <2>4
<1>10. StreamList'
  <2>1. Alive' = Alive
    BY <1>2 DEF Alive
  <2>2. \A t \in AnyStream : ops'[t] # << >> => ops[t] # << >>
    <3>1. ops[s] # << >>
      OBVIOUS
    <3> QED BY <1>5, <3>1
  <2> QED BY <1>2, <2>1, <2>2 DEF OrderInv, StreamList, AnyStream
<1>11. \E g \in Host : \E m \in 1 .. Len(issued[g]) : Order!Perform(g, m)
  BY <1>1, <1>4, OrderTypes
<1> QED BY <1>7, <1>8, <1>9, <1>10, <1>11 DEF OrderInv

\* A step in which nothing that OrderInv is about changes.
LEMMA OrderKept ==
  ASSUME OrderInv,
         UNCHANGED <<blocking, streams, ops, performed, pc, op, target, iter, owner, issued>>
  PROVE  OrderInv'
<1>1. Alive' = Alive
  BY DEF Alive
<1>2. StreamList'
  BY <1>1 DEF OrderInv, StreamList
<1>3. ASSUME NEW g \in Host
      PROVE  PushOf(g)' /\ ScanOf(g)'
  <2>1. PushOf(g) /\ ScanOf(g)
    BY DEF OrderInv
  <2>2. \A t : Quiet(g, t)' <=> Quiet(g, t)
    BY DEF Quiet, Performed
  <2> QED BY <2>1, <2>2 DEF PushOf, ScanOf, Blocks, Performed
<1> QED BY <1>2, <1>3, QuietKept DEF OrderInv

\* The simulation thread performs the operation at the front of a stream, or nothing.
LEMMA SimThreadOrder ==
  ASSUME RuntimeAssumption, Inv, OrderInv, SimThread
  PROVE  /\ OrderInv'
         /\ \/ UNCHANGED <<issued, performed>>
            \/ \E h \in Host : \E n \in 1 .. Len(issued[h]) : Order!Perform(h, n)
<1>1. UNCHANGED hostVars /\ UNCHANGED <<pc, op, target, iter, owner, issued>>
  BY DEF SimThread, hostVars
<1>2. CASE SimWait \/ SimActivate \/ SimCheck \/ SimStop
  <2>1. UNCHANGED <<blocking, streams, ops, performed>>
    BY <1>2 DEF SimWait, SimActivate, SimCheck, SimStop, managerVars
  <2> QED BY <1>1, <2>1, OrderKept
<1>3. CASE SimOperate
  <2>1. ManagerOperation /\ UNCHANGED <<blocking, streams>>
    BY <1>3 DEF SimOperate, ManagerOperation
  <2>2. CASE UNCHANGED <<ops, performed>>
    BY <1>1, <2>1, <2>2, OrderKept
  <2>3. ASSUME NEW s, FrontIs(s), RecordNextDone(s)
        PROVE  /\ OrderInv'
               /\ \E h \in Host : \E n \in 1 .. Len(issued[h]) : Order!Perform(h, n)
    <3>1. s \in AnyStream /\ ops[s] # << >>
      BY <2>3, FrontType DEF Ready, Inv
    <3> QED BY <1>1, <2>1, <2>3, <3>1, PerformOrder
  <2> QED BY <2>1, <2>2, <2>3 DEF ManagerOperation, DoOperation
<1>4. CASE SimRun
  <2>1. kernel \in AnyStream /\ ops[kernel] # << >>
    BY <1>4 DEF SimRun, Inv, SimRuns, KernelOK, ManagerTypeOK
  <2>2. RecordNextDone(kernel) /\ UNCHANGED <<streams, blocking>>
    BY <1>4 DEF SimRun, RegisterFinishedKernel
  <2> QED BY <1>1, <2>1, <2>2, PerformOrder
<1> QED BY <1>2, <1>3, <1>4 DEF SimThread

-----------------------------------------------------------------------------
(* All steps.                                                              *)

\* The streams before an iterator that goes on are those before it and its own.
LEMMA ScanGoesOn ==
  ASSUME RuntimeAssumption, Inv, OrderInv, NEW h \in Host,
         iter[h] \in Alive, ops[iter[h]] = << >>, pc[h] = "syncScan"
  PROVE  \A j \in DOMAIN streams :
           (Following(iter[h]) = End
              \/ \E k \in DOMAIN streams : j < k /\ streams[k] = Following(iter[h]))
             => Quiet(h, streams[j])
<1> DEFINE p == Position(iter[h])
<1>1. p \in DOMAIN streams /\ streams[p] = iter[h]
  BY PositionType
<1>2. Following(iter[h]) = IF p = Len(streams) THEN End ELSE streams[p + 1]
  BY DEF Following
<1>3. \A i, j \in DOMAIN streams : streams[i] = streams[j] => i = j
  BY DEF OrderInv, StreamList
<1> HIDE DEF p
<1>4. Quiet(h, streams[p])
  <2>1. iter[h] \in AnyStream
    BY OrderTypes DEF Alive, AnyStream
  <2> QED BY <1>1, <2>1, EmptyQuiet
<1>5. ASSUME NEW j \in DOMAIN streams, j < p
      PROVE  Quiet(h, streams[j])
  BY <1>1, <1>5 DEF OrderInv, ScanOf
<1>6. ASSUME NEW j \in DOMAIN streams, p < j,
             Following(iter[h]) = End
               \/ \E k \in DOMAIN streams : j < k /\ streams[k] = Following(iter[h])
      PROVE  FALSE
  <2>1. p # Len(streams) /\ p + 1 \in DOMAIN streams /\ ~(j < p + 1)
    BY <1>1, <1>6, OrderTypes
  <2>2. Following(iter[h]) = streams[p + 1] /\ streams[p + 1] # End
    BY <1>2, <2>1, OrderTypes DEF RuntimeAssumption
  <2>3. PICK k \in DOMAIN streams : j < k /\ streams[k] = streams[p + 1]
    BY <1>6, <2>2
  <2> QED BY <1>3, <1>6, <2>1, <2>3, OrderTypes
<1>7. \A j \in DOMAIN streams : j < p \/ j = p \/ p < j
  BY <1>1, OrderTypes
<1> QED BY <1>4, <1>5, <1>6, <1>7

\* A stream that is erased is empty and was in the list once.
LEMMA DestroyOrder ==
  ASSUME RuntimeAssumption, Inv, OrderInv, NEW h \in Host, DestroySpin(h)
  PROVE  OrderInv'
<1> DEFINE s == target[h]
           f(j, i) == IF j < i THEN j ELSE j + 1
<1>0. /\ pc \in [Host -> HostPc] /\ s \in AnyStream
  BY DEF Inv, HostTypeOK
<1>1. PICK i \in DOMAIN streams : streams[i] = s /\ streams' = Without(i)
  BY DEF DestroySpin, EraseStream
<1>2. /\ ops[s] = << >> /\ UNCHANGED <<blocking, ops, performed, op, target, iter, owner, issued>>
      /\ pc[h] = "destroySpin" /\ pc'[h] = "ready" /\ \A g \in Host \ {h} : pc'[g] = pc[g]
  BY <1>0 DEF DestroySpin, EraseStream, GoTo
<1>3. /\ DOMAIN streams' = 1 .. Len(streams) - 1
      /\ \A j \in DOMAIN streams' : /\ f(j, i) \in DOMAIN streams
                                    /\ streams'[j] = streams[f(j, i)]
      /\ \A j, k \in DOMAIN streams' : /\ j < k => f(j, i) < f(k, i)
                                       /\ f(j, i) = f(k, i) => j = k
  <2>1. Len(streams) - 1 \in Nat
    BY OrderTypes
  <2>2. /\ DOMAIN streams' = 1 .. Len(streams) - 1
        /\ \A j \in 1 .. Len(streams) - 1 : streams'[j] = streams[f(j, i)]
    BY <1>1, <2>1 DEF Without
  <2> QED BY <1>1, <2>2, OrderTypes
<1> HIDE DEF s, f
<1>4. Alive' \subseteq Alive /\ \A t \in Alive : t # s => t \in Alive'
  <2>1. Alive' \subseteq Alive
    BY <1>3 DEF Alive
  <2>2. \A t \in Alive : t # s => t \in Alive'
    <3>1. streams \in Seq(Stream)
      BY OrderTypes
    <3>2. \A t \in Alive : t # streams[i] => \E j \in DOMAIN streams' : streams'[j] = t
      BY <1>1, <3>1, WithoutType
    <3> QED BY <1>1, <3>2 DEF Alive
  <2> QED BY <2>1, <2>2
<1>5. StreamList'
  <2>1. StreamList
    BY DEF OrderInv
  <2>2. \A j, k \in DOMAIN streams' : streams'[j] = streams'[k] => j = k
    BY <1>3, <2>1 DEF StreamList
  <2>3. \A t \in Stream : ops[t] # << >> => t \in Alive'
    BY <1>2, <1>4, <2>1 DEF StreamList
  <2> QED BY <1>2, <1>4, <2>1, <2>2, <2>3 DEF StreamList
<1>6. ASSUME NEW g \in Host
      PROVE  PushOf(g)' /\ ScanOf(g)'
  <2>1. PushOf(g) /\ ScanOf(g)
    BY DEF OrderInv
  <2>2. \A t : Quiet(g, t)' <=> Quiet(g, t)
    BY <1>2 DEF Quiet, Performed
  <2>3. /\ pc'[g] = "syncScan" => pc[g] = "syncScan"
        /\ pc'[g] \in {"block", "push", "drain"} => pc[g] = pc'[g]
        /\ pc'[g] # "drain" => pc[g] # "drain"
        /\ pc'[g] \notin {"drain", "syncScan"} => pc[g] \notin {"drain", "syncScan"}
    BY <1>2
  <2>4. PushOf(g)'
    BY <1>2, <2>1, <2>2, <2>3 DEF PushOf, Blocks, Performed
  <2>5. ASSUME pc'[g] = "syncScan", NEW j \in DOMAIN streams',
               iter[g] = End \/ \E k \in DOMAIN streams' : j < k /\ streams'[k] = iter[g]
        PROVE  Quiet(g, streams'[j])
    <3>1. iter[g] = End
            \/ \E k \in DOMAIN streams : f(j, i) < k /\ streams[k] = iter[g]
      BY <1>3, <2>5
    <3> QED BY <1>3, <2>1, <2>3, <2>5, <3>1 DEF ScanOf
  <2>6. ScanOf(g)'
    BY <1>2, <2>1, <2>2, <2>3, <2>5 DEF ScanOf
  <2> QED BY <2>4, <2>6
<1> QED BY <1>2, <1>5, <1>6, QuietKept DEF OrderInv

\* Whatever a host does in a call other than to push.
LEMMA InCallOrder ==
  ASSUME RuntimeAssumption, Inv, OrderInv, NEW h \in Host, InCall(h), ~Push(h)
  PROVE  OrderInv' /\ UNCHANGED <<issued, performed>>
<1>0. /\ pc \in [Host -> HostPc] /\ iter \in [Host -> Stream \union {End, None}]
      /\ target \in [Host -> AnyStream] /\ Zero \in AnyStream
  BY DEF Inv, HostTypeOK, AnyStream
<1>00. PushOf(h) /\ ScanOf(h)
  BY DEF OrderInv
<1>1. CASE Block(h)
  <2>1. /\ UNCHANGED <<blocking, streams, ops, performed, issued, owner, op, target, iter>>
        /\ pc[h] = "block" /\ pc'[h] = "push" /\ \A g \in Host \ {h} : pc'[g] = pc[g]
    BY <1>0, <1>1 DEF Block, GoTo, managerVars
  <2>2. \A s \in AnyStream : Quiet(h, s)
    <3>1. ASSUME NEW s \in Stream
          PROVE  ops[s] = << >> \/ s \in Stream \ Alive
      BY <1>1 DEF Block, ConcurrentStreamsEmpty
    <3>2. \A s \in Stream : Quiet(h, s)
      BY <3>1, EmptyQuiet DEF AnyStream
    <3> QED BY <1>00, <2>1, <3>2 DEF PushOf, AnyStream
  <2>3. \A n \in DOMAIN issued[h] : Performed(h, n)
    BY <2>2, AllQuiet
  <2>4. PushOf(h)'
    BY <1>00, <2>1, <2>3 DEF PushOf, Quiet, Performed
  <2>5. ScanOf(h)'
    BY <1>00, <2>1 DEF ScanOf
  <2> QED BY <2>1, <2>4, <2>5, HostMoves
<1>2. CASE ScanBegin(h)
  <2>1. /\ UNCHANGED <<blocking, streams, ops, performed, issued, owner, op, target, pc>>
        /\ iter'[h] = Begin /\ \A g \in Host \ {h} : iter'[g] = iter[g]
        /\ pc[h] \in {"drain", "syncScan"}
    BY <1>0, <1>2 DEF ScanBegin, Scanning, managerVars
  <2>2. PushOf(h)'
    BY <1>00, <2>1 DEF PushOf, Quiet, Performed, Blocks
  <2>3. CASE streams = << >>
    <3>1. DOMAIN streams' = {} /\ Begin = End
      BY <2>1, <2>3 DEF Begin
    <3>2. ScanOf(h)'
      BY <2>1, <3>1 DEF ScanOf, RuntimeAssumption
    <3> QED BY <2>1, <2>2, <3>2, HostMoves
  <2>4. CASE streams # << >>
    <3>1. /\ 1 \in DOMAIN streams /\ Begin = streams[1] /\ Begin \in Stream
          /\ Begin # End /\ \A j \in DOMAIN streams : ~(j < 1)
      BY <2>4, OrderTypes DEF Begin, RuntimeAssumption
    <3>2. owner[Begin] # None
      BY <3>1 DEF OrderInv, StreamList, Alive
    <3>3. \A j, k \in DOMAIN streams : ~(j < k /\ streams[k] = Begin)
      BY <3>1 DEF OrderInv, StreamList
    <3>4. ScanOf(h)'
      BY <2>1, <3>1, <3>2, <3>3 DEF ScanOf
    <3> QED BY <2>1, <2>2, <3>4, HostMoves
  <2> QED BY <2>1, <2>3, <2>4
<1>3. CASE ScanStream(h)
  <2>1. /\ UNCHANGED <<managerVars, op, target, owner, issued>>
        /\ UNCHANGED <<blocking, streams, ops, performed>>
    BY <1>3 DEF ScanStream, managerVars
  <2>2. CASE ops[iter[h]] = << >>
    <3>1. /\ iter[h] \in Alive /\ UNCHANGED pc /\ pc[h] \in {"drain", "syncScan"}
          /\ iter'[h] = Following(iter[h]) /\ \A g \in Host \ {h} : iter'[g] = iter[g]
      BY <1>0, <1>3, <2>2 DEF ScanStream, Scanning
    <3>2. PushOf(h)'
      BY <1>00, <2>1, <3>1 DEF PushOf, Quiet, Performed, Blocks
    <3>3. Following(iter[h]) \in Stream => owner[Following(iter[h])] # None
      <4>1. Following(iter[h]) \in Alive \union {End}
        BY <3>1, FollowingType, OrderTypes
      <4> QED BY <4>1 DEF OrderInv, StreamList, RuntimeAssumption
    <3>4. ScanOf(h)'
      <4>1. ASSUME pc[h] = "syncScan", NEW j \in DOMAIN streams,
                   Following(iter[h]) = End
                     \/ \E k \in DOMAIN streams : j < k /\ streams[k] = Following(iter[h])
            PROVE  Quiet(h, streams[j])'
        <5>1. Quiet(h, streams[j])
          BY <2>2, <3>1, <4>1, ScanGoesOn
        <5> QED BY <2>1, <5>1 DEF Quiet, Performed
      <4> QED BY <2>1, <3>1, <3>3, <4>1 DEF ScanOf
    <3> QED BY <2>1, <3>1, <3>2, <3>4, HostMoves
  <2>3. CASE ops[iter[h]] # << >>
    <3>1. ScanReturns(h, FALSE)
      BY <1>3, <2>3 DEF ScanStream
    <3> QED BY <2>1, <3>1, ScanReturnsOrder
  <2> QED BY <2>2, <2>3
<1>4. CASE ScanZero(h)
  <2>1. /\ UNCHANGED <<managerVars, op, target, owner, issued>>
        /\ UNCHANGED <<blocking, streams, ops, performed>>
    BY <1>4 DEF ScanZero, managerVars
  <2>2. ScanReturns(h, ops[Zero] = << >>) /\ (ops[Zero] = << >>) \in BOOLEAN
    BY <1>4 DEF ScanZero
  <2> QED BY <2>1, <2>2, ScanReturnsOrder
<1>5. CASE SyncLock(h)
  <2>1. /\ UNCHANGED <<blocking, streams, ops, performed, issued, owner, op, target, iter>>
        /\ pc[h] = "sync" /\ pc'[h] = "syncScan" /\ \A g \in Host \ {h} : pc'[g] = pc[g]
    BY <1>0, <1>5 DEF SyncLock, GoTo, managerVars
  <2>2. iter[h] = None /\ \A k \in DOMAIN streams : streams[k] # None
    BY <1>00, <2>1, OrderTypes DEF ScanOf, RuntimeAssumption
  <2>3. PushOf(h)'
    BY <1>00, <2>1 DEF PushOf, Quiet, Performed
  <2>4. ScanOf(h)'
    BY <2>1, <2>2 DEF ScanOf, RuntimeAssumption
  <2> QED BY <2>1, <2>3, <2>4, HostMoves
<1>6. CASE Each(h) /\ each[h] # End
  <2>1. /\ UNCHANGED <<blocking, streams, ops, performed, issued, owner, iter>>
        /\ StartPush(h, "wait", each[h], events) /\ pc[h] = "each"
    BY <1>6 DEF Each, managerVars
  <2> QED BY <2>1, HostStartsPush
<1>7. CASE \/ StreamSync(h) \/ NextEach(h) \/ DestroyLock(h) \/ Exit(h)
           \/ Each(h) /\ each[h] = End
  <2>1. /\ UNCHANGED <<blocking, streams, ops, performed, issued, owner, op, target, iter>>
        /\ pc[h] \notin {"drain", "syncScan"}
    BY <1>7 DEF StreamSync, NextEach, DestroyLock, LockToDestroy, Exit, Each, managerVars
  <2>2. /\ pc'[h] \notin {"block", "push", "drain", "syncScan"}
        /\ \A g \in Host \ {h} : pc'[g] = pc[g]
    BY <1>0, <1>7 DEF StreamSync, NextEach, DestroyLock, Exit, Each, GoTo
  <2>3. Quiet(h, Zero) /\ iter[h] = None
    BY <1>00, <2>1 DEF PushOf, ScanOf
  <2> QED BY <2>1, <2>2, <2>3, HostGoes
<1>8. CASE DestroySpin(h)
  BY <1>8, DestroyOrder DEF DestroySpin, EraseStream
<1> QED BY <1>1, <1>2, <1>3, <1>4, <1>5, <1>6, <1>7, <1>8 DEF InCall

LEMMA OrderStep ==
  ASSUME RuntimeAssumption, Inv, OrderInv, [Next]_vars
  PROVE  /\ OrderInv'
         /\ [Order!Next]_<<issued, performed>>
<1>1. ASSUME NEW h \in Host, ApiCall(h)
      PROVE  OrderInv' /\ UNCHANGED <<issued, performed>>
  BY <1>1, ApiCallOrder
     DEF ApiCall, CallPush, CallWait, CallWaitAll, CallCreate, CallOnStream, CallSync,
         CallExit, AddStream, managerVars
<1>2. ASSUME NEW h \in Host, Push(h)
      PROVE  OrderInv' /\ Order!Next
  <2>1. PICK s \in Stream \union {Zero} :
          issued' = [issued EXCEPT ![h] = Append(@, s)] /\ UNCHANGED performed
    <3>1. target[h] \in Stream \union {Zero}
      BY DEF Inv, HostTypeOK, AnyStream
    <3> QED BY <1>2, <3>1 DEF Push, Enqueue
  <2> QED BY <1>2, <2>1, PushOrder DEF Order!Next, Order!Issue
<1>3. ASSUME NEW h \in Host, InCall(h), ~Push(h)
      PROVE  OrderInv' /\ UNCHANGED <<issued, performed>>
  BY <1>3, InCallOrder
<1>4. ASSUME NEW h \in Host, Crash(h)
      PROVE  OrderInv' /\ UNCHANGED <<issued, performed>>
  BY <1>4, OrderKept DEF Crash, managerVars, hostVars
<1>5. CASE SimThread
  BY <1>5, SimThreadOrder DEF Order!Next
<1>6. CASE UNCHANGED vars
  BY <1>6, OrderKept DEF vars, managerVars, hostVars
<1> QED BY <1>1, <1>2, <1>3, <1>4, <1>5, <1>6 DEF Next, HostStep, SimStep

LEMMA OrderInvariance == Spec => [](Inv /\ OrderInv)
<1>1. Init => Inv /\ OrderInv
  BY RuntimeAssumption, CallAssumption, InvInit, OrderInit
<1>2. Inv /\ OrderInv /\ [Next]_vars => (Inv /\ OrderInv)'
  BY RuntimeAssumption, CallAssumption, InvStep, OrderStep
<1> QED BY <1>1, <1>2, PTL DEF Spec

\* The runtime keeps the program order of each host thread, for any hosts and streams: an
\* operation is performed once, after the earlier ones in its stream, and the default
\* stream, from which front takes first, is ordered with all others.
THEOREM RuntimeKeepsOrder == Spec => ImplementsProgramOrder
<1>1. Init => Order!Init
  BY DEF Init, ManagerInit, Order!Init
<1>2. Inv /\ OrderInv /\ [Next]_vars => [Order!Next]_<<issued, performed>>
  BY RuntimeAssumption, OrderStep
<1> QED BY <1>1, <1>2, OrderInvariance, PTL DEF Spec, ImplementsProgramOrder, Order!Spec

\* What a synchronization has waited for is performed when it ends.
LEMMA ReturnStep ==
  ASSUME RuntimeAssumption, Inv, OrderInv, [Next]_vars, NEW h \in Host,
         pc'[h] \in {"ready", "destroyLock"}, NEW n \in DOMAIN issued[h],
         pc[h] \in {"drain", "syncScan", "streamSync", "destroySync"},
         ~simDone, issued[h][n] = target[h] \/ pc[h] \in {"drain", "syncScan"}
  PROVE  Performed(h, n)
<1>0. /\ pc \in [Host -> HostPc] /\ Zero \in AnyStream /\ target[h] \in AnyStream
      /\ iter[h] \in Stream \union {End, None}
  BY DEF Inv, HostTypeOK, AnyStream
<1>1. PushOf(h) /\ ScanOf(h)
  BY DEF OrderInv
<1>2. \/ \E g \in Host : ApiCall(g) \/ InCall(g)
      \/ UNCHANGED pc
  BY DEF Next, HostStep, SimStep, SimThread, Crash, hostVars, vars
<1>3. pc'[h] # pc[h]
  OBVIOUS
<1>4. ~\E g \in Host : ApiCall(g)
  <2>1. ASSUME NEW g \in Host, ApiCall(g)
        PROVE  FALSE
    <3>1. pc[g] = "ready" /\ g # h
      BY <2>1 DEF ApiCall, CallPush, CallWait, CallWaitAll, CallCreate, CallOnStream,
                  CallSync, CallExit, Call
    <3>2. pc'[h] = pc[h]
      BY <1>0, <2>1, <3>1
         DEF ApiCall, CallPush, CallWait, CallWaitAll, CallCreate, CallOnStream,
             CallSync, CallExit, StartPush, GoTo
    <3> QED BY <1>3, <3>2
  <2> QED BY <2>1
<1>5. InCall(h)
  <2>1. ASSUME NEW g \in Host \ {h}, InCall(g)
        PROVE  pc'[h] = pc[h]
    BY <1>0, <2>1
       DEF InCall, Block, Push, Return, ScanBegin, ScanStream, ScanZero, ScanReturns,
           SyncLock, StreamSync, Each, StartPush, NextEach, DestroyLock, DestroySpin,
           Exit, GoTo
  <2> QED BY <1>2, <1>3, <1>4, <2>1
<1>6. StreamSync(h) \/ ScanStream(h) \/ ScanZero(h)
  BY <1>3, <1>5 DEF InCall, Block, Push, ScanBegin, SyncLock, Each, NextEach,
                    DestroyLock, DestroySpin, Exit
<1>7. CASE StreamSync(h)
  <2>1. ops[target[h]] = << >> /\ issued[h][n] = target[h]
    BY <1>7 DEF StreamSync
  <2> QED BY <1>0, <2>1, EmptyQuiet DEF Quiet
<1>8. CASE ScanStream(h)
  <2>1. ScanReturns(h, FALSE)
    BY <1>3, <1>8 DEF ScanStream
  <2> QED BY <1>0, <1>3, <2>1 DEF ScanReturns, GoTo
<1>9. CASE ScanZero(h)
  <2>1. ScanReturns(h, ops[Zero] = << >>) /\ iter[h] = End
    BY <1>9 DEF ScanZero
  <2>2. ops[Zero] = << >>
    BY <1>0, <1>3, <2>1 DEF ScanReturns, GoTo
  <2>3. Quiet(h, Zero)
    BY <1>0, <2>2, EmptyQuiet
  <2>4. CASE pc[h] = "drain"
    <3>1. \A m \in DOMAIN issued[h] : issued[h][m] # Zero => Performed(h, m)
      BY <1>1, <2>4 DEF PushOf
    <3> QED BY <2>3, <3>1 DEF Quiet
  <2>5. CASE pc[h] = "syncScan"
    <3>1. ASSUME NEW s \in Stream
          PROVE  Quiet(h, s)
      <4>1. CASE s \in Alive
        BY <1>1, <2>1, <2>5, <4>1 DEF ScanOf, Alive
      <4>2. CASE s \notin Alive
        BY <4>2, EmptyQuiet DEF AnyStream
      <4> QED BY <4>1, <4>2
    <3> QED BY <2>3, <3>1, AllQuiet DEF AnyStream
  <2> QED BY <1>9, <2>4, <2>5 DEF ScanZero, Scanning
<1> QED BY <1>6, <1>7, <1>8, <1>9

\* A call that synchronizes returns when what it waits for has been performed, although
\* the streams are read one by one, without a lock, while other threads create, fill
\* and destroy them.
THEOREM CallsReturnWhenPerformed == Spec => ReturnsWhenPerformed
<1>1. Inv /\ OrderInv /\ [Next]_vars =>
        [\A h \in Host :
           pc'[h] \in {"ready", "destroyLock"} =>
             \A n \in DOMAIN issued[h] :
               \/ Performed(h, n) \/ simDone
               \/ pc[h] \notin {"drain", "syncScan", "streamSync", "destroySync"}
               \/ /\ pc[h] \in {"streamSync", "destroySync"}
                  /\ issued[h][n] # target[h]]_vars
  BY RuntimeAssumption, ReturnStep
<1> QED BY <1>1, OrderInvariance, PTL DEF Spec, ReturnsWhenPerformed
=============================================================================
