---------------------------- MODULE CudaGPUProofs ---------------------------
(***************************************************************************)
(* For any number of threads and calls and any launch latency: the device  *)
(* loses no wake-up, and only the two known panics stop it.                *)
(***************************************************************************)
EXTENDS CudaGPU, SequenceTheorems, TLAPS

\* What pushing an operation does to the queue.
LEMMA AppendOperation ==
  ASSUME NEW q \in Seq(Operation), NEW op \in Operation
  PROVE  /\ Append(q, op) \in Seq(Operation)
         /\ Append(q, op) # << >>
         /\ q # << >> => Head(Append(q, op)) = Head(q)
         /\ \A i \in DOMAIN Append(q, op) :
              \/ Append(q, op)[i] = op
              \/ i \in DOMAIN q /\ Append(q, op)[i] = q[i]
<1>1. Append(q, op) \in Seq(Operation) /\ Len(Append(q, op)) = Len(q) + 1
  OBVIOUS
<1>2. \A i \in 1 .. Len(q) : Append(q, op)[i] = q[i]
  OBVIOUS
<1>3. Append(q, op)[Len(q) + 1] = op
  OBVIOUS
<1>4. Len(q) \in Nat /\ DOMAIN q = 1 .. Len(q)
  OBVIOUS
<1>5. DOMAIN Append(q, op) = 1 .. Len(q) + 1
  BY <1>1
<1>6. q # << >> => Head(Append(q, op)) = Head(q)
  BY <1>1, <1>2
<1>7. Append(q, op) # << >>
  BY <1>1, <1>4
<1>8. \A i \in 1 .. Len(q) + 1 : i = Len(q) + 1 \/ i \in 1 .. Len(q)
  BY <1>4
<1> QED BY <1>1, <1>2, <1>3, <1>4, <1>5, <1>6, <1>7, <1>8

\* What the end of an operation leaves in the queue.
LEMMA TailOperations ==
  ASSUME NEW q \in Seq(Operation), q # << >>
  PROVE  /\ Tail(q) \in Seq(Operation)
         /\ \A i \in DOMAIN Tail(q) : i + 1 \in DOMAIN q /\ Tail(q)[i] = q[i + 1]
<1>1. Tail(q) \in Seq(Operation) /\ Len(Tail(q)) = Len(q) - 1
  OBVIOUS
<1>2. \A i \in 1 .. Len(q) - 1 : Tail(q)[i] = q[i + 1]
  OBVIOUS
<1> QED BY <1>1, <1>2

\* The head is one of the operations.
LEMMA HeadOperation ==
  ASSUME NEW q \in Seq(Operation), q # << >>
  PROVE  Head(q) \in Operation /\ 1 \in DOMAIN q /\ Head(q) = q[1]
OBVIOUS

\* A kernel that may not start yet stays the operation it is.
LEMMA WaitingKernel ==
  ASSUME NEW q \in Seq(Operation), q # << >>,
         Head(q).type = "kernel", Head(q).n # 0
  PROVE  LET r == [q EXCEPT ![1].n = @ - 1]
         IN /\ r \in Seq(Operation) /\ r # << >> /\ DOMAIN r = DOMAIN q
            /\ \A i \in DOMAIN q : r[i].type = q[i].type /\ r[i].tc = q[i].tc
            /\ Head(r).type = Head(q).type /\ Head(r).tc = Head(q).tc
<1> DEFINE r == [q EXCEPT ![1].n = @ - 1]
           op == [q[1] EXCEPT !.n = @ - 1]
<1>1. q[1] \in Operation /\ 1 \in DOMAIN q /\ Head(q) = q[1]
  BY HeadOperation
<1>2. q[1] \in [type : {"kernel"}, tc : Thread, n : 0 .. LaunchLatency]
  BY <1>1 DEF Operation
<1>3. q[1].n \in 0 .. LaunchLatency /\ q[1].n - 1 \in 0 .. LaunchLatency
  BY <1>1, <1>2, GPUAssumption
<1>4. op \in Operation /\ op.type = q[1].type /\ op.tc = q[1].tc
  BY <1>2, <1>3 DEF Operation
<1>5. r = [q EXCEPT ![1] = op]
  OBVIOUS
<1> HIDE DEF op, r
<1>6. r \in Seq(Operation) /\ Len(r) = Len(q)
  BY <1>1, <1>4, <1>5
<1>7. \A i \in DOMAIN q : r[i] = IF i = 1 THEN op ELSE q[i]
  BY <1>5
<1>8. DOMAIN r = DOMAIN q /\ r # << >>
  BY <1>1, <1>6
<1>9. Head(r) = r[1]
  BY <1>6, <1>8
<1> QED BY <1>1, <1>4, <1>6, <1>7, <1>8, <1>9 DEF r

-----------------------------------------------------------------------------

Inv == TypeOK /\ NoLostWakeup /\ PanicsExplained

\* At the start there is nothing to drive and nobody to wake.
LEMMA InvInit == Init => Inv
<1> SUFFICES ASSUME Init PROVE Inv
  OBVIOUS
<1>1. TypeOK
  <2>1. queue \in Seq(Operation)
    BY DEF Init
  <2>2. calls \in 0 .. MaxCalls
    BY GPUAssumption DEF Init
  <2> QED BY <2>1, <2>2 DEF Init, TypeOK, ThreadPc
<1>2. DeviceDriven
  BY DEF Init, DeviceDriven
<1>3. WaitersKnown
  BY DEF Init, WaitersKnown, InCall
<1>4. PanicsExplained
  BY DEF Init, PanicsExplained
<1> QED BY <1>1, <1>2, <1>3, <1>4 DEF Inv, NoLostWakeup

-----------------------------------------------------------------------------
(* CUDA calls.                                                             *)

\* A call that overlaps with no other thread's finds only its own thread's work.
LEMMA OwnWork ==
  ASSUME Inv, NEW t \in Thread, CheckUpdateThreadContext(t), ~overlapped'
  PROVE  /\ ~overlapped
         /\ \A u \in Thread \ {t} : ~InCall(u)
         /\ \A i \in DOMAIN queue : queue[i].tc = t
<1>1. ~overlapped /\ \A u \in Thread \ {t} : ~InCall(u) /\ ~Queued(u)
  BY DEF CheckUpdateThreadContext
<1>2. \A i \in DOMAIN queue : queue[i].tc \in Thread
  BY DEF Inv, TypeOK, Operation
<1> QED BY <1>1, <1>2 DEF Queued

\* A call that pushes an operation of its thread, and may begin to block it.
Pushing(t, op) ==
  /\ Call(t)
  /\ queue' = Append(queue, op)
  /\ tickScheduled' = (tickScheduled \/ ~pending)
  /\ UNCHANGED <<pending, device, halted, blockedThreads>>
  /\ op.type = "kernel" \/ unblockNeeded' = TRUE
  /\ unblockNeeded' = TRUE \/ UNCHANGED unblockNeeded
  /\ \/ UNCHANGED <<pc, isFree>>
     \/ StartBlocking(t) /\ unblockNeeded' = TRUE

LEMMA PushInv ==
  ASSUME Inv, NEW t \in Thread, NEW op \in Operation, op.tc = t, Pushing(t, op)
  PROVE  Inv'
<1> USE DEF Inv, NoLostWakeup
<1>1. /\ queue' \in Seq(Operation) /\ queue' # << >>
      /\ queue # << >> => Head(queue') = Head(queue)
      /\ \A i \in DOMAIN queue' :
           \/ queue'[i] = op
           \/ i \in DOMAIN queue /\ queue'[i] = queue[i]
  BY AppendOperation DEF TypeOK, Pushing
<1>2. /\ Running /\ pc[t] = "ready"
      /\ runningTC' = IF runningTC = None THEN None ELSE t
      /\ CheckUpdateThreadContext(t)
  BY DEF Pushing, Call, CheckUpdateThreadContext
<1>3. /\ pending' = pending /\ device' = device /\ halted' = halted
      /\ blockedThreads' = blockedThreads
      /\ tickScheduled' = (tickScheduled \/ ~pending)
  BY DEF Pushing
<1>4. /\ pc' \in [Thread -> ThreadPc] /\ isFree' \in [Thread -> BOOLEAN]
      /\ \A u \in Thread : pc'[u] = pc[u] \/ (u = t /\ pc'[u] = "block" /\ ~isFree'[u])
      /\ \A u \in Thread : pc[u] = "blocked" => isFree'[u] = isFree[u]
      /\ pc'[t] \in {"block", "blocked"} => ~isFree'[t] /\ unblockNeeded'
      /\ \A u \in Thread \ {t} : pc'[u] = pc[u]
  BY <1>2 DEF Pushing, StartBlocking, TypeOK, ThreadPc
<1>5. /\ unblockNeeded' \in BOOLEAN
      /\ op.type # "kernel" => unblockNeeded'
      /\ unblockNeeded => unblockNeeded'
  <2>1. unblockNeeded' = TRUE \/ unblockNeeded' = unblockNeeded
    BY DEF Pushing
  <2>2. op.type # "kernel" => unblockNeeded' = TRUE
    BY DEF Pushing
  <2>3. unblockNeeded' \in BOOLEAN
    BY <2>1 DEF TypeOK
  <2> QED BY <2>1, <2>2, <2>3
<1>6. TypeOK'
  <2>1. calls' \in 0 .. MaxCalls
    BY GPUAssumption DEF TypeOK, Pushing, Call
  <2>2. overlapped' \in BOOLEAN
    BY <1>2 DEF TypeOK, CheckUpdateThreadContext
  <2>3. tickScheduled' \in BOOLEAN /\ runningTC' \in Thread \union {None}
    BY <1>2, <1>3 DEF TypeOK
  <2> QED BY <1>1, <1>3, <1>4, <1>5, <2>1, <2>2, <2>3 DEF TypeOK
<1>7. DeviceDriven'
  <2>1. \A i \in DOMAIN queue' : queue'[i].type # "kernel" => unblockNeeded'
    BY <1>1, <1>5 DEF DeviceDriven
  <2>2. pending <=> runningTC' # None
    BY <1>2, GPUAssumption DEF DeviceDriven
  <2> QED BY <1>1, <1>3, <2>1, <2>2 DEF DeviceDriven, TypeOK
<1>8. WaitersKnown'
  <2>1. ASSUME NEW u \in Thread
        PROVE  /\ pc'[u] = "blocked" <=> u \in blockedThreads'
               /\ pc'[u] = "blocked" => ~isFree'[u]
    BY <1>2, <1>3, <1>4 DEF WaitersKnown
  <2>2. ASSUME ~overlapped'
        PROVE  /\ \A u \in Thread :
                    pc'[u] \in {"block", "blocked"} =>
                      /\ ~isFree'[u] /\ unblockNeeded'
                      /\ \A i \in DOMAIN queue' : queue'[i].tc = u
               /\ pending' => runningTC' = Head(queue').tc
    <3>1. /\ \A u \in Thread \ {t} : pc[u] \notin {"block", "blocked"}
          /\ \A i \in DOMAIN queue : queue[i].tc = t
      BY <1>2, <2>2, OwnWork DEF InCall
    <3>2. \A i \in DOMAIN queue' : queue'[i].tc = t
      BY <1>1, <3>1
    <3>3. \A u \in Thread : pc'[u] \in {"block", "blocked"} => u = t
      BY <1>4, <3>1
    <3>4. Head(queue').tc = t
      BY <1>1, <3>2, HeadOperation
    <3>5. pending' => runningTC' = t
      BY <1>2, <1>3 DEF DeviceDriven
    <3> QED BY <1>4, <3>2, <3>3, <3>4, <3>5
  <2> QED BY <1>1, <2>1, <2>2 DEF WaitersKnown, InCall
<1>9. PanicsExplained'
  BY <1>2, <1>3 DEF PanicsExplained, Running
<1> QED BY <1>6, <1>7, <1>8, <1>9

LEMMA CopyInv ==
  ASSUME Inv, NEW t \in Thread, NEW n \in Bytes, Copy(t, n)
  PROVE  Inv'
<1> DEFINE op == [type |-> "copy", tc |-> t, n |-> n]
<1>1. op \in Operation /\ op.tc = t
  BY DEF Operation
<1>2. Pushing(t, op)
  BY DEF Copy, Push, Pushing
<1> QED BY <1>1, <1>2, PushInv

LEMMA MemsetInv ==
  ASSUME Inv, NEW t \in Thread, NEW n \in Bytes, Memset(t, n)
  PROVE  Inv'
<1> DEFINE op == [type |-> "memset", tc |-> t, n |-> n]
<1>1. op \in Operation /\ op.tc = t
  BY DEF Operation
<1>2. Pushing(t, op)
  BY DEF Memset, Push, Pushing
<1> QED BY <1>1, <1>2, PushInv

LEMMA LaunchInv ==
  ASSUME Inv, NEW t \in Thread, Launch(t)
  PROVE  Inv'
<1> DEFINE op == [type |-> "kernel", tc |-> t, n |-> LaunchLatency]
<1>1. op \in Operation /\ op.tc = t
  BY GPUAssumption DEF Operation
<1>2. Pushing(t, op)
  BY DEF Launch, Push, Pushing, threads
<1> QED BY <1>1, <1>2, PushInv

\* A call that pushes nothing leaves the device as it is, but for runningTC.
CallOnly(t) ==
  /\ CheckUpdateThreadContext(t)
  /\ calls' \in 0 .. MaxCalls
  /\ UNCHANGED <<queue, pending, tickScheduled, device, halted>>

LEMMA CallOnlyDevice ==
  ASSUME Inv, Running, NEW t \in Thread, CallOnly(t)
  PROVE  /\ runningTC' \in Thread \union {None} /\ overlapped' \in BOOLEAN
         /\ runningTC' # None <=> runningTC # None
         /\ ~overlapped' /\ pending /\ queue # << >> => runningTC' = Head(queue).tc
         /\ PanicsExplained'
<1>1. /\ runningTC' = IF runningTC = None THEN None ELSE t
      /\ CheckUpdateThreadContext(t) /\ halted' = "no"
  BY DEF CallOnly, CheckUpdateThreadContext, Running
<1>2. overlapped' \in BOOLEAN
  BY DEF CallOnly, CheckUpdateThreadContext, Inv, TypeOK
<1>3. runningTC' \in Thread \union {None} /\ (runningTC' # None <=> runningTC # None)
  BY <1>1, GPUAssumption DEF Inv, TypeOK
<1>4. ASSUME ~overlapped', pending, queue # << >>
      PROVE  runningTC' = Head(queue).tc
  <2>1. Head(queue).tc = t
    BY <1>1, <1>4, OwnWork, HeadOperation DEF Inv, TypeOK
  <2>2. runningTC # None
    BY <1>4 DEF Inv, NoLostWakeup, DeviceDriven
  <2> QED BY <1>1, <2>1, <2>2
<1>5. PanicsExplained'
  BY <1>1 DEF PanicsExplained
<1> QED BY <1>2, <1>3, <1>4, <1>5

LEMMA SynchronizeInv ==
  ASSUME Inv, NEW t \in Thread, Synchronize(t)
  PROVE  Inv'
<1> USE DEF Inv, NoLostWakeup
<1>1. /\ Running /\ pc[t] = "ready" /\ CallOnly(t)
      /\ blockedThreads' = blockedThreads
  BY GPUAssumption DEF Synchronize, Call, CallOnly, TypeOK
<1>2. /\ queue' = queue /\ pending' = pending /\ device' = device
      /\ tickScheduled' = tickScheduled /\ halted' = halted
  BY DEF Synchronize
<1>3. /\ pc' \in [Thread -> ThreadPc] /\ isFree' \in [Thread -> BOOLEAN]
      /\ \A u \in Thread \ {t} : pc'[u] = pc[u] /\ isFree'[u] = isFree[u]
      /\ pc'[t] \in {"ready", "block"}
      /\ pc'[t] = "block" /\ queue # << >> => ~isFree'[t] /\ unblockNeeded'
  BY <1>1 DEF Synchronize, StartBlocking, TypeOK, ThreadPc
<1>4. unblockNeeded' = TRUE \/ unblockNeeded' = unblockNeeded
  BY DEF Synchronize
<1>5. TypeOK'
  <2>1. unblockNeeded' \in BOOLEAN
    BY <1>4 DEF TypeOK
  <2> QED BY <1>1, <1>2, <1>3, <2>1, CallOnlyDevice DEF TypeOK, CallOnly
<1>6. DeviceDriven'
  <2>1. \A i \in DOMAIN queue : queue[i].type # "kernel" => unblockNeeded'
    BY <1>4 DEF DeviceDriven
  <2> QED BY <1>1, <1>2, <2>1, CallOnlyDevice DEF DeviceDriven
<1>7. WaitersKnown'
  <2>1. \A u \in Thread : /\ pc'[u] = "blocked" <=> u \in blockedThreads'
                          /\ pc'[u] = "blocked" => ~isFree'[u]
    BY <1>1, <1>3 DEF WaitersKnown
  <2>2. ASSUME ~overlapped'
        PROVE  /\ \A u \in Thread :
                    /\ pc'[u] = "blocked" => queue # << >>
                    /\ pc'[u] \in {"block", "blocked"} /\ queue # << >> =>
                         /\ ~isFree'[u] /\ unblockNeeded'
                         /\ \A i \in DOMAIN queue : queue[i].tc = u
               /\ pending => runningTC' = Head(queue).tc
    <3>1. /\ \A u \in Thread \ {t} : pc[u] \notin {"block", "blocked"}
          /\ \A i \in DOMAIN queue : queue[i].tc = t
      BY <1>1, <2>2, OwnWork DEF InCall, CallOnly
    <3>2. \A u \in Thread : pc'[u] \in {"block", "blocked"} => u = t
      BY <1>3, <3>1
    <3>3. pending => runningTC' = Head(queue).tc
      BY <1>1, <2>2, CallOnlyDevice DEF DeviceDriven
    <3> QED BY <1>3, <3>1, <3>2, <3>3
  <2> QED BY <1>2, <2>1, <2>2 DEF WaitersKnown, InCall
<1>8. PanicsExplained'
  BY <1>1, CallOnlyDevice
<1> QED BY <1>5, <1>6, <1>7, <1>8

LEMMA OtherCallInv ==
  ASSUME Inv, NEW t \in Thread, OtherCall(t)
  PROVE  Inv'
<1> USE DEF Inv, NoLostWakeup
<1>1. Running /\ CallOnly(t)
  BY GPUAssumption DEF OtherCall, Call, CallOnly, TypeOK
<1>2. /\ queue' = queue /\ pending' = pending /\ device' = device
      /\ tickScheduled' = tickScheduled /\ halted' = halted
      /\ unblockNeeded' = unblockNeeded /\ blockedThreads' = blockedThreads
      /\ pc' = pc /\ isFree' = isFree
  BY DEF OtherCall, threads
<1>3. TypeOK'
  BY <1>1, <1>2, CallOnlyDevice DEF TypeOK, CallOnly
<1>4. DeviceDriven'
  BY <1>1, <1>2, CallOnlyDevice DEF DeviceDriven
<1>5. WaitersKnown'
  <2>1. ~overlapped' => ~overlapped
    BY <1>1, OwnWork DEF CallOnly
  <2>2. ~overlapped' /\ pending => runningTC' = Head(queue).tc
    BY <1>1, CallOnlyDevice DEF DeviceDriven
  <2> QED BY <1>2, <2>1, <2>2 DEF WaitersKnown, InCall
<1>6. PanicsExplained'
  BY <1>1, CallOnlyDevice
<1> QED BY <1>3, <1>4, <1>5, <1>6

LEMMA BlockThreadInv ==
  ASSUME Inv, NEW t \in Thread, BlockThread(t)
  PROVE  Inv'
<1> USE DEF Inv, NoLostWakeup
<1>1. Running /\ pc[t] = "block" /\ ~isFree[t] /\ CallOnly(t)
  BY DEF BlockThread, CallOnly, TypeOK
<1>2. /\ queue' = queue /\ pending' = pending /\ device' = device
      /\ tickScheduled' = tickScheduled /\ halted' = halted
  BY DEF BlockThread
<1>3. ~overlapped' => /\ ~overlapped
                      /\ \A u \in Thread \ {t} : pc[u] \notin {"block", "blocked"}
                      /\ \A i \in DOMAIN queue : queue[i].tc = t
  BY <1>1, OwnWork DEF CallOnly, InCall
<1>4. ~overlapped' /\ pending => runningTC' = Head(queue).tc
  BY <1>1, CallOnlyDevice DEF DeviceDriven
<1>5. CASE queue = << >>
  <2>1. /\ isFree' = [isFree EXCEPT ![t] = TRUE]
        /\ blockedThreads' = blockedThreads \ {t}
        /\ unblockNeeded' = FALSE /\ pc' = pc
    BY <1>5 DEF BlockThread
  <2>2. TypeOK'
    BY <1>1, <1>2, <2>1, CallOnlyDevice DEF TypeOK, CallOnly
  <2>3. DeviceDriven'
    BY <1>1, <1>2, <1>5, CallOnlyDevice DEF DeviceDriven
  <2>4. WaitersKnown'
    BY <1>1, <1>2, <1>3, <1>4, <1>5, <2>1 DEF WaitersKnown, InCall, TypeOK
  <2> QED BY <1>1, <2>2, <2>3, <2>4, CallOnlyDevice
<1>6. CASE queue # << >>
  <2>1. /\ blockedThreads' = blockedThreads \union {t}
        /\ pc' = [pc EXCEPT ![t] = "blocked"]
        /\ isFree' = isFree /\ unblockNeeded' = unblockNeeded
    BY <1>6 DEF BlockThread
  <2>2. TypeOK'
    BY <1>1, <1>2, <2>1, CallOnlyDevice DEF TypeOK, CallOnly, ThreadPc
  <2>3. DeviceDriven'
    BY <1>1, <1>2, <2>1, CallOnlyDevice DEF DeviceDriven
  <2>4. WaitersKnown'
    BY <1>1, <1>2, <1>3, <1>4, <1>6, <2>1 DEF WaitersKnown, InCall, TypeOK
  <2> QED BY <1>1, <2>2, <2>3, <2>4, CallOnlyDevice
<1> QED BY <1>5, <1>6

\* A thread that returns or sleeps changes nothing the device looks at.
LEMMA ThreadInv ==
  ASSUME Inv, NEW t \in Thread, Return(t) \/ Sleep(t)
  PROVE  Inv'
<1> USE DEF Inv, NoLostWakeup
<1>1. /\ Running /\ pc[t] \notin {"blocked"}
      /\ pc' \in [Thread -> ThreadPc]
      /\ pc'[t] \in {"ready", "asleep"}
      /\ \A u \in Thread \ {t} : pc'[u] = pc[u]
      /\ UNCHANGED <<stream, unblockNeeded, blockedThreads, isFree, calls,
                     overlapped, halted>>
  BY DEF Return, Sleep, TypeOK, ThreadPc
<1>2. TypeOK'
  BY <1>1 DEF TypeOK, stream
<1>3. DeviceDriven'
  BY <1>1 DEF DeviceDriven, stream
<1>4. WaitersKnown'
  BY <1>1 DEF WaitersKnown, InCall, stream
<1>5. PanicsExplained'
  BY <1>1 DEF PanicsExplained, Running
<1> QED BY <1>2, <1>3, <1>4, <1>5

-----------------------------------------------------------------------------
(* Events of the device.                                                   *)

\* Two panics stop gem5, in the states that explain them.
LEMMA StopInv ==
  ASSUME Inv, NEW panic \in Panic, Stop(panic),
         \/ panic = "no bytes" /\ queue # << >> /\ Head(queue).n = 0
         \/ /\ panic = "unknown thread"
            /\ runningTC # None /\ pc[runningTC] = "asleep"
  PROVE  Inv'
<1>1. /\ halted' = panic /\ halted' \in {"no bytes", "unknown thread"}
      /\ UNCHANGED <<stream, threads, calls, overlapped>>
  BY DEF Stop
<1>2. TypeOK'
  BY <1>1 DEF Inv, TypeOK, stream, threads
<1>3. DeviceDriven'
  BY <1>1 DEF Inv, NoLostWakeup, DeviceDriven, stream, threads
<1>4. WaitersKnown'
  BY <1>1 DEF Inv, NoLostWakeup, WaitersKnown, InCall, stream, threads
<1>5. PanicsExplained'
  <2>1. queue' = queue /\ runningTC' = runningTC /\ pc' = pc
    BY <1>1 DEF stream, threads
  <2> QED BY <1>1, <2>1 DEF PanicsExplained, Stop
<1> QED BY <1>2, <1>3, <1>4, <1>5 DEF Inv, NoLostWakeup

LEMMA TickIdleInv ==
  ASSUME Inv, Running, TickIdle
  PROVE  Inv'
<1> USE DEF Inv, NoLostWakeup
<1>1. /\ queue = << >> \/ pending
      /\ tickScheduled' = FALSE
      /\ queue' = queue /\ pending' = pending /\ runningTC' = runningTC
      /\ device' = device /\ calls' = calls /\ overlapped' = overlapped
      /\ halted' = halted /\ UNCHANGED threads
  BY DEF TickIdle
<1>2. TypeOK'
  BY <1>1 DEF TypeOK, threads
<1>3. DeviceDriven'
  BY <1>1 DEF DeviceDriven, threads
<1>4. WaitersKnown'
  BY <1>1 DEF WaitersKnown, InCall, threads
<1>5. PanicsExplained'
  BY <1>1 DEF PanicsExplained, Running
<1> QED BY <1>2, <1>3, <1>4, <1>5

LEMMA TickCancelsInv ==
  ASSUME Inv, Running, TickCancels
  PROVE  Inv'
<1> USE DEF Inv, NoLostWakeup
<1>1. /\ queue # << >> /\ ~pending /\ tickScheduled' = TRUE
      /\ pending' = pending /\ runningTC' = runningTC
      /\ device' = device /\ calls' = calls /\ overlapped' = overlapped
      /\ halted' = halted /\ UNCHANGED threads
  BY DEF TickCancels
<1>2. /\ queue' \in Seq(Operation) /\ queue' # << >> /\ DOMAIN queue' = DOMAIN queue
      /\ \A i \in DOMAIN queue : /\ queue'[i].type = queue[i].type
                                 /\ queue'[i].tc = queue[i].tc
  BY WaitingKernel DEF TickCancels, KernelReady, TypeOK
<1>3. TypeOK'
  BY <1>1, <1>2 DEF TypeOK, threads
<1>4. DeviceDriven'
  <2>1. \A i \in DOMAIN queue' : queue'[i].type # "kernel" => unblockNeeded'
    BY <1>1, <1>2 DEF DeviceDriven, threads
  <2> QED BY <1>1, <1>2, <2>1 DEF DeviceDriven
<1>5. WaitersKnown'
  BY <1>1, <1>2 DEF WaitersKnown, InCall, threads
<1>6. PanicsExplained'
  BY <1>1 DEF PanicsExplained, Running
<1> QED BY <1>3, <1>4, <1>5, <1>6

LEMMA TickBeginsInv ==
  ASSUME Inv, Running, TickBegins
  PROVE  Inv'
<1> USE DEF Inv, NoLostWakeup
<1> DEFINE op == Head(queue)
<1>1. queue # << >> /\ ~pending /\ runningTC = None /\ device = "idle"
  BY DEF TickBegins, DeviceDriven
<1>2. op \in Operation /\ op = queue[1] /\ 1 \in DOMAIN queue
  BY <1>1, HeadOperation DEF TypeOK
<1>3. CASE op.type # "kernel" /\ op.n = 0
  <2>1. Stop("no bytes")
    BY <1>1, <1>3 DEF TickBegins
  <2> QED BY <1>1, <1>3, <2>1, StopInv DEF Panic
<1>4. CASE ~(op.type # "kernel" /\ op.n = 0)
  <2>1. /\ pending' = TRUE /\ tickScheduled' = FALSE
        /\ runningTC' = op.tc
        /\ device' = IF op.type = "kernel" THEN "kernel" ELSE "copy"
        /\ queue' = queue /\ calls' = calls /\ overlapped' = overlapped
        /\ halted' = halted /\ UNCHANGED threads
    BY <1>1, <1>4 DEF TickBegins
  <2>2. op.tc \in Thread /\ op.tc # None
    BY <1>2, GPUAssumption DEF Operation
  <2>3. TypeOK'
    BY <2>1, <2>2 DEF TypeOK, threads
  <2>4. DeviceDriven'
    <3>1. \A i \in DOMAIN queue' : queue'[i].type # "kernel" => unblockNeeded'
      BY <2>1 DEF DeviceDriven, threads
    <3> QED BY <1>1, <2>1, <2>2, <3>1 DEF DeviceDriven
  <2>5. WaitersKnown'
    BY <2>1 DEF WaitersKnown, InCall, threads
  <2>6. PanicsExplained'
    BY <2>1 DEF PanicsExplained, Running
  <2> QED BY <2>3, <2>4, <2>5, <2>6
<1> QED BY <1>3, <1>4

LEMMA FinishKernelInv ==
  ASSUME Inv, FinishKernel
  PROVE  Inv'
<1> USE DEF Inv, NoLostWakeup
<1>1. /\ Running /\ device = "kernel" /\ device' = "returning"
      /\ queue' = queue /\ pending' = pending /\ runningTC' = runningTC
      /\ tickScheduled' = tickScheduled /\ calls' = calls
      /\ overlapped' = overlapped /\ halted' = halted /\ UNCHANGED threads
  BY DEF FinishKernel
<1>2. TypeOK'
  BY <1>1 DEF TypeOK, threads
<1>3. DeviceDriven'
  BY <1>1 DEF DeviceDriven, threads
<1>4. WaitersKnown'
  BY <1>1 DEF WaitersKnown, InCall, threads
<1>5. PanicsExplained'
  BY <1>1 DEF PanicsExplained, Running
<1> QED BY <1>2, <1>3, <1>4, <1>5

\* The end of an operation wakes whoever waits for it, if there is no more work.
LEMMA EndOperationInv ==
  ASSUME Inv, Running, pending, NEW unblocks \in BOOLEAN, EndOperation(unblocks),
         unblocks => unblockNeeded,
         ~unblocks => WorkLeft \/ ~unblockNeeded
  PROVE  Inv'
<1> USE DEF Inv, NoLostWakeup
<1>1. queue # << >> /\ runningTC # None /\ runningTC \in Thread
  BY DEF DeviceDriven, TypeOK
<1>2. CASE unblocks /\ \E panic \in Panic : UnblockPanics(panic)
  <2>1. PICK panic \in Panic : UnblockPanics(panic) /\ Stop(panic)
    BY <1>2 DEF EndOperation
  <2>2. /\ panic = "unknown thread" /\ Suspended(runningTC)
        /\ runningTC \notin blockedThreads
    BY <1>1, <1>2, <2>1 DEF UnblockPanics, WaitersKnown
  <2>3. pc[runningTC] = "asleep"
    BY <1>1, <2>2 DEF Suspended, WaitersKnown
  <2> QED BY <1>1, <2>1, <2>2, <2>3, StopInv
<1>3. CASE ~(unblocks /\ \E panic \in Panic : UnblockPanics(panic))
  <2>1. /\ queue' = Tail(queue) /\ pending' = FALSE /\ tickScheduled' = TRUE
        /\ runningTC' = None /\ device' = "idle"
        /\ IF unblocks THEN Unblock ELSE UNCHANGED threads
        /\ UNCHANGED <<calls, overlapped, halted>>
    BY <1>3 DEF EndOperation
  <2>2. /\ queue' \in Seq(Operation)
        /\ \A i \in DOMAIN queue' : i + 1 \in DOMAIN queue /\ queue'[i] = queue[i + 1]
        /\ WorkLeft <=> queue' # << >>
    BY <1>1, <2>1, TailOperations DEF TypeOK, WorkLeft
  <2>3. PanicsExplained'
    BY <2>1 DEF PanicsExplained, Running
  <2>4. CASE unblocks /\ Suspended(runningTC) /\ ~WorkLeft
    <3>1. /\ isFree' = [isFree EXCEPT ![runningTC] = TRUE]
          /\ blockedThreads' = blockedThreads \ {runningTC}
          /\ unblockNeeded' = FALSE
          /\ pc' = [pc EXCEPT ![runningTC] = "block"]
      BY <2>1, <2>4 DEF Unblock
    <3>2. TypeOK'
      BY <1>1, <2>1, <2>2, <3>1 DEF TypeOK, ThreadPc
    <3>3. DeviceDriven'
      BY <2>1, <2>2, <2>4 DEF DeviceDriven
    <3>4. ~overlapped => \A u \in Thread \ {runningTC} : pc[u] # "blocked"
      <4>1. SUFFICES ASSUME ~overlapped, NEW u \in Thread, pc[u] = "blocked"
                     PROVE  u = runningTC
        OBVIOUS
      <4>2. \A i \in DOMAIN queue : queue[i].tc = u
        BY <1>1, <4>1 DEF WaitersKnown, InCall
      <4>3. Head(queue).tc = u
        BY <1>1, <4>2, HeadOperation DEF TypeOK
      <4> QED BY <4>1, <4>3 DEF WaitersKnown
    <3>5. \A u \in Thread : /\ pc'[u] = "blocked" <=> u \in blockedThreads'
                            /\ pc'[u] = "blocked" => ~isFree'[u]
      BY <1>1, <3>1 DEF WaitersKnown, TypeOK
    <3>6. ~overlapped' => \A u \in Thread : pc'[u] # "blocked"
      BY <1>1, <2>1, <3>1, <3>4 DEF TypeOK
    <3>7. WaitersKnown'
      BY <2>1, <2>2, <2>4, <3>5, <3>6 DEF WaitersKnown
    <3> QED BY <2>3, <3>2, <3>3, <3>7
  <2>5. CASE ~(unblocks /\ Suspended(runningTC) /\ ~WorkLeft)
    <3>1. /\ isFree' = isFree /\ blockedThreads' = blockedThreads
          /\ unblockNeeded' = unblockNeeded /\ pc' = pc
      BY <2>1, <2>5 DEF Unblock, threads
    <3>2. TypeOK'
      BY <2>1, <2>2, <3>1 DEF TypeOK
    <3>3. DeviceDriven'
      <4>1. \A i \in DOMAIN queue' : queue'[i].type # "kernel" => unblockNeeded'
        BY <2>2, <3>1 DEF DeviceDriven
      <4> QED BY <2>1, <4>1 DEF DeviceDriven
    <3>4. ASSUME ~overlapped, NEW u \in Thread, pc[u] = "blocked"
          PROVE  queue' # << >>
      <4>1. \A i \in DOMAIN queue : queue[i].tc = u
        BY <1>1, <3>4 DEF WaitersKnown, InCall
      <4>2. Head(queue).tc = u
        BY <1>1, <4>1, HeadOperation DEF TypeOK
      <4>3. runningTC = u /\ unblockNeeded
        BY <1>1, <3>4, <4>2 DEF WaitersKnown, InCall
      <4>4. Suspended(runningTC)
        BY <3>4, <4>3 DEF Suspended
      <4> QED BY <2>2, <2>5, <4>3, <4>4
    <3>5. ~overlapped => \A u \in Thread :
            InCall(u) => /\ ~isFree[u] /\ unblockNeeded
                         /\ \A i \in DOMAIN queue' : queue'[i].tc = u
      BY <1>1, <2>2 DEF WaitersKnown
    <3>6. WaitersKnown'
      BY <2>1, <3>1, <3>4, <3>5 DEF WaitersKnown, InCall
    <3> QED BY <2>3, <3>2, <3>3, <3>6
  <2> QED BY <2>4, <2>5
<1> QED BY <1>2, <1>3

-----------------------------------------------------------------------------

LEMMA InvStep == Inv /\ [Next]_vars => Inv'
<1> SUFFICES ASSUME Inv, [Next]_vars PROVE Inv'
  OBVIOUS
<1>1. ASSUME NEW t \in Thread, NEW n \in Bytes, Copy(t, n) \/ Memset(t, n)
      PROVE  Inv'
  BY <1>1, CopyInv, MemsetInv
<1>2. ASSUME NEW t \in Thread,
             \/ Launch(t) \/ Synchronize(t) \/ OtherCall(t)
             \/ BlockThread(t) \/ Return(t) \/ Sleep(t)
      PROVE  Inv'
  BY <1>2, LaunchInv, SynchronizeInv, OtherCallInv, BlockThreadInv, ThreadInv
<1>3. ASSUME StreamTick PROVE Inv'
  BY <1>3, TickIdleInv, TickCancelsInv, TickBeginsInv DEF StreamTick
<1>4. ASSUME FinishCopyOperation PROVE Inv'
  <2>1. Running /\ pending /\ EndOperation(TRUE)
    BY <1>4 DEF FinishCopyOperation, Inv, NoLostWakeup, DeviceDriven
  <2>2. unblockNeeded
    <3>1. queue # << >> /\ Head(queue).type # "kernel"
      BY <1>4, <2>1 DEF FinishCopyOperation, Inv, NoLostWakeup, DeviceDriven
    <3>2. 1 \in DOMAIN queue /\ Head(queue) = queue[1]
      BY <3>1, HeadOperation DEF Inv, TypeOK
    <3> QED BY <3>1, <3>2 DEF Inv, NoLostWakeup, DeviceDriven
  <2> QED BY <2>1, <2>2, EndOperationInv
<1>5. ASSUME FinishKernel PROVE Inv'
  BY <1>5, FinishKernelInv
<1>6. ASSUME ProcessFinishKernelEvent PROVE Inv'
  <2> DEFINE unblocks == unblockNeeded /\ ~WorkLeft
  <2>1. Running /\ pending /\ EndOperation(unblocks)
    BY <1>6 DEF ProcessFinishKernelEvent, Inv, NoLostWakeup, DeviceDriven
  <2>2. unblocks \in BOOLEAN
    OBVIOUS
  <2>3. (unblocks => unblockNeeded) /\ (~unblocks => WorkLeft \/ ~unblockNeeded)
    OBVIOUS
  <2> HIDE DEF unblocks
  <2> QED BY <2>1, <2>2, <2>3, EndOperationInv
<1>7. CASE UNCHANGED vars
  <2>1. UNCHANGED <<stream, threads, calls, overlapped, halted>>
    BY <1>7 DEF vars
  <2>2. TypeOK'
    BY <2>1 DEF Inv, TypeOK, stream, threads
  <2>3. DeviceDriven'
    BY <2>1 DEF Inv, NoLostWakeup, DeviceDriven, stream, threads
  <2>4. WaitersKnown'
    BY <2>1 DEF Inv, NoLostWakeup, WaitersKnown, InCall, stream, threads
  <2>5. PanicsExplained'
    BY <2>1 DEF Inv, PanicsExplained, stream, threads
  <2> QED BY <2>2, <2>3, <2>4, <2>5 DEF Inv, NoLostWakeup
<1> QED BY <1>1, <1>2, <1>3, <1>4, <1>5, <1>6, <1>7 DEF Next

LEMMA InvAlways == Spec => []Inv
<1> QED BY InvInit, InvStep, PTL DEF Spec

\* Every state is well typed: no launch latency goes below zero, and unblockThread
\* is never called for no thread.
THEOREM GPUTypes == Spec => []TypeOK
<1>1. Inv => TypeOK
  BY DEF Inv
<1> QED BY <1>1, InvAlways, PTL

\* Queued work always has a tick or runs, and while threads take turns with the
\* GPU, a blocked thread waits for work of its own that will wake it.
THEOREM GPUKeepsWakeups == Spec => []NoLostWakeup
<1>1. Inv => NoLostWakeup
  BY DEF Inv
<1> QED BY <1>1, InvAlways, PTL

\* The assertions and panics of the device hold, but for operations without
\* bytes and threads that sleep while their asynchronous work ends.
THEOREM GPUPanics == Spec => []PanicsExplained
<1>1. Inv => PanicsExplained
  BY DEF Inv
<1> QED BY <1>1, InvAlways, PTL

-----------------------------------------------------------------------------

\* Once its flag is set, and until it has seen it, a thread has nothing queued.
FreeMeansDone ==
  \A t \in Thread : pc[t] = "block" /\ isFree[t] => ~Queued(t)

LEMMA FreeInit == Init => FreeMeansDone
  BY DEF Init, FreeMeansDone

LEMMA FreeStep == Inv /\ FreeMeansDone /\ [Next]_vars => FreeMeansDone'
<1> SUFFICES ASSUME Inv, FreeMeansDone, [Next]_vars,
                    NEW t \in Thread, pc'[t] = "block", isFree'[t]
             PROVE  ~Queued(t)'
  BY DEF FreeMeansDone
<1> USE DEF Inv
\* A call of any thread pushes operations of that thread only.
<1>1. ASSUME NEW u \in Thread, NEW op \in Operation, op.tc = u, Pushing(u, op)
      PROVE  ~Queued(t)'
  <2>1. /\ \/ pc' = pc /\ isFree' = isFree
           \/ pc' = [pc EXCEPT ![u] = "block"] /\ isFree' = [isFree EXCEPT ![u] = FALSE]
        /\ pc[u] = "ready" /\ queue' = Append(queue, op)
    BY <1>1 DEF Pushing, StartBlocking, Call
  <2>2. u # t /\ pc[t] = "block" /\ isFree[t]
    BY <2>1 DEF TypeOK
  <2>3. \A i \in DOMAIN queue' : queue'[i] = op \/ (i \in DOMAIN queue /\ queue'[i] = queue[i])
    BY <1>1, <2>1, AppendOperation DEF TypeOK
  <2> QED BY <1>1, <2>2, <2>3 DEF FreeMeansDone, Queued
<1>2. ASSUME queue' = << >>
      PROVE  ~Queued(t)'
  BY <1>2 DEF Queued
\* A step that neither sets the flag nor pushes.
<1>3. ASSUME pc[t] = "block", isFree[t],
             \A i \in DOMAIN queue' : \E j \in DOMAIN queue : queue'[i].tc = queue[j].tc
      PROVE  ~Queued(t)'
  BY <1>3 DEF FreeMeansDone, Queued
<1>4. ASSUME NEW u \in Thread, NEW n \in Bytes, Copy(u, n) \/ Memset(u, n)
      PROVE  ~Queued(t)'
  <2>1. PICK type \in {"copy", "memset"} :
          Pushing(u, [type |-> type, tc |-> u, n |-> n])
    BY <1>4 DEF Copy, Memset, Push, Pushing
  <2>2. [type |-> type, tc |-> u, n |-> n] \in Operation
    BY DEF Operation
  <2> QED BY <1>1, <2>1, <2>2
<1>5. ASSUME NEW u \in Thread, Launch(u)
      PROVE  ~Queued(t)'
  <2>1. Pushing(u, [type |-> "kernel", tc |-> u, n |-> LaunchLatency])
    BY <1>5 DEF Launch, Push, Pushing, threads
  <2>2. [type |-> "kernel", tc |-> u, n |-> LaunchLatency] \in Operation
    BY GPUAssumption DEF Operation
  <2> QED BY <1>1, <2>1, <2>2
<1>6. ASSUME NEW u \in Thread,
             Synchronize(u) \/ OtherCall(u) \/ BlockThread(u) \/ Return(u) \/ Sleep(u)
      PROVE  ~Queued(t)'
  <2>1. queue' = queue
    BY <1>6 DEF Synchronize, OtherCall, BlockThread, Return, Sleep, stream
  <2>2. \/ pc[t] = "block" /\ isFree[t]
        \/ queue = << >>
    BY <1>6 DEF Synchronize, StartBlocking, OtherCall, BlockThread, Return, Sleep,
                threads, TypeOK
  <2> QED BY <1>2, <1>3, <2>1, <2>2
<1>7. ASSUME StreamTick PROVE ~Queued(t)'
  <2>1. pc' = pc /\ isFree' = isFree
    BY <1>7 DEF StreamTick, TickIdle, TickCancels, TickBegins, Stop, threads
  <2>2. \A i \in DOMAIN queue' : i \in DOMAIN queue /\ queue'[i].tc = queue[i].tc
    <3>1. CASE TickCancels
      BY <3>1, WaitingKernel DEF TickCancels, KernelReady, TypeOK
    <3>2. CASE queue' = queue
      BY <3>2
    <3> QED BY <1>7, <3>1, <3>2 DEF StreamTick, TickIdle, TickBegins, Stop, stream
  <2> QED BY <1>3, <2>1, <2>2
<1>8. ASSUME FinishKernel \/ UNCHANGED vars PROVE ~Queued(t)'
  BY <1>3, <1>8 DEF FinishKernel, vars, stream, threads
<1>9. ASSUME NEW unblocks \in BOOLEAN, pending, EndOperation(unblocks)
      PROVE  ~Queued(t)'
  <2>1. queue # << >> /\ runningTC \in Thread
    BY <1>9 DEF NoLostWakeup, DeviceDriven, TypeOK
  <2>2. CASE UNCHANGED <<stream, threads>>
    BY <1>3, <2>2 DEF stream, threads
  <2>3. CASE queue' = Tail(queue) /\ UNCHANGED threads
    BY <1>3, <2>1, <2>3, TailOperations DEF threads, TypeOK
  <2>4. CASE queue' = Tail(queue) /\ ~WorkLeft
    BY <1>2, <2>4 DEF WorkLeft
  <2> QED BY <1>9, <2>2, <2>3, <2>4 DEF EndOperation, Unblock, Stop
<1>10. ASSUME FinishCopyOperation \/ ProcessFinishKernelEvent
       PROVE  ~Queued(t)'
  <2>1. pending
    BY <1>10 DEF FinishCopyOperation, ProcessFinishKernelEvent, NoLostWakeup,
                 DeviceDriven
  <2>2. PICK unblocks \in BOOLEAN : EndOperation(unblocks)
    <3>1. (unblockNeeded /\ ~WorkLeft) \in BOOLEAN
      OBVIOUS
    <3> QED BY <1>10, <3>1 DEF FinishCopyOperation, ProcessFinishKernelEvent
  <2> QED BY <1>9, <2>1, <2>2
<1> QED BY <1>4, <1>5, <1>6, <1>7, <1>8, <1>10 DEF Next

\* A thread leaves its call only by seeing its flag.
LEMMA ReturnStep ==
  Inv /\ FreeMeansDone /\ [Next]_vars =>
    \A t \in Thread : InCall(t) /\ pc'[t] = "ready" => ~Queued(t)
<1> SUFFICES ASSUME Inv, FreeMeansDone, [Next]_vars,
                    NEW t \in Thread, InCall(t), pc'[t] = "ready"
             PROVE  pc[t] = "block" /\ isFree[t]
  BY DEF FreeMeansDone
<1>1. PICK u \in Thread : Return(u)
  <2>1. ASSUME NEW u \in Thread, ~Return(u), NEW n \in Bytes,
               \/ Copy(u, n) \/ Memset(u, n) \/ Launch(u) \/ Synchronize(u)
               \/ OtherCall(u) \/ BlockThread(u) \/ Sleep(u)
        PROVE  FALSE
    BY <2>1 DEF InCall, Copy, Memset, Launch, Synchronize, OtherCall, BlockThread,
                Sleep, StartBlocking, Call, threads, Inv, TypeOK
  <2>2. ASSUME StreamTick \/ FinishKernel \/ UNCHANGED vars PROVE FALSE
    BY <2>2 DEF StreamTick, TickIdle, TickCancels, TickBegins, Stop, FinishKernel,
                vars, threads, InCall
  <2>3. ASSUME FinishCopyOperation \/ ProcessFinishKernelEvent PROVE FALSE
    BY <2>3 DEF FinishCopyOperation, ProcessFinishKernelEvent, EndOperation, Unblock,
                Stop, threads, InCall, Inv, TypeOK
  <2>4. 0 \in Bytes
    BY DEF Bytes
  <2> QED BY <2>1, <2>2, <2>3, <2>4 DEF Next
<1> QED BY <1>1 DEF Return, Inv, TypeOK, InCall

\* A call that blocks returns when everything its thread queued is done.
THEOREM GPUReturnsWhenDone == Spec => ReturnsWhenDone
<1>1. Spec => []FreeMeansDone
  BY InvAlways, FreeInit, FreeStep, PTL DEF Spec
<1>2. Inv /\ FreeMeansDone /\ [Next]_vars =>
        [\A t \in Thread : InCall(t) /\ pc'[t] = "ready" => ~Queued(t)]_vars
  BY ReturnStep
<1> QED BY <1>1, <1>2, InvAlways, PTL DEF Spec, ReturnsWhenDone
=============================================================================
