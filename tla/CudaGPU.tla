------------------------------- MODULE CudaGPU -------------------------------
(***************************************************************************)
(* The GPU device as gem5 runs it (cuda_gpu.cc, cuda_gpu.hh): CUDA calls   *)
(* of simulated threads put operations into stream zero of the stream      *)
(* manager, stream ticks start them on the copy engine or the shader cores *)
(* one at a time, and a thread that must wait is suspended and is          *)
(* activated when the device has nothing left to do.                       *)
(*                                                                         *)
(* Threads are pinned to thread contexts of one process, and gem5 emulates *)
(* system calls: gpu_syscall_helper.cc asserts that, so a GPU page fault   *)
(* or an interrupt that wakes a blocked thread cannot happen here. Streams *)
(* and events cannot be created (cuda_not_implemented): every operation is *)
(* in stream zero. A gem5 event or system call is one action.              *)
(***************************************************************************)
EXTENDS Naturals, Sequences

CONSTANTS Thread,         \* simulated threads: thread contexts
          None,           \* NULL
          LaunchLatency,  \* g_kernel_launch_latency
          MaxCalls        \* CUDA calls made (bound)

ASSUME GPUAssumption ==
  /\ None \notin Thread
  /\ LaunchLatency \in Nat
  /\ MaxCalls \in Nat

VARIABLES
  \* the device
  queue,          \* m_operations of stream zero
  pending,        \* m_pending of stream zero
  tickScheduled,  \* streamScheduled
  runningTC,      \* thread of the running operation, which may change
  device,         \* what runs; a kernel that has ended is "returning" for returnDelay
  unblockNeeded,
  blockedThreads,
  \* the threads
  pc,             \* where a thread is
  isFree,         \* the flag blockThread of the runtime library waits for
  calls,          \* CUDA calls made (bound)
  overlapped,     \* history: a call was made inside or beside another thread's
  halted          \* "no", or the assertion or panic that stopped gem5

stream == <<queue, pending, tickScheduled, runningTC, device>>
threads == <<unblockNeeded, blockedThreads, pc, isFree>>
vars == <<stream, threads, calls, overlapped, halted>>

\* n is the number of bytes (only whether there are any matters), or
\* m_launch_latency.
Bytes == {0, 1}
Operation == [type : {"copy", "memset"}, tc : Thread, n : Bytes]
             \union [type : {"kernel"}, tc : Thread, n : 0 .. LaunchLatency]

\* A thread in "block" calls cudaBlockThread until isFree; "blocked" and
\* "asleep", in a system call of its own, are ThreadContext::Suspended.
ThreadPc == {"ready", "block", "blocked", "asleep"}
Panic == {"stream busy", "GPU running", "no bytes", "not pending",
          "no unblock needed", "unknown thread", "thread not blocked"}

TypeOK ==
  /\ queue \in Seq(Operation)
  /\ pending \in BOOLEAN /\ tickScheduled \in BOOLEAN
  /\ runningTC \in Thread \union {None}
  /\ device \in {"idle", "copy", "kernel", "returning"}
  /\ unblockNeeded \in BOOLEAN
  /\ blockedThreads \subseteq Thread
  /\ pc \in [Thread -> ThreadPc]
  /\ isFree \in [Thread -> BOOLEAN]
  /\ calls \in 0 .. MaxCalls
  /\ overlapped \in BOOLEAN
  /\ halted \in Panic \union {"no"}

Init ==
  /\ queue = << >> /\ pending = FALSE /\ tickScheduled = FALSE
  /\ runningTC = None /\ device = "idle"
  /\ unblockNeeded = FALSE /\ blockedThreads = {}
  /\ pc = [t \in Thread |-> "ready"]
  /\ isFree = [t \in Thread |-> FALSE]
  /\ calls = 0
  /\ overlapped = FALSE /\ halted = "no"

Running == halted = "no"

Stop(panic) ==
  /\ halted' = panic
  /\ UNCHANGED <<stream, threads, calls, overlapped>>

-----------------------------------------------------------------------------
(* CUDA calls (libcuda_syscalls.cc).                                       *)

InCall(t) == pc[t] \in {"block", "blocked"}
Queued(t) == \E i \in DOMAIN queue : queue[i].tc = t

\* What every call starts with: the thread takes over whatever is running.
CheckUpdateThreadContext(t) ==
  /\ runningTC' = IF runningTC = None THEN None ELSE t
  /\ overlapped' =
       (overlapped \/ \E u \in Thread \ {t} : InCall(u) \/ Queued(u))

Call(t) ==
  /\ Running
  /\ pc[t] = "ready" /\ calls < MaxCalls
  /\ calls' = calls + 1
  /\ CheckUpdateThreadContext(t)

\* stream_manager::push
Push(type, t, n) ==
  /\ queue' = Append(queue, [type |-> type, tc |-> t, n |-> n])
  /\ tickScheduled' = (tickScheduled \/ ~pending)
  /\ UNCHANGED <<pending, device, halted>>

\* blockThread of the runtime library, up to its loop.
StartBlocking(t) ==
  /\ pc' = [pc EXCEPT ![t] = "block"]
  /\ isFree' = [isFree EXCEPT ![t] = FALSE]

\* cudaMemcpy of some bytes; cudaMemcpyToSymbol and cudaMemcpyFromSymbol, which
\* do not look at the count.
Copy(t, n) ==
  /\ Call(t)
  /\ Push("copy", t, n)
  /\ unblockNeeded' = TRUE
  /\ StartBlocking(t)
  /\ UNCHANGED blockedThreads

\* cudaMemset: does not block, but asks for the thread to be unblocked.
Memset(t, n) ==
  /\ Call(t)
  /\ Push("memset", t, n)
  /\ unblockNeeded' = TRUE
  /\ UNCHANGED <<blockedThreads, pc, isFree>>

\* cudaLaunch
Launch(t) ==
  /\ Call(t)
  /\ Push("kernel", t, LaunchLatency)
  /\ UNCHANGED threads

\* cudaThreadSynchronize
Synchronize(t) ==
  /\ Call(t)
  /\ IF queue # << >>
     THEN unblockNeeded' = TRUE /\ StartBlocking(t)
     ELSE UNCHANGED <<unblockNeeded, pc, isFree>>
  /\ UNCHANGED <<queue, pending, tickScheduled, device, blockedThreads, halted>>

\* A call that does nothing to the stream: cudaMalloc, cudaMemcpy of no bytes.
OtherCall(t) ==
  /\ Call(t)
  /\ UNCHANGED <<queue, pending, tickScheduled, device, threads, halted>>

\* Mutant of BlockThread: the stream manager is not asked whether it is empty.
BlockThreadAlways(t) ==
  /\ Running
  /\ pc[t] = "block" /\ ~isFree[t]
  /\ CheckUpdateThreadContext(t)
  /\ blockedThreads' = blockedThreads \union {t}
  /\ pc' = [pc EXCEPT ![t] = "blocked"]
  /\ UNCHANGED <<queue, pending, tickScheduled, device, unblockNeeded, isFree,
                 calls, halted>>

\* cudaBlockThread: what the thread waits for may have ended meanwhile.
BlockThread(t) ==
  /\ Running
  /\ pc[t] = "block" /\ ~isFree[t]
  /\ CheckUpdateThreadContext(t)
  /\ IF queue = << >>
     THEN /\ isFree' = [isFree EXCEPT ![t] = TRUE]
          /\ blockedThreads' = blockedThreads \ {t}
          /\ unblockNeeded' = FALSE
          /\ UNCHANGED pc
     ELSE /\ blockedThreads' = blockedThreads \union {t}
          /\ pc' = [pc EXCEPT ![t] = "blocked"]
          /\ UNCHANGED <<isFree, unblockNeeded>>
  /\ UNCHANGED <<queue, pending, tickScheduled, device, calls, halted>>

\* The loop in the runtime library ends.
Return(t) ==
  /\ Running
  /\ pc[t] = "block" /\ isFree[t]
  /\ pc' = [pc EXCEPT ![t] = "ready"]
  /\ UNCHANGED <<stream, unblockNeeded, blockedThreads, isFree, calls,
                 overlapped, halted>>

\* A system call of the thread that has nothing to do with the GPU, such as a
\* wait on a futex, suspends it; and ends.
Sleep(t) ==
  /\ Running
  /\ \/ pc[t] = "ready" /\ pc' = [pc EXCEPT ![t] = "asleep"]
     \/ pc[t] = "asleep" /\ pc' = [pc EXCEPT ![t] = "ready"]
  /\ UNCHANGED <<stream, unblockNeeded, blockedThreads, isFree, calls,
                 overlapped, halted>>

-----------------------------------------------------------------------------
(* streamTick                                                              *)

\* Mutant of KernelReady: off by one.
KernelReadyLate(op) == op.n < 0

\* can_start_kernel holds, the device runs one kernel at a time.
KernelReady(op) == op.n = 0

\* front returns no operation.
TickIdle ==
  /\ queue = << >> \/ pending
  /\ tickScheduled' = FALSE
  /\ UNCHANGED <<queue, pending, runningTC, device, threads, calls, overlapped,
                 halted>>

\* Mutant of TickCancels: no tick follows.
TickCancelsOnce ==
  /\ queue # << >> /\ ~pending
  /\ Head(queue).type = "kernel" /\ ~KernelReady(Head(queue))
  /\ queue' = [queue EXCEPT ![1].n = @ - 1]
  /\ tickScheduled' = FALSE
  /\ UNCHANGED <<pending, runningTC, device, threads, calls, overlapped, halted>>

\* A kernel that may not start yet: do_operation fails, cancel_front.
TickCancels ==
  /\ queue # << >> /\ ~pending
  /\ Head(queue).type = "kernel" /\ ~KernelReady(Head(queue))
  /\ queue' = [queue EXCEPT ![1].n = @ - 1]
  /\ tickScheduled' = TRUE
  /\ UNCHANGED <<pending, runningTC, device, threads, calls, overlapped, halted>>

\* do_operation: beginStreamOperation with the thread that queued the
\* operation, then beginRunning, or the copy engine is started.
TickBegins ==
  LET op == Head(queue)
  IN /\ queue # << >> /\ ~pending
     /\ op.type = "kernel" => KernelReady(op)
     /\ IF runningTC # None THEN Stop("stream busy")
        ELSE IF op.type = "kernel" /\ device \in {"kernel", "returning"}
        THEN Stop("GPU running")
        ELSE IF op.type # "kernel" /\ op.n = 0 THEN Stop("no bytes")
        ELSE /\ pending' = TRUE
             /\ tickScheduled' = FALSE
             /\ runningTC' = op.tc
             /\ device' = IF op.type = "kernel" THEN "kernel" ELSE "copy"
             /\ UNCHANGED <<queue, threads, calls, overlapped, halted>>

StreamTick ==
  /\ Running
  /\ tickScheduled
  /\ TickIdle \/ TickCancels \/ TickBegins

-----------------------------------------------------------------------------
(* The end of an operation.                                                *)

\* Mutant of Suspended: a thread about to block counts.
SuspendedSoon(t) == pc[t] # "ready"

Suspended(t) == pc[t] \in {"blocked", "asleep"}

\* Mutant of WorkLeft: nobody asks whether the stream manager is empty.
NoWorkLeft == FALSE

\* ~streamManager->empty() after record_next_done.
WorkLeft == Tail(queue) # << >>

\* unblockThread of the running thread, when it does not panic.
Unblock ==
  IF Suspended(runningTC) /\ ~WorkLeft
  THEN /\ isFree' = [isFree EXCEPT ![runningTC] = TRUE]
       /\ blockedThreads' = blockedThreads \ {runningTC}
       /\ unblockNeeded' = FALSE
       /\ pc' = [pc EXCEPT ![runningTC] = "block"]
  ELSE UNCHANGED threads

\* The assertion and the panics of unblockThread and signalThread.
UnblockPanics(panic) ==
  /\ Suspended(runningTC)
  /\ \/ ~unblockNeeded /\ panic = "no unblock needed"
     \/ /\ unblockNeeded /\ ~WorkLeft
        /\ \/ runningTC \notin blockedThreads /\ panic = "unknown thread"
           \/ /\ runningTC \in blockedThreads /\ isFree[runningTC]
              /\ panic = "thread not blocked"

\* record_next_done, scheduleStreamEvent and endStreamOperation around
\* unblockThread, if that is called.
EndOperation(unblocks) ==
  IF ~pending THEN Stop("not pending")
  ELSE \/ \E panic \in Panic : unblocks /\ UnblockPanics(panic) /\ Stop(panic)
       \/ /\ ~(unblocks /\ \E panic \in Panic : UnblockPanics(panic))
          /\ queue' = Tail(queue) /\ pending' = FALSE
          /\ tickScheduled' = TRUE
          /\ runningTC' = None /\ device' = "idle"
          /\ IF unblocks THEN Unblock ELSE UNCHANGED threads
          /\ UNCHANGED <<calls, overlapped, halted>>

\* finishCopyOperation
FinishCopyOperation ==
  /\ Running
  /\ device = "copy"
  /\ EndOperation(TRUE)

\* finishKernel, when the last shader core is done with the kernel.
FinishKernel ==
  /\ Running
  /\ device = "kernel"
  /\ device' = "returning"
  /\ UNCHANGED <<queue, pending, tickScheduled, runningTC, threads, calls,
                 overlapped, halted>>

\* The event a kernel's end schedules, returnDelay later.
ProcessFinishKernelEvent ==
  /\ Running
  /\ device = "returning"
  /\ EndOperation(unblockNeeded /\ ~WorkLeft)

-----------------------------------------------------------------------------

Next ==
  \/ \E t \in Thread :
       \/ \E n \in Bytes : Copy(t, n) \/ Memset(t, n)
       \/ Launch(t) \/ Synchronize(t) \/ OtherCall(t)
       \/ BlockThread(t) \/ Return(t) \/ Sleep(t)
  \/ StreamTick
  \/ FinishCopyOperation
  \/ FinishKernel \/ ProcessFinishKernelEvent

Spec == Init /\ [][Next]_vars

\* gem5 runs every event it has scheduled and every thread that is not
\* suspended; copies and kernels end. Nobody need make a call or wake up.
Fairness ==
  /\ \A t \in Thread : WF_vars(BlockThread(t)) /\ WF_vars(Return(t))
  /\ WF_vars(StreamTick)
  /\ WF_vars(FinishCopyOperation)
  /\ WF_vars(FinishKernel) /\ WF_vars(ProcessFinishKernelEvent)

FairSpec == Spec /\ Fairness

-----------------------------------------------------------------------------

\* The stream, the device and the event that drives them agree: queued work
\* that does not run has a tick, running work is the head of the queue. Work
\* that some thread may have to be woken for has unblockNeeded set.
DeviceDriven ==
  /\ queue # << >> /\ ~pending => tickScheduled
  /\ pending => ~tickScheduled /\ queue # << >>
  /\ pending <=> device # "idle"
  /\ pending <=> runningTC # None
  /\ device = "copy" => Head(queue).type # "kernel"
  /\ device \in {"kernel", "returning"} => Head(queue).type = "kernel"
  /\ \A i \in DOMAIN queue : queue[i].type # "kernel" => unblockNeeded

\* unblockThread finds exactly the threads that blockThread suspended. While
\* only one thread at a time uses the GPU, one that waits waits for work of
\* its own, in a device that knows it has somebody to wake.
WaitersKnown ==
  /\ \A t \in Thread :
       /\ pc[t] = "blocked" <=> t \in blockedThreads
       /\ pc[t] = "blocked" => ~isFree[t]
  /\ ~overlapped =>
       /\ \A t \in Thread :
            /\ pc[t] = "blocked" => queue # << >>
            /\ InCall(t) /\ queue # << >> =>
                 /\ ~isFree[t] /\ unblockNeeded
                 /\ \A i \in DOMAIN queue : queue[i].tc = t
       /\ pending => runningTC = Head(queue).tc

\* No wake-up is lost: neither the device's nor that of a blocked thread,
\* whatever is queued or ends between a call and its cudaBlockThread.
NoLostWakeup == DeviceDriven /\ WaitersKnown

\* Of the assertions and panics of cuda_gpu.cc and cuda_gpu.hh two can fail:
\* for an operation without bytes, and when the thread for which an operation
\* ends sleeps for another reason.
PanicsExplained ==
  /\ halted \in {"no", "no bytes", "unknown thread"}
  /\ halted = "no bytes" => queue # << >> /\ Head(queue).n = 0
  /\ halted = "unknown thread" => runningTC # None /\ pc[runningTC] = "asleep"

\* A call that blocks returns when every operation its thread had queued,
\* kernels and memsets included, is done.
ReturnsWhenDone ==
  [][\A t \in Thread : InCall(t) /\ pc'[t] = "ready" => ~Queued(t)]_vars

\* A call that blocks returns, as long as one thread at a time uses the GPU.
CallsReturn ==
  \A t \in Thread : InCall(t) ~> (pc[t] = "ready" \/ overlapped \/ ~Running)
=============================================================================
