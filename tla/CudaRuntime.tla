----------------------------- MODULE CudaRuntime ----------------------------
(***************************************************************************)
(* The threads around the stream manager: the hosts in the CUDA runtime    *)
(* API, and the simulation thread (gpgpu_sim_thread_concurrent).           *)
(*                                                                         *)
(* A host polls, without a lock, streams that others change: a poll that   *)
(* fails and is repeated at once changes nothing and is no step, but       *)
(* stream_manager::empty reads one stream at a time. An iterator at a      *)
(* stream that has been deleted is undefined behaviour: the program ends.  *)
(***************************************************************************)
EXTENDS StreamManager, FiniteSets

CONSTANTS Calls,    \* the API calls the hosts make (bound)
          MaxCalls  \* calls of a host (bound)

ASSUME CallAssumption ==
  /\ Calls \subseteq {"copy", "kernel", "event", "wait", "waitAll", "create",
                      "destroy", "streamSync", "sync", "exit"}
  /\ MaxCalls \in Nat

VARIABLES
  pc,         \* where each host is in its call
  op,         \* the operation it pushes
  target,     \* the stream argument of its call, Zero for NULL
  iter,       \* iterator of concurrent_streams_empty, None outside it
  each,       \* iterator of pushCudaStreamWaitEventToAllStreams, or None
  calls,      \* calls made (bound)
  owner,      \* the host that created each stream, or None
  events,     \* m_issued of the event: records issued
  issued,     \* history: the streams of the operations each host has pushed
  simPc,      \* where the simulation thread is
  simActive,  \* g_sim_active
  simDone,    \* g_sim_done
  simLock,    \* the host that holds g_sim_lock, or None
  crashed     \* a deleted stream was used

hostVars == <<pc, op, target, iter, each, calls, owner, events, issued>>
simVars  == <<simPc, simActive, simDone, simLock>>
vars     == <<managerVars, hostVars, simVars, crashed>>

HostPc == {"ready", "block", "push", "drain", "each", "nextEach",
           "streamSync", "destroySync", "destroyLock", "destroySpin", "sync", "syncScan",
           "exiting", "exited"}

TypeOK ==
  /\ ManagerTypeOK
  /\ pc \in [Host -> HostPc]
  /\ op \in [Host -> Operation]
  /\ target \in [Host -> AnyStream]
  /\ iter \in [Host -> Stream \union {End, None}]
  /\ each \in [Host -> Stream \union {End, None}]
  /\ calls \in [Host -> 0 .. MaxCalls]
  /\ owner \in [Stream -> Host \union {None}]
  /\ events \in Nat
  /\ issued \in [Host -> Seq(AnyStream)]
  /\ simPc \in {"idle", "activate", "operate", "run", "check", "stop", "exited"}
  /\ simActive \in BOOLEAN /\ simDone \in BOOLEAN
  /\ simLock \in Host \union {None}
  /\ crashed \in BOOLEAN

Init ==
  /\ ManagerInit
  /\ pc = [h \in Host |-> "ready"]
  /\ op = [h \in Host |-> [type |-> "copy", host |-> h, num |-> 1, cnt |-> 0]]
  /\ target = [h \in Host |-> Zero]
  /\ iter = [h \in Host |-> None]
  /\ each = [h \in Host |-> None]
  /\ calls = [h \in Host |-> 0]
  /\ owner = [s \in Stream |-> None]
  /\ events = 0
  /\ issued = [h \in Host |-> << >>]
  /\ simPc = "idle"
  /\ simActive = FALSE /\ simDone = FALSE
  /\ simLock = None
  /\ crashed = FALSE

-----------------------------------------------------------------------------
(* The calls of the API. A host uses the streams it created.               *)

Owned(h) == {s \in Alive : owner[s] = h}

Call(h, call) ==
  /\ pc[h] = "ready"
  /\ call \in Calls /\ calls[h] < MaxCalls
  /\ calls' = [calls EXCEPT ![h] = @ + 1]

GoTo(h, next) == pc' = [pc EXCEPT ![h] = next]

\* Mutant of Blocks: an operation for stream zero is pushed at once.
BlocksNever(s) == FALSE

\* block in push: stream zero, or every stream when launches block.
Blocks(s) == s = Zero \/ blocking

\* push(op) is called with an operation for stream s.
StartPush(h, type, s, cnt) ==
  /\ op' = [op EXCEPT ![h] = [type |-> type, host |-> h,
                              num |-> Len(issued[h]) + 1, cnt |-> cnt]]
  /\ target' = [target EXCEPT ![h] = s]
  /\ GoTo(h, IF Blocks(s) THEN "block" ELSE "push")

\* cudaMemcpy, cudaMemcpyAsync, cudaLaunch and cudaEventRecord.
CallPush(h, type, s) ==
  /\ type \in {"copy", "kernel", "event"}
  /\ Call(h, type)
  /\ s \in Owned(h) \union {Zero}
  /\ StartPush(h, type, s, 0)
  /\ events' = IF type = "event" THEN events + 1 ELSE events
  /\ UNCHANGED <<managerVars, simVars, crashed, iter, each, owner, issued>>

\* cudaStreamWaitEvent for a stream, after the event has been recorded.
CallWait(h, s) ==
  /\ Call(h, "wait")
  /\ events > 0
  /\ s \in Owned(h)
  /\ StartPush(h, "wait", s, events)
  /\ UNCHANGED <<managerVars, simVars, crashed, iter, each, owner, events,
                 issued>>

\* cudaStreamWaitEvent for the default stream: a wait in every stream.
CallWaitAll(h) ==
  /\ Call(h, "waitAll")
  /\ events > 0
  /\ each' = [each EXCEPT ![h] = Begin]
  /\ GoTo(h, "each")
  /\ UNCHANGED <<managerVars, simVars, crashed, op, target, iter, owner, events,
                 issued>>

\* cudaStreamCreate
CallCreate(h) ==
  \E s \in Stream :
    /\ Call(h, "create")
    /\ owner[s] = None
    /\ owner' = [owner EXCEPT ![s] = h]
    /\ AddStream(s)
    /\ UNCHANGED <<simVars, crashed, pc, op, target, iter, each, events, issued>>

\* cudaStreamSynchronize and cudaStreamDestroy, which synchronizes first.
CallOnStream(h, call, s) ==
  /\ call \in {"streamSync", "destroy"}
  /\ Call(h, call)
  /\ s \in Owned(h)
  /\ target' = [target EXCEPT ![h] = s]
  /\ GoTo(h, IF call = "destroy" THEN "destroySync" ELSE "streamSync")
  /\ UNCHANGED <<managerVars, simVars, crashed, op, iter, each, owner, events,
                 issued>>

\* cudaThreadSynchronize and cudaDeviceSynchronize.
CallSync(h) ==
  /\ Call(h, "sync")
  /\ GoTo(h, "sync")
  /\ UNCHANGED <<managerVars, simVars, crashed, op, target, iter, each, owner,
                 events, issued>>

\* cudaThreadExit (exit_simulation) until the semaphore.
CallExit(h) ==
  /\ Call(h, "exit")
  /\ GoTo(h, "exiting")
  /\ simDone' = TRUE
  /\ UNCHANGED <<managerVars, crashed, op, target, iter, each, owner, events,
                 issued, simPc, simActive, simLock>>

ApiCall(h) ==
  \/ \E type \in {"copy", "kernel", "event"}, s \in AnyStream :
       CallPush(h, type, s)
  \/ \E s \in Stream : CallWait(h, s)
  \/ CallWaitAll(h)
  \/ CallCreate(h)
  \/ \E call \in {"streamSync", "destroy"}, s \in Stream :
       CallOnStream(h, call, s)
  \/ CallSync(h)
  \/ CallExit(h)

-----------------------------------------------------------------------------
(* push                                                                    *)

\* The first loop: until no stream but stream zero holds anything.
Block(h) ==
  /\ pc[h] = "block"
  /\ Unlocked /\ ConcurrentStreamsEmpty
  /\ GoTo(h, "push")
  /\ UNCHANGED <<managerVars, simVars, crashed, op, target, iter, each, calls,
                 owner, events, issued>>

\* Where a finished push returns to.
Return(h) == GoTo(h, IF each[h] = None THEN "ready" ELSE "nextEach")

\* The second critical section.
Push(h) ==
  LET s == IF Blocks(target[h]) THEN Zero ELSE target[h]
  IN /\ pc[h] = "push"
     /\ Enqueue(s, op[h])
     /\ issued' = [issued EXCEPT ![h] = Append(@, s)]
     /\ s \in Alive \union {Zero}
     /\ IF Blocks(target[h]) THEN GoTo(h, "drain") ELSE Return(h)
     /\ UNCHANGED <<simVars, crashed, op, target, iter, each, calls, owner,
                    events>>

-----------------------------------------------------------------------------
(* empty, without m_lock                                                   *)

Scanning(h) == pc[h] \in {"drain", "syncScan"}

ScanBegin(h) ==
  /\ Scanning(h) /\ iter[h] = None
  /\ iter' = [iter EXCEPT ![h] = Begin]
  /\ UNCHANGED <<managerVars, simVars, crashed, pc, op, target, each, calls,
                 owner, events, issued>>

\* empty() returns result: the wait of push goes on or ends; synchronize also
\* looks at g_sim_active and g_sim_done and releases g_sim_lock.
ScanReturns(h, result) ==
  /\ iter' = [iter EXCEPT ![h] = None]
  /\ \/ /\ pc[h] = "drain"
        /\ IF result THEN Return(h) ELSE UNCHANGED pc
        /\ UNCHANGED simLock
     \/ /\ pc[h] = "syncScan"
        /\ GoTo(h, IF (result /\ ~simActive) \/ simDone THEN "ready" ELSE "sync")
        /\ simLock' = None

\* stream->empty() for the next stream.
ScanStream(h) ==
  /\ Scanning(h) /\ iter[h] \in Alive
  /\ IF ops[iter[h]] = << >>
     THEN /\ iter' = [iter EXCEPT ![h] = Following(@)]
          /\ UNCHANGED <<pc, simLock>>
     ELSE ScanReturns(h, FALSE)
  /\ UNCHANGED <<managerVars, crashed, op, target, each, calls, owner, events,
                 issued, simPc, simActive, simDone>>

\* Mutant of ScanZero: stream zero is not looked at.
ScanZeroSkipped(h) ==
  /\ Scanning(h) /\ iter[h] = End
  /\ ScanReturns(h, TRUE)
  /\ UNCHANGED <<managerVars, crashed, op, target, each, calls, owner, events,
                 issued, simPc, simActive, simDone>>

\* m_stream_zero.empty() after the last stream.
ScanZero(h) ==
  /\ Scanning(h) /\ iter[h] = End
  /\ ScanReturns(h, ops[Zero] = << >>)
  /\ UNCHANGED <<managerVars, crashed, op, target, each, calls, owner, events,
                 issued, simPc, simActive, simDone>>

\* gpgpu_context::synchronize takes g_sim_lock for each look.
SyncLock(h) ==
  /\ pc[h] = "sync"
  /\ simLock = None
  /\ simLock' = h
  /\ GoTo(h, "syncScan")
  /\ UNCHANGED <<managerVars, crashed, op, target, iter, each, calls, owner,
                 events, issued, simPc, simActive, simDone>>

-----------------------------------------------------------------------------
(* The other calls.                                                        *)

\* pushCudaStreamWaitEventToAllStreams: a push for the stream at the iterator.
Each(h) ==
  /\ pc[h] = "each"
  /\ IF each[h] = End
     THEN /\ each' = [each EXCEPT ![h] = None]
          /\ GoTo(h, "ready")
          /\ UNCHANGED <<op, target>>
     ELSE /\ each[h] \in Alive
          /\ StartPush(h, "wait", each[h], events)
          /\ UNCHANGED each
  /\ UNCHANGED <<managerVars, simVars, crashed, iter, calls, owner, events,
                 issued>>

\* ++s
NextEach(h) ==
  /\ pc[h] = "nextEach"
  /\ each[h] \in Alive
  /\ each' = [each EXCEPT ![h] = Following(@)]
  /\ GoTo(h, "each")
  /\ UNCHANGED <<managerVars, simVars, crashed, op, target, iter, calls, owner,
                 events, issued>>

\* CUstream_st::synchronize
StreamSync(h) ==
  /\ pc[h] \in {"streamSync", "destroySync"}
  /\ ops[target[h]] = << >>
  /\ GoTo(h, IF pc[h] = "streamSync" THEN "ready" ELSE "destroyLock")
  /\ UNCHANGED <<managerVars, simVars, crashed, op, target, iter, each, calls,
                 owner, events, issued>>

DestroyLock(h) ==
  /\ pc[h] = "destroyLock"
  /\ LockToDestroy(h)
  /\ GoTo(h, "destroySpin")
  /\ UNCHANGED <<simVars, crashed, op, target, iter, each, calls, owner, events,
                 issued>>

DestroySpin(h) ==
  /\ pc[h] = "destroySpin"
  /\ EraseStream(target[h])
  /\ GoTo(h, "ready")
  /\ UNCHANGED <<simVars, crashed, op, target, iter, each, calls, owner, events,
                 issued>>

\* sem_wait(g_sim_signal_exit), which the simulation thread posts once.
Exit(h) ==
  /\ pc[h] = "exiting"
  /\ simPc = "exited" /\ \A g \in Host : pc[g] # "exited"
  /\ GoTo(h, "exited")
  /\ UNCHANGED <<managerVars, simVars, crashed, op, target, iter, each, calls,
                 owner, events, issued>>

InCall(h) ==
  \/ Block(h) \/ Push(h)
  \/ ScanBegin(h) \/ ScanStream(h) \/ ScanZero(h)
  \/ SyncLock(h) \/ StreamSync(h) \/ Each(h) \/ NextEach(h)
  \/ DestroyLock(h) \/ DestroySpin(h)
  \/ Exit(h)

\* The next use of a deleted stream.
Dangling(h) ==
  \/ Scanning(h) /\ iter[h] \in Stream \ Alive
  \/ pc[h] \in {"each", "nextEach"} /\ each[h] \in Stream \ Alive
  \/ pc[h] = "push" /\ ~Blocks(target[h]) /\ target[h] \notin Alive

Crash(h) ==
  /\ Dangling(h)
  /\ crashed' = TRUE
  /\ UNCHANGED <<managerVars, hostVars, simVars>>

-----------------------------------------------------------------------------
(* gpgpu_sim_thread_concurrent                                             *)

\* while (empty_protected() && !g_sim_done)
SimWait ==
  /\ simPc = "idle"
  /\ Unlocked
  /\ ~Empty \/ simDone
  /\ simPc' = "activate"
  /\ UNCHANGED <<managerVars, simActive, simDone, simLock>>

SimActivate ==
  /\ simPc = "activate"
  /\ simLock = None
  /\ simActive' = TRUE
  /\ simPc' = "operate"
  /\ UNCHANGED <<managerVars, simDone, simLock>>

\* operation(); the loop ends when that did not start a kernel.
SimOperate ==
  /\ simPc = "operate"
  /\ ManagerOperation
  /\ simPc' = IF kernel' = None THEN "stop" ELSE "run"
  /\ UNCHANGED <<simActive, simDone, simLock>>

\* gpgpu_cuda_ptx_sim_main_func runs the kernel to its end.
SimRun ==
  /\ simPc = "run"
  /\ RegisterFinishedKernel
  /\ simPc' = "check"
  /\ UNCHANGED <<simActive, simDone, simLock>>

\* active = !empty_protected()
SimCheck ==
  /\ simPc = "check"
  /\ Unlocked
  /\ simPc' = IF ~Empty /\ ~simDone THEN "operate" ELSE "stop"
  /\ UNCHANGED <<managerVars, simActive, simDone, simLock>>

SimStop ==
  /\ simPc = "stop"
  /\ simLock = None
  /\ simActive' = FALSE
  /\ simPc' = IF simDone THEN "exited" ELSE "idle"
  /\ UNCHANGED <<managerVars, simDone, simLock>>

SimThread ==
  /\ SimWait \/ SimActivate \/ SimOperate \/ SimRun \/ SimCheck \/ SimStop
  /\ UNCHANGED <<hostVars, crashed>>

-----------------------------------------------------------------------------

Running == ~crashed

HostStep(h) == Running /\ (InCall(h) \/ Crash(h))
SimStep     == Running /\ SimThread

Next ==
  \/ \E h \in Host : \/ Running /\ ApiCall(h)
                     \/ HostStep(h)
  \/ SimStep

Spec == Init /\ [][Next]_vars

\* Every thread keeps running. g_sim_lock is taken again and again by a host that
\* polls in synchronize: a thread that waits for it gets it if it is free again
\* and again. Nobody need call anything.
SimTakesLock == Running /\ (SimActivate \/ SimStop) /\ UNCHANGED <<hostVars, crashed>>

Fairness ==
  /\ WF_vars(SimStep) /\ SF_vars(SimTakesLock)
  /\ \A h \in Host : WF_vars(HostStep(h)) /\ SF_vars(Running /\ SyncLock(h))

FairSpec == Spec /\ Fairness

-----------------------------------------------------------------------------

Performed(h, n) == <<h, n>> \in performed

\* The runtime keeps the program order of each host thread: an operation is
\* performed once, after the earlier ones in its stream, and the default stream
\* is ordered with all others although front takes from it first.
Order == INSTANCE ProgramOrder

ImplementsProgramOrder == Order!Spec

\* A call that synchronizes returns when what it waits for has been performed:
\* everything the host issued, or everything in its stream. The streams are
\* read one by one, without a lock, while other threads change them.
ReturnsWhenPerformed ==
  [][\A h \in Host :
       pc'[h] \in {"ready", "destroyLock"} =>
         \A n \in DOMAIN issued[h] :
           \/ Performed(h, n) \/ simDone
           \/ pc[h] \notin {"drain", "syncScan", "streamSync", "destroySync"}
           \/ /\ pc[h] \in {"streamSync", "destroySync"}
              /\ issued[h][n] # target[h]]_vars

\* What the assertions of record_next_done and register_finished_kernel say,
\* m_pending and the kernel at the front of its stream: also while hosts push
\* to that stream, synchronize with it and destroy others.
KernelAtFront ==
  /\ kernel # None => /\ ops[kernel] # << >>
                      /\ Head(ops[kernel]).type = "kernel"
                      /\ kernel \in Alive \union {Zero}
  /\ \A s \in AnyStream : pending[s] <=> s = kernel
  /\ simPc = "run" <=> kernel # None

\* Every call returns, nobody waits for a lock or an operation for ever, unless
\* another host ends the simulation.
CallsReturn ==
  \A h \in Host :
    pc[h] # "ready" ~>
      \/ pc[h] \in {"ready", "exited"} \/ crashed
      \/ \E g \in Host \ {h} : pc[g] \in {"exiting", "exited"}
=============================================================================
