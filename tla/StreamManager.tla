--------------------------- MODULE StreamManager ----------------------------
(***************************************************************************)
(* stream_manager and CUstream_st of libcuda: streams of operations, from  *)
(* which the simulation thread takes one at a time.                        *)
(*                                                                         *)
(* m_lock of the manager is a variable because destroy_stream keeps it     *)
(* while it waits; every other critical section is one step. m_lock of a   *)
(* stream only makes its own operations atomic. Kernels are simulated      *)
(* functionally (gpgpu_sim::can_start_kernel is always FALSE), so kernel   *)
(* launches from kernels and the limits on cycles and CTAs are left out.   *)
(***************************************************************************)
EXTENDS Integers, Sequences

CONSTANTS Host,            \* threads of the program that uses the runtime
          Stream,          \* the streams it may create
          Zero,            \* m_stream_zero
          None,            \* no host, no stream
          End,             \* m_streams.end()
          LaunchBlocking   \* the values CUDA_LAUNCH_BLOCKING may have

ASSUME RuntimeAssumption ==
  /\ Zero \notin Stream /\ None \notin Stream \union Host /\ End \notin Stream
  /\ None # Zero /\ None # End /\ End # Zero
  /\ LaunchBlocking \subseteq BOOLEAN

VARIABLES
  blocking,  \* m_cuda_launch_blocking, never changed
  streams,   \* m_streams
  last,      \* m_last_stream
  ops,       \* m_operations of every stream
  pending,   \* m_pending of every stream
  mLock,     \* the host that holds m_lock, or None
  kernel,    \* m_functional_sim_kernel: its stream (m_grid_id_to_stream), or None
  performed  \* history: the operations performed, as <<host, number>>

managerVars == <<blocking, streams, last, ops, pending, mLock, kernel, performed>>

AnyStream == Stream \union {Zero}

Alive == {streams[i] : i \in DOMAIN streams}

\* host and num identify an operation: the num-th one of its host. cnt is what
\* a wait waits for, the records of the event that had been issued.
Operation == [type: {"copy", "kernel", "event", "wait"}, host: Host,
              num: Nat \ {0}, cnt: Nat]

ManagerTypeOK ==
  /\ blocking \in LaunchBlocking
  /\ streams \in Seq(Stream)
  /\ last \in Alive \union {End}
  /\ ops \in [AnyStream -> Seq(Operation)]
  /\ pending \in [AnyStream -> BOOLEAN]
  /\ mLock \in Host \union {None}
  /\ kernel \in AnyStream \union {None}
  /\ performed \subseteq Host \X (Nat \ {0})

ManagerInit ==
  /\ blocking \in LaunchBlocking
  /\ streams = << >>
  /\ last = End
  /\ ops = [s \in AnyStream |-> << >>]
  /\ pending = [s \in AnyStream |-> FALSE]
  /\ mLock = None
  /\ kernel = None
  /\ performed = {}

Begin == IF streams = << >> THEN End ELSE Head(streams)

Position(s) == CHOOSE i \in DOMAIN streams : streams[i] = s

\* ++s for an iterator at stream s.
Following(s) ==
  IF Position(s) = Len(streams) THEN End ELSE streams[Position(s) + 1]

ConcurrentStreamsEmpty == \A s \in Alive : ops[s] = << >>

Empty == ConcurrentStreamsEmpty /\ ops[Zero] = << >>

Unlocked == mLock = None

-----------------------------------------------------------------------------
(* front                                                                   *)

\* A stream whose next operation can be taken.
Ready(s) == ops[s] # << >> /\ ~pending[s]

\* m_streams in the order front visits them: after m_last_stream, and around.
Rotation ==
  LET n == Len(streams)
      k == IF last = End THEN 0 ELSE Position(last)
  IN [i \in 1 .. n |-> streams[((k + i - 1) % n) + 1]]

\* front takes its operation from s: stream zero first, whatever the others
\* hold, then the next one in turn.
FrontIs(s) ==
  \/ s = Zero /\ Ready(Zero) /\ UNCHANGED last
  \/ /\ ~Ready(Zero)
     /\ \E i \in DOMAIN Rotation :
          /\ Rotation[i] = s /\ Ready(s)
          /\ \A j \in 1 .. i - 1 : ~Ready(Rotation[j])
     /\ last' = s

\* front visits every stream and takes nothing.
FrontIsNone ==
  /\ \A s \in Alive \union {Zero} : ~Ready(s)
  /\ last' = IF streams = << >> THEN last ELSE Rotation[Len(streams)]

-----------------------------------------------------------------------------
(* do_operation and register_finished_kernel                               *)

\* m_event->num_updates(): a stream_event operation does not call update.
NumUpdates == 0

\* Mutant of RecordNextDone: m_pending stays set.
RecordNextDonePending(s) ==
  /\ performed' = performed \union {<<Head(ops[s]).host, Head(ops[s]).num>>}
  /\ ops' = [ops EXCEPT ![s] = Tail(@)]
  /\ UNCHANGED pending

\* record_next_done
RecordNextDone(s) ==
  /\ performed' = performed \union {<<Head(ops[s]).host, Head(ops[s]).num>>}
  /\ ops' = [ops EXCEPT ![s] = Tail(@)]
  /\ pending' = [pending EXCEPT ![s] = FALSE]

\* Copies and records of an event are performed at once, a kernel is handed to
\* the simulation thread, and a wait whose event is not done is cancelled.
DoOperation(s) ==
  LET op == Head(ops[s])
  IN \/ /\ op.type \in {"copy", "event"}
        /\ RecordNextDone(s)
        /\ UNCHANGED kernel
     \/ /\ op.type = "kernel"
        /\ pending' = [pending EXCEPT ![s] = TRUE]
        /\ kernel' = s
        /\ UNCHANGED <<ops, performed>>
     \/ /\ op.type = "wait"
        /\ IF NumUpdates >= op.cnt THEN RecordNextDone(s)
                                   ELSE UNCHANGED <<ops, pending, performed>>
        /\ UNCHANGED kernel

\* operation(): finished_kernel() never has one to report.
ManagerOperation ==
  /\ Unlocked
  /\ \/ FrontIsNone /\ UNCHANGED <<ops, pending, kernel, performed>>
     \/ \E s \in Alive \union {Zero} : FrontIs(s) /\ DoOperation(s)
  /\ UNCHANGED <<blocking, streams, mLock>>

\* register_finished_kernel, called without m_lock when the functional
\* simulation of the kernel is over; finish_functional_sim.
RegisterFinishedKernel ==
  /\ RecordNextDone(kernel)
  /\ kernel' = None
  /\ UNCHANGED <<blocking, streams, last, mLock>>

-----------------------------------------------------------------------------
(* Called by the hosts.                                                    *)

AddStream(s) ==
  /\ Unlocked
  /\ streams' = Append(streams, s)
  /\ UNCHANGED <<blocking, last, ops, pending, mLock, kernel, performed>>

\* The critical section of push.
Enqueue(s, op) ==
  /\ Unlocked
  /\ ops' = [ops EXCEPT ![s] = Append(@, op)]
  /\ UNCHANGED <<blocking, streams, last, pending, mLock, kernel, performed>>

\* destroy_stream until it has m_lock, and after its wait.
LockToDestroy(h) ==
  /\ Unlocked
  /\ mLock' = h
  /\ UNCHANGED <<blocking, streams, last, ops, pending, kernel, performed>>

\* m_streams without its i-th stream.
Without(i) ==
  [j \in 1 .. Len(streams) - 1 |-> streams[IF j < i THEN j ELSE j + 1]]

\* Mutant of EraseStream: m_last_stream is kept.
EraseStreamLastKept(s) ==
  /\ ops[s] = << >>
  /\ \E i \in DOMAIN streams : streams[i] = s /\ streams' = Without(i)
  /\ mLock' = None
  /\ UNCHANGED <<blocking, last, ops, pending, kernel, performed>>

\* Mutant of EraseStream: m_lock is not released.
EraseStreamLocked(s) ==
  /\ ops[s] = << >>
  /\ \E i \in DOMAIN streams : streams[i] = s /\ streams' = Without(i)
  /\ last' = IF streams' = << >> THEN End ELSE Head(streams')
  /\ UNCHANGED <<blocking, ops, pending, mLock, kernel, performed>>

EraseStream(s) ==
  /\ ops[s] = << >>
  /\ \E i \in DOMAIN streams : streams[i] = s /\ streams' = Without(i)
  /\ last' = IF streams' = << >> THEN End ELSE Head(streams')
  /\ mLock' = None
  /\ UNCHANGED <<blocking, ops, pending, kernel, performed>>
=============================================================================
