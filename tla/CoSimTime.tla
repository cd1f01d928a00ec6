----------------------------- MODULE CoSimTime ------------------------------
(***************************************************************************)
(* Time and event notification as both SystemC kernels of the bridge use   *)
(* them (alignAtNext and isFullCycle of ScNodeWrapper.h, sc_event).        *)
(* An event is the time of its pending notification, or Never; a delta     *)
(* notification is one for the current time.                               *)
(***************************************************************************)
EXTENDS Integers, Sequences

CONSTANTS CycleTime,  \* cycleTime, 10 ns in the source, in kernel time units
          Message,    \* the (payload, phase) pairs gem5 hands to the bridge
          Never       \* no notification pending

ASSUME TimeAssumption == CycleTime \in Nat \ {0} /\ Never \notin Nat

\* The forward path (requests) and the backward path (responses).
Path == {"fw", "bw"}

\* Mutant of alignAtNext: floor instead of ceil.
alignAtPrevious(time, alignment) == 0 - (time % alignment)

\* ceil(time / alignment) * alignment - time
alignAtNext(time, alignment) == (alignment - (time % alignment)) % alignment

isFullCycle(time, cycleTime) == alignAtNext(time, cycleTime) = 0

\* sc_event::notify at time: an earlier pending notification wins.
Notify(event, time) == IF event = Never \/ time < event THEN time ELSE event

\* fwEvent.notify(alignAtNext(sc_time_stamp(), cycleTime)) and its like.
NotifyAligned(event, time) ==
  Notify(event, time + alignAtNext(time, CycleTime))

EmptyQueues == [p \in Path |-> << >>]

\* q1 followed by q2, on each path.
Followed(q1, q2) == [p \in Path |-> q1[p] \o q2[p]]

Queues == [Path -> Seq(Message)]

\* The states of an event at time: idle, or pending and not in the past.
EventAt(time) == {t \in Nat : t >= time} \union {Never}
=============================================================================
