---------------------------- MODULE ScNodeWrapper ---------------------------
(***************************************************************************)
(* The inner SystemC kernel (libscnode.so) with one ScNodeWrapper around a *)
(* Passthrough module.                                                     *)
(*                                                                         *)
(* The kernel runs only inside sc_start, called from ScNodeWrapper::start, *)
(* up to the time "until"; it triggers the processes whose events are due  *)
(* at the end time, but leaves them to the next call.                      *)
(***************************************************************************)
EXTENDS CoSimTime

VARIABLES
  innerNow,      \* sc_time_stamp() of the inner kernel
  until,         \* end time of the current sc_start, Never outside one
  innerFwEvent,  \* fwEvent
  innerBwEvent,  \* bwEvent
  innerIn,       \* gem5ToTlmFwQueue ("fw") and gem5ToTlmBwQueue ("bw")
  innerOut       \* tlmToGem5FwQueue ("fw") and tlmToGem5BwQueue ("bw")

innerVars == <<innerNow, until, innerFwEvent, innerBwEvent, innerIn, innerOut>>

InnerTypeOK ==
  /\ innerNow \in Nat
  /\ until \in Nat \union {Never}
  /\ innerFwEvent \in EventAt(innerNow)
  /\ innerBwEvent \in EventAt(innerNow)
  /\ innerIn \in Queues
  /\ innerOut \in Queues

InnerInit ==
  /\ innerNow = 0
  /\ until = Never
  /\ innerFwEvent = Never
  /\ innerBwEvent = Never
  /\ innerIn = EmptyQueues
  /\ innerOut = EmptyQueues

InKernel == until # Never

\* The kernel executes the process sensitive to this event now.
Runs(event) == InKernel /\ innerNow < until /\ event = innerNow

\* Mutant of Start: fwEvent is not notified.
StartSilently(queue, time) ==
  /\ innerIn' = Followed(innerIn, queue)
  /\ until' = IF time > innerNow THEN time ELSE Never
  /\ UNCHANGED <<innerNow, innerFwEvent, innerBwEvent, innerOut>>

\* gem5ToTlmFwHandler and gem5ToTlmBwHandler for all of queue, then start(time).
Start(queue, time) ==
  /\ innerIn' = Followed(innerIn, queue)
  /\ innerFwEvent' = NotifyAligned(innerFwEvent, innerNow)
  /\ until' = IF time > innerNow THEN time ELSE Never
  /\ UNCHANGED <<innerNow, innerBwEvent, innerOut>>

\* fwClock: every queued pair goes through the sockets and the Passthrough
\* (which forwards nb_transport_fw and nb_transport_bw at once) to
\* nb_transport_fw / nb_transport_bw of this module, which queue it again.
InnerFwClock ==
  /\ Runs(innerFwEvent)
  /\ IF isFullCycle(innerNow, CycleTime)
     THEN /\ innerOut' = Followed(innerOut, innerIn)
          /\ innerIn'  = EmptyQueues
          /\ innerBwEvent' = IF innerIn = EmptyQueues THEN innerBwEvent
                             ELSE NotifyAligned(innerBwEvent, innerNow)
          /\ innerFwEvent' = Never
     ELSE /\ innerFwEvent' = IF innerIn = EmptyQueues THEN Never
                             ELSE NotifyAligned(Never, innerNow)
          /\ UNCHANGED <<innerIn, innerOut, innerBwEvent>>
  /\ UNCHANGED <<innerNow, until>>

\* bwClock: the pairs handed to the two gem5 callbacks.
InnerBwClock ==
  /\ Runs(innerBwEvent)
  /\ IF isFullCycle(innerNow, CycleTime)
     THEN innerOut' = EmptyQueues /\ innerBwEvent' = Never
     ELSE /\ innerBwEvent' = IF innerOut = EmptyQueues THEN Never
                             ELSE NotifyAligned(Never, innerNow)
          /\ UNCHANGED innerOut
  /\ UNCHANGED <<innerNow, until, innerFwEvent, innerIn>>

\* Mutant of HandedOver: make_scnode is given the two callbacks swapped.
HandedOverSwapped ==
  IF isFullCycle(innerNow, CycleTime)
  THEN [p \in Path |-> innerOut[IF p = "fw" THEN "bw" ELSE "fw"]]
  ELSE EmptyQueues

\* What bwClock hands to the callbacks.
HandedOver == IF isFullCycle(innerNow, CycleTime) THEN innerOut ELSE EmptyQueues

\* No process is left to run at this time: advance to the next event, at most
\* to the end time.
InnerAdvance ==
  /\ InKernel /\ innerNow < until
  /\ innerFwEvent # innerNow /\ innerBwEvent # innerNow
  /\ innerNow' = (CHOOSE t \in {until, innerFwEvent, innerBwEvent} \ {Never} :
                    \A u \in {until, innerFwEvent, innerBwEvent} \ {Never} : t <= u)
  /\ UNCHANGED <<until, innerFwEvent, innerBwEvent, innerIn, innerOut>>

\* sc_start returns.
InnerReturn ==
  /\ InKernel /\ innerNow = until
  /\ until' = Never
  /\ UNCHANGED <<innerNow, innerFwEvent, innerBwEvent, innerIn, innerOut>>
=============================================================================
