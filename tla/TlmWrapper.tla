----------------------------- MODULE TlmWrapper -----------------------------
(***************************************************************************)
(* The bridge between gem5 and a SystemC module: the TlmWrapper in gem5's  *)
(* own SystemC kernel, and the ScNodeWrapper in the kernel that it loads   *)
(* and drives in lockstep.                                                 *)
(*                                                                         *)
(* The simulator is single-threaded: while fwClock is inside scnode_start  *)
(* (InKernel) nothing happens in gem5 except the two callbacks.            *)
(***************************************************************************)
EXTENDS ScNodeWrapper

CONSTANTS LastSend,  \* gem5 starts no transfer after this time (bound)
          MaxSent,   \* transfers per path (bound)
          MaxTime    \* the simulation ends here (bound)

ASSUME BoundAssumption ==
  LastSend \in Nat /\ MaxSent \in Nat /\ MaxTime \in Nat

VARIABLES
  now,        \* sc_time_stamp() of gem5's kernel
  fwEvent,    \* fwEvent
  bwEvent,    \* bwEvent
  outerIn,    \* gem5ToTlmFwQueue ("fw") and gem5ToTlmBwQueue ("bw")
  outerOut,   \* tlmToGem5FwQueue ("fw") and tlmToGem5BwQueue ("bw")
  sent,       \* history: what gem5 passed to nb_transport_fw / nb_transport_bw
  delivered,  \* history: what iSocket / tSocket passed on to gem5
  sentAt      \* history: when each message of sent was passed

outerVars == <<now, fwEvent, bwEvent, outerIn, outerOut>>
history   == <<sent, delivered, sentAt>>
vars      == <<innerVars, outerVars, history>>

TypeOK ==
  /\ InnerTypeOK
  /\ now \in Nat
  /\ fwEvent \in EventAt(now)
  /\ bwEvent \in EventAt(now)
  /\ outerIn \in Queues
  /\ outerOut \in Queues
  /\ sent \in Queues
  /\ delivered \in Queues
  /\ sentAt \in [Path -> Seq(Nat)]

Init ==
  /\ InnerInit
  /\ now = 0
  /\ fwEvent = Never
  /\ bwEvent = Never
  /\ outerIn = EmptyQueues
  /\ outerOut = EmptyQueues
  /\ sent = EmptyQueues
  /\ delivered = EmptyQueues
  /\ sentAt = EmptyQueues

-----------------------------------------------------------------------------

\* Mutant of NbTransport: nb_transport_bw does not notify fwEvent.
NbTransportBwSilent(p, m) ==
  /\ ~InKernel
  /\ now <= LastSend /\ Len(sent[p]) < MaxSent
  /\ outerIn' = [outerIn EXCEPT ![p] = Append(@, m)]
  /\ fwEvent' = IF p = "fw" THEN NotifyAligned(fwEvent, now) ELSE fwEvent
  /\ sent'    = [sent EXCEPT ![p] = Append(@, m)]
  /\ sentAt'  = [sentAt EXCEPT ![p] = Append(@, now)]
  /\ UNCHANGED <<innerVars, now, bwEvent, outerOut, delivered>>

\* nb_transport_fw (path "fw") and nb_transport_bw (path "bw"), called by the
\* gem5 bridges at any time.
NbTransport(p, m) ==
  /\ ~InKernel
  /\ now <= LastSend /\ Len(sent[p]) < MaxSent
  /\ outerIn' = [outerIn EXCEPT ![p] = Append(@, m)]
  /\ fwEvent' = NotifyAligned(fwEvent, now)
  /\ sent'    = [sent EXCEPT ![p] = Append(@, m)]
  /\ sentAt'  = [sentAt EXCEPT ![p] = Append(@, now)]
  /\ UNCHANGED <<innerVars, now, bwEvent, outerOut, delivered>>

\* fwClock: once started it wakes itself every cycle, whatever is queued.
FwClock ==
  /\ ~InKernel
  /\ fwEvent = now
  /\ IF isFullCycle(now, CycleTime)
     THEN /\ Start(outerIn, now)
          /\ outerIn' = EmptyQueues
          /\ fwEvent' = now + CycleTime
     ELSE /\ Start(EmptyQueues, now)
          /\ fwEvent' = NotifyAligned(Never, now)
          /\ UNCHANGED outerIn
  /\ UNCHANGED <<now, bwEvent, outerOut, history>>

\* Inside scnode_start: the two callbacks queue what the inner bwClock hands
\* over and wake the outer bwClock.
InnerStep ==
  \/ /\ InnerFwClock \/ InnerAdvance \/ InnerReturn
     /\ UNCHANGED <<outerVars, history>>
  \/ /\ InnerBwClock
     /\ outerOut' = Followed(outerOut, HandedOver)
     /\ bwEvent'  = IF HandedOver = EmptyQueues THEN bwEvent
                    ELSE NotifyAligned(bwEvent, now)
     /\ UNCHANGED <<now, fwEvent, outerIn, history>>

\* bwClock: everything queued is passed on.
BwClock ==
  /\ ~InKernel
  /\ bwEvent = now
  /\ IF isFullCycle(now, CycleTime)
     THEN /\ delivered' = Followed(delivered, outerOut)
          /\ outerOut' = EmptyQueues
          /\ bwEvent' = Never
     ELSE /\ bwEvent' = IF outerOut = EmptyQueues THEN Never
                        ELSE NotifyAligned(Never, now)
          /\ UNCHANGED <<outerOut, delivered>>
  /\ UNCHANGED <<innerVars, now, fwEvent, outerIn, sent, sentAt>>

\* gem5's kernel has run everything due at this time.
Tick ==
  /\ ~InKernel
  /\ fwEvent # now /\ bwEvent # now
  /\ now < MaxTime
  /\ now' = now + 1
  /\ UNCHANGED <<innerVars, fwEvent, bwEvent, outerIn, outerOut, history>>

Next ==
  \/ \E p \in Path, m \in Message : NbTransport(p, m)
  \/ FwClock
  \/ InnerStep
  \/ BwClock
  \/ Tick

Spec == Init /\ [][Next]_vars

\* Both kernels keep running what is due and time passes; gem5 need not send.
Fairness ==
  WF_vars(FwClock) /\ WF_vars(InnerStep) /\ WF_vars(BwClock) /\ WF_vars(Tick)

FairSpec == Spec /\ Fairness

-----------------------------------------------------------------------------

\* What is still inside the bridge, oldest first.
InFlight(p) == outerOut[p] \o innerOut[p] \o innerIn[p] \o outerIn[p]

\* Nothing is lost, duplicated or reordered on a path: what gem5 passed in is
\* what came out followed by what the four queues hold.
InOrderExactlyOnce == \A p \in Path : sent[p] = delivered[p] \o InFlight(p)

\* A queue that holds something has a wake-up: its own event, or the fwClock
\* that will call start again, no later than the next cycle edge.
NoLostWakeup ==
  ~InKernel =>
    /\ outerIn # EmptyQueues => fwEvent = now + alignAtNext(now, CycleTime)
    /\ innerIn # EmptyQueues \/ innerOut # EmptyQueues =>
         fwEvent # Never /\ fwEvent <= innerNow + CycleTime
    /\ outerOut # EmptyQueues => bwEvent = now

\* A message leaves the bridge within the cycle that follows the first cycle
\* edge after it came in.
BoundedLatency ==
  \A p \in Path : \A i \in Len(delivered[p]) + 1 .. Len(sent[p]) :
    now <= sentAt[p][i] + alignAtNext(sentAt[p][i], CycleTime) + CycleTime

\* Every message gem5 passes in comes out.
AllDelivered ==
  \A p \in Path : \A i \in 1 .. MaxSent :
    Len(sent[p]) >= i ~> Len(delivered[p]) >= i

\* The abstract specification: each path is an unbounded FIFO channel.
FwChannel == INSTANCE FifoChannel WITH
  input <- sent["fw"], output <- delivered["fw"], content <- InFlight("fw")

BwChannel == INSTANCE FifoChannel WITH
  input <- sent["bw"], output <- delivered["bw"], content <- InFlight("bw")

\* Each step of the bridge accepts one message, passes some on in order, or
\* does nothing that gem5 can see.
PathsAreFifoChannels == FwChannel!Spec /\ BwChannel!Spec
=============================================================================
