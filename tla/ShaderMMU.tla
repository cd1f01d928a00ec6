------------------------------ MODULE ShaderMMU -----------------------------
(***************************************************************************)
(* ShaderMMU (shader_mmu.cc) and the ShaderTLBs in front of it             *)
(* (shader_tlb.cc): misses of all shader cores and of the copy engine are  *)
(* sent to a shared L2 TLB, then to a few page walkers; requests for a     *)
(* page that is being walked queue behind the walk. A walk that faults     *)
(* interrupts the CPU, one fault at a time, and is retried when the CPU's  *)
(* handler returns.                                                        *)
(*                                                                         *)
(* A translation is a request, or a prefetch, which is named by its page.  *)
(* An address is its page. Replacement in the TLBs is LRU, here any entry. *)
(* The page walkers are alike: only which translations they hold matters.  *)
(* The page table, the walkers and the CPU are external.                   *)
(***************************************************************************)
EXTENDS Integers, Sequences, FiniteSets

CONSTANTS Request,    \* requests, each made once (bound)
          Page,       \* pages of the address space (bound)
          Tlb,        \* the L1 TLBs
          PageOf,     \* the page a request is for
          TlbOf,      \* the L1 TLB a request is made to: origTLB
          Walkers,    \* pagewalkers.size()
          L1Entries,  \* numEntries of an L1 TLB, 0 is infinite
          L2Entries,  \* l2_tlb_entries, 0 is no L2 TLB
          None        \* no translation: NULL

ASSUME MMUAssumption ==
  /\ Page \subseteq Nat
  /\ Request \intersect Page = {}
  /\ None \notin Request \union Page
  /\ PageOf \in [Request -> Page]
  /\ TlbOf \in [Request -> Tlb]
  /\ Walkers \in Nat \ {0}
  /\ L1Entries \in Nat
  /\ L2Entries \in Nat

Translation == Request \union Page
VPage(t) == IF t \in Page THEN t ELSE PageOf[t]

VARIABLES
  prefetching,       \* prefetch_buffer_size is not 0
  startMisses,       \* startMisses: on their way from an L1 TLB
  outstandingWalks,  \* outstandingWalks, by page
  pendingWalks,      \* pendingWalks: waiting for a walker
  walking,           \* translations in the active walkers
  pendingFaults,     \* pendingFaults
  faultStatus,       \* outstandingFaultStatus
  faultInfo,         \* outstandingFaultInfo
  timeout,           \* faultTimeoutEvent is scheduled
  l1, l2,            \* pages in each ShaderTLB, and in the MMU's tlb
  inFault,           \* external: MISCREG_GPU_FAULT.inFault
  handling,          \* external: the CPU is in the handler of a GPU fault
  mapped,            \* external: pages in the page table
  asked, answers,    \* requests made; how often translation->finish ran
  halted             \* "no", or how gem5 stopped

fault == <<pendingFaults, faultStatus, faultInfo, timeout, inFault>>
vars == <<prefetching, startMisses, outstandingWalks, pendingWalks, walking,
          pendingFaults, faultStatus, faultInfo, timeout, l1, l2, inFault,
          handling, mapped, asked, answers, halted>>

Elements(s) == {s[i] : i \in DOMAIN s}

TypeOK ==
  /\ prefetching \in BOOLEAN
  /\ startMisses \in Seq(Request)
  /\ outstandingWalks \in [Page -> Seq(Translation)]
  /\ pendingWalks \in Seq(Translation)
  /\ walking \in SUBSET Translation
  /\ pendingFaults \in Seq(Translation)
  /\ faultStatus \in {"None", "InKernel", "Retrying"}
  /\ faultInfo \in Translation \union {None}
  /\ timeout \in BOOLEAN
  /\ l1 \in [Tlb -> SUBSET Page] /\ l2 \in SUBSET Page
  /\ inFault \in 0 .. 2 /\ handling \in BOOLEAN
  /\ mapped \in SUBSET Page
  /\ asked \in SUBSET Request /\ answers \in [Request -> Nat]
  /\ halted \in {"no", "panic", "crash"}

-----------------------------------------------------------------------------
(* TLBs. *)

\* Mutant of Lookup: any entry of the way will do.
LookupWay(tlb, p) == tlb # {}

\* TLBMemory::lookup: an entry of the page's way holds the page.
Lookup(tlb, p) == p \in tlb

\* TLBMemory::insert: nothing to do if the page is there, else it takes a free
\* entry or replaces one.
Inserted(tlb, entries, p) ==
  IF Lookup(tlb, p) \/ Cardinality(tlb) < entries
  THEN {tlb \union {p}}
  ELSE {(tlb \ {victim}) \union {p} : victim \in tlb}

L1Inserted(tlb, p) == IF L1Entries = 0 THEN {tlb \union {p}}
                      ELSE Inserted(tlb, L1Entries, p)
L2Inserted(p) == IF L2Entries = 0 THEN {l2} ELSE Inserted(l2, L2Entries, p)

\* The requests rs, all for page p, are finished with the page's address, and
\* the TLBs they came from learn it.
Finish(rs, p) ==
  /\ answers' = [r \in Request |-> answers[r] + IF r \in rs THEN 1 ELSE 0]
  /\ l1' \in [Tlb -> SUBSET Page]
  /\ \A tlb \in Tlb : IF \E r \in rs : TlbOf[r] = tlb
                      THEN l1'[tlb] \in L1Inserted(l1[tlb], p)
                      ELSE l1'[tlb] = l1[tlb]

Init ==
  /\ prefetching \in BOOLEAN
  /\ startMisses = << >>
  /\ outstandingWalks = [p \in Page |-> << >>]
  /\ pendingWalks = << >> /\ walking = {}
  /\ pendingFaults = << >>
  /\ faultStatus = "None" /\ faultInfo = None /\ timeout = FALSE
  /\ l1 = [tlb \in Tlb |-> {}] /\ l2 = {}
  /\ inFault = 0 /\ handling = FALSE
  /\ mapped \in SUBSET Page
  /\ asked = {} /\ answers = [r \in Request |-> 0]
  /\ halted = "no"

\* A shader core or the copy engine asks: a hit is answered at once.
TranslateTiming(r) ==
  /\ halted = "no"
  /\ r \notin asked
  /\ asked' = asked \union {r}
  /\ IF Lookup(l1[TlbOf[r]], PageOf[r])
     THEN /\ answers' = [answers EXCEPT ![r] = @ + 1]
          /\ UNCHANGED startMisses
     ELSE /\ startMisses' = Append(startMisses, r)  \* beginTLBMiss
          /\ UNCHANGED answers
  /\ UNCHANGED <<prefetching, outstandingWalks, pendingWalks, walking, fault,
                 l1, l2, handling, mapped, halted>>

-----------------------------------------------------------------------------
(* Walkers. *)

Free(busy) == Cardinality(busy) < Walkers

\* tryPrefetch, after a walk for page p has been given its walker (busy): the
\* walks it starts, at most one.
Prefetches(p, busy) ==
  {q \in Page : /\ prefetching
                /\ q = p + 1
                /\ Free(busy)
                /\ ~Lookup(l2, q)
                /\ outstandingWalks[q] = << >>}

\* handleTLBMiss: the oldest miss arrives at the MMU. prefetchBuffer is always
\* empty, since no translation has its prefetch flag set (see PrefetchDone).
HandleTLBMiss ==
  LET r == Head(startMisses)
      p == PageOf[r]
  IN
  /\ halted = "no"
  /\ startMisses # << >>
  /\ startMisses' = Tail(startMisses)
  /\ \/ /\ Lookup(l2, p)
        /\ Finish({r}, p)
        /\ UNCHANGED <<outstandingWalks, pendingWalks, walking>>
     \/ /\ ~Lookup(l2, p) /\ outstandingWalks[p] # << >>
        /\ outstandingWalks' = [outstandingWalks EXCEPT ![p] = Append(@, r)]
        /\ UNCHANGED <<pendingWalks, walking, l1, answers>>
     \/ /\ ~Lookup(l2, p) /\ outstandingWalks[p] = << >> /\ ~Free(walking)
        /\ outstandingWalks' = [outstandingWalks EXCEPT ![p] = <<r>>]
        /\ pendingWalks' = Append(pendingWalks, r)
        /\ UNCHANGED <<walking, l1, answers>>
     \/ /\ ~Lookup(l2, p) /\ outstandingWalks[p] = << >> /\ Free(walking)
        /\ LET ahead == Prefetches(p, walking \union {r}) IN
           /\ outstandingWalks' = [q \in Page |->
                CASE q = p -> <<r>>
                  [] q \in ahead -> <<q>>
                  [] OTHER -> outstandingWalks[q]]
           /\ walking' = walking \union {r} \union ahead
        /\ UNCHANGED <<pendingWalks, l1, answers>>
  /\ UNCHANGED <<prefetching, fault, l2, handling, mapped, asked, halted>>

\* Mutant of PassWalkerOn: the waiting walks are not looked at.
PassWalkerOnIdle(t) ==
  walking' = walking \ {t} /\ UNCHANGED pendingWalks

\* Mutant of PassWalkerOn: pop_front is missing.
PassWalkerOnKept(t) ==
  /\ walking' = (walking \ {t}) \union
                  (IF pendingWalks = << >> THEN {} ELSE {Head(pendingWalks)})
  /\ UNCHANGED pendingWalks

\* Mutant of PassWalkerOn: a waiting walk is popped but not started.
PassWalkerOnLost(t) ==
  /\ walking' = walking \ {t}
  /\ pendingWalks' = IF pendingWalks = << >> THEN << >> ELSE Tail(pendingWalks)

\* setWalkerFree, then the oldest waiting walk is given the walker.
PassWalkerOn(t) ==
  IF pendingWalks = << >>
  THEN walking' = walking \ {t} /\ UNCHANGED pendingWalks
  ELSE /\ walking' = (walking \ {t}) \union {Head(pendingWalks)}
       /\ pendingWalks' = Tail(pendingWalks)

\* finalizeTranslation: the walk answers every request for the page.
FinalizeTranslation(t) ==
  LET p == VPage(t) IN
  /\ l2' \in L2Inserted(p)
  /\ Finish(Elements(outstandingWalks[p]), p)
  /\ outstandingWalks' = [outstandingWalks EXCEPT ![p] = << >>]

\* Mutant of Raise: the register counts faults.
RaiseCounted(t) ==
  /\ faultStatus' = "InKernel" /\ faultInfo' = t
  /\ inFault' = inFault + 1
  /\ timeout' = TRUE

\* Mutant of Raise: faultTimeoutEvent is not scheduled.
RaiseUnwatched(t) ==
  /\ faultStatus' = "InKernel" /\ faultInfo' = t
  /\ inFault' = 1
  /\ UNCHANGED timeout

\* raisePageFaultInterrupt, from handlePageFault.
Raise(t) ==
  /\ faultStatus' = "InKernel" /\ faultInfo' = t
  /\ inFault' = 1
  /\ timeout' = TRUE

\* The walk is the retry of the outstanding fault.
IsRetry(t) == faultStatus = "Retrying" /\ VPage(t) = VPage(faultInfo)

\* finishWalk of a page that is mapped.
WalkDone(t) ==
  /\ t \in Request
  /\ VPage(t) \in mapped
  /\ PassWalkerOn(t)
  /\ \/ /\ ~IsRetry(t)
        /\ UNCHANGED fault
     \/ /\ IsRetry(t) /\ pendingFaults = << >>
        /\ faultStatus' = "None" /\ faultInfo' = None /\ inFault' = 0
        /\ UNCHANGED <<pendingFaults, timeout>>
     \/ /\ IsRetry(t) /\ pendingFaults # << >>
        /\ Raise(Head(pendingFaults))
        /\ pendingFaults' = Tail(pendingFaults)
  /\ FinalizeTranslation(t)
  /\ UNCHANGED <<prefetching, startMisses, handling, mapped, asked, halted>>

\* finishWalk of a page that is not mapped: handlePageFault.
WalkFaults(t) ==
  /\ VPage(t) \notin mapped
  /\ ~IsRetry(t)
  /\ PassWalkerOn(t)
  /\ IF faultStatus # "None"
     THEN /\ pendingFaults' = Append(pendingFaults, t)
          /\ UNCHANGED <<faultStatus, faultInfo, timeout, inFault>>
     ELSE Raise(t) /\ UNCHANGED pendingFaults
  /\ UNCHANGED <<prefetching, startMisses, outstandingWalks, l1, l2, handling,
                 mapped, asked, answers, halted>>

Stop(how) ==
  /\ halted' = how
  /\ UNCHANGED <<prefetching, startMisses, outstandingWalks, pendingWalks,
                 walking, fault, l1, l2, handling, mapped, asked, answers>>

\* "GPU encountered another fault for faulted address."
RetryFaults(t) ==
  /\ VPage(t) \notin mapped
  /\ IsRetry(t)
  /\ Stop("panic")

\* tryPrefetch passes its flag in the place of start_tick, so a prefetch is not
\* marked as one: finalizeTranslation uses its origTLB, which is NULL.
PrefetchDone(t) ==
  /\ t \in Page
  /\ t \in mapped
  /\ Stop("crash")

FinishWalk(t) ==
  /\ halted = "no"
  /\ t \in walking
  /\ WalkDone(t) \/ WalkFaults(t) \/ RetryFaults(t) \/ PrefetchDone(t)

-----------------------------------------------------------------------------
(* The CPU. *)

\* The CPU takes the interrupt of a GPU fault and sets inFault to 2.
TakeInterrupt ==
  /\ halted = "no"
  /\ inFault = 1
  /\ inFault' = 2 /\ handling' = TRUE
  /\ UNCHANGED <<prefetching, startMisses, outstandingWalks, pendingWalks,
                 walking, pendingFaults, faultStatus, faultInfo, timeout, l1,
                 l2, mapped, asked, answers, halted>>

\* The operating system maps a page, for the GPU or for a CPU thread.
MapPage(p) ==
  /\ halted = "no"
  /\ p \notin mapped
  /\ mapped' = mapped \union {p}
  /\ UNCHANGED <<prefetching, startMisses, outstandingWalks, pendingWalks,
                 walking, fault, l1, l2, handling, asked, answers, halted>>

\* handleFinishPageFault, at the end of the CPU's handler.
FinishPageFault ==
  /\ halted = "no"
  /\ handling /\ timeout
  /\ timeout' = FALSE
  /\ handling' = FALSE
  /\ faultStatus' = "Retrying"
  /\ IF Free(walking)
     THEN walking' = walking \union {faultInfo} /\ UNCHANGED pendingWalks
     ELSE pendingWalks' = Append(pendingWalks, faultInfo) /\ UNCHANGED walking
  /\ UNCHANGED <<prefetching, startMisses, outstandingWalks, pendingFaults,
                 faultInfo, inFault, l1, l2, mapped, asked, answers, halted>>

\* handleFinishPageFault after a page fault of the CPU itself inside the
\* handler: CR2 holds another address, and nothing but the timeout is changed.
\* The handler of the GPU's fault may still have to return.
FinishWrongFault ==
  /\ halted = "no"
  /\ handling /\ timeout
  /\ timeout' = FALSE
  /\ handling' \in BOOLEAN
  /\ UNCHANGED <<prefetching, startMisses, outstandingWalks, pendingWalks,
                 walking, pendingFaults, faultStatus, faultInfo, inFault, l1,
                 l2, mapped, asked, answers, halted>>

\* "faultTimeoutEvent not scheduled!"
FinishUnwatched ==
  /\ halted = "no"
  /\ handling /\ ~timeout
  /\ Stop("panic")

\* faultTimeout: the CPU has taken too long.
FaultTimeout ==
  /\ halted = "no"
  /\ timeout
  /\ Stop("panic")

Next ==
  \/ \E r \in Request : TranslateTiming(r)
  \/ HandleTLBMiss
  \/ \E t \in Translation : FinishWalk(t)
  \/ TakeInterrupt
  \/ \E p \in Page : MapPage(p)
  \/ FinishPageFault
  \/ FinishWrongFault
  \/ FinishUnwatched
  \/ FaultTimeout

Spec == Init /\ [][Next]_vars

\* Events run, walkers finish, and the CPU takes the interrupt and leaves its
\* handler. It need not map the page.
Fairness ==
  /\ WF_vars(HandleTLBMiss)
  /\ \A t \in Translation : WF_vars(FinishWalk(t))
  /\ WF_vars(TakeInterrupt)
  /\ WF_vars(FinishPageFault)
  /\ WF_vars(FinishUnwatched)

FairSpec == Spec /\ Fairness

-----------------------------------------------------------------------------

\* The translations that make something happen next, by where they are.
Driving == {Elements(pendingWalks), walking, Elements(pendingFaults),
            IF faultStatus = "InKernel" THEN {faultInfo} ELSE {}}

NoRepeats(s) == \A i, j \in DOMAIN s : i # j => s[i] # s[j]

\* Requests for a page that is being translated wait for one of them, the first,
\* and nothing else wakes them: it waits for a walker, is being walked, waits
\* for another fault to be handled or is the fault the CPU handles, exactly one
\* of these, and once. So no page is walked twice at the same time, and none
\* is forgotten.
OneDriverPerPage ==
  /\ \A p \in Page :
       outstandingWalks[p] # << >> =>
         Head(outstandingWalks[p]) \in UNION Driving
  /\ \A t \in UNION Driving :
       /\ outstandingWalks[VPage(t)] # << >>
       /\ t = Head(outstandingWalks[VPage(t)])
  /\ NoRepeats(pendingWalks) /\ NoRepeats(pendingFaults)
  /\ walking \intersect Elements(pendingWalks) = {}
  /\ Elements(pendingFaults) \intersect
       (walking \union Elements(pendingWalks)) = {}
  /\ faultInfo \notin Elements(pendingFaults)
  /\ faultStatus = "InKernel" =>
       faultInfo \notin walking \union Elements(pendingWalks)

\* A walk waits only while every walker is busy, and a walker is never given two
\* walks.
WalkersBusy ==
  /\ Cardinality(walking) <= Walkers
  /\ pendingWalks # << >> => Cardinality(walking) = Walkers

\* The registers and events of the page fault handshake agree with the MMU's
\* status, so the assertions on the way hold: a fault is raised only when the
\* previous one is over, and faults wait only behind one.
FaultHandshake ==
  /\ faultStatus = "None" <=> inFault = 0
  /\ faultStatus = "None" => faultInfo = None /\ pendingFaults = << >>
  /\ timeout => faultStatus = "InKernel"
  /\ inFault = 1 => timeout
  /\ handling => faultStatus = "InKernel" /\ inFault = 2

Abstract == INSTANCE Translator

\* Each request is answered at most once, from the page table.
ImplementsTranslator == Abstract!Spec

\* The fault was given up: its timeout is off and the CPU has left the handler.
FaultDropped == faultStatus = "InKernel" /\ ~timeout /\ ~handling

\* Every request is answered, although requests wait behind one another for the
\* walkers and for one fault at a time, unless gem5 stops or the fault that the
\* CPU handles is dropped.
RequestsAnswered ==
  \A r \in Request :
    ~prefetching /\ r \in asked ~> answers[r] = 1 \/ halted # "no" \/ FaultDropped

\* A fault of a prefetch is not reported to the CPU ("Ignoring since fault on
\* prefetch").
PrefetchFaultsIgnored == faultInfo \notin Page
=============================================================================
