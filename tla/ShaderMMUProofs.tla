--------------------------- MODULE ShaderMMUProofs --------------------------
(***************************************************************************)
(* For any requests, pages, TLBs and number of walkers: every page that is *)
(* being translated has exactly one translation that drives it on, the     *)
(* MMU's status agrees with the registers of the fault handshake, no walk  *)
(* waits while a walker is free, and, with or without prefetching and      *)
(* whatever faults, a request is answered at most once and only with the   *)
(* address of a page that is mapped.                                       *)
(***************************************************************************)
EXTENDS ShaderMMU, FiniteSetTheorems, TLAPS

\* A queue after an Append.
LEMMA AppendElements ==
  ASSUME NEW S, NEW s \in Seq(S), NEW e \in S
  PROVE  /\ Append(s, e) \in Seq(S) /\ Append(s, e) # << >>
         /\ Elements(Append(s, e)) = Elements(s) \union {e}
         /\ s # << >> => Head(Append(s, e)) = Head(s)
         /\ NoRepeats(s) /\ e \notin Elements(s) => NoRepeats(Append(s, e))
<1> DEFINE q == Append(s, e)
<1>1. /\ q \in Seq(S) /\ Len(q) = Len(s) + 1 /\ Len(s) \in Nat
      /\ DOMAIN q = 1 .. Len(s) + 1 /\ DOMAIN s = 1 .. Len(s)
      /\ \A i \in DOMAIN s : q[i] = s[i]
      /\ q[Len(s) + 1] = e
  OBVIOUS
<1>2. q # << >>
  BY <1>1
<1>3. Elements(q) = Elements(s) \union {e}
  BY <1>1 DEF Elements
<1>4. ASSUME s # << >> PROVE Head(q) = Head(s)
  BY <1>1, <1>4
<1>5. ASSUME NoRepeats(s), e \notin Elements(s) PROVE NoRepeats(q)
  BY <1>1, <1>5 DEF NoRepeats, Elements
<1> QED BY <1>1, <1>2, <1>3, <1>4, <1>5

\* A queue without its head.
LEMMA TailElements ==
  ASSUME NEW S, NEW s \in Seq(S), s # << >>
  PROVE  /\ Head(s) \in S /\ Head(s) \in Elements(s)
         /\ Tail(s) \in Seq(S)
         /\ Elements(s) = Elements(Tail(s)) \union {Head(s)}
         /\ NoRepeats(s) => NoRepeats(Tail(s)) /\ Head(s) \notin Elements(Tail(s))
<1> DEFINE q == Tail(s)
<1>1. /\ q \in Seq(S) /\ Len(s) \in Nat \ {0} /\ Len(q) = Len(s) - 1
      /\ DOMAIN q = 1 .. Len(s) - 1 /\ DOMAIN s = 1 .. Len(s)
      /\ \A i \in DOMAIN q : q[i] = s[i + 1]
      /\ Head(s) = s[1] /\ Head(s) \in S
  OBVIOUS
<1>2. Head(s) \in Elements(s)
  BY <1>1 DEF Elements
<1>3. Elements(s) = Elements(q) \union {Head(s)}
  <2>1. ASSUME NEW x \in Elements(s) PROVE x \in Elements(q) \union {Head(s)}
    <3>1. PICK i \in 1 .. Len(s) : x = s[i]
      BY <1>1 DEF Elements
    <3>2. CASE i = 1
      BY <1>1, <3>1, <3>2
    <3>3. CASE i # 1
      <4>1. i - 1 \in DOMAIN q /\ q[i - 1] = x
        BY <1>1, <3>1, <3>3
      <4> QED BY <4>1 DEF Elements
    <3> QED BY <3>2, <3>3
  <2>2. Elements(q) \subseteq Elements(s)
    BY <1>1 DEF Elements
  <2> QED BY <1>2, <2>1, <2>2
<1>4. ASSUME NoRepeats(s) PROVE NoRepeats(q) /\ Head(s) \notin Elements(q)
  BY <1>1, <1>4 DEF NoRepeats, Elements
<1> QED BY <1>1, <1>2, <1>3, <1>4

LEMMA ElementsIn ==
  ASSUME NEW S, NEW s \in Seq(S) PROVE Elements(s) \subseteq S
BY DEF Elements

\* Every translation is for a page.
LEMMA VPageType ==
  ASSUME NEW t \in Translation
  PROVE  VPage(t) \in Page
BY MMUAssumption DEF VPage, Translation

-----------------------------------------------------------------------------

\* The requests that wait for a page are for that page.
HeadsPaged ==
  \A p \in Page :
    outstandingWalks[p] # << >> => VPage(Head(outstandingWalks[p])) = p

\* An outstanding fault is a translation's.
FaultKnown == faultStatus # "None" => faultInfo \in Translation

Inv == TypeOK /\ FaultHandshake /\ FaultKnown /\ HeadsPaged /\ OneDriverPerPage

Fault == IF faultStatus = "InKernel" THEN {faultInfo} ELSE {}

\* OneDriverPerPage, for its parts.
Driven(walks, waiting, active, faults, current) ==
  LET drivers == waiting \union active \union faults \union current IN
  /\ \A p \in Page : walks[p] # << >> => Head(walks[p]) \in drivers
  /\ \A t \in drivers : walks[VPage(t)] # << >> /\ t = Head(walks[VPage(t)])

Apart ==
  /\ NoRepeats(pendingWalks) /\ NoRepeats(pendingFaults)
  /\ walking \intersect Elements(pendingWalks) = {}
  /\ Elements(pendingFaults) \intersect
       (walking \union Elements(pendingWalks)) = {}
  /\ faultInfo \notin Elements(pendingFaults)
  /\ faultStatus = "InKernel" =>
       faultInfo \notin walking \union Elements(pendingWalks)

DrivenNow == Driven(outstandingWalks, Elements(pendingWalks), walking,
                    Elements(pendingFaults), Fault)

LEMMA OneDriverParts == OneDriverPerPage <=> DrivenNow /\ Apart
<1>1. UNION Driving = Elements(pendingWalks) \union walking
                        \union Elements(pendingFaults) \union Fault
  BY DEF Driving, Fault
<1> QED BY <1>1 DEF OneDriverPerPage, DrivenNow, Driven, Apart

LEMMA OneDriverPartsNext == OneDriverPerPage' <=> DrivenNow' /\ Apart'
BY OneDriverParts, PTL

\* The walker that t gives up goes to a waiting walk.
LEMMA PassedOn ==
  ASSUME TypeOK, Apart, NEW t \in walking, PassWalkerOn(t)
  PROVE  /\ walking' \in SUBSET Translation
         /\ pendingWalks' \in Seq(Translation)
         /\ NoRepeats(pendingWalks')
         /\ walking' \intersect Elements(pendingWalks') = {}
         /\ walking' \union Elements(pendingWalks') =
              (walking \union Elements(pendingWalks)) \ {t}
<1>1. CASE pendingWalks = << >>
  BY <1>1 DEF TypeOK, Apart, PassWalkerOn, Elements
<1>2. CASE pendingWalks # << >>
  <2>1. /\ pendingWalks \in Seq(Translation)
        /\ Head(pendingWalks) \in Translation
        /\ Tail(pendingWalks) \in Seq(Translation)
        /\ Elements(pendingWalks) =
             Elements(Tail(pendingWalks)) \union {Head(pendingWalks)}
        /\ NoRepeats(Tail(pendingWalks))
        /\ Head(pendingWalks) \notin Elements(Tail(pendingWalks))
    BY <1>2, TailElements DEF TypeOK, Apart
  <2>2. /\ walking' = (walking \ {t}) \union {Head(pendingWalks)}
        /\ pendingWalks' = Tail(pendingWalks)
    BY <1>2 DEF PassWalkerOn
  <2> QED BY <2>1, <2>2 DEF TypeOK, Apart
<1> QED BY <1>1, <1>2

\* What Finish and the TLBs' replacement leave well typed.
LEMMA Finished ==
  ASSUME TypeOK, NEW rs, NEW p \in Page, Finish(rs, p)
  PROVE  answers' \in [Request -> Nat] /\ l1' \in [Tlb -> SUBSET Page]
BY DEF TypeOK, Finish

LEMMA L2Type ==
  ASSUME TypeOK, NEW p \in Page PROVE L2Inserted(p) \subseteq SUBSET Page
BY DEF TypeOK, L2Inserted, Inserted

-----------------------------------------------------------------------------

LEMMA InitInv == Init => Inv
<1> SUFFICES ASSUME Init PROVE Inv
  OBVIOUS
<1>1. << >> \in Seq(Request) /\ << >> \in Seq(Translation)
  OBVIOUS
<1>2. Elements(<< >>) = {} /\ NoRepeats(<< >>)
  BY DEF Elements, NoRepeats
<1>3. FaultHandshake /\ FaultKnown /\ HeadsPaged
  BY DEF Init, FaultHandshake, FaultKnown, HeadsPaged
<1>5. TypeOK
  <2>1. /\ outstandingWalks \in [Page -> Seq(Translation)]
        /\ l1 \in [Tlb -> SUBSET Page]
        /\ answers \in [Request -> Nat]
    BY <1>1 DEF Init
  <2>2. inFault \in 0 .. 2 /\ walking = {}
    BY DEF Init
  <2> QED BY <1>1, <2>1, <2>2 DEF Init, TypeOK
<1>4. DrivenNow /\ Apart
  BY <1>2 DEF Init, DrivenNow, Driven, Apart, Fault
<1> QED BY <1>3, <1>4, <1>5, OneDriverParts DEF Inv

\* Steps that move no translation between the MMU's queues.
LEMMA StillDriven ==
  ASSUME Inv, TypeOK', FaultHandshake', FaultKnown',
         UNCHANGED <<outstandingWalks, pendingWalks, walking, pendingFaults,
                     faultStatus, faultInfo>>
  PROVE  Inv'
BY DEF Inv, HeadsPaged, OneDriverPerPage, Driving

LEMMA TranslateTimingInv ==
  ASSUME Inv, NEW r \in Request, TranslateTiming(r) PROVE Inv'
<1>1. startMisses \in Seq(Request) /\ answers \in [Request -> Nat]
  BY DEF Inv, TypeOK
<1>2. Append(startMisses, r) \in Seq(Request)
  BY <1>1
<1>3. [answers EXCEPT ![r] = @ + 1] \in [Request -> Nat]
  BY <1>1
<1>4. startMisses' \in Seq(Request) /\ answers' \in [Request -> Nat]
  BY <1>1, <1>2, <1>3 DEF TranslateTiming
<1>5. TypeOK'
  BY <1>4 DEF TranslateTiming, Inv, TypeOK, fault
<1>6. FaultHandshake' /\ FaultKnown'
  BY DEF TranslateTiming, Inv, FaultHandshake, FaultKnown, fault
<1> QED BY <1>5, <1>6, StillDriven DEF TranslateTiming, fault

LEMMA TakeInterruptInv == ASSUME Inv, TakeInterrupt PROVE Inv'
<1>1. TypeOK'
  BY DEF TakeInterrupt, Inv, TypeOK
<1>2. FaultHandshake' /\ FaultKnown'
  BY DEF TakeInterrupt, Inv, FaultHandshake, FaultKnown
<1> QED BY <1>1, <1>2, StillDriven DEF TakeInterrupt

LEMMA MapPageInv ==
  ASSUME Inv, NEW p \in Page, MapPage(p) PROVE Inv'
<1>1. TypeOK'
  BY DEF MapPage, Inv, TypeOK, fault
<1>2. FaultHandshake' /\ FaultKnown'
  BY DEF MapPage, Inv, FaultHandshake, FaultKnown, fault
<1> QED BY <1>1, <1>2, StillDriven DEF MapPage, fault

LEMMA StopInv ==
  ASSUME Inv, NEW how \in {"panic", "crash"}, Stop(how) PROVE Inv'
<1>1. TypeOK'
  BY DEF Stop, Inv, TypeOK, fault
<1>2. FaultHandshake' /\ FaultKnown'
  BY DEF Stop, Inv, FaultHandshake, FaultKnown, fault
<1> QED BY <1>1, <1>2, StillDriven DEF Stop, fault

LEMMA FinishWrongFaultInv == ASSUME Inv, FinishWrongFault PROVE Inv'
<1>1. TypeOK'
  BY DEF FinishWrongFault, Inv, TypeOK
<1>2. FaultHandshake' /\ FaultKnown'
  BY DEF FinishWrongFault, Inv, FaultHandshake, FaultKnown
<1> QED BY <1>1, <1>2, StillDriven DEF FinishWrongFault

LEMMA StutterInv == ASSUME Inv, UNCHANGED vars PROVE Inv'
<1>1. TypeOK'
  BY DEF vars, Inv, TypeOK
<1>2. FaultHandshake' /\ FaultKnown'
  BY DEF vars, Inv, FaultHandshake, FaultKnown
<1> QED BY <1>1, <1>2, StillDriven DEF vars

-----------------------------------------------------------------------------

\* The retry of a fault takes the fault's place in the queue of walks.
LEMMA FinishPageFaultInv == ASSUME Inv, FinishPageFault PROVE Inv'
<1> DEFINE f == faultInfo
<1>1. /\ faultStatus = "InKernel" /\ inFault = 2 /\ f \in Translation
      /\ TypeOK /\ DrivenNow /\ Apart
  BY OneDriverParts DEF FinishPageFault, Inv, FaultHandshake, FaultKnown
<1>2. /\ walking' \in SUBSET Translation
      /\ pendingWalks' \in Seq(Translation)
      /\ NoRepeats(pendingWalks')
      /\ walking' \intersect Elements(pendingWalks') = {}
      /\ walking' \union Elements(pendingWalks') =
           walking \union Elements(pendingWalks) \union {f}
  <2>1. CASE Free(walking)
    BY <1>1, <2>1 DEF FinishPageFault, TypeOK, Apart
  <2>2. CASE ~Free(walking)
    <3>1. pendingWalks' = Append(pendingWalks, f) /\ walking' = walking
      BY <2>2 DEF FinishPageFault
    <3>2. pendingWalks \in Seq(Translation) /\ f \notin Elements(pendingWalks)
          /\ NoRepeats(pendingWalks)
      BY <1>1 DEF TypeOK, Apart
    <3>3. /\ pendingWalks' \in Seq(Translation)
          /\ Elements(pendingWalks') = Elements(pendingWalks) \union {f}
          /\ NoRepeats(pendingWalks')
      BY <1>1, <3>1, <3>2, AppendElements
    <3> QED BY <1>1, <3>1, <3>2, <3>3 DEF TypeOK, Apart
  <2> QED BY <2>1, <2>2
<1>3. TypeOK'
  BY <1>1, <1>2 DEF FinishPageFault, TypeOK
<1>4. FaultHandshake' /\ FaultKnown'
  BY <1>1 DEF FinishPageFault, Inv, FaultHandshake, FaultKnown
<1>5. HeadsPaged'
  BY DEF FinishPageFault, Inv, HeadsPaged
<1>6. DrivenNow'
  BY <1>1, <1>2 DEF FinishPageFault, DrivenNow, Driven, Fault
<1>7. Apart'
  BY <1>1, <1>2 DEF FinishPageFault, Apart
<1> QED BY <1>3, <1>4, <1>5, <1>6, <1>7, OneDriverPartsNext DEF Inv

Drivers == Elements(pendingWalks) \union walking
             \union Elements(pendingFaults) \union Fault

\* New walks, one for each of some pages that nobody waits for.
LEMMA WalksStart ==
  ASSUME Inv, NEW new \in SUBSET Translation,
         \A t \in new : /\ outstandingWalks[VPage(t)] = << >>
                        /\ outstandingWalks'[VPage(t)] = <<t>>,
         \A q \in Page : (\A t \in new : VPage(t) # q) =>
                          outstandingWalks'[q] = outstandingWalks[q],
         Drivers' = Drivers \union new
  PROVE  /\ new \intersect Drivers = {}
         /\ \A q \in Page : outstandingWalks'[q] \in Seq(Translation)
         /\ HeadsPaged' /\ DrivenNow'
<1>1. /\ TypeOK /\ HeadsPaged /\ DrivenNow
      /\ \A t \in Translation : VPage(t) \in Page
  BY OneDriverParts, VPageType DEF Inv
<1>2. Drivers \subseteq Translation
  BY <1>1, ElementsIn DEF TypeOK, Inv, FaultKnown, Drivers, Fault
<1>3. \A t \in Drivers : /\ outstandingWalks[VPage(t)] # << >>
                         /\ t = Head(outstandingWalks[VPage(t)])
  BY <1>1 DEF DrivenNow, Driven, Drivers
<1>4. \A t \in Translation : /\ <<t>> \in Seq(Translation)
                             /\ <<t>> # << >> /\ Head(<<t>>) = t
  OBVIOUS
<1>5. \A t \in Drivers, u \in new : VPage(t) # VPage(u)
  BY <1>3
<1>6. new \intersect Drivers = {}
  BY <1>5
<1>7. \A q \in Page :
        /\ outstandingWalks'[q] \in Seq(Translation)
        /\ outstandingWalks'[q] # << >> =>
             /\ VPage(Head(outstandingWalks'[q])) = q
             /\ Head(outstandingWalks'[q]) \in Drivers \union new
  <2> SUFFICES ASSUME NEW q \in Page
               PROVE  /\ outstandingWalks'[q] \in Seq(Translation)
                      /\ outstandingWalks'[q] # << >> =>
                           /\ VPage(Head(outstandingWalks'[q])) = q
                           /\ Head(outstandingWalks'[q]) \in Drivers \union new
    OBVIOUS
  <2>1. CASE \A t \in new : VPage(t) # q
    <3>1. outstandingWalks'[q] = outstandingWalks[q]
      BY <2>1
    <3>2. outstandingWalks[q] # << >> => Head(outstandingWalks[q]) \in Drivers
      BY <1>1 DEF DrivenNow, Driven, Drivers
    <3> QED BY <1>1, <3>1, <3>2 DEF TypeOK, HeadsPaged
  <2>2. ASSUME NEW t \in new, VPage(t) = q
        PROVE  /\ outstandingWalks'[q] \in Seq(Translation)
               /\ VPage(Head(outstandingWalks'[q])) = q
               /\ Head(outstandingWalks'[q]) \in Drivers \union new
    BY <1>4, <2>2
  <2> QED BY <2>1, <2>2
<1>8. HeadsPaged'
  BY <1>7 DEF HeadsPaged
<1>9. \A t \in Drivers \union new :
        /\ outstandingWalks'[VPage(t)] # << >>
        /\ t = Head(outstandingWalks'[VPage(t)])
  <2>1. ASSUME NEW t \in Drivers
        PROVE  /\ outstandingWalks'[VPage(t)] # << >>
               /\ t = Head(outstandingWalks'[VPage(t)])
    <3>1. outstandingWalks'[VPage(t)] = outstandingWalks[VPage(t)]
      BY <1>1, <1>2, <1>5
    <3> QED BY <1>3, <3>1
  <2>2. ASSUME NEW t \in new
        PROVE  /\ outstandingWalks'[VPage(t)] # << >>
               /\ t = Head(outstandingWalks'[VPage(t)])
    BY <1>4
  <2> QED BY <2>1, <2>2
<1>10. DrivenNow'
  <2>1. /\ \A q \in Page : outstandingWalks'[q] # << >> =>
              Head(outstandingWalks'[q]) \in Drivers'
        /\ \A t \in Drivers' : /\ outstandingWalks'[VPage(t)] # << >>
                               /\ t = Head(outstandingWalks'[VPage(t)])
    BY <1>7, <1>9
  <2> QED BY <2>1 DEF DrivenNow, Driven, Drivers
<1> QED BY <1>6, <1>7, <1>8, <1>10

\* A miss joins the queue of its page, or starts a walk of a page that nothing
\* drives yet.
LEMMA HandleTLBMissInv == ASSUME Inv, HandleTLBMiss PROVE Inv'
<1> DEFINE r == Head(startMisses)
           p == PageOf[r]
<1>1. /\ TypeOK /\ HeadsPaged /\ DrivenNow /\ Apart
      /\ r \in Request /\ r \in Translation /\ p \in Page /\ VPage(r) = p
      /\ Tail(startMisses) \in Seq(Request)
  <2>1. startMisses \in Seq(Request) /\ startMisses # << >>
    BY DEF HandleTLBMiss, Inv, TypeOK
  <2>2. r \in Request /\ Tail(startMisses) \in Seq(Request)
    BY <2>1
  <2> QED BY <2>2, OneDriverParts, MMUAssumption
          DEF Inv, Translation, VPage
<1>2. /\ startMisses' = Tail(startMisses)
      /\ UNCHANGED <<prefetching, pendingFaults, faultStatus, faultInfo,
                     timeout, inFault, l2, handling, mapped, asked, halted>>
  BY DEF HandleTLBMiss, fault
<1>3. FaultHandshake' /\ FaultKnown' /\ Fault' = Fault
  BY <1>2 DEF Inv, FaultHandshake, FaultKnown, Fault
<1>4. CASE Lookup(l2, p) /\ Finish({r}, p)
           /\ UNCHANGED <<outstandingWalks, pendingWalks, walking>>
  <2>1. TypeOK'
    BY <1>1, <1>2, <1>4, Finished DEF TypeOK
  <2> QED BY <1>2, <1>3, <1>4, <2>1, StillDriven
<1>5. CASE /\ outstandingWalks[p] # << >>
           /\ outstandingWalks' =
                [outstandingWalks EXCEPT ![p] = Append(@, r)]
           /\ UNCHANGED <<pendingWalks, walking, l1, answers>>
  <2>1. outstandingWalks[p] \in Seq(Translation)
    BY <1>1 DEF TypeOK
  <2>2. /\ outstandingWalks'[p] \in Seq(Translation)
        /\ outstandingWalks'[p] # << >>
        /\ Head(outstandingWalks'[p]) = Head(outstandingWalks[p])
    <3>1. outstandingWalks'[p] = Append(outstandingWalks[p], r)
      BY <1>1, <1>5 DEF TypeOK
    <3> QED BY <1>1, <1>5, <2>1, <3>1, AppendElements
  <2>3. \A q \in Page : q # p => outstandingWalks'[q] = outstandingWalks[q]
    BY <1>1, <1>5 DEF TypeOK
  <2>4. TypeOK'
    <3>1. outstandingWalks' \in [Page -> Seq(Translation)]
      BY <1>1, <1>5, <2>1, <2>2 DEF TypeOK
    <3> QED BY <1>1, <1>2, <1>5, <3>1 DEF TypeOK
  <2>5. HeadsPaged'
    BY <1>1, <1>5, <2>2, <2>3 DEF HeadsPaged
  <2>6. DrivenNow'
    BY <1>1, <1>2, <1>3, <1>5, <2>2, <2>3, VPageType DEF DrivenNow, Driven
  <2>7. Apart'
    BY <1>1, <1>2, <1>5 DEF Apart
  <2> QED BY <1>3, <2>4, <2>5, <2>6, <2>7, OneDriverPartsNext DEF Inv
<1>7. CASE /\ outstandingWalks[p] = << >>
           /\ outstandingWalks' = [outstandingWalks EXCEPT ![p] = <<r>>]
           /\ pendingWalks' = Append(pendingWalks, r)
           /\ UNCHANGED <<walking, l1, answers>>
  <2>1. /\ pendingWalks' \in Seq(Translation)
        /\ Elements(pendingWalks') = Elements(pendingWalks) \union {r}
        /\ NoRepeats(pendingWalks) /\ r \notin Elements(pendingWalks) =>
             NoRepeats(pendingWalks')
    BY <1>1, <1>7, AppendElements DEF TypeOK
  <2>2. Drivers' = Drivers \union {r}
    BY <1>2, <1>3, <1>7, <2>1 DEF Drivers
  <2>3. outstandingWalks'[p] = <<r>>
        /\ \A q \in Page : q # p => outstandingWalks'[q] = outstandingWalks[q]
    BY <1>1, <1>7 DEF TypeOK
  <2>4. /\ {r} \intersect Drivers = {}
        /\ \A q \in Page : outstandingWalks'[q] \in Seq(Translation)
        /\ HeadsPaged' /\ DrivenNow'
    <3>1. /\ {r} \in SUBSET Translation
          /\ \A t \in {r} : /\ outstandingWalks[VPage(t)] = << >>
                           /\ outstandingWalks'[VPage(t)] = <<t>>
          /\ \A q \in Page : (\A t \in {r} : VPage(t) # q) =>
                            outstandingWalks'[q] = outstandingWalks[q]
      BY <1>1, <1>7, <2>3
    <3> QED BY <1>1, <2>2, <3>1, WalksStart
  <2>5. outstandingWalks' \in [Page -> Seq(Translation)]
    BY <1>1, <1>7, <2>4 DEF TypeOK
  <2>6. TypeOK'
    BY <1>1, <1>2, <1>7, <2>1, <2>5 DEF TypeOK
  <2>7. Apart'
    BY <1>1, <1>2, <1>7, <2>1, <2>4 DEF Apart, Drivers, Fault
  <2> QED BY <1>3, <2>4, <2>6, <2>7, OneDriverPartsNext DEF Inv
<1>8. CASE /\ outstandingWalks[p] = << >>
           /\ LET ahead == Prefetches(p, walking \union {r}) IN
              /\ outstandingWalks' = [q \in Page |->
                   CASE q = p -> <<r>>
                     [] q \in ahead -> <<q>>
                     [] OTHER -> outstandingWalks[q]]
              /\ walking' = walking \union {r} \union ahead
           /\ UNCHANGED <<pendingWalks, l1, answers>>
  <2> DEFINE ahead == Prefetches(p, walking \union {r})
  <2>1. /\ ahead \subseteq Page
        /\ \A q \in ahead : outstandingWalks[q] = << >> /\ q = p + 1
    BY DEF Prefetches
  <2>2. p \notin ahead
    <3>1. p \in Nat
      BY <1>1, MMUAssumption
    <3>2. p # p + 1
      BY <3>1
    <3> QED BY <2>1, <3>2
  <2>3. \A q \in ahead : q \in Translation /\ VPage(q) = q
    BY <2>1 DEF Translation, VPage
  <2> HIDE DEF ahead
  <2>4. /\ walking' = walking \union {r} \union ahead
        /\ outstandingWalks' = [q \in Page |->
             CASE q = p -> <<r>>
               [] q \in ahead -> <<q>>
               [] OTHER -> outstandingWalks[q]]
    BY <1>8 DEF ahead
  <2>5. /\ outstandingWalks'[p] = <<r>>
        /\ \A q \in ahead : outstandingWalks'[q] = <<q>>
        /\ \A q \in Page \ (ahead \union {p}) :
             outstandingWalks'[q] = outstandingWalks[q]
    BY <1>1, <2>1, <2>2, <2>4
  <2>6. Drivers' = Drivers \union ({r} \union ahead)
    BY <1>2, <1>3, <1>8, <2>4 DEF Drivers
  <2>7. /\ ({r} \union ahead) \intersect Drivers = {}
        /\ \A q \in Page : outstandingWalks'[q] \in Seq(Translation)
        /\ HeadsPaged' /\ DrivenNow'
    <3> DEFINE new == {r} \union ahead
    <3>1. new \in SUBSET Translation
      BY <1>1, <2>3
    <3>2. \A t \in new : /\ outstandingWalks[VPage(t)] = << >>
                         /\ outstandingWalks'[VPage(t)] = <<t>>
      BY <1>1, <1>8, <2>1, <2>3, <2>5
    <3>3. \A q \in Page : (\A t \in new : VPage(t) # q) =>
                          outstandingWalks'[q] = outstandingWalks[q]
      BY <1>1, <2>3, <2>5
    <3> HIDE DEF new
    <3>4. Drivers' = Drivers \union new
      BY <2>6 DEF new
    <3>5. /\ new \intersect Drivers = {}
          /\ \A q \in Page : outstandingWalks'[q] \in Seq(Translation)
          /\ HeadsPaged' /\ DrivenNow'
      BY <3>1, <3>2, <3>3, <3>4, WalksStart
    <3> QED BY <3>5 DEF new
  <2>8. outstandingWalks' \in [Page -> Seq(Translation)]
    BY <2>4, <2>7
  <2>9. TypeOK'
    BY <1>1, <1>2, <1>8, <2>3, <2>4, <2>8 DEF TypeOK
  <2>10. Apart'
    BY <1>1, <1>2, <1>8, <2>4, <2>7 DEF Apart, Drivers, Fault
  <2> QED BY <1>3, <2>7, <2>9, <2>10, OneDriverPartsNext DEF Inv
<1> QED BY <1>4, <1>5, <1>7, <1>8 DEF HandleTLBMiss

\* A finished walk takes every request of its page with it, and nothing else
\* drove that page.
LEMMA WalkDoneInv ==
  ASSUME Inv, NEW t \in walking, WalkDone(t) PROVE Inv'
<1> DEFINE p == VPage(t)
<1>1. /\ TypeOK /\ FaultHandshake /\ FaultKnown /\ HeadsPaged
      /\ DrivenNow /\ Apart
  BY OneDriverParts DEF Inv
<1>2. t \in Translation /\ p \in Page /\ t \in Drivers
  BY <1>1, VPageType DEF TypeOK, Drivers
<1>3. /\ walking' \in SUBSET Translation
      /\ pendingWalks' \in Seq(Translation)
      /\ NoRepeats(pendingWalks')
      /\ walking' \intersect Elements(pendingWalks') = {}
      /\ walking' \union Elements(pendingWalks') =
           (walking \union Elements(pendingWalks)) \ {t}
  BY <1>1, PassedOn DEF WalkDone
\* The faults: unless t was the retry, nothing changes; else the next is raised.
<1>4. /\ FaultHandshake' /\ FaultKnown'
      /\ pendingFaults' \in Seq(Translation)
      /\ NoRepeats(pendingFaults')
      /\ faultStatus' \in {"None", "InKernel", "Retrying"}
      /\ faultInfo' \in Translation \union {None}
      /\ inFault' \in 0 .. 2 /\ timeout' \in BOOLEAN
      /\ Elements(pendingFaults') \union Fault' =
           Elements(pendingFaults) \union Fault
      /\ faultInfo' \notin Elements(pendingFaults')
      /\ faultStatus' = "InKernel" =>
           faultInfo' \notin walking \union Elements(pendingWalks)
  <2>1. UNCHANGED handling
    BY DEF WalkDone
  <2>2. CASE UNCHANGED fault
    BY <1>1, <2>1, <2>2
       DEF fault, TypeOK, FaultHandshake, FaultKnown, Apart, Fault
  <2>3. CASE /\ IsRetry(t) /\ pendingFaults = << >>
             /\ faultStatus' = "None" /\ faultInfo' = None /\ inFault' = 0
             /\ UNCHANGED <<pendingFaults, timeout>>
    <3>1. faultStatus = "Retrying" /\ Elements(pendingFaults) = {}
      BY <2>3 DEF IsRetry, Elements
    <3>2. FaultHandshake' /\ FaultKnown'
      BY <1>1, <2>1, <2>3, <3>1 DEF FaultHandshake, FaultKnown
    <3> QED BY <1>1, <2>3, <3>1, <3>2 DEF TypeOK, Apart, Fault
  <2>4. CASE /\ IsRetry(t) /\ pendingFaults # << >>
             /\ Raise(Head(pendingFaults))
             /\ pendingFaults' = Tail(pendingFaults)
    <3>1. faultStatus = "Retrying"
      BY <2>4 DEF IsRetry
    <3>2. /\ Head(pendingFaults) \in Translation
          /\ Head(pendingFaults) \in Elements(pendingFaults)
          /\ pendingFaults' \in Seq(Translation)
          /\ Elements(pendingFaults) =
               Elements(pendingFaults') \union {Head(pendingFaults)}
          /\ NoRepeats(pendingFaults')
          /\ Head(pendingFaults) \notin Elements(pendingFaults')
      BY <1>1, <2>4, TailElements DEF TypeOK, Apart
    <3>3. /\ faultStatus' = "InKernel" /\ faultInfo' = Head(pendingFaults)
          /\ inFault' = 1 /\ timeout' = TRUE
      BY <2>4 DEF Raise
    <3>4. FaultHandshake' /\ FaultKnown'
      BY <1>1, <2>1, <3>1, <3>2, <3>3 DEF FaultHandshake, FaultKnown
    <3>5. Fault = {} /\ Fault' = {Head(pendingFaults)}
      BY <3>1, <3>3 DEF Fault
    <3> QED BY <1>1, <3>2, <3>3, <3>4, <3>5 DEF Apart
  <2> QED BY <2>2, <2>3, <2>4 DEF WalkDone
<1>5. /\ outstandingWalks' = [outstandingWalks EXCEPT ![p] = << >>]
      /\ UNCHANGED <<prefetching, startMisses, handling, mapped, asked, halted>>
      /\ answers' \in [Request -> Nat] /\ l1' \in [Tlb -> SUBSET Page]
      /\ l2' \in SUBSET Page
  BY <1>1, <1>2, Finished, L2Type DEF WalkDone, FinalizeTranslation
<1>6. /\ outstandingWalks' \in [Page -> Seq(Translation)]
      /\ outstandingWalks'[p] = << >>
      /\ \A q \in Page : q # p => outstandingWalks'[q] = outstandingWalks[q]
  BY <1>1, <1>2, <1>5 DEF TypeOK
<1>7. TypeOK'
  BY <1>1, <1>3, <1>4, <1>5, <1>6 DEF TypeOK
<1>8. HeadsPaged'
  BY <1>1, <1>6 DEF HeadsPaged
<1>9. t \notin Elements(pendingFaults) \union Fault
  BY <1>1 DEF Apart, Fault
<1>10. Drivers' = Drivers \ {t}
  BY <1>3, <1>4, <1>9 DEF Drivers
<1>11. DrivenNow'
  <2>1. \A d \in Drivers : /\ VPage(d) \in Page
                           /\ outstandingWalks[VPage(d)] # << >>
                           /\ d = Head(outstandingWalks[VPage(d)])
    BY <1>1, VPageType, ElementsIn
       DEF DrivenNow, Driven, Drivers, TypeOK, FaultKnown, Fault
  <2>2. \A d \in Drivers' : /\ outstandingWalks'[VPage(d)] # << >>
                            /\ d = Head(outstandingWalks'[VPage(d)])
    BY <1>2, <1>6, <1>10, <2>1
  <2>3. \A q \in Page : outstandingWalks'[q] # << >> =>
          Head(outstandingWalks'[q]) \in Drivers'
    <3> SUFFICES ASSUME NEW q \in Page, outstandingWalks'[q] # << >>
                 PROVE  Head(outstandingWalks'[q]) \in Drivers'
      OBVIOUS
    <3>1. q # p /\ outstandingWalks'[q] = outstandingWalks[q]
      BY <1>6
    <3>2. VPage(Head(outstandingWalks[q])) = q
      BY <1>1, <3>1 DEF HeadsPaged
    <3>3. Head(outstandingWalks[q]) \in Drivers
      BY <1>1, <3>1 DEF DrivenNow, Driven, Drivers
    <3> QED BY <1>10, <3>1, <3>2, <3>3
  <2> QED BY <2>2, <2>3 DEF DrivenNow, Driven, Drivers
<1>12. Apart'
  <2>1. Elements(pendingFaults') \intersect
          (walking \union Elements(pendingWalks)) = {}
    BY <1>1, <1>4 DEF Apart, Fault
  <2> QED BY <1>3, <1>4, <2>1 DEF Apart
<1> QED BY <1>4, <1>7, <1>8, <1>11, <1>12, OneDriverPartsNext DEF Inv

\* A walk that faults goes from its walker to the CPU, or behind the fault that
\* the CPU handles; it keeps its page.
LEMMA WalkFaultsInv ==
  ASSUME Inv, NEW t \in walking, WalkFaults(t) PROVE Inv'
<1>1. /\ TypeOK /\ FaultHandshake /\ FaultKnown /\ HeadsPaged
      /\ DrivenNow /\ Apart
  BY OneDriverParts DEF Inv
<1>2. t \in Translation
  BY <1>1 DEF TypeOK
<1>3. /\ walking' \in SUBSET Translation
      /\ pendingWalks' \in Seq(Translation)
      /\ NoRepeats(pendingWalks')
      /\ walking' \intersect Elements(pendingWalks') = {}
      /\ walking' \union Elements(pendingWalks') =
           (walking \union Elements(pendingWalks)) \ {t}
  BY <1>1, PassedOn DEF WalkFaults
<1>4. UNCHANGED <<prefetching, startMisses, outstandingWalks, l1, l2, handling,
                  mapped, asked, answers, halted>>
  BY DEF WalkFaults
<1>5. /\ FaultHandshake' /\ FaultKnown'
      /\ pendingFaults' \in Seq(Translation)
      /\ NoRepeats(pendingFaults')
      /\ faultStatus' \in {"None", "InKernel", "Retrying"}
      /\ faultInfo' \in Translation \union {None}
      /\ inFault' \in 0 .. 2 /\ timeout' \in BOOLEAN
      /\ Elements(pendingFaults') \union Fault' =
           Elements(pendingFaults) \union Fault \union {t}
      /\ faultInfo' \notin Elements(pendingFaults')
      /\ Elements(pendingFaults') \subseteq Elements(pendingFaults) \union {t}
      /\ faultStatus' = "InKernel" => faultInfo' = t \/ Fault' = Fault
  <2>1. CASE faultStatus # "None"
    <3>1. /\ pendingFaults' = Append(pendingFaults, t)
          /\ UNCHANGED <<faultStatus, faultInfo, timeout, inFault>>
      BY <2>1 DEF WalkFaults
    <3>2. pendingFaults \in Seq(Translation) /\ NoRepeats(pendingFaults)
          /\ t \notin Elements(pendingFaults)
      BY <1>1 DEF TypeOK, Apart
    <3>3. /\ pendingFaults' \in Seq(Translation)
          /\ Elements(pendingFaults') = Elements(pendingFaults) \union {t}
          /\ NoRepeats(pendingFaults')
      BY <1>2, <3>1, <3>2, AppendElements
    <3>4. t # faultInfo
      <4>1. CASE faultStatus = "InKernel"
        BY <1>1, <4>1 DEF Apart
      <4>2. CASE faultStatus = "Retrying"
        BY <4>2 DEF WalkFaults, IsRetry
      <4> QED BY <1>1, <2>1, <4>1, <4>2 DEF TypeOK
    <3>5. FaultHandshake' /\ FaultKnown'
      BY <1>1, <1>4, <2>1, <3>1 DEF FaultHandshake, FaultKnown
    <3>6. Fault' = Fault
      BY <3>1 DEF Fault
    <3> QED BY <1>1, <3>1, <3>3, <3>4, <3>5, <3>6 DEF TypeOK, Apart
  <2>2. CASE faultStatus = "None"
    <3>1. /\ faultStatus' = "InKernel" /\ faultInfo' = t
          /\ inFault' = 1 /\ timeout' = TRUE /\ UNCHANGED pendingFaults
      BY <2>2 DEF WalkFaults, Raise
    <3>2. pendingFaults = << >> /\ Elements(pendingFaults) = {}
      BY <1>1, <2>2 DEF FaultHandshake, Elements
    <3>3. FaultHandshake' /\ FaultKnown'
      BY <1>1, <1>2, <1>4, <2>2, <3>1 DEF FaultHandshake, FaultKnown
    <3>4. Fault = {} /\ Fault' = {t}
      BY <2>2, <3>1 DEF Fault
    <3> QED BY <1>1, <1>2, <3>1, <3>2, <3>3, <3>4 DEF TypeOK, Apart
  <2> QED BY <2>1, <2>2
<1>6. TypeOK'
  BY <1>1, <1>3, <1>4, <1>5 DEF TypeOK
<1>7. HeadsPaged'
  BY <1>1, <1>4 DEF HeadsPaged
<1>8. Drivers' = Drivers
  <2>1. t \in walking \union Elements(pendingWalks)
    OBVIOUS
  <2> QED BY <1>3, <1>5, <2>1 DEF Drivers
<1>9. DrivenNow'
  BY <1>1, <1>4, <1>8 DEF DrivenNow, Driven, Drivers
<1>10. Apart'
  <2>1. Elements(pendingFaults') \intersect
          (walking' \union Elements(pendingWalks')) = {}
    BY <1>1, <1>3, <1>5 DEF Apart
  <2>2. faultStatus' = "InKernel" =>
          faultInfo' \notin walking' \union Elements(pendingWalks')
    BY <1>1, <1>3, <1>5 DEF Apart, Fault
  <2> QED BY <1>3, <1>5, <2>1, <2>2 DEF Apart
<1> QED BY <1>5, <1>6, <1>7, <1>9, <1>10, OneDriverPartsNext DEF Inv

LEMMA FinishWalkInv ==
  ASSUME Inv, NEW t \in Translation, FinishWalk(t) PROVE Inv'
<1>1. CASE WalkDone(t)
  BY <1>1, WalkDoneInv DEF FinishWalk
<1>2. CASE WalkFaults(t)
  BY <1>2, WalkFaultsInv DEF FinishWalk
<1>3. CASE RetryFaults(t)
  BY <1>3, StopInv DEF RetryFaults
<1>4. CASE PrefetchDone(t)
  BY <1>4, StopInv DEF PrefetchDone
<1> QED BY <1>1, <1>2, <1>3, <1>4 DEF FinishWalk

LEMMA NextInv == Inv /\ [Next]_vars => Inv'
<1> SUFFICES ASSUME Inv, [Next]_vars PROVE Inv'
  OBVIOUS
<1>1. ASSUME NEW r \in Request, TranslateTiming(r) PROVE Inv'
  BY <1>1, TranslateTimingInv
<1>2. CASE HandleTLBMiss
  BY <1>2, HandleTLBMissInv
<1>3. ASSUME NEW t \in Translation, FinishWalk(t) PROVE Inv'
  BY <1>3, FinishWalkInv
<1>4. CASE TakeInterrupt
  BY <1>4, TakeInterruptInv
<1>5. ASSUME NEW p \in Page, MapPage(p) PROVE Inv'
  BY <1>5, MapPageInv
<1>6. CASE FinishPageFault
  BY <1>6, FinishPageFaultInv
<1>7. CASE FinishWrongFault
  BY <1>7, FinishWrongFaultInv
<1>8. CASE FinishUnwatched
  BY <1>8, StopInv DEF FinishUnwatched
<1>9. CASE FaultTimeout
  BY <1>9, StopInv DEF FaultTimeout
<1>10. CASE UNCHANGED vars
  BY <1>10, StutterInv
<1> QED BY <1>1, <1>2, <1>3, <1>4, <1>5, <1>6, <1>7, <1>8, <1>9, <1>10 DEF Next

\* The invariant that the theorems below rest on.
THEOREM MMUInvariant == Spec => []Inv
<1> QED BY InitInv, NextInv, PTL DEF Spec

\* The state of the MMU is well typed, so at most one fault is outstanding and
\* the fault registers hold only the values the handshake gives them.
THEOREM MMUTypes == Spec => []TypeOK
<1>1. Inv => TypeOK
  BY DEF Inv
<1> QED BY <1>1, MMUInvariant, PTL

\* However many requests, pages, walkers and TLBs there are: of the requests that
\* wait for a page (handleTLBMiss queues them, finalizeTranslation answers them
\* all) the first, and only it, is with a walker, waiting for one, or waiting
\* for the CPU, and it is there once.
THEOREM OneDriver == Spec => []OneDriverPerPage
<1>1. Inv => OneDriverPerPage
  BY DEF Inv
<1> QED BY <1>1, MMUInvariant, PTL

\* The assertions of raisePageFaultInterrupt, finishWalk and
\* handleFinishPageFault about outstandingFaultStatus and the registers hold.
THEOREM Handshake == Spec => []FaultHandshake
<1>1. Inv => FaultHandshake
  BY DEF Inv
<1> QED BY <1>1, MMUInvariant, PTL
-----------------------------------------------------------------------------

WInv == IsFiniteSet(walking) /\ WalkersBusy

\* A walker that is passed on stays busy.
LEMMA PassWalkerOnBusy ==
  ASSUME Inv, WInv, NEW t \in walking, PassWalkerOn(t) PROVE WInv'
<1> DEFINE rest == walking \ {t}
<1>1. /\ IsFiniteSet(rest) /\ Cardinality(rest) = Cardinality(walking) - 1
      /\ Cardinality(walking) \in Nat /\ Cardinality(rest) \in Nat
      /\ Cardinality(walking) <= Walkers /\ Walkers \in Nat
  BY FS_RemoveElement, FS_CardinalityType, MMUAssumption
     DEF WInv, WalkersBusy
<1>2. CASE pendingWalks = << >>
  <2>1. walking' = rest /\ pendingWalks' = << >>
    BY <1>2 DEF PassWalkerOn
  <2>2. Cardinality(rest) <= Walkers
    BY <1>1
  <2> QED BY <1>1, <2>1, <2>2 DEF WInv, WalkersBusy
<1>3. CASE pendingWalks # << >>
  <2> DEFINE next == Head(pendingWalks)
  <2>1. next \notin rest
    BY <1>3, TailElements, OneDriverParts DEF Inv, TypeOK, Apart
  <2>2. walking' = rest \union {next}
    BY <1>3 DEF PassWalkerOn
  <2>3. /\ IsFiniteSet(walking')
        /\ Cardinality(walking') = Cardinality(rest) + 1
    BY <1>1, <2>1, <2>2, FS_AddElement
  <2>4. Cardinality(walking) = Walkers
    BY <1>3 DEF WInv, WalkersBusy
  <2> QED BY <1>1, <2>3, <2>4 DEF WInv, WalkersBusy
<1> QED BY <1>2, <1>3

\* A free walker can be given one more walk.
LEMMA WalkerTaken ==
  ASSUME NEW busy, NEW t, IsFiniteSet(busy), Free(busy)
  PROVE  /\ IsFiniteSet(busy \union {t})
         /\ Cardinality(busy \union {t}) <= Walkers
<1>1. Cardinality(busy) \in Nat /\ Cardinality(busy) < Walkers
  BY FS_CardinalityType DEF Free
<1>2. /\ IsFiniteSet(busy \union {t})
      /\ Cardinality(busy \union {t}) =
           IF t \in busy THEN Cardinality(busy) ELSE Cardinality(busy) + 1
  BY FS_AddElement
<1>3. Walkers \in Nat
  BY MMUAssumption
<1> QED BY <1>1, <1>2, <1>3

LEMMA HandleTLBMissBusy == ASSUME Inv, WInv, HandleTLBMiss PROVE WInv'
<1> DEFINE r == Head(startMisses)
           p == PageOf[r]
<1>1. CASE UNCHANGED <<pendingWalks, walking>>
  BY <1>1 DEF WInv, WalkersBusy
<1>2. CASE ~Free(walking) /\ UNCHANGED walking
  <2>1. Cardinality(walking) \in Nat /\ Walkers \in Nat
    BY FS_CardinalityType, MMUAssumption DEF WInv
  <2> QED BY <1>2, <2>1 DEF Free, WInv, WalkersBusy
<1>3. CASE /\ Free(walking) /\ UNCHANGED pendingWalks
           /\ walking' = walking \union {r}
                           \union Prefetches(p, walking \union {r})
  <2> DEFINE ahead == Prefetches(p, walking \union {r})
  <2>1. pendingWalks = << >>
    <3>1. Cardinality(walking) < Walkers /\ Walkers \in Nat
      BY <1>3, MMUAssumption DEF Free
    <3> QED BY <3>1 DEF WInv, WalkersBusy
  <2>2. /\ IsFiniteSet(walking \union {r})
        /\ Cardinality(walking \union {r}) <= Walkers
    BY <1>3, WalkerTaken DEF WInv
  <2>3. CASE ahead = {}
    BY <1>3, <2>1, <2>2, <2>3 DEF WInv, WalkersBusy
  <2>4. CASE ahead # {}
    <3>1. Free(walking \union {r}) /\ ahead = {p + 1}
      BY <2>4 DEF Prefetches
    <3>2. walking' = (walking \union {r}) \union {p + 1}
      BY <1>3, <3>1
    <3>3. IsFiniteSet(walking') /\ Cardinality(walking') <= Walkers
      BY <2>2, <3>1, <3>2, WalkerTaken
    <3> QED BY <1>3, <2>1, <3>3 DEF WInv, WalkersBusy
  <2> QED BY <2>3, <2>4
<1> QED BY <1>1, <1>2, <1>3 DEF HandleTLBMiss

LEMMA FinishPageFaultBusy == ASSUME Inv, WInv, FinishPageFault PROVE WInv'
<1>1. Cardinality(walking) \in Nat /\ Walkers \in Nat
  BY FS_CardinalityType, MMUAssumption DEF WInv
<1>2. CASE Free(walking)
  <2>1. pendingWalks = << >>
    BY <1>1, <1>2 DEF Free, WInv, WalkersBusy
  <2>2. /\ walking' = walking \union {faultInfo}
        /\ UNCHANGED pendingWalks
    BY <1>2 DEF FinishPageFault
  <2>3. IsFiniteSet(walking') /\ Cardinality(walking') <= Walkers
    BY <1>2, <2>2, WalkerTaken DEF WInv
  <2> QED BY <2>1, <2>2, <2>3 DEF WInv, WalkersBusy
<1>3. CASE ~Free(walking)
  BY <1>1, <1>3 DEF Free, FinishPageFault, WInv, WalkersBusy
<1> QED BY <1>2, <1>3

LEMMA BusyInv == Inv /\ WInv /\ [Next]_vars => WInv'
<1> SUFFICES ASSUME Inv, WInv, [Next]_vars PROVE WInv'
  OBVIOUS
<1>1. CASE UNCHANGED <<pendingWalks, walking>>
  BY <1>1 DEF WInv, WalkersBusy
<1>2. ASSUME NEW t \in Translation, FinishWalk(t) PROVE WInv'
  <2>1. CASE PassWalkerOn(t)
    BY <1>2, <2>1, PassWalkerOnBusy DEF FinishWalk
  <2>2. CASE \E how : Stop(how)
    BY <1>1, <2>2 DEF Stop
  <2> QED BY <1>2, <2>1, <2>2
          DEF FinishWalk, WalkDone, WalkFaults, RetryFaults, PrefetchDone
<1> QED BY <1>1, <1>2, HandleTLBMissBusy, FinishPageFaultBusy
        DEF Next, TranslateTiming, TakeInterrupt, MapPage, FinishWrongFault,
            FinishUnwatched, FaultTimeout, Stop, vars

\* For any number of walkers: setWalkerFree, getFreeWalker and pendingWalks never
\* leave a walk waiting while a walker is free, nor give a walker two walks.
THEOREM Busy == Spec => []WalkersBusy
<1>1. Init => WInv
  BY FS_EmptySet, MMUAssumption DEF Init, WInv, WalkersBusy
<1>2. WInv => WalkersBusy
  BY DEF WInv
<1> QED BY <1>1, <1>2, BusyInv, MMUInvariant, PTL DEF Spec

-----------------------------------------------------------------------------
(* The answers: the MMU implements Translator.                             *)

\* The requests that wait in the MMU for page p.
WaitingFor(p) == Elements(outstandingWalks[p]) \intersect Request

\* A request that was made is answered or waits, in the queue of misses or in
\* that of its page.
Unanswered == {r \in asked : answers[r] = 0}
Queues ==
  /\ \A r \in Request : r \notin asked => answers[r] = 0
  /\ Elements(startMisses) \subseteq Unanswered
  /\ NoRepeats(startMisses)
  /\ \A p \in Page : /\ WaitingFor(p) \subseteq Unanswered
                     /\ \A r \in WaitingFor(p) : PageOf[r] = p
                     /\ WaitingFor(p) \intersect Elements(startMisses) = {}

\* The TLBs hold only pages that are mapped.
TLBsMapped ==
  /\ \A tlb \in Tlb : l1[tlb] \subseteq mapped
  /\ l2 \subseteq mapped

AInv == TypeOK /\ Queues /\ TLBsMapped

LEMMA InitAInv == Init => AInv
<1> SUFFICES ASSUME Init PROVE AInv
  OBVIOUS
<1>1. TypeOK
  BY InitInv DEF Inv
<1>2. Elements(<< >>) = {} /\ NoRepeats(<< >>)
  BY DEF Elements, NoRepeats
<1>3. Queues
  BY <1>2 DEF Init, Queues, WaitingFor, Unanswered
<1>4. TLBsMapped
  BY DEF Init, TLBsMapped
<1> QED BY <1>1, <1>3, <1>4 DEF AInv

\* Steps that answer nobody and leave the queues alone.
LEMMA StillQueued ==
  ASSUME AInv, TypeOK', mapped \subseteq mapped',
         UNCHANGED <<startMisses, outstandingWalks, asked, answers, l1, l2>>
  PROVE  AInv'
<1>1. Queues'
  BY DEF AInv, Queues, WaitingFor, Unanswered
<1>2. TLBsMapped'
  BY DEF AInv, TLBsMapped
<1> QED BY <1>1, <1>2 DEF AInv

\* What Finish does to the answers and the TLBs.
LEMMA FinishEffect ==
  ASSUME AInv, NEW rs, NEW p \in mapped, Finish(rs, p),
         UNCHANGED <<mapped, asked>>,
         NEW waiting, waiting = rs \intersect Request,
         waiting \subseteq Unanswered,
         \A r \in waiting : PageOf[r] = p
  PROVE  /\ Abstract!Answer(p, waiting)
         /\ \A tlb \in Tlb : l1'[tlb] \subseteq mapped
         /\ Unanswered' = Unanswered \ waiting
         /\ \A r \in Request : r \notin asked => answers'[r] = 0
<1>1. TypeOK /\ asked \subseteq Request /\ answers \in [Request -> Nat]
  BY DEF AInv, TypeOK
<1>2. answers' = [r \in Request |-> answers[r] + IF r \in rs THEN 1 ELSE 0]
  BY DEF Finish
<1>3. \A r \in Request : answers'[r] = IF r \in waiting
                                       THEN 1 ELSE answers[r]
  BY <1>1, <1>2 DEF Unanswered
<1>4. answers' = [r \in Request |-> IF r \in waiting
                                    THEN 1 ELSE answers[r]]
  BY <1>2, <1>3
<1>5. Abstract!Answer(p, waiting)
  BY <1>1, <1>4 DEF Abstract!Answer, Abstract!Waiting, Unanswered
<1>6. ASSUME NEW tlb \in Tlb PROVE l1'[tlb] \subseteq mapped
  <2>1. l1[tlb] \subseteq mapped
    BY DEF AInv, TLBsMapped
  <2>2. l1'[tlb] = l1[tlb] \/ l1'[tlb] \in L1Inserted(l1[tlb], p)
    BY DEF Finish
  <2> QED BY <2>1, <2>2 DEF L1Inserted, Inserted
<1>7. Unanswered' = Unanswered \ waiting
  BY <1>1, <1>3 DEF Unanswered
<1>8. \A r \in Request : r \notin asked => answers'[r] = 0
  BY <1>3 DEF AInv, Queues, Unanswered
<1> QED BY <1>5, <1>6, <1>7, <1>8

-----------------------------------------------------------------------------

\* A request is made: a hit is answered, a miss is queued.
LEMMA TranslateTimingStep ==
  ASSUME AInv, TypeOK', NEW r \in Request, TranslateTiming(r)
  PROVE  AInv' /\ Abstract!Next
<1> DEFINE p == PageOf[r]
<1>1. /\ TypeOK /\ Queues /\ TLBsMapped
      /\ r \notin asked /\ asked' = asked \union {r}
      /\ UNCHANGED <<outstandingWalks, l1, l2, mapped>>
      /\ p \in Page /\ answers[r] = 0 /\ TlbOf[r] \in Tlb
      /\ startMisses \in Seq(Request) /\ answers \in [Request -> Nat]
      /\ r \notin Unanswered /\ asked \subseteq Request
  BY MMUAssumption
     DEF AInv, Queues, TypeOK, Unanswered, TranslateTiming
<1>2. TLBsMapped'
  BY <1>1 DEF TLBsMapped
<1>3. CASE Lookup(l1[TlbOf[r]], p)
  <2>1. /\ startMisses' = startMisses
        /\ answers' = [answers EXCEPT ![r] = @ + 1]
    BY <1>3 DEF TranslateTiming
  <2>2. /\ answers' = [x \in Request |-> IF x \in {r} THEN 1 ELSE answers[x]]
        /\ \A x \in Request : answers'[x] = IF x = r THEN 1 ELSE answers[x]
    <3>1. answers' \in [Request -> Nat] /\ answers'[r] = 0 + 1
      BY <1>1, <2>1
    <3>2. \A x \in Request : x # r => answers'[x] = answers[x]
      BY <1>1, <2>1
    <3> QED BY <3>1, <3>2
  <2>3. p \in mapped
    BY <1>1, <1>3 DEF Lookup, TLBsMapped
  <2>4. Abstract!Answer(p, {r})
    BY <1>1, <2>2, <2>3 DEF Abstract!Answer, Abstract!Waiting
  <2>5. Unanswered' = Unanswered
    BY <1>1, <2>2 DEF Unanswered
  <2>6. Queues'
    BY <1>1, <2>1, <2>2, <2>5 DEF Queues, WaitingFor
  <2> QED BY <1>1, <1>2, <2>4, <2>6 DEF AInv, Abstract!Next
<1>4. CASE ~Lookup(l1[TlbOf[r]], p)
  <2>1. startMisses' = Append(startMisses, r) /\ answers' = answers
    BY <1>4 DEF TranslateTiming
  <2>2. Abstract!Ask(r)
    BY <1>1, <2>1 DEF Abstract!Ask
  <2>3. Unanswered' = Unanswered \union {r}
    BY <1>1, <2>1 DEF Unanswered
  <2>4. r \notin Elements(startMisses)
    BY <1>1 DEF Queues
  <2>5. /\ Elements(startMisses') = Elements(startMisses) \union {r}
        /\ NoRepeats(startMisses')
    BY <1>1, <2>1, <2>4, AppendElements DEF Queues
  <2>6. Queues'
    BY <1>1, <2>1, <2>3, <2>5 DEF Queues, WaitingFor
  <2> QED BY <1>2, <2>2, <2>6 DEF AInv, Abstract!Next
<1> QED BY <1>3, <1>4

\* A miss that leaves the queue of misses without an answer waits for its page.
LEMMA MissQueued ==
  ASSUME AInv, TypeOK', startMisses # << >>, startMisses' = Tail(startMisses),
         UNCHANGED <<asked, answers, l1, l2, mapped>>,
         \A q \in Page : WaitingFor(q)' \subseteq
           WaitingFor(q) \union (IF q = PageOf[Head(startMisses)]
                                 THEN {Head(startMisses)} ELSE {})
  PROVE  AInv'
<1> DEFINE r == Head(startMisses)
<1>1. /\ Elements(startMisses) = Elements(startMisses') \union {r}
      /\ NoRepeats(startMisses') /\ r \notin Elements(startMisses')
      /\ r \in Elements(startMisses)
  BY TailElements DEF AInv, TypeOK, Queues
<1>2. Unanswered' = Unanswered
  BY DEF Unanswered
<1>3. Queues'
  <2>1. ASSUME NEW q \in Page
        PROVE  /\ WaitingFor(q)' \subseteq Unanswered
               /\ \A x \in WaitingFor(q)' : PageOf[x] = q
               /\ WaitingFor(q)' \intersect Elements(startMisses') = {}
    BY <1>1 DEF AInv, Queues
  <2> QED BY <1>1, <1>2, <2>1 DEF AInv, Queues
<1>4. TLBsMapped'
  BY DEF AInv, TLBsMapped
<1> QED BY <1>3, <1>4 DEF AInv

LEMMA HandleTLBMissStep ==
  ASSUME AInv, TypeOK', HandleTLBMiss
  PROVE  AInv' /\ (Abstract!Next \/ UNCHANGED <<asked, answers, mapped>>)
<1> DEFINE r == Head(startMisses)
           p == PageOf[r]
<1>1. /\ TypeOK /\ Queues /\ TLBsMapped
      /\ startMisses # << >> /\ startMisses' = Tail(startMisses)
      /\ UNCHANGED <<l2, mapped, asked>>
      /\ r \in Request /\ r \in Elements(startMisses) /\ p \in Page
      /\ Elements(startMisses) = Elements(startMisses') \union {r}
      /\ NoRepeats(startMisses') /\ r \notin Elements(startMisses')
  BY TailElements, MMUAssumption DEF AInv, TypeOK, Queues, HandleTLBMiss
<1>2. CASE Lookup(l2, p) /\ Finish({r}, p) /\ UNCHANGED outstandingWalks
  <2>1. p \in mapped /\ r \in Unanswered
    BY <1>1, <1>2 DEF Lookup, TLBsMapped, Queues
  <2>2. /\ {r} = {r} \intersect Request /\ {r} \subseteq Unanswered
        /\ \A x \in {r} : PageOf[x] = p
    BY <1>1, <2>1
  <2>3. /\ Abstract!Answer(p, {r})
        /\ \A tlb \in Tlb : l1'[tlb] \subseteq mapped
        /\ Unanswered' = Unanswered \ {r}
        /\ \A x \in Request : x \notin asked => answers'[x] = 0
    BY <1>1, <1>2, <2>1, <2>2, FinishEffect
  <2>4. Queues'
    <3>1. ASSUME NEW q \in Page
          PROVE  /\ WaitingFor(q)' = WaitingFor(q)
                 /\ r \notin WaitingFor(q)
      BY <1>1, <1>2 DEF Queues, WaitingFor
    <3> QED BY <1>1, <2>3, <3>1 DEF Queues
  <2>5. TLBsMapped'
    BY <1>1, <2>3 DEF TLBsMapped
  <2> QED BY <1>1, <2>3, <2>4, <2>5 DEF AInv, Abstract!Next, TypeOK
<1>3. CASE /\ outstandingWalks' =
                [outstandingWalks EXCEPT ![p] = Append(@, r)]
           /\ UNCHANGED <<l1, answers>>
  <2>1. outstandingWalks[p] \in Seq(Translation) /\ r \in Translation
    BY <1>1 DEF TypeOK, Translation
  <2>2. /\ Elements(outstandingWalks'[p]) =
             Elements(outstandingWalks[p]) \union {r}
        /\ \A q \in Page : q # p => outstandingWalks'[q] = outstandingWalks[q]
    BY <1>1, <1>3, <2>1, AppendElements DEF TypeOK
  <2>3. \A q \in Page : WaitingFor(q)' \subseteq
          WaitingFor(q) \union (IF q = p THEN {r} ELSE {})
    BY <2>2 DEF WaitingFor
  <2> QED BY <1>1, <1>3, <2>3, MissQueued
<1>4. CASE /\ outstandingWalks' = [outstandingWalks EXCEPT ![p] = <<r>>]
           /\ UNCHANGED <<l1, answers>>
  <2>1. /\ outstandingWalks'[p] = <<r>> /\ Elements(<<r>>) = {r}
        /\ \A q \in Page : q # p => outstandingWalks'[q] = outstandingWalks[q]
    BY <1>1, <1>4 DEF TypeOK, Elements
  <2>2. \A q \in Page : WaitingFor(q)' \subseteq
          WaitingFor(q) \union (IF q = p THEN {r} ELSE {})
    BY <2>1 DEF WaitingFor
  <2> QED BY <1>1, <1>4, <2>2, MissQueued
<1>5. ASSUME NEW ahead,
             outstandingWalks' = [q \in Page |->
               CASE q = p -> <<r>>
                 [] q \in ahead -> <<q>>
                 [] OTHER -> outstandingWalks[q]],
             UNCHANGED <<l1, answers>>
      PROVE  AInv' /\ UNCHANGED <<asked, answers, mapped>>
  <2>1. Elements(<<r>>) = {r} /\ \A q \in Page : Elements(<<q>>) = {q}
    BY DEF Elements
  <2>2. \A q \in Page : q \notin Request
    BY MMUAssumption
  <2>3. ASSUME NEW q \in Page
        PROVE  WaitingFor(q)' \subseteq
                 WaitingFor(q) \union (IF q = p THEN {r} ELSE {})
    BY <1>5, <2>1, <2>2 DEF WaitingFor
  <2> QED BY <1>1, <1>5, <2>3, MissQueued
<1> QED BY <1>2, <1>3, <1>4, <1>5 DEF HandleTLBMiss

\* A walk answers the requests that wait for its page.
LEMMA WalkDoneStep ==
  ASSUME AInv, TypeOK', NEW t \in Translation, WalkDone(t)
  PROVE  AInv' /\ Abstract!Next
<1> DEFINE p == VPage(t)
           rs == Elements(outstandingWalks[p])
<1>1. /\ TypeOK /\ Queues /\ TLBsMapped /\ p \in Page /\ p \in mapped
      /\ UNCHANGED <<startMisses, mapped, asked>>
      /\ Finish(rs, p) /\ l2' \in L2Inserted(p)
      /\ outstandingWalks' = [outstandingWalks EXCEPT ![p] = << >>]
  BY VPageType DEF AInv, TypeOK, WalkDone, FinalizeTranslation
<1>2. /\ WaitingFor(p) = rs \intersect Request
      /\ WaitingFor(p) \subseteq Unanswered
      /\ \A r \in WaitingFor(p) : PageOf[r] = p
  BY <1>1 DEF WaitingFor, Queues
<1>3. /\ Abstract!Answer(p, WaitingFor(p))
      /\ \A tlb \in Tlb : l1'[tlb] \subseteq mapped
      /\ Unanswered' = Unanswered \ WaitingFor(p)
      /\ \A x \in Request : x \notin asked => answers'[x] = 0
  BY <1>1, <1>2, FinishEffect
<1>4. Queues'
  <2>1. Elements(<< >>) = {}
    BY DEF Elements
  <2>2. outstandingWalks'[p] = << >>
        /\ \A q \in Page : q # p => outstandingWalks'[q] = outstandingWalks[q]
    BY <1>1 DEF TypeOK
  <2>3. ASSUME NEW q \in Page
        PROVE  /\ WaitingFor(q)' \subseteq WaitingFor(q)
               /\ WaitingFor(q)' \intersect WaitingFor(p) = {}
    <3>1. CASE q = p
      BY <2>1, <2>2, <3>1 DEF WaitingFor
    <3>2. CASE q # p
      <4>1. WaitingFor(q)' = WaitingFor(q)
        BY <2>2, <3>2 DEF WaitingFor
      <4>2. \A r \in WaitingFor(q) : PageOf[r] = q
        BY <1>1 DEF Queues
      <4> QED BY <1>2, <3>2, <4>1, <4>2
    <3> QED BY <3>1, <3>2
  <2>4. Elements(startMisses) \intersect WaitingFor(p) = {}
    BY <1>1 DEF Queues
  <2> QED BY <1>1, <1>3, <2>3, <2>4 DEF Queues
<1>5. TLBsMapped'
  <2>1. l2' \subseteq mapped
    BY <1>1 DEF L2Inserted, Inserted, TLBsMapped
  <2> QED BY <1>1, <1>3, <2>1 DEF TLBsMapped
<1>6. WaitingFor(p) \subseteq Request
  BY <1>2
<1> QED BY <1>1, <1>3, <1>4, <1>5, <1>6 DEF AInv, Abstract!Next

-----------------------------------------------------------------------------

avars == <<asked, answers, mapped>>

LEMMA StopStep ==
  ASSUME AInv, TypeOK', NEW how, Stop(how)
  PROVE  AInv' /\ UNCHANGED avars
BY StillQueued DEF Stop, avars

LEMMA FinishWalkStep ==
  ASSUME AInv, TypeOK', NEW t \in Translation, FinishWalk(t)
  PROVE  AInv' /\ (Abstract!Next \/ UNCHANGED avars)
<1>1. CASE WalkDone(t)
  BY <1>1, WalkDoneStep
<1>2. CASE WalkFaults(t)
  BY <1>2, StillQueued DEF WalkFaults, avars
<1>3. CASE RetryFaults(t)
  BY <1>3, StopStep DEF RetryFaults
<1>4. CASE PrefetchDone(t)
  BY <1>4, StopStep DEF PrefetchDone
<1> QED BY <1>1, <1>2, <1>3, <1>4 DEF FinishWalk

\* Every step of the MMU is a step of the translator or a stutter.
LEMMA StepRefines ==
  AInv /\ TypeOK' /\ [Next]_vars => AInv' /\ [Abstract!Next]_avars
<1> SUFFICES ASSUME AInv, TypeOK', [Next]_vars
             PROVE  AInv' /\ (Abstract!Next \/ UNCHANGED avars)
  OBVIOUS
<1>1. ASSUME NEW r \in Request, TranslateTiming(r)
      PROVE  AInv' /\ Abstract!Next
  BY <1>1, TranslateTimingStep
<1>2. CASE HandleTLBMiss
  BY <1>2, HandleTLBMissStep DEF avars
<1>3. ASSUME NEW t \in Translation, FinishWalk(t)
      PROVE  AInv' /\ (Abstract!Next \/ UNCHANGED avars)
  BY <1>3, FinishWalkStep
<1>4. CASE TakeInterrupt
  BY <1>4, StillQueued DEF TakeInterrupt, avars
<1>5. ASSUME NEW p \in Page, MapPage(p)
      PROVE  AInv' /\ Abstract!Next
  <2>1. mapped \subseteq mapped' /\ Abstract!Map(p)
    BY <1>5 DEF MapPage, Abstract!Map
  <2>2. AInv'
    BY <1>5, <2>1, StillQueued DEF MapPage
  <2> QED BY <2>1, <2>2 DEF Abstract!Next
<1>6. CASE FinishPageFault
  BY <1>6, StillQueued DEF FinishPageFault, avars
<1>7. CASE FinishWrongFault
  BY <1>7, StillQueued DEF FinishWrongFault, avars
<1>8. CASE FinishUnwatched
  BY <1>8, StopStep DEF FinishUnwatched
<1>9. CASE FaultTimeout
  BY <1>9, StopStep DEF FaultTimeout
<1>10. CASE UNCHANGED vars
  BY <1>10, StillQueued DEF vars, avars
<1> QED BY <1>1, <1>2, <1>3, <1>4, <1>5, <1>6, <1>7, <1>8, <1>9, <1>10 DEF Next

LEMMA InitRefines == Init => Abstract!Init
BY DEF Init, Abstract!Init

\* For any pages, requests, TLBs and walkers, translateTiming, handleTLBMiss and
\* finalizeTranslation together finish a request at most once, and only with a
\* page that is mapped, whatever is displaced from the TLBs and whatever faults.
THEOREM MMURefines == Spec => ImplementsTranslator
<1>1. AInv /\ Inv /\ Inv' /\ [Next]_vars => AInv' /\ [Abstract!Next]_avars
  BY StepRefines DEF Inv
<1>2. Init => AInv /\ Abstract!Init
  BY InitAInv, InitRefines
<1> QED BY <1>1, <1>2, MMUInvariant, PTL
        DEF Spec, ImplementsTranslator, Abstract!Spec, avars
=============================================================================
