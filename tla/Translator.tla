----------------------------- MODULE Translator -----------------------------
(***************************************************************************)
(* What the GPU's address translation promises the units that use it: each *)
(* request is answered at most once, and only with the address of a page   *)
(* that the page table maps. The requests to one page that are waiting may *)
(* be answered together, in any number.                                    *)
(***************************************************************************)
EXTENDS Naturals

CONSTANTS Request, Page, PageOf

VARIABLES asked,    \* requests made
          answers,  \* how often each request was answered
          mapped    \* pages the page table maps

Init ==
  /\ asked = {}
  /\ answers = [r \in Request |-> 0]
  /\ mapped \subseteq Page

Waiting == {r \in asked : answers[r] = 0}

Ask(r) ==
  /\ r \notin asked
  /\ asked' = asked \union {r}
  /\ UNCHANGED <<answers, mapped>>

\* rs were waiting, or are asked for in this step and found at once.
Answer(p, rs) ==
  /\ p \in mapped
  /\ rs \subseteq Waiting \union (Request \ asked)
  /\ \A r \in rs : PageOf[r] = p
  /\ asked' = asked \union rs
  /\ answers' = [r \in Request |-> IF r \in rs THEN 1 ELSE answers[r]]
  /\ UNCHANGED mapped

Map(p) ==
  /\ mapped' = mapped \union {p}
  /\ UNCHANGED <<asked, answers>>

Next ==
  \/ \E r \in Request : Ask(r)
  \/ \E p \in Page, rs \in SUBSET Request : Answer(p, rs)
  \/ \E p \in Page : Map(p)

Spec == Init /\ [][Next]_<<asked, answers, mapped>>
=============================================================================
