---------------------------- MODULE ProgramOrder ----------------------------
(***************************************************************************)
(* What the CUDA runtime promises each host thread: the operations it puts *)
(* into one stream are performed in that order, each once, and the default *)
(* stream is ordered with every other. It says nothing of different        *)
(* threads, of locks, or of when an operation is performed.                *)
(***************************************************************************)
EXTENDS Naturals, Sequences

CONSTANTS Host, Stream, Zero

VARIABLES issued,    \* [Host -> Seq(stream)]: where each operation was put
          performed  \* the <<host, number>> of the operations performed

Init == issued = [h \in Host |-> << >>] /\ performed = {}

Ordered(s, t) == s = t \/ s = Zero \/ t = Zero

Issue(h, s) ==
  /\ issued' = [issued EXCEPT ![h] = Append(@, s)]
  /\ UNCHANGED performed

Perform(h, n) ==
  /\ <<h, n>> \notin performed
  /\ \A m \in 1 .. n - 1 :
       Ordered(issued[h][m], issued[h][n]) => <<h, m>> \in performed
  /\ performed' = performed \union {<<h, n>>}
  /\ UNCHANGED issued

Next ==
  \E h \in Host : \/ \E s \in Stream \union {Zero} : Issue(h, s)
                  \/ \E n \in 1 .. Len(issued[h]) : Perform(h, n)

Spec == Init /\ [][Next]_<<issued, performed>>
=============================================================================
