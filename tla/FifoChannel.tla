----------------------------- MODULE FifoChannel ----------------------------
(***************************************************************************)
(* What one path of the gem5/SystemC bridge promises: an unbounded FIFO    *)
(* channel that accepts a message at a time and may pass on several at     *)
(* once.                                                                   *)
(***************************************************************************)
EXTENDS Naturals, Sequences

CONSTANT Message

VARIABLES input,    \* everything accepted so far
          output,   \* everything passed on so far
          content   \* what is inside

channelVars == <<input, output, content>>

Init == input = << >> /\ output = << >> /\ content = << >>

Accept(m) ==
  /\ input'   = Append(input, m)
  /\ content' = Append(content, m)
  /\ UNCHANGED output

PassOn(n) ==
  /\ output'  = output \o SubSeq(content, 1, n)
  /\ content' = SubSeq(content, n + 1, Len(content))
  /\ UNCHANGED input

Next ==
  \/ \E m \in Message : Accept(m)
  \/ \E n \in 1 .. Len(content) : PassOn(n)

Spec == Init /\ [][Next]_channelVars
=============================================================================
