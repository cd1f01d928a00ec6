------------------------------ MODULE Transfer ------------------------------
(***************************************************************************)
(* What the copy engine promises its GPU: one operation at a time, which   *)
(* gives every byte of the destination its contents exactly once, in any   *)
(* order, and is over when the last byte has it.                           *)
(***************************************************************************)
EXTENDS Naturals

CONSTANT MaxLength

VARIABLES busy,    \* an operation is running
          missing  \* bytes of the destination without their contents

Init == ~busy /\ missing = {}

Begin(length) ==
  /\ ~busy
  /\ busy' = TRUE
  /\ missing' = 0 .. length - 1

Fill(bytes) ==
  /\ busy
  /\ missing' = missing \ bytes
  /\ busy' = (missing' # {})

Next ==
  \/ \E length \in 1 .. MaxLength : Begin(length)
  \/ \E bytes \in SUBSET missing : bytes # {} /\ Fill(bytes)

Spec == Init /\ [][Next]_<<busy, missing>>
=============================================================================
