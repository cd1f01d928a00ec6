----------------------------- MODULE WarpMemory -----------------------------
(***************************************************************************)
(* What the warps of a shader core are promised about their memory         *)
(* instructions (the comments on perWarpInstructionQueues and              *)
(* perWarpOutstandingAccesses in shader_lsq.hh): the accesses of an        *)
(* instruction enter the caches after those of the warp's earlier          *)
(* instructions, never two at a time to a line, and not before a fence in  *)
(* between has seen everything before it return; an instruction is         *)
(* complete only when its accesses, and for a fence those before it, have  *)
(* returned.                                                               *)
(***************************************************************************)
EXTENDS Integers, Sequences

CONSTANTS Warp, Programs

VARIABLES program,   \* the memory instructions of each warp, in order
          entered,   \* accesses that entered the caches
          returned,  \* accesses that returned from the caches
          completed  \* instructions that are over

AccessesOf(i) == {<<i[1], i[2], k>> : k \in DOMAIN program[i[1]][i[2]].lines}
InstOf(a) == <<a[1], a[2]>>
LineOf(a) == program[a[1]][a[2]].lines[a[3]]

Instructions == UNION {{<<w, n>> : n \in DOMAIN program[w]} : w \in Warp}
Accesses == UNION {AccessesOf(i) : i \in Instructions}
Before(i) == {j \in Instructions : j[1] = i[1] /\ j[2] < i[2]}
Earlier(i) == UNION {AccessesOf(j) : j \in Before(i)}
IsFence(i) == program[i[1]][i[2]].kind = "fence"

Init == /\ program \in Programs
        /\ entered = {} /\ returned = {} /\ completed = {}

Enter(a) ==
  /\ a \notin entered
  /\ Earlier(InstOf(a)) \subseteq entered
  /\ \A f \in Before(InstOf(a)) : IsFence(f) => Earlier(f) \subseteq returned
  /\ \A b \in entered \ returned : LineOf(b) # LineOf(a)
  /\ entered' = entered \union {a}
  /\ UNCHANGED <<program, returned, completed>>

Return(a) ==
  /\ a \in entered \ returned
  /\ returned' = returned \union {a}
  /\ UNCHANGED <<program, entered, completed>>

Complete(i) ==
  /\ i \notin completed
  /\ AccessesOf(i) \subseteq returned
  /\ IsFence(i) => Earlier(i) \subseteq returned
  /\ completed' = completed \union {i}
  /\ UNCHANGED <<program, entered, returned>>

Next == \/ \E a \in Accesses : Enter(a) \/ Return(a)
        \/ \E i \in Instructions : Complete(i)

Spec == Init /\ [][Next]_<<program, entered, returned, completed>>
=============================================================================
