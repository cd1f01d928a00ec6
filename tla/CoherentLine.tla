---------------------------- MODULE CoherentLine ----------------------------
(***************************************************************************)
(* What the caches promise the processors for one cache line: a register   *)
(* that many may read at a time or one may write, and of which every copy  *)
(* is current. It says nothing of messages, directories or memory.         *)
(***************************************************************************)
CONSTANTS Cache, Value, NoValue

VARIABLES perm,   \* [Cache -> Permission]
          copy,   \* [Cache -> Value \union {NoValue}]
          value   \* contents of the line

lineVars == <<perm, copy, value>>

Permission == {"none", "read", "write"}

Init ==
  /\ perm = [c \in Cache |-> "none"]
  /\ copy = [c \in Cache |-> NoValue]
  /\ value \in Value

\* c may read: nobody may write, and c sees the current contents.
GainRead(c) ==
  /\ perm[c] = "none"
  /\ \A d \in Cache : perm[d] # "write"
  /\ perm' = [perm EXCEPT ![c] = "read"]
  /\ copy' = [copy EXCEPT ![c] = value]
  /\ UNCHANGED value

\* c writes v, as the only cache with any permission.
Write(c, v) ==
  /\ \A d \in Cache \ {c} : perm[d] = "none"
  /\ perm' = [perm EXCEPT ![c] = "write"]
  /\ copy' = [copy EXCEPT ![c] = v]
  /\ value' = v

\* c may no longer write, but still read.
Downgrade(c) ==
  /\ perm[c] = "write"
  /\ perm' = [perm EXCEPT ![c] = "read"]
  /\ UNCHANGED <<copy, value>>

\* c loses its copy.
Lose(c) ==
  /\ perm[c] # "none"
  /\ perm' = [perm EXCEPT ![c] = "none"]
  /\ copy' = [copy EXCEPT ![c] = NoValue]
  /\ UNCHANGED value

Next ==
  \E c \in Cache : \/ GainRead(c)
                   \/ \E v \in Value : Write(c, v)
                   \/ Downgrade(c)
                   \/ Lose(c)

Spec == Init /\ [][Next]_lineVars
=============================================================================
