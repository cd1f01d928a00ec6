------------------------------ MODULE ShaderLSQ -----------------------------
(***************************************************************************)
(* The load/store queue of a shader core (shader_lsq.cc,                   *)
(* lsq_warp_inst_buffer.cc) between the core (cuda_core.cc and the warp    *)
(* scheduler and ld/st unit of gpgpu-sim/shader.cc), the data TLB and the  *)
(* L1 cache. A warp instruction takes a buffer, is coalesced into accesses *)
(* to cache lines, which are translated, injected into the cache, ejected  *)
(* when they return, and commits when all of them have.                    *)
(*                                                                         *)
(* One gem5 event or port call is one action; events are scheduled by      *)
(* cycle only where a cycle is compared: for the inject stage. Addresses   *)
(* are cache lines, the lanes of a warp answer together, and inject_width  *)
(* and eject_width have their default, 1. The core dispatches an           *)
(* instruction to the queue in the cycle in which it sends its lanes.      *)
(* TLB and cache are external.                                             *)
(***************************************************************************)
EXTENDS Integers, Sequences, FiniteSets

CONSTANTS Warp,
          Line,         \* cache lines
          Programs,     \* possible memory instructions of the warps (bound)
          PoolSize,     \* warpInstBufPoolSize
          TagCycles,    \* l1TagAccessCycles
          StoreCycles,  \* most sublines of a write
          Mshrs,        \* external: accesses the cache holds at a time
          None          \* no instruction

ASSUME LSQAssumption ==
  /\ PoolSize \in Nat \ {0}
  /\ TagCycles \in Nat \ {0}
  /\ StoreCycles \in Nat
  /\ Mshrs \in Nat \ {0}

\* A memory instruction takes a buffer with its first lane, so it has an access;
\* a fence has none.
MemInst == {m \in [kind : {"load", "store", "atomic", "fence"}, lines : Seq(Line)] :
              m.kind = "fence" <=> m.lines = << >>}

ASSUME ProgramAssumption == Programs \subseteq [Warp -> Seq(MemInst)]

VARIABLES
  \* the core
  program,           \* what the warps do
  issued,            \* how many of its instructions a warp has issued
  sent,              \* the core has sent an instruction in this cycle
  membar,            \* m_membar: the warp waits for its fence
  needsFenceUnblock, \* the warp's next fence response will end its wait
  pending,           \* scoreboard: loads whose registers are reserved
  wb,                \* m_next_wb: the load in the writeback register
  kernelDone,        \* the kernel was reported as done
  \* the queue
  active,            \* instructions that hold a WarpInstBuffer
  instQueues,        \* perWarpInstructionQueues
  outstanding,       \* perWarpOutstandingAccesses
  coalesced,         \* coalescedAccesses of all buffers
  translated,        \* translatedAccesses of all buffers
  injectBuffer,
  injectIn,          \* cycles until an access may be injected: getInjectCycle
  nextInject,        \* cycles until nextAllowedInject
  blockedLines,      \* blockedLineAddrs
  blockedAccesses,
  mshrsFull,
  ejectBuffer,
  commitBuffer,      \* commitInstBuffer
  writebackBlocked,
  injectEvent,       \* cycles until injectAccessesEvent, or Unscheduled
  ejectEvent,        \* ejectAccessesEvent is scheduled
  commitEvent,       \* commitInstEvent is scheduled
  inCache,           \* external: accesses in the cache
  halted             \* "no", or the assertion that stopped gem5

core == <<issued, sent, membar, needsFenceUnblock, pending, wb, kernelDone>>
inject == <<injectBuffer, injectIn, nextInject, blockedLines, blockedAccesses,
            mshrsFull, injectEvent>>
commit == <<commitBuffer, writebackBlocked, commitEvent>>
vars == <<program, core, active, instQueues, outstanding, coalesced,
          translated, inject, ejectBuffer, ejectEvent, commit, inCache, halted>>

Unscheduled == -1
Past == -1  \* of injectIn: in an earlier cycle

Elements(s) == {s[i] : i \in DOMAIN s}
Max0(n) == IF n > 0 THEN n ELSE 0

\* The elements of s that are in S, in their order: SelectSeq as a recursive
\* function.
Filter(s, S) ==
  LET f[n \in 0 .. Len(s)] ==
        IF n = 0 THEN << >>
        ELSE IF s[n] \in S THEN Append(f[n - 1], s[n]) ELSE f[n - 1]
  IN f[Len(s)]

\* The n-th instruction of warp w, and its k-th access.
Instructions == UNION {{<<w, n>> : n \in DOMAIN program[w]} : w \in Warp}
Kind(i) == program[i[1]][i[2]].kind
AccessesOf(i) == {<<i[1], i[2], k>> : k \in DOMAIN program[i[1]][i[2]].lines}
Accesses == UNION {AccessesOf(i) : i \in Instructions}
InstOf(a) == <<a[1], a[2]>>
LineOf(a) == program[a[1]][a[2]].lines[a[3]]

\* An atomic is a load whose access also writes.
IsFence(i) == Kind(i) = "fence"
IsWrite(a) == Kind(InstOf(a)) \in {"store", "atomic"}
Responds(i) == Kind(i) \in {"load", "atomic"}

TypeOK ==
  /\ program \in Programs
  /\ issued \in [Warp -> Nat] /\ sent \in BOOLEAN
  /\ membar \in [Warp -> BOOLEAN] /\ needsFenceUnblock \in [Warp -> BOOLEAN]
  /\ pending \subseteq Instructions /\ wb \in Instructions \union {None}
  /\ kernelDone \in BOOLEAN
  /\ active \subseteq Instructions
  /\ instQueues \in [Warp -> Seq(Instructions)]
  /\ outstanding \in [Warp -> Nat]
  /\ coalesced \subseteq Accesses /\ translated \in Seq(Accesses)
  /\ injectBuffer \in Seq(Accesses)
  /\ injectIn \in [Accesses -> Past .. TagCycles]
  /\ nextInject \in 0 .. StoreCycles
  /\ blockedLines \subseteq Line
  /\ blockedAccesses \in [Line -> Seq(Accesses)]
  /\ mshrsFull \in BOOLEAN
  /\ ejectBuffer \in Seq(Accesses) /\ commitBuffer \in Seq(Instructions)
  /\ writebackBlocked \in BOOLEAN
  /\ injectEvent \in Unscheduled .. TagCycles
  /\ ejectEvent \in BOOLEAN /\ commitEvent \in BOOLEAN
  /\ inCache \subseteq Accesses
  /\ halted \in {"no", "untried", "behind fence", "not fenced"}

Init ==
  /\ program \in Programs
  /\ issued = [w \in Warp |-> 0] /\ sent = FALSE
  /\ membar = [w \in Warp |-> FALSE]
  /\ needsFenceUnblock = [w \in Warp |-> FALSE]
  /\ pending = {} /\ wb = None /\ kernelDone = FALSE
  /\ active = {}
  /\ instQueues = [w \in Warp |-> << >>]
  /\ outstanding = [w \in Warp |-> 0]
  /\ coalesced = {} /\ translated = << >>
  /\ injectBuffer = << >> /\ injectIn = [a \in Accesses |-> Past]
  /\ nextInject = 0
  /\ blockedLines = {} /\ blockedAccesses = [l \in Line |-> << >>]
  /\ mshrsFull = FALSE
  /\ ejectBuffer = << >> /\ commitBuffer = << >> /\ writebackBlocked = FALSE
  /\ injectEvent = Unscheduled /\ ejectEvent = FALSE /\ commitEvent = FALSE
  /\ inCache = {} /\ halted = "no"

Stop(assertion) ==
  /\ halted' = assertion
  /\ UNCHANGED <<program, core, active, instQueues, outstanding, coalesced,
                 translated, inject, ejectBuffer, ejectEvent, commit, inCache>>

-----------------------------------------------------------------------------
(* Dispatch and translation. *)

\* pushToCommitBuffer
PushToCommit(i) ==
  /\ commitBuffer' = Append(commitBuffer, i)
  /\ commitEvent' = (commitEvent \/ ~writebackBlocked)
  /\ UNCHANGED writebackBlocked

\* waiting(): the scheduler does not issue from the warp.
Waits(w) ==
  \/ membar[w]
  \/ \E i \in pending : i[1] = w /\ Kind(i) = "atomic" /\ wb # i

\* executeMemOp sends the next instruction of warp w, addLaneRequest takes a
\* buffer for it and dispatchWarpInst queues it. A fence with nothing to wait
\* for is cleared at once.
IssueMemInst(w) ==
  LET i == <<w, issued[w] + 1>> IN
  /\ halted = "no"
  /\ ~sent /\ ~kernelDone
  /\ i \in Instructions /\ ~Waits(w)
  /\ Cardinality(active) < PoolSize
  /\ sent' = TRUE
  /\ issued' = [issued EXCEPT ![w] = @ + 1]
  /\ active' = active \union {i}
  /\ IF IsFence(i)
     THEN /\ membar' = [membar EXCEPT ![w] = TRUE]
          /\ needsFenceUnblock' = [needsFenceUnblock EXCEPT ![w] = TRUE]
          /\ IF outstanding[w] = 0 /\ instQueues[w] = << >>
             THEN PushToCommit(i) /\ UNCHANGED instQueues
             ELSE /\ instQueues' = [instQueues EXCEPT ![w] = Append(@, i)]
                  /\ UNCHANGED commit
          /\ UNCHANGED <<pending, coalesced>>
     ELSE /\ instQueues' = [instQueues EXCEPT ![w] = Append(@, i)]
          /\ coalesced' = coalesced \union AccessesOf(i)
          /\ pending' = IF Responds(i) THEN pending \union {i} ELSE pending
          /\ UNCHANGED <<membar, needsFenceUnblock, commit>>
  /\ UNCHANGED <<program, wb, kernelDone, outstanding, translated, inject,
                 ejectBuffer, ejectEvent, inCache, halted>>

\* Mutant of AtHead: translated accesses are injected at once.
AtHeadAlways(i) == TRUE

\* The instruction is the oldest of its warp in the queue.
AtHead(i) == instQueues[i[1]] # << >> /\ Head(instQueues[i[1]]) = i

\* Mutant of InjectTimes: a cycle too many.
InjectTimesLate(pushed) ==
  [a \in Accesses |-> IF a \in Elements(pushed) THEN TagCycles + 1
                      ELSE injectIn[a]]

\* pushToInjectBuffer, of the accesses in pushed: the tags are read first.
InjectTimes(pushed) ==
  [a \in Accesses |-> IF a \in Elements(pushed) THEN TagCycles ELSE injectIn[a]]

\* finishTranslation
FinishTranslation(a) ==
  /\ halted = "no"
  /\ a \in coalesced /\ a \notin Elements(translated)
  /\ translated' = Append(translated, a)
  /\ IF AtHead(InstOf(a))
     THEN /\ injectBuffer' = Append(injectBuffer, a)
          /\ injectIn' = InjectTimes(<<a>>)
          /\ injectEvent' = IF injectEvent = Unscheduled /\ ~mshrsFull
                            THEN TagCycles ELSE injectEvent
     ELSE UNCHANGED <<injectBuffer, injectIn, injectEvent>>
  /\ UNCHANGED <<program, core, active, instQueues, outstanding, coalesced,
                 nextInject, blockedLines, blockedAccesses, mshrsFull,
                 ejectBuffer, ejectEvent, commit, inCache, halted>>

-----------------------------------------------------------------------------
(* Injection. *)

Due(a) == injectIn[a] <= 0

\* The length of the prefix of injectBuffer that must wait for its lines.
LineBlocked ==
  LET free == {j \in DOMAIN injectBuffer :
                 \/ ~Due(injectBuffer[j])
                 \/ LineOf(injectBuffer[j]) \notin blockedLines}
  IN IF nextInject > 0 THEN 0
     ELSE IF free = {} THEN Len(injectBuffer)
     ELSE (CHOOSE j \in free : \A k \in free : j <= k) - 1

\* Mutant of Reschedule: not scheduled for an access that is due already.
RescheduleLater ==
  injectEvent' = IF injectBuffer' # << >> /\ injectIn'[Head(injectBuffer')] > 0
                 THEN injectIn'[Head(injectBuffer')] ELSE Unscheduled

\* The event is scheduled for the new front of injectBuffer.
Reschedule ==
  injectEvent' = IF injectBuffer' = << >> THEN Unscheduled
                 ELSE IF injectIn'[Head(injectBuffer')] > 0
                 THEN injectIn'[Head(injectBuffer')] ELSE 1

\* "MSHR blocked": the cache refuses an access, and will ask for a retry.
InjectRefused(rest) ==
  /\ injectBuffer' = rest
  /\ mshrsFull' = TRUE /\ injectEvent' = Unscheduled
  /\ UNCHANGED <<instQueues, outstanding, coalesced, injectIn, nextInject,
                 blockedLines, inCache>>

\* Mutant of Released: accesses translated before their turn are not injected.
ReleasedLate(i) == << >>

\* The translated accesses of the instruction behind i.
Released(i) ==
  LET next == Tail(instQueues[i[1]]) IN
  IF next # << >> /\ ~IsFence(Head(next))
  THEN Filter(translated, AccessesOf(Head(next)))
  ELSE << >>

\* The cache accepts an access. With its last access an instruction leaves the
\* head of its queue, and the next one's accesses may be injected.
InjectAccepted(rest) ==
  LET a == Head(rest)
      i == InstOf(a)
      last == coalesced \intersect AccessesOf(i) = {a}
      released == IF last THEN Released(i) ELSE << >>
  IN
  /\ inCache' = inCache \union {a}
  /\ blockedLines' = blockedLines \union {LineOf(a)}
  /\ coalesced' = coalesced \ {a}
  /\ outstanding' = [outstanding EXCEPT ![i[1]] = @ + 1]
  /\ nextInject' \in IF IsWrite(a) THEN 0 .. StoreCycles ELSE {0}
  /\ instQueues' = [instQueues EXCEPT ![i[1]] = IF last THEN Tail(@) ELSE @]
  /\ injectBuffer' = Tail(rest) \o released
  /\ injectIn' = InjectTimes(released)
  /\ Reschedule
  /\ UNCHANGED mshrsFull

InjectNothing(rest) ==
  /\ injectBuffer' = rest
  /\ UNCHANGED <<instQueues, outstanding, coalesced, injectIn, nextInject,
                 blockedLines, mshrsFull, inCache>>
  /\ Reschedule

\* injectCacheAccesses
InjectCacheAccesses ==
  LET k == LineBlocked
      moved == SubSeq(injectBuffer, 1, k)
      rest == SubSeq(injectBuffer, k + 1, Len(injectBuffer))
      ready == rest # << >> /\ nextInject = 0 /\ Due(Head(rest))
  IN
  /\ halted = "no"
  /\ injectEvent = 0
  /\ blockedAccesses' = [l \in Line |->
       blockedAccesses[l] \o Filter(moved, {a \in Accesses : LineOf(a) = l})]
  /\ \/ ~ready /\ InjectNothing(rest)
     \/ ready /\ Cardinality(inCache) >= Mshrs /\ InjectRefused(rest)
     \/ ready /\ Cardinality(inCache) < Mshrs /\ InjectAccepted(rest)
  /\ UNCHANGED <<program, core, active, translated, ejectBuffer, ejectEvent,
                 commit, halted>>

\* scheduleRetryInject, when the cache has room again.
ScheduleRetryInject ==
  /\ halted = "no"
  /\ mshrsFull /\ Cardinality(inCache) < Mshrs
  /\ mshrsFull' = FALSE
  /\ injectEvent' = 0
  /\ UNCHANGED <<program, core, active, instQueues, outstanding, coalesced,
                 translated, injectBuffer, injectIn, nextInject, blockedLines,
                 blockedAccesses, ejectBuffer, ejectEvent, commit, inCache,
                 halted>>

-----------------------------------------------------------------------------
(* Ejection. *)

\* recvResponsePkt: the line is free, and an access that waits for it goes to
\* the front of injectBuffer.
RecvResponse(a) ==
  LET l == LineOf(a)
      next == Head(blockedAccesses[l])
  IN
  /\ halted = "no"
  /\ a \in inCache
  /\ blockedAccesses[l] # << >> => injectIn[next] = Past
  /\ inCache' = inCache \ {a}
  /\ ejectBuffer' = Append(ejectBuffer, a)
  /\ ejectEvent' = TRUE
  /\ blockedLines' = blockedLines \ {l}
  /\ IF blockedAccesses[l] = << >>
     THEN UNCHANGED <<injectBuffer, blockedAccesses, injectEvent>>
     ELSE /\ injectBuffer' = <<next>> \o injectBuffer
          /\ blockedAccesses' = [blockedAccesses EXCEPT ![l] = Tail(@)]
          /\ injectEvent' = IF mshrsFull THEN injectEvent ELSE 0
  /\ UNCHANGED <<program, core, active, instQueues, outstanding, coalesced,
                 translated, injectIn, nextInject, mshrsFull, commit, halted>>

\* "Assert that the unblocked access has been tried for inject previously": not
\* if it was in this cycle, the first in which it could be.
RecvResponseUntried(a) ==
  LET l == LineOf(a) IN
  /\ halted = "no"
  /\ a \in inCache
  /\ blockedAccesses[l] # << >> /\ injectIn[Head(blockedAccesses[l])] # Past
  /\ Stop("untried")

\* The accesses of instruction i that are still to be ejected.
Unfinished(i) == AccessesOf(i) \intersect (coalesced \union Elements(translated))

\* ejectAccessResponses: with its last access an instruction is complete, and a
\* fence at the head of the queue may be cleared.
EjectAccessResponses ==
  LET a == Head(ejectBuffer)
      i == InstOf(a)
      w == i[1]
      complete == Unfinished(i) = {a}
      fenced == /\ complete /\ outstanding[w] = 1
                /\ instQueues[w] # << >> /\ IsFence(Head(instQueues[w]))
  IN
  /\ halted = "no"
  /\ ejectEvent
  /\ fenced => Len(instQueues[w]) = 1
  /\ ejectBuffer' = Tail(ejectBuffer)
  /\ ejectEvent' = (ejectBuffer' # << >>)
  /\ outstanding' = [outstanding EXCEPT ![w] = @ - 1]
  /\ translated' = Filter(translated, Accesses \ {a})
  /\ commitBuffer' = commitBuffer \o (IF complete THEN <<i>> ELSE << >>)
                       \o (IF fenced THEN <<Head(instQueues[w])>> ELSE << >>)
  /\ commitEvent' = (commitEvent \/ (complete /\ ~writebackBlocked))
  /\ instQueues' = [instQueues EXCEPT ![w] = IF fenced THEN << >> ELSE @]
  /\ UNCHANGED <<program, core, active, coalesced, inject, writebackBlocked,
                 inCache, halted>>

\* clearFenceAtQueueHead asserts that nothing is queued behind a fence.
EjectBehindFence ==
  LET i == InstOf(Head(ejectBuffer))
      w == i[1]
  IN
  /\ halted = "no"
  /\ ejectEvent
  /\ Unfinished(i) = {Head(ejectBuffer)} /\ outstanding[w] = 1
  /\ Len(instQueues[w]) > 1 /\ IsFence(Head(instQueues[w]))
  /\ Stop("behind fence")

-----------------------------------------------------------------------------
(* Commit. *)

\* The instruction leaves its buffer.
Release ==
  /\ commitBuffer' = Tail(commitBuffer)
  /\ commitEvent' = (commitBuffer' # << >>)
  /\ active' = active \ {Head(commitBuffer)}
  /\ UNCHANGED writebackBlocked

\* commitWarpInst: a load goes to the writeback register, if that is free, a
\* store just ends, and a fence lets its warp go on (recvLSQDataResp), unless
\* the response of an earlier fence did.
CommitWarpInst ==
  LET i == Head(commitBuffer)
      unblocks == IsFence(i) /\ needsFenceUnblock[i[1]]
  IN
  /\ halted = "no"
  /\ commitEvent
  /\ \/ /\ Kind(i) = "store" \/ (IsFence(i) /\ ~unblocks)
        /\ Release
        /\ UNCHANGED <<wb, membar, needsFenceUnblock>>
     \/ /\ Responds(i) /\ wb = None /\ Release
        /\ wb' = i
        /\ UNCHANGED <<membar, needsFenceUnblock>>
     \/ /\ Responds(i) /\ wb # None
        /\ writebackBlocked' = TRUE /\ commitEvent' = FALSE
        /\ UNCHANGED <<wb, membar, needsFenceUnblock, active, commitBuffer>>
     \/ /\ unblocks /\ membar[i[1]] /\ Release
        /\ membar' = [membar EXCEPT ![i[1]] = FALSE]
        /\ needsFenceUnblock' = [needsFenceUnblock EXCEPT ![i[1]] = FALSE]
        /\ UNCHANGED wb
  /\ UNCHANGED <<program, issued, sent, pending, kernelDone, instQueues,
                 outstanding, coalesced, translated, inject, ejectBuffer,
                 ejectEvent, inCache, halted>>

\* recvLSQDataResp asserts that the warp of a fence still waits for it.
CommitNotFenced ==
  LET i == Head(commitBuffer) IN
  /\ halted = "no"
  /\ commitEvent
  /\ IsFence(i) /\ needsFenceUnblock[i[1]] /\ ~membar[i[1]]
  /\ Stop("not fenced")

\* Mutant of RetryCommit: commitInstEvent is not scheduled.
RetryCommitLost == writebackBlocked' = FALSE /\ UNCHANGED commitEvent

\* retryCommitWarpInst
RetryCommit ==
  /\ writebackBlocked' = FALSE
  /\ commitEvent' = (commitEvent \/ writebackBlocked)

\* ldst_unit::writeback: the load's registers are written, and a refused commit
\* is tried again (writebackClear).
Writeback ==
  /\ halted = "no"
  /\ wb # None
  /\ wb' = None
  /\ pending' = pending \ {wb}
  /\ RetryCommit
  /\ UNCHANGED <<program, issued, sent, membar, needsFenceUnblock, kernelDone,
                 active, instQueues, outstanding, coalesced, translated, inject, ejectBuffer,
                 ejectEvent, commitBuffer, inCache, halted>>

\* warp_waiting_at_mem_barrier: the scheduler asks whether the warp waits for a
\* fence, and clears that if none of its loads is pending.
PollMembar(w) ==
  /\ halted = "no"
  /\ membar[w]
  /\ \A i \in pending : i[1] # w
  /\ membar' = [membar EXCEPT ![w] = FALSE]
  /\ UNCHANGED <<program, issued, sent, needsFenceUnblock, pending, wb,
                 kernelDone, active, instQueues, outstanding, coalesced, translated, inject,
                 ejectBuffer, ejectEvent, commit, inCache, halted>>

\* The warps exit and their kernel is reported as done.
FinishKernel ==
  /\ halted = "no"
  /\ ~kernelDone
  /\ pending = {}
  /\ \A w \in Warp : issued[w] = Len(program[w]) /\ ~membar[w]
  /\ kernelDone' = TRUE
  /\ UNCHANGED <<program, issued, sent, membar, needsFenceUnblock, pending, wb,
                 active, instQueues, outstanding, coalesced, translated, inject, ejectBuffer,
                 ejectEvent, commit, inCache, halted>>

\* The next cycle.
Tick ==
  /\ halted = "no"
  /\ injectEvent # 0
  /\ sent' = FALSE
  /\ injectIn' = [a \in Accesses |-> IF injectIn[a] = Past THEN Past
                                     ELSE injectIn[a] - 1]
  /\ nextInject' = Max0(nextInject - 1)
  /\ injectEvent' = IF injectEvent = Unscheduled THEN Unscheduled
                    ELSE injectEvent - 1
  /\ UNCHANGED <<program, issued, membar, needsFenceUnblock, pending, wb,
                 kernelDone, active, instQueues, outstanding, coalesced, translated, injectBuffer,
                 blockedLines, blockedAccesses, mshrsFull, ejectBuffer,
                 ejectEvent, commit, inCache, halted>>

Next ==
  \/ \E w \in Warp : IssueMemInst(w) \/ PollMembar(w)
  \/ \E a \in Accesses : \/ FinishTranslation(a)
                         \/ RecvResponse(a)
                         \/ RecvResponseUntried(a)
  \/ InjectCacheAccesses
  \/ ScheduleRetryInject
  \/ EjectAccessResponses
  \/ EjectBehindFence
  \/ CommitWarpInst
  \/ CommitNotFenced
  \/ Writeback
  \/ FinishKernel
  \/ Tick

Spec == Init /\ [][Next]_vars

\* Events run, translations and accesses finish, the core issues, and it writes
\* its registers back. That the scheduler polls a membar is not needed.
Fairness ==
  /\ WF_vars(\E w \in Warp : IssueMemInst(w))
  /\ WF_vars(\E a \in Accesses : FinishTranslation(a))
  /\ WF_vars(\E a \in Accesses : RecvResponse(a) \/ RecvResponseUntried(a))
  /\ WF_vars(InjectCacheAccesses)
  /\ WF_vars(ScheduleRetryInject)
  /\ WF_vars(EjectAccessResponses \/ EjectBehindFence)
  /\ WF_vars(CommitWarpInst \/ CommitNotFenced)
  /\ WF_vars(Writeback)
  /\ WF_vars(FinishKernel)
  /\ WF_vars(Tick)

FairSpec == Spec /\ Fairness

-----------------------------------------------------------------------------

\* Each stage that has work has its event scheduled or is waiting for a retry
\* that will come: no pipeline stage goes to sleep on a full buffer, none is
\* woken for nothing, and the assertions on buffers and events hold.
NoLostWakeup ==
  /\ injectEvent # Unscheduled <=> injectBuffer # << >> /\ ~mshrsFull
  /\ mshrsFull => injectBuffer # << >>
  /\ ejectEvent <=> ejectBuffer # << >>
  /\ commitEvent <=> commitBuffer # << >> /\ ~writebackBlocked
  /\ writebackBlocked => commitBuffer # << >> /\ wb # None

Issued == {i \in Instructions : i[2] <= issued[i[1]]}
Queued == Elements(injectBuffer) \union
            UNION {Elements(blockedAccesses[l]) : l \in Line}
NoRepeats(s) == \A j, k \in DOMAIN s : s[j] = s[k] => j = k

\* Every access of an instruction is in one place: in translation, waiting for
\* the instruction's turn, queued, in the cache, or waiting to be ejected; only
\* instructions at the head of their queues inject; the counts that fences wait
\* for are right; the buffers in use are those of unfinished instructions; a line
\* is blocked exactly while one access to it is in the cache; and an access that
\* waits for the line waits for that access, or for one that is about to enter.
AccessesAccounted ==
  /\ coalesced \intersect Elements(translated) =
       Queued \union {a \in coalesced \intersect Elements(translated) :
                        ~AtHead(InstOf(a))}
  /\ \A a \in Queued : AtHead(InstOf(a))
  /\ NoRepeats(injectBuffer)
  /\ \A l \in Line :
       /\ NoRepeats(blockedAccesses[l])
       /\ Elements(blockedAccesses[l]) \intersect Elements(injectBuffer) = {}
  /\ Elements(translated) \ coalesced = inCache \union Elements(ejectBuffer)
  /\ \A w \in Warp : outstanding[w] =
       Cardinality({a \in Elements(translated) \ coalesced : a[1] = w})
  /\ active = {InstOf(a) : a \in coalesced \union Elements(translated)}
                \union (UNION {Elements(instQueues[w]) : w \in Warp})
                \union Elements(commitBuffer)
  /\ blockedLines = {LineOf(a) : a \in inCache}
  /\ Cardinality(blockedLines) = Cardinality(inCache)
  /\ \A l \in Line : blockedAccesses[l] # << >> =>
       l \in blockedLines \/ \E a \in Elements(injectBuffer) : LineOf(a) = l

Entered == (UNION {AccessesOf(i) : i \in Issued}) \ coalesced
Abstract == INSTANCE WarpMemory WITH entered <- Entered,
                                     returned <- Entered \ inCache,
                                     completed <- Issued \ active

\* Accesses enter the cache in the warps' program order, one to a line, and
\* fences are answered only when all before them is done.
ImplementsWarpMemory == Abstract!Spec

\* The kernel runs to its end and every instruction commits, although stages,
\* lines, warps and writeback block one another, unless an assertion fails.
WarpsFinish == <>(halted # "no" \/ (kernelDone /\ active = {}))

\* A fence is answered while its warp waits for it ("Signal that fence has been
\* cleared").
FencesAwaited == halted # "not fenced"
=============================================================================
