# CoreRunner in TLA+

CoreRunner joins gem5, a SystemC kernel and GPGPU-Sim into one simulator of a
GPU system. This directory holds TLA+ specifications of the parts that carry its own
logic, the TLC configurations that check them on small instances, and
TLAPS proofs of the results that hold for every instance. Paths below are
relative to the repository (`src/`).

| file | what it is |
|---|---|
| `MSINetwork`, `MSICache`, `MSIDirectory`, `MSI` | the MSI coherence protocol |
| `CoherentLine` | what the protocol promises the processors |
| `MCMSI` | model values and symmetry for the MSI runs |
| `MSIInvariant` | the inductive invariant of the protocol |
| `MSIProofs` | types, the invariant, and from it coherence, accounting and undefined events, any number of caches |
| `CoSimTime`, `ScNodeWrapper`, `TlmWrapper` | the gem5/SystemC bridge |
| `FifoChannel` | what one path of the bridge promises |
| `TlmWrapperProofs` | order and refinement of the bridge, any cycle time |
| `CopyEngine` | the GPU's DMA engine |
| `Transfer` | what one DMA operation promises |
| `CopyEngineProofs` | what is written was read, any operation |
| `TransferProofs` | types, every byte accounted for, no lost wake-up, refinement of `Transfer`, any operation |
| `StreamManager`, `CudaRuntime` | the CUDA runtime's streams, host threads and simulation thread |
| `ProgramOrder` | what the runtime promises each host thread |
| `MCCudaRuntime` | model values and symmetry for the runtime's runs |
| `CudaRuntimeProofs` | types, the running kernel, program order and synchronization, any hosts and streams |
| `ShaderMMU` | the GPU's TLBs, page walkers and page faults |
| `Translator` | what address translation promises the units that use it |
| `MCShaderMMU` | requests and pages for the MMU's runs |
| `ShaderMMUProofs` | types, waiting requests, walkers, the fault handshake and refinement of `Translator`, any requests, pages and walkers |
| `ShaderLSQ` | the load/store queue of a shader core |
| `WarpMemory` | what the queue promises the warps |
| `MCShaderLSQ` | programs of two warps for the queue's runs |
| `ShaderLSQProofs` | types, wake-ups, every access accounted for, refinement of `WarpMemory`, any warps and programs |
| `CudaGPU` | the GPU device: stream operations, ticks and blocked threads |
| `CudaGPUProofs` | types, wake-ups, panics and returns of the device, any threads and calls |

`PROJECT.json` names, for every definition, the lines it models, and lists the runs,
hazards, findings and theorems.

## 1. Inventory

Everything runs in one gem5 process. gem5's event loop is a single thread; what
interleaves inside it are events, packets and protocol messages. Host threads
exist only in the CUDA runtime (`libcuda`).

| component | code | state | operations | talks to |
|---|---|---|---|---|
| MSI protocol | `gem5_ext/src/corerunner/cachecoherence` | cache entries and TBEs, directory entry, message buffers | 4 in-ports of the cache, 3 of the directory, one transition per state and event | sequencer above, memory controller below, ordered point-to-point networks between |
| gem5/SystemC bridge, wrapper path | `gem5_ext/src/scnode_within_gem5/sc_tlm_wrapper.*`, `ScNode/ScNodeWrapper.*`, `Passthrough.h` | two kernels' clocks, 4 events, 8 queues | `nb_transport_fw/bw`, `fwClock`, `bwClock` in each kernel, `start` | gem5 sockets outside; `scnode_start`, handlers and callbacks across the library boundary |
| bridge, memory target | `sc_tlm_target.*`, `ScNode/ScNodeTarget.*`, `ScMemory.h` | as above, with a memory that answers after a latency | as above | `ring.py`, `config_simple.py` connect wrapper and target |
| arbiter, address decoder | `ScNode/ArbiterSimple*`, `AddressDecoder*` | requests waiting per initiator | forward, arbitrate, respond | not connected by `ScNodeWrapper` yet |
| debug manager | `ScNode/*Debug*` | log level | print | none |
| GPU copy engine | `gem5_ext/gpgpu/src/gpu/copy_engine.*` | bytes left to read and write, `readsDone`, buffer, stalled packets, tick event | `memcpy`, `memset`, `tickMemcpy`, `finishTranslation`, `recvPacket`, retries | `CudaGPU` starts it and is told when it ends; host and device memory ports; two TLBs |
| GPU device and streams | `gpgpu-sim/cuda_gpu.*` | running stream operation, blocked threads, kernels | `streamTick`, `beginStreamOperation`, `blockThread`, `signalThread` | stream manager, copy engine, shader cores |
| shader TLBs and MMU | `shader_tlb.*`, `shader_mmu.*` | entries, outstanding and pending walks, outstanding and pending faults | `translateTiming`, `handleTLBMiss`, `finishWalk`, `tryPrefetch`, `handleFinishPageFault`, `faultTimeout` | LSQ and copy engine above; page walkers; the CPU's page fault handler |
| shader load/store queue | `shader_lsq.*`, `lsq_warp_inst_buffer.*` | warp instruction buffers, per-warp queues and counts, inject, eject and commit buffers, blocked lines | `addLaneRequest`, `dispatchWarpInst`, `finishTranslation`, `injectCacheAccesses`, `recvResponsePkt`, `ejectAccessResponses`, `commitWarpInst`, retries | shader core, data TLB, L1 cache |
| shader core | `gpgpu-sim/cuda_core.*`, GPGPU-Sim's `shader.cc` | fences and registers that warps wait for, writeback register | `executeMemOp`, `recvLSQDataResp`, `writebackClear` | LSQ; GPGPU-Sim's pipeline |
| GPU command processor | `command_processor.*` | as the copy engine, plus a command queue | as the copy engine | disabled in `GPUConfig.py` |
| GPU syscall interface | `gpu_syscalls.*`, `api/*` | none | argument marshalling | guest programs |
| CUDA stream manager | `gem5_ext/src/libcuda/stream_manager.*`, `gpgpusim_entrypoint.cc` | streams, operations, events, kernel to stream map, locks | `push`, `operation`, `front`, `register_finished_kernel`, `destroy_stream` | host threads and the simulation thread |
| functional and timing simulator | rest of `libcuda`, `gpgpu-sim` | taken over from GPGPU-Sim | | |
| VI_hammer protocol | `gem5_ext/cosim`, gem5-gpu | taken over from gem5-gpu | | |
| grid scheduler firmware | `firmware/grid_scheduler` | grid walker's position | next block | unfinished, does not compile |
| tutorial objects, scripts | `gem5_ext/src/corerunner/part2`, `configs` | | | |

What is hard, and which properties make each part correct:

- **MSI.** Messages of one transaction travel on three networks and overtake each
  other: acknowledgements before the grant, an invalidation
  before the data of an older request, a put after the line was taken away. The
  directory answers while memory accesses are pending. Correct means: one
  writer or many readers; every readable copy is the latest value; no event without a
  transition; every request completes.
- **Bridge.** Two kernels with a clock of their own advance in lockstep, and each
  message crosses four queues, every one of them emptied by a process that only runs when an event
  was notified. SystemC keeps one pending notification per event, the
  earliest. Correct means: no message lost, duplicated or reordered on a path; every
  non-empty queue has a wake-up; latency is bounded by the cycle time.
- **Copy engine.** Read responses arrive in any order, sources and
  destinations are aligned differently, translations miss, ports refuse packets and
  ask for them later, and the engine sleeps whenever it thinks something
  else will wake it. Correct means: every byte moved exactly once, none
  before it was read, the operation reported finished exactly when it is, and it
  finishes.
- **Stream manager.** Real threads with two locks and busy waiting; unlocked
  reads of lists another thread changes. Correct means: operations of a stream
  in order, stream zero serialising with the others, no thread waiting for ever.
- **Device and streams.** A CUDA call is up to two system calls of a simulated thread,
  an operation ends between any two of them, and one flag and one pointer remember who is
  to be woken. Correct means: work is ticked until it is done, a thread that waits is
  woken then and not before, and nobody else is.
- **MMU.** Requests for one page share a walk, walks share walkers, and faults
  share one interrupt: a request waits behind another in one of four places and is
  woken only by it. Correct means: each request answered once, from the page
  table; nobody forgotten, no page walked twice at a time; one fault at the CPU.
- **LSQ.** A pipeline of buffers whose events are scheduled only when there is
  work, with line conflicts, full MSHRs and a full writeback register pushing back,
  and fences counting what is before them. Correct means: accesses in each
  warp's order, one to a line; fences neither early nor late; no stage asleep on work.

`PROJECT.json` lists the hazards at their lines, with the property that
covers each.

## 2. Plan

1. MSI: network, cache, directory, their composition; refinement of
   `CoherentLine`; type and directory-entry theorems. *Done.*
2. Bridge, wrapper path: time, inner kernel, outer kernel; refinement of `FifoChannel`;
   order and refinement theorems. *Done.*
3. Copy engine; refinement of `Transfer`; no-garbage, accounting, wake-up and refinement
   theorems. *Done.*
4. Stream manager: streams in order, who is blocked, the locks; refinement of
   `ProgramOrder`; type, running-kernel, order and synchronization theorems. *Done.*
   The part of `CudaGPU` that runs stream operations in gem5; type, wake-up, panic and return theorems. *Done.*
   Then the device composed with `CopyEngine`.
5. Bridge, memory target: `ScMemory` behind the target, composed with the
   wrapper as `ring.py` connects them; addresses and the offset subtraction; two-phase
   TLM handshake.
6. MMU with its TLBs; refinement of `Translator`; type, waiting-request, walker, handshake
   and refinement theorems. *Done.* Load/store queue; refinement of `WarpMemory`.
   *Done.* Then the two composed: the queue's translations are the MMU's requests.
7. Arbiter and address decoder; the grid walker as a recursive function checked against
   the lexicographic order.
8. Proofs for all sizes: the MSI protocol's invariant and `MSI => CoherentLine`;
   clocks, wake-ups and latency of the bridge; the accounts and wake-ups of the load/store
   queue and `ShaderLSQ => WarpMemory`; `CudaRuntime => ProgramOrder`. *Done.*

Abstract specifications: `CoherentLine` (MSI), `FifoChannel` (each bridge path),
`Transfer` (copy engine), `ProgramOrder` (CUDA runtime), `Translator` (MMU), `WarpMemory`
(load/store queue).

## 3. MSI coherence (`MSINetwork`, `MSICache`, `MSIDirectory`, `MSI`)

One cache line is modelled: the protocol treats lines independently, except that a
request for another line may evict this one, which the `"Other"` request stands
for.

State. `request`, `forward` and `response` are the three virtual networks, one
FIFO per channel because every buffer is declared `ordered=True`. `cacheState`,
`cacheData` and `acks` are the entry and the TBE (`getState` makes the TBE
override the entry and `setState` writes both, hence one variable). `mandatory` is the
head of the mandatory queue; the sequencer allows one request per line.
`dirState`, `sharers`, `owner` are the directory entry, `requestQueue` its one
request buffer for all caches, `memRequest`, `memResponse` and `memory` the memory
side. `latest` is a ghost: the last value stored.

Actions. One per transition, or per group that shares a body. A stall
(`z_stall`) leaves the message at the head of its port, so it is the absence of an
enabled action. An event with no transition and a failed assertion stop gem5:
`Panic` sets `panic` and `Halted` stutters from then on, so that TLC's deadlock check
stays on: a real protocol deadlock would be reported.

| run | instance | what it shows |
|---|---|---|
| `msi_two_caches` | 2 caches, 2 values, all operations, fairness, no symmetry | types, refinement of `CoherentLine` (a readable copy is the latest value, and nobody reads while another writes); every load and store completes and every eviction ends, unless gem5 panics; no deadlock |
| `msi_three_caches` | 3 caches, 1 value, all operations | single writer; acknowledgements, put answers and requests accounted for, message by message (`MessagesAccounted`; one request per cache also bounds every buffer); directory tracks copies; directory entry per state; no cache ever meets an undefined event, and the directory in one case only (`PanicsOnlyInSSm`) |
| `msi_only_sharer_puts` | 2 caches | violated: finding 1 |

Bounds. There are none besides the constants: `OneRequestInFlight` keeps the state
space finite. Two caches already race in every transition; a third
is needed for a writer that collects acknowledgements from one cache while another
evicts. Values matter only for the data properties. In the run with three caches they are a
symmetry set, which is sound for invariants that name no cache; the run with
liveness properties has none.

Fairness. A controller scheduled on a non-empty buffer runs (Ruby wakes
the consumer of a message buffer), the network and the memory deliver. Each in-port gets weak
fairness of its own because `wakeup` polls all ports. `Issue` has none:
a processor need not do anything. `OtherProceeds` is part of `MandatoryIn`.

## 4. Bridge (`CoSimTime`, `ScNodeWrapper`, `TlmWrapper`)

`ScNodeWrapper` is the kernel inside `libscnode.so` with a `Passthrough`;
`TlmWrapper` is gem5's kernel, which EXTENDS it and runs it from `FwClock`. Each
path ("fw" for requests, "bw" for responses) has four queues: `outerIn` and
`innerIn` towards the module, `innerOut` and `outerOut` back. An event is the time of its
pending notification or `Never`; `Notify` keeps the earlier of two. `until` is the end of
the current `sc_start`; while it is set, gem5 does nothing but the two callbacks
(`InKernel`). `sc_start` leaves the processes due at its end time to the next
call, and this is why `FwClock` has to wake itself every cycle.

`sent`, `sentAt` and `delivered` are histories. Bounds: `MaxSent` messages per
path, sent until `LastSend`, and time ends at `MaxTime`, which is late enough
for everything to come out; the cycle time is 2 so that a message can come on an edge and
off it. Because time ends, this run does not check for deadlock.

| run | what it shows |
|---|---|
| `bridge` | types (among them the times of events), every non-empty queue has a wake-up, out within one cycle of the next edge, refinement of `FifoChannel` on both paths; every message comes out |

Fairness: both kernels execute what is due and time passes; gem5 is not obliged to
send.

## 5. Copy engine (`CopyEngine`)

Bytes are named by their offset in the operation; addresses enter only through
their offset in a cache line (`op.src`, `op.dst`), since that decides the packet
sizes. `tick` is `tickEvent`, `io` the packets in the TLBs (`translating`),
refused by a port (`stalled`) and in the memory (`sent`). The memories and TLBs are
external: any packet may be answered next, a translation may hit or miss, a port
may refuse. `dest` records, for each byte of the destination, whether the write that filled
it carried data that had been read. `readDone` and the current addresses are
functions of other state and are operators.

| run | what it shows |
|---|---|
| `copy_engine` | two operations of up to four packets, all kinds and alignments: every byte accounted for (none read or written twice, nothing outlives its operation), no lost wake-up, no garbage, refinement of `Transfer`; every operation completes |

Bounds: lines of 2 bytes and operations of up to 6 give aligned and unaligned
packets, a cut first and last packet, and a buffer (`BufferDepth` 2) that fills. Two
operations in a row are needed for a tick event left over from the first. `Begin`
stops after `MaxOps`, so this run does not check for deadlock; `NoLostWakeup` says
that the engine does not stop on its own.

Fairness: scheduled events run, TLBs and memories answer, and a peer that refused
a packet asks for it again (the port protocol obliges it to).

## 6. CUDA runtime (`StreamManager`, `CudaRuntime`)

`StreamManager` is the data behind `m_lock` and the operations on it;
`CudaRuntime` EXTENDS it with the threads: hosts in API calls, and
`gpgpu_sim_thread_concurrent`. An operation is named by its host and its number there;
`performed` and `issued` are histories.

What is one step. Each critical section under `m_lock` is one, except that
`destroy_stream` keeps the lock while it spins (`mLock`). `g_sim_lock` is a variable
(`simLock`) because `synchronize` holds it while it reads the streams. A stream's
own lock makes single operations atomic and needs no variable. `empty()` takes no
lock, so it reads one stream per step (`ScanBegin`, `ScanStream`, `ScanZero`) and
`iter` is its iterator; likewise `each` in `pushCudaStreamWaitEventToAllStreams`. Using
an iterator at a deleted stream, or pushing to one, is undefined: the model stops
there (`Crash`), and every property speaks of what happens before. The other polling
loops read one thing; a poll that fails changes nothing and is no step.

Kernels run functionally, in the simulation thread (`SimRun`): `can_start_kernel` always
returns false, and `umd_mode` 0, the mode that reaches the stream manager, launches with
`m_sim_mode` set. `register_finished_kernel` and `finish_functional_sim` are one step, since hosts
see only the first. `NumUpdates` is 0 because the update of an event is commented out.

| run | instance | what it shows |
|---|---|---|
| `cuda_runtime` | 2 hosts, 2 streams, 3 calls each, events and waits, with and without `CUDA_LAUNCH_BLOCKING` | types, with `m_last_stream` never at a deleted stream; the running kernel at the front of a stream that exists; refinement of `ProgramOrder`; a synchronizing call returns only when its operations are performed |
| `cuda_runtime_live` | 2 hosts, 1 stream, 3 calls each, exits, no symmetry | every call returns, unless the other host ends the simulation |

Bounds. `MaxCalls` calls of each host. Three are enough to create a stream, use
it, and destroy it or synchronize, while the other host does the same or uses the
default stream. An event and a copy take the same path (both are done as soon as
they are taken), so `cuda_runtime` has events, kernels and waits, and no copies.
A host uses the streams it created, except through the default stream's wait. Streams are not
created again under an old name. Because calls run out, these runs do not check for
deadlock; `CallsReturn` says that no call is left hanging.

Events are left out of `cuda_runtime_live` because a wait never ends (section 11), so
neither does a call that waits for its stream.

Fairness. Every thread keeps running (`WF` on each host's steps inside a call, and on the
simulation thread). `synchronize` takes `g_sim_lock` once per poll, so the lock
is free again and again but not continuously: `SF` says that a thread which wants it
then gets it. POSIX does not promise this for a mutex; it is what the code
relies on, and without it the simulation thread may never report that it is idle.
No other lock needs it. A host need not call anything.

## 7. Address translation (`ShaderMMU`)

A translation is named by its request, a prefetch by its page; an address is its page.
`startMisses`, `outstandingWalks` and `pendingWalks` are the code's queues; `walking` is
the set of translations that hold a walker, since walkers are alike. `faultStatus`,
`faultInfo`, `pendingFaults` and `timeout` are the page fault handshake, with
`inFault`, the CPU's GPU fault register, and `handling`, the CPU inside its handler, on
the other side. `l1` and `l2` hold pages, with any entry replaced where the code
takes the least recently used. The page table (`mapped`), the walkers and the CPU are
external: pages are mapped at any time or never, walks end in any order, and a walk finds the
page table as it is when it ends.

Actions. `FinishWalk` is `finishWalk` with all it calls: the walker goes to the oldest
waiting walk (`PassWalkerOn`), a retried fault is taken off and the next one raised, and
the walk answers its requests (`WalkDone`) or faults (`WalkFaults`). A second fault of a
retried page and a handler that returns with the timeout off are panics (`Stop`); a completed
prefetch uses a null TLB (`PrefetchDone`, finding 2).

| run | instance | what it shows |
|---|---|---|
| `shader_mmu` | 4 requests, 3 pages, 2 L1 TLBs, 2 walkers, TLBs of one entry, any pages mapped at first, with and without prefetching | types; one translation drives each page that is waited for, from one place; a walk waits only while all walkers are busy; the fault handshake; refinement of `Translator`; without prefetching every request is answered, unless gem5 stops or the CPU's handler of the fault is lost |
| `mmu_prefetch` | the same | violated: finding 2 |

Bounds. Two requests for one page queue behind a walk; three pages fill two walkers, queue
one walk and queue two faults behind a third; one entry per TLB makes every insertion a
replacement. A request is made once.

Fairness: gem5's events run, walkers finish, and the CPU takes the interrupt and leaves its
handler (`FinishPageFault`). Nothing makes the operating system map the page: then
gem5 panics, which the liveness property admits. It also admits `FaultDropped`: the
timeout is off although the CPU left its handler for a page fault of its own
(section 11). This is why the property speaks of the timeout and not of the CPU.

## 8. Load/store queue (`ShaderLSQ`)

One gem5 event or port call is one action. An instruction is a warp and its number there, an
access an instruction and a number. `program` is what the warps do, chosen at the start.
`instQueues`, `outstanding`, `injectBuffer`, `blockedAccesses`, `ejectBuffer` and `commitBuffer` are the
code's; `coalesced` and `translated` are the union of these lists over all buffers. Cycles
are counted only for the inject stage, where the code compares them (`injectIn`,
`nextInject`, `injectEvent` are distances from now); other events are booleans. Of the core the
module has what the queue meets: the wait at a fence (`membar`), the reserved
registers (`pending`) and the writeback register (`wb`).

Assertions the program can reach stop the model with their name (`halted`): a line that
is unblocked in the cycle of its first try, an instruction behind a fence that is cleared from the
ejection stage, and a fence answered after the scheduler ended the wait (finding 3).

Abstractions: `inject_width` and `eject_width` have their default 1; the latencies of
ejection and commit are abstracted; the lanes of a warp are translated and answered
together; `executeMemOp` and the dispatch are one step; other clients of the writeback
register are left out; TLB faults do not happen here (the MMU handles them); the
deadlock panic after a million cycles is left out.

| run | instance | what it shows |
|---|---|---|
| `shader_lsq` | 2 warps, 3 lines, 4 pairs of programs, pool of 3, 2 MSHRs, tags of 1 cycle | types; each stage with work has its event or a retry to come; every access in exactly one place and the fences' counts right; a line blocked exactly while one access to it is in flight; refinement of `WarpMemory`; the programs end and all buffers are free, or an assertion failed |
| `lsq_fences_awaited` | the same | violated: finding 3 |

Bounds. The programs are chosen for what they meet: a store, a fence and a load with another
warp on both lines; two loads whose accesses block each other and fill the MSHRs; an atomic
with two accesses to one line and stores to it; two fences in a row. Programs end, so
deadlock is not checked; `WarpsFinish` says that they do.

Fairness: events run, translations and cache accesses finish, the core issues and writes
registers back, time passes. That the scheduler asks about a fence (`PollMembar`) is not needed.

## 9. GPU device (`CudaGPU`)

The device of the gem5 build, as opposed to the runtime of section 6: threads are
simulated, CUDA calls are system calls that run to their end, and all operations are in
stream zero, since the calls that create streams and events are not implemented.
`queue`, `pending` and `tickScheduled` are the stream and its tick event; `runningTC`,
`unblockNeeded` and `blockedThreads` are `CudaGPU`'s; `device` is what runs, with
`"returning"` for a kernel that has ended and whose `FinishKernelEvent` is scheduled.
`isFree` is the flag in guest memory that the loop of the runtime library's `blockThread`
reads, one flag per thread because a thread waits in one call at a time.

Actions. `Copy` is the first system call of a copy, which ends with the guest about to block;
`BlockThread` is `cudaBlockThread`, `Return` the end of the guest's loop. `StreamTick` is
`streamTick` with `front` and `do_operation`; a kernel that is too early is taken back
(`TickCancels`). `EndOperation` is what the ends of copies and kernels share, with
`unblockThread` and its panics. `Sleep` is a system call of the thread's own, such as
a futex; it matters because it suspends the thread as `blockThread` does. Assertions and panics
stop the model with their name.

`overlapped` is a history variable: a call was made while another thread was inside one
or had work queued. From then on `checkUpdateThreadContext` may have made another thread the
running one.

| run | instance | what it shows |
|---|---|---|
| `cuda_gpu` | 2 threads, 4 calls, launch latency 1, copies and memsets with and without bytes | types; the tick, the head of the stream and what runs agree, and `blockedThreads` are the blocked threads (`NoLostWakeup`); two panics can be reached, each in one known way (`PanicsExplained`); a blocking call returns only when its thread's operations are done, overlapped or not (`ReturnsWhenDone`); it does return if calls do not overlap |

Bounds. Four calls are a memset or a kernel of each thread with a call that waits beside it; a latency
of 1 has a tick that is taken back and one that is not; of a number of bytes only whether
it is zero matters. Calls run out, so deadlock is not checked; `CallsReturn` says that
no call is left hanging.

Fairness: gem5 runs the events it has scheduled and the threads that are not suspended; copies
end, which is `OperationsComplete` of the copy engine, and kernels end. Threads need not
call anything, and a thread asleep need not wake up.

`CallsReturn` says nothing after calls have overlapped, because it would not hold: the
running thread changes ("Thread migrated") and a wake-up goes to a thread that may not be
waiting. `GPUSyscallHelper` asserts system call emulation; page faults and interrupts, which could
wake a blocked thread, do not occur then and are left out.

## 10. What is proved

For every value of the constants, under the named assumptions of the modules.

- `MSIProofs!TypeCorrect`: `Spec => []TypeOK`, from `NodeAssumption` (finitely many
  caches, none the directory) and `WorkloadAssumption`. `TypeOK` is inductive. Lemmas
  about `Sent`, `Popped` and `Multicast` carry the channels; one lemma per port covers the
  actions.
- `MSIProofs!DirEntryCorrect`: `Spec => []DirEntryByState`. Inductive together with
  `TypeOK`. The step that needs an argument is `PutSLast` in S: the entry may only go
  to I if the sharer list is empty afterwards, which follows from the
  classification of the event (one sharer, and the assertion of MSI-dir.sm:231 that it is the requestor):
  lemma `LastSharer`, by cardinality.
- `MSIProofs!ProtocolCorrect`: `Spec => []ProtocolInv`. None of the protocol's properties is
  inductive by itself: that a store may be performed depends on acknowledgements that
  other caches owe for messages that were sent to a sharer list the directory has
  since forgotten. `MSIInvariant` states what is true in between, in four parts.
  `ChannelShapes`: at most one message of each kind waits on a channel, and in which order.
  `Transactions`: the answer to a waiting cache is in one place, with the directory, the
  memory, one cache that has been told to send it, or one channel.
  `WriteRight` follows the right to write: it is at home, or with exactly one
  cache (`Source`), and every other cache it is promised to waits for a `FwdGetM` at
  its predecessor. `NoCycle` says that these forwards never close a circle, without which
  the chain could hang free of the owner and two writers would be consistent with the rest.
  `Copies`: whoever is asked to invalidate has the copy and whoever asked waits
  (`Invalidated`), the sharer list names holders (`SharerHolds`), every copy is on it or is being
  invalidated (`CopyTracked`), and the ack counts, negative ones too, are the number of those that
  still have to answer (`AckCountOf`). TLC checked `ProtocolInv` and `Current` on instances of
  two caches with two values and of three caches before they were proved. The proof has a
  section per part of the invariant and one lemma per action in it; an action's
  effect on the messages in flight is computed once (`PopInv`, `SendResponses`, `TakeRequest` and
  their like) and used by all parts.
- `MSIProofs!WriteExclusive`, `CopiesKnown`, `MessagesCounted`: `[]SingleWriter`,
  `[]DirectoryTracksCopies`, `[]MessagesAccounted`, consequences of `ProtocolInv`.
- `MSIProofs!OnePanic`: `Spec => []PanicsOnlyInSSm`. For each port, the message at its head and
  the state that `ProtocolInv` leaves possible with it have a transition.
- `MSIProofs!ValuesCurrent` and `Coherent`: `Spec => []Current` and
  `Spec => ImplementsCoherentLine`. `Current` adds to `ProtocolInv` that copies, grants, write-backs
  and, where it may be read, the memory hold the last value stored. Each action is
  then a step of `CoherentLine` (a grant, a write, a downgrade, a lost copy) or a stutter.
- `TlmWrapperProofs!InOrder`: `Spec => []InOrderExactlyOnce`. Inductive with the types of
  the queues. Lemma `StepOfPath` classifies every step, per path: untouched, one message
  accepted, or a prefix passed on; it reduces to regrouping concatenations of the four
  queues.
- `TlmWrapperProofs!PathsRefine`: `Spec => PathsAreFifoChannels`, from the same
  classification.
- `TlmWrapperProofs!NoWakeupLost` and `TypeCorrect`: `Spec => []NoLostWakeup` and `[]TypeOK`, from
  `TimeAssumption`. `ClockInv` relates the two kernels' clocks, their pending
  notifications and the queues; it is needed because a notification may be left over for the
  end of one `sc_start` and only the next call delivers it.
- `TlmWrapperProofs!LatencyBounded`: `Spec => []BoundedLatency`. `LatencyInv` bounds the age of
  a message by the stage it is in.
- `CopyEngineProofs!NothingUnreadIsWritten`: `Spec => []NoGarbage`, from `EngineAssumption`.
  Strengthened to `Inv`: the counters are in range, every packet that exists lies
  inside the operation and every write packet carries data that was read
  (`ValidIO`). The key lemma, `ReadDonePrefix`, says that `ReadDone`, a number,
  stands for a prefix of bytes that have all been read; it is shown by comparing the
  prefix set with an interval of the same cardinality (`ContiguousPrefix`).
- `TransferProofs!EngineTypes`, `BytesAccounted` and `EngineRefines`: `Spec => []TypeOK`,
  `[]EveryByteAccounted` and `ImplementsTransfer`, from `EngineAssumption`. The invariant is
  `AInv`. Besides the accounts themselves it says that a packet in flight is in
  one place (`Placed`: the TLBs, one port's queue once, or the memory), that packets of a
  kind do not overlap (`Apart`), that nothing is stored at or beyond `WriteOffset`
  (`WritesAccounted`), and that an operation runs exactly while bytes are missing
  (`OverWhenArrived`). With `Apart`, taking a packet out takes exactly its bytes out of those in
  flight (`TakenBytes`), so that `writeDone`, a sum of sizes, is the number of bytes that
  have arrived.
- `TransferProofs!WakeupsKept`: `Spec => []NoLostWakeup`. `WakeInv` adds that `needToRead`
  is set while something is left to read and `needToWrite` once something has been
  read. The core is `TickProgresses`: a tick that finds nothing in flight sends something.
  It needs the buffer to be unlimited or to hold a line, which `EngineAssumption` states
  and `bufferDepth = p.buffering * cacheLineSize` (copy_engine.cc:69) gives: with less than
  a line, both `tryRead` and `tryWrite` could wait.

- `CudaRuntimeProofs!RuntimeTypes`: `Spec => []TypeOK`, and
  `CudaRuntimeProofs!KernelStaysAtFront`: `Spec => []KernelAtFront`, from
  `RuntimeAssumption` and `CallAssumption`, for any hosts and streams. They are
  inductive together: that `front` hands out a stream of the list needs
  `m_last_stream` to be in it (lemma `RotationType`), and that the kernel stays
  needs a stream to be erased only when empty (`EraseStreamOK`) and operations to be
  pushed at the end (`EnqueueOK`).
- `CudaRuntimeProofs!RuntimeKeepsOrder` and `CallsReturnWhenPerformed`:
  `Spec => ImplementsProgramOrder` and `Spec => ReturnsWhenPerformed`, from `Inv /\ OrderInv`. Within
  a stream the order is that of `m_operations` (`QueueOf`, `IssuedBy`). With the default
  stream it is not in the queues at all: `PushOf` says that a host that leaves the first
  loop of `push` has nothing left in any stream, and that what it has in the default stream
  is its last operation until it has seen that stream empty. `ScanOf` says that the
  streams before the iterator of a host that synchronizes hold nothing of it; that this
  survives `add_stream` and `destroy_stream` of other hosts needs `StreamList`: a stream
  is in the list once, never comes back, and holds operations only while it is there.
  TLC checked `OrderInv` on the instance of run `cuda_runtime` before it was proved.

- `ShaderMMUProofs!MMUTypes`, `OneDriver` and `Handshake`: `Spec => []TypeOK`,
  `[]OneDriverPerPage` and `[]FaultHandshake`, from `MMUAssumption`, for any requests, pages,
  TLBs and walkers, with prefetching and every panic included. `Inv` conjoins them with
  `FaultKnown` (while there is a fault, `faultInfo` names its translation)
  and `HeadsPaged` (what waits for a page is for that page). The heart is
  `OneDriverPerPage`: the first of the requests waiting for a page is in exactly
  one of four places, so an action that moves a translation has to show that it was in
  no other; `PassedOn`, `WalksStart` and `StillDriven` say this for the moves the actions share.
- `ShaderMMUProofs!Busy`: `Spec => []WalkersBusy`, from `Inv` and the finiteness of
  `walking`: walks queue only while all walkers walk, and `PassWalkerOn` hands the
  walker that is done to a walk that had none.
- `ShaderMMUProofs!MMURefines`: `Spec => ImplementsTranslator`, from `AInv`: a request
  that was not asked for has no answer, one that waits has none yet and is once
  in `startMisses` or in its page's queue, and TLBs hold only mapped pages. Each action is
  shown to answer requests that wait, with the mapping of their page, or nothing.

- `ShaderLSQProofs!LSQTypeCorrect`, `LSQNoWakeupLost` and `LSQAccounts`: `Spec => []TypeOK`,
  `[]NoLostWakeup` and `[]AccessesAccounted`, from `ProgramAssumption`: an instruction has an
  access to some line unless it is a fence, because `addLaneRequest` takes a buffer only with
  a lane's request (`shader_lsq.cc:271-298`). `Inv` takes `AccessesAccounted` apart
  (`InOneBuffer` to `LinesAwaited`) and adds what its parts need:
  `Queues`, a warp's queue holds the last instructions it issued without a gap;
  `AccessesKnown`, an instruction behind the head has injected nothing and one at
  the head has something left, so that the next one's turn comes exactly once;
  `Committing`, an instruction waits to commit once and nothing is left of it, so that its
  buffer is released once; `OnePerLine`, which makes the freed line the one of the access
  that returned; and `FencesWait`, a fence is in its queue until what its warp injected before
  it is ejected, without which a fence could be answered early. The one lemma per action
  is split by what the action moves: `Filter` is applied to `translated` when
  the next instruction's turn comes and to the head of `injectBuffer` when lines are blocked.
- `ShaderLSQProofs!LSQRefines`: `Spec => ImplementsWarpMemory`, from `Inv`. An accepted
  injection is `Enter`, an ejection is `Return`, a commit is `Complete`; the others stutter.
- `Filter` is a recursive function in the load/store queue's module, so that it can be proved
  about. Its definition has a solution (`FilterExists`), its elements are those of the
  sequence that are in the set, and it repeats none that the sequence does not repeat
  (`FilterElements`); their order is not stated and not needed. Both go by induction over
  the set of the numbers that have the property (`SetInduction`, from the
  library's theorem on least elements), which needs no operator as a parameter.

- `CudaGPUProofs!GPUTypes`, `GPUKeepsWakeups`, `GPUPanics`: `Spec => []TypeOK`,
  `[]NoLostWakeup`, `[]PanicsExplained`, from `GPUAssumption`, for any threads, calls and
  launch latency. The three are inductive together: that no other panic is possible
  needs `DeviceDriven` (a running operation is the pending head of the stream) and `WaitersKnown`,
  and that the first is kept needs the model to stop where the code panics.
- `CudaGPUProofs!GPUReturnsWhenDone`: `Spec => ReturnsWhenDone`. `FreeMeansDone` is added: a
  thread in its loop whose flag is set has nothing queued, because the flag is set only when
  the stream is empty and the thread cannot queue anything before it returns.

Only model-checked: the liveness properties (`RequestsComplete`, `AllDelivered`,
`OperationsComplete`, `CallsReturn` of the runtime and of the device, `RequestsAnswered`,
`WarpsFinish`), because `ENABLED` and fairness are beyond the prover. Every safety
property and every refinement that a run checks is also a theorem.

## 11. Findings

1. `MSI-dir.sm:231` asserts that the sender of a `PutS` that meets one sharer
   is that sharer. A `PutS` can be stale: its sender was invalidated in the
   meantime and another cache is now the only sharer. gem5 aborts.
2. `shader_mmu.cc:609-610` passes the prefetch flag in the place of `start_tick`, so a
   prefetch is not marked as one: its fault is raised at the CPU instead of being ignored
   ("Ignoring since fault on prefetch", `shader_mmu.cc:411`), and when its walk succeeds
   `finalizeTranslation` uses a null TLB.
3. `shader.cc:3944-3945` ends a warp's wait at a fence when none of its registers is
   pending. Stores reserve none; if one is still in flight, the answer to the fence
   meets an assertion that the warp still waits (`cuda_core.cc:464`).

Smaller disagreements met while modelling, which the models reproduce but no run is
about:

- MSI. The directory in SS_m has no transition for a `PutS` of the last sharer
  (`MSI-dir.sm:472`), against `MSI-dir.sm:534`, "stall that request";
  `PanicsOnlyInSSm` says that this is the only gap. The directory can be in S ("At least
  one cache has the blk", `MSI-dir.sm:66`) with no sharer, which is harmless.
- Copy engine. `buffersFull` (`copy_engine.cc:281`) does not count reads in flight against
  the "maximum cache lines that the copy engine can buffer" (`GPUCopyEngine.py:48`).
- CUDA runtime. The update of an event is commented out (`stream_manager.cc:205`), so a wait
  for one never lets its stream go on. `cuda_runtime_api.cc:1934` synchronizes a stream before
  it is destroyed "to avoid the stream_manager from spinning forever"; a wait that another
  host pushes in between makes `destroy_stream` spin with the lock that would be needed to
  empty it. `concurrent_streams_empty` is "called by gpu simulation thread"
  (`stream_manager.cc:441`), but hosts call it without the lock and can stand at a stream
  another host deletes; the model ends there (`Crash`). `push` checks for "pending concurrent
  operations" (`stream_manager.cc:517`) and pushes in two critical sections.
- MMU. `handleFinishPageFault` takes the timeout off (`shader_mmu.cc:464`) before it
  sees that the CPU finished another fault; the timeout is there so that a fault "does
  not get randomly dropped" (`shader_mmu.cc:374`), and the handler's real end then panics.
- Device. Only `libcudaMemcpy` answers a count of zero itself (`libcuda_syscalls.cc:580`); a memset
  or a symbol copy of no bytes fails `assert(length > 0)` in the copy engine. A memset does not
  block its caller but sets `unblockNeeded` (`libcuda_syscalls.cc:807`): if the caller is in another
  system call when it ends, the device panics with "Cannot find blocked thread!"
  (`cuda_gpu.cc:644`). "Thread migrated!" (`cuda_gpu.hh:562`) also meets two threads that
  use the GPU at a time; the wake-up of one of them can then be lost.
- LSQ. The assertion that an unblocked access was tried before (`shader_lsq.cc:585`) fails when the
  line comes free in the same cycle. A warp with an instruction behind its fence (possible because of
  finding 3) fails the assertion at `shader_lsq.cc:652`. An inject event that is
  rescheduled to the present may run twice in a cycle and exceed `inject_width`
  (`ShaderLSQ.py:47`). `start_kernel_finish` is never called, so the queue is not flushed "on
  kernel end" (`cuda_core.hh:311`) and a kernel may be reported done with stores in it.

After a finding the simulator stops, so the liveness properties say so. All safety
properties hold up to that point.

## 12. Not modelled

- Functional accesses, statistics, tracing, and latencies where nothing depends on
  them.
- The rest of GPGPU-Sim and gem5-gpu: taken over from other projects and far larger than
  what CoreRunner adds.
- The grid scheduler firmware as a program: it is unfinished.
- The tutorial objects and configuration scripts.
- In the CUDA runtime: launches from kernels, the limits on cycles and CTAs, the
  performance mode, `ready` and `stop_all_running_kernels` (unused), the user mode driver path,
  and the API calls that do not reach the stream manager. `cudaStreamSynchronize` of the default stream
  is left out: after synchronizing, it goes on to use the null stream
  (`cuda_runtime_api.cc:1949-1951`).
- In the MMU: latencies, statistics, system call emulation mode (a fault is a panic there) and the
  prefetch buffer, which no translation can reach (finding 2).
- In the load/store queue: flushes, which nothing requests, and the bytes of the lanes. The
  pipeline of the shader core around it is GPGPU-Sim's.
- In the device: thread migration, page faults and interrupts (section 9), the limits on cycles,
  instructions and CTAs (off in every configuration), streams and events, statistics.
- The last parts of items 4 and 6 and items 5 and 7 of the plan, not yet written.
