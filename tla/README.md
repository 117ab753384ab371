# Scratchpad memories and IDMA engine: TLA+ models and proofs

This directory specifies the memory side of the many-core extension: the
scratchpad memories (SPM) with a CPU port and a DMA port, the IDMA engine that
copies blocks between them, and the gem5 parts both stand on: backing store,
simple memory, DMA port with its read FIFO, chunk generator, virtual-address DMA,
the non-coherent crossbar with its packet queues, the drain protocol, and the
event queues of a parallel simulation with their lock. Source paths below are
relative to `src/gem5_sim/src` unless they start with `tests`.

`PROJECT.json` lists components, runs, mutants, findings, hazards and theorems,
and maps every definition to the source lines it models.

## The system

A core starts a transfer by writing SRC, DST, SIZE and CMD of the IDMA
(`mem/spm/idma.cc`) and polls STATUS. The IDMA reads the whole source into
`dmaBuffer` and then writes the buffer to the destination. Each phase is a
`dmaVirt` call (`dev/dma_virt_device.cc`), which cuts the range at page
boundaries and starts one DMA action per page on a shared `DmaCallback`. The DMA
port (`dev/dma_device.cc`) cuts every action into packets of at most a cache
line with a `ChunkGenerator` (`base/chunk_generator.hh`), sends one per cycle,
keeps a refused packet for the retry and credits responses, which come in any
order, to their request. The packets pass a crossbar (`mem/noncoherent_xbar.cc`)
to the DMA ports of the scratchpads (`mem/spm/spm.cc`), which share the store
(`mem/abstract_mem.cc`) with the CPU port (`mem/simple_mem.cc`). In the crossbar a
layer (`mem/xbar.cc`) arbitrates for each destination, and a packet queue
(`mem/packet_queue.cc`) holds the responses of each CPU-side port. A display
controller (`dev/arm/hdlcd.cc`) reads frames through `DmaReadFifo`, the other client
of the DMA port.

Before a checkpoint `m5.drain` asks every object to drain and simulates until all
of them agree (`sim/drain.cc`, `python/m5/simulate.py`).

Each event queue (`sim/eventq.cc`) runs in one thread. Within a queue what
interleaves are events: peers accept or refuse, retries, responses, timers and
register accesses. A handler is atomic, so an action of a model is a handler.
Several queues run in threads of their own (`sim/simulate.cc`), which meet at the
barriers of global events (`sim/global_event.cc`) at least once per quantum; the
lock of a queue is an `UncontendedMutex`. There an action is what a thread does
between two accesses to something shared.

| part | source | modules |
|---|---|---|
| backing store, LL/SC reservations, backdoor | `mem/abstract_mem.{cc,hh}` | `AbstractMemory`, `AbstractMemoryProofs` |
| CPU port: bandwidth, response queue, drain | `mem/simple_mem.{cc,hh}` | `SimpleMemory`, `CpuPortProofs`, `ResponseOrderProofs` |
| scratchpad with its DMA port | `mem/spm/spm.{cc,hh}` | `ScratchpadMemory`, `ScratchpadProofs` |
| chunk generator | `base/chunk_generator.hh` | `ChunkGenerator`, `ChunkWalk`, `ChunkWalkProofs` |
| DMA request port | `dev/dma_device.{cc,hh}` | `DmaPort`, `DmaClient`, `DmaClientProofs` |
| read FIFO and frame reader | `dev/dma_device.cc`, `dev/arm/hdlcd.cc` | `DmaReadFifo` |
| virtual-address DMA, page table | `dev/dma_virt_device.cc`, `mem/page_table.cc`, `mem/translation_gen.hh` | `DmaVirt` |
| IDMA engine and its driver | `mem/spm/idma.{cc,hh}`, `tests/test-progs/spm_test` | `Idma`, `IdmaCopy` |
| crossbar | `mem/xbar.{cc,hh}`, `mem/noncoherent_xbar.cc` | `XBarLayer`, `NoncoherentXBar` |
| packet queue | `mem/packet_queue.{cc,hh}` | `PacketQueue` |
| drain protocol, and the crossbar under it | `sim/drain.{cc,hh}` | `DrainManager`, `XBarDrain`, `XBarDrainProofs` |
| event queues, global events, threads, barrier | `sim/eventq.{cc,hh}`, `sim/global_event.{cc,hh}`, `sim/simulate.cc`, `sim/sim_events.cc`, `base/barrier.hh` | `ParallelQueues` |
| lock of an event queue | `base/uncontended_mutex.hh` | `UncontendedMutex`, `AbstractLock`, `UncontendedMutexProofs` |

## Modules and how they correspond to the code

`AbstractMemory`. Addresses count LL/SC granules (`LockedAddr::mask`), so a CPU
access covers one granule and a DMA line several. State: contents,
`lockedAddrList`, whether a valid backdoor is with a requestor, and a history
variable `monitor` with what each context load-locked and nobody wrote since.
`access` has one disjunct per command class; `functionalAccess` and the backdoor
change data only.

`SimpleMemory` extends it with the timing port. Time is relative: an event or a
queued response holds the ticks it has to wait, -1 means not scheduled, and
`Elapse` lets a tick pass only when nothing is due. `dequeue(sent, event)` is
called by the event and by the retry; `sent` is the peer's answer. `age` in the
queue entries is history. The insertion loop of `recvTimingReq` is `insertPoint`,
the last entry at which the loop stops. It compares granules where `matchAddr` compares
addresses: a response is taken to match any other of its granule.

`ScratchpadMemory` extends `SimpleMemory` with the second port. Both ports call
the same `access`; only the CPU port refuses requests; the two queues, events and
retry flags are separate.

`ChunkGenerator` holds the pure operators, with wrap-around at `AddrSpace`.
`ChunkWalk` runs them as the loops of the DMA port's atomic mode do: a packet per
chunk, or a jump with `setNext` over what a backdoor provides.

`DmaPort` has the port's state and actions without a client: `trySendTimingReq`,
`sendDma` (called by a new action and by the send event), `handleResp`,
`recvReqRetry`, `abortPending`, drain. A `DmaReqState` is a record under an
identity from `Id`. `sendEvent` runs at some later step. A completion event is
scheduled for the current tick, and the event queue runs it before anything else
that is new, so while `due` is not empty nothing else happens (`Settled`).

`DmaVirt` adds the page loop and the callback counters. The loop is one event in
the code; here `loop` holds it between two iterations and blocks everything else.
`DmaClient` is the most general user: any of a set of transfers on any free
callback, with or without `abortPending`.

`Idma` puts registers, buffer, memory and the driver of `spm_test` on top of
`DmaVirt`. Data moves when the peer accepts a packet, which is when the scratchpad
calls `access`. `IdmaCopy` is the abstract specification: a virtual memory, a
busy flag and the bytes still to be stored; `Idma!ImplementsCopy` is the
refinement, with the bytes to be stored computed from the read phase's source or
from the packets not accepted yet.

`XBarLayer` and `PacketQueue` are pure: a layer or queue is a record, a method maps
it to the next one. `NoncoherentXBar` holds one layer per memory and per requestor,
the routing table, the queues, and the peers: requestors with a bounded number of
requests, some of which may drop a refused packet (the cache of the comment at
`mem/xbar.cc:295`), and memories reduced from `ScratchpadMemory` to a fixed latency.
A retry and the send it causes are one action, because they are one call chain;
in it `recvTimingReq` is given the layer and the port as they are at that point of
the chain. Times are relative, as in `SimpleMemory`.

`DrainManager` is the manager's state with the objects abstract: `tryDrain` takes
the set of those whose `drain()` answers Draining, `signalDrainDone` the set of
those that call it. `XBarDrain` and `DmaReadFifo` instantiate it and compute both
sets from the state; a step of the system takes its signals with it, and nothing
is simulated while the system is drained. A requestor goes on issuing while it drains,
as a DMA port does with its transmit list, and stops when it has signalled. The exit event by which the last signal
ends the simulation loop takes effect some steps later (`TryDrain`).

`DmaReadFifo` has the FIFO with its client, because `onEndOfBlock` of the frame
reader calls back into `startFill`; `resumeFill` is a recursive function for that
reason. The loop of `resumeFillTiming` is `toSend`, the number of requests it
makes. The data of an address is the address, so order is visible; `owed`, `blocks`
and `busy` are history.

`UncontendedMutex` has one step per access to `flag`, the `std::mutex` or the
condition variable, with spurious wakeups. `AbstractLock` is an owner that changes
only through nobody.

`ParallelQueues` keeps a queue as the sequence the two-level list represents:
`insert` puts an event on top of those of the same tick and priority. A local
event does one of: nothing, schedule on its queue, on another queue, migrate
(`ScopedMigration`), or `exitSimLoop`. `service_mutex` records who has a queue
across steps; what a thread does within one step under its lock needs no record.
The exit functions that schedule for the current tick, without a quantum
(`exitSimLoopNow`, `exitSimulationLoop`, `exitSimulationLoopNow`), are not called; see the
disagreements below.

## Runs

| run | what it shows |
|---|---|
| `reservations` | while stores, swaps and DMA lines keep off granules that are load-locked behind their first one, reservations are exact in both directions, also with a backdoor that bypasses the list |
| `spm_ports` | both ports of a scratchpad at once, on one store, with swaps, functional accesses and drains: neither loses a wakeup or starves a response, the CPU port is never early, keeps the order per address and retries what it refused |
| `chunks` | chunks cover the region once, stay in a block and end, also with jumps over backdoors that end at a block boundary or beyond the region |
| `dma_port` | two concurrent transfers over several pages, refusals, reordered answers, drains, and `abortPending` at any point: no byte, wakeup or callback is lost, no packet points to a deleted request, and what is not aborted completes |
| `idma_copy` | with a driver that waits, a transfer is a block copy (overlap included), STATUS is exact, and the driver always returns |
| `crossbar` | a core and a DMA engine compete for two scratchpad ports, under drains and restores: every waiting port has its wakeup and waits once, responses find their requestor, no request starves, the drain count is exact, Drained means nothing is on its way, and a drain ends unless a requestor issues for ever |
| `queue_mutex` | three threads: no lost notification, the lock is handed over, and the refinement of `AbstractLock`, which is mutual exclusion |
| `parallel_queues` | two queues and threads, two exit events of `exitSimLoop` that may meet at one tick, an interrupt, remote events, a migration, several `simulate()` calls and termination: no event in the past, at most a quantum between queues, one order of global events, each processed alone, and `simulate()` returns |
| `read_fifo` | frames of three lines with gaps, answers in any order, underrun, switch-off and drains: the pixels come in order, the FIFO never overflows, `onEndOfBlock` and `onIdle` are exact, nothing is pending in a drained system, frames and drains end |

Runs that end in a violation; each states what a comment or a document says:

| run | the code's behaviour |
|---|---|
| `reservations_wide` | a store over several granules clears the reservations of the first only |
| `spm_functional_write` | a functional write misses responses queued in the DMA port |
| `idma_restart` | a CMD write while the first packet of a phase waits for its retry starts a second transfer |

More disagreements were met while modelling and have no run of their own:

- `ScratchpadMemory` inherits `SimpleMemory::drain` (`mem/simple_mem.cc:264`) and answers
  Drained with responses in its DMA port, where `sim/drain.hh:78` says "Buffers
  drained". `DmaPort::drain` (`dev/dma_device.cc:177`) does so while a refused packet
  waits, where `dev/dma_device.hh:287` says that all accesses have completed.
  `Layer::drain` (`mem/xbar.cc:598`) has a comment that says it should also look for
  waiting ports, and looks at the state only. `DrainedMeansQuiet` and
  `DrainedNothingPending` show that the system is not declared drained for it, as
  long as whoever made the request (a `DmaCallback`, the FIFO, a core) is not.
- The comment at `dev/dma_device.cc:527` says nothing is fetched while draining.
  `handlePending` signals first, which ends the FIFO's Draining state, and
  `resumeFill` then fetches. The manager asks again, so `DrainedNothingPending` holds;
  `FifoDrainEnds` holds because a frame ends.
- A swap, conditional swap or atomic operation (`mem/abstract_mem.cc:417`) does
  not call `writeOK` and leaves reservations behind; hence `LocksKeptApart` below.
- `ChunkGenerator::setNext` to an unaligned address near the end of the region
  does not bound `nextSize` by `sizeLeft`, which then underflows. With
  `AlignedJumps = FALSE` in `MCChunkWalk.cfg` TLC shows it. The one caller,
  `sendAtomicBdReq`, gets there only with a backdoor that ends inside a block.
- `DmaPort::handleResp` never deletes an aborted request whose last packet returns
  before one of another request. No device of the repository aborts.
- `DmaReadFifo` does not check that a request fits beside the rest of a pixel.
  With `maxReqSize + pixelSize - 1 > fifoSize` a fill can stop for good with less
  than a pixel in the buffer; `FifoAssumption` excludes it.
- `sim/sim_exit.hh:46` says `exitSimLoop` exits at `curTick()`; it exits `simQuantum`
  later (`sim/sim_events.cc:118`), which is what makes `NotInThePast` hold.
- `exitSimLoopNow`, `exitSimulationLoop` with its default tick and `exitSimulationLoopNow`
  (`sim/sim_events.cc:122-152`) add no quantum: the exit event is for the tick of the
  calling queue. With several queues it waits on the asynchronous lists until the
  quantum ends, when the queues are past that tick, and the assertion of the main loop
  ("event scheduled in the past", `sim/simulate.cc:305`) fails. The mutant `ExitTime_now`
  of `parallel_queues` is `exitSimulationLoop`, and TLC shows `NotInThePast` violated.
  `exitSimLoopNow` differs in the priority (Minimum_Pri) only. Its callers are
  `cpu/probes/inst_tracker.cc:95`, `cpu/probes/pc_count_tracker_manager.cc:70`,
  `cpu/simple/probes/looppoint_analysis.cc:231`, `dev/lupio/lupio_sys.cc:57` and `:61`, and
  `systemc/core/scheduler.cc:377` and `:399`: they are right in a simulation with one
  queue. All results about `ParallelQueues` are for simulations without these calls.
- `mem/spm/ScratchpadMemory.py:46` describes STATUS as "0=Idle, 1=Reading,
  2=Writing"; the engine shows 1 in both phases and 2 when it has finished.

### Bounds, and why they are enough

- `reservations`: three granules, three contexts, two values. The list relates one
  context and one address at a time; a third granule gives an unrelated store.
- `spm_ports`: queues of three responses at the CPU port, so that one can be
  inserted between two others, and two at the DMA port; two latencies at each, so
  that a later request can be due earlier, equal and later, and a refusal can fall
  before, between and after them. `MaxQueue` and `MaxDmaQueue` bound what the peers
  let pile up; the code has no limit. Data is not told apart here (one value).
- `chunks`: all starts and sizes of a small region and several chunk sizes, zero
  included, within an address space that holds region and chunk.
- `dma_port`: four identities and two callbacks; transfers that cross a page and
  a line, one that is unaligned, one of size zero. Four requests alive let two
  transfers of two pages overlap.
- `idma_copy`: transfers that overlap, cross a page, or have size zero, a buffer
  they fit in, and registers of a small width; `MaxLive` bounds the callbacks of
  a kind alive at a time (two only in `idma_restart`).
- `crossbar`: a core with one request that may be dropped, a DMA engine with two,
  one port that refuses and one that does not. Packets occupy a layer for two
  cycles, a refusal for one and the memory is busy for two, so a retry of the
  memory comes before and after the release of the layer.
- `queue_mutex`: three threads (owner, one on the slow path, one that overtakes).
  `MaxFlag` bounds how often a sleeper may wake up by itself.
- `parallel_queues`: two queues, a quantum of two ticks, two exit events and a limit
  three ticks away, `Horizon` for the last `simulate()`; one event created by others
  and one migration. First events at tick 0 or 1 put the queues apart.
- `read_fifo`: lines of four in steps of five, requests of three, so that a line ends
  with a short request; a FIFO of eight, so that both limits (room, free requests)
  stop a fill; three frames, so that one starts with canceled requests pending.

The exact values are in the `.cfg` files and the `MC` modules. `parallel_queues` does
not check for deadlock, because the program may end (`terminateThreads`, `Horizon`);
`SimulateReturns` covers threads that wait for each other.

### Fairness

A scheduled event runs (weak fairness of the event actions), because the event
queue serves events in order of time and simulated time advances. In `spm_ports`
the passing of a tick has strong fairness: a requestor behind a crossbar sends one
packet per cycle at most, so requests cannot fill a tick for ever. A peer that
refused a packet retries and does not refuse for ever (strong fairness of the
accepted attempt): this is the timing protocol's obligation, which the CPU port
(`RefusedIsRetried`) and the crossbar (`EveryRequestAnswered`) meet. Every accepted
packet is answered (`DmaAlwaysAnswered` for the scratchpad). The driver runs on a
core that is never descheduled. In `crossbar` a requestor need take responses only while
none of its own requests waits to be accepted. `m5.drain` calls `tryDrain` until it succeeds, and the
script resumes afterwards. In `read_fifo` pixels are read when they are there and the
port sends and answers, with strong fairness because drains interrupt them.
Threads of the host are scheduled (weak fairness per thread in `queue_mutex`, of the
program as a whole in `parallel_queues`); nobody has to call `lock()`, and no spurious
wakeup or interrupt is relied on.

## Proofs

All are for every value of the constants, within the named assumptions of the
modules.

- `AbstractMemoryProofs`: `MemTypeCorrect`; `ReservationsKept`, inductive together
  with the type; `StoreConditionalAtomic` under `LocksKeptApart`: a store touches
  no load-locked granule beyond its first, and swaps and functional writes touch
  none; `reservations_wide` shows what happens otherwise. It uses that no backdoor
  is out while a lock exists, and adds that reservations are on granules some
  request load-locks.
- `ScratchpadProofs`: `DmaWakeupNeverLost` and `DmaNeverEarly`. Neither is
  inductive alone: that the retry is answered on time needs the wakeup invariant
  (a blocked head is due and no event is scheduled), and both need the types, to
  know that a queued delay is a number. `DmaInv` is the conjunction; one lemma
  per action of the port.
- `ChunkWalkProofs`: `ChunksExact` and `RegionHandled` for regions that, with one
  chunk added, stay below the wrap-around, and jumps to block boundaries or to
  the end (`AlignedJumps`). `WalkInv` adds that, with bytes left, `nextSize` is the
  minimum of `sizeLeft` and the chunk size, which is not zero.
- `DmaClientProofs`: `SendWakeupNeverLost`, with and without aborts. `SendInv` adds
  that the transmit list is a sequence of identities, for which those in use
  must be identities.
- `CpuPortProofs`: `CpuWakeupNeverLost`, `CpuNeverEarly`, `CpuDrainSignalComes` and
  `RefusedIsRemembered`, of the whole scratchpad (`SpmSpec`). `RespInv` joins the types,
  the wakeup, the time and the drain: the event is scheduled for the back of the
  queue, which is its head only because the queue is empty whenever no event is
  scheduled and no retry is owed. That an insertion never comes before the head
  needs a lemma about the maximum of a set of positions, from well-foundedness.
- `ResponseOrderProofs`: `SameAddressNeverReordered`. The order alone is not inductive:
  `RanksOK` adds that the ages in the queue are 1 to its length, each once, so that
  a new response is the youngest; `EmplaceAt` says where every entry is afterwards.
- `UncontendedMutexProofs`: `MutexExcludes`, `FlagSaysWhatItMeans`, `NotificationNeverLost`
  and the refinement `MutexImplementsLock`, for any set of threads. `MutexInv` adds who
  has the `std::mutex`, and that a thread about to sleep has it with `flag` above one.
- `XBarDrainProofs`: `DrainCountNeverWrong`, for any finite number of requestors and
  memories and any traffic: signals of objects that owe none are ignored.

Some invariants are in no run because a theorem has them for every instance:
`MemTypeOK`, `NoBackdoorWhileLocked` (part of `ReservationsKept`), `RequestWakeup`,
`DrainSignalComes`, `DmaNotBeforeItsTime`, `AllHandled`, `MutualExclusion` and
`FlagMeaning`.

Only model-checked: liveness (fairness and ENABLED are beyond the prover), the
sums over packets in `BytesConserved`, the cardinalities in `CallbackExact`
and `PendingExact`, `WithinBlock`, the refinement of `IdmaCopy`, the
crossbar's own invariants and `DrainedMeansQuiet`, and everything about
`ParallelQueues` and `DmaReadFifo`. The last two rest on recursive functions over
sequences (the merge of the asynchronous list, `resumeFill`), about which the
prover cannot do induction.

## Not modelled

Of the modelled parts: tracing, statistics, wording of messages and loading of
images. Atomic mode of the DMA port beyond its loop over the chunks; bypass mode of
the FIFO and its destruction with requests in flight. The size check `dmaBuffer`
lacks: transfers of the model fit. Mapping and unmapping of pages during a
transfer. Checkpoints of the IDMA, which has no serialization. Functional and
atomic accesses through the crossbar, its address ranges and express snoops. In
the packet queue, a send that enqueues another packet on the same queue within
the call: no response of a scratchpad comes back that fast. Objects created
during a drain. A request that a peer sends to a scratchpad's CPU port from within
`sendTimingResp` (`mem/simple_mem.cc:228`): behind a crossbar the response is queued first. A
requestor connected to a scratchpad without a crossbar that takes no response before
its request is accepted. Exit events that repeat, are given a later tick, or come without a quantum.
Statistics dumps and external signals of the main loop.

The rest of the repository is the gem5 simulator, about a million lines: caches and
the coherent crossbar, Ruby (largely generated from SLICC), DRAM controllers, CPU
models, instruction sets (generated), devices, guest system-call emulation with its
futex map, bridges, and the Python configuration. They are not on the scratchpad
path, the properties here do not depend on their internals, and most of them are
data transformations or timing estimates rather than protocols. Each of the
protocols among them would be a project of its own.
