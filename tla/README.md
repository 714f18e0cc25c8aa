# A formal model of matmulfree_KRIA

TLA+ models, TLC runs and TLAPS proofs for the ternary matrix-multiply core of
this repository: the Chisel hardware under `src/main/scala` and the software
under `software` that drives it.  `PROJECT.json` is the index: components,
runs, mutants, the map from definitions to source lines, findings, hazards and
theorems.  This file explains them.

## 1. The system

One accelerator instance is a `Core` (behind `CoreTop`) in programmable logic,
one to four AXI DMA engines, and a single-threaded user-space driver.

```
 software (mmfree_lib, fpga_runner, bench)
    |  calls
 mmfree_runtime  --MMIO: push / status / ack-->  AxiInstructionHandler --load/compute/store--> Core FSM
    |                <-------- irq (UIO) -----------      ^---- loadDone/computeDone/storeDone ---|
    |  registers                                                                              |
 AXI DMA 0..3 --MM2S beats--> CoreTop join --s_axis--> actBram | inQ -> array -> drain -> outBram
              <-S2MM beats-------------------m_axis---- outQ <------------ read pipeline <---|
```

| component | state | operations | interacts with |
|---|---|---|---|
| `AxiInstructionHandler` | held AW/W/AR beats, B and R responses, one buffered instruction, dispatcher state, error, last opcode, interrupt bit | write FSM, read FSM, dispatcher; all advance every clock | host (AXI), Core (ready/valid commands, done pulses), interrupt line |
| `Core`: LOAD/COMPUTE | two FSMs, activation memory, `inQ`, register slice, counters, captured tile, drain counters | accept, load beat, enqueue pair, step array, capture, reset array, drain row, finish | handler, `s_axis`, systolic array, output memory |
| `SystolicArray`, `PE` | array FSM, PE FSM, counter, accumulators | three-way rendezvous, step, done, reset | Core |
| output memory (`OutMem`, `SyncReadMem`) | rows, registered write port, read stages | write, enabled read | drain engine, store engine |
| `Core`: STORE | read pointer, prime counter, beat counter, `outQ` | accept, fill, emit, stall, finish | output memory, `m_axis` |
| `CoreTop` | none (combinational join) | all ports valid -> one wide beat | DMA ports, Core |
| `CoreConfig` | none | derives widths, depths, port counts | Core, `mmfree_runtime.geom_init`, `geometry.py` |
| `Vector` | FSM, lanes | element-wise operations | nothing in this repository |
| `mmfree_runtime`, `mmfree_dma.h` | mapped registers, UIO descriptor, buffers | open, load, compute, store, wait, poll, dump | Core, DMA, UIO, udmabuf |
| `libmmfree` | registered projections, activation and output regions | register, bitlinear batch, sequence pipeline | runtime |
| `fpga_runner`, `mmfree_bridge`, `mmfree_pack` | files, tensors, packed weights | pack, load, call libmmfree | libmmfree |
| `bench.c` | sweep of shapes, buffers, a count of failures | resolve geometry, size and open buffers, test the port order, run and verify every shape | runtime |

What makes each hard, and what correct means:

* **Handler.** Three FSMs share a clock and two registers.  AW and W arrive in
  either order; an acknowledge can coincide with a completion; a status word is
  a snapshot delivered cycles later; software never looks at write responses.
  Correct: an instruction accepted with OKAY is executed exactly once, in order;
  no completion goes unseen; a status word is the verdict on the instruction it
  is read for; every accepted instruction is retired.
* **LOAD/COMPUTE.** The weight stream runs ahead of the array across tile
  boundaries, the drain of one tile overlaps the stream of the next, the write
  port of a batched core is pipelined.  Correct: each weight beat meets its own
  activation row, each output row holds its own tile's sum when the completion is
  raised, an instruction consumes exactly the beats its DMA delivers, and it ends.
* **STORE.** Addresses lead the emitted beat by the read latency while `m_axis`
  may stall at any beat.  Correct: the beats are the rows, in order, once, with
  `tlast` on the last; after `storeDone` the memory may be rewritten.
* **Driver.** Timeouts against late answers, UIO re-arming, cached buffers,
  several DMA engines that must agree on lengths.  Correct: a call that returns
  success has moved the data of that call.
* **libmmfree.** One activation and one output region, both behind a cache the
  DMA does not snoop, reused in a pipeline.  Correct: a result is read before the
  next step overwrites it, and from memory; one operation at a time.
* **Geometry.** Scala, C and Python derive beat widths, ports and buffer sizes
  each on its own, from a preset, environment variables and a manifest.  Correct:
  what passes the checks makes the software program exactly the beats the Core
  moves, inside its buffers, with every weight and activation on its lane.

* **Core composition.** Three engines and the handler share one state register,
  one output memory and the done pulses; the store queue drains while the next
  instruction runs.  Correct: no engine acts on another's command, and whole
  programs stream the products they ask for.
* **Benchmark.** The program is told the geometry, the wiring and the arithmetic
  of a bitstream it cannot inspect, and sizes its buffers once.  Correct: it passes
  on the device it was meant for, and a clean exit means that it was that device.

`PROJECT.json` lists the hazards one by one, each at its line, with the
properties that would catch it and, where none does yet, why.

## 2. Modules

| module | models | shape |
|---|---|---|
| `Signals` | "valid is low" | the constant `None` |
| `InstructionHandler` | `AxiInstructionHandler.scala` | registers as variables, wires as operators, one disjunct per FSM state; `HandlerTick(in)` is one clock edge with input pins `in` |
| `HandlerSystem` | the handler between a host and the engines | `Cycle(v)` joins one edge of the handler with one step of the host's access in flight and of the engine; `Host` selects the software's order of accesses |
| `InstructionService` | what the handler promises, with no bus and no clock | `Accept`, `Run`, `Retire` |
| `CoreService` | what the Core promises to the driver and the DMAs: `InstructionService` whose executions move beats, and a short output queue | `Step` (software, engine and stream may act at once), `Reset` |
| `CallService` | what a call on the device promises to its caller | `Begin`, `Move`, `Return`, `GiveUp`, `Quit` |
| `MatmulService` | what the library promises to the model that calls it | `Ask`, `Give`, `Drop` |
| `HandlerProofs` | theorems about `HandlerSystem`, with any host and with the driver's thread | section 5 |
| `CoreProofs` | theorems about `CoreSystem`: its control, over `HandlerProofs`, and the data of LOAD and COMPUTE | section 5 |
| `ResultProofs` | theorems about `CoreSystem`: drain engine, output memory, STORE | section 5 |
| `RuntimeProofs`, `LibraryProofs` | theorems about `Runtime` and `Library` | section 5 |
| `ConfigProofs` | lemmas: quotients, powers, largest elements, recursive sums, and the geometry a host and the Core derive | section 5 |
| `GeometryProofs`, `BenchProofs` | theorems about `Geometry` and `Bench`, over `ConfigProofs` | section 5 |
| `CoreBuild` | the sizes `Core.scala` derives from its parameters | `config`, chosen in `Init`: one run checks several builds; `state`, the register all engines read |
| `SystolicArray` | `SystolicArray.scala`, `PE.scala` control | `ArrayTick(in)` |
| `OutMem` | `OutMem.scala` and the `SyncReadMem` alternative of `Core.scala` | `OutMemTick(write, ren, addr)` |
| `ComputeEngine` | LOAD and COMPUTE of `Core.scala` over `SystolicArray` and `OutMem` | one action per FSM state, `ComputeEngineTick` for what runs in every state |
| `StoreEngine` | STORE of `Core.scala` over `OutMem` | `AcceptStore`, `Store`, `OutQueue` |
| `Core` | the FSM of `Core.scala` over both engines | `CoreTick(cmd, beat, tready)` is one clock edge |
| `CoreSystem` | `Core` behind `InstructionHandler`, the driver's thread and the two DMA streams around it | `Cycle(tvalid, tready)`; instantiates `HandlerSystem` with the Core's FSM as its engine |
| `AxiDma` | one channel of an AXI DMA as `mmfree_dma.h` programs it (the engine is external) | operators on a channel record |
| `Runtime` | `mmfree_runtime.c`: open, the calls, both waits, close; over `InstructionService` (the Core), `AxiDma` and the kernel's UIO | one action per MMIO access or system call of the thread, one per event of the hardware |
| `Library` | `mmfree_lib.c` and `matmul_seq`: pack, sync, LOAD, COMPUTE, STORE, readback over caches, DDR and the chip | one action per call of the thread, one per line the engine moves, `Evict` and `Fill` for the cache |
| `CoreConfig` | `CoreConfig.scala`: derived widths, node sizes, presets | operators |
| `HostGeometry` | `mmfree_geom_init` and the manifest check | operators |
| `Geometry` | `mmfree_lib_open`, `mmfree_register`, `geometry.py`, `packer.py`, bring-up of `fpga_runner` | a deployment chosen by `Init`; `Pack`, `Open`, `Register` |
| `Ternary` | a PE lane's accumulation, sign expansion, the reference product | operators, recursive functions |
| `Bench` | `bench.c` on a bitstream, over `HostGeometry` and `Ternary` | one action per phase of `main` and `run_shape` |
| `MCHandler`, `MCCore`, `MCRuntime`, `MCLibrary`, `MCGeometry`, `MCBench` | instances for TLC | tags, builds and programs, kill points, clusters, deployments |

How they build on one another.  Four abstract specifications are the joints between the
layers; each is implemented from below and relied on from above, and every line of this
table is proved for all values of the constants, under the hypotheses section 5 names:

| below | implements | used above as |
|---|---|---|
| `HandlerSystem` | `InstructionService` (`ServiceRefinement`) | the part of `CoreService` that software sees |
| `CoreSystem` (the RTL) | `HandlerSystem` (`HandlerContract`), `CoreService` (`CoreContract`) | the hardware of `Runtime`, which is `CoreService` too (`DeviceIsCoreService`) |
| `Runtime` | `CallService` (`CallContract`) | the device of `Library`, which is `CallService` too (`OnlyCalls`) |
| `Library` | `MatmulService` (`MatmulContract`) | what `fpga_runner` gets |

So a joint is one specification that the layer below is proved to implement and whose
behaviours are all the layer above takes the device to have.  That the layer above leaves
none of them out is by construction and not proved: the hardware actions of `Runtime` are
the parts of `CoreService!Step` one at a time, each enabled whenever the DMA channels give
or take the beat; `Library` restricts `CallService` to one channel, since its ports move
together, and to calls that fail before they move anything, since after a later failure
the process ends (`Exit` in `Runtime`).  `HandlerSystem` leaves the engine
abstract (it takes a command, some time later it is done); `HandlerContract` says that
the Core's FSM is such an engine, so that what is proved of `HandlerSystem` for every
engine of that kind holds of it (`DriverServed`).  `Geometry` says which calls are made
with which byte counts, and that the Core moves exactly those.  What the joints carry is
counts of beats, order, completion and verdicts; the contents of the beats are related
inside `CoreSystem` (`StreamIsRows`, `ResultLanded`), `Library` and `Bench`.

Conventions.  In the hardware modules (`Signals` to `CoreSystem`) a step is one
clock cycle: every register's next value is the conjunction of the assignments
the source makes in that cycle, so simultaneous
events (a completion and an acknowledge, an enqueue and a dequeue) are steps and
not interleavings; what is nondeterministic is the environment, that is which
`valid` and `ready` pins are high and when an engine finishes.  A register with a
valid flag is one variable whose value is `None` while the flag is low.  A
payload is symbolic: an instruction is an opcode and a serial number, a stream
beat is `<<instruction, position>>`, an accumulator is the sequence of
(weight beat, activation row) pairs it has summed, so that "the right sum" means
"the right pairs, each once, in order".  Definitions commented *Mutant* are
wrong variants of the definition that follows; nothing refers to them, the runs
are expected to fail when one replaces its original.

How the state corresponds to the code:

* `aw`, `w`, `b`, `ar`, `r` are `awHeld/awAddrReg/awLenReg`, `wHeld/wDataReg`,
  `bSending/bRespReg`, `arHeld/...`, `rSending/rDataReg/rRespReg`; `pending` is
  `pendingValid/pendingInst`; ids, strobes, sizes and burst types are not kept
  because the handler ignores or echoes them.
* In `HandlerSystem`, `txn` is the access in flight of a single thread (an
  AXI master that issues one at a time: device memory accesses of one thread to
  one peripheral reach it in program order), `phase` is the position in
  `mmfree_wait_done`, `engine` is the Core outside `sIdle`.  `accepted`, `ran`,
  `outcomes`, `unacked` are history and influence nothing.
* In `ComputeEngine`, names are the source's with `Reg`/`Ctr` dropped; `slice` is
  `armSlice`.
  A LOAD reads row 0 of the activation memory while writing it; the value is
  undefined and is not modelled as such because `cInit` reads the row again
  before it is used.
* In `CoreSystem`, `prog` is the sequence of operations the software pushes and
  `stream` what the MM2S engines have still to deliver; the AXI pins are always
  ready (`HandlerSystem` has their interleavings).  `owed` is history: the output
  beats the STOREs taken so far ask for and S2MM has not taken yet.  The thread pushes an instruction
  once the DMAs of the one before are idle; it does not wait for S2MM, so that the
  next instruction may run over a store queue that is still full, which is more than
  the driver allows.
* In `OutMem`, `pipe` is `rpipe` of the URAM module, or the memory's own output
  stage followed by the `pipe` registers of `Core.scala`.  Chisel leaves the output
  of a disabled `SyncReadMem` read undefined, and the generated Verilog is
  `en ? mem[addr] : 'x`; `Disabled` lets it hold, follow the address, or be junk.
* In `Runtime`, `pc` is the place in `mmfree_open`, `input_op` or `mmfree_store`
  and `port` the loop variable over DMAs; `uioOn` and `uioEvent` are the interrupt
  line's mask and the event the UIO file has not read; `result` is the call's return
  value.  `mmfree_load` and `mmfree_compute` are the same call ("in"): both are
  `input_op`.  `mmfree_open` resets channel by channel, DMA 0's MM2S and S2MM first; one
  that stays in reset ends the open, and its process, with the channels after it as they
  were left.  An error bit of DMASR ends a call as a timeout does.  A LENGTH written
  to a busy channel is either ignored or a new transfer.  `wedged` and `foreign` are
  history, but for the assumption below.
* In `Library`, `actCache` and `actDdr` (`outCache` and `outDdr`) are the two places
  a line of a cached buffer may live; the cache may write back or fetch a line in
  any step.  A vector entry is `<<projection, index, row>>` and an accumulator the
  record of what went into it.  A cluster is `matmul_seq`'s `proj_ids`;
  `matmul_batch` and `matmul` are clusters of one.
* In `Geometry`, `dep` is the combination of bitstream, environment, packing,
  manifest and checkpoint; `entries` is the table `packer.py` writes and
  `manifest.cpp` reads; `handle` is the sizes of the mapped buffers (a whole node where the
  program asks for none), and a batch of 0 is one row (`HostBatch`).  Bytes are
  numbers: the models' real dimensions are used, since TLC only multiplies them.
* In `Bench`, buffer contents are functions of the job that filled them
  (`BeatCode`, `ActByte`), so the state holds job numbers; `ActValue` and `Draw` stand
  for the pseudo-random generator.  `fault` records that a device failed, as opposed
  to a failure the program brought on itself.

## 3. Runs

| run | instance | shows |
|---|---|---|
| `HandlerDriver` | the driver's order of accesses; LOAD, STORE and an undefined opcode; 3 instructions | `IrqNeverDropped`, `AcceptedIsWritten`, `CompletionIsMine`, `StatusIsOfCompleted`, `PushNeverRefused`, `TypeOK`, and that every wait returns |
| `HandlerFree` | any access at any time, two-beat writes included; COMPUTE and an undefined opcode; 3 instructions | `Whereabouts`, `ServiceRefinement` (refinement of `InstructionService`), `EveryAcceptedRetires` |
| `Core` | three builds (batch 2 with one and two output beats a tile, `maxAcc` 3 and 4; batch 1 with `maxN` = `maxAcc` = 4), programs of up to six instructions, every timing of the weight stream, back-pressure at every beat on batched builds | `ResultLanded`, `DmaDelivered`, `PairsAligned`, `StreamIsRows`, `TypeOK`, `HandlerContract` (refinement of `HandlerSystem`), `CoreContract` (refinement of `CoreService`), and that every program completes |
| `StoreBlock` | a batch-1 build with back-pressure | **violates** `StreamIsRows` |
| `ComputeOneRow` | inner dimension 1 | **violates** `ProgramCompletes` |
| `Runtime` | two ports, both waits, calls of 1 and 3 beats, 3 calls, 2 processes, failing resets and starts, timeouts, kills, reload | `SuccessIsMine`, `PendingIsThisOp`, `ProgrammedWhileIdle`, `TypeOK`, `CallContract` (refinement of `CallService`), and that every call returns |
| `Library` | batch 2, three projections, clusters of 1 to 3, an operation may fail before it is issued | `ConsumedIsProduced`, `TypeOK`, `MatmulContract` (refinement of `MatmulService`), `OnlyCalls` (its device is `CallService`), and that every cluster ends |
| `Geometry` | all thirteen `K26_MMFree` presets with their checkpoints (twelve geometries: the 230 MHz B6 differs in its clock only); all pairings of ten bitstreams and packings with eleven environments, one of them with `MMFREE_BATCH=0`, with and without manifest and strict mode | `BeatCountsAgree`, `TransfersFit`, `WeightsMeetTheirLanes`, `LoadBeatsAreRows`, `ModelRuns`, `TypeOK` |
| `GeometryBatch` | two ports, batch = xDim | **violates** `LoadBeatsAreRows` |
| `GeometryLength` | N = maxN, M up to maxM | **violates** `MaxMatmulStreams` |
| `Bench` | one, two and four ports, every wiring, both arithmetics, batches up to xDim, pow2, named, custom and empty sweeps, repetitions, verification on and off, failing devices | `OwnBenchPasses`, `TransfersFit`, `CleanMeansMatched`, `NothingAfterFault`, `TypeOK` |
| `BenchSelfTest` | four ports, every wiring | **violates** `SelfTestProves` |

Bounds. Three instructions are one more than the handler can hold (one buffered, one
executing), so a third meets every state the first two leave behind. In `Core` a
STORE is of 1 to 12 rows with a latency of two and of four, shorter and longer than
the read pipeline and the queue. Inner dimensions of two and of exactly `maxAcc`
(where a power of two truncates to zero in the PE) are both ends of the PE counter's
range; two output beats per row and batch two make a drain (4 cycles) longer than an
array pass (2), which is the only case in which a capture waits. Up to three column
tiles, two COMPUTEs on one LOAD, a reload with another dimension, a LOAD between a
product and its STORE and a product stored twice cover wrap-around, stale counters
and what one engine leaves for the next. In `Runtime` two ports are enough to start
one without the other; a call of three beats fills `outQ` (two) and leaves one, one
of a single beat is first and last at once; three calls and two processes let a
completion outlive the call, and the process, that caused it. In `Library` a cluster
of three is the shortest in which packing, computing and reading back are three
different projections; batch two with a caller of one row leaves a stale row; widths
differ so that a short STORE leaves lines of a longer one. `Geometry` compares every
lane of small projections and, of large ones, the first and last beat at both ends
of each port (`InspectedBeats`): the maps are affine between those. `Bench` compares
every lane of every vector; its shapes have 1 to 3 or 4 rows, so that a weight
misplaced by a row, a tile or a port shows, and its widest shapes have several
column tiles on every array. Four ports are the most the driver has, and the fewest
with two ports that are neither first nor last. The programs, calls, clusters and
deployments are finite: all runs but the two `Handler` runs switch the deadlock
check off.

Fairness. The clock never stops. `HandlerSystem`: a `valid` or `ready` pin the
interconnect holds low eventually rises, an engine that took a command eventually
raises done, and the thread that waits is eventually scheduled; it is never obliged
to push. `CoreSystem`: the clock runs, the MM2S DMA delivers again and again while
it has beats and the Core takes them, `m_axis` is again and again taken, and the
thread is scheduled; that an engine which took a command is done some day, which
`HandlerSystem` assumes, follows there (`ProgramCompletes`). `Runtime`: the thread
is scheduled, each engine and channel moves what it can, and an interrupt that is
pending and enabled is delivered; nothing makes a reset or
a start fail or a wait time out, so
`EveryCallReturns` says that waits return without their timeout (`MMFREE_TIMEOUT_MS
= 0`). `Library`: the thread and the engine are weakly fair, the cache is not.
`Bench` has no liveness property.

Assumption of the batch-1 builds in `Core`: the S2MM channel never stalls (`Stalling`);
what happens when it does is `StoreBlock`.

Assumptions of `Runtime`, each a named guard: a process ends after a call of its own
failed (`Exit`; `fpga_runner` does); after a timeout the device is loaded again
before the next process opens it (`Reload`, `wedged`); a process is killed only at
the points of `CrashAt`, here `QuietPoints`, where none of its instructions is
outstanding and no beat of a STORE is on its way (with kills elsewhere TLC finds the recovery of `mmfree_open`
wanting: a kill in the wait, `<<"wait", k>>`, violates `PendingIsThisOp`, and one between
the completion of a STORE and S2MM idle, `<<"drain", "out">>`, violates `SuccessIsMine`:
beats left in `outQ` lead the next STORE); the kernel has delivered an interrupt that was pending
and enabled before the next process opens the file (`OpenUio`).

Assumptions of `Bench` (`BenchAssumption`): a geometry that does not match the
bitstream is refused (MMFREE_STRICT, or a geometry `mmfree_geom_init` rejects; what a
mismatch does to byte counts is `BeatCountsAgree`), activations are whole bytes and
hold the values drawn, output lanes are 4 or 8 bytes (the two words `run_shape` knows
to read), and no shape is empty or has a single row, which the Core would not finish
(finding 2).

## 4. Findings

Five runs end in a violation; `PROJECT.json` quotes the line each contradicts.

1. `StoreBlock`: in single-batch cores a stall of `m_axis` does not freeze the
   memory's own output stage; the row read just before the stall is undefined.
2. `ComputeOneRow`: an inner dimension of one is accepted by every check and
   never completes.  Of the whole repository only a unit test (`PESpec.scala:41`) knows that
   the PE needs two.
3. `GeometryBatch`: `batch <= xDim` does not ensure that the rows of a batch fit one
   port's slice when there is more than one port; every preset is within the limit.
4. `GeometryLength`: the advertised largest matmul of the `maxN` = 8192 presets
   exceeds the 23-bit LENGTH register of the DMAs; no named model needs it.
5. `BenchSelfTest`: the port-order self-test sees the first and the last port only; a
   swap of the two between them passes it, and is caught by verification.

## 5. Proofs

Each theorem holds for every value of the constants its assumptions allow.  The
assumptions are the named ASSUMEs of the modules (TLC evaluates them in the runs);
where a theorem has a hypothesis besides, it is given with it below.
Every proof has the same plan: an inductive invariant that contains the property,
its conjuncts checked by TLC before they were proved, one lemma per action or per FSM
state, and under it one step per conjunct.

### The handler, whatever the host does (`HandlerProofs`)

For every host, every set of operands and opcodes and every bound on the number of
instructions, bursts included:

* `TypeCorrect`: `Spec => []TypeOK`.
* `NothingLost`: `Spec => []Whereabouts`: every accepted instruction is
  buffered, or held by the dispatcher, or retired, in order and in one place; an
  engine has taken the one the dispatcher holds exactly when its state says so.
* `ExactlyOnce`: `Spec => []ExecutedExactlyOnce`, an invariant that no run lists, since
  the refinement below says as much.
* `Refines`: `Spec => ServiceRefinement`, that is, the cycle-accurate handler
  implements `InstructionService`.

The inductive invariant is `HandlerInv == TypeOK /\ Whereabouts /\
ExecutedExactlyOnce`.  `TypeOK` is not inductive alone: `inst` may be `None`, and
that an engine is never handed an empty register needs the third conjunct of
`Whereabouts`, which ties the dispatcher's register to a position in `accepted`.
`ExecutedExactlyOnce` is not inductive either: that what is appended to
`outcomes` is the right command is the last conjunct of `Whereabouts`.  Nothing in
`Whereabouts` mentions the host; this is why the result holds whatever the
software does, and why the findings above are about *which* instruction is
accepted and *when* software sees its completion, never about what happens to an
accepted one.  The argument per step: `AcceptEnd` says what a write transaction
does to the sequence and its buffer; `WhereaboutsStep` has one case per
dispatcher state (the fetch split on whether something is buffered);
`ExecutionStep` has one case for a completion and one for none; the refinement maps
a cycle to an optional `Accept` together with an optional `Run` or `Retire`.
Assumptions: `NoneAssumption` (the "valid is low" value is none of the payloads)
and `HostAssumption` (parameters have their types).

### The driver's order of accesses (`HandlerProofs`)

* `BeatsPairUp`: `AcceptedIsWritten`, for every host that writes single beats
  (`~Bursts`; the driver has no burst, and with one the property is not even stated
  of the right beat).
* `EveryInterruptSeen` (`IrqNeverDropped`), `BufferSuffices` (`PushNeverRefused`),
  `WaitSeesOwnCompletion` (`CompletionIsMine`), `WaitReturnsOwnVerdict`
  (`StatusIsOfCompleted`), for `Host = "driver"` and any number of instructions.

The invariant is `DriverInv == ChannelInv /\ Counts /\ Snapshots` over `HandlerInv`.
`ChannelInv` says where each beat of the access in flight is (at the host or in the
handler's register, never in both) and what the dispatcher's error and opcode
registers say of the histories; `Counts` ties the thread's phase and the access in
flight to the lengths of `accepted` and `outcomes`; `Snapshots` is the point of the
proof: a status word captured cycles before it is delivered is still true when it is
read, because in the phases in which it is read nothing can retire.  `TxnAssumption`:
an access is not the "none" value.

### The Core as the handler's engine (`CoreProofs`)

* `CoreImplementsHandler`: `Spec => HandlerContract`.  A cycle of the composition is a
  cycle of `HandlerSystem`: the Core takes a command only in `sIdle`, raises done only
  outside it, and the streams do not touch the handler.
* `DriverServed`: the four properties of the driver, of the composition.

The invariant is `CompositionInv`: `DriverInv` of the instance, the Core's state
register agrees with the dispatcher's (`state # "sIdle"` exactly in `awaitingDone`),
and the operands the thread pushes are the program's.  No hypothesis: every build
that elaborates (`BuildAssumption`), every program (`SystemAssumption`).

### The data of LOAD and COMPUTE (`CoreProofs`)

* `EveryBeatTaken`: `DmaDelivered`.  No beat is left over, none is awaited in vain
  by an engine that ended.
* `EveryBeatMeetsItsRow`: `PairsAligned`.

Both under `ProgramsFit` (in `CoreSystem`), a property of the programs and not of a run: a LOAD has
between one and `maxN` rows; a COMPUTE has at least two rows (one is finding 2) and one
output, and the latest LOAD before it has at least as many rows.  That is what `mmfree_lib`
ensures of the operations it issues, and the programs of the `Core` run meet it
(`MCProgramsMeant`, which TLC evaluates).
The theorems hold for every `xDim`, batch, `maxAcc`, memory and pipeline depth, every
length of program, and every timing of the two streams and the thread.

The invariant is `ComputeInv == CompositionInv /\ Fits(config, prog) /\ Held /\ DataInv`.
`Held`: whatever holds an instruction holds the last one pushed, with a valid opcode.
`DataInv` has six parts:

* `Armed`, `Loading`: `stream` is exactly what the instruction has still to take.
* `Activations`: the activation memory holds the rows of the latest LOAD, as far as
  it has come.
* `Tiling`: counters of a COMPUTE; the column tile, the beat within it, the total.
* `Queued`: array, register slice, queue and stream, laid end to end, are consecutive
  pairs of the COMPUTE, from the first of the tile (`Base`) to the last of the last.
  A weight beat is paired on entering `inQ`, possibly a tile ahead of the array, so
  the pair's number and not the array's position decides its row.
* `Array`: the PE's truncated counter and the array's state against how many pairs
  have been summed; without it the array might end early or take the next tile's
  first pair before its reset.

`PairsAligned` alone is not inductive: that the next pair is right needs the read
address of the activation memory, which is a counter that wraps at `rows`, to be the
number of the next beat modulo `rows` (`Queued`), and that the row is there
(`Activations`).  `QueueStep` says what enqueueing does, `ArrayStream` what the array
does in one clock, `FillStep` joins both with the stream; then one lemma for each state
of the two FSMs.  Arithmetic about quotients and remainders is stated once, in front.

### The products and the stream (`ResultProofs`)

* `ProductsLanded` (`ResultLanded`): from the completion of a COMPUTE on, each row of
  its product is in the output memory at its address.
* `StreamCarriesRows` (`StreamIsRows`): the beats on `m_axis` are the rows asked for, in
  order, each once, `tlast` on the last.
* `DoneMeansAllRead`: `DoneMeansRead`, an invariant of `CoreSystem` that no run lists
  since `CoreContract` says more, and `CoreTypeCorrect` (`TypeOK`).
* `CoreKeepsTheContract` (`CoreContract`): the composition implements `CoreService`.

With them every safety property of the `Core` run is proved for every build, program and
timing.  The hypotheses, all of them operators of `CoreSystem`: `ProgramsFit` as above;
`ProgramsNarrow`, a COMPUTE's product fits the output memory (`mmfree_register` refuses a
wider one); and for the last four, `ProgramsStored`, a STORE comes after a COMPUTE, asks
for at least one beat and for no more than the product has, and `"block" \notin Stalling`,
`m_axis` of a single-batch core does not stall (finding 1 is what happens otherwise).
`MCProgramsMeant` has TLC evaluate the three on the programs of the `Core` run.

`LandedInv == ComputeInv /\ OutputInv` is the invariant behind the first.  The write port
of a batched core holds a row for one more clock, so `Results` speaks of `Settled`, the
memory once that row has landed, and `Memory` says that `drainFlush`, on which
`ComputeDone` waits, covers that clock.  `Draining` says that what is left of the captured
tile is the rows from the drain counters on of the product of that tile; that the capture
is the right sum is `Queued` of `ComputeInv`, and that a capture finds the drain engine
free, so that no tile is lost, is the guard the source puts on it.  A row drained later
leaves earlier ones alone because rows of different tiles, batch rows or beats have
different addresses (`SlotInjective`), and stays in the memory by `ProgramsNarrow`.

`StreamInv` adds `Sending` and `Reading`.  `Sending`: `owed` is `outQ` followed by the
beats the STORE in execution has not enqueued.  `Reading`: the read stages hold the rows
just before `rdPtr`, which is ahead of `storeBeat` by the read latency less the prime
counter, and a read that is not enabled moves neither; this is what breaks with a stall on
a single-batch build, where a disabled read leaves the memory's own output undefined.  The address of
the k-th row of the walk is k (`RowAt`, `AskedRow`).  `RangeInv` adds the ranges of the
counters.

`CoreKeepsTheContract` maps a clock cycle to a `Step` of `CoreService`.  What an execution
has still to move is `Unmoved`: for a LOAD or COMPUTE what `stream` holds, for a STORE
`storeTotal - storeBeat`.  Under `StreamInv`, a command finds nothing of its predecessor
unmoved and is charged its own beats (`ContractStarts`; `EveryBeatTaken` is why); an execution
moves at most one beat a cycle, of a STORE never into a full queue (`ContractMoves`); the done
pulse comes with nothing left to move; and the flags in `outQ` are those `CoreService` puts
there, because the beat enqueued is marked exactly when `Unmoved` is one (`ContractQueue`).
That the engine runs the oldest accepted instruction, and that at most two are
outstanding, is `Whereabouts` (`ContractCurrent`, `ContractAccepts`).

### The driver (`RuntimeProofs`)

* `RuntimeTypeCorrect`: `Spec => []TypeOK`.
* `SuccessMeansDone` (`SuccessIsMine`), `NoStaleCompletion` (`PendingIsThisOp`),
  `ChannelsReprogrammedIdle` (`ProgrammedWhileIdle`, an action property), under
  `CrashAt \subseteq QuietPoints`: a process is killed only where the code recovers.
* `CallsKeepTheContract` (`CallContract`), under the same hypothesis: the driver, the Core,
  the DMAs and the kernel's UIO together implement `CallService`.
* `DeviceIsCoreService`: `Spec => Device!CoreSpec`, with no hypothesis.  The hardware in
  `Runtime` behaves as `CoreService` allows, reloads (`Resets`) included: the contract
  `CoreKeepsTheContract` proves of the RTL is the one the driver is modelled over.

For every number of ports, calls and processes, every call length, depth of `outQ`,
both waits, and any failing resets, starts and timeouts.  The invariant, `RuntimeInv`, has
`HardwareInv` (at most one instruction is outstanding; the beats programmed in each
channel and the beats in `outQ` are those that instruction has still to move; nothing
moved belongs to another call), `ThreadInv`, `ChannelInv` and `CallInv` (which of the
channels the loop over ports has reached, and whose call is in the Core, at each
place of the thread), `InterruptInv` (where an interrupt or a UIO event may be pending)
and `ResultInv`.  `SuccessIsMine` is far from inductive: that a call which returns saw its
own completion depends on there being no event left by an earlier call, that on the
acknowledge and re-arm at the end of each wait and on the drain when a file is opened,
and that on no instruction being outstanding then.  Assumptions: `RuntimeAssumption`
(ranges of parameters), `ResultAssumption` ("no result yet" is no result).

For `CallContract` a call is under way (`Underway`) from its first register access until it
has a result, which `UnderwayInv` ties to the places of the thread; a channel the loop over
ports has not reached owes all beats of the call (`BeatsLeft`).  The steps that matter are a
joined beat, which moves on every port at once only because `RuntimeInv` has all channels
of the call at the same count and none of them moving for another, and a return
(`SuccessIsMine` in the step before it).

### The library (`LibraryProofs`)

For every batch, every set of projections and clusters and every number of operations,
whatever the cache evicts or fetches in any step:

* `LibraryTypeCorrect`, `OwnProducts` (`ConsumedIsProduced`), and `OneAtATime`, that
  `OneOpOutstanding` holds, an invariant no run lists since `OnlyCalls` says as much.
* `AnswersInOrder` (`MatmulContract`): the library implements `MatmulService`.  `OwnProducts`
  says that each result is right, this that each projection of a cluster gets its own,
  once, in the order asked, that a failed cluster ends without a product, and that the
  next one is not disturbed.
* `DeviceIsCallService` (`OnlyCalls`): the device the library is modelled over is
  `CallService`, in which there is one call at a time.

The invariant, `LibraryInv`, ties the place of the thread to the operation in the engine
and to how far packing and reading have come (`Place`), and says, for each place, which
buffer holds which projection's lines: `PackedLines` (written, perhaps still in the
cache), `FlushedLines` (in memory, so that the DMA reads them whatever the cache does),
`LoadedBeats` and `DrainedTiles` (on chip, as far as the engine has come), `StoredLines`
and `Unread` (in memory, with no stale copy in the cache).  The two sync calls are what
moves a fact from one conjunct to the next.  Assumptions: `LibraryAssumption` (the
shapes `mmfree_register` lets through) and `NoneAssumption`.

### The geometry (`GeometryProofs`)

For every deployment, that is every bitstream that elaborates, whatever environment,
packing, manifest and checkpoint it meets (`GeometryAssumption`: parameters are numbers
and small enough for `Log2Ceil`):

* `GeometryTypeCorrect` (`TypeOK`) and `TransfersStayInside` (`TransfersFit`): the latter
  even when the environment matches nothing.
* `BeatsAgree` (`BeatCountsAgree`), under `LanesAreBytes`: an accumulator of four bits or
  fewer would have lanes of zero bytes in the Core, which the host rounds up to one.
* `WeightsMeetLanes` (`WeightsMeetTheirLanes`), without a hypothesis, and for every
  number of inspected beats, hence for every beat and lane.
* `LoadBeatsMeetRows` (`LoadBeatsAreRows`), under `BatchesFit` and `WholeBytes`: each bit the
  Core cuts out of a LOAD beat as row r is that bit of the activation the host packed
  there.  Without `BatchesFit` finding 3 is a counterexample.  `WholeBytes` says that
  `aWidth` is a multiple of 8: the host packs `aWidth / 8` bytes and the Core cuts `aWidth`
  bits, so that for a width of 4 (the Tiny preset) nothing is packed and for one of 12 the
  rows are not where the Core looks.  TLC refutes `LoadBeatsAreRows` for either; every
  deployment of the runs has 8 or 16, which `MCDeploymentsMeant` asserts.

The invariant, `GeometryInv`, is what the program's checks leave behind.  `Table`: the rows
of the packer's table are consecutive, so that an address of the blob belongs to one
row (`WeightsMeetLanes` needs this to know that it reads its own projection's code), and
some row has the largest inner dimension and some row the largest output: those are
the witnesses of the maxima that `mmfree_lib_open` is asked for.  `Buffers` and
`Registrations`: what is open passed `OpenSucceeds`, what is registered `Registers`.
`SameDerivation` (in `ConfigProofs`) is the core of `BeatsAgree`: the C and the Scala
formulas, which round and cap differently, agree on whatever passes the manifest check.

### The bench (`BenchProofs`)

For every deployment that meets `BenchAssumption` (section 3):

* `OwnBenchStreamed` (`OwnBenchPasses`, as long as `SweepStreams`: the DMAs can count every
  transfer of the sweep in question) and `OwnBench` (for every sweep, under `MaximaStream`,
  that they can count those of the largest shape; `MCDeploymentsMeant` has TLC evaluate it).
* `BenchTransfersStayInside` (`TransfersFit`), `FaultIsFinal` (`NothingAfterFault`),
  `BenchTypeCorrect` (`TypeOK`).
* `ExactProduct`, about the arithmetic alone: if N terms of at most A in size have
  `N * A < 2^(w - 1)`, then what a lane of w bits accumulates, wrapping, and `expand_acc`
  reads back, is the product over the integers.  `OwnBenchPasses` rests on it: with
  w = `Log2Ceil(maxAcc) + aWidth` and the activations `bench.c` makes up, every shape of a
  geometry is within that bound.

The invariant is `BenchInv`.  `Prepared`: what `main` has checked by each phase, in particular
that the sweep holds shapes of the geometry only, and that the buffers are those of `Needs`.
`Contents`: memory, device and output hold the job in hand, although job numbers pass
through three variables and several repetitions.  `Counted`: fewer shapes failed than have
been run, which bounds the exit status.  `Passing` is the property made inductive.  In the
step of `Check` the data is followed through the machine: `LoadedActivation`, bytes of a
batch in one port's slice, joined, cut to `aWidth` bits, read as signed; `StreamedCode`, lane
and tile from port, beat and position; `OutputMatches`, the lane STORE emits.

`Accumulate`, `Dot`, `Joined` and the filter of the sweep are recursive functions.  What they
compute is not proved by an induction theorem, which takes an operator, but by
induction over a set of indices (`Induct`), from their recursion equations
(`RecursionExists`: such a function exists).

### Only model-checked

* All liveness: TLAPS has neither fairness nor ENABLED.
* `ModelRuns` of `Geometry`: it is about the thirteen `K26_MMFree` presets and their
  checkpoints, all of which TLC runs.  `CleanMeansMatched` of `Bench`: that wrong wiring or wrong arithmetic is seen
  depends on the values drawn for the matrices, so it can only be checked on given ones.

## 6. Not modelled

* `Vector`: no module instantiates it and no driver reaches it.
* A reset of the Core in mid-operation: nothing but a reload asserts it.
* In the driver: the fallback of two 64-bit stores on hosts without 128-bit ones,
  register mapping, `mmfree_dump_state`.
* In `bench.c`: timing and throughput figures, tables, and the descriptors its
  cleanup closes.  `cpu_bench.c` is a CPU baseline and never touches the device.
* In `libmmfree`: statistics and direct weight loading, a bounded copy.
* `mmfree_bridge`, generator entry points, Vivado and board scripts, file formats and
  quantisation: no state machine of their own.
* Host software on a core whose activations are not whole bytes: outside `WholeBytes`
  (section 5), and no preset the software is written for is one.
* A process killed while an instruction is outstanding or STORE beats are queued
  (outside `QuietPoints`): the code has no recovery but loading the bitstream again;
  section 3 says what TLC finds when such kills are allowed.

## 7. What is left

Modelled: handler, LOAD/COMPUTE, STORE, their composition, driver, library, geometry,
arithmetic, benchmark.  Proved: every safety property and every refinement of the runs
except `ModelRuns` and `CleanMeansMatched` (section 5).

* The 64-bit fallback of push.
* `Bench` over `CallService`, as `Library` is: it takes an operation to move its beats or to
  fail as a whole.
* One specification that composes `Library`, `Runtime` and `CoreSystem` and carries the
  contents of beats across the joints of section 2, which today carry counts.
