# A verification project for the out-of-order RISC simulator

The repository holds a cycle-based C++ simulator of a superscalar out-of-order
processor (`src/`, `include/`), two golden models that execute the same programs
in order (`golden/`, `tools/golden_rv32im.py`), and tools, tests and workloads.
This directory holds TLA+ models of the simulator's own logic, TLC
configurations that check them on small instances, and TLAPS proofs about the
core data structures. Paths below are relative to the root of the repository;
`processor.cpp` stands for `src/processor.cpp` and so on.

The simulator is single-threaded and deterministic. What makes it hard is the
concurrency it simulates: dozens of instructions in flight, results arriving in
an order decided by latencies and arbitration, wrong paths that are undone
while their effects are still on the way, and small tags that are used again.
The models keep that and turn what decides the order (latencies, predictions,
bus and unit choices) into nondeterminism, so that a checked property does not
depend on the timing of one configuration.

## 1. Inventory

One call of `Processor::tick` does, in this order: apply the result wakeups
registered in the last tick; commit; writeback (branch resolution, recovery,
bus grants); dispatch (addresses, issue to units, loads, memory requests);
rename; decode; fetch. The stages talk through shared state, not through messages.

| Part | State | Operations | What makes it correct |
|---|---|---|---|
| Reorder buffer (`reorder_buffer.cpp`) | circular array of entries, `head`, `tail`, `active_count` | `dispatch`, `undispatch`, `writeResult`, `commit`, `squashYoungerThan`, `ageFromHead` | a bounded FIFO: program order, only finished entries leave, a squash removes exactly what is younger |
| Alias table and checkpoints (`register_alias_table.cpp`, `rat_checkpoints.cpp`) | register -> tag, one saved table per tag with a valid bit | `rename`, `commit`, `restoreStateScrub`, `save`, `restore`, `onCommitClear`, `invalidate` | a source operand names its youngest older writer, after any recovery too |
| Core pipeline (`processor.cpp`) | `inst_table`, `arf`, `cdb_wakeup_pending_`, `freed_rob_tags_`, `fetch_pc` | the stages of `tick`, `earlyRecover`, `broadcastCDB`, `processStoreBuffer` | retires what the golden model executes; ends when it ends |
| Reservation station (`reservation_station.cpp`) | entries with operands | allocate, wake, pick ready, squash | no instruction waits for a result that has passed |
| Fetch queue, dispatch register (`instruction_fetch_queue.cpp`, `dispatch_reg.cpp`) | fetched instructions, the bundle being renamed | enqueue, dequeue, capture, accept a prefix, flush | nothing skipped, repeated or kept past a recovery |
| Load/store queue, store buffer (`load_store_queue.cpp`) | entries by age, committed stores in a ring | allocate, address, data, `dispatchLoad`, `enqueueStores`, `issueMemoryRequests`, `applyDataResps`, squash | a load returns the youngest older store; only non-speculative stores reach memory, in order |
| Execution units (`execution_engine.cpp`) | a pipe per unit | issue, advance or freeze, squash, branch results | a result is neither lost nor duplicated |
| Bus arbiter (`cdb_arbiter.cpp`) | a pending beat per lane, round-robin pointer | `selectGrants`, `commitPending`, `invalidateTags` | a result reaches its owner, no lane starves |
| Data cache (`mem/dcache.cpp`) | ways, miss registers, compare pipes, answers | lookup, hit, miss, join, fill, drain, write-back | memory as if accesses were atomic, each request answered once |
| Instruction cache (`mem/icache.cpp`) | lines, one miss, a held answer | request, fill, flush | an answer from before a redirect is never used |
| Memory system, DRAM (`mem/memory_system.cpp`, `mem/dram_simple.cpp`) | one request in progress for each client | arbitrate, tick, route | requests and answers are matched |
| Return address stack (`return_address_stack.cpp`) | ring of return addresses | push, pop, snapshot, restore | a return goes where its call came from |
| Predictors (`gshare_predictor.cpp`) | counters, history, targets | predict, update | only speed depends on them |
| Decoder, loaders, command line, statistics | none of interest | pure functions and input/output | conformity with RV32IM |
| Golden models (`golden/golden_model.cpp`, `tools/golden_rv32im.py`) | pc, registers, memory, call stack | one instruction at a time | they are the specification |

What is hard to test, by kind, each listed at its line in `PROJECT.json`:
stale names (checkpoints, wakeups, pending beats, answers of both caches and return
stack snapshots that outlive what they name), order (wakeup against rename,
several mispredictions in a tick, two ports for one line, fill against
write-back, bytes of one load from stores of several ages), limits (every queue
full at once, a ring that wraps, a store buffer with holes, waiting lists that are
full, edges of the arithmetic), and progress (an operand nothing will make ready,
a lane nobody grants, a cycle of full queues, a miss whose line a redirect has
orphaned, a request that is passed again and again).

## 2. Modules

    InFlightQueue  <= ReorderBuffer -> RenameUnit -> OoOCore => InOrderMachine
                                       |             |
                                       |             OoOCoreProofs
                                       RenameUnitProofs
    InstructionCache -> CachedFetch => PredictedPath
                        CachedFetchProofs
    ReturnStack => CallMachine                  MachineWords -> GoldenRv32 -> HexIsa
    ReturnStackProofs
    DataCache       StoreForwarding       ResultBus       Gshare
    |               |                     |
    |               |                     ResultBusProofs
    |               StoreForwardingProofs
    DataCacheProofs -> DataCacheValues

`A -> B`: B extends A. `=>` and `<=`: the detailed module implements the abstract
one under a refinement mapping, checked as a PROPERTY. `MC*` modules give the
constants for TLC and hold the test programs. `X_Something` next to a definition
`X` and marked "mutant" is the same code with a plausible error; each property
has one that violates it.

- **ReorderBuffer** (`RobSpec`). One action per method. Tags are array
  indices as in the code, and `AgeFromHead` is `ageFromHead`. The payload is the
  destination register, the done bit and the value. `InFlightQueue` is what it
  promises: enter at the back, finish, leave from the front when done, keep
  only the oldest n.
- **RenameUnit** (`RuSpec`) extends it with the alias table, the checkpoints
  and `freed_rob_tags_`. A tick is a sequence of stages (commit, resolve,
  broadcast, rename), because the scrub set lives from the commit of a tick to
  its last recovery. `Recover` is the part of `earlyRecover` that concerns these
  tables; `CommitOne` is the loop body of `commitStage`. An instruction is a plain
  one, a store, or a control instruction with or without a link register.
- **OoOCore** (`CoreSpec`) is the whole tick. It reuses the actions of
  RenameUnit and adds programs, operands, wakeups, execution, loads with
  forwarding, the store buffer and the front end. The reservation station and
  the load/store queue have no variable of their own: which entries they hold
  follows from the state of the live instructions (`InRs`, `InLsq`), and their
  capacities are guards. `inst[t]` is `InstInfo`. A stage that is a loop in the
  code is one action per turn where turns interact (commit, branch resolution,
  broadcast, rename, fetch) and one action where they do not (dispatch).
- **InOrderMachine** (`GoldenSpec`) is the trace golden model with the link
  jumps of the RV32IM one. Its pc is the core's next instruction to commit,
  wherever it is; its memory is the core's memory with the retired part of the
  store buffer applied.
- **DataCache** (`CacheSpec`) is the cached memory path: the clients in the
  load/store queue, the cache, and its DRAM traffic. `committed` is the only
  history variable: what the retired stores have written. `FairCacheSpec` adds
  the fairness for progress.
- **StoreForwarding** (`SfSpec`) is the load/store queue with the store buffer
  and the ideal memory, by bytes: `AccessMask`, `StoreWdata`, `LoadExtend` and
  `MergeBytes` are the helpers of `load_store_queue.cpp`, `DispatchLoad` takes
  each byte of a load from the youngest older store in the queue, else in the
  buffer, else from memory. A byte is the name of the store that wrote it, so
  that two stores never write the same value by accident. `arch` is the history
  variable: memory in program order.
- **InstructionCache** holds the cache as one record and its methods as
  operators from caches to caches, because `tick` calls them in the middle of
  other stages. **CachedFetch** (`CfSpec`) is `fetchStage` for hex programs on top of
  it, with the skid buffer, the predictions recorded at the request, the
  return stack used by always-taken prediction, and recoveries that come at any
  time, lead anywhere and put back any stack. It also has the ideal instruction
  memory. **PredictedPath** is what fetch promises: the queue gets consecutive words
  of the path its own predictions describe, from the last redirect on.
- **HexIsa** is `decodeInstruction`, `executeOp`, `branchTaken`, `branchTarget` and
  what `tryRenameOne` makes of a decoded word; **GoldenRv32** is the step of
  `golden_rv32im.py`, translated separately (it splits the fields and the
  cases in its own way); **MachineWords** has the words both work on.
- **Gshare** (`GsSpec`) is the predictor; `streak` remembers how often the last branch
  went the same way.
- **ResultBus** (`BusSpec`) is the path of a result from a unit or a load to the
  reorder buffer, including the pending beats and the round-robin pointer. `id` tells
  the successive owners of a tag apart.
- Modules that end in **Proofs** or **Values** hold theorems
  only (section 4); they define nothing of the system but the parts of the inductive
  invariants and, in OoOCoreProofs, one instruction in program order as an operator.
- **ReturnStack** (`RsSpec`) is fetch, resolution and retirement around the return
  address stack; `CallMachine` is the golden model's call stack.

### Abstractions, and why they are sound

- Latencies of units, memory and DRAM, the choice of ready instructions and (in
  OoOCore) of bus lanes are choices: every order the code can produce is among
  them. ResultBus models the arbitration itself.
- Predictions are choices. A conditional branch may be predicted either way, a
  register jump to any target. ReturnStack keeps the code's rule for
  returns, because there the prediction mode matters.
- In OoOCore and DataCache accesses are whole words and forwarding decides by address
  equality; StoreForwarding has the sizes and byte masks. It starts loads and
  writes stores whenever the queue allows, which includes what the tick does, and
  writes the store buffer in order for each word: that is the ideal memory's
  rule, and what `NoLostStore` says of the cache. An access that crosses a word is
  cut off by the simulator and is not among the inputs.
- In StoreForwarding a store's write to the ideal memory and the freeing of its
  entry are two steps; a load may look in between.
- HexIsa and GoldenRv32 compute with words of `XLEN` bits, 14 in the instance
  (TLC's integers have 32 bits, products need twice the width). Immediates and shift
  amounts are compared at their full width before they are used. Overflow of a
  C++ `int` wraps, as the build's does. JALR with a funct3 other than 0
  is left out of the comparison: it is not an instruction of RV32IM, and the two
  disagree on it. The simulator decodes it to a no-op (`decode.cpp:225`), as HexIsa does;
  the golden model does not look at funct3 and jumps (`golden_rv32im.py:305`).
- In CachedFetch a pc counts words, a line's data is its own number, and
  INSTR_INVALID is a pc outside the image. The least recently used way is a choice.
  In always-taken mode a bundle with a call and a return behind it records the
  prediction made with the call pushed, while fetch went where the stack pointed before:
  PredictedPath allows this one difference (`HasCall`): the call itself, a JALR
  predicted not taken, is mispredicted and squashes all that is behind it.
- OoOCore has the ideal memory system, where stores leave the buffer in order;
  a load's word is read when its result is broadcast. It cannot have changed
  since the load started: only older stores can write it, and with one of them
  unfinished or buffered the load waits or forwards.
- `CoreAssumption` asks of a program what the trace loader and the assembler give:
  counters from 0 on, registers that exist, no destination register on a
  conditional branch (`rd_used` is false there) and targets the program counter
  can hold.
- In DataCache `lru` is the order of the last uses in a set (0 for the latest), which
  is all the code reads from its time stamps. `NthPort` is the order in which
  the ports present their requests in a tick.
- In DataCache the core is reduced to what the queue lets through: a load asks
  the cache when no store to its word is buffered, a store retires when no load
  of its word is outstanding (older ones are done, younger ones forward from it).
- A squashed load leaves its request in the cache: `earlyRecover` calls
  `flushOnRedirect`, which flushes the instruction cache only, and the late
  answer is rejected by its cookie. `DCache::flushLoads` is called by nothing.
- ResultBus has quiet instructions (stores and control instructions without a
  link value) that may squash; what a link jump squashes, a quiet
  one in its place squashes too.
- `max_mem_ports` is the width of the core, at least the number of cache ports
  in the modelled configurations.

## 3. Runs

| Run | Bounds | What it shows |
|---|---|---|
| `units`: reorder buffer | 3 entries, 2 registers, 2 values | window, occupancy, FIFO refinement. 3 entries wrap around, are full and empty, and have an entry in the middle |
| `units`: calls | stack of 2, window of 4, 3 programs, always-taken | returns go to callers |
| `units`: memory | queue of 3, buffer of 2, 4 accesses out of a signed word and halfword load, a byte and a halfword store, 2 words, forwarding on and off | a load's bytes are those of program order, memory ends as program order says |
| `units`: isa | every opcode, funct3 and the funct7 that matter, operands at the edges of a word | decoding and execution agree with the golden step |
| `units`: gshare | 2 bits of history, 2 target entries, 3 branches, 2 targets | after a streak a branch is predicted, target included |
| `rename_unit` | 3 entries, registers 0..2 | exact alias table and checkpoints. Two writers of a register around a control instruction, tags reused while a checkpoint names them |
| `core` | 4 entries, width 2, 2 bus lanes, station and queue 3, store buffer 2, fetch queue 3, 3 words | refinement of the golden model on 8 chosen and 113 generated programs |
| `core_finishes` | 3 entries, width 2, 1 bus lane, station and queue 2, store buffer 1 | every program that ends in the golden model ends, with all queues at their limit |
| `data_cache` | one way for 2 lines, 1 port, 2 stores, 1 load slot used twice, 2 miss registers of 2 waiters | no store is lost, loads return what was committed, late answers are rejected; stores to one word that wait together for a fill; eviction, write-back and refetch of one line |
| `cache_progress` | one way for 3 lines, 2 ports, 2 stores, 1 load, one value | every request is answered; a request is in one place, a line has one owner, two misses fill two ways |
| `cached_fetch` | 3 lines of 2 words, 1 set of 2 ways, 2 misses, width 2, queue 3, stack of 1, 2 programs, recoveries to 2 places, both prediction modes, caches or ideal memory | the predicted path is delivered, no old answer, no line lost or in two places, fetch goes on |
| `result_bus` | 3 tags, 1 unit of 2 stages, 1 load lane, queue 2, 1 grant | own results, none lost, no starvation |

Four runs look for a violation, each of something the repository says:

| Run | What happens |
|---|---|
| `store_order` | a store held in a compare port is overtaken by a younger store to the same word in the other port, and its older value stays |
| `nested_return` | under gshare a RET mispredicts, and recovery puts its popped entry back; the next return goes to the inner caller again |
| `store_of_zero` | a trace STORE whose data register is R0 never becomes ready; the simulator does not end |
| `two_load_lanes` | two load lanes with one grant per tick leave a stale beat that completes a later owner of its tag |

`units` puts five parts with disjoint state into one run, one of them at work in
each behaviour (`unit`), so their state spaces add up.

Bounds that are not sizes of the configuration: `MaxOps` (accesses in a behaviour of
StoreForwarding), `LearningTime` (where `streak` stops counting), `Val` (machine words modulo a small
number), `MaxGen` (loads given to one queue entry), `Ids` (owners of a tag,
told apart modulo 2). `VIEW LiveState` in some configurations leaves out
fields of dead entries, which no action reads before writing them; the liveness
configurations use no view. Deadlock checking is off where the system stops:
programs end in `OoOCore` and `ReturnStack`, and so do
the bounded parts of `units`. TLC explores each of these instances
completely.

`data_cache` is a small instance of what `DataCacheValues` proves for every geometry
whose ports keep the order of the stores (one port, or one store at a time): more
ways, longer lines and more ports are left to the proof. With two ports and more stores
the code really does lose the order (`store_order`).

### Fairness

`FairCoreSpec` assumes that ticks go on (`WF` of the next-state relation:
`main` calls `tick` until the program is finished), and strong fairness per tag
of issue, branch resolution and broadcast, and of the draining of the store
buffer. The code justifies it: units have finite fixed latencies and advance
every tick, units are offered ready instructions in every tick, the bus is
granted round-robin, DRAM counts its latency down. Strong fairness is
needed because these steps are possible in one stage of a tick only.
`FairCfSpec` assumes that ticks go on, that DRAM finishes the instruction cache's
request in the end (`DramSimple` counts its latency down), and that a request the
cache wants to send is accepted in the end: the data cache goes first, but its
requests come from finitely many instructions in flight. `FetchGoesOn` does not ask
recoveries to stop; it says that otherwise fetch delivers.
`FairCacheSpec` assumes the same of the data cache's DRAM requests and that a load hit
counts its latency down. `RequestsAreAnswered` holds for stores without more;
a load can be passed by stores through the other port as long as new stores retire.
In the core those are older than the load, or the load is squashed and nobody waits
for its answer, so they are finitely many.
`FairBusSpec` assumes no more than that ticks follow one another, and shows
the round-robin part of this assumption (`PendingIsServed`).

## 4. Proofs

All theorems are for every value of the constants that satisfies the named
assumptions: `RobAssumption` (at least one entry and one register, 0 among the
values), `CoreAssumption` and `BusAssumption` (sizes are positive; programs as described
in section 2), `CacheAssumption` and `InstructionCacheAssumption` (sizes are positive),
`CachedFetchAssumption` (sizes are positive; pcs, targets and recoveries are numbers),
`StoreForwardingAssumption` (sizes are positive; a word access has low address bits 0),
`ReturnStackAssumption` (sizes are positive; pcs and targets are numbers). Each
component has an inductive invariant and one lemma per action, with one step per
conjunct that the action can disturb; the theorems follow from it.

**Reorder buffer** (`RenameUnitProofs`, first part). `RobInv`: types, "the busy entries are
those with an age below `active_count`" (`BusyIsWindow`), and "done only
when busy". It is inductive as it stands. The lemmas before it are the arithmetic of
`%` around the end of the array: an age is a position, ages are injective,
and they drop by one when the head leaves. `RobWindow` states the invariant;
`RobOccupancy` adds that `head`, `tail` and `active_count` agree.
`RobImplementsQueue` is the refinement: under the mapping of
`ReorderBuffer.tla` every step is one of the abstract FIFO queue or leaves it as it
is. The squash is the hard step: the entries that stay are a prefix of the queue.

**Renaming** (`RenameUnitProofs`, second part). `RatNamesNewestWriter` alone is not inductive: after a
recovery the table is a checkpoint, so the checkpoints must have been exact all
along (`CheckpointsStayExact`), no dead one may be taken for a live one
(`NoStaleCheckpoint`), and the scrub must not erase a live mapping
(`FreedTagsAreFree`). `RuInv` is their conjunction with `RobInv` and the types.
The three lemmas on `IsNewest` carry the argument: the youngest writer stays the
youngest when the oldest instruction leaves (ages shift by one), a new
youngest instruction becomes the writer of its register only, and ages that do
not change keep everything.

**Core** (`OoOCoreProofs`, first part). First, every step of the core is a step of the rename unit
or leaves its tables alone (`CoreImplementsRenameUnit`), so `RuInv` and with it the
renaming theorems hold in the core, where the steps of RenameUnit are taken by
fetch, execution and recovery as they come. `CoreInv` adds what connects the
tables to the rest: the payload in the reorder buffer is that of the instruction
in `inst_table` (`InstsMatch`), an operand that waits names a live older
writer (`OperandsWaitForLiveProducers`), a wakeup carries the value of its producer
(`WakeupsAreCurrent`), wakeups are empty between the tick that applies them and the
broadcast of the same tick (`WakeupsAreFresh`), the branches being resolved are
open (`ResolvingAreOpen`), and a store is done only in the commit stage, with all
that is older (`DoneStoresRetire`). The last one is why a recovery never squashes a
store that has entered the store buffer (`StoresRetireAsTheyEnter`).
`NoWakeupIsLost` is the one the tick order could break: a consumer that is renamed
in the tick of the broadcast, behind it, must find the value in the
reorder buffer, not wait for it.

**Core, against the golden model** (`OoOCoreProofs`, second part). `CoreImplementsInOrder` is the
main result: `CoreSpec => ImplementsInOrder`, for every program, every width and
every size of the queues. What retires is the next instruction of the in-order
machine, and after it the registers are that machine's and so is the memory, as the
retired stores leave it. The invariant `OrderInv` says that there is a
history g of architectural states such that g[b] is the state as the b
retired instructions left it, and the instruction at place p of the window (its age plus
b) takes g[p] to g[p + 1]:

- a ready operand is its register in g[p], one that waits names an instruction that
  leaves the value of g[p] in that register (`OperandsHold`); results
  are those of the step (`ResultsHold`), wrong path or not;
- a load that forwarded has the word of g[p]; one that reads memory finds
  it there, because no older store to its word is left in the queue or in the store
  buffer (`LoadsHold`);
- the store buffer holds the stores that entered, in the order of the history; its
  retired part on top of memory is the memory of g[b], and stores enter in
  program order, without a gap (`StoresHold`);
- what follows an instruction, in the window, the dispatch register, the fetch
  queue or at the fetch counter, is what its prediction says, or, once its
  misprediction is resolved, what it computed (`PathInv`).

Only renaming extends g, by the step of the new instruction; a retirement moves b
on and nothing else; a recovery forgets the end of the window, which g need not.
All other steps keep g: that is the sense in which execution out of order is invisible.
Draining the store buffer moves its oldest retired stores to the memory under it and
only counts them (d in `StoresHold`). The hard steps
are the load's start (`StartingLoadReads`: forwarding from the youngest older
store, in the queue or else in the buffer, is reading g[p]) and the
store's entry into the buffer (every store before it has entered already).
Existence of g replaces a history variable: the module it is about stays as it is. TLC
cannot enumerate the histories, so it does not check `OrderInv` itself; it checks the
refinement that follows from it (run `core`), and `NoWakeupIsLost` and its kin on the way.

**Result bus** (`ResultBusProofs`). `BusInv`: a beat in a pipe belongs to the live
owner of its tag, which waits for it (`UnitBeatsAreOwn`), no tag is in two places
of the units (`UnitBeatsDiffer`), what has left the reservation station without
a result is in a unit (`UnitTagsAreHeld`), each live load has one queue entry
(`LoadsAreHeld`), and what is pending or offered on a lane is the output it was
taken from (`PendingIsHeld`, `LanesAreHeld`). The theorems on ownership and loss have `NumLsq = 1` as a
hypothesis. The code's default is two load lanes (`num_lsq` in
`include/processor.hpp`), and with two lanes the property is false: the run
`two_load_lanes` shows it. `PendingFreezesItsUnit` needs no hypothesis and an
invariant of its own (`OutputInv`).

**Data cache, its tables** (`DataCacheProofs`). `OwnerInv` says for every
line where it can be: at most one valid way, in none while it is being fetched,
one miss register at most, a reserved way for each fetch, and the DRAM request in
progress is that of a miss register waiting for it. `LinesHaveOneOwner`,
`FillsGoToTheirOwnWays` and `CacheTypes` follow. `RequestInv` is on top of it: the places
a request can be in (compare pipe, hit answer, waiting list, answer queue) hold
different requests, each of them known to the queue, and what the queue waits
for is in one of them. The four
places are one set of triples (`InFlight`), and a step of the cache is a
bijection of that set, an added request, or a removed one; this is what makes
`RequestsAreAnsweredOnce` provable without a case for each pair of places.

**Data cache, its values** (`DataCacheValues`). `StoresReachTheHierarchy` and
`LoadsGetTheLastStore` state `NoLostStore` and `LoadsReturnCommitted` for every geometry
in which the ports keep the order of the stores: `StoresKeepOrder` says that there is one
port, or that the store buffer holds one store. That hypothesis is not for the
prover's sake: with the code's default of two ports (`dcache_ufp_ports` in
`include/processor.hpp`) and more stores the property is false, as the run `store_order`
shows. `StoreInv` has four parts:

- lines (`LineInv`): a clean way and a line that has arrived are as in memory, DRAM
  carries the data of the register it serves, a line that can be hit has no
  write-back on the way;
- requests (`FitInv`): a request is for the word of the entry that asked, and while a load
  is outstanding no store to its word is buffered;
- values (`ValueInv`): for each word the newest value is in the first of these places that
  has one: the youngest store still to be sent, the store in a compare pipe, the
  youngest store waiting for the line's fill, the way, the write-back, memory;
- answers (`AnswerInv`): what is answered, or waits for the drain, for a load that is
  still waiting has the committed value.

`NoLostStore` by itself is not inductive, because while a store is on its way it says
nothing of the word: the third part says where the value is meanwhile, and each step moves it
one place on. The ports enter in one place (`NoStoreIsPassed`): a store that is
issued finds no other one in a compare pipe. The steps of the specification are
first described by what they do to lines, requests and values (`StepEffect`, one predicate for
each kind of step), and each part of the invariant is proved from these
descriptions.

**Cached fetch** (`CachedFetchProofs`). `FetchFollowsPrediction` is the refinement: for
every program, width and geometry, under recoveries at any time, fetch implements
`PredictedPath`. `CfInv` has two halves that meet in one place.

- The cache's half, `GoodCache`, says what the cache is doing for one pc: lines have
  one owner (`LinesOk`), what will be answered is the line of the pc that asked
  (`DataOk`), and the request is in exactly one of compare pipe, hit answer, held answer
  and waiting miss register (`OneAsked`, `Serves`). Each operator of
  InstructionCache has one lemma: it keeps `GoodCache` for that pc, or,
  for a request, a taken answer and a flush, moves it to another. `LinesStayTheirs` and
  `AnswerStaysAwaited` follow. A flush leaves lines on their way that no one waits for;
  a request may join one of them again, and must then be answered with the new pc.
- Fetch's half says that the cache serves `fetch_pc` while a request is outstanding
  and no one otherwise (`CacheServes`), that the predictions recorded with the request are
  still those the stack makes (`RequestIsPredicted`), and that the buffer holds consecutive
  words of which only the last one is predicted taken, with `fetch_pc` where they lead
  (`BufferIsPath`).

Without the predictions the refinement is not inductive: the code predicts the words again when
it empties the buffer, and the answer is the same only because the stack has not
changed since and the words before it leave it as it is. A call through a register is
the exception (`HasCall` in `PredictedPath`), and `EmptiedInto` says how far it
reaches: up to the first call what is delivered is what was recorded. The loops
(over miss registers, buffer and words of the ideal memory) are recursive functions,
and their facts are proved with the least turn that breaks them.

**Loads and stores by bytes** (`StoreForwardingProofs`). `MemoryFollowsProgram` and
`LoadsFollowProgram` state `StoresReachMemory` and `LoadsSeeOlderStores` for any set of
accesses, any memory and any size of the queue and the buffer, with forwarding on or
off. `SfInv` adds to them:

- `BytesReach`: `StoresReachMemory` said of each byte, memory's own or that of the
  youngest pending store that writes it;
- `BufferIsNewest`: the youngest store in the buffer to a byte holds the program's value
  of that byte, written to memory or not. A load may forward from a store that is written
  and not yet freed, and `BytesReach` says nothing of that one;
- `PartsAreRight`: of a load that waits for memory, the bytes it has are those of the
  youngest older store in the queue, or else of the program's memory; the others no
  older store in the queue writes and no store on its way to memory. This is why
  memory may be read at any later time: a store that enters the buffer meanwhile is older
  than the load and in the queue when the load starts, so the load has its bytes already,
  or it is younger and cannot enter before the load is done;
- the order of the queue and its types.

What the stores of a list leave at a byte is a recursive function of the list
(`Overwritten`). `IsLast` is its closed form, the youngest store of the list that writes the
byte, and the two agree because no turn is the least one at which they differ.

**Calls and returns** (`ReturnStackProofs`). `CallsReturn` states `ImplementsCalls` for every
program, window and size of the stack, under two hypotheses. The prediction mode is
always-taken: under gshare the property is false, as the run `nested_return` shows. And the
calls that have retired nest no deeper than the stack is long (`NestingFits`): a deeper
program loses a return address for good. That is a condition on what retires; wrong paths
may overflow the stack as they please. `RsInv` reads the callers off a stack (`CallersOf`,
the entries of the ring from the oldest to the top) and says of the snapshots in the window,
from the oldest to the stack as it is, that each follows from the one before by what
the golden model does for the instruction between them, up to the first call that found the
stack full (`IsExact`). The snapshots are all the history that is needed: recovery makes one
of them the stack, and only a branch is ever mispredicted, which neither pushes nor pops. At
the oldest instruction the callers are those of the golden model, so a call that found the
stack full cannot retire without nesting too deep. `StackTypes` needs neither hypothesis.

Only model-checked: the properties of decoding (`ExecutesAsGolden`) and of the predictor
(`LearnsAStreak`, and its types in `UnitTypeOK`), and all liveness. Liveness under fairness, ENABLED and induction
over data (what a recursive definition computes for every input) are beyond
the prover as installed and stay with TLC. No module here declares a RECURSIVE
operator; MachineWords, GoldenRv32, HexIsa and Gshare use `Bitwise` and so stay
with TLC too, every other module can be proved about.

## 5. Not modelled

- Syscalls and halt idioms of hex programs, memory-mapped output, statistics, loaders,
  the command line: input and output, with no state the rest depends on.
- SUB, MUL and DIV of trace programs (`ExecutionUnit::issue`, by name): plain C++
  arithmetic on `int`, the same in the golden model.
- Accesses that cross a word, a pc that is not a multiple of 4: the simulator does
  something with them, no program of the repository has them. A JALR with a funct3
  other than 0 is decoded (to a no-op) but not compared with the golden model, which
  executes it.
- Printing: `getSnapshot`, `printState`, dumps. `flushLoads` and
  `restoreState` of the return stack, which nothing calls;
  `writebackDirtyToMemory`, which runs after the program.
- The tools, tests and workloads (`workloads/coremark` is a third-party program).

`PROJECT.json` gives the reason for each part, and hazards without a property say
why there is none.

## 6. Plan

Done: the reorder buffer, renaming, the core, both caches and cached fetch,
byte-level forwarding, the result bus, the return stack, decoding and
execution of hex instructions, the predictor. Proved: the refinements of
the reorder buffer, the rename unit and the whole core, and the safety properties of the
core, the bus and the data cache, the values it returns included; that cached fetch
follows its predictions; and that loads and stores of any size keep the program's order byte
by byte; and that calls return as in the golden model.

What an extension could add: CALL and RET inside OoOCore; the two caches on one DRAM,
with the load/store queue of StoreForwarding in front of the data cache; link
jumps and a second unit in ResultBus. Each multiplies the state space, and each
pair meets at an interface that both sides state here.

What is modelled now and not proved is out of the prover's reach (section 4).
