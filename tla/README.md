# Multi-core processor simulator: TLA+ specification

This directory is the specification and verification of the one program of
this repository, the cycle-accurate simulator in
`src/Multi-core processor simulator/sim` (C, about 2100 lines): four pipelined
cores, a private MESI write-back cache each, a shared bus and a main memory.
The other directories of the repository (`ALU_DESIGN`, `DIFF_AMP`, `LDO_DPLL`,
`OTA`) hold reports, graphs and layouts of circuits; there is no program in
them. File names below are relative to `sim/`; "README" is the simulator's
`README.md` one directory up.

## 1. Inventory

| part | state it keeps | operations | correct when |
|---|---|---|---|
| bus, `bus.c` | one request line per agent, the lines everybody snoops, the delay of a granted request, `busy`/`flush_count`/`pending_*` of the transaction under way, `last_granted`, the shared line `bus_shared` | `bus_init`, `bus_request`, `bus_set_shared`, `bus_clock` | one transaction at a time; its words arrive in order, from one supplier; nobody is passed over for ever; no request is lost |
| main memory, `main_memory.c` | `data[]`, the answer in preparation | `memory_init`, `memory_clock` (load and save are file I/O) | it takes every word a core flushes and never answers with an old block |
| cache, `cache.c` | tags and states, data, the request in progress, the block being supplied to others, the block being written back | `cache_init`, `cache_read`, `cache_write`, `cache_snoop`, `cache_handle_bus_response`, `cache_clock` | the MESI invariants; a load returns the last value stored; a store is performed once |
| MEM stage, `core_memory` in `core.c` | the access in EX/MEM | offers the access until `*ready` is true, stalls the stages before it | every access completes |
| IF, ID, EX, WB, `core.c`, `pipeline_regs.c`, `register.c` | registers, pipeline registers, `halted` | one call per stage and cycle, clocked registers | a program computes what a sequential machine would |
| ALU, `alu.c` | none | `alu_execute` | the arithmetic of 32-bit words |
| counters | hits, misses, stalls, cycles, instructions | incremented in cache and core, written by `save_statistics` | they count what their names say |
| main loop, `main.c` | the order of the calls of a cycle | memory, bus, then per cache snoop/response/clock, then the cores, then the edge of `bus_shared` | it ends when all cores have halted and drained |
| files | none | program and memory loading, traces, results | the bus trace has a line per command put on the lines; what is saved at the end is final |
| test programs, `../counter`, `../addserial` | the shared counter; two vectors and their sum | four cores take turns at one word; one core streams through memory | no increment is lost, the sums reach main memory |

**Interaction.** All calls are made by one thread, in the order of the main
loop. What makes the system hard is not threads but that four cores, one
memory and one bus advance together, a call each per cycle, and talk through
shared fields: a request line with room for one request per agent, into which
`bus_request` stores unconditionally; bus lines that keep their value while
nothing new is sent; `bus_shared`, whose reader is a cycle behind its writers.
Which access each core makes in which cycle is free, so every relative timing
of misses, upgrades, write-backs and supplies can happen.

**Hard behaviours** (all in `PROJECT.json` under `hazards`, each at its line):
a supplied block and a request of the supplier itself in one request line; a
Modified block asked for while its owner writes it back; an upgrade overtaken
by another core's `BusRdX`; the memory's answer racing an owner's flush;
`is_mine`, lowered only by a hit; two word counters moved by snooping; the
store of a miss performed by the cache and offered again by the pipeline;
fairness of the arbitration; everybody waiting for a word that nobody sends;
a miss in MEM, a hazard in ID and a branch in the same cycle; flags of the
pipeline that are read in the cycle in which they change; counters that are
lowered in one call to be raised again in a later one; the end of the loop,
which looks at the pipelines only.

## 2. Modules

| module | models | main correspondence |
|---|---|---|
| `BusSystem` | `bus.c` | `slot[a]` is the request line of agent `a` with its command, address and data; `DelayStep`, `GrantFlush`, `GrantRequest`, `WaitForWord`, `GoIdle` are the exits of `bus_clock` |
| `MainMemory` | `main_memory.c` | `mem` is `data[]`; one action per exit of `memory_clock` |
| `Cache` | `cache.c` | one operator per function, one disjunct per branch; `CacheRead(c, a, ready)` and `CacheWrite(c, a, d, ready)` hold when the call leaves `ready` in `*ready` |
| `Multicore` | `main.c`'s loop, `core_memory` | `phase` and `turn` name the next call of the cycle; `access[c]` is the load or store in the MEM stage, `retired[c]` what passed to WB in this cycle |
| `AtomicMemory` | the promise (no code) | one memory; an access takes effect at one moment between entering and leaving the MEM stage |
| `Coherence` | properties | the invariants, action properties, the refinement mapping `Current(a)`, `FairSpec` |
| `ProtocolInv` | properties | the life of a bus transaction as an inductive invariant |
| `MemoryInv` | properties | main memory's answer to a transaction as an inductive invariant |
| `FlushInv` | properties | who flushes what when no store is lost, as an inductive invariant; the programs that lose none |
| `DataInv` | properties | where the current word of an address is; which executions lose none, programs of which all are such, and how their cores share the bus to write blocks back |
| `Isa` | `alu.c`, `evaluate_branch` and the fields of an instruction | `alu_execute(op, a, b)` on words of `WIDTH` bits; `write_reg(op)` |
| `CoreClock` | `core.c`, `register.c`, `pipeline_regs.c` | a core without its cache is a record with the fields of `core_t`; one operator per stage; `core_clock` and `handle_cache_miss` are a cycle without and with a miss |
| `Sequential` | the promise (no code) | cores that execute one whole instruction after the other on one memory, branches with their delay slot; one action per kind of instruction |
| `ProgramFlow` | programs and what the stages hold of them | where control can go (`Flow`), the programs the hazard check protects (`Protected`), `CoreInv`: the instructions behind IF lie on a path of the program |
| `Pipeline` | one core on its own | a step is one `core_clock`; the memory behind the cache may miss for any number of cycles |
| `PipelineCorrect` | properties | `TypeOK`, `PipelineInvariant`, the mapping `Seq` to `Sequential`, `NoStaleOperand`, `FairSpec`, `Halts` |
| `Simulator` | the whole program, `main.c` | `Multicore` and one `CoreClock` per core: `cpu[c]` with `imem[c]`, its counters `stats[c]`, the bus trace, the end of the loop |
| `TestPrograms` | `counter/`, `addserial/` | the machine code of `imem*.txt`, with its constants as parameters |
| `SimulatorCorrect` | properties | the mapping `Shared` to `Sequential`, `AccessIsHeld`, the counters, the state that is saved |
| `SimulatorInv` | properties | what accesses under way owe to counters and trace; which access a word on the bus belongs to; `AllInOrder`, `CoreInv` of every core |
| `MCMulticore` | constants of the runs | the programs (`Loads`, `Stores`) and the bound of the drifting counter |
| `MCPipeline` | constants of the runs | the programs: those of `Protected`, and the one of section 5 (`StaleOperand`) |
| `MCSimulator` | constants of the runs | the shipped programs and the litmus shapes, what they must achieve |
| `Multicore_proofs` | proofs | `TypeCorrect` |
| `ProtocolInv_proofs` | proofs | `ProtocolInvariant` is inductive; `SingleWriter`, `FillsOwnBlock`, `SupplyServesTransaction`, `RoundRobin` |
| `FlushInv_proofs` | proofs | `MemoryInvariant` is inductive, `MemoryAnswersAlone`; `FlushInvariant`, `OneSupplier`, `CleanCounterInRange` when no store is lost; which programs lose none |
| `DataInv_proofs` | proofs | `DataInvariant`; the memory system implements `AtomicMemory`; `CleanCopiesMatchMemory`; `WritesWholeBlockBack`; `WriteBackInv`, `CleansWhatItSupplies`, `WriteBackKept` for programs with write-backs apart |
| `Simulator_proofs` | proofs | `Simulator` implements `Multicore`; `AccessIsHeld`, `CyclesAddUp` |
| `SimulatorInv_proofs` | proofs | `ReadsBalance`, `WritesBalance`, `StatsMatchTrace`, `SavedStateIsFinal`; the whole program is coherent; `AllInOrder`; the whole program implements `Sequential` |
| `ProgramFlow_proofs` | proofs | words, instructions and paths; a cycle of the pipeline keeps `CoreInv`, for one core or many |
| `Pipeline_proofs` | proofs | `TypeOK`, `PipelineInvariant`, `NoStaleOperand`; `Pipeline` implements `Sequential` |

Parameters: `NUM_CORES`, `WORDS_IN_BLOCK`, `NUM_SETS`, `RESPONSE_DELAY` (4, 4,
64, 14 in the code), `NUM_BLOCKS` (`MEMORY_SIZE / WORDS_IN_BLOCK`), `Word`,
`MemIn`, and `Loads`/`Stores`, the addresses each core's program touches.
For the pipeline: `WIDTH`, `IMMEDIATE_BITS`, `NUM_REGISTERS`, `IMEM_SIZE` (32,
12, 16, 1024), `Programs` and `DataIn`. Their assumptions stand in the module
that declares them. Registers are numbered by a byte and fit in a word
(`IsaAssumption`); `Doubling` says what a power of two is, which no backend of
the proof system knows.

For the whole program: `Programs`, one instruction memory per core, and
`MAX_CYCLES`, the cycle of a core at which a run is given up.

**How the halves meet.** `Multicore` leaves it open which access a core makes
next and shows what the memory system does with it; `Pipeline` takes one core,
leaves it open how many cycles an access misses and lets it take effect when it
is ready, which is what `AtomicMemory` says of the memory system. `Simulator`
puts them together: the actions of `Multicore` are conjoined with what the same
call does to the pipeline and the counters, `SimCorePhase(c)` being the call of
`core_clock` for core `c`, with an access (`AccessCycle`, which hits or not) or
without (`NoAccessCycle`). That this is a special case of `Multicore` is a
theorem (`SimulatorImplementsMulticore`), so the exhaustive runs and the proofs
about `Multicore` speak about `Simulator` as well, for any program.

`completed` in `Simulator` is the only variable without a counterpart in the
code; it counts the loads and stores that have left a MEM stage.

**What a step is.** Each call of the loop is one step, so an invariant is
checked between any two calls, and the order of the calls within a cycle is
that of the code. The only choices are those of the programs (which access,
and when), the uninitialised request line of the memory (`bus_init` clears
agents 0 to 3 only) and reads of `dsram[]` outside its bounds (see
`DirtyStoreMiss`).

**Evaluation order.** `cache_read` and `cache_write` pass `words_left` and
`words_left++` as two arguments of one call, which C leaves unsequenced. The
project's build evaluates the last argument first, and the `- 1` in the
address makes up for it; the bus traces shipped in `counter/` and `addserial/`
show whole, aligned blocks (for instance `addserial/bustrace.txt`, addresses
`02FF8` to `02FFB`). The model takes that order; its opposite is the mutant
`Bug_CleanWord`, which `ImplementsAtomicMemory` refutes.

**Abstractions.** Of the bus trace the number of lines per agent and command is
kept; `global_cycles`, the core traces and the text of all files are left out.
`NoRequest` in the memory's line at the start of `Simulator` is what the shipped
builds have; `Multicore` takes other contents, too. Fields that will be written before they are read again are reset when they die (the
head of `Cache` lists them), which merges states and hides nothing. Addresses
are integers, a negative one standing for the 32-bit value it wraps to.

**Clocked registers.** `Register` has `D`, `Q` and `enable`. `core_clock` runs
the stages from WB to IF on the `Q` values and then updates the enabled
registers, so the record it returns holds the `D`s, and a register that is not
enabled keeps its value. `write_reg`, `is_mem_read` and `is_mem_write` are plain fields: MEM and
WB read them before they change, hence they belong to the record of their
stage, but ID reads the `write_reg` of EX/MEM and MEM/WB after EX and MEM have
overwritten it, which `WriteRegOfMem` and `WriteRegOfWb` say.

**The mappings to `Sequential`.** In `Pipeline` the abstract state is that
between the decoding of two instructions: everything behind ID is completed
(`core_memory` and `core_writeback` applied to EX/MEM, MEM/WB and the executed
ID/EX). Decoding an instruction is the abstract step; misses, stalls and bubbles
are stutters. With several cores this will not do, because a load's value is
not known before it leaves MEM. In `Simulator` the abstract step of an
instruction is its leaving MEM: memory is `Current(a)`, the value of the owner's
copy, registers are those after WB, and the program counter is that of the
oldest instruction that has not left MEM (`Oldest`), with the one behind it
(`Second`) as next. There is one exception:
the store of a miss takes its step in `cache_handle_bus_response`, which
performs it, before the MEM stage offers it again (`Performed`).

## 3. Runs

| run | instance | what it shows |
|---|---|---|
| `Coherence` | 2 cores, 2-word blocks, 2 blocks, 1 set; both read and write block 0 and evict it by reading block 1 | `TypeOK`; `SingleWriter`; `FillsOwnBlock`; `SupplyServesTransaction`; `MemoryAnswersAlone`; `CleanCounterInRange`; `CleanCopiesMatchMemory`; `FlushInvariant`; `DataInvariant`; `WriteBackInv`; `OneSupplier`; `StoreIsInCache`; `WriteBackKept`; `WritesWholeBlockBack`; `ImplementsAtomicMemory`, with evictions |
| `Private` | 3 cores that miss all the time, 4-word blocks; each writes its own block, all read a fourth | `RoundRobin`, `OneSupplier`, and `AccessCompletes` under `FairSpec` |
| `DirtyStoreMiss` | 2 cores, any program | `ProtocolInvariant`, `MemoryInvariant`, `SupplyServesTransaction`, `FillsOwnBlock` also for programs whose stores the cache loses |
| `Pipeline` | every protected program of four free instructions out of twelve, then halt; 3-bit words, 8 registers | `TypeOK`, `PipelineInvariant`, `NoStaleOperand`, `ImplementsSequential`, and `Halts` under `PipelineCorrect!FairSpec` |
| `Simulator` | 4 cores, 4-word blocks, latency 14, 2 sets, 6 blocks, 8-bit words, 16 registers; 19 sets of programs, all protected and without `jal` (`RunsProtectedPrograms`) | `AccessIsHeld`, `AllInOrder`, `CyclesAddUp`, `StatsMatchTrace`, `ReadsBalance`, `WritesBalance`, `SavedStateIsFinal`, `ImplementsSharedMachine`, and under `SimFairSpec` `CountsEveryIncrement`, `SumsReachMemory` |

Seven more runs expect a violation; they are the findings of section 5.

**Bounds and why they are enough.** Two cores make every pair of requester
and owner, requester and bystander; the third core is needed for arbitration
and for a bystander that writes back, in `Private`. Two blocks in one set make every
access to the other block a conflict; blocks of two words already have a first
and a last word, and `Private` and `Simulator` use the four of the code. The
memory latency only changes how long the bus stays busy: 1 leaves room for
every race, 14, in `Simulator`, is the code's. Two values of a word are enough
to tell an old value from a new one, and one is enough where no property looks
at data. `Private` restricts programs to the last words of blocks, which
end the transfer; `Coherence` uses every word of the block that is written
(`FirstOrLast`).

`Simulator` has no choices once its programs are loaded, so a run follows each
of them to its end, some 11000 calls for the longest. What varies is the
program: the counter program with two rounds per core (the second shows that a
core is let go and called again), the first two cores shifted by 0 or 3 cycles
against the others; `addserial` on vectors of 8 words in caches of 8, so that
the third vector evicts the first two and the last loop writes it back; and the
shapes in which a machine that is not sequentially consistent shows itself
(store buffering, message passing, load buffering, two observers), on words of
one block and of two, the second core 3 or 9 cycles late. Store buffering on two
blocks is not among them: both cores then lose a request to the block they must
supply (section 5, item 3), and wait for ever. `MAX_CYCLES` is 600; the longest
of these programs ends before.

In `Coherence` every block falls into one set, so a core never has two dirty
blocks. `LostWords` is the instance where it has: two sets of four-word blocks,
in which core 0 evicts a block of its own beside the block that it shares.

In `Pipeline`, four free instructions are as many as the hazard check compares
(one in ID and three behind it) and leave room for a branch, its delay slot and
its target. Three-bit words have a sign, wrap-around and shift counts beyond
the word; a miss may last any number of cycles.

**Programs.** `Stores` is restricted in the passing data runs because the code
loses data otherwise (section 5): a store to a set that holds another dirty
block is never performed, so those runs let stores go to one block per set
only. `ProtocolInvariant` and `MemoryInvariant` need no such restriction. There,
`DirtyStoreMiss` bounds two counters that drift without end (`DriftBound`:
`words_left`, which falls as long as a lost store's cleaning stays pending,
and `pending_addr`, which every flush increments).

The pipeline's programs are restricted too. `Protected` in `ProgramFlow` looks
at every path control can take (`Flow`; a branch to a register may go anywhere)
and leaves out what the code does not order in the three instructions behind a
writer, up to the first that waits for it: a register read when a non-writing
instruction follows the writer (section 5, item 7), a branch target (`rd`) that
the writer sets, and a writer of the link register before a `jal`. The hazard
check does not cover the last two and no document says it should. `StaysInside`
leaves out programs that run off the end of instruction memory, where
`core_fetch` reads past the array.

**Fairness.** `Coherence!FairSpec` adds weak fairness of `Next`: the do-while loop of
`main` makes one call after the other and no call blocks. Nothing else is
assumed; a program's choice not to access memory is its own.
`PipelineCorrect!FairSpec` adds weak fairness of `Advance`: the loop clocks every
core again and again, and an access does not miss for ever. The second is what
`AccessCompletes` says; it fails in the programs of item 2 of section 5.
`Simulator!SimFairSpec` adds weak fairness of `SimNext`, again that `main` makes one
call after the other. `CHECK_DEADLOCK FALSE` in its runs: the loop really ends.

## 4. Proofs

`Multicore_proofs` proves `TypeCorrect == Spec => []TypeOK` for every value of
the constants that satisfies the assumptions: any number of cores, blocks and
sets, any block size of at least two words, any latency and any program. It is
inductive as it stands because `BusTypeOK` ties `delay_cycles` to
`delay_in_progress` and says where an address must lie in memory. The proof has
one lemma per call of the loop; arithmetic about blocks (`WordOfBlock`,
`BlockAddr`, `WordOfSet`) is stated once.

`ProtocolInv_proofs` proves `ProtocolHolds == Spec => []ProtocolInvariant`, from
the same assumptions and `TypeCorrect`, and from it `SingleWriterHolds`,
`FillsOwnBlockHolds` and `SupplyServesTransactionHolds`. None of the three is
inductive: whether a core may become the owner of a block depends on what the
other cores answered several calls or cycles earlier. `ProtocolInvariant`
follows one transaction instead:

1. *Posted* (`SlotInv`): the core waits for the address and command that stand
   in its request line, and has not seen its transaction yet (`~is_mine`).
2. *Delayed* (`DelayInv`): the same of `pending_*`, with the bus free.
3. *On the bus* (`BusyInv`): `pending_addr` is the requested block plus
   `flush_count`; the command itself is on the lines until the first word, so
   each core answers it exactly in its snoop call (`Snooped`). From then on a
   core other than the requester has no valid copy, or, for a BusRd, a Shared
   one with the shared line raised (`OthersInv`). A supplier works for this
   transaction and has at most as many words left as the bus expects
   (`SupplyInv`).
4. *Completing*: `bus_clock` frees the bus and lowers the shared line when it
   takes the last word, one snoop before the requester reads both. For the rest
   of that cycle the facts of 3 must be carried by the lines and by `shared_Q`,
   which the clock edge has not yet copied. This is the delicate point of the
   protocol.
5. *Filled* (`MineInv`, `FilledInv`, `AccessInv`): `is_mine` is still raised, and
   the retry later in the same cycle hits and lowers it, because the access in
   the MEM stage is the one that was waited for. A stale `is_mine` would make a
   cache take words of another's transaction.

`BeforeSnoop`, `BeforeResponse`, `BeforeClock` and `BeforeRetry` say which of the
calls of this cycle a cache has behind it. The proof has one lemma per call, with
one step per conjunct; `WordTaken` (the word a cache takes belongs to its block,
and is the last one exactly when the bus is free again), `TransactionOnBus` and
`RetryHits` are what the calls have in common. The theorems hold for programs
whose stores the cache loses and for blocked systems too (section 5).

`Simulator_proofs` is about the whole program, for any number of cores and any
programs. `AccessIsHeldHolds`: an access that has missed is offered again as it
was, since a miss holds EX/MEM. Its induction needs `TypeOK` and that the state of
a core keeps its fields (`CoreShape`); `MissHolds` and `ClockMoves` say what a
cycle does to the stages. With it every step of `Simulator` is a step of
`Multicore` or leaves its variables alone (`CoreStepIsNext`), hence
`SimulatorImplementsMulticore == SimSpec => Spec`, and, by the theorems above,
`SimulatorIsCoherent`. `CyclesAddUpHolds` is by the invariant `CountInv`: a core
that has halted has an empty IF/ID, so it neither fetches nor stalls in ID any
more, and each of the three stages behind drains in a cycle of its own unless
MEM misses (`MissBalances`, `ClockBalances`); the cache's calls touch other
counters only (`CountAccessKeeps`).

`FlushInv_proofs` first proves `MemoryAnswersAloneHolds`, again for every program.
An answer of memory is prepared at the edge after the request was granted, and
all through its latency a cache may still say that it supplies the block. So
`MemoryInvariant` has three cases: the answer is *prepared* for the transaction
that has the bus, whose command is still on the lines, and every cache that has
snooped it keeps silent; or it is *cancelled* by the first FLUSH, after which
memory is idle until the next request; or it is *sending*, in step with
`flush_count`, and no other agent has a word of the block to give.

It then proves `OneSupplierHolds` and `CleanCounterHolds` from
`FlushInvariant`, which accounts for every word in a request line: it is the one
before `words_left` of the block a core is cleaning, the last one of a block it
has just cleaned, one of the block that it supplies, or memory's. The hard case
is a core asked for the very block it is cleaning: it then does both, and the
words of the two kinds follow each other in one line. The theorems have
`StoreIsInCache` as a hypothesis, and need it: a store that is lost (section 5)
leaves the MEM stage free to begin another access with a cleaning half done, and
`words_left` then counts words of whatever set that access needs. The
hypothesis is not empty: `StoreIsInCacheHolds` shows that it holds of every
program whose stores to one set of the cache are all to one block (`StoresFit`),
and `FittingProgramsSupplyInOrder` puts the two together. The Coherence run
checks hypothesis and invariant on its instance. `RoundRobinHolds`
(`ProtocolInv_proofs`) is arithmetic: a grant to c turns the priority to c + 1,
from where the distance of every other core is then counted.

`SimulatorInv_proofs` is about what the program writes to its files at the end.

- `ReadsBalanceHolds`, `WritesBalanceHolds`: at every moment the hits of a core and
  its transactions in the trace add up to the loads (stores) it has completed,
  plus one for an access that waits and whose transaction the trace does not
  show yet (`Owes`). Asking takes back a hit, which the retry counts; the trace
  line comes at the end of the cycle in which the transaction takes the bus,
  `new_request` being a flag of one cycle (`TraceFlag`). For loads this holds for
  every program, for stores under `StoreIsInCache`: a lost store completes with
  neither.
- `StatsMatchTraceHolds` is what remains of the two when the loop has ended and
  no access waits.
- `SavedStateIsFinalHolds`: halted cores have no access in MEM, hence wait for
  nothing and clean nothing, hence by `SupplyInv` nobody supplies. What needs an
  invariant of its own is that no word is left on the bus which memory would
  take a cycle later: `FlushIsHeld`, such a word belongs to a block that some
  access waits for, or that it has got in this cycle, so that its instruction is
  still in WB.

The last two are under `StoreIsInCache` as well, `FlushInvariant` being part of
the argument.

`DataInv_proofs` is about the words themselves. `ImplementsAtomicMemoryHolds` is
the refinement: with `memory` as `Current(a)`, the copy of the owner if there is
one, then the block being supplied, then the word in a request line or on the
bus, then `mem`, every call of the loop is one step of `AtomicMemory` or a
stutter. `DataInvariantHolds`, `CleanCopiesHold` and `WritesWholeBlockBackHolds` come from the
same induction: the words of a block that the core has cleaned are not `Dirty`
any more (`GivingUpCleans`), so memory has them, or the bus holds the last one
for it.

*Hypothesis.* `Lossless` names what an execution must not do: lose a store
(`StoreIsInCache`), overwrite the last word of a write-back before it is on the
bus (`WriteBackKept`), or clean one block while it supplies another
(`CleansWhatItSupplies`). The runs `LostStore`, `LostWriteBack` and `LostWords`
(items 1, 4 and 5 of section 5) show what each of the three costs. The third does
not follow from the other two: in `LostWords` the word of the cleaned block
overwrites the last one of the supplied block, the bus is held for ever with
another word of that core on its lines, and `RepeatCleanWord` takes this word for
its own and counts words of the cleaned block as sent that nobody took. No load
sees the loss, since every miss now waits for ever, but the values are gone.
`CleansWhatItSupplies` is a condition on programs more than a promise of the
code, so no run checks it; what the code promises is `WritesWholeBlockBack`.

*The hypothesis is met.* `LosslessHolds` proves it for every system that keeps
its write-backs apart (`WriteBacksApart`): the stores of a core to one set are to
one block; a core that writes blocks back, because another address falls into
the set of a stored one, stores to one block only or to blocks no other core
touches; cores that both write back store to the same block. The counter program
is of this kind (all cores store to word 0, core 0 evicts it at the end), so are
data that have room in the cache, and the programs of the run `Coherence`, in
which both cores evict the block that both write; `MCMulticore` has TLC evaluate
the condition for them (`EvictsOneBlock`). The programs of `LostWriteBack`, whose
cores evict two different blocks, show that the last part is needed, those of
`LostWords`, which fit (`StoresFit`) but in which core 0 evicts its own block and
shares another, that the middle one is (`EvictsOwnBesideShared`).

- A word that a core sends or posts belongs to a block it stores to
  (`StoredWords`). So a core that cleans one block is never asked for another,
  which would not be its own: `CleansWhatItSuppliesHolds`.
- A core that cleans a Modified block posts one word a cycle, and whenever it
  posts the next the one before is on a free bus (`WritingBack`). When it posts
  the last and gives the block up, no other core has given one up: that one
  would have evicted the same block, which is then in no cache (`TakenNext`). So
  `bus_clock` finds this word alone and takes it before the core makes another
  call: `WriteBackKeptHolds`.

`WriteBackInv` joins the three. It is inductive only together with `PlaceInv` and
`CleanPace` (`LosslessInv`), and these need `CleansWhatItSupplies`, which follows
in each state from `StoredWords` (`CleansSupplied`), so the two inductions are
one. `FittingProgramsAreCoherent` is thus a theorem about every execution,
`FittingSimulatorIsCoherent` (`SimulatorInv_proofs`) carries it over to the whole
program. Requests may still be lost in these systems (item 3); a core then waits
for ever, but reads nothing wrong.

*Argument.* The invariant has two layers. `Base` says where things are, without
looking at a value: besides the invariants above, a fill never overwrites a
dirty set (`WaitingSet`), a word that was given up is in no cache and not asked
for before the bus could take it (`GivenUpBy`), a supplier has not reused the
set (`SuppliedInPlace`), and a cleaning core finds its own word on the lines
exactly when that is the word posted a cycle earlier (`CleanPace`). Its own
induction (`PlacesStay`) comes first. The second layer, `Agrees(m)`, says for a
memory `m` which of these places hold `m[a]`: copies, supplied blocks, request
lines, the word on the bus, the part of a block that has arrived, memory, and
the store that the fill has performed. `Dirty(a)` and `WrittenBack(a)` say when
bus and memory are not yet, or again, among them; a block that is half cleaned
is both, word by word (`Cleaned`, `Sent`). `CurrentNow` shows that `m` is then
`Current`, so each call is proved by giving the memory after it: the same `m` for
all calls except two, a store that hits and the last word of a fill for a store,
where `m` changes at that one address (`StoreKeepsValues`,
`LastWordKeepsValues`). There is one lemma per call (`MemoryKeepsValues`,
`BusKeepsValues`, ...), and `AtomicStep` names the four ways in which a call may
look to `AtomicMemory`. `NextIsAtomic` puts them together.

`ProgramFlow_proofs` and `Pipeline_proofs` are about a core. What an instruction
means when it is decoded early, with others in front of it, depends on the
program, so the invariant (`CoreInv`) ties every stage to it:

- `OnPath`: the instructions behind IF are consecutive on a path that control can
  take, whatever bubbles stand between them. It is what makes a condition on the
  program (`Protected`) one on the stages.
- `Carries`: a stage knows destination and flag of its instruction.
- `Waited`: what ID has let through needed nothing of the two in front, where the
  flag told it of them. Without it the flags of a pipeline are any flags, and the
  check of the next instruction (`DecodeHasWaited`) says nothing.

`StagesHoldAPath` needs only that programs stay inside instruction memory;
`PipelineTypeCorrect` follows. `NoStaleOperandHolds` and
`PipelineImplementsSequential` add `Protected`: from `CheckSees`,
`ProtectedWindows` and the invariant the decoded instruction reads what the
drained pipeline would hold (`Fresh`), so that decoding it and then draining is
draining and then executing it, once for each kind of instruction; every other
cycle leaves the drained state as it was. The theorems hold for words of any
width. That the bitwise operations of the ALU return words at all
(`WordOfBits`) is an induction on the number of bits, done by a least
counterexample (`LeastElement`, `UpTo`).

`SimulatorInv_proofs` ends with the whole program as a sequentially consistent
machine: `ImplementsSharedMachineHolds`. Its abstract step is the leaving of MEM
(section 2), so what is needed of EX and MEM is the reverse of the above:
`InOrder`, an instruction there computes what it would compute if it were decoded
now, and a branch there has led where it would lead now. `AllInOrderHolds` is its
induction, for protected programs without `jal`, which writes its link when it is
decoded, before the instructions in front of it have left MEM. The memory side
comes from `DataHolds`: between two calls `Current` changes where
`AtomicMemory` says, and an access that leaves MEM has read or written it. The
theorem is under `Lossless`; `FittingSimulatorIsSequential` discharges that
for programs whose write-backs are apart. The `Simulator` run checks `ImplementsSharedMachine` and,
as an assumption of `MCSimulator`, that its programs are protected.

Model-checked only: liveness (`AccessCompletes`, `Halts`, that the test programs
end), which is out of the prover's reach; the results of the test programs, which
are runs of particular programs; and that `addserial`, whose sums share sets
when there are more of them than the cache holds, loses nothing. That data are
lost by other programs, even by some of `StoresFit`, is what `LostWriteBack` and
`LostWords` in section 5 show.

## 5. What the code does differently from what it says

Each is a run that TLC must find violated.

1. `LostStore`: a store to a set holding another dirty block is reported
   complete before it is performed, and is lost (`cache.c:186-198` leaves
   `*ready` true). `cache.h:95` promises the opposite.
2. `StuckSupplier`: a core that misses in the cycle in which it posts the last
   word of a block it supplies overwrites that word; the bus stays busy for ever.
3. `LostRequest`: a core that must supply a block overwrites its own request
   that has not been granted; the retry in `cache_clock` is never reached.
4. `LostWriteBack`: the last word of a write-back is counted as flushed when it
   is posted; another core's flush may take the bus first, and the retried
   access then overwrites it.
5. `LostWords`: `README.md:158` says that a dirty block is written back before it
   is replaced. A core that starts to clean a second block in the cycle in which
   it posts the last word of a block it supplies overwrites that word
   (`cache.c:224`). The bus then keeps the word before it, under the core's name,
   and `cache.c:101` takes it for the acknowledgement of each word of the second
   block, which is given up although its first three words never reached memory.
6. `MissesCounted`: `cache_read` counts a read miss for each word of a dirty
   block that it writes back (`cache.c:88`, `107`) and one for the request, so
   the misses of a load are up to five. The shipped `addserial/stats0.txt` has
   6144 hits and 6209 misses for 8257 loads. Hits are right (`StatsMatchTrace`).
7. `StaleOperand`: `write_reg` is a plain field, so the hazard check of ID joins
   the flag of one instruction with the destination of the one before it. An
   instruction that writes no register hides the writer in front of it: in
   `add $r2,...; sw ...; add $r3,$r2,$r2` the last one reads the old `$r2` when
   the store hits, and the new one when it misses.

Four more that have no run. A 12-bit field is cast to `int16_t` (`core.c:264`),
which does not extend its sign, so 0xFFF is 4095; the comment above it says
sign-extended. `bus_clock` passes over a flush while the delay of a
granted request runs, although `bus_system.h:91` and README.md:191 give it the
highest priority. README.md:210 has core 0 finalise the counter in memory, but
core 0 is the first to finish: in the shipped `counter/memout.txt` the first word
is 0x1FF, and the final 0x200 is in the Modified block of core 3. That is why
`CountsEveryIncrement` looks at `Current(0)`, the value of the owner's copy. The
`.asm` listings differ from the machine code beside them: the cores' numbers in
`counter/` are loaded through `$r1` in `imem*.txt`, and `addserial/imem0.txt`
reads the fourth word of the second vector at offset 3; with `imem0.asm` neither
program would do what README says.

## 6. Not modelled

The test program `addparallel`, of which only a listing in README exists; the
text of input and result files and the core traces, which no state of the
machine depends on; `global_cycles`, a time stamp; `print_core_state`, for
debugging; the circuit designs of the repository's other directories.

## 7. Plan

Done in this order: the memory system and its findings, its type invariant and
the invariant of the bus transaction with their proofs, the pipeline, the whole
simulator with its counters, trace and programs, its refinement of the memory
system with the proof, the coherence of data and the refinement of
`AtomicMemory` with their proofs, what the stages of a core hold of its program,
and the refinement of `Sequential` by `Pipeline` and by `Simulator` with their
proofs. Next: `alu_execute` against a reference on bit sequences, and `jal` in
`ImplementsSharedMachineHolds`, with a mapping that undoes the early link.
