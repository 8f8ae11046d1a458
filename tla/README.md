# A verification of the out-of-order RISC-V core

The repository is an N-way superscalar, out-of-order RV32IM processor in
SystemVerilog in the style of the MIPS R10K: registers are renamed onto one
physical register file, a reorder buffer retires in program order, loads and
stores go through a queue and a non-blocking write-through cache.  It has no
README of its own; this file describes what was read (`src/verilog`,
`src/sys_defs.svh`, `src/testbench/mem.sv`) and what is modelled here in TLA+,
checked with TLC and proved with TLAPS.

## 1. Inventory

All state changes at the positive clock edge; within a cycle every output is a
combinational function of the registers.  "Concurrency" is therefore not a
question of threads but of many agents acting on shared tables at one edge:
dispatch, CDB broadcast, retirement, answers of the memory, misprediction.  The
memory acts on the negative edge, with any latency and in any order.

| Part | File | State | Operations | What makes it correct |
|---|---|---|---|---|
| Fetch PC | `if_stage.sv` | PCs of the next group, taken branches already seen | fetch, redirect | the fetched PCs follow a path of the program |
| BTB | `btb.sv` | targets of taken branches | look up, update | a hit is a target of the very instruction looked up |
| Predictors | `id/branch_predictor.sv`, `id/my_branch_predictor.sv` | history, counters | look up, update, repair | none for correctness; speed only |
| Instruction buffer, icache | `instruction_buffer.sv`, `icache.sv`, `cache/cachemem.sv` | circular buffer, cached blocks | insert, request, receive, deliver, flush | decode sees every fetched PC once, in order, with its instruction |
| Decode | `id/id_stage.sv`, `id/decoder.sv` | none | decode N instructions | - |
| RAT, RRAT, free lists | `id/rat.sv`, `rrat.sv` | two alias tables, two free lists | rename, retire, recover | no physical register is lost, shared or reused too early |
| PRF | `id/prf.sv` | values, ready bits | read, CDB write, clear on rename | a ready bit says that the present owner has produced its value |
| Reservation stations | `reservation_station.sv` | waiting instructions | dispatch, wake, issue | no wakeup is lost |
| Functional units | `func/*.sv` | one result per unit | execute, hold until a CDB slot is granted | no result is lost or broadcast twice |
| Reorder buffer | `rob.sv` | circular buffer, `stores_ready` | dispatch, complete, retire, release stores, flush | an in-order queue; released stores are never flushed |
| Load/store queue | `lsq.sv` | two circular queues | dispatch, address, forward, access, retire | a load sees the youngest older store; stores go to memory in order |
| Data cache, MSHR | `dcache.sv`, `mshr.sv`, `cache/cachemem_rw.sv` | lines, outstanding misses | read, write through, request, fill | agrees with memory; every miss is answered |
| Memory | `testbench/mem.sv` | words, transactions by tag | accept, answer | a tag is answered once |
| Priority selectors | `my_ps.sv`, `utility/ps.v` | a rotating counter | grant | distinct grants on the first lines; nobody starves |

How they interact: `R10K_pipeline.sv` wires IF -> instruction buffer -> IF/ID ->
ID (decode, RAT, PRF) -> ID/EX -> ROB, RS and LSQ in the same cycle; the CDB goes
from RS and LSQ to PRF, ID/EX, RS and ROB; retirement goes from the ROB to the RRAT
(and its freed registers to the RAT); `stores_ready` from the ROB to the LSQ;
`branch_mispredict` from the ROB to everything.  Data accesses have the memory
bus before instruction fetch.

What is hard here: tables written by several agents at one edge; recovery from
a misprediction in the very cycle other things retire; circular buffers of sizes
that are no power of two; registered copies used one cycle late
(`stores_ready`); answers of the memory that outlive the request; resources at
their limit (free list, MSHR, instruction buffer); circular waits between
retirement and stores.  `PROJECT.json` lists these as hazards, each at its line.

Left aside: `standard/`, `verilog/old_stuff/`, `program_analysis/`, `synth/`,
`test_progs/`, coverage reports and waveform output: other designs, generated
files and data.

## 2. The modules

| Module | Code | Runs | Proofs |
|---|---|---|---|
| `Rename` | `rat.sv`, `rrat.sv`, ready bits of `prf.sv`, the part of `rob.sv` and of ID/EX that renaming depends on | `rename`, `rename_zero_load` | `RenameProofs` |
| `Rob`, abstract `InOrderQueue` | `rob.sv` | `rob` | `RobProofs` |
| `Wakeup`, on `Rename` | values and bypass of `prf.sv`, `id_stage.sv`, ID/EX, `reservation_station.sv`, `func/` without the LSQ | `wakeup` | `WakeupTheorems`, in `RenameProofs` |
| `FrontEnd`, composing the next three | `if_stage.sv` as wired, IF/ID | `front_end` | `FrontEndProofs` |
| `FetchPC` | `if_stage.sv` | (in `front_end`) | `FrontEndProofs` |
| `Btb` | `btb.sv` | (in `front_end`) | `FrontEndProofs` |
| `InstructionBuffer`, abstract `FetchQueue` | `instruction_buffer.sv`, `icache.sv`, `cachemem.sv`, tags of `mem.sv` | (in `front_end`) | `FrontEndProofs` |
| `Dcache` | `dcache.sv`, `mshr.sv`, `cachemem_rw.sv`, `mem.sv` | `dcache`, `dcache_byte_store`, `dcache_full` | `DcacheProofs` |
| `Lsq` | `lsq.sv`, with the ROB as an in-order queue and the data cache as it answers | `lsq`, `lsq_slot_reuse`, `lsq_wrong_path` | `LsqProofs` |
| `PrioritySelector` | `my_ps.sv`, `utility/ps.v`, `utility/wand_sel.v` | `priority_selector` | `SelectorProofs` |

Each `MC` module gives a specification small constants; nothing else.  Names
follow the source: `n_x` is the combinational next value of the register `x`,
and an operator named like a signal is that signal.  One step of a model is
one clock edge, so an action is the whole `always_ff` block together with the
combinational logic that feeds it.

Definitions commented "mutated form of X" are wrong versions of X that a
slip of the pen could produce.  Nothing uses them; put in X's place, each
makes the property it is listed with in `PROJECT.json` fail, which shows that
the property depends on that piece of logic.

### Rename

State: `rat_entries`, `free_list`, `rrat_entries`, `rrat_free_list`, `rrat_valid`,
the PRF's `ready` bits, the group in ID/EX (`window`), and of the ROB the sequence
of renamed instructions in flight (`dispatched`).  Actions: `Dispatch` (the group
in ID/EX enters the ROB and the next one is renamed), `Stall` (ID/EX is held),
`Mispredict` (the RAT is overwritten with the RRAT of the same cycle).  In each,
up to N instructions retire and any executed ones broadcast.  The free list is
treated as a set: which free register the selector grants is nondeterministic.

`rename` checks conservation (every register is in exactly one of: free, mapped
by the RRAT, held by an instruction in flight), that renaming never runs short
although `rat.sv` has no stall for it, that a ready bit is set exactly when
the present owner of the register has executed, that a source operand names the
register of the youngest older writer (of its own group, in flight or retired),
and that the set-valued retirement operators equal the loop of `rrat.sv`.
`rename_zero_load` adds loads to x0 (see Findings).  Bounds: N = 2 so that a group
has an inside; a ROB of 2, so that it is full and partly full and, with the group
in ID/EX, has four instructions in flight; two architectural registers besides
x0, each copied to the other, so that one register has several writers in flight
and a group both reads and overwrites one.  One more kind of slot needs no unit: a wfi, or
what an adder would compute for x0, enters the ROB as executed (`R10K_pipeline.sv:258`) and so
can retire, and retire together with others, without ever having been on a bus.  The register file has six registers:
ROB entries + architectural registers other than x0 + N, one less than
`sys_defs.svh` gives (it counts x0 too), so that it runs dry if any is lost.

### Rob

State: the slots, `head_index`, `tail_index`, `stores_ready`, `halt`.  Actions:
`Advance` (dispatch, CDB and retirement at one edge, with their priorities) and
`Flush`.  Instructions are reduced to kinds.  `rob` checks

* `Occupancy`, the shape of the circular buffer;
* that the buffer implements `InOrderQueue`: instructions leave from the front, once
  executed, none behind a mispredicted branch or a wfi, and `rob_commit`, which the
  RRAT is told, counts those that have left at the last edge;
* that a store once released to memory is never taken back;
* that every instruction leaves.

Fairness: the clock ticks (`WF` on retirement and
flush), and an instruction whose result can be produced is eventually broadcast,
which is justified because a unit holds its result until it has a CDB slot and
the arbiter rotates (`NobodyStarves`).  A store counts as able to execute only
once the ROB has announced it: that is the circular wait this property is about.
Bounds: N = 2 and 3 slots: the pointers wrap, at a size that N does
not divide, and a group fits or does not with one slot to spare; all six kinds of
instruction.  Deadlock is not checked because a wfi stops the
machine.  Groups are prefixes, as the decoder makes them for legal programs; an
illegal instruction would leave a hole in a group, which is not modelled.

### Wakeup

What `Rename` leaves open - when an instruction executes - is supplied here, with the
operands and their values.  The module instantiates `Rename` and each of its actions
(`Stall`, `Dispatch`, `Mispredict`) contains `Rename`'s of the same name; `ops` runs in
parallel to `Rename`'s window and says where each instruction is (ID/EX, a station, a
unit, past the CDB) and whether it has its operand.  The other variables are the
values of the PRF, the multipliers' registers, and how many instructions the last edge
has retired, which only the properties read.

An operand can get its value in five ways: from a ready register, from the bus while
that register is being written (`prf.sv:62`), as x0, by ID/EX snooping the bus while
it is held (`R10K_pipeline.sv:219`), by a station snooping, also for what enters
it in the same cycle (`reservation_station.sv:184`).  `wakeup` checks

* `Placement`: no instruction is lost, doubled or overwritten on its way;
* `NoLostWakeup`: an operand that is not there waits for an older instruction
  that has yet to broadcast;
* `ExecutesProgram`: the architectural registers (through the RRAT) change at every edge as
  the retiring instructions, run in program order, change them.  This is about all
  the ways above at once, about renaming, and about the multiplier, whose
  `m_done` still belongs to the last product when the next one starts.

Values are bits and every instruction computes the complement of its operand, so that
successive writers of a register differ.  Which stations are filled, which ready
instruction gets which unit and which results get the CDB is nondeterministic, within
what the selectors' contract (`PrioritySelector`) says.  A misprediction may strike
with any retiring instruction, which is more than the code does.  Programs write a register
before they read it, as `crt.s` makes sure of: the code marks no register ready
at reset, and a program that reads one it never wrote would wait for ever or take the
value of physical register 0.

Bounds: N = 2, a ROB of 3, so that ID/EX is held for the ROB and with it for the
stations; three stations, one adder and one multiplier of two stages, so that results
overtake each other, wait for a unit and meet a stale `m_done`; one register
besides x0 with a constant and an increment as program, so that every chain of
producers and consumers arises.  Slots that enter the ROB as executed have no result and are
`Rename`'s subject: `WakeupAssumption` excludes them.  With as many buses as units every
result is taken in the cycle it is there; that a result which must wait for a bus is not
overwritten in its unit is left to the theorems, whose units are any number.  The operands of an instruction are treated alike
by the code, hence one.  No unit of type BRANCH is in the instance; the module has the
type.

### FrontEnd, with FetchPC, Btb and InstructionBuffer

`InstructionBuffer` has the slots, the two pointers, the cache and the memory's
outstanding tags; answers come in any order, to requests that a flush may have
forgotten.  `FetchQueue` says what the decoder is promised; `Occupancy` also says that
the ready bits of long gone instructions are never mistaken for new ones.  `FetchPC`
has the PC registers; it takes predictions as arbitrary targets of the instruction
they are made for.  `Btb` has the lines of the branch target buffer.

`FrontEnd` instantiates the three and has their variables, the NPC of each slot, IF/ID,
and `awaited`, the PC decode has to be given next, which only the property reads.  `Cycle`
is an edge without, `BranchMispredict` one with a misprediction.  Free are: which hits the
predictor takes, what memory accepts and answers, the stalls of the back end,
what retires as taken, and when fetch is redirected to where.  `front_end` checks

* `DecodeFollowsPath`: what decode takes from IF/ID is one path of the program from
  redirection to redirection, without loss or repetition, and with memory's instructions;
* `ImplementsFetch`: with the branch target buffer in its place of the arbitrary
  predictions, the PCs are those of `FetchPC` (refinement), i.e. no alias or stale line
  sends fetch where the program cannot go - which retirement, comparing only the
  NPC of branches, would not notice;
* `ImplementsQueue` (refinement of `FetchQueue`), `Occupancy`, `AnswersAwaited`, `FollowsPath`
  of the parts;
* `DecodeNotStarved`: unless fetch is redirected again and again, decode gets
  something again and again.

Fairness: a cycle has one action, so what is assumed of the environment is stated as
properties of the state it changes.  Memory answers every transaction (`mem.sv` counts down
the latency of each) and accepts a request that is made again and again, if a
tag is free; a ready instruction is not kept waiting for ever.  The last is an assumption
on the back end: data accesses, which go first, come from the instructions in the ROB,
which are finitely many while decode gets none, and their progress is the subject of `rob`
(and fails in the situation of `dcache_full`, see Findings).  `mem.sv` refuses addresses
outside memory for ever; fetch asks for one only on a wrong path, which the branch ends.

Bounds: N = 2, a buffer of 6, two blocks competing for one line, two tags; a
loop of four instructions with one branch, a branch target buffer of one line, in which
the addresses are aliases.  The buffer of the source has 19 slots for N = 4: also no
multiple of N, and at least 3N like the model's, which is what the hazard
threshold needs.

### Lsq

State: both queues, the registered issue and output packets, `stores_ready`, memory, and
of the ROB the sequence of instructions in flight (`Rob` implements that queue).
`Advance` is one edge with everything `lsq.sv` does in it: dispatch, addresses and the
`age_addr_match` bits, forwarding, one store and some loads to the cache, results to the
outputs, deallocation; `Nuke` the edge of a misprediction.  The cache takes the
offered store and answers any of the loads that ask, with what memory then holds -
which is what `Dcache` shows of it - or lets them wait.  The ghosts `expected` and
`written` say what program order gives a load and whether a store has been written.

The `always_comb` of `lsq.sv` is a sequence of statements, each of which sees what those
before it have done.  The model keeps that order where it shows.  Dispatch comes first
(lines 154-196), and the marks of the edge - address, exception, released, accepted - then go to
whatever is in the slot they name, a store that has just entered included (`n_store` on
`Entering`); only clearing the slot of the store that leaves comes after them.  The issued
instructions are looked at way by way (`LocatedBy`, `AddressedBy`): the exception check of a
store sees the loads registered before and those of earlier ways, not of later ones.

`lsq` has stores and loads of a word and of half of it, so that accesses agree, are apart
or overlap, among branches right and wrong.  Bounds: N = 2, three ROB
entries and three store slots, three load slots, so that a load waits in the queue while
others enter.  The store queue is as large as the ROB, so that the number of stores in flight
alone (`FewStores`, section 3) keeps slots from being used again while their former owner
is in flight.  In the code the queue is a quarter of the ROB, and `lsq_slot_reuse` (two slots,
four ROB entries) shows what then happens; the theorems say for every size that nothing
else than such a reuse, or an access outside memory, breaks these properties.  So the two
hazards of released stores and of the slot that is cleared (`lsq.sv:320`, `396`) appear in
`lsq` without the reuse, and with it in `lsq_slot_reuse` only.
`lsq_wrong_path` adds a wrong-path load with an address outside memory, which `lsq` has not.

### Dcache

State: the miss table, the cached lines, memory with its outstanding transactions, and
the load values the load/store queue latches at the edge.  A cycle has one store
offer, a block per load port, memory's response and its answer; `Nuke` is a cycle
in which a misprediction clears the table.  Blocks have eight bytes; the values
are 0 and 1.  `dcache` checks that the cache agrees with memory, that a block is
asked for once and answered with its present data, that loads get what
memory holds, and that no miss stays open (`MissesAnswered`).  Fairness, stated on the
state memory changes as in `FrontEnd`: memory answers what it has accepted, and
accepts a request that is made again and again; stores, which have the bus first, retire
and so end when a load at the head of the ROB waits.  Bounds: two load ports and the store port, two blocks in one line
so that each displaces the other, five entries, so that the table cannot become
full; `dcache_full` shows what happens when it does.

### PrioritySelector

The network of `wand_sel` and its rotation, for all request vectors of width 6 and
4 grants: the grants are distinct requests and fill the first lines, and with the
clock ticking (`WF` on the counter) a request that is kept is granted.

## 3. Proofs

The proof modules show for every value of the constants what the runs show for
one.  `FiniteLemmas` holds what several of them need about finite sets of
positions (largest and smallest element, size of an image, a prefix of the ways) and
about division with remainder.
The assumptions are those the modules declare by name (`RenameAssumption`,
`FrontEndAssumption`, ...), which TLC evaluates in every run, and where a theorem has a
hypothesis of its own it is given below.

| Theorem | Shows |
|---|---|
| `RenameProofs`: `TypeCorrect`, `RegistersConserved`, `NeverStarves` | `TypeOK`, `Conservation`, `RenameNeverStarves` |
| `RenameProofs`: `ReadsProgramOrder`, `OnlyZeroDisturbed`, `ReadyBitsExact` | `DataFlow`; bounds on the ready bits; `ReadyExact` if X0Loads is {FALSE} |
| `RenameProofs`: `RetireLoopCorrect` | `RetireLoopAgrees` |
| `WakeupTheorems`: `ImplementsRename`, `TypeCorrect`, `EveryInstructionHasItsPlace` | refinement of `Rename`; `TypeOK`, `Placement` |
| `WakeupTheorems`: `NoOperandWaitsInVain`, `ProgramExecuted` | `NoLostWakeup`, `ExecutesProgram` |
| `RobProofs`: `RobTypeCorrect`, `RobOccupancy`, `ReleasedStoresAreNotTakenBack`, `RobImplementsQueue` | `TypeOK`, `Occupancy`, `ReleasedStoresStay`, `ImplementsQueue` |
| `FrontEndProofs`: `PathFollowed`, `BtbImplementsFetch` | `FollowsPath`, `ImplementsFetch` |
| `FrontEndProofs`: `FrontEndTypeCorrect`, `BufferOccupancy`, `AnswersAreAwaited`, `DecodeGetsPath`, `BufferImplementsQueue` | `TypeOK`, `Occupancy`, `AnswersAwaited`, `DecodeFollowsPath`, `ImplementsQueue` |
| `DcacheProofs`: `DcacheTypeCorrect`, `CacheAgreesWithMemory`, `RequestsAreUnique`, `LoadsGetMemory` | `TypeOK`, `Coherent`, `OneRequestPerBlock`; `LoadsReadMemory` if all stores are of words |
| `LsqProofs`: `LsqTypeCorrect` | `TypeOK` |
| `LsqProofs`: `WrittenBeforeLeaving`, `WrittenInOrder`, `StoreQueueOrdered` | `StoresReachMemory`, `StoresInProgramOrder`, `StoreQueueInOrder` if no access is outside memory and no slot is used again in flight (`[]NoReuse`) |
| `LsqProofs`: `LoadsReadInOrder` | `LoadsReadProgramOrder` if besides accesses of a word are aligned |
| `LsqProofs`: `ReuseIsTooManyStores` | a slot is used again in flight exactly when more stores are in flight than there are slots (`NoReuse <=> FewStores`), for every two sizes |
| `LsqProofs`: `FewStoresInOrder`, `FewStoresLoads` | the four properties with `[]FewStores` for `[]NoReuse` |
| `SelectorProofs`: `SelectorKeepsContract` | `GrantContract` |

**Renaming.**  `SingleOwner` (no two owners of a register) is not inductive: the
next allocation is only safe if the free list holds no owned register.
`Conservation` adds exactly that, for both free lists, and with `TypeOK` it is
inductive.  One lemma each says what retirement does to the mapped registers
(`RetireMapped`, `RetireFree`), what dispatch does to the instructions in flight
(`InFlightStep`), and that the selector, given enough free registers, grants
distinct ones (`AllGranted`); `ConservationStep` joins them.  That there are
enough (`EnoughFree`) is a count: the registers in use are at most one per
architectural register and one per instruction in the ROB and ID/EX, and the
register file has N more; this needs the assumption on the size of the register
file and uses `Conservation` itself, so the two facts hold each other up.

`DataFlow` is inductive once every destination has a register, that is, with
`Conservation`.  `Edge` says what a clock edge makes of the window; then
retirement moves the holder of a register's value from the window to the retired
table without changing it (`HoldsShift`), and a group adds holders of its own
(`HoldsExtend`, `HoldsNew`).  `ReadyBounds` is the exactness of the ready bits up to what a
load to x0 can do, and so measures the finding of `rename_zero_load`: it sets the bit of
register 0 and of no other, and never clears one.

**Loops and recursion.**  `RetireLoopAgrees`, `ExecutesProgram` and `GrantContract` are about
functions defined recursively over the instructions of a group or the lines of a selector.
Such a definition chooses a function that satisfies an equation.  The proofs
give one in closed form, show that it satisfies the equation, and show that no other
does: two solutions would differ at a smallest argument, where the equation
makes them equal.  Thus `LoopResult` reduces the loop of `rrat.sv` to one iteration, and
`LoopIteration` says that the set-valued definitions for k + 1 instructions come from those for
k as the iteration does.  The order of freeing and allocating in it is only right because no
two valid entries map to one register, hence `Conservation`.

**Rename to bus.**  The second half of `RenameProofs` is one argument on top of the first.
`WakeupInv` (the types of both halves and `Placement`) is inductive: `Frame` puts together what an
edge does to the window and to `ops`, `MovedFields` says what becomes of one
instruction, `StationsFit` counts the stations.  It implies that only dispatched
instructions in a unit complete (`CompletingType`), hence that every step is one of `Rename`
(`WakeupImplementsRename`), and everything proved of `Rename` is available.  `NoLostWakeup` is not
inductive: it holds on because what is waited for is not x0, whose writers do not
broadcast (`Awaits`).  That an instruction just renamed has somebody to wait for is
the place where `DataFlow` (its register is that of an older writer in flight or retired),
`ReadyExact` (if the bit is not set, that writer has not executed) and the bypass of the bus
meet.

`ExecutesProgram` needs an invariant about values.  `ValuesInv` says that every source has
been written before it is read (`SourcedIn`); that an operand that is there is what its
source register holds, which is then ready (`OperandsIn`); that the register of an executed
instruction holds the complement of what its source register holds (`ResultsIn`); and of a
multiplier which stages are done and work on the operand of the instruction that is in it
(`MultsIn`).  The third looks at the source register long after the instruction has read it:
it still holds the same because it is not freed before a younger writer of the same
architectural register retires, and so not before the reader does (`LiveSource`, from
`DataFlow` and `Conservation`).  The fourth is where a stale `m_done` is excluded.  Then the
retired tables, k instructions on, are those of `RegsAfter(k)`, and an instruction more changes
them as the program does (`OneMoreExecutes`); `ExecuteIs` ends with the uniqueness of the recursion.

`RenameProofs` instantiates `Wakeup` beside `Rename`; the lemmas `Same...` in it say that the
`Rename` inside `Wakeup` is the same.  `WakeupTheorems` goes the other way: it instantiates
`RenameProofs` with X0Loads = {FALSE}, as `Wakeup` does with `Rename`, shows that the `Wakeup` inside has
the same behaviours, and so states the theorems of `Wakeup`, under its own assumptions
(`WakeupAssumption`, `RenameHalfAssumption`) and no others.

**Selector.**  Of n requests let the rank of one be how many are higher (`RankExists`).  The request of
rank r is chosen by even line 2r and by odd line 2(n - 1 - r) + 1 (`LineChooses`); these two add up to
2n - 1, so exactly one of them is below n, and the mask takes away the other (`BusGrants`).
Hence each of the first n lines grants one request of its own.  The turn of the vector is undone
after it (`TurnedBack`).

**Reorder buffer.**  `Occupancy` is not inductive as it stands, because it speaks of
a number; `Contiguous` says that for some c the c slots from the head are the valid ones.
It gives `Occupancy` and, position by position, the contents of the abstract queue, so
that `RobImplementsQueue` is the statement that an edge drops the slots that retire and appends
the group.  For the released stores the registered `stores_ready` has to be known to be
that of the present slots (`ReleaseUpToDate`): then every older slot of an announced store is
executed and no branch is in doubt, and the next edge announces it again or retires it.

**Front end.**  `PathInv` says that the group being fetched is a path and that the
youngest instruction in the buffer names its first PC as the next; `TableOK` that every valid
line of the branch target buffer was written by a taken branch with that index and
tag, which together are the PC (`WholePC`).  `FetchInv` joins them and gives
`FollowsPath` and `ImplementsFetch`.  `BufferInv` adds to `Occupancy` and
`AnswersAwaited` that slots and cache lines hold the data of their own block; `DecodeInv` that
the slots are chained by their NPCs (`Chained`) and that decode waits for the head
(`HeadAwaited`).  Their conjunction `FrontInv` is inductive.  `Btb` reads the table
after the writes of the cycle by way of `LastWriter`, the last of the retiring branches that
write a line, as the loop over the ways in `btb.sv` does.

**Data cache.**  `TypeOK`, `Coherent` and `OneRequestPerBlock` are inductive together
(`DcacheInv`): a fill is only right because the pending answer is for the block's
present data, and that only because a store updates memory and the answers under way.
`HazardStays` says that a table too full for the ports stays so until a
misprediction, the core of the finding of `dcache_full`.  `LoadsReadMemory` needs
stores of words only; the other sizes are the finding of `dcache_byte_store`.

**Load/store queue.**  `LsqInv` says of every valid entry and every waiting result that it
points at an instruction of its kind in the reorder buffer that has not executed
(`Loads`, `Stores`, `Results`), and that no two of them point at the same one
(`Apart`); without the latter a retirement could leave an entry pointing at nothing.  It
is inductive by way of `Edge`, which gives an edge in terms of the number of
instructions that leave, and of one lemma per table (`RobAfter`, `StoreAfter`,
`LoadAfter`, `OutAfter`) saying what its entries become.

`WriteInv` adds that a store in the queue is in the slot the reorder buffer has for it and is
ready to leave exactly when it has been written, and one that has left has been written.
The second fails when the exception check of a store reads a wrong-path load
(`lsq_wrong_path`): hence `Inside`, that no instruction of the program has an address
outside memory.  It fails too when a store enters the slot of one that is being written
at that edge: dispatch comes first, and the newcomer is marked as written (`lsq.sv:162`, then
`337`).  TLC finds this with the program of `lsq_slot_reuse`, three slots and six ROB entries
(not with the two and four of that run).  Hence `[]NoReuse`, a hypothesis on behaviours and not on constants, because
the code does not rule reuse out.  Under it a slot is about one store only: what issues,
what is released and what is accepted at an edge names a slot that is still that store's, or
empty (`Claimed`), so that a store that enters finds no mark meant for another.

With it `StoresInProgramOrder` is inductive relative to `WriteInv`, the store offered to the
cache being the first released one that is not written; for this the released slots must
still belong to the instruction that released them (`Released`), which `lsq_slot_reuse` breaks.
`QueueInv` is the shape of the circular store queue (for some
c the c slots from the head hold stores) and the order of its contents.  It rests on the
order of writes: a released store that is ready is preceded by written ones, so what
leaves is the head (`LeavingHead`), which the code never tests.  All of these together
are `OrderInv`.

How far the hypothesis reaches is `ReuseIsTooManyStores`.  Of the stores in flight the youngest,
as many as there are slots, have the slots behind the tail, one each (`Recent`, which every
step keeps, in every behaviour).  So two share a slot exactly when there are more of them
than slots.  The code does not keep the stores in flight that few: its own test for a full queue
(`lsq.sv:117-123`) counts those in the queue, and a store leaves that long before it retires.  With 8 slots
and 32 ROB entries the ninth store in flight is the first that can go wrong, and executions
without one - all those, for instance, in which no 32 successive instructions, wrong paths included, hold
more than eight stores - are covered by `FewStoresInOrder` and `FewStoresLoads`, at the code's own sizes.

**Loads.**  A load's value is fixed by program order when it enters (`expected`); it has to
be the one that forwarding or the cache gives it later, while stores leave and other
addresses become known.  `LoadInv` has three parts for that.  `Ages` says what a bit of
`age_addr_match` means: the stores it names are in the queue, older, and not told apart
from the load; an older store in the queue that it does not name has been told apart
by its address; and a load that goes to memory has no bit left.  `MemoryHolds` says that
memory has, for each half, what the last written store in flight wrote there - the
youngest in program order, by `StoresInProgramOrder`.  `Values` says of every load without a
result that `expected` is what the youngest older store in flight writes, or what memory
holds if there is none: it is kept when that store retires (`ReadsAfter`), because
by then it is written and no later store of that half is, the load still being in front
of them (`NoneBehind`).  The rest of `LoadInv` says where each instruction is and that the
addresses in the queues are its own.  Then a forwarded store is the youngest that covers the
load (`ForwardsRight`, by the order of the store queue), and a load that memory answers
has no older store left in the queue that covers it (`AnswersRight`).

The invariant rests on `OrderInv`, that is, on what is proved of stores, and so has its two
hypotheses.  The third, `Aligned`, is needed because the code tells accesses of one
size apart when their addresses differ (`lsq.sv:230`, `259`), which says that they
share no byte only if they are aligned; it traps no misaligned access, and compiled programs
have none.

Only model-checked: the liveness properties (`DecodeNotStarved`, `MissesAnswered`,
`EveryInstructionLeaves`, `NobodyStarves`), since fairness and ENABLED are beyond
the prover.  `LoadsReadMemory`, `StoresReachMemory`, `StoresInProgramOrder`, `StoreQueueInOrder`,
`LoadsReadProgramOrder` and `ReadyExact` are proved under the hypotheses of the table, each of
which excludes a finding of section 4 or (`Aligned`) misaligned accesses.

Not modelled: the predictors (speed only), the decoder's tables and immediates, the arithmetic
of the units, illegal instructions and CSRs, the test bench with its debugger
(the C and C++ sources of the repository), the test programs.

## 4. Findings

* `rename_zero_load`: a load whose destination is x0 broadcasts a valid value for
  physical register 0 (`lsq.sv:411`), which marks it ready and overwrites it although
  another instruction may own it.  The adder, branch unit and multiplier test for x0.
* `dcache_byte_store`: the byte or half of a store that is forwarded to a load of the
  same cycle is put at the wrong place (`dcache.sv:212-213`).
* `dcache_full`: with fewer than `DCACHE_RD_PORTS` free entries the MSHR ignores
  every answer (`mshr.sv:123`), and nothing else frees an entry.  With 16 entries and 5
  ports, 12 outstanding blocks are enough, as many as the load queue has entries.

* `lsq_slot_reuse`: the ROB keeps naming the slot of a store until it retires; a younger
  store in the same slot is then written out of order (`lsq.sv:306`, `320`), or taken for
  written in its turn and not written at all (`lsq.sv:162`, `337`).
* `lsq_wrong_path`: the exception check of a store reads the load queue
  (`lsq.sv:222`), so that a good store can leave unwritten.

Also seen while reading, not checked: the header of `icache.sv` announces a victim cache
that is not there; the predictor is looked up and updated at different indices
(`branch_predictor.sv:42` and `55`), its counters start at 2, which predicts taken, where
the comment says weakly not taken (`branch_predictor.sv:82-84`), and the prediction stored with
an instruction is that of the look-up for the group after it (`if_stage.sv:156-157`); an illegal
instruction leaves a hole in a dispatch group.

## 5. Plan

1. Composition of `Lsq` with `Dcache` and of the two requesters of the memory bus, and with it
   liveness of `Lsq`.
2. Branches and jumps in `Wakeup`'s instance, with mispredictions only where a branch
   retires.
