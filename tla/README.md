# Formal model of YPC

YPC is a five-stage in-order RISC-V (RV64IM_Zicsr) processor written in Chisel
(`playground`), with a Verilator simulator and debugger in C++ (`verilator`)
that runs it in lock step with a reference machine, and a copy of the Kconfig
programs (`verilator/tools`) that configure the simulator.  This directory
holds TLA+ models of it, the TLC configurations that check them and TLAPS
proofs about them.  Paths below are relative to the repository; Scala paths to
`playground/src`, and those of kconfig to `verilator/tools/kconfig`.

## 1. Inventory

| component | source | state | operations | interacts with |
|---|---|---|---|---|
| fetch stage IFU | `stages/IFU.scala` | pc, the fetched bundle and its valid bit, a remembered redirect, a remembered trap, a handshake state | one clock edge: request, accept, take the response, drop it, read it again | arbiter (ar/r), decode (valid/ready), execute (redirect), write back (trap) |
| arbiter | `utils/sram/SRAMArbiter.scala` | owner of the read channel | select, route, hand over | IFU, LSHandler, SRAM |
| memory controller SRAM | `utils/sram/SRAM.scala` | read state, address, data and the ready bits; write address, data, ready and response bits | one read and one write at a time | arbiter; `MemRead`/`MemWrite` call the simulator's memory |
| load/store handler | `utils/loadstore/LSHandler.scala` | read state, write state | carry one load or store to the bus, shift and extend its data, report `fin` | LSU, arbiter |
| decode IDU | `stages/IDU.scala` | bundle and valid bit; contains the registers, CSRs, forwarding networks, decoder, immediates | decode, forward, stall for a load, squash | IFU, EXU, wires from EXU, LSU and WBU |
| execute EXU | `stages/EXU.scala` | bundle and valid bit | ALU, MulDiv, CSR operation, next pc, redirect | IDU, LSU, IFU |
| memory stage LSU | `stages/LSU.scala` | bundle and valid bit | hold the pipeline until the handler has finished | EXU, WBU, LSHandler |
| write back WBU | `stages/WBU.scala` | the statistic registers | write register and CSR, raise a trap, report the instruction | LSU, IDU, IFU, the simulator |
| register file, CSRs | `utils/instdecode/{GPR,CSR}.scala` | 32 registers, four CSRs | read, write, trap entry | IDU, WBU |
| decoder, immediates | `control/*.scala`, `macros/*.scala`, `utils/instdecode/ImmGen.scala` | none | tables and bit selections | IDU |
| arithmetic | `utils/execute/*.scala` | none | ALU, division, multiplication, CSR operation | EXU |
| simulator loop | `verilator/src/simulate/simulator.cpp` | run state, three pending call records, `cpu.pc` | clock, handle retirement, ebreak, invalid, stop | WBU through DPI calls, difftest, watchpoints, devices |
| lock-step comparison | `verilator/src/simulate/difftest.cpp` | skip flag, the reference | step, skip, compare | simulator loop |
| traces | `verilator/src/simulate/{itrace,ftrace}.cpp` | a ring of instructions, a list of calls and returns | add, print | simulator loop |
| debugger | `verilator/src/sdb/*.cpp` | a pool of watchpoints on two linked lists | commands, expression evaluation, watchpoints | simulator loop |
| memory back end | `verilator/src/memory`, `verilator/src/device/io` | the memory array, the device maps | masked reads and writes, dispatch | SRAM through DPI calls, devices |
| devices | `verilator/src/device` | key queue, clock, serial port, screen | poll, enqueue, dequeue, draw | simulator loop, memory back end |
| dependency expressions | kconfig `expr.c` | none | build, simplify, compare, evaluate, print | parser, menus, symbols |
| symbols | kconfig `symbol.c` | values, visibilities and flags of each symbol | calculate on demand and keep, set, pick a value of a choice | expressions, files, conf and mconf |
| configuration files | kconfig `confdata.c` | `.config`, `.config.old`, `auto.conf`, `autoconf.h`, `defconfig`, the dependency files of `include/config` | read, write, rename, touch | symbols, the build |
| conf and mconf | kconfig `conf.c`, `mconf.c` | where they are in the menus | fifteen modes of questions and defaults; a menu with keys | symbols, files |
| menus, parser, dialogs | kconfig `menu.c`, `parser.y`, `lexer.l`, `preprocess.c`, `lxdialog/` | the tree of menus | parse, finalize, draw | symbols |
| build | `verilator/script/*.mk`, `verilator/tools/fixdep` | the objects | compile what a touched symbol asks for | configuration files |

What makes the system hard:

* **Concurrency.** All stages, the arbiter and the memory act in every clock
  cycle; two clients share one read channel, and a response may meet the next
  request of either in one cycle.
* **Ordering.** Redirects and traps arrive while a fetch is outstanding, while
  decode is stalled, or together; younger instructions are in flight when a
  trap is taken.
* **Staleness.** Values come from one of four places (three stages or the
  register file); loads are not there yet when they are asked for.  The
  configuration's symbols keep the values they once had until they are told.
* **Repeated reads.** Memory and devices are read by a combinational process
  that the simulator may evaluate several times for one load.
* **Coupling.** The simulator follows the processor by a single report per
  cycle and believes it when it compares states.
* **Crashes.** The configuration programs can be killed between any two file
  operations, and the next session and the build go on from what is there.

What makes each component correct, and therefore what is checked (section 4):
the bus answers every request once, with the right word, and starves nobody;
the fetch stage loses no redirect and repeats no instruction; the pipeline
retires what the instructions executed one at a time compute, and never
wedges; every instruction computes what the manual says; a program that has
ended stays ended and is reported truly; no change of a watched expression is
missed; loads and stores reach the bytes they name and keys arrive in order; no
configuration value is stale, no saved configuration is lost, and no object
keeps a value that has changed.

`PROJECT.json` lists the components with their status, every mapped definition
with its lines, and the hazards of the code with the properties that cover
them.

## 2. Modules

    BusTypes       addresses, words, requests               (constants, assumptions)
    SRAM           memory controller and arbiter of the read channel
    LSHandler  IFU                                           one module per component
    MemBus         the four, wired as in Top                 (memory side)
    FetchBus       MemBus + the weakest pipeline behind it   (specification, properties,
                                                             inductive invariant)
    AtomicMemory   what the memory side promises             (abstract specification)
    FetchBusProofs                                           TLAPS proofs
    MCFetchBus     instance for TLC

    Inst           instructions, control signals, arithmetic on narrow words
    IDU  EXU  LSU                                            one module per stage, with
                                                             write back in LSU
    ISA            what the processor promises               (abstract specification)
    Core           MemBus + the stages + the simulator's clocking
                   + its inductive invariant
    CoreProofs                                               TLAPS proofs
    MCCore         programs and constants for TLC

    Execute         rows of the decode table, ALU, MulDiv, immediates; the manual
    BoothMul        the multiplier of Mul.scala, column by column
    BoothProofs                                              TLAPS proofs

    WatchpointPool  the two linked lists of the debugger's watchpoints
    WatchpointSet   what they are to its user                (abstract specification)
    Simulator       WatchpointPool + loop, commands, lock-step comparison, window
    SimulatorProofs                                          TLAPS proofs
    MCSimulator     programs for TLC
    Traces          the ring of instructions, the list of calls and returns
    TracesProofs                                             TLAPS proofs
    SdbExpr         the debugger's expressions, from characters to a value

    ByteLanes       masks, lanes and runs of bytes
    KeyQueue        the ring of key events and its port
    KeyFifo         what it promises to a program            (abstract specification)
    ByteMemory      what memory promises to a program        (abstract specification)
    Devices         KeyQueue + ByteLanes + memory, serial port, clock, screen, window
    DevicesProofs                                            TLAPS proofs
    MCDevices       data and programs for TLC

    KExpr           dependency expressions of Kconfig
    KDecl           symbols as declared, and what is in memory of them
    KSymbol         KExpr + KDecl + calculating and setting symbols
    KConfData       KSymbol + the lines of configuration files
    KSession        KDecl + sessions of conf and mconf, files, the build
    KConf           KConfData + KSession: what the sessions call
    KSessionProofs                                           TLAPS proofs
    MCKConf         menus and plans for TLC

    MCParts         Execute, BoothMul, WatchpointPool, Traces, SdbExpr, ByteLanes
                    and KExpr on small inputs

The first groups are the processor and are composed: `Core` contains the memory
side.  `Simulator` is the program around the processor and does not contain
`Core`: it sees the processor as the simulator does, through the calls it makes
in a clock cycle.  `Core` carries the one fact that is assumed of these calls,
that they report the instructions of the program in order (`HarnessPcAgrees`),
and the one its fairness rests on (`KeepsRetiring`).  In the same way `Devices`
sees the bus through what `FetchBus` shows of it, that a load is answered once
and reads memory in one or several cycles.

**Time.** One step of the processor is one clock edge of the whole circuit.  The
model of a component is an action `<Component>Tick(inputs)` in which the
registers get their next values, and operators for the output wires; the
operators have the names the wires have in the source.  A composition evaluates
the wires and conjoins the ticks: `BusTick` and `Core!Tick` do what `Top.scala`
does.  That the wires can be evaluated in one order shows that there is no
combinational loop.  Where the circuit leaves something open, the model is
nondeterministic: a read carried out in the cycle of a write returns the old or
the new word, since `MemRead` and `MemWrite` are two unordered combinational
processes.

**FetchBus** closes the memory side with an environment that may do anything a
pipeline could: present any load or store and keep it until it has finished,
take instructions at any pace, redirect from the execute stage for as long as
it is held up, trap whenever an instruction is past the execute stage, change
`mtvec`.  Its variable `want` is a history variable, the pc of the instruction
decode has to take next.  `Core` is checked to be such an environment
(`UsesFetchBus`, a refinement), so that what is proved for `FetchBus` holds in
`Core`.

**Core** is the processor with instructions as records (`Inst`).  The control
fields of the pipeline bundles are functions of the instruction latched with
them, so the bundles keep the instruction and the data fields.  One operation
stands for each group of rows of the decode table that the pipeline treats
alike: `add` for the register-register operations, `addi` for the ones with an
immediate, `ld` and `sd` for all widths, `beq` for all branches.  What the rows
of a group do not share is in `Execute`.  `cpu_pc` and `npc_state` are the
simulator's; `SimulatorTick` is its handler after the edge.  `ret_mem` is a
history variable: memory when the last instruction retired (the store of an
instruction reaches memory before the instruction retires).

**ISA** executes one instruction per step.  It stands for the reference machine
behind `difftest.cpp`, which is not part of the repository, and is written from
the RISC-V instructions' meaning and not from the pipeline.

**Execute** is what one instruction computes: the columns of its row that select
the operation and the operands, `AlgLog`, `MulDiv`, the jump of EXU and the bits
of the immediate.  `Manual` and its neighbours say the same from the RISC-V
manual.  `mul_out` is the set of values that the unit may have: a division by
zero that `MulDiv` does not catch has any result.  **BoothMul** reduces one
column of the 130 per step, which is the order in which the carries go; its
history variables multiply by hand.

**Simulator** follows `simulator.cpp` statement by statement where the order
matters.  `at` is the place of control: the prompt of the debugger, the clock
loop of `exec_one` (`ClockEmpty`, `ClockRetire`: one cycle with the processor's
calls and `dpi_c_handler` behind it), the rest of the loop's body (`Retired`:
`exec_one` behind its loop, `difftest_step`, `check_watchpoints`, the test of
the run state), `device_update`, and the end of `cpu_exec` (`Return`).  Commands
are actions at the prompt; in batch mode the only one is `c`.  A place of its
own for everything that can come between two instructions is what makes the
races visible: `npc_state` is written by the handlers, the comparison, the
watchpoints, the window and the end of the run, each at its own place.

An instruction of a program is its kind, what it does to register a0 and what
the processor reports besides: it keeps or flips a0, reads a device (any value),
is executed wrongly by the processor, is an `ebreak`, or is unknown.  `ref` is
the register file and pc of the reference machine.

**WatchpointPool** is the code's two singly linked lists over one array of
links; `Simulator` extends it, and it is also a specification of its own with
arbitrary expression values.  **Traces** is one step per executed instruction,
with the calls that are really active as history; what a member of a new node holds
before it is set is any value.  **SdbExpr** has `make_token`
and the evaluator as operators over sequences of characters; the trees that the
inputs are made from carry the value that C gives to them.

**Devices** is memory and devices behind the bus.  A load starts, its address
stays at `MemRead`, which may be evaluated again (`Reevaluate`) before the
response and, for the keyboard, after it: every evaluation takes a key, and the
history variable `lost` says that one was replaced that no load had returned.  A
store goes through the mask of
`LSHandler`, the runs of `pmem_write` or `mmio_write` and the callbacks;
`device_update` polls the window.  **KeyQueue** is the ring between `send_key`
and the data port.

**KSession** is one program after the other over one set of files.  A session
reads, asks or edits, and writes; a step is one menu for `conf`, one key for
`mconf` and one file operation of `conf_write` and `conf_write_autoconf`
(temporary file, two renames, touching, two temporary files, two renames).
`Crash` ends a program between any two of them.  `Change` edits the Kconfig
files between sessions, and `Build` compiles what uses a touched symbol.
What the symbols are after a call is a constant of it (`Calls`, functions of the
symbols in memory, which `Next` hands to the steps).  **KConf** defines them (`KCalls`) from `KSymbol` and
`KConfData`, which are operators that take the state of all symbols and return
the one they leave behind, since calculating one symbol calculates others and
sets more than its value.

## 3. Abstractions

* Words are opaque on the bus of `FetchBus` and `Core`, where a store replaces a
  word; byte strobes, the width and sign of loads and the runs of bytes are in
  `ByteLanes` and `Devices`.  The half word an instruction sits in is left out.
* Code and data do not overlap: the program does not store into its own code.
  The processor has no mechanism for it (fetched instructions are not re-read),
  so self-modifying code is outside what it supports.
* A pc of `Core` counts instructions, and wraps at the end of the code.
* Registers of `Core` are two bits wide, there are three of them and two cells
  of data; the addition wraps as the code's does at 64 bits.  Registers of
  `Execute` have eight bits, and a word has four: the operations are written for
  any width, and the borders (signs, carries, shift amounts, zero, the least
  number) are where they are at 64.  `BoothMul` and the immediates have their
  full width, bit by bit.
* `r_if2id.data.cause` is constant in the code and is left out, and so are
  `device_op`, `prot` and `resp`, that nobody reads or that only difftest reads.
* The CSRs are the four of the code.  They all start at 0; `mstatus` starts at
  another constant in the code, and nothing depends on its value.
* Every memory word holds a definite value from the start; code and data of the
  program are what `pmem` was loaded with.
* A program of `Simulator` is three instructions in a circle; behind an
  instruction that ends it others follow, so that running on can be seen.  It
  has no `nop` of its own (section 6, `core_nop`).
* A watched expression is opaque in `WatchpointPool` and one of two registers in
  `Simulator`.  A text that cannot be evaluated is the action `new_wp_invalid`.
* Counters that are only printed and the waveform are left out, and so are the
  commands that print (`info`, `x`, `p`, `help`).
* `difftest_skip_dut` has no caller, and its branch of `difftest_step` is left
  out.
* The window is polled at most sixty times a second.  In the models a poll finds
  the window closed or does not, which covers a poll that is skipped.
* Keys that are not mapped, and all keys while no program runs, are dropped by
  `send_key` and are not steps of `KeyQueue`.
* A line of a configuration file is a symbol and its text; headings and
  comments are layout.  Texts of numbers are a few that compare differently as
  numbers and as strings.

## 4. Runs

| run | instance | shows |
|---|---|---|
| `fetchbus` | two instruction addresses that follow each other in a circle, one data cell, two words | the right instruction at the right pc, in order, once; loads and stores take effect when `fin` says so; the bus refines `AtomicMemory`; `IInv` of the proofs; and, although the load/store unit has priority, both users are answered: a handler that has been answered needs a cycle before it asks again, in which the fetch stage gets the channel |
| `core` | every program of four instructions of one of five instruction sets, 326 000 states | data (forwarding from three stages, load-use stalls, stores read back), branches on values just loaded, links as operands, CSR instructions back to back and behind loads, traps and handlers that return with loads, stores and branches in the shadow of an `ecall`: all retire as in `ISA`, drive the bus as `FetchBus` allows, keep the simulator's pc in step, and keep retiring |
| `sim` | all 216 programs of three instructions with the reference machine and without watchpoints; endless programs with two watchpoints | a program that has ended is not run on, what is reported about its end is true, a batch run never exits well behind a failure, also when the window is closed in the same step; no change of a watched expression is passed over; runs come back to the prompt |
| `devices` | a ring of three, two keys, up to five typed; words of four bytes of one bit; a clock up to three | the ring is a bounded queue, that wraps around, is read when empty and overflows; a program reads its keys in order, and the first ones typed until an evaluation has replaced a key (`lost`); loads and stores of every size at every address are those of an array of bytes, through lanes, masks, regions and callbacks |
| `parts` | below | every instruction against the manual, the multiplier, the watchpoint pool, both traces, expressions of the debugger and of the configuration, masked writes |
| `kconfig` | eight plans over a menu of eleven symbols, 158 000 states | no value is stale, nothing that was saved is lost, no object that needs it goes without being compiled again, but for a removed symbol that is still mentioned (`passed`), files read back what was written, the questions end with nothing new |
| `core_mret`, `core_setbits`, `core_nop`, `parts_words`, `sim_ended`, `kconfig_tristate` | as the passing runs, with the case | violations, section 6 |

*Why the bounds are enough.*  In `fetchbus` the environment is unrestricted,
which is where the interesting behaviour comes from; two instruction addresses
are enough for "the wrong one" to exist, and the proofs hold for any.  In `core`
the instructions are laid out in a circle, so that every instruction follows
every other at distances one, two and three: the pipeline never has more than
that many instructions behind the one it decodes.  In `sim` three instructions
give one that ends a run, one before it and one behind; every sequence of
commands is possible between the runs, and `si` takes 0 to 2.

`parts` takes one part at a time.  A pool of four watchpoints has a head, a
middle and an end, and is used up and filled again; the ring of three
instructions wraps around twice in six.  Every first operand of eight bits meets
second operands and immediates at the borders of a register and of a word, in
either place, for every instruction; immediates are the borders and every single
bit of each format.  The multiplier gets all pairs of nine patterns that
together make every Booth digit.  Masks are all 256.
Expressions have up to two operators, of all, with every form of operand.
Dependencies are all pairs of single conditions, and what comes out of three of
them.  The operators are checked as action properties over the step that chooses
the input.

In `kconfig` a plan is what one developer does: the programs that may be
started, how many, how many keys are pressed in each, and the Kconfig files
before and after a change, in which a symbol comes or one goes.  The menu has a tristate that selects another, one
that is selected, a choice of two with a default, a symbol that depends on one
of its values, a number with a range that depends on a tristate, and one that
appears or disappears with the change.  Where all symbols are calculated, that is
in the order of the menus; the code walks its table of names in the order of
their hashes, so that one order is checked and not every one.  Three sessions are enough to write, to be killed and
to write again, with a build in between.

`CHECK_DEADLOCK FALSE` is set where the system stops: the simulation of `Core`
ends at `ebreak` and at an unknown instruction; the simulator is left by `q`, at
the end of the input and after a batch run; `new_wp` without a free watchpoint,
`key_enqueue` without room and a write that a device refuses fail an assertion;
a part of `MCParts` is over when its input has been evaluated, and a plan of
`KSession` when its sessions are.

**Fairness.**  For the processor, the liveness properties assume `WF_vars(Tick)`:
the clock keeps running.  `execute` in `simulator.cpp` clocks the processor in a
loop until an instruction retires, and goes on with the next.  Nothing is
assumed of the choices of the environment in `FetchBus`.  `FairSimSpec` assumes
that the simulator goes on and that the processor finishes an instruction again
and again, which is `KeepsRetiring` of `Core`; nothing is assumed of the user or
of the window.  `KSession` assumes that a program that asks goes on (`GoesOn`): a
user who is asked answers in the end, with any answer, and nothing else.

Every property of a passing run has a mutant in `PROJECT.json`: the change of
one definition by a plausible slip (an operator marked "Slip" beside the
definition) that makes TLC find the property violated.

## 5. Proofs

Seven modules hold the proofs.  What is proved holds for every value of the
constants that satisfies the assumptions named; all of these assumptions are
checked by TLC on the runs' instances.

**The memory side.**  `FetchBusProofs` holds for every set of addresses and words
that satisfies `BusAssumption` (instruction and data addresses are disjoint, the
reset values are words and addresses, the successor of an instruction address is
one):

| theorem | statement |
|---|---|
| `Invariant` | `Spec => []IInv` |
| `TypeCorrect` | `Spec => []TypeOK` |
| `FetchesCorrectWord` | `Spec => []FetchedWord` |
| `FetchesInOrder` | `Spec => []FetchInOrder` |
| `LoadsCorrectValue` | `Spec => []LoadValue` |
| `StoresTakeEffect` | `Spec => []StoreValue` |
| `ImplementsAtomicMemory` | `Spec => AtomicSpec` |

None of the safety properties is inductive.  `IInv` strengthens them:

* `ReadChannel`: the arbiter's owner, the memory's read state and the two
  clients' states move together.  The arbiter is idle only in the first cycle
  after reset; `ar.ready` is up exactly while the memory accesses; the latched
  address is the one the owner still drives.  Without the last, a response
  could belong to an address the client has moved on from.
* `WriteChannel`: `aw.ready`, `w.ready` and `b.valid` are functions of the
  handler's state, and the write registers hold the request.
* `ReadData`: the word held for a client is still the one in memory.  The store
  that could change it would have to be the request of the waiting client.
* `FetchAddresses`: the fetch stage holds the reset value as its pc only before
  the first request, and every address it may go to is an instruction address.
* `NextFetch`: where the instruction decode must take next is.  A trap that is
  remembered hides everything else and its vector cannot change, because no
  older instruction is left; a redirect that is remembered is the execute
  stage's while that is held up, and `want` afterwards; otherwise it is the
  word offered, or the word being read.

Each part has a lemma of its own that a clock cycle preserves it; the first
three do not depend on the fetch stage's inputs.  For the refinement,
`IfuPortValue` and `LsuPortValue` show that under `IInv` the abstract ports are
functions of one handshake machine each, and the step lemmas follow those
machines.

**The processor.**  `CoreProofs` holds for every width of the registers, number of
registers and size of the memory.  `InstAssumption` says that these numbers are
not zero; `WordAssumption`, that 2^WordBits is a number
of at least two (the provers know nothing of powers) that the register numbers
and the cause of an `ecall` are below; `BitsAssumption`, that every set of bit
positions is that of some word.

| theorem | statement |
|---|---|
| `CoreProofs!TypeCorrect` | `Spec => []TypeOK` |
| `CoreUsesFetchBus` | `Spec => UsesFetchBus` |
| `PipeInvariant` | `Spec /\ Conforming(mem) => []PipeInv` |
| `PipelineRunsISA` | `Spec /\ Conforming(mem) => RunsISA` |
| `ReportedPcAgrees` | `Spec /\ Conforming(mem) => HarnessPcAgrees` |

`CoreUsesFetchBus` makes the theorems of the memory side theorems about the
processor, and `FromBus` takes the invariant `IInv` from it.
`Conforming` describes the program that is in memory at the start: it leaves out
exactly what the code gets wrong (the runs `core_nop`, `core_setbits` and
`core_mret` of section 6, and `csrrw` with a zero source field).  The programs of
`core` are conforming.

`PipeInv` (`Core`) is an induction along the pipeline in place of one over
time.  The instruction in write back finds the machine's state as it is (`gpr`,
`csr`, `cpu_pc`); the state that the next older results will leave is written as
two more instances of the reference machine, `AtLs` for the instruction in the
memory stage and `AtEx` for the one in execute.  Each stage then holds what its
own machine computes: `WriteBackGood`, `MemoryStageGood`, `ExecuteGood`, and
`DecodeGood` for where decode goes next.  Forwarding is right because decode
reads exactly the registers of the last of these machines.  Behind a trap
nothing is said of a stage until the trap has thrown it away, and `MemoryGood`
says that the one store that is ahead of its retirement is that of the
instruction in the memory stage or write back.  A step moves each machine by one
place or leaves it alone, which is what the lemmas of `CoreProofs` show stage by
stage; retiring is then a step of `ISA`.

**Memory and devices.**  `DevicesProofs` holds for every length of the ring of at
least two and every set of keys, and for every width of a word that the sizes
of the accesses divide, every set of values of a byte, all data and every program
(`DeviceAssumption`):

| theorem | statement |
|---|---|
| `DevicesProofs!TypeCorrect` | `Spec => []TypeOK` of `KeyQueue` |
| `RingIsQueue` | `Spec => ImplementsFifo` |
| `KeyboardIsQueue` | `DevSpec => ImplementsFifo` |
| `ReadsKeysInOrder` | `DevSpec => []KeysInOrder` |
| `RunsMerge` | writing the runs of any mask is merging under the mask |
| `DevTypeCorrect` | `DevSpec => []DevTypeOK` |
| `MemoryIsBytes` | `DevSpec => ImplementsBytes` |

For the ring, types are enough.  The events waiting are read off the ring by
index (`Slot`), which avoids induction: `EnqueueStep` shows that every slot but
the last keeps its event and `ReadStep` that every slot moves by one, and both
end with the sequences being equal at every place.  `KeysInOrder` says that
there is a map from the keys delivered to those typed; `KeyInv` strengthens it
to one into the keys that have left the ring (`KeyOnItsWay`), with room for the
key that has been read and not delivered: each further evaluation of the read
takes another key, behind it.  The other half, `QueueHoldsTheRest`, is that the
ring holds the last keys typed.  The second part of `KeysInOrder` is that nothing
is missing while no key has been lost; `GapInv` counts for it: the keys that have
left the ring are those delivered and the one on the wire.  A key is lost only
when an evaluation replaces one that no load has returned; an overflow fails the
assertion of `key_enqueue` and ends the simulator.

`RunsMerge` follows the loop over the lanes: behind each lane, the runs found so
far have been written and the data is shifted to the first lane of the run being
collected (`Collecting`).  It covers masks that `LSHandler` never makes.  The
masks it does make are one run (`OneRun`), which is why it is enough that
`mmio_write` passes that one on.  `AccessPlace` relates lanes and addresses, and
`LoadedWord` is the invariant: a load that waits for its answer has the word as
it is now, since a store waits for it and the screen only takes its request back.

**Multiplier.**  `BoothProofs` holds for all operands of 65 bits:

| theorem | statement |
|---|---|
| `Multiplies` | `MulSpec => []MultipliesSigned` |

A carry counts two in its own column, so the argument goes from a column to the
next and never speaks of the weights 2^i.  `TreeAdds`: what goes into a tree of
a column is its output and twice its 32 carries, which is a fact about a row of
adders (`AddersAdd`) and the lengths of the eight levels.  A digit of bits b2,
b1 and b0 is worth b1 + b0 - 2 b2; its summand puts the multiplicand once or
twice, with or without a sign, into the columns from its own on.  In a single
column this is not the digit's share of the product; `Debt` is the difference
that the columns above make up for, and `DigitStep` follows it from a column to
the next.  `BoothInvariant` says that the carries that the trees and the adder
hold, with all these debts, are the carry of the multiplication by hand and the
ones that complete negative summands (`Carry`).  So the two totals of a column
differ by an even number (`SameParity`), and the bits are the same.  The last
digit has the sign of the multiplier, which goes on for ever (`Rest`).

**Debugger.**  The first part of `SimulatorProofs` holds for every size of the pool and any
expressions:

| theorem | statement |
|---|---|
| `PoolInvariant` | `Spec => []PoolInv` |
| `PoolPartition` | `Spec => []Partition` |
| `PoolIsSet` | `Spec => ImplementsSet` |

What is on a list is defined by following the links.  `PoolInv` replaces the
walk by a distance: each watchpoint has a number, different for those of one
list, that its link lowers by one.  Setting a watchpoint moves the first of the
free list, and deleting one lowers the distances in front of it, so that each
step changes the numbers in one place; `OnListIs` gets the walk back from them.

**Simulator.**  The rest of `SimulatorProofs` holds for programs of every length, any watched
expressions, any size of the pool and any bound of `si`:

| theorem | statement |
|---|---|
| `SimTypeCorrect` | `SimSpec => []SimTypeOK` |
| `ChangesAreNotMissed` | `SimSpec => NoChangeMissed` |
| `EndInvariant` | `SimSpec => [](Unwatched => EndInv)` |
| `EndStaysTheEnd` | `SimSpec => [](Unwatched => EndsForGood)` |
| `ReportIsTrue` | `SimSpec => [](Unwatched => ReportsTheEnd)` |
| `FailureReachesExit` | `SimSpec => []FailureIsReported` |

`Unwatched` says that the user sets no watchpoints: the build has none, or the
run is a batch run, or nothing is watched.  With them `EndsForGood` does not hold
(section 6, `sim_ended`).  `EndInv` says for each place of the loop what is known
there: in the loop nothing has ended and the two machines agree (`RunsOn`),
behind a cycle that has retired an instruction the handlers have run and the
reference is one behind (`JustRetired`), and outside the loop an ended run state
is a true report (`ReportedEnd`).  Two things look dangerous and are not, because
of where the program may be then: the flag of `invalid_call` stays up, and a
closed window leaves the loop one instruction later.  `FailureIsReported` is
about batch runs, which set no watchpoints.  For `NoChangeMissed`, `WatchInv`
says that the values kept with the watchpoints are the present ones at every
place but between the retirement of an instruction and `check_watchpoints`.

**Traces.**  `TracesProofs` holds for every size of the ring, any functions and
every program that returns from where it called:

| theorem | statement |
|---|---|
| `RingIsPrinted` | `TraceSpec => []PrintsLastInstructions` |
| `LinesAreIndented` | `TraceSpec => []IndentedByDepth` |

`RingInv` counts the places of the ring from the head, the oldest one: the k-th
of them has the k-th of the last `IRING_SIZE` instructions, and no text while
there have been fewer.  Adding an instruction moves every place by one.
`RingPrinted` follows the loop of `iring_print` over these places.  For the
calls, `DepthInv` says what `ftrace_print` would have behind the last line: as
long as the program calls listed functions at their entries (`foreseen`), its `deep`
is the number of active calls, of jumps `mistaken` for calls and of its `nret`,
and `nret` the number of jumps since the last return.  `AfterAppend` (a node at
the end of the list is one more line) makes this a fact about single steps.
Without `nret` in the invariant a return would not be indented by the active
calls.  Nothing is assumed of the memory that a node is made of: `mistaken`
counts the jumps whose `ret` it happened to make true (section 6), and each of
them moves the lines behind it by one.

**Configuration.**  `KSessionProofs` holds for any menus, answers, plans and
numbers of sessions, and for any way to calculate the symbols (`Calls`):

| theorem | statement |
|---|---|
| `FilesInvariant` | `Spec => []FilesInv` |
| `SavedStays` | `Spec => []SavedIsKept` |
| `BuildInvariant` | `Spec /\ []AutoTells => []BuildInv` |
| `RebuildsAll` | `Spec /\ []AutoTells => []NoRebuildMissed` |

`FilesInv` adds to `SavedIsKept` that what a rename takes is there.
`NoRebuildMissed` speaks of a finished `auto.conf` and header only; `BuildInv` is
what holds in between.  Wherever the programs were killed, a symbol with another
text in `auto.conf` than its users were compiled with has been touched or passed
over (`Met`); behind `conf_touch_deps` so has one with another value in memory,
and behind the writing one with another text in the temporary file, which takes
the place of `auto.conf`.  `Compared` shows that `changed_deps` misses none but
those in `passed_over`, the symbols that a changed Kconfig file no longer has and
still mentions (section 6); this needs `auto.conf` to have no line of a choice.
`passed` keeps them until what uses them is compiled.  `AutoTells` is what the
argument takes from the symbols: the line that is written of a symbol has the
value that was compared.  It is part of `ReadsBack` in the run `kconfig`, since
writing calculates with recursive operators.

**Induction.**  The library's induction theorems cannot be used, since the
provers cannot instantiate an operator.  Where a definition follows a list or a
loop (the links of the pool, the runs of a mask, the bytes of a number, the
ring, the sums over digits and adders), the proofs take the least number at which a statement fails, which exists because
`<` is well-founded (`LeastNumber`), and show that it does not.  The recursive
functions are shown to exist in the same way.

Only model-checked:

* `ExecutesRV64IM` and the operators of `Execute`, which are about arithmetic
  modulo powers of two and bits;
* `WritesByLane`: a masked write of the model against one byte at a time;
* `SdbExpr`, `KExpr`, `KSymbol`, `KConfData` and `KConf` follow recursive C
  functions with recursive operators, which the prover does not take: what is
  said of expressions, `UpToDate`, `ReadsBack` and `NothingNew`;
* all liveness, which is out of the prover's reach together with `ENABLED`.

## 6. Where the code and its documents disagree

* **mret does not see a pending write of mepc** (`core_mret`).  `IDU.scala:71`
  takes its next pc from the register, though every other read of a CSR goes
  through the forwarding network, as `README.md:103` describes.  An `mret`
  right behind `csrrw x0, mepc, x1` returns to the old address.
* **A nop of the program's own is taken for an empty stage** (`core_nop`).
  `inst_finish` (`simulator.cpp:90`) drops it, `cpu.pc` stays behind, and the
  next retirement fails the assertion at `simulator.cpp:207`.
* **csrrs and csrrc with rd = x0** (`core_setbits`).  The value they modify is
  gated by `csr_r_en`, which needs rd to be another register
  (`CSRControlUnit.scala:20`): the other bits of the CSR are lost.
* **Words divided by a zero word** (`parts_words`).  `MulDiv.scala:53` looks at
  all 64 bits of the divisor also for `divw`, `divuw`, `remw` and `remuw`.  Where
  the low word alone is zero, the divider divides by zero.
* **A watchpoint hides the end of the program** (`sim_ended`).
  `trace_and_difftest` sets `NPC_STOP` when a watched expression has changed
  (`simulator.cpp:181`), also over the `NPC_END` or `NPC_ABORT` of the same
  instruction.  The pc changes with every instruction, so a watchpoint on it is
  enough.  The next `c` or `si` then runs on behind the end, although `cpu_exec`
  has a message for it: "Program execution has ended. To restart the program,
  exit NPC and run again." (`simulator.cpp:266`).
* **A choice of tristates forgets what was set** (`kconfig_tristate`).
  `sym_calc_choice` clears the flag of what the user has set while the choice is
  being calculated from it (`symbol.c:288`) and the value stays marked valid,
  although calculating it again gives another one (`expr.h:94`).  The choice of
  `kconfig` is one of booleans, as all choices of the simulator's Kconfig are.
* **A jump may be printed as a call that returns** (`parts`, `IndentedByDepth`).
  `ftrace_inst` sets `ret` of a node for a call that links (`ftrace.cpp:171`)
  and not for one that does not; `malloc` leaves there what the memory held.
  `ftrace_print` ("how many calls have no return", `ftrace.cpp:195`) then does
  not take the jump back, and every line from the next return on is indented
  too far.  `IndentedByDepth` says how far: by one for each such jump
  (`mistaken`), and the run `parts` and the proof let the memory hold anything.
* **A symbol that is removed but still mentioned is not touched**
  (`kconfig`, `NoRebuildMissed`).  "If CONFIG_FOO previously existed in auto.conf but it is
  missing now, include/config/foo.h must be touched." (`confdata.c:465`)  The
  code asks `sym_find`, which also finds a symbol that is only mentioned
  (`symbol.c:839`); it has no type, gets no flag from its line, and
  `conf_touch_deps` passes it over (`confdata.c:1024`).  What was compiled with
  it stays as it was.  `NoRebuildMissed` has these symbols (`passed`) as its only
  exception; a plan of `kconfig` removes `T` while `LATE` depends on it.

The passing runs leave these cases out: the programs of `core` have no `nop`, no
`mret` behind a write of mepc and no CSR instruction without a result;
`ExecutesRV64IM` excepts `ZeroWordOnly`; the programs with watchpoints of `sim`
do not end.  `core` also leaves out `csrrw` and `csrrwi` with a zero source field
(rs1 = x0, immediate 0), which do not write in the code for the same reason, and
`ExecutesRV64IM` the `jalr` whose target is odd (`EXU.scala:52` keeps the last
bit, which the manual clears).

## 7. What is left

Not modelled:

* `InstList.scala` (the bit patterns of the instructions), the codes of
  `mem_ctl` and targets of `jalr` that are odd.
* Host utilities (`log.cpp`, `rand.cpp`, `disasm.cpp`, `systime.cpp`): pure
  input and output.  `main.cpp`'s options and the image that is loaded.
* The parser and macros of kconfig, its dialogs and `fixdep`'s parsing:
  sequential text processing without state that outlives it.  The tree of menus
  that `menu_finalize` builds is given to `KSymbol`.
* Of `conf`, `mconf` and `confdata.c`: defaults from `defconfig_list`,
  `KCONFIG_ALLCONFIG` and its seed files, `KCONFIG_OVERWRITECONFIG`,
  `helpnewconfig`, configurations under other names, menus inside menus other
  than choices, search, hidden symbols shown on demand, write errors.  A hex
  number is typed with its 0x.
* The makefiles do not enforce that a build follows a finished `syncconfig`;
  `Build` assumes it (`InSync`).
* The generators of the decode table and of test vectors (`src/utils`) and the
  unit tests.
