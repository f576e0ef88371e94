# A TLA+ model of AttoRV32

AttoRV32 is a small RV32 core for ASICs (`rtl/attorv32.v`) with an AHB-Lite
wrapper, a debug SoC (core, RAM, stub ROM, debug UART, hardware breakpoints) and
a GDB stub in C that runs from the ROM. This directory holds TLA+ modules
translated from that code, the TLC configurations that check them on small
instances, and proofs that TLAPS checks for every value of the constants.

    tlc -config Core.cfg MCCore        # model-check a run
    tlapm DbgSocProofs.tla             # check proofs

`PROJECT.json` lists the runs with their properties, the source lines that each
definition stands for, the hazards of the code with the properties aimed at
them, a mutant of the code for every property (the definitions marked "Mutant"
in the modules), the findings and the theorems.

## 1. Inventory

| Component | State | Operations | What is hard | Module |
|---|---|---|---|---|
| fetch front end, `attorv32.v:545-580, 790-960` | FSM state, PC, one cached word and its tag, `fetch_second_half`, `skip_fetch`, `instr` | fetch, latch, second half, skip a fetch, leave S_EXECUTE or S_WAIT, reset | a 32-bit instruction across two words, a skipped fetch, the wrap of the address space, resets with an access under way | `AttoFetch` |
| traps and CSRs, `attorv32.v:580-740` | `mepc`, `mstatus`, the four `mcause` bits, `dbg_halt_mask`, `instret` | accept IRQ, NMI, debug halt, ECALL, EBREAK; MRET; WFI; CSR writes | the same cycle: a trap and the instruction it interrupts, two traps, a trap and a CSR write; handlers in handlers | `AttoCore` |
| multi-cycle ALU, `attorv32.v:226-535` | shift counter and data; product, accumulator, multiplicand, counters; dividend, divisor, quotient and mask | load, step, fixup, negate, latch | signs, the top bit, a unit still running for an instruction a trap cut short | `AttoAlu` |
| AHB-Lite wrapper, `attorv32_ahbl.v` | FSM, address and direction registers, read latch | accept, address phase, data phase | which HREADY belongs to which phase; data that moves under a store | `AttoAhbl` |
| hardware breakpoints, `hw_bkpt.v` | `bp_addr`, `bp_en`, `bp_hit`, `halt_req` | match, register reads and writes | a registered request against a core that moves on | `DbgSoc` |
| debug SoC, `attorv32_dbg.v` | wiring | bus decode, debug request | the two sources of a halt | `DbgSoc`, `GdbBridge` |
| debug UART, `dbg_uart.v` | synchroniser, `baud_div`, calibration, receiver, transmitter, break counters | calibrate, receive, deliver, read, send, detect a break | the host's clock against the chip's; a read in the clock of a delivery | `DbgUart` |
| GDB stub, `gdb_stub.c`, `crt0_stub.S` | `g_regs`, `bps`, `stepping`, the program in RAM | entry, exit, g G m M c s Z z q H v | EBREAKs planted over one another; predicted addresses; traps between and in place of EBREAKs; a reset between two stores of a command | `GdbStub` |
| RSP packets, `gdb_stub.c:142-205`, `611-681` | packet buffer, retries | get, acknowledge, put, retry | lost and garbled characters, repeated packets, a buffer that is too small | `GdbRsp` |
| GDB bridge, `sim/tb_dbg_gdb.cpp` | break countdown, sockets | break, inject a byte, take a byte, reconnect | writes behind the hardware's back into a load that writes back twice; a break line against a detector that is full for five clocks | `GdbBridge` |
| firmware, `crt0.S`, `isr.c`, `selftest.c`, `bench_sort.c` | `tick_count`, the saved registers, main's variables | start, trap entry and exit, handlers, trap tests, sorts | an interrupt between any two instructions; the two lengths of EBREAK | `Firmware` |
| decoder, register file, single-cycle ALU, lanes, decompressor | none but registers | combinational | encodings | not modelled |
| `main.c`, `bench_compute.c`, `dbg_test.c`; stub ROM; scripts; other testbenches | | | | not modelled |

They interact as follows. The core asks memory with strobes and waits for
`mem_rbusy`/`mem_wbusy`; the AHB wrapper and the debug SoC are two such
memories. The ALU units are started by `aluWr` and answer with `aluBusy`. The
breakpoint unit and the UART's break detector raise `dbg_halt_req`, on which the
core traps to the stub. The stub patches the program with EBREAKs, which trap
to the stub again, and talks to the debugger in packets through the UART; in
simulation the bridge stands between the UART and the debugger's socket. The
firmware runs on the core alone, under a periodic interrupt.

What makes each correct:

- front end: what is executed is what memory holds at PC; no strobe on a busy bus;
- traps: no handler inside a handler but for a debug halt; each instruction
  either completes or is returned to; a request that is held is served; counters
  count; results are written before they are read;
- ALU: what the ISA says, in every build, in bounded time;
- wrapper: stores land in order with their own data, reads are answered with
  theirs, no request is dropped;
- breakpoints: exactly the instruction at an enabled breakpoint is halted;
- UART: bytes arrive and leave as they were, once, in order; breaks are told from
  data;
- stub: the program is the debugger's but for planted EBREAKs, execution stops at
  breakpoints, a step is one instruction and comes back;
- packets: what is executed and answered is what was asked, and every command
  comes to an end;
- bridge: bytes pass both ways once and in order, a break finds the core;
- firmware: main does not notice its interrupts.

## 2. Modules

State keeps the names of the Verilog and C. Data is abstract where no property
sees it: an instruction is a class, a parcel a record, a byte of RAM a model
value.

**`AttoFetch`** (one step is one clock). Instruction words are pairs of parcels;
only `LongParcels` tells 16-bit from 32-bit instructions. Memory may insert wait
states; the program stores to `StoreWords` only, and nothing is claimed of
instructions there, since the one-word cache is not invalidated by a store. What
S_EXECUTE does is left open: `GoOn` and `Vector` go anywhere. It is therefore
also the abstract specification that the core is shown to implement.

**`AttoCore`** EXTENDS `AttoFetch` and completes it. Every action is the
front-end action of its FSM state conjoined with what the same clock does to the
CSRs, the ALU handshake, the write-back and the counters. `Target` gives the
addresses that operands could produce. `cut` and `nested` are history variables
that mark the two known ways in which an NMI or a debug halt breaks what holds of
an IRQ (findings); properties that would fail after them say so and claim
everything up to then. Both start FALSE again with every reset. `retired` counts the
pulses of instret since the last instruction was latched (`latched`: there was one),
and `overlap` marks the instruction that an IRQ meets and that waits all the same.

**`AttoAlu`** translates the shift, multiply and divide units bit for bit at a
register width of 2^LogW, in the three builds (parallel, serial with radix-2,
serial with radix-4 Booth multiplier), with `IsaResult` as the reference for results
and `Latency` for time. `waited` counts the clocks of S_WAIT, `kept` those in which
only another instruction's unit is busy.

**`AttoAhbl`** has the part of the core that drives the port, the wrapper's FSM
and a slave. `setup`, one of `Setups`, says how many wait states the slave takes at
most (`ReadWaits`, `WriteWaits`), whether the program lets a fetch be skipped
(`Skips`: compressed code) and whether an NMI or a debug halt may cut an access
short (`Cuts`). `due` is the history
of strobed stores, `cut` says that an access cut short still occupies the wrapper.
`SlaveKeepsUp` is the condition under which stores are safe.

**`DbgSoc`** EXTENDS `AttoCore` with `hw_bkpt.v` and the break line; its next
state is the core's conjoined with the unit's at the same clock edge, and the
debug request of the core is the unit's output.

**`DbgUart`** has every register of `dbg_uart.v`, the host at the other end,
whose bit period is a number of eighths of a clock and whose frames begin at any
phase, and the core's reads and writes.

**`RvProgram`** is a program at the level of instructions: parcels, `Decode`,
`Successors`. **`DbgTarget`** is what a debugger may expect of a target: an
image, a set of breakpoints that are not part of it, and a processor that is
stopped, runs, or runs one instruction. **`GdbStub`** is the stub: the table with
the bytes it saves, the frame, the prediction of the next addresses, the
commands, and the program that executes what is really in memory. It is shown to
implement `DbgTarget`. A command is one step, or is cut short: `CutAt` ends it
before or between the stores of `bp_insert` and `bp_remove`, after which the
stub begins anew on what is then in memory. `scarred` keeps the addresses where
that happened; `ProgramIntact` claims memory everywhere else, and `StepReturns`
is claimed while there are none. One cut is allowed (`FirstCut`). **`StubLayout`**
EXTENDS it with the layout of the programs that the stub's breakpoints are made
for (`Layout`), and with the inductive invariants of section 5, `StubInv` and
`StepInv`.

**`RspLink`** is what a debugger may expect of the packet layer: the stub executes
the command issued and no other, and answers it; on a line that has failed it
may execute it again, or not answer. **`GdbRsp`** has `get_packet`, `put_packet`
and the command loop, a character read or a packet written at a time, the
receiver that holds one character, a line that loses and changes characters, and
the debugger with its acknowledgements, refusals, timeouts and repetitions. It
is shown to implement `RspLink`. `Overrun` lets characters be overwritten whenever
the stub is not reading; which of them is the hardware's affair.

**`GdbBridge`** has one step per pass of the bridge's loop, which is one clock:
the break line, the byte put into the UART's registers, the clock edge of UART
and core, the byte taken out, the connection. The core is the FSM of
`attorv32.v` with the length of a fetch left open, and executes any program or
the stub's polling of STATUS and DATA.

**`Firmware`** has one step per instruction, or per group that an interrupt cannot
tell from one, of start-up, trap entry and exit, handlers, trap tests and sorts;
a step takes one to `MaxCycles` cycles, and the line of the testbench goes up
every `IRQ_PERIOD`. `clobbered` is the set of registers that do not hold what main
left in them.

**`MC*`** are the instances, and **`*Proofs`** hold the proofs: `DbgSocProofs`
(of `AttoFetch` and `AttoCore` too), `AttoAluProofs`, `AttoAhblProofs`,
`GdbBridgeProofs`, `FirmwareProofs`, `GdbStubProofs`, `GdbRspProofs`,
`DbgUartProofs`.

## 3. Runs

| Run | What it shows | Bounds |
|---|---|---|
| `fetch` | `FetchCorrect`, `StrobeOnlyWhenIdle` | three words: every one of the 64 layouts of 16- and 32-bit parcels, jumps anywhere, traps, resets, wait states |
| `core` | handler lock (`LockedInHandler`), debug mask (`MaskImpliesLocked`), results (`ResultCommitted`), exact counts (`RetiredExactly`), trap state (`TrapStateSurvives`), refinement of the front end (`ImplementsFetch`, `FetchIntact`) | three programs of 16 parcels that have every class of instruction, aligned and straddling, and a handler; all three requests free; wait states; reset anywhere |
| `live` | `LoopAdvances`, `IrqServed`, `HaltServed` under fairness | a loop with a store, a multiply or divide and WFI, and a handler with a load |
| `alu` | `ProductIsRight`, `ShiftOrQuotientIsRight`, `AnswersInTime` | four bits: all operands of all eleven operations in three builds, alone or after five operations that leave a unit running |
| `ahb` | `StoresLand`, `StoresSettle`, `RequestsTaken` | two words, two values; three setups: reads stretched by one clock, with skipped fetches and cuts; writes by three, without; both by three, with |
| `soc` | `HaltIsExact` | two breakpoints, a user program and a stub that both move them |
| `stub` | `ProgramIntact`, `ImplementsTarget`, `StepReturns` | two programs of ten parcels, one user slot and two scratch slots, three addresses, one write, one command cut short at any of its stores |
| `rsp` | `ImplementsLink`, `CommandEnds` | a buffer of three characters; commands `s`, `g` and an `M` that does not fit; any two characters lost or changed into `$` or `#`; three tries of the debugger |
| `bridge` | `BytesPass`, `BreakHalts` | four bytes; a break of 20 passes, as in the code |
| `firmware` | `InterruptsUnseen`, `TestsPass`, `Reports` | an interrupt every 7 cycles in any phase, steps of 1 to 3 cycles, every array of three values out of three, each sort once, nine turns of the waiting loop |
| `uart` | `LockedRight`, `BytesInOrder`, `ReadOnce`, `TxRight`, `BreakExact` | bit periods of 2, 4 and 20.125 clocks, all phases, three bytes, breaks of 10, 11, 12 and 14 bits, `cal_cnt` up to 255 |
| `lost_instr` | `InterruptedInstructionKept`, which the documentation states and the code does not keep (section 6) | the smallest instance with the case |

Most modules have a type invariant (`FetchTypeOK`, `CoreTypeOK`, ...) that a run
checks; `AhbTypeOK` and `SocTypeOK` are part of the inductive invariants of
section 5.

Nine more configurations are not runs. Eight end in a counterexample each, to a
sentence of the documentation or of a comment; the finding is in section 6:

| Configuration | Module | What the code does not keep |
|---|---|---|
| `RetireTwice.cfg` | `MCCore` | `RetiredOnce`: instret counts an instruction once |
| `RetireNone.cfg` | `MCCore` | `PulseHasInstruction`: what instret counts is an instruction |
| `CycleTable.cfg` | `MCAlu` | `CycleTable`: the cycles of the README's table |
| `AhbRead.cfg` | `MCAhbl` | `ReadAnswered`: what the core samples is what the slave holds |
| `AhbAddr.cfg` | `MCAhbl` | `AddressPhaseTaken`: an address phase stands until HREADY |
| `AhbWdata.cfg` | `MCAhbl` | `HwdataHeld`: a stretched write keeps its data |
| `BpRead.cfg` | `MCSoc` | `BpRegistersRead`: a load from a breakpoint register reads it |
| `Straddle.cfg` | `MCStub` | `LeavesNoTrace`: without breakpoints memory is the program |

`Stub2.cfg` (with `MCStub`) is `Stub.cfg` with two user slots, 485924 states without an
error.

Why the bounds are enough. *fetch*: an instruction touches at most two words,
and a third is there to come from or to go to; the tag wraps at the third as at
any other. *core*: the control sees only the class of an instruction and whether
it is in the cache; every class occurs aligned or straddling, and the theorems
of section 5 lift the bound for every program, and for the lock of the handler for
every program that keeps it apart.
*alu*: four bits is the smallest width at which the Booth recoding has more than
one digit, the fixup and the shift amounts are distinct and the sign bit is not
the only high bit; the theorems of section 5 lift the bound to every width.
*ahb*: one request can be outstanding,
so that two addresses tell which; three wait states are more than the
wrapper's way from one request to the next. *stub*: a second breakpoint finds the one user
slot taken and the table full, and the one there is can share an address with
either scratch slot; user slots meet one another in `Stub2.cfg`, and the theorems
of section 5 hold of any number; two scratch slots are all there are; the three addresses are where a call returns to, a branch, a
branch to itself, what follows a branch and an EBREAK of the program's own, so
that user and scratch breakpoints meet; a second cut would only enlarge
`scarred`. *uart*: two clocks per bit is the shortest period that works at all,
20.125 loses nearly the most a rounded-up period can lose, and the theorems of
section 5 lift the bound to every period; the timeout of the
calibration is longer than the eight bit periods it measures, as 8191 is. *rsp*:
two faults are the least that can spoil a packet and the refusal of it, or two
acknowledgements, and `$` and `#` are the characters that a packet's frame is made
of; three tries are the stub's own; a command of one character and
one that is longer than the buffer are the two kinds the buffer tells apart; up
to the first fault the theorems of section 5 lift the bounds.
*bridge*: four bytes fill and empty the one-byte register more than once; the
core's part is finite and complete. *firmware*: seven cycles let interrupts
follow each other within a handler and come at every instruction of main; on
three values every comparison of the sorts goes every way, and `Arrays` includes
equal ones; nine turns, as 100000 against 5000 cycles in the code, are more than
a period (with three the run fails: no tick comes in time); the theorems of
section 5 lift the bounds. The address space, the program counter and the bit counters are
finite as in the code, and the histories (`retired`, `waited`, `kept`, `owed`, `due`,
`waits`, `left`, `ran`) stay small because of what the code does, so that no run needs a state
constraint. `MaxTicks`, a bound on `tick_count`, is above what the firmware
reaches.

**Fairness** (`live`, `stub`, `rsp`, `firmware`). The clock ticks unless the core is
asleep in WFI, when nobody has to wake it; a memory slave and the ALU answer in
the end (the AHB slave's obligation; for the ALU `AnswersInTime` shows how soon);
requests are under no fairness at all. `Requests` keeps an IRQ high until it is
accepted, as README.md section 3 of the repository asks of its source ("non-sticky:
the source must hold the line high until the CPU accepts it"). For the stub: the
core executes instructions; commands, halts, cuts and resets are under no
fairness, so that `StepReturns` does not rest on the debugger's patience. For the
packets: the core executes the stub and a program that stops in the end
(`WF_vars(Stub)`), and the debugger reads what it is sent and loses its patience in
the end (`WF_vars(Host)`); the line owes nothing, and the user need not give up
after a lost stop. For the firmware: the core executes instructions and the
testbench's clock ticks (`WF_vars(Next)`), with the interrupts at their period.

**Deadlock** is checked everywhere but in `firmware`, where the testbench ends the
simulation as soon as the firmware reports.

## 4. What the models take as given

- `AttoFetch`: a store never hits the words of an instruction of which
  something is claimed. A slave may drop or ignore a strobe while it is busy.
- `DbgUart`: half duplex (the host waits for a reply before it sends, as RSP
  does); the period is a whole number of clocks, at least two, or longer than
  19 clocks; before the lock the host either sends 0x55, or something else and
  then nothing until the calibration has timed out; the core reads a byte that
  STATUS has announced.
- `GdbStub`: commands arrive whole; a command is cut short once at most, and its
  stores take effect in the order of the source; the stub's stack does not reach
  the user's RAM (a finding says that it can); the debugger uses addresses
  where instructions begin, lifts a breakpoint before it writes there, and in
  the passing run plants only at 32-bit instructions that are word-aligned;
  the table is cleared at power-up (`PowerUp`); one register, the return
  address, stands for all; programs do not write to themselves.
- `DbgSoc`: RAM and ROM answer at once.
- `AttoAhbl`: `StoresLand` and `StoresSettle` are claimed of slaves that keep up
  (`SlaveKeepsUp`): reads with at most one wait state, and writes with none, or
  with any number if no fetch is skipped and no access cut short. Beyond that
  they are false, which is what `AhbAddr.cfg` and `AhbWdata.cfg` show. `RequestsTaken`
  is claimed of every slave.
- `GdbRsp`: a changed character does not become a `+` or a `-`, and the few
  characters used are such that two changes do not cancel out in the checksum;
  against either no protocol with this checksum and these acknowledgements has a
  remedy. The debugger is patient: it repeats itself when nothing is on the way
  any more. `get_packet`'s count of tries has no effect and is left out.
- `GdbBridge`: the program leaves the UART's input alone; the build is the
  bridge's own (BENCH, without NRV_M and the serial options, IRQ and NMI tied to
  0). `BytesPass` claims the stub's input until a break interrupts the stub
  itself (`nested`). `BreakHalts` has nothing to spare: the line is low for 19
  edges, the detector is full on exactly five of them, and the longest way from
  one S_EXECUTE to the next is five clocks.
- `Firmware`: registers are abstract; the EBREAK of `test_ebreak`, compressed in the
  build, is also tried in its 32-bit form, which `ebreak_handler` provides for.

## 5. Proofs

**Core.** For every memory size, program, trap vector, set of connected requests,
with or without wait states and the single-port register file, from the
assumptions `FetchAssumption` and `CoreAssumption` alone, but for the last:

- `FetchInvariance`: the inductive invariant `FetchInv` of the front end.
  `FetchCorrect` says nothing of the cache, so it is not inductive. `CacheInv`
  adds that the cache holds what memory holds at its tag, or has not been used
  since reset (`Fresh`); `SkipInv` that a skipped fetch finds the whole
  instruction in the cache; `HalfInv` that a second-half fetch has its first half
  there; `BusInv` and `AnswerInv` what is in progress and that its answer is the
  word asked for. The step lemmas go through the FSM action by action.
- `FetchTypeCorrect`, `FetchIsCorrect`, `FetchBusDiscipline` follow from it.
- `CoreInvariance`: types, no wait without wait states, the debug mask implies the
  lock, and `CountInv`, how many pulses of instret an instruction has had in each
  state of its life, without which `RetiredExactly` is not inductive.
  `CoreTypeCorrect`, `MaskIsLocked`, `CountedExactly` follow.
- `CoreImplementsFetch`: every step of the core is a step of `AttoFetch` until
  an access is cut short. `CoreFetchIntact` carries `FetchInv` over along it, as
  long as nothing is cut: the executed instruction is memory's, the bus is idle
  when strobed.
- `ResultsCommitted`: no fetch before the last result is written.
- `TrapStateKept`: `TrapStateSurvives`, an action property, from the invariant.
- `HandlerIsLocked`: `LockedInHandler`, when `HandlerApart`: only traps lead from main
  into the handler and only MRET leads out of it, the handler writes no address
  of its own to `mepc`, and the program stores over neither. The property depends
  on this: a program that jumps into its handler runs it unlocked. Programs of
  the runs `core`, `live` and `lost_instr` satisfy it (`MCHandlerApart`, evaluated
  there), and the program of `soc` too (`SocHandlerApart`). The invariant `LockInv`
  adds what the property leaves out: in the handler `mepc` is back in main, the
  words that are never stored are those of the image, so that what is executed is
  the image's instruction (`ExecutedLemma`, from `FetchIntact`), and PC is always
  where the program has code.

**Debug SoC.** For every number of breakpoints and every program:

- `SocImplementsCore`: a step of the SoC is a step of the core or leaves it alone,
  so that the theorems above hold of it; `SocTypeCorrect`.
- `HaltMeetsBreakpoint`: `HaltIsExact`, by induction over the clock: what
  `halt_req` says of the PC it was computed from carries over to the next clock,
  whatever the core does in it.

**AHB wrapper.** For every set of addresses, data and setups, from `AhbAssumption`
alone; in every setup, whatever wait states the slave takes:

- `PortInStep`: the inductive invariant `PortInv`: while the wrapper is occupied the
  core waits for it, for a fetch in S_WAIT_INSTR or for a load or store in S_WAIT,
  unless the access was cut short. `EveryRequestTaken` (`RequestsTaken`) follows.

In the setups that keep up (`SlaveKeepsUp`, a condition that the two properties name).
It admits wait states, and it is the weakest: TLC has a counterexample for each step
beyond it.

- `WrapperInStep`: the inductive invariant `AhbInv`. `StretchInv` says that the
  announcement of a store never meets HREADY low, so that it is not withdrawn before
  the slave has taken it. `CoreInStep` says where the core is while a store is in
  flight, and in particular that it cannot leave S_WAIT_INSTR, and so change
  `mem_wdata`, while a stretched write still needs it: its own fetch waits for the
  same HREADY. `DueInFlight`: the stores owed are the one in flight and no other.
- `EveryStoreLands` (`StoresLand`) and `StoreBeforeNextInstr` (`StoresSettle`) follow.

**Bridge.** For every number of bytes:

- `BridgeTypeCorrect`, with `ByteInv`, which says which of the states of the core
  can go with a full register: the byte under way is in exactly one place.
  `BridgeHandsOver` (`BytesPass`) follows.
- `BreakReachesCore` (`BreakHalts`), when a break lasts at least 20 passes.
  `BreakInv` relates the countdown, the detector and `Distance`, how many clocks
  the core is from S_EXECUTE: at most four more.

**Firmware.** For every interrupt period, length of a step, arrays and bounds:

- `FrameCorrect`: `FrameInv` says for each label of the trap entry and the
  handlers which registers are on the stack and which are spoilt.
  `MainUndisturbed` (`InterruptsUnseen`) follows; that no interrupt comes between
  the readings of the counters follows from `mstatus` there.
- `TestsInvariant`, when `Patient`: the waiting loop of `test_irq` makes as many
  turns as there are cycles between interrupts (in the code 100000 and 5000), and
  `MaxTicks` is above what the tests count (in the code 32 bits). The invariant
  speaks of `where` main goes on, handler or not, and of `ticks`, which include
  the one that is being counted. `TestInv` says what the markers hold and how many
  ticks there can have been; while the loop has seen none, the line is down and
  the clock has gone on with every turn, so that it cannot have turned for a
  whole period (`TestSpin`). `SortAt` is what each step of a sort knows of the
  array: `Shifting` is insertion sort with a place free for `key`, `Sweeping` a
  round of bubble sort. That nothing is lost is `Rearranged`, which an exchange of
  two elements keeps (`ExchangeLemma`): moving an element up is one, with `key` in
  the free place. `TestsAlwaysPass` (`TestsPass`) follows. No induction over the
  array is needed, since each step of the loops is a step of the model.

**GDB stub.** For every number of user slots, every program, every set of
addresses and writes of the debugger, and resets and second entries of the stub
anywhere, under `Layout`: instructions follow one another without gaps, 32-bit
ones begin at words, the debugger and the jumps of the program use addresses
where instructions begin, what the debugger writes makes such a program again,
and the table is cleared at power-up. The instance of the `stub` run satisfies
it (`MCLayout`, evaluated in that run). It is needed: `Straddle.cfg` shows a
32-bit instruction at a half word, and the finding about `PowerUp` a table that
is not cleared.

- `StubInvariance`: the inductive invariant `StubInv`. `ProgramIntact` says what
  is in memory and in the slots now; it does not say that no slots share an
  address (`Distinct`), that a breakpoint covers exactly the parcels of one
  instruction and what a scarred parcel may hold (`Shape`), or that the scratch
  slots are free whenever the debugger may touch the user slots under them
  (`NoScratch`). `Intact` is `ProgramIntact` parcel by parcel. The lemmas follow
  one instruction's parcels (`Put`, `Lift`) through `bp_insert`, `bp_remove`,
  `remove_step_bps` and the tables between their stores.
- `StubTypeCorrect` (`StubTypeOK`), `MemoryIsProgram` (`ProgramIntact`) and
  `NoTraceUnlessCut` (`LeavesNoTrace`, which needs that no command was cut short)
  follow.
- `StepInvariance`: `StepInv`, that the scratch breakpoints of a step are where
  the instruction leads. It rests on `AgreeLemma` (where no breakpoint is, the
  memory decodes as the program does) and `PredictLemma` (`next_pcs` of the stub
  is what the core does).
- `StubImplementsTarget` (`ImplementsTarget`): every step is one of `DbgTarget` or
  none, as long as no break has met an EBREAK or the stub. One lemma per action
  (`ExecuteRefines`, `EbreakRefines`, ...) shows that the mapped state makes the
  step of the same name; a full table holds as many breakpoints as slots because
  they are distinct (`FullLemma`).

TLC checked `StubInv` and `StepInv` on the `stub` instance before they were proved.

**RSP packets.** For every set of commands, size of the buffer, bound on the
faults and choice of characters a fault may produce, from `RspAssumption`:

- `RspTypeCorrect` (`RspTypeOK`).
- `LinkUntilFault`: until the line first fails, every step of stub and debugger is
  a step of `RspLink` or none. `RspLink` speaks of the command, its executions and
  its answer; the invariant `LineInv` says what is in flight and where both ends
  are, in seven phases: nothing asked yet (`Silent`), a command that came while the
  program ran or its stop was reported, which the stub loses (`Early`), one that it
  will read (`Whole`), one that it is reading (`Received`), one that it has refused
  (`Refused`), one that it has executed (`Served`), and after the answer (`Answered`).
  One lemma per phase (`EarlyStep`, ...) shows where each step leads.
- `LinkIsKept` (`ImplementsLink`): the same for a line that does not fail
  (`MaxFaults = 0`). After a fault `ImplementsLink` is only model-checked.
- `ChecksumLemma` (the sum is a byte), `HexLemma`, `PacketLemma` (the digits of a
  packet, read back, are its checksum) and `ScanLemma` (the first `#` ends the
  packet) hold for payloads of every length. The checksum is a recursive function,
  which exists by `NatInd` (see ALU below).

The two link theorems rest on `Usual`, which has three parts, and TLC has a
counterexample without each of the last two. `Plain`: payloads have no `$` and no `#`,
which RSP escapes. `HostTries >= 2`: with one try, a command sent while the program
runs is given up though it fits and the line is good. `CutShows`: what the buffer
cuts off a packet that is too long changes the checksum; else the packet is
executed without its tail (with a buffer of three, `M` `2` 200 56: 200 and 56 add
up to 256), which is part of the finding about the promised packet size. The
commands of the `rsp` run satisfy `Usual`. TLC checked `LineInv`, before it was
proved, with a fault that comes at any time.

**Debug UART.** For every bit period, byte, length of a break and `CalMax` that
`UartAssumption` admits (a period of whole clocks, at least two, or longer than
19 clocks, and bytes of eight bits), in every phase of the host against the
clock, with or without resets:

- `UartInvariance`: the inductive invariant `UartInv` has one part for each of
  the units that the host's place in its frame or break determines. `PipeInv`
  says what of the line is in the synchroniser. `LockedRight` says nothing
  before the lock: `CalInv` adds how many edges can have been seen so far
  (`SyncPace` for 0x55, `Pace` for any other byte). `BytesInOrder` says nothing of
  a byte half received: `RxInv` adds when the receiver takes its next sample
  (`Filling`) and which bits it has. `BreakExact` says nothing while a pulse is
  due: `BrkInv` adds how long the detector has seen the line low, and the low
  samples still in the synchroniser (`Pending`). `TxInv` and `ReadInv` are of the
  same kind, `HostInv` keeps the host within its frame.
- `UartTypeCorrect`, `LockIsRight`, `BytesAreInOrder`, `BytesAreReadOnce`,
  `TransmitsRight`, `BreaksAreExact` follow: the six properties of the run.
- The lemmas that carry them: `SyncOnly` and `PaceStep` (of all bytes only 0x55
  has five falling edges in one frame), `CalSync` (eight host bits divided by
  eight are a rounded-up period), `SampleLemma` (the receiver's sample of bit k
  falls into the host's bit k for all ten bits: the error of the rounding adds up
  to less than half a bit, which is what the limit of 19 clocks is for),
  `MiddleLemma` (so does the host's sample of what the UART sends), `StopLemma`
  (the stop bit is sampled within two clocks of the end of the frame, before the
  next one can reach the receiver) and `BreakLemma` (how many clocks a break is
  low decides whether twelve of the UART's periods fit into it).

TLC checked `UartInv` on the constants of the `uart` run, and on further periods,
before it was proved.

**ALU.** For every register width 2^LogW with LogW >= 1, in each of the three
builds, for all operands, and whatever operation a trap has left running in a
unit, from `AluAssumption` alone:

- `BusyInvariance`: the inductive invariant `BusyInv` of the time. In each unit
  the clocks an instruction has waited and those that are left make up W + 1 at
  most; while nothing waits for them the units run down. `DivBusy` adds that a
  division outlasts what is left running in the
  other units: the divider steps and latches its result in every clock, so that
  it would be gone if the core still waited for another unit.
- `AnswersAreInTime` (`AnswersInTime`): `TimeInv` says that the clocks an instruction
  has waited and the steps its own unit has left (`OwnLeft`) are exactly its
  `UnitCycles`, but for the clocks in which another unit is kept busy; one more is
  the clock in which S_WAIT finds nothing busy. W + 2 bounds it all.
- `QuotientsAreRight`: with `ShiftInv` (what is in `shift_data` is the operand,
  shifted by the part of the amount that is no longer in `shift_count`) and
  `DivInv` (dividend, quotient and mask as the long division has them at this
  bit, by zero too). `TurnLemma` is the barrel shifter, one right shift between two
  reversals of the word; `DivResultLemma` gives quotient and remainder the sign of
  the ISA, at the overflow and for zero.
- `ProductsAreRight`: with `Radix2Inv` (upper part, multiplier bits left and what
  is still to be added make up the product) and `Radix4Inv`, which has the same
  for signed Booth digits: the accumulator stands for a signed number (`AccLemma`)
  that no digit takes out of its W + 1 bits as long as the multiplicand is below
  half of M (`BoothBounds`). Above it the accumulator wraps and the upper half
  is wrong, the lower half is not: that, and MULHSU of the parallel build, is
  what `BoothOverflows` and `SignsSwapped` leave out of `ProductIsRight`, and both
  are findings.

Widths are not fixed, so that what holds of powers of two and of a reversal needs
induction over numbers. The induction theorems of the library take an operator,
which no installed prover can instantiate; `NatInd` states induction for a set of
numbers instead and follows from `WFMin` (every non-empty set of numbers has a
least one), and `Recursion` proves from it that the function `Pow2` exists.

Only model-checked: liveness (outside the prover's reach), which for the core is
about a given program; the packet layer after a fault, where `ImplementsLink`
depends on how many faults there are and what they can produce.

## 6. Findings

A run or a configuration of section 3 shows each of nine: an NMI or debug halt on a
load, store, divide, ECALL or EBREAK loses the instruction (`lost_instr`); instret counts an
instruction twice (`RetireTwice.cfg`) and once too often after reset (`RetireNone.cfg`);
serial operations take a cycle more than documented (`CycleTable.cfg`); a read through
the AHB wrapper returns the previous value (`AhbRead.cfg`), an address phase is
withdrawn from a slow slave (`AhbAddr.cfg`) and a stretched write takes the next
instruction's data (`AhbWdata.cfg`); a load from a breakpoint register yields 0, so
that the stub refuses every hardware breakpoint (`BpRead.cfg`); a software breakpoint on
a 32-bit instruction that starts at a half word destroys its neighbour (`Straddle.cfg`).

The others are stated in `PROJECT.json` with their lines. They were met while
modelling, and the place where the model allows for them is named there: the
radix-4 multiplier's overflow (`BoothOverflows`) and the swapped signs of the
parallel MULHSU (`SignsSwapped`), a debug halt inside a handler (`nested`), the
break pulse that the core may miss, causes of coinciding traps, the stub entered
twice or in place of an EBREAK (`raced`), a step at a branch to itself, the
breakpoint table that nobody clears (`PowerUp`), baud rates with few clocks per bit
(`UartAssumption`), a break of exactly twelve host bits (`BreakExact`), the
registers assigned in two blocks (`Reset` of `DbgUart`), a reset between the
stores of `bp_insert` or `bp_remove` and between the planting and `stepping = 1`
(`scarred`), a lost stop for which both sides wait for ever (`Stalemate`), an old
reply repeated because the `$` of the next command is taken for a refusal
(`GetAck`), the promised packet size (`Fits`, `CutShows`), the bytes that wait in the bridge
behind one that nobody reads (`Listens`), a second break in the stub (`nested`),
and comments of `isr.c` and `gdb_stub.h` that describe what is not there.

## 7. Not modelled

- Decoder, register file, single-cycle ALU, load/store lanes, decompressor: tables
  without control. The properties of the control see only the class of an
  instruction, and a model of a table is the table again.
- The wrapper composed with the whole of `AttoCore`: with the read path as it is
  (section 6) the core executes what the slave has not yet given, and there is
  nothing to claim of its instructions. `AttoAhbl` has the part of the core that
  drives the port.
- In the stub: which registers and bytes `g`, `G`, `m` return, hexadecimal parsing
  (a value or a refusal in the model), and the hardware breakpoint commands beyond
  their failure on this SoC.
- The straight-line tests of `selftest.c`, `bench_compute.c`, `main.c` and
  `dbg_test.c`: programs that branch to their own failure only, and loads for
  the core without state that outlives them.
- The set-up of the bridge (arguments, hex file, sockets) and its trace output; the
  other testbenches, which are stimulus.
- The generated ROM, its generator, and the synthesis scripts, which have no
  behaviour of their own.
