------------------------------- MODULE Firmware -------------------------------
(***************************************************************************)
(* The firmware of the core's own testbench: start-up and trap entry       *)
(* (sw/crt0.S), the handlers (sw/isr.c), and a main program that runs      *)
(* under interrupts: the trap tests of sw/selftest.c, or sw/bench_sort.c.  *)
(*                                                                         *)
(* A step is an instruction, or a group that nothing else can observe; it  *)
(* takes some cycles, and every IRQ_PERIOD cycles the testbench raises the *)
(* interrupt line until the firmware clears it (sim/tb.v).  Of a register  *)
(* the model knows whether it still holds what main left in it.            *)
(***************************************************************************)
EXTENDS Integers, Sequences

CONSTANTS
  IRQ_PERIOD,
  MaxCycles,   (* cycles a step takes, at most                             *)
  Spins,       (* 100000: iterations test_irq waits                        *)
  Arrays,      (* what fill_array fills the array with                     *)
  Iterations,  (* 5: times each sort runs                                  *)
  MaxTicks     (* bound on tick_count                                      *)

ASSUME FirmwareAssumption ==
  /\ IRQ_PERIOD \in Nat /\ MaxCycles \in 1 .. IRQ_PERIOD
  /\ Spins \in Nat /\ Iterations \in Nat /\ MaxTicks \in Nat
  /\ Arrays # {} /\ \A a \in Arrays : a \in Seq(Nat)

VARIABLES
  pc,
  mstatus, mcause, mcause_irq, mepc,     (* as in the core                 *)
  clobbered,   (* registers that do not hold what main left in them        *)
  frame,       (* registers of main's saved on the stack                   *)
  sp,          (* bytes pushed                                             *)
  tick_count,
  main,        (* main's variables, a record                               *)
  irq_pending_tick, clock

trapVars == << mstatus, mcause, mcause_irq, mepc >>
regVars  == << clobbered, frame, sp >>
vars     == << pc, trapVars, regVars, tick_count, main, irq_pending_tick, clock >>

----------------------------------------------------------------------------
(* The core: an IRQ is taken with an instruction and returns after it.     *)

interrupt_accepted == irq_pending_tick /\ mstatus /\ ~mcause

Goto(next) ==
  IF interrupt_accepted
  THEN /\ pc' = "isr_entry" /\ mepc' = next
       /\ mcause' = TRUE /\ mcause_irq' = TRUE
  ELSE pc' = next /\ UNCHANGED << mepc, mcause, mcause_irq >>

(* An instruction of main that sets MIE to mie and its variables to change. *)
Mie(here, next, mie, change) ==
  /\ pc = here
  /\ Goto(next)
  /\ mstatus' = mie
  /\ main' = change
  /\ UNCHANGED << regVars, tick_count >>

Instr(here, next, change) == Mie(here, next, mstatus, change)

----------------------------------------------------------------------------
(* crt0.S: start-up.  tick_count is in .bss.                                *)

_start ==
  \/ Instr("reset", "enable", main)
  \/ Mie("enable", main.entry, TRUE, main)

----------------------------------------------------------------------------
(* crt0.S: trap entry and exit.  CallerSaved is what a C function may      *)
(* change; t stands for t1 and up, a for a2 and up.                         *)

CallerSaved == {"ra", "t0", "t", "a0", "a1", "a"}

(* Mutant: ra is not saved.                                                *)
SavedWithoutRa == {"t0", "t", "a0", "a1", "a"}

Saved == {"ra", "t0", "t", "a0", "a1", "a"}

InHandler(here, next) ==
  /\ pc = here /\ pc' = next
  /\ UNCHANGED << mstatus, mcause, mcause_irq, main >>

_isr_entry ==
  \/ /\ InHandler("isr_entry", "isr_cause")
     /\ sp' = sp + 48
     /\ frame' = Saved \ clobbered
     /\ UNCHANGED << mepc, clobbered, tick_count >>
  \/ /\ InHandler("isr_cause", IF mcause_irq THEN "irq_handler" ELSE "ebreak_handler")
     /\ clobbered' = clobbered \cup {"a0", "a1", "ra"}
     /\ UNCHANGED << mepc, frame, sp, tick_count >>
  \/ /\ InHandler("isr_exit", "isr_mret")
     /\ clobbered' = clobbered \ frame
     /\ frame' = {}
     /\ sp' = sp - 48
     /\ UNCHANGED << mepc, tick_count >>
  \/ /\ pc = "isr_mret" /\ pc' = mepc
     /\ mcause' = FALSE
     /\ UNCHANGED << mstatus, mcause_irq, mepc, regVars, tick_count, main >>

----------------------------------------------------------------------------
(* isr.c.                                                                  *)

irq_handler ==
  \/ /\ InHandler("irq_handler", IF irq_pending_tick THEN "irq_count" ELSE "isr_exit")
     /\ clobbered' = CallerSaved
     /\ UNCHANGED << mepc, frame, sp, tick_count >>
  \/ /\ InHandler("irq_count", "irq_clear")
     /\ tick_count' = IF tick_count < MaxTicks THEN tick_count + 1 ELSE MaxTicks
     /\ UNCHANGED << mepc, regVars >>
  \/ /\ InHandler("irq_clear", "isr_exit")
     /\ UNCHANGED << mepc, regVars, tick_count >>

(* The EBREAK of test_ebreak, c.ebreak or ebreak, is followed by a c.li     *)
(* and the store of the second marker: where an offset from it leads.      *)
Label(offset) ==
  CASE offset = main.len     -> "marker_2"
    [] offset = main.len + 2 -> "store_marker"
    [] OTHER                 -> "lost"

(* Mutant: every EBREAK is 32 bits long.                                   *)
HandlerSkipsFour ==
  /\ InHandler("ebreak_handler", "isr_exit")
  /\ mepc' = Label(4)
  /\ clobbered' = CallerSaved
  /\ UNCHANGED << frame, sp, tick_count >>

ebreak_handler ==
  /\ InHandler("ebreak_handler", "isr_exit")
  /\ mepc' = Label(main.len)
  /\ clobbered' = CallerSaved
  /\ UNCHANGED << frame, sp, tick_count >>

----------------------------------------------------------------------------
(* selftest.c: test_ebreak, test_irq, test_wfi.                             *)

CHECK(cond, next) == IF cond THEN next ELSE "fail"

test_ebreak ==
  \/ Instr("marker_1", "ebreak", [main EXCEPT !.marker = 1])
  \/ Instr("marker_2", "store_marker", [main EXCEPT !.t0 = 2])
  \/ Instr("store_marker", "check_marker", [main EXCEPT !.marker = main.t0])
  \/ Instr("check_marker", CHECK(main.marker = 2, "irq_mie"), main)

(* An IRQ in the same cycle replaces the EBREAK.                            *)
ebreak ==
  /\ pc = "ebreak"
  /\ IF interrupt_accepted THEN Goto(Label(main.len))
     ELSE /\ pc' = "isr_entry" /\ mepc' = "ebreak"
          /\ mcause' = TRUE /\ mcause_irq' = FALSE
  /\ UNCHANGED << mstatus, regVars, tick_count, main >>

test_irq ==
  LET spinning == main.i < Spins /\ tick_count < main.t0 + 2
  IN \/ Mie("irq_mie", "read_ticks", TRUE, main)
     \/ Instr("read_ticks", "spin", [main EXCEPT !.t0 = tick_count])
     \/ Instr("spin", IF spinning THEN "spin" ELSE "check_ticks",
              [main EXCEPT !.i = IF spinning THEN main.i + 1 ELSE 0])
     \/ Instr("check_ticks", CHECK(tick_count >= main.t0 + 1, "wfi_mie"), main)

(* Mutant: the handler returns to the WFI.                                 *)
WfiSleepsAgain == "wfi"

(* WFI goes on when the line is up, taken or not.                           *)
AfterWfi == IF irq_pending_tick THEN "check_wake" ELSE "wfi"

test_wfi ==
  \/ Mie("wfi_mie", "read_tick", TRUE, main)
  \/ Instr("read_tick", "wfi", [main EXCEPT !.t0 = tick_count])
  \/ Instr("wfi", AfterWfi, main)
  \/ Instr("check_wake", CHECK(tick_count > main.t0, "pass"), main)

----------------------------------------------------------------------------
(* bench_sort.c.  Arrays are indexed from 0, as in the code.               *)

n     == Len(main.arr)
at(k) == main.arr[k + 1]
With(k, v) == [main.arr EXCEPT ![k + 1] = v]

insertion_sort ==
  \/ Instr("insertion", IF main.i < n THEN "shift" ELSE "fill",
           IF main.i < n THEN [main EXCEPT !.key = at(main.i), !.j = main.i - 1] ELSE main)
  \/ IF pc = "shift" /\ main.j >= 0 /\ at(main.j) > main.key
     THEN Instr("shift", "shift",
                [main EXCEPT !.arr = With(main.j + 1, at(main.j)), !.j = main.j - 1])
     ELSE Instr("shift", "insertion",
                [main EXCEPT !.arr = With(main.j + 1, main.key), !.i = main.i + 1])

Swapped(a, k) == [a EXCEPT ![k] = a[k + 1], ![k + 1] = a[k]]

bubble_sort ==
  \/ Instr("bubble", IF main.i < n - 1 THEN "sweep" ELSE "fill",
           [main EXCEPT !.swapped = FALSE, !.j = 0])
  \/ IF pc = "sweep" /\ main.j < n - 1 - main.i
     THEN LET exchange == at(main.j) > at(main.j + 1)
          IN Instr("sweep", "sweep",
                   [main EXCEPT !.arr = IF exchange THEN Swapped(main.arr, main.j + 1) ELSE @,
                                !.swapped = main.swapped \/ exchange,
                                !.j = main.j + 1])
     ELSE Instr("sweep", IF main.swapped THEN "bubble" ELSE "fill",
                [main EXCEPT !.i = main.i + 1])

is_sorted == \A k \in 1 .. n - 1 : at(k) >= at(k - 1)

(* Interrupts are off between the readings of the counters, c0 and c1.     *)
irq_disable ==
  \/ Mie("disable", "c0", FALSE, main)
  \/ Instr("c0", "fill", [main EXCEPT !.iter = 0])

fill_array ==
  \/ /\ main.iter < Iterations
     /\ \E a \in Arrays :
          Instr("fill", main.sort,
                [main EXCEPT !.iter = main.iter + 1, !.arr = a, !.filled = a,
                             !.i = IF main.sort = "insertion" THEN 1 ELSE 0])
  \/ /\ main.iter = Iterations
     /\ Instr("fill", "c1", main)

irq_enable ==
  \/ Instr("c1", "irq_enable", main)
  \/ Mie("irq_enable", "report", TRUE, main)
  \/ Instr("report",
           IF ~is_sorted THEN "unsorted"
           ELSE IF main.sort = "insertion" THEN "disable" ELSE "pass",
           [main EXCEPT !.sort = "bubble"])

----------------------------------------------------------------------------
(* The testbench: a step takes some cycles.  It may raise the line before  *)
(* or after the store that clears it.                                      *)

Time ==
  \E cycles \in 1 .. MaxCycles :
    LET raise == clock + cycles >= IRQ_PERIOD
    IN /\ clock' = IF raise THEN clock + cycles - IRQ_PERIOD ELSE clock + cycles
       /\ irq_pending_tick' \in
            IF pc = "irq_clear" THEN {FALSE, raise}
            ELSE {irq_pending_tick \/ raise}

----------------------------------------------------------------------------
MainOf(entry, length) ==
  [entry |-> entry, len |-> length, marker |-> 0, t0 |-> 0, i |-> 0,
   arr |-> << 0 >>, filled |-> << 0 >>, key |-> 0, j |-> 0, swapped |-> FALSE,
   sort |-> "insertion", iter |-> 0]

Init ==
  /\ pc = "reset"
  /\ mstatus = FALSE /\ mcause = FALSE /\ mcause_irq = FALSE /\ mepc = "reset"
  /\ clobbered = {} /\ frame = {} /\ sp = 0
  /\ tick_count = 0
  /\ \E entry \in {"marker_1", "disable"}, length \in {2, 4} :
       main = MainOf(entry, length)
  /\ irq_pending_tick = FALSE
  /\ clock \in 0 .. IRQ_PERIOD - 1

Step ==
  \/ _start
  \/ _isr_entry
  \/ irq_handler
  \/ ebreak_handler
  \/ test_ebreak
  \/ ebreak
  \/ test_irq
  \/ test_wfi
  \/ irq_disable
  \/ fill_array
  \/ insertion_sort
  \/ bubble_sort
  \/ irq_enable

(* The testbench ends the simulation when the firmware reports.            *)
Next == Step /\ Time

Spec == Init /\ [][Next]_vars /\ WF_vars(Next)

----------------------------------------------------------------------------
(* Properties.                                                             *)

Handler  == {"isr_entry", "isr_cause", "irq_handler", "irq_count", "irq_clear",
             "ebreak_handler", "isr_exit", "isr_mret"}
Measured == {"fill", "insertion", "shift", "bubble", "sweep", "c1"}

(* Main does not notice an interrupt: after the return it has its registers *)
(* and its stack, and none comes between the readings of the counters that *)
(* the benchmarks subtract (bench_sort.c:46).                               *)
InterruptsUnseen ==
  /\ pc \notin Handler => clobbered = {} /\ sp = 0
  /\ pc \in Handler => mepc \notin Measured

(* Whenever the interrupts come, every CHECK of the trap tests holds, the  *)
(* instruction after an EBREAK of either length runs, and the array that   *)
(* the benchmark reports is the one it was filled with, sorted.            *)
TestsPass ==
  /\ pc \notin {"fail", "unsorted", "lost"}
  /\ pc = "report" =>
       \E order \in [1 .. n -> 1 .. n] :
         /\ \A k, l \in 1 .. n : order[k] = order[l] => k = l
         /\ main.arr = [k \in 1 .. n |-> main.filled[order[k]]]

(* The firmware reports, for the program goes on between two interrupts.   *)
Reports == <>(pc = "pass")

=============================================================================
