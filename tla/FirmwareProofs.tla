---------------------------- MODULE FirmwareProofs ----------------------------
(***************************************************************************)
(* Proofs about Firmware, for every period of the interrupts, whatever     *)
(* cycles the instructions take, and for every array: main does not notice *)
(* the interrupts, the trap tests pass, and the sorts sort.                *)
(***************************************************************************)
EXTENDS Firmware, TLAPS

(* Where main has the interrupts off.                                      *)
Uninterrupted == Measured \cup {"c0", "irq_enable"}

(* What becomes of main's variables is not looked into, but for those that *)
(* say where it goes on.                                                   *)
MainOK(m) ==
  /\ DOMAIN m = {"entry", "len", "marker", "t0", "i", "arr", "filled", "key", "j",
                 "swapped", "sort", "iter"}
  /\ m.entry \in {"marker_1", "disable"}
  /\ m.sort \in {"insertion", "bubble"}

(* While the handler runs, all that it may have changed is in the frame;   *)
(* where it returns to, main had the interrupts on, unless the interrupt   *)
(* came with the very instruction that switched them off.                  *)
FrameInv ==
  /\ MainOK(main)
  /\ mstatus \in BOOLEAN
  /\ pc \notin Handler => /\ clobbered = {} /\ sp = 0
                          /\ pc \in Uninterrupted => ~mstatus
  /\ pc \in Handler => /\ mepc \notin Handler \cup Measured
                       /\ mepc \in Uninterrupted => ~mstatus
  /\ pc \in {"isr_entry", "isr_mret"} => clobbered = {} /\ sp = 0
  /\ pc \in Handler \ {"isr_entry", "isr_mret"} =>
       clobbered \subseteq Saved /\ frame = Saved /\ sp = 48

----------------------------------------------------------------------------

(* An instruction of main keeps the invariant if it does not go on to a    *)
(* measured one with the interrupts on.                                    *)
LEMMA MieLemma ==
  ASSUME FrameInv, NEW here, NEW next, NEW mie \in BOOLEAN, NEW change,
         Mie(here, next, mie, change), here \notin Handler, next \notin Handler,
         next \in Uninterrupted => ~mie, next \in Measured => ~mstatus, MainOK(change)
  PROVE  FrameInv'
<1>1. pc = here /\ clobbered' = clobbered /\ sp' = sp /\ mstatus' = mie /\ main' = change
  BY DEF Mie, regVars
<1>2. clobbered = {} /\ sp = 0
  BY <1>1 DEF FrameInv
<1>3. CASE interrupt_accepted
  <2>1. pc' = "isr_entry" /\ mepc' = next /\ mstatus
    BY <1>3 DEF Mie, Goto, interrupt_accepted
  <2>2. QED
    BY <1>1, <1>2, <2>1 DEF FrameInv, Handler
<1>4. CASE ~interrupt_accepted
  <2>1. pc' = next
    BY <1>4 DEF Mie, Goto
  <2>2. QED
    BY <1>1, <1>2, <2>1 DEF FrameInv, Handler
<1>5. QED
  BY <1>3, <1>4

LEMMA InstrLemma ==
  ASSUME FrameInv, NEW here, NEW next, NEW change, Instr(here, next, change),
         here \notin Handler, next \notin Handler,
         next \in Uninterrupted => here \in Uninterrupted, MainOK(change)
  PROVE  FrameInv'
<1>1. pc = here
  BY DEF Instr, Mie
<1>2. here \in Uninterrupted => ~mstatus
  BY <1>1 DEF FrameInv
<1>3. QED
  BY <1>2, MieLemma DEF Instr, FrameInv, Uninterrupted

----------------------------------------------------------------------------
(* Trap entry and exit, and the handlers.                                  *)

LEMMA EntryLemma == ASSUME FrameInv, _isr_entry PROVE FrameInv'
<1>1. ASSUME InHandler("isr_entry", "isr_cause"), sp' = sp + 48,
             frame' = Saved \ clobbered, UNCHANGED << mepc, clobbered >>
      PROVE  FrameInv'
  BY <1>1 DEF InHandler, FrameInv, Handler, Uninterrupted, Measured
<1>2. ASSUME InHandler("isr_cause", IF mcause_irq THEN "irq_handler" ELSE "ebreak_handler"),
             clobbered' = clobbered \cup {"a0", "a1", "ra"}, UNCHANGED << mepc, frame, sp >>
      PROVE  FrameInv'
  BY <1>2 DEF InHandler, FrameInv, Handler, Uninterrupted, Measured, Saved
<1>3. ASSUME InHandler("isr_exit", "isr_mret"), clobbered' = clobbered \ frame,
             sp' = sp - 48, UNCHANGED mepc
      PROVE  FrameInv'
  BY <1>3 DEF InHandler, FrameInv, Handler, Uninterrupted, Measured
<1>4. ASSUME pc = "isr_mret", pc' = mepc, UNCHANGED << mstatus, regVars, main >>
      PROVE  FrameInv'
  BY <1>4 DEF FrameInv, Handler, regVars
<1>5. QED
  BY <1>1, <1>2, <1>3, <1>4 DEF _isr_entry

(* A handler may change any register that its caller does not expect to     *)
(* keep; ebreak_handler also changes where the trap returns to.            *)
LEMMA HandlerLemma ==
  ASSUME FrameInv, irq_handler \/ ebreak_handler
  PROVE  FrameInv'
<1>1. ASSUME InHandler("irq_handler", IF irq_pending_tick THEN "irq_count" ELSE "isr_exit"),
             clobbered' = CallerSaved, UNCHANGED << mepc, frame, sp >>
      PROVE  FrameInv'
  BY <1>1 DEF InHandler, FrameInv, Handler, Uninterrupted, Measured, Saved, CallerSaved
<1>2. ASSUME InHandler("irq_count", "irq_clear") \/ InHandler("irq_clear", "isr_exit"),
             UNCHANGED << mepc, regVars >>
      PROVE  FrameInv'
  BY <1>2 DEF InHandler, FrameInv, Handler, Uninterrupted, Measured, regVars
<1>3. CASE ebreak_handler
  <2>1. mepc' \in {"marker_2", "store_marker", "lost"}
    BY <1>3 DEF ebreak_handler, Label
  <2>2. QED
    BY <1>3, <2>1
       DEF ebreak_handler, InHandler, FrameInv, Handler, Uninterrupted, Measured, Saved,
           CallerSaved
<1>4. QED
  BY <1>1, <1>2, <1>3 DEF irq_handler

----------------------------------------------------------------------------
(* Main.                                                                   *)

LEMMA StartLemma == ASSUME FrameInv, _start PROVE FrameInv'
<1>1. MainOK(main) /\ main.entry \notin Handler \cup Uninterrupted
  BY DEF FrameInv, MainOK, Handler, Uninterrupted, Measured
<1>2. CASE Instr("reset", "enable", main)
  BY <1>1, <1>2, InstrLemma DEF Handler, Uninterrupted, Measured
<1>3. CASE Mie("enable", main.entry, TRUE, main)
  BY <1>1, <1>3, MieLemma DEF Handler, Uninterrupted, Measured
<1>4. QED
  BY <1>2, <1>3 DEF _start

(* The trap tests: every instruction is outside the measured part.         *)
Plain(pcs) == pcs \cap (Handler \cup Uninterrupted) = {}

LEMMA EbreakLemma == ASSUME FrameInv, test_ebreak \/ ebreak PROVE FrameInv'
<1>1. Plain({"marker_1", "ebreak", "marker_2", "store_marker", "check_marker", "fail",
             "irq_mie", "lost"})
  BY DEF Plain, Handler, Uninterrupted, Measured
<1>2. \A v : MainOK([main EXCEPT !.marker = v]) /\ MainOK([main EXCEPT !.t0 = v])
  BY DEF FrameInv, MainOK
<1>3. CASE Instr("marker_1", "ebreak", [main EXCEPT !.marker = 1])
  BY <1>1, <1>2, <1>3, InstrLemma DEF Plain
<1>4. CASE Instr("marker_2", "store_marker", [main EXCEPT !.t0 = 2])
  BY <1>1, <1>2, <1>4, InstrLemma DEF Plain
<1>5. CASE Instr("store_marker", "check_marker", [main EXCEPT !.marker = main.t0])
  BY <1>1, <1>2, <1>5, InstrLemma DEF Plain
<1>6. CASE Instr("check_marker", CHECK(main.marker = 2, "irq_mie"), main)
  BY <1>1, <1>6, InstrLemma DEF Plain, CHECK, FrameInv
<1>7. CASE ebreak
  <2>1. Label(main.len) \in {"marker_2", "store_marker", "lost"}
    BY DEF Label
  <2>2. pc = "ebreak" /\ UNCHANGED << mstatus, regVars, main >>
    BY <1>7 DEF ebreak
  <2>3. /\ pc' = "isr_entry"
        /\ mepc' \in {"marker_2", "store_marker", "lost", "ebreak"}
    <3>1. CASE interrupt_accepted
      BY <1>7, <2>1, <3>1 DEF ebreak, Goto
    <3>2. CASE ~interrupt_accepted
      BY <1>7, <3>2 DEF ebreak
    <3>3. QED
      BY <3>1, <3>2
  <2>4. mepc' \notin Handler \cup Uninterrupted /\ pc \notin Handler
    BY <1>1, <2>2, <2>3 DEF Plain
  <2>5. clobbered' = {} /\ sp' = 0 /\ main' = main /\ mstatus' = mstatus
    BY <2>2, <2>4 DEF FrameInv, regVars
  <2>6. pc' \in Handler /\ pc' \notin Handler \ {"isr_entry", "isr_mret"}
    BY <2>3 DEF Handler
  <2>7. QED
    BY <2>4, <2>5, <2>6 DEF FrameInv, Uninterrupted
<1>8. QED
  BY <1>3, <1>4, <1>5, <1>6, <1>7 DEF test_ebreak

LEMMA IrqTestLemma == ASSUME FrameInv, test_irq \/ test_wfi PROVE FrameInv'
<1>1. Plain({"irq_mie", "read_ticks", "spin", "check_ticks", "fail", "wfi_mie", "read_tick",
             "wfi", "check_wake", "pass"})
  BY DEF Plain, Handler, Uninterrupted, Measured
<1>2. MainOK(main) /\ \A v : MainOK([main EXCEPT !.i = v]) /\ MainOK([main EXCEPT !.t0 = v])
  BY DEF FrameInv, MainOK
<1>3. ASSUME NEW here \in {"irq_mie", "wfi_mie"}, NEW next \in {"read_ticks", "read_tick"},
             Mie(here, next, TRUE, main)
      PROVE  FrameInv'
  <2>1. here \notin Handler /\ next \notin Handler \cup Uninterrupted /\ next \notin Measured
    BY <1>1, <1>3 DEF Plain, Uninterrupted
  <2>2. QED
    BY <1>2, <1>3, <2>1, MieLemma
<1>4. \A v : \/ Instr("read_ticks", "spin", [main EXCEPT !.t0 = v])
             \/ Instr("read_tick", "wfi", [main EXCEPT !.t0 = v])
             \/ Instr("spin", "spin", [main EXCEPT !.i = v])
             \/ Instr("spin", "check_ticks", [main EXCEPT !.i = v])
             => FrameInv'
  BY <1>1, <1>2, InstrLemma DEF Plain
<1>5. ASSUME NEW next \in {"fail", "wfi_mie", "pass", "check_wake", "wfi"},
             \/ Instr("check_ticks", next, main)
             \/ Instr("wfi", next, main)
             \/ Instr("check_wake", next, main)
      PROVE  FrameInv'
  BY <1>1, <1>2, <1>5, InstrLemma DEF Plain
<1>6. CASE test_irq
  <2> DEFINE spinning == main.i < Spins /\ tick_count < main.t0 + 2
  <2>1. CASE Instr("spin", IF spinning THEN "spin" ELSE "check_ticks",
                   [main EXCEPT !.i = IF spinning THEN main.i + 1 ELSE 0])
    BY <1>4, <2>1
  <2>2. CASE Instr("check_ticks", CHECK(tick_count >= main.t0 + 1, "wfi_mie"), main)
    BY <1>5, <2>2 DEF CHECK
  <2>3. QED
    BY <1>3, <1>4, <1>6, <2>1, <2>2 DEF test_irq
<1>7. CASE test_wfi
  <2>1. CASE Instr("wfi", AfterWfi, main)
    BY <1>5, <2>1 DEF AfterWfi
  <2>2. CASE Instr("check_wake", CHECK(tick_count > main.t0, "pass"), main)
    BY <1>5, <2>2 DEF CHECK
  <2>3. QED
    BY <1>3, <1>4, <1>7, <2>1, <2>2 DEF test_wfi
<1>8. QED
  BY <1>6, <1>7

(* The measured part is entered from the instruction after "disable" and   *)
(* left to irq_enable, which is the first to go on with interrupts.        *)
LEMMA MeasuredLemma ==
  ASSUME FrameInv, NEW here \in Uninterrupted, NEW next \in Uninterrupted, NEW change,
         Instr(here, next, change), MainOK(change)
  PROVE  FrameInv'
<1>1. here \notin Handler /\ next \notin Handler
  BY DEF Uninterrupted, Measured, Handler
<1>2. QED
  BY <1>1, InstrLemma

LEMMA SortLemma == ASSUME FrameInv, insertion_sort \/ bubble_sort PROVE FrameInv'
<1>1. /\ MainOK(main)
      /\ \A v, w : MainOK([main EXCEPT !.key = v, !.j = w])
      /\ \A v, w : MainOK([main EXCEPT !.arr = v, !.j = w])
      /\ \A v, w : MainOK([main EXCEPT !.arr = v, !.i = w])
      /\ \A v, w : MainOK([main EXCEPT !.swapped = v, !.j = w])
      /\ \A u, v, w : MainOK([main EXCEPT !.arr = u, !.swapped = v, !.j = w])
      /\ \A v : MainOK([main EXCEPT !.i = v])
  BY DEF FrameInv, MainOK
<1>2. {"fill", "insertion", "shift", "bubble", "sweep"} \subseteq Uninterrupted
  BY DEF Uninterrupted, Measured
<1>3. CASE insertion_sort
  <2>1. CASE Instr("insertion", IF main.i < n THEN "shift" ELSE "fill",
                   IF main.i < n THEN [main EXCEPT !.key = at(main.i), !.j = main.i - 1]
                                 ELSE main)
    BY <1>1, <1>2, <2>1, MeasuredLemma
  <2>2. CASE Instr("shift", "shift",
                   [main EXCEPT !.arr = With(main.j + 1, at(main.j)), !.j = main.j - 1])
    BY <1>1, <1>2, <2>2, MeasuredLemma
  <2>3. CASE Instr("shift", "insertion",
                   [main EXCEPT !.arr = With(main.j + 1, main.key), !.i = main.i + 1])
    BY <1>1, <1>2, <2>3, MeasuredLemma
  <2>4. QED
    BY <1>3, <2>1, <2>2, <2>3 DEF insertion_sort
<1>4. CASE bubble_sort
  <2>1. CASE Instr("bubble", IF main.i < n - 1 THEN "sweep" ELSE "fill",
                   [main EXCEPT !.swapped = FALSE, !.j = 0])
    BY <1>1, <1>2, <2>1, MeasuredLemma
  <2> DEFINE exchange == at(main.j) > at(main.j + 1)
  <2>2. CASE Instr("sweep", "sweep",
                   [main EXCEPT !.arr = IF exchange THEN Swapped(main.arr, main.j + 1) ELSE @,
                                !.swapped = main.swapped \/ exchange,
                                !.j = main.j + 1])
    BY <1>1, <1>2, <2>2, MeasuredLemma
  <2>3. CASE Instr("sweep", IF main.swapped THEN "bubble" ELSE "fill",
                   [main EXCEPT !.i = main.i + 1])
    BY <1>1, <1>2, <2>3, MeasuredLemma
  <2>4. QED
    BY <1>4, <2>1, <2>2, <2>3 DEF bubble_sort
<1>5. QED
  BY <1>3, <1>4

LEMMA BenchLemma ==
  ASSUME FrameInv, irq_disable \/ fill_array \/ irq_enable
  PROVE  FrameInv'
<1>1. /\ MainOK(main) /\ main.sort \in {"insertion", "bubble"}
      /\ \A v : MainOK([main EXCEPT !.iter = v])
      /\ \A u, v, w, x : MainOK([main EXCEPT !.iter = u, !.arr = v, !.filled = w, !.i = x])
      /\ MainOK([main EXCEPT !.sort = "bubble"])
  BY DEF FrameInv, MainOK
<1>2. {"c0", "fill", "insertion", "bubble", "c1", "irq_enable"} \subseteq Uninterrupted
  BY DEF Uninterrupted, Measured
<1>3. Plain({"disable", "report", "unsorted", "pass"})
  BY DEF Plain, Handler, Uninterrupted, Measured
<1>4. CASE Mie("disable", "c0", FALSE, main)
  BY <1>1, <1>3, <1>4, MieLemma DEF Plain, Handler, Measured
<1>5. CASE Instr("c0", "fill", [main EXCEPT !.iter = 0])
  BY <1>1, <1>2, <1>5, MeasuredLemma
<1>6. CASE fill_array
  <2>1. ASSUME NEW a, Instr("fill", main.sort,
                            [main EXCEPT !.iter = main.iter + 1, !.arr = a, !.filled = a,
                                         !.i = IF main.sort = "insertion" THEN 1 ELSE 0])
        PROVE  FrameInv'
    BY <1>1, <1>2, <2>1, MeasuredLemma
  <2>2. CASE Instr("fill", "c1", main)
    BY <1>1, <1>2, <2>2, MeasuredLemma
  <2>3. QED
    BY <1>6, <2>1, <2>2 DEF fill_array
<1>7. CASE Instr("c1", "irq_enable", main)
  BY <1>1, <1>2, <1>7, MeasuredLemma
<1>8. CASE Mie("irq_enable", "report", TRUE, main)
  BY <1>1, <1>3, <1>8, MieLemma DEF Plain, Handler, Uninterrupted
<1>9. ASSUME NEW next \in {"unsorted", "disable", "pass"},
             Instr("report", next, [main EXCEPT !.sort = "bubble"])
      PROVE  FrameInv'
  BY <1>1, <1>3, <1>9, InstrLemma DEF Plain
<1>10. QED
  BY <1>4, <1>5, <1>6, <1>7, <1>8, <1>9 DEF irq_disable, irq_enable

----------------------------------------------------------------------------

LEMMA FirmwareInitLemma == Init => FrameInv
<1> SUFFICES ASSUME Init PROVE FrameInv
  OBVIOUS
<1>1. PICK entry \in {"marker_1", "disable"}, length \in {2, 4} : main = MainOf(entry, length)
  BY DEF Init
<1>2. MainOK(main)
  BY <1>1 DEF MainOf, MainOK
<1>3. pc \notin Handler
  BY DEF Init, Handler
<1>4. QED
  BY <1>2, <1>3 DEF Init, FrameInv

(* Where main has no interrupts it gets none, and elsewhere it gets its     *)
(* registers back.                                                         *)
THEOREM FrameCorrect == Spec => []FrameInv
<1>1. FrameInv /\ [Next]_vars => FrameInv'
  <2>1. ASSUME FrameInv, UNCHANGED vars PROVE FrameInv'
    BY <2>1 DEF vars, trapVars, regVars, FrameInv
  <2>2. ASSUME FrameInv, Step PROVE FrameInv'
    BY <2>2, StartLemma, EntryLemma, HandlerLemma, EbreakLemma, IrqTestLemma, SortLemma,
       BenchLemma DEF Step
  <2>3. QED
    BY <2>1, <2>2 DEF Next
<1>2. QED
  BY <1>1, FirmwareInitLemma, PTL DEF Spec

(* Main has its registers and its stack back after every interrupt, and is *)
(* never interrupted between the readings of the counters, whenever the    *)
(* interrupts come and however long the instructions take.                 *)
THEOREM MainUndisturbed == Spec => []InterruptsUnseen
<1>1. FrameInv => InterruptsUnseen
  BY DEF FrameInv, InterruptsUnseen
<1>2. QED
  BY <1>1, FrameCorrect, PTL

----------------------------------------------------------------------------
(* The tests and the sorts: the invariant.                                 *)

(* Where main goes on, and the ticks with the one that is being counted.   *)
where == IF pc \in Handler THEN mepc ELSE pc

Counting == pc \in {"isr_entry", "isr_cause", "irq_handler", "irq_count"} /\ mcause_irq

ticks == IF Counting THEN tick_count + 1 ELSE tick_count

(* Main's variables, with arrays of any length.                            *)
MainType ==
  [entry : {"marker_1", "disable"}, len : {2, 4}, marker : Nat, t0 : Nat, i : Nat,
   arr : Seq(Nat), filled : Seq(Nat), key : Nat, j : Int, swapped : BOOLEAN,
   sort : {"insertion", "bubble"}, iter : Nat]

(* Types, and what the trap entry has of the cause.                        *)
TrapInv ==
  /\ main \in MainType /\ tick_count \in Nat
  /\ mcause_irq \in BOOLEAN /\ irq_pending_tick \in BOOLEAN
  /\ clock \in 0 .. IRQ_PERIOD - 1
  /\ pc \notin Handler => ~mcause
  /\ Counting => irq_pending_tick
  /\ pc \in {"irq_handler", "irq_count"} => mcause_irq
  /\ pc = "ebreak_handler" => ~mcause_irq
  /\ pc \in {"isr_entry", "isr_cause", "ebreak_handler"} /\ ~mcause_irq => mepc = "ebreak"

(* From the test of the interrupts on they are on.                         *)
Timed == {"read_ticks", "spin", "check_ticks", "wfi_mie", "read_tick", "wfi", "check_wake"}

(* The ticks there can have been, one with each instruction of main: each  *)
(* goes on with no more than one, and the waiting loop stops at two.       *)
Limit(w) ==
  CASE w = "reset" -> 0 [] w = "enable" -> 1 [] w = "marker_1" -> 2 [] w = "ebreak" -> 3
    [] w = "marker_2" -> 4 [] w = "store_marker" -> 5 [] w = "check_marker" -> 6
    [] w = "irq_mie" -> 7 [] w = "read_ticks" -> 8 [] w = "spin" -> 10
    [] w = "check_ticks" -> 11 [] w = "wfi_mie" -> 12 [] w = "read_tick" -> 13
    [] w = "wfi" -> 14 [] w = "check_wake" -> 15

Tested == {"reset", "enable", "marker_1", "ebreak", "marker_2", "store_marker",
           "check_marker", "irq_mie"} \cup Timed

(* While the waiting loop has seen no tick, the clock has gone on with     *)
(* every iteration.                                                        *)
TestInv ==
  /\ where \notin {"fail", "lost"}
  /\ where = "store_marker" => main.t0 = 2
  /\ where = "check_marker" => main.marker = 2
  /\ where \in Timed => mstatus
  /\ where \in Tested => ticks <= Limit(where)
  /\ where \in (Tested \ Timed) \cup {"read_ticks"} => main.i = 0
  /\ where = "spin" =>
       /\ main.t0 <= 8 /\ ticks <= main.t0 + 2
       /\ \/ ticks > main.t0
          \/ ticks = main.t0 /\ pc = "spin" /\ (irq_pending_tick \/ clock >= main.i)
  /\ where = "check_ticks" => ticks > main.t0
  /\ where = "wfi" => ticks >= main.t0
  /\ where = "check_wake" => ticks > main.t0

(* The array is the one it was filled with, rearranged.                    *)
Rearranged(a, f) ==
  /\ Len(a) = Len(f)
  /\ \E order \in [1 .. Len(a) -> 1 .. Len(a)] :
       /\ \A k, l \in 1 .. Len(a) : order[k] = order[l] => k = l
       /\ \A k \in 1 .. Len(a) : a[k] = f[order[k]]

(* The first k elements are in order; those behind the first k are and none *)
(* before them is greater.                                                 *)
UpTo(a, k) == \A p, q \in 1 .. Len(a) : p <= q /\ q <= k => a[p] <= a[q]
From(a, k) == \A p, q \in 1 .. Len(a) : p <= q /\ q > k => a[p] <= a[q]

(* Insertion sort with a place free at j + 1, for key: with it there the   *)
(* array is rearranged; without it the first i + 1 elements are in order,  *)
(* and key is at most those behind its place.                              *)
Shifting(a, f, key, i, j) ==
  /\ i \in 1 .. Len(a) - 1 /\ j \in -1 .. i - 1
  /\ Rearranged([a EXCEPT ![j + 2] = key], f)
  /\ \A p, q \in 1 .. i + 1 : p <= q /\ p # j + 2 /\ q # j + 2 => a[p] <= a[q]
  /\ \A q \in 1 .. i + 1 : q > j + 2 => key <= a[q]

(* A round of bubble sort: the last i elements are where they belong, and  *)
(* the greatest one of those swept is the last of them; they are in order  *)
(* if nothing was exchanged.                                               *)
Sweeping(a, f, i, j, swapped) ==
  /\ i \in Nat /\ j \in 0 .. Len(a) - 1 - i
  /\ Rearranged(a, f)
  /\ From(a, Len(a) - i)
  /\ \A p \in 1 .. j : a[p] <= a[j + 1]
  /\ ~swapped => UpTo(a, j + 1)

(* What main has when it goes on at w.                                     *)
SortAt(w, m) ==
  /\ w # "unsorted"
  /\ w \in {"disable", "c0", "fill", "c1", "irq_enable", "report"} =>
       Rearranged(m.arr, m.filled) /\ UpTo(m.arr, Len(m.arr))
  /\ w = "insertion" => Rearranged(m.arr, m.filled) /\ m.i >= 1 /\ UpTo(m.arr, m.i)
  /\ w = "shift" => Shifting(m.arr, m.filled, m.key, m.i, m.j)
  /\ w = "bubble" => Rearranged(m.arr, m.filled) /\ From(m.arr, Len(m.arr) - m.i)
  /\ w = "sweep" => Sweeping(m.arr, m.filled, m.i, m.j, m.swapped)
  /\ w \in {"reset", "enable"} => m.arr = << 0 >> /\ m.filled = << 0 >>

SortInv == SortAt(where, main)

FirmwareInv == FrameInv /\ TrapInv /\ TestInv /\ SortInv

----------------------------------------------------------------------------
(* Lemmas about arrays that are rearranged.                                *)

LEMMA ElementLemma == \A a \in Seq(Nat) : \A k \in 1 .. Len(a) : a[k] \in Nat
  OBVIOUS

(* Where an element is put, in an array of l elements.                     *)
LEMMA BoundsLemma ==
  ASSUME NEW l \in Nat, NEW i \in 1 .. l - 1, NEW j \in -1 .. i - 1
  PROVE  j + 2 \in 1 .. l /\ (j + 1) + 1 = j + 2 /\ i < l
  OBVIOUS

(* An array with one element replaced.                                     *)
LEMMA ReplaceLemma ==
  ASSUME NEW a \in Seq(Nat), NEW x \in 1 .. Len(a), NEW v \in Nat
  PROVE  /\ [a EXCEPT ![x] = v] \in Seq(Nat) /\ Len([a EXCEPT ![x] = v]) = Len(a)
         /\ [a EXCEPT ![x] = v][x] = v
         /\ \A k \in 1 .. Len(a) : k # x => [a EXCEPT ![x] = v][k] = a[k]
<1> DEFINE b == [a EXCEPT ![x] = v]
<1>1. b \in Seq(Nat) /\ Len(b) = Len(a)
  OBVIOUS
<1>2. b[x] = v
  OBVIOUS
<1>3. ASSUME NEW k \in 1 .. Len(a), k # x PROVE b[k] = a[k]
  BY <1>3
<1>4. QED
  BY <1>1, <1>2, <1>3

(* An array is itself, rearranged.                                         *)
LEMMA RearrangedReflexive == \A a \in Seq(Nat) : Rearranged(a, a)
<1> SUFFICES ASSUME NEW a \in Seq(Nat) PROVE Rearranged(a, a)
  OBVIOUS
<1> DEFINE id == [k \in 1 .. Len(a) |-> k]
<1>1. id \in [1 .. Len(a) -> 1 .. Len(a)]
  OBVIOUS
<1>2. /\ \A k, l \in 1 .. Len(a) : id[k] = id[l] => k = l
      /\ \A k \in 1 .. Len(a) : a[k] = a[id[k]]
  OBVIOUS
<1>3. QED
  BY <1>1, <1>2, Zenon DEF Rearranged

(* Two elements that change places.                                        *)
LEMMA ExchangeLemma ==
  ASSUME NEW a \in Seq(Nat), NEW f, Rearranged(a, f), NEW x \in 1 .. Len(a),
         NEW y \in 1 .. Len(a), NEW b \in Seq(Nat), Len(b) = Len(a),
         b[x] = a[y], b[y] = a[x],
         \A k \in 1 .. Len(a) : k # x /\ k # y => b[k] = a[k]
  PROVE  Rearranged(b, f)
<1> DEFINE D == 1 .. Len(a)
<1>1. PICK o \in [D -> D] : /\ \A k, l \in D : o[k] = o[l] => k = l
                            /\ \A k \in D : a[k] = f[o[k]]
  BY DEF Rearranged
<1> DEFINE Turn(k) == IF k = x THEN y ELSE IF k = y THEN x ELSE k
           p == [k \in D |-> o[Turn(k)]]
<1>2. \A k \in D : Turn(k) \in D /\ b[k] = a[Turn(k)]
  OBVIOUS
<1>3. \A k, l \in D : Turn(k) = Turn(l) => k = l
  OBVIOUS
<1> HIDE DEF Turn
<1>4. p \in [D -> D]
  BY <1>2
<1>5. \A k, l \in D : p[k] = p[l] => k = l
  <2>1. ASSUME NEW k \in D, NEW l \in D, p[k] = p[l] PROVE k = l
    <3>1. o[Turn(k)] = o[Turn(l)]
      BY <2>1
    <3>2. Turn(k) = Turn(l)
      BY <1>1, <1>2, <3>1
    <3>3. QED
      BY <1>3, <3>2
  <2>2. QED
    BY <2>1
<1>6. \A k \in D : b[k] = f[p[k]]
  BY <1>1, <1>2
<1> HIDE DEF p
<1>7. Len(b) = Len(f)
  BY DEF Rearranged
<1>8. 1 .. Len(b) = D
  OBVIOUS
<1>9. QED
  <2>1. /\ p \in [1 .. Len(b) -> 1 .. Len(b)]
        /\ \A k, l \in 1 .. Len(b) : p[k] = p[l] => k = l
        /\ \A k \in 1 .. Len(b) : b[k] = f[p[k]]
    BY <1>4, <1>5, <1>6, <1>8
  <2>2. QED
    BY <1>7, <2>1, Zenon DEF Rearranged

----------------------------------------------------------------------------
(* Insertion sort.                                                         *)

(* The outer loop: the next element is taken out, ...                      *)
LEMMA TakeOut ==
  ASSUME NEW a \in Seq(Nat), NEW f, Rearranged(a, f), NEW i \in Nat, i >= 1, i < Len(a),
         UpTo(a, i)
  PROVE  Shifting(a, f, a[i + 1], i, i - 1)
<1>1. Len(a) \in Nat /\ i + 1 \in 1 .. Len(a) /\ (i - 1) + 2 = i + 1
  OBVIOUS
<1>2. [a EXCEPT ![(i - 1) + 2] = a[i + 1]] = a
  BY <1>1
<1>3. \A p, q \in 1 .. i + 1 : p <= q /\ p # (i - 1) + 2 /\ q # (i - 1) + 2 => a[p] <= a[q]
  BY <1>1 DEF UpTo
<1>4. i \in 1 .. Len(a) - 1 /\ i - 1 \in -1 .. i - 1
  BY <1>1
<1>5. \A q \in 1 .. i + 1 : q > (i - 1) + 2 => a[i + 1] <= a[q]
  BY <1>1
<1>6. QED
  BY <1>2, <1>3, <1>4, <1>5 DEF Shifting

(* ... greater ones move up by one, ...                                    *)
LEMMA MoveUp ==
  ASSUME NEW a \in Seq(Nat), NEW f, NEW key \in Nat, NEW i \in Nat, NEW j \in Int,
         Shifting(a, f, key, i, j), j >= 0, a[j + 1] > key
  PROVE  Shifting([a EXCEPT ![j + 2] = a[j + 1]], f, key, i, j - 1)
<1> DEFINE b == [a EXCEPT ![j + 2] = a[j + 1]]
           c == [a EXCEPT ![j + 2] = key]
           d == [b EXCEPT ![j + 1] = key]
<1>1. /\ Len(a) \in Nat /\ i \in 1 .. Len(a) - 1 /\ j \in 0 .. i - 1
      /\ j + 1 \in 1 .. Len(a) /\ j + 2 \in 1 .. Len(a) /\ j + 1 # j + 2
  BY DEF Shifting
<1>b. /\ b \in Seq(Nat) /\ Len(b) = Len(a)
      /\ b[j + 2] = a[j + 1] /\ \A k \in 1 .. Len(a) : k # j + 2 => b[k] = a[k]
  <2>1. a[j + 1] \in Nat
    BY <1>1, ElementLemma
  <2>2. QED
    BY <1>1, <2>1, ReplaceLemma
<1>c. /\ c \in Seq(Nat) /\ Len(c) = Len(a)
      /\ c[j + 2] = key /\ \A k \in 1 .. Len(a) : k # j + 2 => c[k] = a[k]
  BY <1>1, ReplaceLemma
<1> HIDE DEF b
<1>d. /\ d \in Seq(Nat) /\ Len(d) = Len(a)
      /\ d[j + 1] = key /\ \A k \in 1 .. Len(a) : k # j + 1 => d[k] = b[k]
  <2>1. j + 1 \in 1 .. Len(b)
    BY <1>1, <1>b
  <2>2. QED
    BY <1>b, <2>1, ReplaceLemma
<1>2. /\ b \in Seq(Nat) /\ Len(b) = Len(a) /\ c \in Seq(Nat) /\ Len(c) = Len(a)
      /\ d \in Seq(Nat) /\ Len(d) = Len(a)
  BY <1>b, <1>c, <1>d
<1>3. /\ b[j + 2] = a[j + 1] /\ \A k \in 1 .. Len(a) : k # j + 2 => b[k] = a[k]
      /\ c[j + 2] = key /\ \A k \in 1 .. Len(a) : k # j + 2 => c[k] = a[k]
      /\ d[j + 1] = key /\ \A k \in 1 .. Len(a) : k # j + 1 => d[k] = b[k]
  BY <1>b, <1>c, <1>d
<1>4. Rearranged(c, f)
  BY DEF Shifting
<1> HIDE DEF b, c, d
<1>5. Rearranged(d, f)
  <2>1. /\ d[j + 1] = c[j + 2] /\ d[j + 2] = c[j + 1]
        /\ \A k \in 1 .. Len(c) : k # j + 2 /\ k # j + 1 => d[k] = c[k]
    BY <1>1, <1>2, <1>3
  <2>2. j + 1 \in 1 .. Len(c) /\ j + 2 \in 1 .. Len(c) /\ Len(d) = Len(c)
    BY <1>1, <1>2
  <2> DEFINE x == j + 2
             y == j + 1
  <2>3. /\ x \in 1 .. Len(c) /\ y \in 1 .. Len(c) /\ d[x] = c[y] /\ d[y] = c[x]
        /\ \A k \in 1 .. Len(c) : k # x /\ k # y => d[k] = c[k]
    BY <2>1, <2>2
  <2> HIDE DEF x, y
  <2>4. QED
    BY <1>2, <1>4, <2>2, <2>3, ExchangeLemma
<1>6. \A p, q \in 1 .. i + 1 : p <= q /\ p # j + 1 /\ q # j + 1 => b[p] <= b[q]
  <2>1. ASSUME NEW p \in 1 .. i + 1, NEW q \in 1 .. i + 1, p <= q, p # j + 1, q # j + 1
        PROVE  b[p] <= b[q]
    <3>0. p \in 1 .. Len(a) /\ q \in 1 .. Len(a)
      BY <1>1
    <3>1. a[p] \in Nat /\ a[q] \in Nat /\ a[j + 1] \in Nat
      BY <1>1, <3>0, ElementLemma
    <3>2. \A x, y \in 1 .. i + 1 : x <= y /\ x # j + 2 /\ y # j + 2 => a[x] <= a[y]
      BY DEF Shifting
    <3>3. CASE p = j + 2 /\ q = j + 2
      BY <3>0, <3>1, <3>3, <1>3
    <3>4. CASE p = j + 2 /\ q # j + 2
      <4>1. j + 1 \in 1 .. i + 1 /\ j + 1 <= q /\ j + 1 # j + 2
        BY <1>1, <2>1, <3>4
      <4>2. QED
        BY <4>1, <3>0, <3>1, <3>2, <3>4, <1>3
    <3>5. CASE p # j + 2 /\ q = j + 2
      <4>1. j + 1 \in 1 .. i + 1 /\ p <= j + 1 /\ j + 1 # j + 2
        BY <1>1, <2>1, <3>5
      <4>2. QED
        BY <4>1, <3>0, <3>1, <3>2, <3>5, <1>3
    <3>6. CASE p # j + 2 /\ q # j + 2
      BY <2>1, <3>0, <3>1, <3>2, <3>6, <1>3
    <3>7. QED
      BY <3>3, <3>4, <3>5, <3>6
  <2>2. QED
    BY <2>1
<1>7. \A q \in 1 .. i + 1 : q > j + 1 => key <= b[q]
  <2>1. \A q \in 1 .. i + 1 : q > j + 2 => key <= a[q]
    BY DEF Shifting
  <2>2. ASSUME NEW q \in 1 .. i + 1, q > j + 1 PROVE key <= b[q]
    <3>1. CASE q = j + 2
      BY <1>1, <1>3, <3>1
    <3>2. CASE q # j + 2
      <4>1. q \in 1 .. Len(a) /\ q > j + 2
        BY <1>1, <2>2, <3>2
      <4>2. key <= a[q] /\ b[q] = a[q]
        BY <1>3, <2>1, <3>2, <4>1
      <4>3. QED
        BY <4>2
    <3>3. QED
      BY <3>1, <3>2
  <2>3. QED
    BY <2>2
<1>8. (j - 1) + 2 = j + 1 /\ j - 1 \in -1 .. i - 1
  BY <1>1
<1>9. Shifting(b, f, key, i, j - 1)
  BY <1>1, <1>2, <1>5, <1>6, <1>7, <1>8 DEF Shifting, d
<1>10. QED
  BY <1>9 DEF b

(* ... and it takes the place that is left.                                *)
LEMMA PutDown ==
  ASSUME NEW a \in Seq(Nat), NEW f, NEW key \in Nat, NEW i \in Nat, NEW j \in Int,
         Shifting(a, f, key, i, j), ~(j >= 0 /\ a[j + 1] > key)
  PROVE  /\ Rearranged([a EXCEPT ![j + 2] = key], f)
         /\ UpTo([a EXCEPT ![j + 2] = key], i + 1)
<1> DEFINE b == [a EXCEPT ![j + 2] = key]
<1>1. /\ Len(a) \in Nat /\ i \in 1 .. Len(a) - 1 /\ j \in -1 .. i - 1
      /\ j + 2 \in 1 .. Len(a) /\ Len(b) = Len(a)
      /\ b[j + 2] = key /\ \A k \in 1 .. Len(a) : k # j + 2 => b[k] = a[k]
      /\ Rearranged(b, f)
  BY DEF Shifting
<1> HIDE DEF b
<1>2. ASSUME NEW p \in 1 .. Len(a), NEW q \in 1 .. Len(a), p <= q, q <= i + 1
      PROVE  b[p] <= b[q]
  <2>1. p \in 1 .. i + 1 /\ q \in 1 .. i + 1 /\ a[p] \in Nat /\ a[q] \in Nat
    <3>1. p \in 1 .. i + 1 /\ q \in 1 .. i + 1
      BY <1>1, <1>2
    <3>2. QED
      BY <3>1, ElementLemma
  <2>2. /\ \A x, y \in 1 .. i + 1 : x <= y /\ x # j + 2 /\ y # j + 2 => a[x] <= a[y]
        /\ \A y \in 1 .. i + 1 : y > j + 2 => key <= a[y]
    BY DEF Shifting
  <2>3. CASE p = j + 2 /\ q = j + 2
    BY <1>1, <2>3
  <2>4. CASE p = j + 2 /\ q # j + 2
    BY <1>1, <1>2, <2>1, <2>2, <2>4
  <2>5. CASE p # j + 2 /\ q = j + 2
    <3>1. j >= 0 /\ j + 1 \in 1 .. i + 1 /\ j + 1 # j + 2 /\ p <= j + 1 /\ j + 1 \in 1 .. Len(a)
      BY <1>1, <1>2, <2>5
    <3>2. a[p] <= a[j + 1] /\ a[j + 1] <= key /\ a[j + 1] \in Nat
      <4>1. a[j + 1] \in Nat
        BY <3>1
      <4>2. QED
        BY <2>1, <2>2, <2>5, <3>1, <4>1
    <3>3. b[p] = a[p] /\ b[q] = key
      BY <1>1, <2>5
    <3>4. QED
      BY <2>1, <3>2, <3>3
  <2>6. CASE p # j + 2 /\ q # j + 2
    BY <1>1, <1>2, <2>1, <2>2, <2>6
  <2>7. QED
    BY <2>3, <2>4, <2>5, <2>6
<1>3. UpTo(b, i + 1)
  BY <1>1, <1>2 DEF UpTo
<1>4. QED
  BY <1>1, <1>3 DEF b

----------------------------------------------------------------------------
(* Bubble sort.                                                            *)

(* A round begins at the front of the array.                               *)
LEMMA BeginSweep ==
  ASSUME NEW a \in Seq(Nat), NEW f, Rearranged(a, f), NEW i \in Nat, NEW swapped,
         i < Len(a) - 1, From(a, Len(a) - i)
  PROVE  Sweeping(a, f, i, 0, swapped)
<1>1. 0 \in 0 .. Len(a) - 1 - i /\ Len(a) \in Nat /\ a[1] \in Nat
  <2>1. Len(a) \in Nat /\ 1 \in 1 .. Len(a)
    OBVIOUS
  <2>2. QED
    BY <2>1, ElementLemma
<1>2. UpTo(a, 0 + 1)
  <2>1. ASSUME NEW p \in 1 .. Len(a), NEW q \in 1 .. Len(a), p <= q, q <= 0 + 1
        PROVE  a[p] <= a[q]
    <3>1. p = 1 /\ q = 1
      BY <2>1
    <3>2. QED
      BY <1>1, <3>1
  <2>2. QED
    BY <2>1 DEF UpTo
<1>3. \A p \in 1 .. 0 : a[p] <= a[0 + 1]
  OBVIOUS
<1>4. QED
  BY <1>1, <1>2, <1>3 DEF Sweeping

(* It leaves the greatest element so far behind it, exchanged or not.      *)
LEMMA SweepOn ==
  ASSUME NEW a \in Seq(Nat), NEW f, NEW i \in Nat, NEW j \in Nat, NEW swapped \in BOOLEAN,
         Sweeping(a, f, i, j, swapped), j < Len(a) - 1 - i, ~(a[j + 1] > a[j + 2])
  PROVE  Sweeping(a, f, i, j + 1, swapped)
<1>1. /\ Len(a) \in Nat /\ j + 1 \in 1 .. Len(a) /\ j + 2 \in 1 .. Len(a)
      /\ j + 1 \in 0 .. Len(a) - 1 - i
  OBVIOUS
<1>2. a[j + 1] \in Nat /\ a[j + 2] \in Nat /\ a[j + 1] <= a[j + 2]
  <2>1. a[j + 1] \in Nat /\ a[j + 2] \in Nat
    BY <1>1, ElementLemma
  <2>2. QED
    BY <2>1
<1>3. \A p \in 1 .. j : a[p] <= a[j + 1]
  BY DEF Sweeping
<1>4. ASSUME NEW p \in 1 .. j + 1 PROVE a[p] <= a[(j + 1) + 1]
  <2>1. a[p] \in Nat
    BY <1>1, ElementLemma
  <2>2. CASE p = j + 1
    BY <1>2, <2>2
  <2>3. CASE p # j + 1
    <3>1. p \in 1 .. j
      BY <2>3
    <3>2. a[p] <= a[j + 1]
      BY <1>3, <3>1
    <3>3. a[p] <= a[j + 2] /\ (j + 1) + 1 = j + 2
      BY <1>2, <2>1, <3>2
    <3>4. QED
      BY <3>3
  <2>4. QED
    BY <2>2, <2>3
<1>5. ASSUME ~swapped PROVE UpTo(a, (j + 1) + 1)
  <2>1. UpTo(a, j + 1)
    BY <1>5 DEF Sweeping
  <2>2. ASSUME NEW p \in 1 .. Len(a), NEW q \in 1 .. Len(a), p <= q, q <= (j + 1) + 1
        PROVE  a[p] <= a[q]
    <3>1. CASE q <= j + 1
      BY <2>1, <2>2, <3>1 DEF UpTo
    <3>2. CASE q = j + 2 /\ p = j + 2
      BY <1>2, <3>2
    <3>3. CASE q = j + 2 /\ p # j + 2
      BY <1>4, <2>2, <3>3
    <3>4. QED
      BY <2>2, <3>1, <3>2, <3>3
  <2>3. QED
    BY <2>2 DEF UpTo
<1>6. Rearranged(a, f) /\ From(a, Len(a) - i)
  BY DEF Sweeping
<1>7. QED
  BY <1>1, <1>4, <1>5, <1>6 DEF Sweeping

(* The greatest so far is exchanged with the next element.                 *)
LEMMA SweepExchange ==
  ASSUME NEW a \in Seq(Nat), NEW f, NEW i \in Nat, NEW j \in Nat, NEW swapped,
         Sweeping(a, f, i, j, swapped), j < Len(a) - 1 - i, a[j + 1] > a[j + 2]
  PROVE  /\ Swapped(a, j + 1) \in Seq(Nat) /\ Len(Swapped(a, j + 1)) = Len(a)
         /\ Sweeping(Swapped(a, j + 1), f, i, j + 1, TRUE)
<1> DEFINE b == Swapped(a, j + 1)
<1>1. /\ Len(a) \in Nat /\ j + 1 \in 1 .. Len(a) /\ j + 2 \in 1 .. Len(a)
      /\ j + 1 \in 0 .. Len(a) - 1 - i /\ j + 1 # j + 2 /\ (j + 1) + 1 = j + 2
  OBVIOUS
<1>2. a[j + 1] \in Nat /\ a[j + 2] \in Nat /\ a[j + 2] <= a[j + 1]
  <2>1. a[j + 1] \in Nat /\ a[j + 2] \in Nat
    BY <1>1, ElementLemma
  <2>2. QED
    BY <2>1
<1>3. /\ b \in Seq(Nat) /\ Len(b) = Len(a)
      /\ b[j + 1] = a[j + 2] /\ b[j + 2] = a[j + 1]
      /\ \A k \in 1 .. Len(a) : k # j + 1 /\ k # j + 2 => b[k] = a[k]
  <2>1. b = [[a EXCEPT ![j + 1] = a[j + 2]] EXCEPT ![j + 2] = a[j + 1]]
    BY <1>1 DEF Swapped
  <2> HIDE DEF b
  <2>2. b \in Seq(Nat) /\ Len(b) = Len(a)
    BY <1>1, <1>2, <2>1
  <2>3. QED
    BY <1>1, <2>1, <2>2
<1> HIDE DEF b
<1>4. Rearranged(a, f) /\ From(a, Len(a) - i) /\ \A p \in 1 .. j : a[p] <= a[j + 1]
  BY DEF Sweeping
<1>5. Rearranged(b, f)
  BY <1>1, <1>3, <1>4, ExchangeLemma
<1>6. ASSUME NEW p \in 1 .. j + 1 PROVE b[p] <= b[(j + 1) + 1]
  <2>1. p \in 1 .. Len(a)
    BY <1>1
  <2>2. CASE p = j + 1
    BY <1>1, <1>2, <1>3, <2>2
  <2>3. CASE p # j + 1
    BY <1>1, <1>3, <1>4, <2>1, <2>3
  <2>4. QED
    BY <2>2, <2>3
<1>7. ASSUME NEW p \in 1 .. Len(b), NEW q \in 1 .. Len(b), p <= q, q > Len(b) - i
      PROVE  b[p] <= b[q]
  <2>1. /\ \A x, y \in 1 .. Len(a) : x <= y /\ y > Len(a) - i => a[x] <= a[y]
        /\ p \in 1 .. Len(a) /\ q \in 1 .. Len(a) /\ q > j + 2 /\ j + 1 <= q /\ j + 2 <= q
    BY <1>1, <1>3, <1>4, <1>7 DEF From
  <2>2. b[q] = a[q] /\ a[p] <= a[q] /\ a[j + 1] <= a[q] /\ a[j + 2] <= a[q]
    BY <1>1, <1>3, <1>7, <2>1
  <2>3. b[p] = a[p] \/ b[p] = a[j + 1] \/ b[p] = a[j + 2]
    BY <1>3, <2>1
  <2>4. QED
    BY <2>2, <2>3
<1>8. From(b, Len(b) - i)
  BY <1>7 DEF From
<1>9. Sweeping(b, f, i, j + 1, TRUE)
  BY <1>1, <1>3, <1>5, <1>6, <1>8 DEF Sweeping
<1>10. QED
  BY <1>3, <1>9 DEF b

(* At its end one more element is where it belongs, and all of them are if *)
(* nothing was exchanged.                                                  *)
LEMMA EndSweep ==
  ASSUME NEW a \in Seq(Nat), NEW f, NEW i \in Nat, NEW j \in Nat, NEW swapped \in BOOLEAN,
         Sweeping(a, f, i, j, swapped), ~(j < Len(a) - 1 - i)
  PROVE  /\ Rearranged(a, f) /\ From(a, Len(a) - (i + 1))
         /\ ~swapped => UpTo(a, Len(a))
<1>1. /\ Len(a) \in Nat /\ j = Len(a) - 1 - i /\ j + 1 = Len(a) - i
      /\ Rearranged(a, f) /\ From(a, Len(a) - i)
      /\ \A p \in 1 .. j : a[p] <= a[j + 1]
      /\ ~swapped => UpTo(a, j + 1)
  BY DEF Sweeping
<1>2. ASSUME NEW p \in 1 .. Len(a), NEW q \in 1 .. Len(a), p <= q, q > Len(a) - (i + 1)
      PROVE  a[p] <= a[q]
  <2>1. a[p] \in Nat /\ a[q] \in Nat
    BY ElementLemma
  <2>2. CASE q > Len(a) - i
    BY <1>1, <1>2, <2>2 DEF From
  <2>3. CASE q = j + 1 /\ p = j + 1
    BY <2>1, <2>3
  <2>4. CASE q = j + 1 /\ p # j + 1
    BY <1>1, <1>2, <2>4
  <2>5. q > Len(a) - i \/ q = j + 1
    BY <1>1, <1>2
  <2>6. QED
    BY <2>2, <2>3, <2>4, <2>5
<1>3. ASSUME ~swapped, NEW p \in 1 .. Len(a), NEW q \in 1 .. Len(a), p <= q, q <= Len(a)
      PROVE  a[p] <= a[q]
  <2>1. CASE q > Len(a) - i
    BY <1>1, <1>3, <2>1 DEF From
  <2>2. CASE ~(q > Len(a) - i)
    BY <1>1, <1>3, <2>2 DEF UpTo
  <2>3. QED
    BY <2>1, <2>2
<1>4. From(a, Len(a) - (i + 1))
  BY <1>2 DEF From
<1>5. ~swapped => UpTo(a, Len(a))
  BY <1>3 DEF UpTo
<1>6. QED
  BY <1>1, <1>4, <1>5

(* After all rounds the array is sorted.                                   *)
LEMMA Swept ==
  ASSUME NEW a \in Seq(Nat), NEW i \in Nat, ~(i < Len(a) - 1), From(a, Len(a) - i)
  PROVE  UpTo(a, Len(a))
<1>1. ASSUME NEW p \in 1 .. Len(a), NEW q \in 1 .. Len(a), p <= q, q <= Len(a)
      PROVE  a[p] <= a[q]
  <2>1. a[p] \in Nat /\ Len(a) \in Nat
    BY ElementLemma
  <2>2. CASE p = q
    BY <2>1, <2>2
  <2>3. CASE p # q
    <3>1. q > Len(a) - i
      BY <1>1, <2>1, <2>3
    <3>2. QED
      BY <1>1, <3>1 DEF From
  <2>4. QED
    BY <2>2, <2>3
<1>2. QED
  BY <1>1 DEF UpTo

----------------------------------------------------------------------------
(* A step of main or of the handlers, and the time it takes.               *)

(* A raised line stays up, but for the store that clears it, and as long   *)
(* as it is down the clock goes on.                                        *)
LEMMA TimeLemma ==
  ASSUME TrapInv, Time
  PROVE  /\ clock' \in 0 .. IRQ_PERIOD - 1 /\ irq_pending_tick' \in BOOLEAN
         /\ pc # "irq_clear" => /\ irq_pending_tick => irq_pending_tick'
                                /\ ~irq_pending_tick' => clock' >= clock + 1
<1>1. PICK cycles \in 1 .. MaxCycles :
        LET raise == clock + cycles >= IRQ_PERIOD
        IN /\ clock' = IF raise THEN clock + cycles - IRQ_PERIOD ELSE clock + cycles
           /\ irq_pending_tick' \in
                IF pc = "irq_clear" THEN {FALSE, raise}
                ELSE {irq_pending_tick \/ raise}
  BY DEF Time
<1> DEFINE raise == clock + cycles >= IRQ_PERIOD
<1>2. /\ clock \in Nat /\ clock < IRQ_PERIOD /\ cycles \in Nat /\ cycles >= 1
      /\ cycles <= IRQ_PERIOD /\ IRQ_PERIOD \in Nat
  BY FirmwareAssumption DEF TrapInv
<1>3. clock' \in 0 .. IRQ_PERIOD - 1 /\ (~raise => clock' >= clock + 1)
  BY <1>1, <1>2
<1>4. raise \in BOOLEAN /\ irq_pending_tick \in BOOLEAN
  BY DEF TrapInv
<1>5. /\ irq_pending_tick' \in BOOLEAN
      /\ pc # "irq_clear" => irq_pending_tick' = (irq_pending_tick \/ raise)
  BY <1>1, <1>4
<1>6. QED
  BY <1>3, <1>4, <1>5

(* An instruction of main: an interrupt that is accepted with it counts as *)
(* a tick at once.                                                         *)
LEMMA MainMove ==
  ASSUME FrameInv, TrapInv, Time, NEW here, NEW next, NEW mie, NEW change,
         Mie(here, next, mie, change), here \notin Handler, next \notin Handler,
         change \in MainType
  PROVE  /\ TrapInv' /\ ~mcause /\ pc = here
         /\ where = here /\ where' = next /\ main' = change /\ mstatus' = mie
         /\ ticks = tick_count /\ ticks' \in Nat
         /\ interrupt_accepted => ticks' = ticks + 1
         /\ ~interrupt_accepted => ticks' = ticks /\ pc' = next
<1>1. /\ pc = here /\ mstatus' = mie /\ main' = change /\ tick_count' = tick_count
      /\ Goto(next)
  BY DEF Mie
<1>2. ~mcause /\ where = here /\ ticks = tick_count /\ tick_count \in Nat
  <2>1. ~Counting
    BY <1>1 DEF Counting, Handler
  <2>2. QED
    BY <1>1, <2>1 DEF TrapInv, where, ticks
<1>3. pc # "irq_clear"
  BY <1>1 DEF Handler
<1>4. CASE interrupt_accepted
  <2>1. /\ pc' = "isr_entry" /\ mepc' = next /\ mcause_irq' = TRUE /\ irq_pending_tick'
    BY <1>1, <1>3, <1>4, TimeLemma DEF Goto, interrupt_accepted
  <2>2. Counting' /\ where' = next
    BY <2>1 DEF Counting, where, Handler
  <2>3. ticks' = ticks + 1
    BY <1>1, <1>2, <2>2 DEF ticks
  <2>4. TrapInv'
    BY <1>1, <1>2, <2>1, TimeLemma DEF TrapInv, Handler
  <2>5. QED
    BY <1>1, <1>2, <1>4, <2>2, <2>3, <2>4
<1>5. CASE ~interrupt_accepted
  <2>1. pc' = next /\ UNCHANGED << mepc, mcause, mcause_irq >>
    BY <1>1, <1>5 DEF Goto
  <2>2. ~Counting' /\ where' = next
    BY <2>1 DEF Counting, where, Handler
  <2>3. ticks' = ticks
    BY <1>1, <1>2, <2>2 DEF ticks
  <2>4. TrapInv'
    <3>1. /\ pc' \notin Handler /\ ~mcause' /\ mcause_irq' \in BOOLEAN
      BY <1>2, <2>1 DEF TrapInv
    <3>2. QED
      BY <1>1, <1>2, <2>2, <3>1, TimeLemma DEF TrapInv, Handler
  <2>5. QED
    BY <1>1, <1>2, <1>5, <2>1, <2>2, <2>3, <2>4
<1>6. QED
  BY <1>4, <1>5

(* The EBREAK goes on behind it, past the handler or past an interrupt.    *)
LEMMA LabelLemma == main \in MainType => Label(main.len) = "marker_2"
  BY DEF MainType, Label

(* Trap entry, handlers and trap exit leave main where it was, or behind   *)
(* its EBREAK, and what they count has been counted.                       *)
LEMMA HandlerMove ==
  ASSUME FrameInv, TrapInv, Time, _isr_entry \/ irq_handler \/ ebreak_handler
  PROVE  /\ TrapInv' /\ UNCHANGED << main, mstatus >> /\ pc \in Handler
         /\ where' = where \/ (where = "ebreak" /\ where' = "marker_2")
         /\ (Counting => tick_count < MaxTicks) => ticks' = ticks
<1> DEFINE Goal == /\ TrapInv' /\ UNCHANGED << main, mstatus >> /\ pc \in Handler
                   /\ where' = where \/ (where = "ebreak" /\ where' = "marker_2")
                   /\ (Counting => tick_count < MaxTicks) => ticks' = ticks
<1>0. /\ clock' \in 0 .. IRQ_PERIOD - 1 /\ irq_pending_tick' \in BOOLEAN
      /\ pc # "irq_clear" => (irq_pending_tick => irq_pending_tick')
  BY TimeLemma
<1> USE DEF InHandler, TrapInv, Handler, where, Counting, ticks
<1>1. ASSUME InHandler("isr_entry", "isr_cause"), UNCHANGED << mepc, tick_count >> PROVE Goal
  BY <1>0, <1>1
<1>2. ASSUME InHandler("isr_cause", IF mcause_irq THEN "irq_handler" ELSE "ebreak_handler"),
             UNCHANGED << mepc, tick_count >>
      PROVE  Goal
  BY <1>0, <1>2
<1>3. ASSUME InHandler("isr_exit", "isr_mret"), UNCHANGED << mepc, tick_count >> PROVE Goal
  BY <1>0, <1>3
<1>4. ASSUME pc = "isr_mret", pc' = mepc, mcause' = FALSE,
             UNCHANGED << mstatus, mcause_irq, mepc, tick_count, main >>
      PROVE  Goal
  <2>1. mepc \notin Handler
    BY <1>4 DEF FrameInv
  <2>2. QED
    BY <1>0, <1>4, <2>1
<1>5. ASSUME InHandler("irq_handler", IF irq_pending_tick THEN "irq_count" ELSE "isr_exit"),
             UNCHANGED << mepc, tick_count >>
      PROVE  Goal
  <2>1. irq_pending_tick /\ mcause_irq
    BY <1>5
  <2>2. QED
    BY <1>0, <1>5, <2>1
<1>6. ASSUME InHandler("irq_count", "irq_clear"), UNCHANGED mepc,
             tick_count' = IF tick_count < MaxTicks THEN tick_count + 1 ELSE MaxTicks
      PROVE  Goal
  <2>1. mcause_irq /\ tick_count' \in Nat
    BY <1>6, FirmwareAssumption
  <2>2. QED
    BY <1>0, <1>6, <2>1
<1>7. ASSUME InHandler("irq_clear", "isr_exit"), UNCHANGED << mepc, tick_count >> PROVE Goal
  BY <1>0, <1>7
<1>8. ASSUME InHandler("ebreak_handler", "isr_exit"), mepc' = Label(main.len),
             UNCHANGED tick_count
      PROVE  Goal
  <2>1. mepc' = "marker_2" /\ ~mcause_irq /\ mepc = "ebreak"
    BY <1>8, LabelLemma
  <2>2. QED
    BY <1>0, <1>8, <2>1
<1> QED
  BY <1>1, <1>2, <1>3, <1>4, <1>5, <1>6, <1>7, <1>8
     DEF _isr_entry, irq_handler, ebreak_handler, regVars

----------------------------------------------------------------------------
(* The trap tests.                                                         *)

(* 100000 iterations of the waiting loop (selftest.c:245), of a cycle or   *)
(* more each, outlast the 5000 cycles between interrupts (tb.v:30), and    *)
(* the 32-bit counter of the ticks does not reach its bound.               *)
Patient == Spins >= IRQ_PERIOD /\ MaxTicks >= 15

(* The limits, and that they are no more than 15.                          *)
LEMMA Limits ==
  /\ Limit("reset") = 0 /\ Limit("enable") = 1 /\ Limit("marker_1") = 2
  /\ Limit("ebreak") = 3 /\ Limit("marker_2") = 4 /\ Limit("store_marker") = 5
  /\ Limit("check_marker") = 6 /\ Limit("irq_mie") = 7 /\ Limit("read_ticks") = 8
  /\ Limit("spin") = 10 /\ Limit("check_ticks") = 11 /\ Limit("wfi_mie") = 12
  /\ Limit("read_tick") = 13 /\ Limit("wfi") = 14 /\ Limit("check_wake") = 15
  BY DEF Limit

LEMMA LimitLemma == \A w \in Tested : Limit(w) \in 0 .. 15
  BY Limits DEF Tested, Timed

(* The handlers.                                                           *)
LEMMA TestHandler ==
  ASSUME Patient, FrameInv, TrapInv, TestInv, Time, _isr_entry \/ irq_handler \/ ebreak_handler
  PROVE  TestInv'
<1>1. /\ UNCHANGED << main, mstatus >> /\ pc \in Handler
      /\ where' = where \/ (where = "ebreak" /\ where' = "marker_2")
      /\ (Counting => tick_count < MaxTicks) => ticks' = ticks
  BY HandlerMove
<1>2. pc # "spin" /\ main \in MainType /\ tick_count \in Nat /\ MaxTicks \in Nat
  BY <1>1, FirmwareAssumption DEF Handler, TrapInv
<1>3. CASE where \in Tested
  <2>1. Counting => tick_count < MaxTicks
    <3>1. Limit(where) \in 0 .. 15 /\ ticks <= Limit(where)
      BY <1>3, LimitLemma DEF TestInv
    <3>2. Counting => ticks = tick_count + 1
      BY DEF ticks
    <3>3. QED
      BY <1>2, <3>1, <3>2 DEF Patient
  <2>2. ticks' = ticks /\ ticks \in Nat
    BY <1>1, <1>2, <2>1 DEF ticks
  <2>3. CASE where' = where
    BY <1>1, <1>2, <1>3, <2>2, <2>3 DEF TestInv
  <2>4. CASE where = "ebreak" /\ where' = "marker_2"
    BY <1>1, <1>2, <2>2, <2>4, Limits DEF TestInv, Tested, Timed
  <2>5. QED
    BY <1>1, <2>3, <2>4
<1>4. CASE where \notin Tested
  <2>1. where' = where
    BY <1>1, <1>4 DEF Tested
  <2>2. QED
    BY <1>1, <1>4, <2>1 DEF TestInv, Tested, Timed
<1>5. QED
  BY <1>3, <1>4

(* Where main goes on in the benchmarks, or is done.                       *)
LEMMA TestElsewhere ==
  ASSUME FrameInv, TrapInv, Time, NEW here, NEW next, NEW mie, NEW change,
         Mie(here, next, mie, change), here \notin Handler, next \notin Handler,
         change \in MainType, next \notin Tested \cup {"fail", "lost"}
  PROVE  TestInv'
<1>1. where' = next
  BY MainMove
<1>2. QED
  BY <1>1 DEF TestInv, Tested, Timed

(* At the tests that say nothing of ticks or markers, but for how many     *)
(* ticks there have been.                                                  *)
LEMMA TestPlain ==
  ASSUME FrameInv, TrapInv, TestInv, Time, NEW here \in Tested,
         NEW next \in {"enable", "marker_1", "ebreak", "marker_2", "irq_mie", "read_ticks",
                       "wfi_mie", "read_tick"},
         NEW mie, NEW change, Mie(here, next, mie, change), here \notin Handler,
         change \in MainType, Limit(here) + 1 <= Limit(next), next \in Timed => mie,
         next \notin {"wfi_mie", "read_tick"} => change.i = 0
  PROVE  TestInv'
<1>1. /\ where = here /\ where' = next /\ main' = change /\ mstatus' = mie
      /\ ticks \in Nat /\ ticks' \in Nat /\ ticks' <= ticks + 1
  <2>1. next \notin Handler
    BY DEF Handler
  <2>2. /\ where = here /\ where' = next /\ main' = change /\ mstatus' = mie
        /\ ticks = tick_count /\ ticks' \in Nat
        /\ ticks' = ticks + 1 \/ ticks' = ticks
    BY <2>1, MainMove
  <2>3. ticks \in Nat
    BY <2>2 DEF TrapInv
  <2>4. QED
    BY <2>2, <2>3
<1>2. ticks' <= Limit(next)
  <2>1. ticks <= Limit(here) /\ Limit(here) \in 0 .. 15
    BY <1>1, LimitLemma DEF TestInv
  <2>2. next \in Tested
    BY DEF Tested, Timed
  <2>3. Limit(next) \in 0 .. 15
    BY <2>2, LimitLemma
  <2>4. QED
    BY <1>1, <2>1, <2>3
<1>3. QED
  BY <1>1, <1>2 DEF TestInv, Tested, Timed

(* How far the ticks can have come at the next test.                       *)
LEMMA TicksLemma ==
  ASSUME FrameInv, TrapInv, TestInv, Time, NEW here \in Tested, NEW next \in Tested,
         NEW mie, NEW change, Mie(here, next, mie, change), change \in MainType,
         Limit(here) + 1 <= Limit(next)
  PROVE  ticks' <= Limit(next)
<1>1. here \notin Handler /\ next \notin Handler
  BY DEF Tested, Timed, Handler
<1>2. where = here /\ ticks \in Nat /\ (ticks' = ticks + 1 \/ ticks' = ticks)
  <2>1. where = here /\ ticks = tick_count /\ (ticks' = ticks + 1 \/ ticks' = ticks)
    BY <1>1, MainMove
  <2>2. QED
    BY <2>1 DEF TrapInv
<1>3. ticks <= Limit(here) /\ Limit(here) \in 0 .. 15 /\ Limit(next) \in 0 .. 15
  BY <1>2, LimitLemma DEF TestInv
<1>4. QED
  BY <1>2, <1>3

(* Main's variables keep their types.                                      *)
LEMMA ChangeLemma ==
  ASSUME main \in MainType
  PROVE  /\ \A v \in Nat : /\ [main EXCEPT !.marker = v] \in MainType
                           /\ [main EXCEPT !.t0 = v] \in MainType
                           /\ [main EXCEPT !.i = v] \in MainType
                           /\ [main EXCEPT !.iter = v] \in MainType
         /\ [main EXCEPT !.sort = "bubble"] \in MainType
  BY DEF MainType

(* Start-up.                                                               *)
LEMMA TestStart ==
  ASSUME FrameInv, TrapInv, TestInv, Time, _start
  PROVE  TrapInv' /\ TestInv'
<1>1. main \in MainType /\ main.entry \in {"marker_1", "disable"}
  BY DEF TrapInv, MainType
<1>2. /\ "reset" \in Tested /\ "enable" \in Tested /\ "marker_1" \in Tested
      /\ {"reset", "enable", "marker_1", "disable"} \cap (Handler \cup Timed) = {}
      /\ "disable" \notin Tested
  BY DEF Tested, Timed, Handler
<1>3. where \in {"reset", "enable"} => main.i = 0
  BY DEF TestInv, Tested, Timed
<1>4. pc \in {"reset", "enable"} => where = pc
  BY <1>2 DEF where
<1>5. CASE Instr("reset", "enable", main)
  <2>1. Mie("reset", "enable", mstatus, main) /\ main.i = 0
    BY <1>3, <1>4, <1>5 DEF Instr, Mie
  <2>2. QED
    BY <1>1, <1>2, <2>1, Limits, MainMove, TestPlain
<1>6. CASE Mie("enable", main.entry, TRUE, main)
  <2>1. main.i = 0
    BY <1>3, <1>4, <1>6 DEF Mie
  <2>2. CASE main.entry = "marker_1"
    <3>1. Mie("enable", "marker_1", TRUE, main)
      BY <1>6, <2>2
    <3>2. Limit("enable") + 1 <= Limit("marker_1")
      BY Limits
    <3>3. TestInv'
      BY <1>1, <1>2, <2>1, <3>1, <3>2, TestPlain
    <3>4. QED
      BY <1>1, <1>2, <3>1, <3>3, MainMove
  <2>3. CASE main.entry = "disable"
    BY <1>1, <1>2, <1>6, <2>3, MainMove, TestElsewhere
  <2>4. QED
    BY <1>1, <2>2, <2>3
<1>7. QED
  BY <1>5, <1>6 DEF _start

(* The tests of the EBREAK.                                                *)
LEMMA TestEbreak ==
  ASSUME FrameInv, TrapInv, TestInv, Time, test_ebreak
  PROVE  TrapInv' /\ TestInv'
<1> DEFINE Here == {"marker_1", "ebreak", "marker_2", "store_marker", "check_marker", "irq_mie"}
<1>1. main \in MainType /\ main.t0 \in Nat
  BY DEF TrapInv, MainType
<1>2. Here \subseteq Tested /\ Here \cap (Handler \cup Timed) = {}
  BY DEF Tested, Timed, Handler
<1>3. pc \in Here => where = pc /\ main.i = 0
  BY <1>2 DEF where, TestInv
<1>4. CASE Instr("marker_1", "ebreak", [main EXCEPT !.marker = 1])
  <2> DEFINE change == [main EXCEPT !.marker = 1]
  <2>1. /\ Mie("marker_1", "ebreak", mstatus, change) /\ change \in MainType
        /\ change.i = 0
    BY <1>1, <1>3, <1>4 DEF Instr, Mie, MainType
  <2> HIDE DEF change
  <2>2. QED
    BY <1>2, <2>1, Limits, MainMove, TestPlain
<1>5. CASE Instr("marker_2", "store_marker", [main EXCEPT !.t0 = 2])
  <2> DEFINE change == [main EXCEPT !.t0 = 2]
  <2>1. /\ Mie("marker_2", "store_marker", mstatus, change) /\ change \in MainType
        /\ change.i = 0 /\ change.t0 = 2
    BY <1>1, <1>3, <1>5 DEF Instr, Mie, MainType
  <2> HIDE DEF change
  <2>2. ticks' <= Limit("store_marker")
    BY <1>2, <2>1, Limits, TicksLemma
  <2>3. TrapInv' /\ where' = "store_marker" /\ main' = change
    BY <1>2, <2>1, MainMove
  <2>4. QED
    BY <1>2, <2>1, <2>2, <2>3 DEF TestInv, Tested, Timed
<1>6. CASE Instr("store_marker", "check_marker", [main EXCEPT !.marker = main.t0])
  <2> DEFINE change == [main EXCEPT !.marker = main.t0]
  <2>1. /\ Mie("store_marker", "check_marker", mstatus, change) /\ change \in MainType
        /\ change.i = 0 /\ change.marker = 2
    <3>1. main.t0 = 2
      BY <1>3, <1>6 DEF Instr, Mie, TestInv
    <3>2. QED
      BY <1>1, <1>3, <1>6, <3>1 DEF Instr, Mie, MainType
  <2> HIDE DEF change
  <2>2. ticks' <= Limit("check_marker")
    BY <1>2, <2>1, Limits, TicksLemma
  <2>3. TrapInv' /\ where' = "check_marker" /\ main' = change
    BY <1>2, <2>1, MainMove
  <2>4. QED
    BY <1>2, <2>1, <2>2, <2>3 DEF TestInv, Tested, Timed
<1>7. CASE Instr("check_marker", CHECK(main.marker = 2, "irq_mie"), main)
  <2>1. main.marker = 2 /\ main.i = 0
    BY <1>3, <1>7 DEF Instr, Mie, TestInv
  <2>2. Mie("check_marker", "irq_mie", mstatus, main)
    BY <1>7, <2>1 DEF Instr, CHECK
  <2>3. QED
    BY <1>1, <1>2, <2>1, <2>2, Limits, MainMove, TestPlain
<1>8. QED
  BY <1>4, <1>5, <1>6, <1>7 DEF test_ebreak

(* The EBREAK itself, which an interrupt may replace.                      *)
LEMMA TestTrap ==
  ASSUME FrameInv, TrapInv, TestInv, Time, ebreak
  PROVE  /\ TrapInv' /\ TestInv' /\ main' = main
         /\ where = "ebreak" /\ where' \in {"ebreak", "marker_2"}
<1>1. /\ main \in MainType /\ pc = "ebreak" /\ where = "ebreak" /\ main.i = 0
      /\ Label(main.len) = "marker_2" /\ "ebreak" \in Tested \ Timed
      /\ "ebreak" \notin Handler /\ "marker_2" \notin Handler /\ "marker_2" \notin Timed
  <2>1. pc = "ebreak" /\ main \in MainType
    BY DEF ebreak, TrapInv
  <2>2. where = "ebreak" /\ "ebreak" \in Tested \ Timed
    BY <2>1 DEF where, Handler, Tested, Timed
  <2>3. QED
    BY <2>1, <2>2, LabelLemma DEF TestInv, Handler, Timed
<1>2. CASE interrupt_accepted
  <2>1. Mie("ebreak", "marker_2", mstatus, main)
    BY <1>1, <1>2 DEF ebreak, Mie
  <2>2. TrapInv' /\ main' = main /\ where' = "marker_2"
    BY <1>1, <2>1, MainMove
  <2>3. QED
    BY <1>1, <2>1, <2>2, Limits, TestPlain
<1>3. CASE ~interrupt_accepted
  <2>1. /\ pc' = "isr_entry" /\ mepc' = "ebreak" /\ mcause' = TRUE /\ mcause_irq' = FALSE
        /\ UNCHANGED << mstatus, tick_count, main >>
    BY <1>3 DEF ebreak
  <2>2. clock' \in 0 .. IRQ_PERIOD - 1 /\ irq_pending_tick' \in BOOLEAN
    BY TimeLemma
  <2>3. ~Counting' /\ ~Counting /\ where' = "ebreak"
    BY <1>1, <2>1 DEF Counting, where, Handler
  <2>4. ticks' = ticks
    BY <2>1, <2>3 DEF ticks
  <2>5. TrapInv'
    BY <2>1, <2>2, <2>3 DEF TrapInv, Handler
  <2>6. TestInv'
    BY <1>1, <2>1, <2>3, <2>4 DEF TestInv, Tested, Timed
  <2>7. QED
    BY <1>1, <2>1, <2>3, <2>5, <2>6
<1>4. QED
  BY <1>2, <1>3

(* The test of the interrupts.  While no tick comes the line is down, so   *)
(* that the clock has gone on with every iteration: it cannot have done so *)
(* for as many as the loop waits.                                          *)
LEMMA TestSpin ==
  ASSUME Patient, FrameInv, TrapInv, TestInv, Time, NEW next, NEW change,
         Instr("spin", next, change),
         \/ /\ main.i < Spins /\ tick_count < main.t0 + 2
            /\ next = "spin" /\ change = [main EXCEPT !.i = main.i + 1]
         \/ /\ ~(main.i < Spins /\ tick_count < main.t0 + 2)
            /\ next = "check_ticks" /\ change = [main EXCEPT !.i = 0]
  PROVE  TrapInv' /\ TestInv'
<1> DEFINE spinning == main.i < Spins /\ tick_count < main.t0 + 2
<1>1. /\ "spin" \in Timed /\ "check_ticks" \in Timed /\ "spin" \notin Handler
      /\ next \in Timed /\ Timed \subseteq Tested /\ next \notin Handler
  BY DEF Timed, Tested, Handler
<1>2. /\ Mie("spin", next, mstatus, change) /\ main \in MainType /\ change \in MainType
      /\ change.t0 = main.t0 /\ main.t0 \in Nat /\ main.i \in Nat
      /\ spinning => next = "spin" /\ change.i = main.i + 1
      /\ ~spinning => next = "check_ticks"
  <2>1. main \in MainType
    BY DEF TrapInv
  <2>2. main.t0 \in Nat /\ main.i \in Nat
    BY <2>1 DEF MainType
  <2>3. ASSUME NEW v \in Nat
        PROVE  LET m == [main EXCEPT !.i = v] IN m \in MainType /\ m.t0 = main.t0 /\ m.i = v
    BY <2>1 DEF MainType
  <2>4. main.i + 1 \in Nat /\ 0 \in Nat /\ Mie("spin", next, mstatus, change)
    BY <2>2 DEF Instr
  <2>5. QED
    BY <2>1, <2>2, <2>3, <2>4
<1>3. /\ TrapInv' /\ ~mcause /\ pc = "spin" /\ where = "spin" /\ where' = next
      /\ main' = change /\ mstatus' = mstatus /\ ticks = tick_count /\ ticks' \in Nat
      /\ interrupt_accepted => ticks' = ticks + 1
      /\ ~interrupt_accepted => ticks' = ticks /\ pc' = next
  BY <1>1, <1>2, MainMove
<1>4. /\ mstatus /\ main.t0 <= 8 /\ ticks <= main.t0 + 2 /\ ticks \in Nat
      /\ \/ ticks > main.t0
         \/ ticks = main.t0 /\ (irq_pending_tick \/ clock >= main.i)
  BY <1>1, <1>3 DEF TestInv, TrapInv
<1>5. interrupt_accepted <=> irq_pending_tick
  BY <1>3, <1>4 DEF interrupt_accepted
<1>6. /\ clock \in 0 .. IRQ_PERIOD - 1 /\ clock' \in 0 .. IRQ_PERIOD - 1
      /\ Spins \in Nat /\ IRQ_PERIOD \in Nat /\ Spins >= IRQ_PERIOD
      /\ ~irq_pending_tick' => clock' >= clock + 1
  BY <1>3, TimeLemma, FirmwareAssumption DEF TrapInv, Patient
<1>7. CASE spinning
  <2>1. next = "spin" /\ main'.i = main.i + 1 /\ main'.t0 = main.t0
    BY <1>2, <1>3, <1>7
  <2>2. ticks' <= main.t0 + 2 /\ (ticks' = ticks \/ ticks' > main.t0)
    <3>1. tick_count < main.t0 + 2
      BY <1>7
    <3>2. QED
      BY <1>2, <1>3, <1>4, <3>1
  <2>3. \/ ticks' > main'.t0
        \/ ticks' = main'.t0 /\ pc' = "spin" /\ (irq_pending_tick' \/ clock' >= main'.i)
    <3>1. CASE interrupt_accepted \/ ticks > main.t0
      BY <1>2, <1>3, <1>4, <2>1, <3>1
    <3>2. CASE ~interrupt_accepted /\ ~(ticks > main.t0)
      <4>1. ~irq_pending_tick /\ ticks = main.t0 /\ clock >= main.i
        BY <1>4, <1>5, <3>2
      <4>2. ticks' = main'.t0 /\ pc' = "spin"
        BY <1>3, <2>1, <3>2, <4>1
      <4>3. ~irq_pending_tick' => clock' >= main'.i
        BY <1>2, <1>6, <2>1, <4>1
      <4>4. QED
        BY <4>2, <4>3
    <3>3. QED
      BY <3>1, <3>2
  <2>4. ticks' <= Limit("spin") /\ main'.t0 <= 8 /\ ticks' <= main'.t0 + 2
    BY <1>2, <1>3, <1>4, <2>1, <2>2, Limits
  <2>5. where' = "spin" /\ mstatus'
    BY <1>3, <1>4, <2>1
  <2>6. TestInv'
    BY <2>3, <2>4, <2>5 DEF TestInv, Tested, Timed
  <2>7. QED
    BY <1>3, <2>6
<1>8. CASE ~spinning
  <2>1. next = "check_ticks" /\ main'.t0 = main.t0
    BY <1>2, <1>3, <1>8
  <2>2. ticks' > main.t0
    <3>1. CASE interrupt_accepted \/ ticks > main.t0
      BY <1>2, <1>3, <1>4, <3>1
    <3>2. CASE ~interrupt_accepted /\ ~(ticks > main.t0)
      <4>1. ticks = main.t0 /\ clock >= main.i
        BY <1>4, <1>5, <3>2
      <4>2. ~(main.i < Spins)
        BY <1>2, <1>3, <1>8, <4>1
      <4>3. FALSE
        BY <1>2, <1>6, <4>1, <4>2
      <4>4. QED
        BY <4>3
    <3>3. QED
      BY <3>1, <3>2
  <2>3. ticks' <= Limit("check_ticks")
    BY <1>1, <1>2, <2>1, Limits, TicksLemma
  <2>4. where' = "check_ticks" /\ mstatus'
    BY <1>3, <1>4, <2>1
  <2>5. TestInv'
    BY <2>1, <2>2, <2>3, <2>4 DEF TestInv, Tested, Timed
  <2>6. QED
    BY <1>3, <2>5
<1>9. QED
  BY <1>7, <1>8

(* All of the test of the interrupts.                                      *)
LEMMA TestIrq ==
  ASSUME Patient, FrameInv, TrapInv, TestInv, Time, test_irq
  PROVE  TrapInv' /\ TestInv'
<1> DEFINE Here == {"irq_mie", "read_ticks", "spin", "check_ticks", "wfi_mie"}
<1>1. main \in MainType /\ tick_count \in Nat
  BY DEF TrapInv
<1>2. /\ Here \subseteq Tested /\ Here \cap Handler = {} /\ Here \ {"irq_mie"} \subseteq Timed
      /\ "irq_mie" \notin Timed /\ "spin" \notin Handler /\ "wfi_mie" \notin Handler
  BY DEF Tested, Timed, Handler
<1>3. pc \in Here => where = pc /\ (pc \in Timed => mstatus)
  BY <1>2 DEF where, TestInv
<1>4. CASE Mie("irq_mie", "read_ticks", TRUE, main)
  <2>1. main.i = 0
    BY <1>2, <1>3, <1>4 DEF Mie, TestInv, Timed
  <2>2. Limit("irq_mie") + 1 <= Limit("read_ticks")
    BY Limits
  <2>3. TestInv'
    BY <1>1, <1>2, <1>4, <2>1, <2>2, TestPlain
  <2>4. TrapInv'
    BY <1>1, <1>2, <1>4, MainMove
  <2>5. QED
    BY <2>3, <2>4
<1>5. CASE Instr("read_ticks", "spin", [main EXCEPT !.t0 = tick_count])
  <2> DEFINE change == [main EXCEPT !.t0 = tick_count]
  <2>1. /\ Mie("read_ticks", "spin", mstatus, change) /\ change \in MainType
        /\ change.i = 0 /\ change.t0 = tick_count /\ tick_count \in Nat
        /\ where = "read_ticks"
    <3>1. pc = "read_ticks"
      BY <1>5 DEF Instr, Mie
    <3>2. main.i = 0 /\ where = "read_ticks"
      BY <1>2, <1>3, <3>1 DEF TestInv
    <3>3. QED
      BY <1>1, <1>5, <3>2 DEF Instr, MainType
  <2> HIDE DEF change
  <2>2. /\ TrapInv' /\ where' = "spin" /\ main' = change /\ mstatus' = mstatus
        /\ ticks = tick_count
        /\ interrupt_accepted => ticks' = ticks + 1
        /\ ~interrupt_accepted => ticks' = ticks /\ pc' = "spin"
    BY <1>2, <2>1, MainMove
  <2>3. ticks <= 8
    BY <1>2, <2>1, Limits DEF TestInv
  <2>4. clock' >= main'.i
    BY <2>1, <2>2, TimeLemma
  <2>5. /\ ticks' <= Limit("spin") /\ main'.t0 <= 8 /\ ticks' <= main'.t0 + 2
        /\ ticks' > main'.t0 \/ (ticks' = main'.t0 /\ pc' = "spin")
    <3>1. CASE interrupt_accepted
      BY <2>1, <2>2, <2>3, <3>1, Limits
    <3>2. CASE ~interrupt_accepted
      BY <2>1, <2>2, <2>3, <3>2, Limits
    <3>3. QED
      BY <3>1, <3>2
  <2>6. mstatus'
    <3>1. mstatus
      BY <1>3, <1>5 DEF Instr, Mie, Timed
    <3>2. QED
      BY <2>2, <3>1
  <2>7. QED
    BY <2>2, <2>4, <2>5, <2>6 DEF TestInv, Tested, Timed
<1> DEFINE spinning == main.i < Spins /\ tick_count < main.t0 + 2
<1>6. CASE Instr("spin", IF spinning THEN "spin" ELSE "check_ticks",
                 [main EXCEPT !.i = IF spinning THEN main.i + 1 ELSE 0])
  <2> DEFINE next == IF spinning THEN "spin" ELSE "check_ticks"
             change == [main EXCEPT !.i = IF spinning THEN main.i + 1 ELSE 0]
  <2>1. \/ spinning /\ next = "spin" /\ change = [main EXCEPT !.i = main.i + 1]
        \/ ~spinning /\ next = "check_ticks" /\ change = [main EXCEPT !.i = 0]
    OBVIOUS
  <2>2. Instr("spin", next, change)
    BY <1>6
  <2> HIDE DEF next, change
  <2>3. QED
    BY <2>1, <2>2, TestSpin
<1>7. CASE Instr("check_ticks", CHECK(tick_count >= main.t0 + 1, "wfi_mie"), main)
  <2>1. pc = "check_ticks" /\ where = pc /\ mstatus
    BY <1>2, <1>3, <1>7 DEF Instr, Mie
  <2>2. ticks = tick_count /\ ticks > main.t0 /\ main.t0 \in Nat
    BY <1>1, <2>1 DEF ticks, Counting, TestInv, MainType
  <2>3. Mie("check_ticks", "wfi_mie", mstatus, main)
    BY <1>1, <1>7, <2>2 DEF Instr, CHECK
  <2>4. Limit("check_ticks") + 1 <= Limit("wfi_mie")
    BY Limits
  <2>5. TestInv'
    BY <1>1, <1>2, <2>1, <2>3, <2>4, TestPlain
  <2>6. TrapInv'
    BY <1>1, <1>2, <2>3, MainMove
  <2>7. QED
    BY <2>5, <2>6
<1>8. QED
  BY <1>4, <1>5, <1>6, <1>7 DEF test_irq

(* The test of WFI: it goes on with a tick.                                *)
LEMMA TestWfi ==
  ASSUME FrameInv, TrapInv, TestInv, Time, test_wfi
  PROVE  TrapInv' /\ TestInv'
<1> DEFINE Here == {"wfi_mie", "read_tick", "wfi", "check_wake"}
<1>1. main \in MainType /\ tick_count \in Nat
  BY DEF TrapInv
<1>2. /\ Here \subseteq Tested /\ Here \cap Handler = {} /\ Here \subseteq Timed
      /\ "pass" \notin Tested \cup Handler
  BY DEF Tested, Timed, Handler
<1>3. pc \in Here => where = pc /\ mstatus
  BY <1>2 DEF where, TestInv
<1>4. CASE Mie("wfi_mie", "read_tick", TRUE, main)
  <2>1. Limit("wfi_mie") + 1 <= Limit("read_tick")
    BY Limits
  <2>2. TestInv'
    BY <1>1, <1>2, <1>4, <2>1, TestPlain
  <2>3. TrapInv'
    BY <1>1, <1>2, <1>4, MainMove
  <2>4. QED
    BY <2>2, <2>3
<1>5. CASE Instr("read_tick", "wfi", [main EXCEPT !.t0 = tick_count])
  <2> DEFINE change == [main EXCEPT !.t0 = tick_count]
  <2>1. /\ Mie("read_tick", "wfi", mstatus, change) /\ change \in MainType
        /\ change.t0 = tick_count
    BY <1>1, <1>5 DEF Instr, MainType
  <2> HIDE DEF change
  <2>2. /\ TrapInv' /\ where' = "wfi" /\ main' = change /\ mstatus' = mstatus
        /\ ticks = tick_count
        /\ ticks' = ticks + 1 \/ ticks' = ticks
    BY <1>2, <2>1, MainMove
  <2>3. ticks' <= Limit("wfi")
    BY <1>2, <2>1, Limits, TicksLemma
  <2>4. ticks' >= main'.t0
    BY <1>1, <2>1, <2>2
  <2>5. mstatus'
    <3>1. mstatus
      BY <1>3, <1>5 DEF Instr, Mie
    <3>2. QED
      BY <2>2, <3>1
  <2>6. QED
    BY <2>2, <2>3, <2>4, <2>5 DEF TestInv, Tested, Timed
<1>6. CASE Instr("wfi", AfterWfi, main)
  <2>1. pc = "wfi" /\ where = "wfi" /\ mstatus
    BY <1>3, <1>6 DEF Instr, Mie
  <2>2. main.t0 \in Nat /\ ticks >= main.t0 /\ ticks <= 14
    BY <1>1, <1>2, <2>1, Limits DEF TestInv, MainType
  <2>3. AfterWfi \in {"wfi", "check_wake"} /\ (AfterWfi = "wfi" <=> ~irq_pending_tick)
    BY DEF AfterWfi
  <2>4. /\ TrapInv' /\ ~mcause /\ where' = AfterWfi /\ main' = main /\ mstatus'
        /\ ticks = tick_count
        /\ interrupt_accepted => ticks' = ticks + 1
        /\ ~interrupt_accepted => ticks' = ticks
    <3>1. Mie("wfi", AfterWfi, mstatus, main) /\ AfterWfi \notin Handler
      BY <1>2, <1>6, <2>3 DEF Instr
    <3>2. /\ TrapInv' /\ ~mcause /\ where' = AfterWfi /\ main' = main /\ mstatus' = mstatus
          /\ ticks = tick_count
          /\ interrupt_accepted => ticks' = ticks + 1
          /\ ~interrupt_accepted => ticks' = ticks
      BY <1>1, <1>2, <3>1, MainMove
    <3>3. QED
      BY <2>1, <3>2
  <2>5. interrupt_accepted <=> irq_pending_tick
    BY <2>1, <2>4 DEF interrupt_accepted
  <2>6. CASE irq_pending_tick
    <3>1. where' = "check_wake" /\ ticks' > main'.t0 /\ ticks' <= Limit("check_wake")
      BY <1>1, <2>2, <2>3, <2>4, <2>5, <2>6, Limits
    <3>2. QED
      BY <2>4, <3>1 DEF TestInv, Tested, Timed
  <2>7. CASE ~irq_pending_tick
    <3>1. where' = "wfi" /\ ticks' >= main'.t0 /\ ticks' <= Limit("wfi")
      BY <1>1, <2>2, <2>3, <2>4, <2>5, <2>7, Limits
    <3>2. QED
      BY <2>4, <3>1 DEF TestInv, Tested, Timed
  <2>8. QED
    BY <2>6, <2>7
<1>7. CASE Instr("check_wake", CHECK(tick_count > main.t0, "pass"), main)
  <2>1. pc = "check_wake" /\ where = pc
    BY <1>3, <1>7 DEF Instr, Mie
  <2>2. ticks = tick_count /\ ticks > main.t0
    BY <2>1 DEF ticks, Counting, TestInv
  <2>3. Mie("check_wake", "pass", mstatus, main)
    BY <1>7, <2>2 DEF Instr, CHECK
  <2>4. QED
    BY <1>1, <1>2, <2>3, MainMove, TestElsewhere
<1>8. QED
  BY <1>4, <1>5, <1>6, <1>7 DEF test_wfi

----------------------------------------------------------------------------
(* The sorts.                                                              *)

Sorts == {"unsorted", "disable", "c0", "fill", "c1", "irq_enable", "report", "insertion",
          "shift", "bubble", "sweep", "reset", "enable"}

(* The trap tests have nothing to do with the array.                       *)
LEMMA SortElsewhere == where' \notin Sorts => SortInv'
  BY DEF Sorts, SortInv, SortAt

(* An instruction of the benchmarks.                                       *)
LEMMA SortMove ==
  ASSUME FrameInv, TrapInv, Time, NEW here \in Sorts, NEW next \in Sorts \cup {"pass"},
         NEW mie, NEW change \in MainType, Mie(here, next, mie, change),
         next \notin {"reset", "enable"}, SortAt(next, change)
  PROVE  TrapInv' /\ TestInv' /\ SortInv'
<1>1. /\ here \notin Handler /\ next \notin Handler
      /\ next \notin Tested \cup {"fail", "lost"}
  BY DEF Sorts, Handler, Tested, Timed
<1>2. TrapInv' /\ where' = next /\ main' = change
  BY <1>1, MainMove
<1>3. TestInv'
  BY <1>1, TestElsewhere
<1>4. QED
  BY <1>2, <1>3 DEF SortInv

(* What is known when an instruction of the benchmarks comes.              *)
LEMMA SortHere ==
  ASSUME FrameInv, SortInv, pc \in Sorts
  PROVE  where = pc /\ SortAt(pc, main)
<1>1. where = pc
  BY DEF Sorts, where, Handler
<1>2. QED
  BY <1>1 DEF SortInv

(* Each step of insertion sort.                                            *)
LEMMA InsertionStep ==
  ASSUME FrameInv, TrapInv, SortInv, Time, insertion_sort
  PROVE  TrapInv' /\ TestInv' /\ SortInv'
<1> DEFINE a == main.arr
<1>1. /\ main \in MainType /\ a \in Seq(Nat) /\ main.i \in Nat /\ main.j \in Int
      /\ main.key \in Nat /\ Len(a) \in Nat
  <2>1. main \in MainType
    BY DEF TrapInv
  <2>2. QED
    BY <2>1 DEF MainType
<1>2. {"insertion", "shift", "fill"} \subseteq Sorts \ {"reset", "enable"}
  BY DEF Sorts
<1>3. CASE Instr("insertion", IF main.i < n THEN "shift" ELSE "fill",
                 IF main.i < n THEN [main EXCEPT !.key = at(main.i), !.j = main.i - 1] ELSE main)
  <2>1. Rearranged(a, main.filled) /\ main.i >= 1 /\ UpTo(a, main.i)
    BY <1>2, <1>3, SortHere DEF Instr, Mie, SortAt
  <2>2. CASE main.i < n
    <3> DEFINE change == [main EXCEPT !.key = at(main.i), !.j = main.i - 1]
    <3>1. Mie("insertion", "shift", mstatus, change)
      BY <1>3, <2>2 DEF Instr
    <3>2. at(main.i) = a[main.i + 1] /\ a[main.i + 1] \in Nat /\ main.i < Len(a)
      BY <1>1, <2>1, <2>2, ElementLemma DEF at, n
    <3>3. /\ change \in MainType /\ change.arr = a /\ change.filled = main.filled
          /\ change.key = a[main.i + 1] /\ change.i = main.i /\ change.j = main.i - 1
      <4>1. main.i - 1 \in Int
        BY <1>1
      <4>2. QED
        BY <1>1, <3>2, <4>1 DEF MainType
    <3> HIDE DEF change
    <3>4. Shifting(a, main.filled, a[main.i + 1], main.i, main.i - 1)
      BY <1>1, <2>1, <3>2, TakeOut
    <3>5. SortAt("shift", change)
      BY <3>3, <3>4 DEF SortAt
    <3>6. QED
      BY <1>2, <3>1, <3>3, <3>5, SortMove
  <2>3. CASE ~(main.i < n)
    <3>1. Mie("insertion", "fill", mstatus, main)
      BY <1>3, <2>3 DEF Instr
    <3>2. UpTo(a, Len(a))
      BY <1>1, <2>1, <2>3 DEF UpTo, n
    <3>3. SortAt("fill", main)
      BY <2>1, <3>2 DEF SortAt
    <3>4. QED
      BY <1>1, <1>2, <3>1, <3>3, SortMove
  <2>4. QED
    BY <2>2, <2>3
<1>4. ASSUME pc = "shift"
      PROVE  /\ Shifting(a, main.filled, main.key, main.i, main.j)
             /\ main.j + 2 \in 1 .. Len(a) /\ (main.j + 1) + 1 = main.j + 2
             /\ main.j \in -1 .. main.i - 1 /\ main.i < Len(a)
  <2>1. Shifting(a, main.filled, main.key, main.i, main.j)
    BY <1>2, <1>4, SortHere DEF SortAt
  <2>2. main.i \in 1 .. Len(a) - 1 /\ main.j \in -1 .. main.i - 1
    BY <2>1 DEF Shifting
  <2>3. QED
    BY <1>1, <2>1, <2>2, BoundsLemma
<1>5. CASE pc = "shift" /\ main.j >= 0 /\ at(main.j) > main.key
           /\ Instr("shift", "shift",
                    [main EXCEPT !.arr = With(main.j + 1, at(main.j)), !.j = main.j - 1])
  <2> DEFINE b == [a EXCEPT ![main.j + 2] = a[main.j + 1]]
             change == [main EXCEPT !.arr = With(main.j + 1, at(main.j)), !.j = main.j - 1]
  <2>1. Mie("shift", "shift", mstatus, change)
    BY <1>5 DEF Instr
  <2>2. main.j + 1 \in 1 .. Len(a) /\ a[main.j + 1] \in Nat /\ at(main.j) = a[main.j + 1]
    <3>1. main.j >= 0 /\ main.j + 2 \in 1 .. Len(a)
      BY <1>4, <1>5
    <3>2. main.j + 1 \in 1 .. Len(a)
      BY <1>1, <3>1
    <3>3. QED
      BY <1>1, <3>2, ElementLemma DEF at
  <2>3. With(main.j + 1, at(main.j)) = b /\ b \in Seq(Nat)
    <3>1. With(main.j + 1, at(main.j)) = [a EXCEPT ![(main.j + 1) + 1] = a[main.j + 1]]
      BY <2>2 DEF With
    <3>2. (main.j + 1) + 1 = main.j + 2 /\ main.j + 2 \in 1 .. Len(a)
      BY <1>4, <1>5
    <3>3. With(main.j + 1, at(main.j)) = b
      BY <3>1, <3>2
    <3>4. b \in Seq(Nat)
      BY <1>1, <2>2, <3>2, ReplaceLemma
    <3>5. QED
      BY <3>3, <3>4
  <2>4. /\ change \in MainType /\ change.arr = b /\ change.filled = main.filled
        /\ change.key = main.key /\ change.i = main.i /\ change.j = main.j - 1
    <3>1. main.j - 1 \in Int
      BY <1>1
    <3>2. QED
      BY <1>1, <2>3, <3>1 DEF MainType
  <2>5. Shifting(b, main.filled, main.key, main.i, main.j - 1)
    BY <1>1, <1>4, <1>5, <2>2, MoveUp
  <2> HIDE DEF change, b
  <2>6. SortAt("shift", change)
    BY <2>4, <2>5 DEF SortAt
  <2>7. QED
    BY <1>2, <2>1, <2>4, <2>6, SortMove
<1>6. CASE ~(pc = "shift" /\ main.j >= 0 /\ at(main.j) > main.key)
           /\ Instr("shift", "insertion",
                    [main EXCEPT !.arr = With(main.j + 1, main.key), !.i = main.i + 1])
  <2> DEFINE b == [a EXCEPT ![main.j + 2] = main.key]
             change == [main EXCEPT !.arr = With(main.j + 1, main.key), !.i = main.i + 1]
  <2>1. Mie("shift", "insertion", mstatus, change) /\ pc = "shift"
    BY <1>6 DEF Instr, Mie
  <2>2. With(main.j + 1, main.key) = b /\ b \in Seq(Nat)
    <3>1. With(main.j + 1, main.key) = [a EXCEPT ![(main.j + 1) + 1] = main.key]
      BY DEF With
    <3>2. (main.j + 1) + 1 = main.j + 2 /\ main.j + 2 \in 1 .. Len(a)
      BY <1>4, <2>1
    <3>3. With(main.j + 1, main.key) = b
      BY <3>1, <3>2
    <3>4. b \in Seq(Nat)
      BY <1>1, <3>2, ReplaceLemma
    <3>5. QED
      BY <3>3, <3>4
  <2>3. /\ change \in MainType /\ change.arr = b /\ change.filled = main.filled
        /\ change.i = main.i + 1 /\ main.i + 1 >= 1
    <3>1. main.i + 1 \in Nat /\ main.i + 1 >= 1
      BY <1>1
    <3>2. QED
      BY <1>1, <2>2, <3>1 DEF MainType
  <2>4. ~(main.j >= 0 /\ a[main.j + 1] > main.key)
    BY <1>6, <2>1 DEF at
  <2>5. Rearranged(b, main.filled) /\ UpTo(b, main.i + 1)
    BY <1>1, <1>4, <2>1, <2>4, PutDown
  <2> HIDE DEF change, b
  <2>6. SortAt("insertion", change)
    BY <2>3, <2>5 DEF SortAt
  <2>7. QED
    BY <1>2, <2>1, <2>3, <2>6, SortMove
<1>7. QED
  BY <1>3, <1>5, <1>6 DEF insertion_sort

(* The variables of a round of bubble sort, and each of its steps.         *)
LEMMA BeginChange ==
  ASSUME main \in MainType
  PROVE  LET m == [main EXCEPT !.swapped = FALSE, !.j = 0]
         IN  /\ m \in MainType /\ m.arr = main.arr /\ m.filled = main.filled
             /\ m.i = main.i /\ m.j = 0
<1>1. ASSUME NEW s, s \in BOOLEAN, NEW j, j \in Int
      PROVE  [main EXCEPT !.swapped = s, !.j = j] \in MainType
  BY <1>1 DEF MainType
<1>2. ASSUME NEW s, NEW j
      PROVE  LET m == [main EXCEPT !.swapped = s, !.j = j]
             IN  m.arr = main.arr /\ m.filled = main.filled /\ m.i = main.i /\ m.j = j
  BY DEF MainType
<1>3. FALSE \in BOOLEAN /\ 0 \in Int
  OBVIOUS
<1>4. QED
  BY <1>1, <1>2, <1>3, Zenon

LEMMA BubbleStep ==
  ASSUME FrameInv, TrapInv, SortInv, Time, bubble_sort
  PROVE  TrapInv' /\ TestInv' /\ SortInv'
<1> DEFINE a == main.arr
<1>1. /\ main \in MainType /\ a \in Seq(Nat) /\ main.i \in Nat /\ main.j \in Int
      /\ main.swapped \in BOOLEAN /\ Len(a) \in Nat
  <2>1. main \in MainType
    BY DEF TrapInv
  <2>2. QED
    BY <2>1 DEF MainType
<1>2. {"bubble", "sweep", "fill"} \subseteq Sorts \ {"reset", "enable"}
  BY DEF Sorts
<1>3. CASE Instr("bubble", IF main.i < n - 1 THEN "sweep" ELSE "fill",
                 [main EXCEPT !.swapped = FALSE, !.j = 0])
  <2> DEFINE change == [main EXCEPT !.swapped = FALSE, !.j = 0]
  <2>1. Rearranged(a, main.filled) /\ From(a, Len(a) - main.i)
    BY <1>2, <1>3, SortHere DEF Instr, Mie, SortAt
  <2>2. /\ change \in MainType /\ change.arr = a /\ change.filled = main.filled
        /\ change.i = main.i /\ change.j = 0
    BY <1>1, BeginChange, Zenon
  <2>3. CASE main.i < n - 1
    <3>1. Mie("bubble", "sweep", mstatus, change)
      BY <1>3, <2>3 DEF Instr
    <3> HIDE DEF change
    <3>2. Sweeping(a, main.filled, main.i, 0, change.swapped)
      BY <1>1, <2>1, <2>3, BeginSweep DEF n
    <3>3. SortAt("sweep", change)
      BY <2>2, <3>2 DEF SortAt
    <3>4. QED
      BY <1>2, <2>2, <3>1, <3>3, SortMove
  <2>4. CASE ~(main.i < n - 1)
    <3>1. Mie("bubble", "fill", mstatus, change)
      BY <1>3, <2>4 DEF Instr
    <3> HIDE DEF change
    <3>2. UpTo(a, Len(a))
      BY <1>1, <2>1, <2>4, Swept DEF n
    <3>3. SortAt("fill", change)
      BY <2>1, <2>2, <3>2 DEF SortAt
    <3>4. QED
      BY <1>2, <2>2, <3>1, <3>3, SortMove
  <2>5. QED
    BY <2>3, <2>4
<1>4. ASSUME pc = "sweep"
      PROVE  Sweeping(a, main.filled, main.i, main.j, main.swapped) /\ main.j \in Nat
  <2>1. Sweeping(a, main.filled, main.i, main.j, main.swapped)
    BY <1>2, <1>4, SortHere DEF SortAt
  <2>2. QED
    BY <1>1, <2>1 DEF Sweeping
<1> DEFINE exchange == at(main.j) > at(main.j + 1)
<1>5. CASE pc = "sweep" /\ main.j < n - 1 - main.i
           /\ Instr("sweep", "sweep",
                    [main EXCEPT !.arr = IF exchange THEN Swapped(main.arr, main.j + 1) ELSE @,
                                 !.swapped = main.swapped \/ exchange,
                                 !.j = main.j + 1])
  <2> DEFINE b == IF exchange THEN Swapped(main.arr, main.j + 1) ELSE main.arr
             s == main.swapped \/ exchange
             change == [main EXCEPT !.arr = b, !.swapped = s, !.j = main.j + 1]
  <2>1. Mie("sweep", "sweep", mstatus, change)
    BY <1>5 DEF Instr
  <2>2. /\ Sweeping(a, main.filled, main.i, main.j, main.swapped) /\ main.j \in Nat
        /\ main.j < Len(a) - 1 - main.i /\ exchange = (a[main.j + 1] > a[main.j + 2])
    BY <1>1, <1>4, <1>5 DEF at, n
  <2>3. b \in Seq(Nat) /\ s \in BOOLEAN /\ Sweeping(b, main.filled, main.i, main.j + 1, s)
    <3>0. main.swapped \in BOOLEAN /\ main.i \in Nat
      BY <1>1 DEF MainType
    <3>1. CASE exchange
      <4>1. a[main.j + 1] > a[main.j + 2]
        BY <2>2, <3>1
      <4>2. /\ Swapped(a, main.j + 1) \in Seq(Nat)
            /\ Sweeping(Swapped(a, main.j + 1), main.filled, main.i, main.j + 1, TRUE)
        BY <1>1, <2>2, <3>0, <4>1, SweepExchange
      <4>3. b = Swapped(a, main.j + 1) /\ s = TRUE
        BY <3>1
      <4>4. QED
        BY <4>2, <4>3
    <3>2. CASE ~exchange
      <4>1. ~(a[main.j + 1] > a[main.j + 2])
        BY <2>2, <3>2
      <4>2. Sweeping(a, main.filled, main.i, main.j + 1, main.swapped)
        BY <1>1, <2>2, <3>0, <4>1, SweepOn
      <4>3. b = a /\ s = main.swapped
        BY <3>0, <3>2
      <4>4. QED
        BY <1>1, <3>0, <4>2, <4>3
    <3>3. QED
      BY <3>1, <3>2
  <2> HIDE DEF b, s
  <2>4. /\ change \in MainType /\ change.arr = b /\ change.filled = main.filled
        /\ change.i = main.i /\ change.j = main.j + 1 /\ change.swapped = s
    <3>1. main.j + 1 \in Int
      BY <1>1
    <3>2. QED
      BY <1>1, <2>3, <3>1 DEF MainType
  <2> HIDE DEF change
  <2>5. SortAt("sweep", change)
    BY <2>3, <2>4 DEF SortAt
  <2>6. QED
    BY <1>2, <2>1, <2>4, <2>5, SortMove
<1>6. CASE ~(pc = "sweep" /\ main.j < n - 1 - main.i)
           /\ Instr("sweep", IF main.swapped THEN "bubble" ELSE "fill",
                    [main EXCEPT !.i = main.i + 1])
  <2> DEFINE next == IF main.swapped THEN "bubble" ELSE "fill"
             change == [main EXCEPT !.i = main.i + 1]
  <2>1. Mie("sweep", next, mstatus, change) /\ pc = "sweep"
    BY <1>6 DEF Instr, Mie
  <2>2. /\ Rearranged(a, main.filled) /\ From(a, Len(a) - (main.i + 1))
        /\ ~main.swapped => UpTo(a, Len(a))
    BY <1>1, <1>4, <1>6, <2>1, EndSweep DEF n
  <2>3. /\ change \in MainType /\ change.arr = a /\ change.filled = main.filled
        /\ change.i = main.i + 1
    <3>1. main.i + 1 \in Nat
      BY <1>1
    <3>2. QED
      BY <1>1, <3>1 DEF MainType
  <2> HIDE DEF change
  <2>4. CASE main.swapped
    <3>1. SortAt("bubble", change) /\ next = "bubble"
      BY <2>2, <2>3, <2>4 DEF SortAt
    <3>2. QED
      BY <1>2, <2>1, <2>3, <3>1, SortMove
  <2>5. CASE ~main.swapped
    <3>1. SortAt("fill", change) /\ next = "fill"
      BY <2>2, <2>3, <2>5 DEF SortAt
    <3>2. QED
      BY <1>2, <2>1, <2>3, <3>1, SortMove
  <2>6. QED
    BY <2>4, <2>5
<1>7. QED
  BY <1>3, <1>5, <1>6 DEF bubble_sort

(* The other instructions of the benchmarks.                               *)
LEMMA BenchStep ==
  ASSUME FrameInv, TrapInv, SortInv, Time, irq_disable \/ fill_array \/ irq_enable
  PROVE  TrapInv' /\ TestInv' /\ SortInv'
<1> DEFINE Sorted(m) == Rearranged(m.arr, m.filled) /\ UpTo(m.arr, Len(m.arr))
           Still == {"disable", "c0", "fill", "c1", "irq_enable", "report"}
<1>1. /\ main \in MainType /\ main.arr \in Seq(Nat) /\ main.iter \in Nat
      /\ main.sort \in {"insertion", "bubble"}
  <2>1. main \in MainType
    BY DEF TrapInv
  <2>2. QED
    BY <2>1 DEF MainType
<1>2. /\ Still \subseteq Sorts \ {"reset", "enable"}
      /\ {"insertion", "bubble"} \subseteq Sorts \ {"reset", "enable"}
      /\ "pass" \notin {"reset", "enable"}
  BY DEF Sorts
<1>3. pc \in Still => Sorted(main)
  BY <1>2, SortHere DEF SortAt
<1>4. ASSUME NEW here \in Still, NEW next \in Still \cup {"pass"}, NEW mie,
             NEW change \in MainType, change.arr = main.arr, change.filled = main.filled,
             Mie(here, next, mie, change)
      PROVE  TrapInv' /\ TestInv' /\ SortInv'
  <2>1. Sorted(change)
    BY <1>3, <1>4 DEF Mie
  <2>2. SortAt(next, change)
    BY <2>1 DEF SortAt
  <2>3. QED
    BY <1>2, <1>4, <2>2, SortMove
<1>5. CASE Mie("disable", "c0", FALSE, main)
  BY <1>1, <1>4, <1>5, Zenon
<1>6. CASE Instr("c0", "fill", [main EXCEPT !.iter = 0])
  <2> DEFINE change == [main EXCEPT !.iter = 0]
  <2>1. /\ change \in MainType /\ change.arr = main.arr /\ change.filled = main.filled
        /\ Mie("c0", "fill", mstatus, change)
    BY <1>1, <1>6 DEF MainType, Instr
  <2> HIDE DEF change
  <2>2. QED
    BY <1>4, <2>1
<1>7. CASE fill_array
  <2>1. ASSUME NEW a \in Arrays,
               Instr("fill", main.sort,
                     [main EXCEPT !.iter = main.iter + 1, !.arr = a, !.filled = a,
                                  !.i = IF main.sort = "insertion" THEN 1 ELSE 0])
        PROVE  TrapInv' /\ TestInv' /\ SortInv'
    <3> DEFINE i == IF main.sort = "insertion" THEN 1 ELSE 0
               change == [main EXCEPT !.iter = main.iter + 1, !.arr = a, !.filled = a, !.i = i]
    <3>1. a \in Seq(Nat) /\ i \in Nat /\ main.iter + 1 \in Nat
      BY <1>1, FirmwareAssumption
    <3>2. Mie("fill", main.sort, mstatus, change)
      BY <2>1 DEF Instr
    <3>3. Rearranged(a, a) /\ \A k \in 1 .. Len(a) : a[k] \in Nat
      BY <3>1, RearrangedReflexive, ElementLemma
    <3>4. UpTo(a, 1)
      BY <3>3 DEF UpTo
    <3>5. From(a, Len(a) - 0)
      BY <3>1 DEF From
    <3>6. (main.sort = "insertion" => i = 1) /\ (main.sort = "bubble" => i = 0)
      OBVIOUS
    <3> HIDE DEF i
    <3>7. /\ change \in MainType /\ change.arr = a /\ change.filled = a /\ change.i = i
      BY <1>1, <3>1 DEF MainType
    <3> HIDE DEF change
    <3>8. SortAt(main.sort, change)
      <4>1. CASE main.sort = "insertion"
        BY <3>3, <3>4, <3>6, <3>7, <4>1 DEF SortAt
      <4>2. CASE main.sort = "bubble"
        BY <3>3, <3>5, <3>6, <3>7, <4>2 DEF SortAt
      <4>3. QED
        BY <1>1, <4>1, <4>2
    <3>9. QED
      <4>1. main.sort \in Sorts /\ main.sort \notin {"reset", "enable"} /\ "fill" \in Sorts
        BY <1>1, <1>2
      <4>2. QED
        BY <3>2, <3>7, <3>8, <4>1, SortMove
  <2>2. CASE Instr("fill", "c1", main)
    BY <1>1, <1>4, <2>2 DEF Instr
  <2>3. QED
    BY <1>7, <2>1, <2>2 DEF fill_array
<1>8. CASE Instr("c1", "irq_enable", main)
  BY <1>1, <1>4, <1>8 DEF Instr
<1>9. CASE Mie("irq_enable", "report", TRUE, main)
  BY <1>1, <1>4, <1>9, Zenon
<1>10. CASE Instr("report",
                  IF ~is_sorted THEN "unsorted"
                  ELSE IF main.sort = "insertion" THEN "disable" ELSE "pass",
                  [main EXCEPT !.sort = "bubble"])
  <2> DEFINE change == [main EXCEPT !.sort = "bubble"]
             next == IF main.sort = "insertion" THEN "disable" ELSE "pass"
  <2>1. is_sorted
    <3>1. Sorted(main)
      BY <1>3, <1>10 DEF Instr, Mie
    <3>2. ASSUME NEW k \in 1 .. n - 1 PROVE at(k) >= at(k - 1)
      <4>1. /\ k \in 1 .. Len(main.arr) /\ k + 1 \in 1 .. Len(main.arr) /\ (k - 1) + 1 = k
            /\ k <= k + 1 /\ k + 1 <= Len(main.arr)
        BY <1>1 DEF n
      <4>2. main.arr[k] <= main.arr[k + 1]
        BY <3>1, <4>1 DEF UpTo
      <4>3. main.arr[k] \in Nat /\ main.arr[k + 1] \in Nat
        BY <1>1, <4>1, ElementLemma
      <4>4. QED
        BY <4>1, <4>2, <4>3 DEF at
    <3>3. QED
      BY <3>2 DEF is_sorted
  <2>2. Mie("report", next, mstatus, change) /\ next \in Still \cup {"pass"}
    BY <1>10, <2>1 DEF Instr
  <2>3. change \in MainType /\ change.arr = main.arr /\ change.filled = main.filled
    BY <1>1 DEF MainType
  <2> HIDE DEF change, next
  <2>4. QED
    BY <1>4, <2>2, <2>3
<1>11. QED
  BY <1>5, <1>6, <1>7, <1>8, <1>9, <1>10 DEF irq_disable, irq_enable

(* Start-up leaves the array as it is, and it is sorted.                   *)
LEMMA SortStart ==
  ASSUME FrameInv, TrapInv, TestInv, SortInv, Time, _start
  PROVE  SortInv'
<1>1. main \in MainType /\ main.entry \in {"marker_1", "disable"}
  BY DEF TrapInv, MainType
<1>2. /\ {"reset", "enable"} \subseteq Sorts
      /\ {"reset", "enable", "marker_1", "disable"} \cap Handler = {}
      /\ "marker_1" \notin Sorts
  BY DEF Sorts, Handler
<1>3. pc \in {"reset", "enable"} => main.arr = << 0 >> /\ main.filled = << 0 >>
  BY <1>2, SortHere DEF SortAt
<1>4. CASE Instr("reset", "enable", main)
  <2>1. where' = "enable" /\ main' = main
    BY <1>1, <1>2, <1>4, MainMove DEF Instr
  <2>2. SortAt("enable", main)
    BY <1>3, <1>4 DEF SortAt, Instr, Mie
  <2>3. QED
    BY <2>1, <2>2 DEF SortInv
<1>5. CASE Mie("enable", main.entry, TRUE, main)
  <2>1. where' = main.entry /\ main' = main
    BY <1>1, <1>2, <1>5, MainMove
  <2>2. CASE main.entry = "marker_1"
    BY <1>2, <2>1, <2>2, SortElsewhere
  <2>3. CASE main.entry = "disable"
    <3>1. Rearranged(<< 0 >>, << 0 >>)
      <4>1. << 0 >> \in Seq(Nat)
        OBVIOUS
      <4>2. QED
        BY <4>1, RearrangedReflexive, Zenon
    <3>2. UpTo(<< 0 >>, Len(<< 0 >>))
      BY DEF UpTo
    <3>3. SortAt("disable", main)
      BY <1>3, <1>5, <3>1, <3>2 DEF SortAt, Mie
    <3>4. QED
      BY <2>1, <2>3, <3>3 DEF SortInv
  <2>4. QED
    BY <1>1, <2>2, <2>3
<1>6. QED
  BY <1>4, <1>5 DEF _start

(* The trap tests leave the array alone.                                   *)
LEMMA SortTests ==
  ASSUME FrameInv, TrapInv, TestInv, Time, test_ebreak \/ ebreak \/ test_irq \/ test_wfi
  PROVE  SortInv'
<1> DEFINE Places == {"marker_1", "ebreak", "marker_2", "store_marker", "check_marker",
                      "irq_mie", "read_ticks", "spin", "check_ticks", "wfi_mie", "read_tick",
                      "wfi", "check_wake", "pass", "fail"}
<1>1. Places \cap (Handler \cup Sorts) = {}
  BY DEF Handler, Sorts
<1>2. main \in MainType /\ main.t0 \in Nat /\ main.i \in Nat /\ tick_count \in Nat
  BY DEF TrapInv, MainType
<1>3. /\ \A v \in Nat : [main EXCEPT !.marker = v] \in MainType
      /\ \A v \in Nat : [main EXCEPT !.t0 = v] \in MainType
      /\ \A v \in Nat : [main EXCEPT !.i = v] \in MainType
  BY <1>2, ChangeLemma
<1>4. ASSUME NEW here \in Places, NEW next \in Places, NEW mie, NEW change \in MainType,
             Mie(here, next, mie, change)
      PROVE  SortInv'
  <2>1. where' = next
    BY <1>1, <1>4, MainMove
  <2>2. QED
    BY <1>1, <2>1, SortElsewhere
<1>5. CASE test_ebreak
  <2>1. CHECK(main.marker = 2, "irq_mie") \in Places
    BY DEF CHECK
  <2> HIDE DEF Places
  <2>2. {"marker_1", "ebreak", "marker_2", "store_marker", "check_marker"} \subseteq Places
    BY DEF Places
  <2>3. QED
    BY <1>2, <1>3, <1>4, <1>5, <2>1, <2>2 DEF test_ebreak, Instr
<1>6. CASE ebreak
  BY <1>1, <1>6, TestTrap, SortElsewhere
<1>7. CASE test_irq
  <2> DEFINE spinning == main.i < Spins /\ tick_count < main.t0 + 2
             next == IF spinning THEN "spin" ELSE "check_ticks"
             count == IF spinning THEN main.i + 1 ELSE 0
  <2>1. CHECK(tick_count >= main.t0 + 1, "wfi_mie") \in Places
    BY DEF CHECK
  <2>2. next \in Places /\ count \in Nat
    BY <1>2
  <2>3. /\ "irq_mie" \in Places /\ "read_ticks" \in Places /\ "spin" \in Places
        /\ "check_ticks" \in Places
    OBVIOUS
  <2> HIDE DEF Places, next, count
  <2>4. CASE Mie("irq_mie", "read_ticks", TRUE, main)
    BY <1>2, <1>4, <2>3, <2>4, Zenon
  <2>5. CASE Instr("read_ticks", "spin", [main EXCEPT !.t0 = tick_count])
    BY <1>2, <1>3, <1>4, <2>3, <2>5 DEF Instr
  <2>6. CASE Instr("spin", next, [main EXCEPT !.i = count])
    BY <1>3, <1>4, <2>2, <2>3, <2>6 DEF Instr
  <2>7. CASE Instr("check_ticks", CHECK(tick_count >= main.t0 + 1, "wfi_mie"), main)
    BY <1>2, <1>4, <2>1, <2>3, <2>7 DEF Instr
  <2>8. QED
    BY <1>7, <2>4, <2>5, <2>6, <2>7 DEF test_irq, next, count
<1>8. CASE test_wfi
  <2>1. CHECK(tick_count > main.t0, "pass") \in Places /\ AfterWfi \in Places
    BY DEF CHECK, AfterWfi
  <2>2. /\ "wfi_mie" \in Places /\ "read_tick" \in Places /\ "wfi" \in Places
        /\ "check_wake" \in Places
    OBVIOUS
  <2> HIDE DEF Places
  <2>3. CASE Mie("wfi_mie", "read_tick", TRUE, main)
    BY <1>2, <1>4, <2>2, <2>3, Zenon
  <2>4. CASE Instr("read_tick", "wfi", [main EXCEPT !.t0 = tick_count])
    BY <1>2, <1>3, <1>4, <2>2, <2>4 DEF Instr
  <2>5. CASE Instr("wfi", AfterWfi, main)
    BY <1>2, <1>4, <2>1, <2>2, <2>5 DEF Instr
  <2>6. CASE Instr("check_wake", CHECK(tick_count > main.t0, "pass"), main)
    BY <1>2, <1>4, <2>1, <2>2, <2>6 DEF Instr
  <2>7. QED
    BY <1>8, <2>3, <2>4, <2>5, <2>6 DEF test_wfi
<1>9. QED
  BY <1>5, <1>6, <1>7, <1>8

(* So do the handlers.                                                     *)
LEMMA SortHandler ==
  ASSUME FrameInv, TrapInv, SortInv, Time, _isr_entry \/ irq_handler \/ ebreak_handler
  PROVE  SortInv'
<1>1. main' = main /\ (where' = where \/ where' = "marker_2")
  BY HandlerMove
<1>2. CASE where' = where
  BY <1>1, <1>2 DEF SortInv
<1>3. CASE where' = "marker_2"
  BY <1>3, SortElsewhere DEF Sorts
<1>4. QED
  BY <1>1, <1>2, <1>3

----------------------------------------------------------------------------

(* All of it holds from the start and is kept by every step.               *)
LEMMA TestsInitLemma == Init => FirmwareInv
<1> SUFFICES ASSUME Init PROVE FirmwareInv
  OBVIOUS
<1>1. PICK entry \in {"marker_1", "disable"}, length \in {2, 4} : main = MainOf(entry, length)
  BY DEF Init
<1>2. /\ main.arr = << 0 >> /\ main.filled = << 0 >> /\ main.i = 0 /\ main \in MainType
  BY <1>1 DEF MainOf, MainType
<1>3. /\ pc = "reset" /\ mcause = FALSE /\ mcause_irq = FALSE /\ irq_pending_tick = FALSE
      /\ tick_count = 0 /\ clock \in 0 .. IRQ_PERIOD - 1
  BY DEF Init
<1>4. where = "reset" /\ ~Counting /\ pc \notin Handler
  BY <1>3 DEF where, Counting, Handler
<1>5. ticks = 0
  BY <1>3, <1>4 DEF ticks
<1>6. TrapInv
  BY <1>2, <1>3, <1>4 DEF TrapInv
<1>7. TestInv
  BY <1>2, <1>4, <1>5, Limits DEF TestInv, Tested, Timed
<1>8. SortInv
  BY <1>2, <1>4 DEF SortInv, SortAt
<1>9. QED
  BY <1>6, <1>7, <1>8, FirmwareInitLemma DEF FirmwareInv

LEMMA TestsStep ==
  ASSUME Patient, FirmwareInv, Step, Time
  PROVE  TrapInv' /\ TestInv' /\ SortInv'
<1>1. FrameInv /\ TrapInv /\ TestInv /\ SortInv
  BY DEF FirmwareInv
<1>2. CASE _start
  BY <1>1, <1>2, TestStart, SortStart
<1>3. CASE _isr_entry \/ irq_handler \/ ebreak_handler
  BY <1>1, <1>3, HandlerMove, TestHandler, SortHandler
<1>4. CASE test_ebreak \/ ebreak \/ test_irq \/ test_wfi
  BY <1>1, <1>4, TestEbreak, TestTrap, TestIrq, TestWfi, SortTests
<1>5. CASE irq_disable \/ fill_array \/ irq_enable
  BY <1>1, <1>5, BenchStep
<1>6. CASE insertion_sort
  BY <1>1, <1>6, InsertionStep
<1>7. CASE bubble_sort
  BY <1>1, <1>7, BubbleStep
<1>8. QED
  BY <1>2, <1>3, <1>4, <1>5, <1>6, <1>7 DEF Step

(* The invariant of the trap tests and the sorts (selftest.c:218-264,      *)
(* bench_sort.c), with a waiting loop as patient as the code's.            *)
THEOREM TestsInvariant == ASSUME Patient PROVE Spec => []FirmwareInv
<1> DEFINE Tests == TrapInv /\ TestInv /\ SortInv
<1>1. Init => Tests
  BY TestsInitLemma DEF FirmwareInv
<1>2. ASSUME Tests, FrameInv, [Next]_vars PROVE Tests'
  <2>1. CASE Next
    BY <1>2, <2>1, TestsStep DEF Next, FirmwareInv
  <2>2. CASE UNCHANGED vars
    <3>1. UNCHANGED << pc, mstatus, mcause, mcause_irq, mepc, tick_count, main,
                       irq_pending_tick, clock >>
      BY <2>2 DEF vars, trapVars
    <3>2. UNCHANGED << where, Counting, ticks >>
      BY <3>1 DEF where, Counting, ticks
    <3>3. TrapInv'
      BY <1>2, <3>1, <3>2 DEF TrapInv
    <3>4. TestInv'
      BY <1>2, <3>1, <3>2 DEF TestInv
    <3>5. SortInv'
      BY <1>2, <3>1, <3>2 DEF SortInv
    <3>6. QED
      BY <3>3, <3>4, <3>5
  <2>3. QED
    BY <1>2, <2>1, <2>2
<1> HIDE DEF Tests
<1>3. FirmwareInv <=> FrameInv /\ Tests
  BY DEF FirmwareInv, Tests
<1>4. QED
  BY <1>1, <1>2, <1>3, FrameCorrect, PTL DEF Spec

(* Every CHECK of the trap tests holds, the instruction after the EBREAK   *)
(* runs, and the array the benchmark reports is the one it was filled with, *)
(* sorted: whenever the interrupts come, and for every array.              *)
THEOREM TestsAlwaysPass == ASSUME Patient PROVE Spec => []TestsPass
<1>1. FirmwareInv => TestsPass
  <2> SUFFICES ASSUME FirmwareInv PROVE TestsPass
    OBVIOUS
  <2>1. pc \notin {"fail", "unsorted", "lost"}
    <3>1. CASE pc \in Handler
      BY <3>1 DEF Handler
    <3>2. CASE pc \notin Handler
      BY <3>2 DEF FirmwareInv, TestInv, SortInv, SortAt, where
    <3>3. QED
      BY <3>1, <3>2
  <2>2. ASSUME pc = "report"
        PROVE  \E order \in [1 .. n -> 1 .. n] :
                 /\ \A k, l \in 1 .. n : order[k] = order[l] => k = l
                 /\ main.arr = [k \in 1 .. n |-> main.filled[order[k]]]
    <3>1. where = "report" /\ main \in MainType
      BY <2>2 DEF where, Handler, FirmwareInv, TrapInv
    <3>2. Rearranged(main.arr, main.filled) /\ main.arr \in Seq(Nat)
      BY <3>1 DEF FirmwareInv, SortInv, SortAt, MainType
    <3>3. PICK order \in [1 .. n -> 1 .. n] :
            /\ \A k, l \in 1 .. n : order[k] = order[l] => k = l
            /\ \A k \in 1 .. n : main.arr[k] = main.filled[order[k]]
      BY <3>2 DEF Rearranged, n
    <3>4. main.arr = [k \in 1 .. n |-> main.filled[order[k]]]
      BY <3>2, <3>3 DEF n
    <3>5. QED
      BY <3>3, <3>4
  <2>3. QED
    BY <2>1, <2>2 DEF TestsPass
<1>2. QED
  BY <1>1, TestsInvariant, PTL

=============================================================================
