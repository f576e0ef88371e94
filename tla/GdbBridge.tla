------------------------------ MODULE GdbBridge ------------------------------
(***************************************************************************)
(* The bridge between a debugger on a TCP socket and the simulated debug   *)
(* SoC (sim/tb_dbg_gdb.cpp), with the UART that the SoC has in this build  *)
(* (rtl/attorv32_dbg.v under BENCH) and the core's states around it.       *)
(*                                                                         *)
(* A step is one pass of the main loop: the break line, one byte put into  *)
(* the UART's registers behind the hardware's back, the rising edge, the   *)
(* byte taken from the UART, the new connection.  The core runs a program, *)
(* any one that leaves the UART's input alone, or the GDB stub, which      *)
(* polls STATUS and then reads DATA.  Bytes are numbered as they come in.  *)
(***************************************************************************)
EXTENDS Integers, Sequences

CONSTANTS
  MaxBytes,    (* bytes the debugger sends, in all                         *)
  BreakPasses  (* 20: passes a break is counted down from                  *)

ASSUME BridgeAssumption == MaxBytes \in Nat /\ BreakPasses \in Nat \ {0}

VARIABLES
  break_cycles,
  brk_cnt,             (* the UART's break detector                        *)
  rx_data, rx_valid,   (* its input register                               *)
  tx_valid,            (* its output register is full                      *)
  state,               (* of the core                                      *)
  words,               (* words to fetch after this one                    *)
  op,                  (* instruction that executes                        *)
  mode,                (* whose instructions these are                     *)
  dbg_halt_mask,
  seen,                (* valid bit of STATUS, as the stub loaded it       *)
  fed, got,            (* bytes read from the socket; bytes the stub has   *)
  stored, delivered,   (* bytes the stub stored, and bytes the bridge took  *)
                       (* for the socket, both modulo 2                    *)
  asked,               (* a break has been started to halt the program     *)
  nested               (* a break has been accepted in the stub            *)

uartVars   == << brk_cnt, rx_data, rx_valid, tx_valid >>
coreVars   == << state, words, op, mode, dbg_halt_mask, seen, got, nested >>
bridgeVars == << break_cycles, uartVars, coreVars, fed, stored, delivered, asked >>

ProgramOps == {"alu", "load", "jump", "send", "ebreak", "wfi"}
StubOps    == {"alu", "load", "jump", "status", "data", "send", "mret"}
Bytes      == 0 .. MaxBytes

BridgeTypeOK ==
  /\ break_cycles \in 0 .. BreakPasses
  /\ brk_cnt \in 0 .. 15
  /\ rx_data \in Bytes /\ rx_valid \in BOOLEAN
  /\ tx_valid \in BOOLEAN
  /\ state \in {"FETCH", "WAIT_INSTR", "EXECUTE", "WAIT"}
  /\ words \in 0 .. 1
  /\ op \in ProgramOps \cup StubOps
  /\ mode \in {"program", "stub"}
  /\ dbg_halt_mask \in BOOLEAN /\ seen \in BOOLEAN
  /\ fed \in Bytes /\ got \in Seq(Bytes) /\ Len(got) <= MaxBytes
  /\ stored \in 0 .. 1 /\ delivered \in 0 .. 1
  /\ asked \in BOOLEAN /\ nested \in BOOLEAN

----------------------------------------------------------------------------
(* The bridge, before the edge.                                            *)

(* break_cycles once the break line has been driven.                       *)
driven == IF break_cycles > 0 THEN break_cycles - 1 ELSE 0

uart_rx == driven = 0

(* Mutant: the write-back of S_WAIT is forgotten.                           *)
ListensInWait == ~rx_valid /\ driven = 0

Listens == ~rx_valid /\ state # "WAIT" /\ driven = 0

(* What tcp_try_read finds: nothing, the end of the connection, Ctrl-C, or *)
(* any other byte.                                                         *)
tcp_try_read ==
  IF Listens
  THEN {"nothing", "eof", "ctrl_c"} \cup (IF fed < MaxBytes THEN {"byte"} ELSE {})
  ELSE {"nothing"}

(* The UART's input register at the edge.                                  *)
valid(input) == rx_valid \/ input = "byte"
data(input)  == IF input = "byte" THEN fed + 1 ELSE rx_data

----------------------------------------------------------------------------
(* The edge: UART.                                                         *)

uart_wr_en == state = "EXECUTE" /\ op = "send"
uart_rd_en == state = "EXECUTE" /\ op = "data"

uart_break == brk_cnt = 15

(* Mutant: the counter does not stop when it is full.                      *)
NextBrkCntRuns == IF uart_rx THEN 0 ELSE brk_cnt + 1

next_brk_cnt == IF uart_rx THEN 0 ELSE IF uart_break THEN 15 ELSE brk_cnt + 1

next_tx_valid == uart_wr_en

Uart(input) ==
  /\ brk_cnt' = next_brk_cnt
  /\ rx_data' = data(input)
  /\ rx_valid' = (valid(input) /\ ~uart_rd_en)
  /\ tx_valid' = next_tx_valid
  /\ stored' = IF uart_wr_en THEN 1 - stored ELSE stored

----------------------------------------------------------------------------
(* The edge: core.  A load writes rd in S_EXECUTE and again in S_WAIT; the *)
(* second is what the program sees.                                        *)

(* The fetches of the next instruction: none if its word is in the cache,  *)
(* two if it straddles words and neither is, which only a jump can bring.   *)
NextFetch(most) ==
  \/ state' = "WAIT_INSTR" /\ words' = 0
  \/ state' = "FETCH" /\ words' \in 0 .. most - 1

waits == op \in {"load", "status", "data", "send"}

Fetch ==
  /\ state = "FETCH"
  /\ state' = "WAIT_INSTR"
  /\ UNCHANGED << words, op, mode, dbg_halt_mask, seen, got, nested >>

SecondWord ==
  /\ state = "WAIT_INSTR" /\ words > 0
  /\ state' = "FETCH" /\ words' = words - 1
  /\ UNCHANGED << op, mode, dbg_halt_mask, seen, got, nested >>

(* The stub reads DATA when it has seen the valid bit, and at once.         *)
Decode ==
  /\ state = "WAIT_INSTR" /\ words = 0
  /\ state' = "EXECUTE"
  /\ op' \in IF mode = "program" THEN ProgramOps
             ELSE IF seen THEN {"data", "alu", "jump"} ELSE StubOps \ {"data"}
  /\ UNCHANGED << words, mode, dbg_halt_mask, seen, got, nested >>

dbg_halt_accepted == state = "EXECUTE" /\ uart_break /\ ~dbg_halt_mask

(* A debug halt or an EBREAK enters the stub, from its start.               *)
Trap ==
  /\ state = "EXECUTE"
  /\ dbg_halt_accepted \/ op = "ebreak"
  /\ state' = "FETCH" /\ words' = 0
  /\ mode' = "stub"
  /\ dbg_halt_mask' = (dbg_halt_mask \/ dbg_halt_accepted)
  /\ nested' = (nested \/ mode = "stub")
  /\ seen' = FALSE
  /\ UNCHANGED << op, got >>

Stall ==
  /\ state = "EXECUTE" /\ op = "wfi" /\ ~uart_break
  /\ UNCHANGED coreVars

Execute ==
  /\ state = "EXECUTE"
  /\ ~dbg_halt_accepted /\ op # "ebreak"
  /\ op = "wfi" => uart_break
  /\ IF waits THEN state' = "WAIT" /\ words' = 0
     ELSE NextFetch(IF op \in {"jump", "mret"} THEN 2 ELSE 1)
  /\ mode' = IF op = "mret" THEN "program" ELSE mode
  /\ dbg_halt_mask' = (dbg_halt_mask /\ op # "mret")
  /\ UNCHANGED << op, seen, got, nested >>

Wait(input) ==
  /\ state = "WAIT"
  /\ NextFetch(1)
  /\ got' = IF op = "data" THEN Append(got, data(input)) ELSE got
  /\ seen' = IF op \in {"status", "data"} THEN op = "status" /\ valid(input) ELSE seen
  /\ UNCHANGED << op, mode, dbg_halt_mask, nested >>

Core(input) ==
  \/ Fetch
  \/ SecondWord
  \/ Decode
  \/ Trap
  \/ Stall
  \/ Execute
  \/ Wait(input)

----------------------------------------------------------------------------
(* The bridge, after the edge.                                             *)

(* A byte for which the socket has no room is dropped; an error closes it.  *)
tcp_write(input, result) ==
  /\ result \in IF tx_valid' /\ input # "eof" THEN {"done", "error"} ELSE {"done"}
  /\ delivered' = IF tx_valid' THEN 1 - delivered ELSE delivered

Disconnected(input, result) == input = "eof" \/ result = "error"

(* Mutant: the line goes up again one pass early.                          *)
BreakOnePassShort(input, result) ==
  IF Disconnected(input, result) \/ input = "ctrl_c" THEN BreakPasses - 1 ELSE driven

next_break_cycles(input, result) ==
  IF Disconnected(input, result) \/ input = "ctrl_c" THEN BreakPasses ELSE driven

----------------------------------------------------------------------------
Init ==
  /\ break_cycles = BreakPasses /\ brk_cnt = 0
  /\ rx_data = 0 /\ rx_valid = FALSE
  /\ tx_valid = FALSE
  /\ state = "WAIT" /\ words = 0 /\ op = "alu"
  /\ mode = "program" /\ dbg_halt_mask = FALSE
  /\ seen = FALSE
  /\ fed = 0 /\ got = << >>
  /\ stored = 0 /\ delivered = 0
  /\ asked = TRUE /\ nested = FALSE

Pass(input, result) ==
  /\ input \in tcp_try_read
  /\ Uart(input)
  /\ Core(input)
  /\ tcp_write(input, result)
  /\ fed' = IF input = "byte" THEN fed + 1 ELSE fed
  /\ break_cycles' = next_break_cycles(input, result)
  /\ asked' = (mode' = "program"
               /\ (asked \/ input = "ctrl_c" \/ Disconnected(input, result)))

Next ==
  \E input \in {"nothing", "eof", "ctrl_c", "byte"}, result \in {"done", "error"} :
    Pass(input, result)

Spec == Init /\ [][Next]_bridgeVars

----------------------------------------------------------------------------
(* Properties.                                                             *)

(* The bridge writes the UART's registers while the stub reads them:       *)
(* nevertheless the stub receives the debugger's bytes in order, each once *)
(* (debug.md 8.1), until a break interrupts the stub itself.  And though    *)
(* the output register is looked at once a pass only, every byte the stub  *)
(* stores is taken for the socket, and none twice.                         *)
BytesPass ==
  LET inFlight == IF state = "WAIT" /\ op = "data" THEN << rx_data >> ELSE << >>
      waiting  == IF rx_valid THEN << rx_data >> ELSE << >>
  IN /\ nested \/ got \o inFlight \o waiting = [i \in 1 .. fed |-> i]
     /\ stored = delivered

(* A break asked for while the program runs halts it before the line is    *)
(* idle again: the detector is full on five edges, and the longest way      *)
(* from one S_EXECUTE to the next is five.                                 *)
BreakHalts == asked => break_cycles > 0

=============================================================================
