------------------------------- MODULE AttoAhbl -------------------------------
(***************************************************************************)
(* The AHB-Lite master wrapper, rtl/attorv32_ahbl.v, between the memory    *)
(* port of the core and an AHB-Lite slave.  One step is one HCLK edge.     *)
(*                                                                         *)
(* Of the core only what drives the port is kept: its FSM, the class of    *)
(* the instruction it holds, the address and the data it would put on the  *)
(* port.  AttoCore is the whole of it.  The slave samples an address phase *)
(* when HREADY is high and answers it in the data phase that follows.      *)
(* HSIZE and the byte lanes are left out: an access is to a word.          *)
(***************************************************************************)
EXTENDS Naturals, Sequences

CONSTANTS
  Addr, Data,
  Setups        (* slaves and programs to check                            *)

(* A setup: the most wait states the slave gives a read's data phase and a  *)
(* write's, whether a fetch may be skipped (compressed code), and whether  *)
(* an NMI or a debug halt may cut an access short.                         *)
ASSUME AhbAssumption ==
  Setups \subseteq [reads : Nat, writes : Nat, skips : BOOLEAN, cuts : BOOLEAN]

(* More than two stores that have not landed are not told apart.            *)
DueBound == 2

NoTransfer == [kind |-> "none"]
Transfer   == [kind : {"read", "write"}, addr : Addr]

VARIABLES
  setup,
  core, op, addr, mem_wdata,         (* core: FSM state, instruction, operands *)
  skip_fetch,                        (* core: the next fetch is skipped        *)
  reading,                           (* core: a read is taken, not sampled     *)
  cut,                               (* an access cut short occupies the wrapper *)
  state, HTRANS, HADDR, HWRITE, is_write_d, mem_rdata,
  HREADY, data_phase, waits, mem,    (* slave; wait states of this data phase  *)
  due                                (* stores strobed that have not landed    *)

coreSide  == << core, op, addr, mem_wdata, skip_fetch, reading >>
master    == << state, HTRANS, HADDR, HWRITE, is_write_d, mem_rdata >>
slave     == << HREADY, data_phase, waits, mem >>
ahbVars   == << setup, coreSide, cut, master, slave, due >>

AhbTypeOK ==
  /\ setup \in Setups
  /\ core \in {"FETCH_INSTR", "WAIT_INSTR", "EXECUTE", "WAIT"}
  /\ op \in {"alu", "load", "store"} /\ addr \in Addr /\ mem_wdata \in Data
  /\ skip_fetch \in BOOLEAN /\ reading \in BOOLEAN /\ cut \in BOOLEAN
  /\ state \in {"IDLE", "DATA"} /\ HTRANS \in {"IDLE", "NONSEQ"}
  /\ HADDR \in Addr /\ HWRITE \in BOOLEAN /\ is_write_d \in BOOLEAN
  /\ mem_rdata \in Data
  /\ HREADY \in BOOLEAN /\ data_phase \in Transfer \cup {NoTransfer}
  /\ waits \in Nat /\ mem \in [Addr -> Data]
  /\ due \in Seq(Addr \X Data) /\ Len(due) <= DueBound

ReadWaits  == setup.reads
WriteWaits == setup.writes
Skips      == setup.skips
Cuts       == setup.cuts

(* The setups in which the wrapper's stores are safe.                      *)
SlaveKeepsUp ==
  /\ ReadWaits <= 1
  /\ WriteWaits = 0 \/ (~Skips /\ ~Cuts)

----------------------------------------------------------------------------
(* The port.                                                               *)

mem_rstrb == core = "FETCH_INSTR" \/ (core = "EXECUTE" /\ op = "load")
mem_wstrb == core = "EXECUTE" /\ op = "store"
cpu_req   == mem_rstrb \/ mem_wstrb

(* Mutant: a read does not wait for HREADY.                                *)
ReadIgnoresHready == state = "IDLE" /\ mem_rstrb

mem_rbusy == IF state = "IDLE" THEN mem_rstrb ELSE ~HREADY /\ ~is_write_d
mem_wbusy == IF state = "IDLE" THEN mem_wstrb ELSE ~HREADY /\ is_write_d

----------------------------------------------------------------------------
(* The core.  Instruction and operands change only when S_WAIT_INSTR ends;  *)
(* the next instruction may be in the word at hand; an NMI or a debug halt  *)
(* does not wait.                                                          *)

AfterInstr(skip) == IF skip THEN "WAIT_INSTR" ELSE "FETCH_INSTR"

CoreFetch ==
  /\ core = "FETCH_INSTR"
  /\ core' = "WAIT_INSTR"
  /\ reading' = (state = "IDLE")
  /\ UNCHANGED << op, addr, mem_wdata, skip_fetch >>

CoreWaitInstr ==
  /\ core = "WAIT_INSTR"
  /\ IF mem_rbusy THEN UNCHANGED coreSide
     ELSE /\ core' = "EXECUTE"
          /\ op' \in {"alu", "load", "store"}
          /\ addr' \in Addr
          /\ mem_wdata' \in Data
          /\ reading' = FALSE
          /\ UNCHANGED skip_fetch

CoreExecute ==
  /\ core = "EXECUTE"
  /\ skip_fetch' \in BOOLEAN /\ (skip_fetch' => Skips)
  /\ \/ op = "alu" /\ core' = AfterInstr(skip_fetch')
     \/ op # "alu" /\ core' = "WAIT"
     \/ op # "alu" /\ Cuts /\ core' = "FETCH_INSTR" /\ ~skip_fetch'
  /\ addr' \in IF core' = "WAIT" THEN {addr} ELSE Addr
  /\ reading' = (op = "load" /\ state = "IDLE")
  /\ UNCHANGED << op, mem_wdata >>

(* The next fetch is for another address.                                  *)
CoreWait ==
  /\ core = "WAIT"
  /\ IF mem_rbusy \/ mem_wbusy THEN UNCHANGED coreSide
     ELSE /\ core' = AfterInstr(skip_fetch)
          /\ addr' \in Addr
          /\ reading' = FALSE
          /\ UNCHANGED << op, mem_wdata, skip_fetch >>

CoreStep == CoreFetch \/ CoreWaitInstr \/ CoreExecute \/ CoreWait

----------------------------------------------------------------------------
(* The wrapper.                                                            *)

Accept ==
  /\ HTRANS' = "NONSEQ"
  /\ HADDR' = addr /\ HWRITE' = mem_wstrb /\ is_write_d' = mem_wstrb
  /\ state' = "DATA"

MasterIdle ==
  /\ state = "IDLE"
  /\ \/ cpu_req /\ Accept
     \/ /\ ~cpu_req
        /\ HTRANS' = "IDLE"
        /\ UNCHANGED << state, HADDR, HWRITE, is_write_d >>
  /\ UNCHANGED mem_rdata

(* HRDATA means something only at the end of a read's data phase.           *)
HRDATA == IF data_phase.kind = "read" /\ HREADY THEN {mem[data_phase.addr]} ELSE Data

(* Mutants: a write never ends; the phase ends without HREADY.            *)
EndReadsOnly ==
  /\ HTRANS' = "IDLE"
  /\ state' = IF HREADY /\ ~is_write_d THEN "IDLE" ELSE "DATA"

EndWithoutHready ==
  /\ HTRANS' = "IDLE"
  /\ state' = "IDLE"

EndPhase ==
  /\ HTRANS' = "IDLE"
  /\ state' = IF HREADY THEN "IDLE" ELSE "DATA"

MasterData ==
  /\ state = "DATA"
  /\ EndPhase
  /\ IF HREADY /\ ~is_write_d THEN mem_rdata' \in HRDATA ELSE UNCHANGED mem_rdata
  /\ UNCHANGED << HADDR, HWRITE, is_write_d >>

----------------------------------------------------------------------------
(* The slave.  It may hold HREADY low only in a data phase of its own.      *)

Landing == HREADY /\ data_phase.kind = "write"

SlaveStep ==
  /\ mem' = IF Landing THEN [mem EXCEPT ![data_phase.addr] = mem_wdata] ELSE mem
  /\ data_phase' =
       IF ~HREADY THEN data_phase
       ELSE IF HTRANS = "IDLE" THEN NoTransfer
       ELSE [kind |-> IF HWRITE THEN "write" ELSE "read", addr |-> HADDR]
  /\ \/ HREADY' = TRUE /\ waits' = 0
     \/ /\ HREADY' = FALSE
        /\ waits' = (IF HREADY THEN 0 ELSE waits) + 1
        /\ \/ data_phase'.kind = "read" /\ waits' <= ReadWaits
           \/ data_phase'.kind = "write" /\ waits' <= WriteWaits

----------------------------------------------------------------------------
(* Histories.                                                              *)

CutShort ==
  cut' = /\ state' = "DATA"
         /\ cut \/ (core = "EXECUTE" /\ op # "alu" /\ core' = "FETCH_INSTR")

Account ==
  LET rest == IF Landing /\ due # << >> THEN Tail(due) ELSE due
  IN due' = IF mem_wstrb /\ Len(rest) < DueBound
              THEN Append(rest, << addr, mem_wdata >>) ELSE rest

----------------------------------------------------------------------------

Clock ==
  /\ CoreStep
  /\ MasterIdle \/ MasterData
  /\ SlaveStep
  /\ CutShort
  /\ Account
  /\ UNCHANGED setup

AhbReset ==
  /\ core' = "WAIT" /\ skip_fetch' = FALSE /\ reading' = FALSE /\ cut' = FALSE
  /\ state' = "IDLE" /\ HTRANS' = "IDLE" /\ HADDR' \in Addr
  /\ HWRITE' = FALSE /\ is_write_d' = FALSE
  /\ HREADY' = TRUE /\ data_phase' = NoTransfer /\ waits' = 0
  /\ due' = << >>
  /\ UNCHANGED << setup, op, addr, mem_wdata, mem_rdata, mem >>

AhbNext == Clock \/ AhbReset

AhbInit ==
  /\ setup \in Setups
  /\ core = "WAIT" /\ op \in {"alu", "load", "store"} /\ addr \in Addr
  /\ mem_wdata \in Data /\ skip_fetch = FALSE /\ reading = FALSE /\ cut = FALSE
  /\ state = "IDLE" /\ HTRANS = "IDLE" /\ HADDR \in Addr /\ HWRITE = FALSE
  /\ is_write_d = FALSE /\ mem_rdata \in Data
  /\ HREADY = TRUE /\ data_phase = NoTransfer /\ waits = 0 /\ mem \in [Addr -> Data]
  /\ due = << >>

AhbSpec == AhbInit /\ [][AhbNext]_ahbVars

----------------------------------------------------------------------------
(* Properties.                                                             *)

(* In a setup that keeps up every write transfer lands the oldest store the *)
(* core has strobed, at its address and with its data, though HWDATA is the *)
(* core's own mem_wdata and the core has moved on by then.  "HWDATA is only *)
(* valid in the data phase of a write; the CPU already has byte-replicated *)
(* data, so we forward mem_wdata" (attorv32_ahbl.v:98-99).                  *)
StoresLand ==
  SlaveKeepsUp /\ Landing => due # << >> /\ Head(due) = << data_phase.addr, mem_wdata >>

(* There a store has landed before the next instruction executes, so that a *)
(* load or a fetch that follows sees it.                                   *)
StoresSettle == SlaveKeepsUp /\ core = "EXECUTE" => due = << >>

(* The core strobes only when the wrapper can take the request: it has no   *)
(* place for a second one, and would drop it.  It does drop what comes      *)
(* while an access that the core did not wait for still occupies it.        *)
RequestsTaken == cpu_req /\ ~cut => state = "IDLE"

(* "After the address phase, go back to IDLE on the bus"                    *)
(* (attorv32_ahbl.v:133): a slave that is busy with the transfer before it  *)
(* (HREADY low) has not taken the address phase yet.                        *)
AddressPhaseTaken == [][Clock /\ HTRANS = "NONSEQ" /\ HTRANS' = "IDLE" => HREADY]_ahbVars

(* The same of the data phase (attorv32_ahbl.v:98-99): while the slave      *)
(* stretches it, HWDATA stays.                                             *)
HwdataHeld ==
  [][Clock /\ data_phase.kind = "write" /\ ~HREADY => mem_wdata' = mem_wdata]_ahbVars

(* "We hold mem_rbusy / mem_wbusy high from the cycle the CPU issues the    *)
(* request until HREADY=1 in the data phase. On that cycle we latch HRDATA  *)
(* and drop busy so the CPU advances next edge" (attorv32_ahbl.v:147-149):  *)
(* what the core samples is what the slave holds at the address it asked.  *)
ReadAnswered ==
  reading /\ core \in {"WAIT_INSTR", "WAIT"} /\ ~mem_rbusy => mem_rdata = mem[HADDR]

=============================================================================
