-------------------------------- MODULE DbgSoc --------------------------------
(***************************************************************************)
(* The debug SoC of rtl/attorv32_dbg.v: the core of AttoCore with its      *)
(* debug request wired to the hardware breakpoint unit (rtl/hw_bkpt.v) and *)
(* to the break detector of the UART.  One step is one clock edge.         *)
(*                                                                         *)
(* Loads and stores of the instructions in RegsOf go to the breakpoint     *)
(* registers.  Of the UART only its break output is here; the RAM and the  *)
(* stub ROM answer at once and are the memory of AttoCore.                 *)
(***************************************************************************)
EXTENDS AttoCore

CONSTANTS
  Slots,      (* breakpoint slots, 0 .. N - 1                              *)
  RegsOf,     (* breakpoint registers a load or store may address          *)
  BpTargets   (* addresses the program writes to BP_ADDR                   *)

Regs == {"BP_CTRL", "BP_HIT", "BP_COUNT"} \cup Slots

ASSUME SocAssumption ==
  /\ Slots \cap {"BP_CTRL", "BP_HIT", "BP_COUNT", "none"} = {} /\ Slots # {}
  /\ RegsOf \in [Parcels -> SUBSET Regs]
  /\ BpTargets \subseteq Addr
  /\ WaitStates = FALSE /\ Sources \subseteq {"irq", "dbg"}

VARIABLES
  bp_addr, bp_en, bp_hit, halt_req,
  uart_break,
  reg,        (* breakpoint register loaded by the last instruction        *)
  rd_right    (* what the last load wrote to rd is that register's value   *)

bkptVars == << bp_addr, bp_en, bp_hit, halt_req >>
socVars  == << coreVars, bkptVars, uart_break, reg, rd_right >>

SocTypeOK ==
  /\ CoreTypeOK
  /\ bp_addr \in [Slots -> Addr]
  /\ bp_en \subseteq Slots /\ bp_hit \subseteq Slots
  /\ halt_req \in BOOLEAN /\ uart_break \in BOOLEAN
  /\ reg \in Regs \cup {"none"} /\ rd_right \in BOOLEAN

----------------------------------------------------------------------------
(* hw_bkpt: match, registers, halt request.                                *)

ResetAddr == [word |-> 0, half |-> 0]

match == {i \in bp_en : bp_addr[i] = PC}

Keep == UNCHANGED << bp_addr, bp_en >> /\ bp_hit' = bp_hit \cup match

(* A write of register r.  Clearing hits wins over a new one.               *)
WriteReg(r) ==
  \/ /\ r = "BP_CTRL"
     /\ bp_en' \in SUBSET Slots
     /\ bp_hit' = bp_hit \cup match
     /\ UNCHANGED bp_addr
  \/ /\ r = "BP_HIT"
     /\ \E ones \in SUBSET Slots : bp_hit' = bp_hit \ ones
     /\ UNCHANGED << bp_addr, bp_en >>
  \/ /\ r = "BP_COUNT"
     /\ Keep
  \/ /\ r \in Slots
     /\ \E a \in BpTargets : bp_addr' = [bp_addr EXCEPT ![r] = a]
     /\ bp_hit' = bp_hit \cup match
     /\ UNCHANGED bp_en

(* Mutant: the "one-cycle pulse per hit" of the header (hw_bkpt.v:46).      *)
HaltPulse == halt_req' = (match # {} /\ ~halt_req)

Halt == halt_req' = (match # {})

(* rdata is gated with rstrb, which is low when the core samples it.        *)
rstrb == state = "EXECUTE" /\ op = "load"

ReadsZero(r) ==
  \/ r = "BP_CTRL" /\ bp_en = {}
  \/ r = "BP_HIT" /\ bp_hit = {}
  \/ r \in Slots /\ bp_addr[r] = ResetAddr

ReadReg(r) == rd_right' = (rstrb \/ ReadsZero(r))

----------------------------------------------------------------------------
(* The bus as seen by the breakpoint unit.                                 *)

Accesses == state = "EXECUTE" /\ op \in {"load", "store"} /\ RegsOf[instr.first] # {}

BkptAccess ==
  \/ /\ Accesses
     /\ \E r \in RegsOf[instr.first] :
          \/ op = "store" /\ WriteReg(r) /\ reg' = "none" /\ UNCHANGED rd_right
          \/ op = "load" /\ Keep /\ reg' = r /\ ReadReg(r)
  \/ /\ ~Accesses
     /\ Keep
     /\ IF state = "WAIT" /\ reg # "none"
          THEN ReadReg(reg) /\ UNCHANGED reg
          ELSE UNCHANGED rd_right /\ reg' = IF state = "EXECUTE" THEN "none" ELSE reg

BkptReset ==
  /\ bp_addr' = [i \in Slots |-> ResetAddr]
  /\ bp_en' = {} /\ bp_hit' = {} /\ halt_req' = FALSE
  /\ reg' = "none"
  /\ UNCHANGED rd_right

(* A pulse of one cycle, or a level while the host holds the line low in   *)
(* the BENCH build.                                                        *)
Break == uart_break' \in BOOLEAN

BreakReset == uart_break' = FALSE

dbg_halt_req == uart_break \/ halt_req

----------------------------------------------------------------------------

SocTick  == Tick /\ BkptAccess /\ Halt /\ Break
SocReset == Reset /\ BkptReset /\ BreakReset

SocNext ==
  /\ SocTick \/ SocReset
  /\ "dbg" \in lines' <=> "dbg" \in Sources /\ dbg_halt_req'

SocInit ==
  /\ Init
  /\ bp_addr = [i \in Slots |-> ResetAddr]
  /\ bp_en = {} /\ bp_hit = {} /\ halt_req = FALSE
  /\ uart_break = FALSE
  /\ reg = "none" /\ rd_right = FALSE

SocSpec == SocInit /\ [][SocNext]_socVars

----------------------------------------------------------------------------
(* Properties.                                                             *)

(* The breakpoint unit's one-cycle delay is never seen: in S_EXECUTE, where *)
(* the core samples it, the request is high exactly when an enabled        *)
(* breakpoint is at PC.  So no instruction at a breakpoint completes       *)
(* unnoticed, on the fastest path into S_EXECUTE or after the store that   *)
(* armed it, and none is halted at a breakpoint that has just gone.        *)
HaltIsExact == state = "EXECUTE" => (halt_req <=> match # {})

(* BP_CTRL and BP_HIT are "R/W", BP_COUNT "reads as 4", BP_ADDR is "R/W"     *)
(* (docs/debug.md:106-113): a load from them leaves their value in rd.     *)
BpRegistersRead == state \in {"FETCH_INSTR", "WAIT_INSTR"} /\ reg # "none" => rd_right

=============================================================================
