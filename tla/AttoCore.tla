------------------------------- MODULE AttoCore -------------------------------
(***************************************************************************)
(* The AttoRV32 core of rtl/attorv32.v at its clock edges: the front end   *)
(* of AttoFetch completed with what S_EXECUTE and S_WAIT really do, the    *)
(* trap unit (IRQ, NMI, debug halt, ECALL/EBREAK, MRET, WFI), the CSRs,    *)
(* the multi-cycle ALU handshake and the write-back of results.            *)
(*                                                                         *)
(* Data is abstract.  An instruction is known by its class; what its       *)
(* operands would decide (a jump's target, a branch's direction, the word  *)
(* a load or store touches) is any element of Target.                      *)
(***************************************************************************)
EXTENDS AttoFetch

CONSTANTS
  OpOf,      (* class of the instruction a parcel begins                   *)
  Target,    (* addresses it may jump to, access, or write to mepc         *)
  MTVEC,     (* MTVEC_ADDR                                                 *)
  HandlerCode, (* addresses of the trap handler's instructions             *)
  Sources,   (* request inputs that are connected, of "irq", "nmi", "dbg"  *)
  MayReset   (* whether reset may be asserted again after power-up         *)

Ops == {"alu", "load", "store", "muldiv", "jump", "branch", "mret", "ecall",
        "ebreak", "wfi", "mie_set", "mie_clear", "csrw_mepc"}

ASSUME CoreAssumption ==
  /\ OpOf \in [Parcels -> Ops]
  /\ Target \in [Parcels -> SUBSET Addr]
  /\ \A p \in Parcels : OpOf[p] = "store" => \A a \in Target[p] : a.word \in StoreWords
  /\ MTVEC \in Addr
  /\ HandlerCode \subseteq Addr
  /\ Sources \subseteq {"irq", "nmi", "dbg"}
  /\ MayReset \in BOOLEAN

VARIABLES
  lines,                                  (* request inputs now high        *)
  mepc, mstatus,
  mcause, mcause_irq, mcause_ecall, mcause_nmi,
  dbg_halt_mask,
  alu_busy,                               (* aluBusy                        *)
  rd_ok,    (* the last write-back wrote the instruction's true result      *)
  retired,  (* instret pulses since the last instruction was latched        *)
  latched,  (* since reset, an instruction has been latched                 *)
  overlap,  (* an IRQ has been accepted on it, and it waits all the same    *)
  cut,      (* since reset, an NMI or a debug halt has been accepted on an  *)
            (* instruction that waits, with no IRQ beside it                *)
  nested    (* since reset, a debug halt has been accepted in a handler     *)

csrVars  == << mepc, mstatus, mcause, mcause_irq, mcause_ecall, mcause_nmi,
               dbg_halt_mask >>
countVars == << retired, latched, overlap >>
harmVars == << cut, nested >>
coreVars == << fetchVars, lines, csrVars, alu_busy, rd_ok, countVars, harmVars >>

CoreTypeOK ==
  /\ FetchTypeOK
  /\ lines \subseteq Sources
  /\ mepc \in Addr
  /\ mstatus \in BOOLEAN
  /\ mcause \in BOOLEAN
  /\ mcause_irq \in BOOLEAN
  /\ mcause_ecall \in BOOLEAN
  /\ mcause_nmi \in BOOLEAN
  /\ dbg_halt_mask \in BOOLEAN
  /\ alu_busy \in BOOLEAN
  /\ rd_ok \in BOOLEAN
  /\ retired \in 0 .. 2
  /\ latched \in BOOLEAN
  /\ overlap \in BOOLEAN
  /\ cut \in BOOLEAN
  /\ nested \in BOOLEAN

----------------------------------------------------------------------------
(* Decoded instruction.  "muldiv" stands for every ALU operation that      *)
(* waits for aluBusy: divide, serial shift, serial multiply.               *)

op == OpOf[instr.first]

needToWait  == op \in {"load", "store", "muldiv"}
is_env_trap == op \in {"ecall", "ebreak"}

After(i, a) == IF i.second = NoParcel THEN Plus2(a) ELSE Plus4(a)

PCinc == After(instr, PC)

(* The values PC_new may have.                                             *)
PC_new ==
  CASE op = "jump"   -> Target[instr.first]
    [] op = "branch" -> Target[instr.first] \cup {PCinc}
    [] op = "mret"   -> {mepc}
    [] OTHER         -> {PCinc}

----------------------------------------------------------------------------
(* Trap acceptance.                                                        *)

(* Mutants: an IRQ that nests, and one sampled in the wrong state.          *)
IrqNests   == state = "EXECUTE" /\ "irq" \in lines /\ mstatus
IrqMissed  == state = "WAIT_INSTR" /\ "irq" \in lines /\ mstatus /\ ~mcause

interrupt_accepted ==
  state = "EXECUTE" /\ "irq" \in lines /\ mstatus /\ ~mcause

(* Mutant: an NMI that nests.                                              *)
NmiNests == state = "EXECUTE" /\ "nmi" \in lines

nmi_accepted == state = "EXECUTE" /\ "nmi" \in lines /\ ~mcause

dbg_halt_accepted == state = "EXECUTE" /\ "dbg" \in lines /\ ~dbg_halt_mask

env_trap_accepted == state = "EXECUTE" /\ is_env_trap /\ ~mcause

async_accepted == interrupt_accepted \/ nmi_accepted \/ dbg_halt_accepted

trap_entry == async_accepted \/ env_trap_accepted

(* Mutant: a debug request does not wake the core.                         *)
WfiDeafToDebug == state = "EXECUTE" /\ op = "wfi" /\ lines \subseteq {"dbg"}

wfi_stall == state = "EXECUTE" /\ op = "wfi" /\ lines = {}

(* What software reads in the mcause CSR.                                  *)
mcause_read ==
  CASE ~mcause -> "none"
    [] mcause /\ mcause_nmi -> "nmi"
    [] mcause /\ ~mcause_nmi /\ mcause_irq -> "irq"
    [] mcause /\ ~mcause_nmi /\ ~mcause_irq ->
         IF mcause_ecall THEN "ecall" ELSE "breakpoint"

----------------------------------------------------------------------------
(* The clocked CSRs, in S_EXECUTE.  t is PC_new.                           *)

next_mstatus ==
  CASE op = "mie_set"   -> TRUE
    [] op = "mie_clear" -> FALSE
    [] OTHER            -> mstatus

(* Mutant: an IRQ too returns to the instruction it interrupted.           *)
MepcAlwaysPC(t) ==
  IF trap_entry THEN {PC}
  ELSE IF op = "csrw_mepc" THEN Target[instr.first]
  ELSE {mepc}

(* The hardware's write wins over the program's.                           *)
next_mepc(t) ==
  IF trap_entry THEN {IF async_accepted THEN t ELSE PC}
  ELSE IF op = "csrw_mepc" THEN Target[instr.first]
  ELSE {mepc}

(* Mutant: MRET leaves the mask set.                                       *)
MaskSurvivesMret == dbg_halt_accepted \/ dbg_halt_mask

next_mask ==
  dbg_halt_accepted \/ (dbg_halt_mask /\ op # "mret")

Csrs(t) ==
  /\ mstatus' = next_mstatus
  /\ mepc' \in next_mepc(t)
  /\ dbg_halt_mask' = next_mask
  /\ IF trap_entry
       THEN /\ mcause' = TRUE
            /\ mcause_irq' = interrupt_accepted
            /\ mcause_ecall' = (env_trap_accepted /\ op = "ecall")
            /\ mcause_nmi' = nmi_accepted
       ELSE /\ mcause' = (mcause /\ op # "mret")
            /\ UNCHANGED << mcause_irq, mcause_ecall, mcause_nmi >>

----------------------------------------------------------------------------
(* What the instruction in S_EXECUTE starts.                               *)

DataPort ==
  CASE op = "load"  -> NoWrite /\ \E a \in Target[instr.first] : Read(a.word)
    [] op = "store" -> NoRead /\ \E a \in Target[instr.first], d \in StoreData :
                                   Write(a.word, d)
    [] OTHER        -> NoAccess

AluRuns  == alu_busy' \in BOOLEAN /\ (alu_busy' => alu_busy)

AluStart == IF op = "muldiv" THEN alu_busy' \in BOOLEAN ELSE AluRuns

(* writeBack is asserted in every S_EXECUTE and S_WAIT cycle.  A load's or *)
(* a multi-cycle result is the true one only once its unit has answered.   *)
WriteBackExecute == rd_ok' = (op \notin {"load", "muldiv"})

WriteBackWait ==
  rd_ok' = CASE op = "load"   -> ~mem_rbusy
             [] op = "muldiv" -> ~alu_busy
             [] OTHER         -> TRUE

(* Mutant: S_WAIT does not wait for the ALU.                               *)
WaitsForBusOnly == mem_rbusy \/ mem_wbusy

waiting == alu_busy \/ mem_rbusy \/ mem_wbusy

(* Mutants: a pulse in every cycle of S_WAIT, and none for the access an    *)
(* NMI cuts short.                                                         *)
RetiredEachWait ==
  \/ state = "EXECUTE" /\ (needToWait => trap_entry) /\ ~wfi_stall
  \/ state = "WAIT"

RetiredWithoutTraps ==
  \/ state = "EXECUTE" /\ ~needToWait /\ ~wfi_stall
  \/ state = "WAIT" /\ ~waiting

instr_retired ==
  \/ state = "EXECUTE" /\ ~needToWait /\ ~wfi_stall
  \/ state = "EXECUTE" /\ needToWait /\ trap_entry
  \/ state = "WAIT" /\ ~waiting

Count == retired' = IF instr_retired THEN retired + 1 ELSE retired

(* Requests come and go, except that an IRQ is held until it is accepted.  *)
Requests ==
  /\ lines' \in SUBSET Sources
  /\ "irq" \in lines /\ ~interrupt_accepted => "irq" \in lines'

----------------------------------------------------------------------------
(* Actions, one per FSM state and way out of it.                           *)

Fetching == UNCHANGED << csrVars, rd_ok, harmVars >> /\ AluRuns /\ Requests

Fetch == FetchInstr /\ Fetching /\ UNCHANGED countVars

AwaitInstr == InstrBusy /\ Fetching /\ UNCHANGED countVars

LatchInstr ==
  /\ InstrAnswered
  /\ Fetching
  /\ IF state' = "FETCH_INSTR"
       THEN UNCHANGED countVars
       ELSE retired' = 0 /\ latched' = TRUE /\ overlap' = FALSE

ReadRs2 == FetchRs2 /\ Fetching /\ UNCHANGED countVars

Sleep ==
  /\ wfi_stall
  /\ NoAccess
  /\ AluRuns
  /\ Requests
  /\ UNCHANGED << frontVars, csrVars, rd_ok, countVars, harmVars >>

Starts ==
  /\ DataPort /\ AluStart /\ WriteBackExecute /\ Requests
  /\ Count /\ UNCHANGED latched

(* Mutant: a trap never goes through S_WAIT.                               *)
TrapNeverWaits == FALSE

TrapWaits == needToWait /\ interrupt_accepted

TakeTrap ==
  /\ state = "EXECUTE"
  /\ ~wfi_stall
  /\ trap_entry
  /\ Vector(MTVEC, TrapWaits)
  /\ \E t \in PC_new : Csrs(t)
  /\ Starts
  /\ overlap' = (overlap \/ TrapWaits)
  /\ cut' = (cut \/ (needToWait /\ ~interrupt_accepted))
  /\ nested' = (nested \/ (mcause /\ dbg_halt_accepted))

Complete ==
  /\ state = "EXECUTE"
  /\ ~trap_entry
  /\ ~wfi_stall
  /\ \E t \in PC_new : GoOn(t, needToWait) /\ Csrs(t)
  /\ Starts
  /\ UNCHANGED << overlap, harmVars >>

InWait ==
  /\ WriteBackWait
  /\ Count
  /\ NoAccess
  /\ AluRuns
  /\ Requests
  /\ UNCHANGED << csrVars, latched, overlap, harmVars >>

WaitOn ==
  /\ state = "WAIT"
  /\ waiting
  /\ InWait
  /\ UNCHANGED frontVars

WaitDone ==
  /\ state = "WAIT"
  /\ ~waiting
  /\ InWait
  /\ LeaveWait

(* mepc has no reset: a trap accepted in the same cycle still writes it.    *)
Reset ==
  /\ MayReset
  /\ CASE state = "FETCH_INSTR" -> Read(mem_addr) /\ NoWrite
       [] state = "EXECUTE"     -> DataPort
       [] OTHER                 -> NoAccess
  /\ ResetFront
  /\ IF state = "EXECUTE" THEN \E t \in PC_new : mepc' \in next_mepc(t)
                          ELSE UNCHANGED mepc
  /\ mstatus' = FALSE
  /\ mcause' = FALSE
  /\ mcause_irq' = FALSE
  /\ mcause_ecall' = FALSE
  /\ mcause_nmi' = FALSE
  /\ dbg_halt_mask' = FALSE
  /\ IF state = "EXECUTE" THEN AluStart ELSE AluRuns
  /\ rd_ok' = FALSE
  /\ retired' = 0
  /\ latched' = FALSE
  /\ overlap' = FALSE
  /\ cut' = FALSE
  /\ nested' = FALSE
  /\ Requests

Tick ==
  \/ Fetch \/ AwaitInstr \/ LatchInstr \/ ReadRs2
  \/ Sleep \/ TakeTrap \/ Complete \/ WaitOn \/ WaitDone

Next == Tick \/ Reset

Init ==
  /\ FetchInit
  /\ lines = {}
  /\ mepc \in {PC, MTVEC}
  /\ mstatus = FALSE
  /\ mcause = FALSE
  /\ mcause_irq = FALSE
  /\ mcause_ecall = FALSE
  /\ mcause_nmi = FALSE
  /\ dbg_halt_mask = FALSE
  /\ alu_busy \in BOOLEAN
  /\ rd_ok = FALSE
  /\ retired = 0
  /\ latched = FALSE
  /\ overlap = FALSE
  /\ cut = FALSE
  /\ nested = FALSE

Spec == Init /\ [][Next]_coreVars

(* The clock runs, and every unit the core waits for answers.  Asleep in   *)
(* WFI the core does nothing, and nobody has to wake it.                   *)
Fairness ==
  /\ WF_coreVars(Tick /\ ~wfi_stall)
  /\ WF_coreVars(Tick /\ mem_rbusy /\ ~mem_rbusy')
  /\ WF_coreVars(Tick /\ mem_wbusy /\ ~mem_wbusy')
  /\ WF_coreVars(Tick /\ alu_busy /\ ~alu_busy')

FairSpec == Spec /\ Fairness

----------------------------------------------------------------------------
(* Properties.  cut and nested are the two ways an NMI or a debug halt      *)
(* breaks what the maskable IRQ alone cannot.                              *)

(* No instruction is fetched, latched (which reads the register file) or    *)
(* executed before the previous one's result is in its register.           *)
ResultCommitted == state # "WAIT" /\ ~cut => rd_ok

(* The core fetches as AttoFetch specifies, and executes what memory holds  *)
(* at PC, until an access is cut short.                                    *)
ImplementsFetch == FetchInit /\ [][~cut' => FetchNext]_fetchVars

FetchIntact == ~cut => FetchCorrect /\ StrobeOnlyWhenIdle

(* The programs the next property is about.  Code is where a program's      *)
(* instructions are: main, which reset leads into, and the handler, which   *)
(* only traps lead into and only MRET leads out of.  Where the handler     *)
(* writes mepc, main has an instruction.  Nothing is stored over them.     *)
Apart(m, Code) ==
  /\ [word |-> 0, half |-> 0] \in Code \ HandlerCode
  /\ MTVEC \in Code \cap HandlerCode
  /\ \A a \in Code :
       LET i    == InstrIn(m, a)
           o    == OpOf[i.first]
           Side == IF a \in HandlerCode THEN Code \cap HandlerCode
                                        ELSE Code \ HandlerCode
       IN /\ Stable(a)
          /\ o \notin {"jump", "mret"} => After(i, a) \in Side
          /\ o \in {"jump", "branch"} => Target[i.first] \subseteq Side
          /\ o = "mret" => a \in HandlerCode
          /\ o = "csrw_mepc" /\ a \in HandlerCode =>
               Target[i.first] \subseteq Code \ HandlerCode

HandlerApart == \A m \in Images : \E Code \in SUBSET Addr : Apart(m, Code)

(* The handler runs with the lock held: no IRQ, NMI or environment trap can *)
(* re-enter it before its MRET ("cannot nest into an active handler",       *)
(* attorv32.v:16).                                                         *)
LockedInHandler ==
  state = "EXECUTE" /\ PC \in HandlerCode /\ ~nested /\ ~cut => mcause

(* The debug mask and the handler lock agree: debug requests are masked     *)
(* only inside a handler, so an MRET always reopens them.                  *)
MaskImpliesLocked == dbg_halt_mask => mcause

(* How often instret counts: between two instructions there is exactly one  *)
(* pulse, whatever trap, wait or sleep lies between them, but for the       *)
(* instruction that an IRQ meets and that waits all the same, which pulses  *)
(* in S_EXECUTE and again on leaving S_WAIT (attorv32.v:631-634).           *)
RetiredExactly ==
  state \in {"FETCH_INSTR", "WAIT_INSTR"} => retired = IF overlap THEN 2 ELSE 1

(* "Instruction retirement: fires once per completed instruction"          *)
(* (attorv32.v:626).                                                       *)
RetiredOnce == state \in {"FETCH_INSTR", "WAIT_INSTR"} => retired = 1

(* The same sentence of the first pulse: it is some instruction's.          *)
PulseHasInstruction == retired > 0 => latched

(* What a handler reads of its trap survives until its MRET: while the lock *)
(* is held only a debug halt changes the cause, and only it or the program *)
(* itself the return address.                                              *)
TrapStateSurvives ==
  [][mcause /\ mcause' => \/ nested'
                          \/ /\ mcause_read' = mcause_read
                             /\ mepc' = mepc \/ op = "csrw_mepc"]_coreVars

(* An instruction that a trap interrupts is not lost: either its own trap    *)
(* returns to it (mepc is "PC (trapping instr)", README.md:164-165), or the *)
(* handler returns past it because it is complete ("PC_new (next instr)",   *)
(* README.md:161-163).                                                      *)
InterruptedInstructionKept ==
  [][TakeTrap => \/ mepc' = PC
                 \/ ~env_trap_accepted /\ (needToWait => state' = "WAIT")]_coreVars

(* An IRQ that the program lets through is served, whatever NMIs and debug  *)
(* halts come before it.                                                   *)
IrqServed ==
  []~cut => (("irq" \in lines /\ mstatus) ~> (~mstatus \/ (mcause /\ mcause_irq)))

(* A debug request that is held halts the core, in whatever state it is:   *)
(* IRQs off, inside a handler, asleep in WFI, waiting for the bus.          *)
HaltServed == "dbg" \in lines ~> (dbg_halt_mask \/ "dbg" \notin lines)

=============================================================================
