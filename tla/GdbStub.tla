------------------------------- MODULE GdbStub -------------------------------
(***************************************************************************)
(* The GDB stub: sw/gdb_stub.c and its entry code sw/crt0_stub.S, with the *)
(* program it debugs and the core that runs both.                          *)
(*                                                                         *)
(* A step is an instruction of the program, an entry into the stub, or a   *)
(* command, from its packet to its reply, or as far as a reset or a second *)
(* entry of the stub lets it come.  The packets arrive whole; the          *)
(* line and its checksums are not here.  Exits and entries carry the frame *)
(* of crt0_stub.S: program counter and registers, one standing for all.    *)
(*                                                                         *)
(* Hardware breakpoints: the loads of BP_COUNT, BP_CTRL and BP_HIT give 0  *)
(* (module DbgSoc, BpRegistersRead), so that the loops over the slots are  *)
(* empty and hw_bp_clear_hits writes nothing.                              *)
(***************************************************************************)
EXTENDS RvProgram, FiniteSets

CONSTANTS
  NUser,      (* user slots of the table (8 in the code); 2 scratch follow  *)
  Images,     (* programs                                                  *)
  HostAddrs,  (* addresses the debugger uses: starts of instructions       *)
  HostWrites, (* << address, parcel >> it may write                        *)
  PowerUp,    (* what RAM holds of the table and of stepping at power-up   *)
  MayReset

Slots   == 1 .. NUser + 2
User    == 1 .. NUser
Scratch == NUser + 1 .. NUser + 2

(* The other fields of an unused slot are never read.                       *)
Free == [used |-> FALSE, addr |-> 0, orig |-> << >>]

Cleared == [bps |-> [i \in Slots |-> Free], stepping |-> FALSE]

ASSUME StubAssumption ==
  /\ NUser \in Nat
  /\ \A m \in Images : DOMAIN m = Addr
  /\ HostAddrs \subseteq Addr
  /\ \A w \in HostWrites : w[1] \in Addr
  /\ Cleared \in PowerUp
  /\ MayReset \in BOOLEAN

VARIABLES
  mem,        (* RAM, with what the stub has planted                       *)
  pc, reg,    (* of the core; pc = StubPC while the stub runs              *)
  g_pc, g_reg, (* g_regs, pc slot and register, while the stub runs; an     *)
              (* entry overwrites what they hold in between, which is 0 here *)
  bps, stepping,
  mask,       (* dbg_halt_mask of the core                                 *)
  reply,      (* of the last command                                       *)
  image,      (* the program as the debugger left it                       *)
  left,       (* history: instructions the last command allows, Unlimited   *)
              (* in the stub                                                *)
  raced,      (* history: a break has met an EBREAK, or the stub itself    *)
  scarred     (* history: where a command cut short was at work            *)

vars == << mem, pc, reg, g_pc, g_reg, bps, stepping, mask, reply, image, left, raced,
           scarred >>

Unlimited == 2

InStub == pc = StubPC

StubTypeOK ==
  /\ pc \in Addr \cup {StubPC} /\ g_pc \in Addr \cup {StubPC}
  /\ reg \in Addr \cup {StubValue} /\ g_reg \in Addr \cup {StubValue}
  /\ DOMAIN mem = Addr /\ DOMAIN image = Addr
  /\ \A i \in Slots : bps[i].used =>
       /\ bps[i].addr \in Addr
       /\ Len(bps[i].orig) \in {1, 2}
  /\ stepping \in BOOLEAN /\ mask \in BOOLEAN /\ raced \in BOOLEAN
  /\ left \in -1 .. Unlimited /\ scarred \subseteq Addr
  /\ ~InStub => reply = "none" /\ ~mask /\ g_pc = 0 /\ g_reg = 0
  /\ InStub => reply # "none" /\ ~stepping /\ left = Unlimited

----------------------------------------------------------------------------
(* Loads and stores of the stub.  The core ignores address bit 1 in a word *)
(* access; a store puts the low half of the word on both lanes then.       *)

LoadWord(m, a) == LET w == a - (a % 2) IN << m[w], m[w + 1] >>

StoreWord(m, a, word) ==
  LET w == a - (a % 2)
  IN [m EXCEPT ![w] = word[1], ![w + 1] = IF a = w THEN word[2] ELSE word[1]]

Store(m, a, parcels) ==
  IF Len(parcels) = 2 THEN StoreWord(m, a, parcels)
  ELSE [m EXCEPT ![a] = parcels[1]]

----------------------------------------------------------------------------
(* The breakpoint table.  A table and its memory are a pair [mem, bps].     *)

SlotsOf(scratch) == IF scratch THEN Scratch ELSE User

SetIn(t, a, slots) == \E i \in slots : t.bps[i].used /\ t.bps[i].addr = a

Full(t, slots) == \A i \in slots : t.bps[i].used

First(slots) == CHOOSE i \in slots : \A j \in slots : i <= j

Orig(m, a) == IF m[a].long THEN LoadWord(m, a) ELSE << m[a] >>

Planted(orig) == IF Len(orig) = 2 THEN ebreak ELSE << c_ebreak >>

CoveredBy(b) == IF b.used THEN b.addr .. b.addr + Len(b.orig) - 1 ELSE {}
Covered(i)   == CoveredBy(bps[i])

(* Success is SetIn afterwards; with no slot left the table stays.          *)
bp_insert(t, a, scratch) ==
  LET slots == SlotsOf(scratch)
      i     == First({j \in slots : ~t.bps[j].used})
      orig  == Orig(t.mem, a)
  IN IF SetIn(t, a, slots) \/ Full(t, slots) THEN t
     ELSE [mem |-> Store(t.mem, a, Planted(orig)),
           bps |-> [t.bps EXCEPT ![i] = [used |-> TRUE, addr |-> a, orig |-> orig]]]

Lift(t, i) ==
  IF t.bps[i].used
    THEN [mem |-> Store(t.mem, t.bps[i].addr, t.bps[i].orig), bps |-> [t.bps EXCEPT ![i] = Free]]
    ELSE t

bp_remove(t, a, scratch) ==
  IF SetIn(t, a, SlotsOf(scratch))
    THEN Lift(t, First({i \in SlotsOf(scratch) : t.bps[i].used /\ t.bps[i].addr = a}))
    ELSE t

(* Mutant: only the first scratch slot is given back.                       *)
remove_first_step_bp(t) == Lift(t, NUser + 1)

remove_step_bps(t) == Lift(Lift(t, NUser + 1), NUser + 2)

----------------------------------------------------------------------------
(* Prediction of the next pc, from memory as it is, EBREAKs included, and  *)
(* from the saved registers.  A 32-bit instruction is loaded as a word.    *)

NextPcs16(m, a, ra) ==
  LET dest == Wrap(a + m[a].off)
  IN CASE m[a].kind \in {"jump", "call"} -> << dest >>
       [] m[a].kind = "branch"           -> << Wrap(a + 1), dest >>
       [] m[a].kind = "return"           -> << ra >>
       [] OTHER                          -> << Wrap(a + 1) >>

NextPcs32(m, a, ra) ==
  LET w    == LoadWord(m, a)
      dest == Wrap(a + w[2].off)
  IN CASE w[1].long /\ w[1].kind \in {"jump", "call"} -> << dest >>
       [] w[1].long /\ w[1].kind = "branch"           -> << Wrap(a + 2), dest >>
       [] w[1].long /\ w[1].kind = "return"           -> << ra >>
       [] OTHER                                       -> << Wrap(a + 2) >>

(* Mutant: the branch is taken to fall through.                             *)
next_pcs_not_taken(m, a, ra) ==
  IF m[a].kind = "branch" THEN << Wrap(a + Decode(m, a).len) >>
  ELSE IF m[a].long THEN NextPcs32(m, a, ra) ELSE NextPcs16(m, a, ra)

next_pcs(m, a, ra) == IF m[a].long THEN NextPcs32(m, a, ra) ELSE NextPcs16(m, a, ra)

PlantSteps(t, targets) ==
  LET t1 == bp_insert(t, targets[1], TRUE)
  IN IF Len(targets) = 2 THEN bp_insert(t1, targets[2], TRUE) ELSE t1

----------------------------------------------------------------------------
(* Entry and exit.                                                         *)

Table == [mem |-> mem, bps |-> bps]

PutTable(t) == mem' = t.mem /\ bps' = t.bps

SaveFrame(mepc, r) == g_pc' = mepc /\ g_reg' = r /\ pc' = StubPC /\ reg' = StubValue

(* Mutant: the flag of a step is never cleared.                             *)
entry_keeps_stepping ==
  /\ PutTable(IF stepping THEN remove_step_bps(Table) ELSE Table)
  /\ UNCHANGED stepping
  /\ reply' = "T05"

gdb_stub_entry ==
  /\ PutTable(IF stepping THEN remove_step_bps(Table) ELSE Table)
  /\ stepping' = FALSE
  /\ reply' = "T05"

EnterStub(mepc, r) ==
  /\ SaveFrame(mepc, r)
  /\ gdb_stub_entry
  /\ left' = Unlimited
  /\ UNCHANGED image

(* The last of the entry code: frame to registers, mepc, MRET.              *)
RestoreFrame(new_pc) ==
  /\ pc' = new_pc /\ reg' = g_reg
  /\ g_pc' = 0 /\ g_reg' = 0
  /\ mask' = FALSE
  /\ reply' = "none"
  /\ UNCHANGED << image, raced, scarred >>

----------------------------------------------------------------------------
(* The program runs, until a trap takes it into the stub.  Every trap does, *)
(* and the stub does not look at the cause.                                *)

Execute ==
  /\ ~InStub
  /\ \E s \in Successors(mem, pc, reg) : pc' = s[1] /\ reg' = s[2]
  /\ left' = IF left \in {0, 1} THEN left - 1 ELSE left
  /\ UNCHANGED << mem, g_pc, g_reg, bps, stepping, mask, reply, image, raced, scarred >>

(* EBREAK or ECALL, planted or of the program: mepc = PC.                   *)
Ebreak ==
  /\ ~InStub
  /\ Decode(mem, pc).kind = "trap"
  /\ EnterStub(pc, reg)
  /\ UNCHANGED << mask, raced, scarred >>

(* A debug halt or an interrupt lets the instruction finish: mepc = PC_new. *)
Halt ==
  /\ ~InStub
  /\ \E s \in Successors(mem, pc, reg) : EnterStub(s[1], s[2])
  /\ mask' \in BOOLEAN   (* debug halt, IRQ *)
  /\ UNCHANGED << raced, scarred >>

(* It takes the place of an EBREAK, whose PC_new is the next address.       *)
HaltOnEbreak ==
  /\ ~InStub
  /\ Decode(mem, pc).kind = "trap"
  /\ EnterStub(Wrap(pc + Decode(mem, pc).len), reg)
  /\ mask' \in BOOLEAN
  /\ raced' = TRUE
  /\ UNCHANGED scarred

(* A break in the stub is masked only if a debug halt has led into it.  The *)
(* second entry saves the first one's registers over the program's.        *)
HaltInStub ==
  /\ InStub /\ ~mask
  /\ EnterStub(StubPC, StubValue)
  /\ mask' = TRUE
  /\ raced' = TRUE
  /\ UNCHANGED scarred

----------------------------------------------------------------------------
(* Commands.                                                               *)

(* Commands that change nothing.  "data" is any reply of theirs but OK, E01 *)
(* and the stop reason; the unsupported commands' empty one is among them.  *)
Answers(r) ==
  /\ InStub
  /\ reply' = r
  /\ UNCHANGED << mem, pc, reg, g_pc, g_reg, bps, stepping, mask, image, left, raced, scarred >>

cmd_stop_reason == Answers("T05")
cmd_read_regs   == Answers("data")
cmd_read_mem    == Answers("data")
cmd_query       == Answers("data")

(* Z1 and z1: the loops over no slots end in -1.                            *)
hw_bp_insert    == Answers("E01")
hw_bp_remove    == Answers("E01")

(* H v and what the stub does not know.                                     *)
Others          == Answers("OK") \/ Answers("data")

cmd_write_regs ==
  /\ InStub
  /\ g_pc' \in HostAddrs /\ g_reg' \in HostAddrs
  /\ reply' = "OK"
  /\ UNCHANGED << mem, pc, reg, bps, stepping, mask, image, left, raced, scarred >>

(* The debugger lifts a breakpoint before it writes where it is.            *)
cmd_write_mem ==
  /\ InStub
  /\ \E w \in HostWrites :
       /\ w[1] \notin UNION {Covered(i) : i \in Slots}
       /\ mem' = [mem EXCEPT ![w[1]] = w[2]]
       /\ image' = [image EXCEPT ![w[1]] = w[2]]
  /\ reply' = "OK"
  /\ UNCHANGED << pc, reg, g_pc, g_reg, bps, stepping, mask, left, raced, scarred >>

cmd_insert_bp ==
  /\ InStub
  /\ \E a \in HostAddrs :
       LET t == bp_insert(Table, a, FALSE)
       IN PutTable(t) /\ reply' = IF SetIn(t, a, User) THEN "OK" ELSE "E01"
  /\ UNCHANGED << pc, reg, g_pc, g_reg, stepping, mask, image, left, raced, scarred >>

cmd_remove_bp ==
  /\ InStub
  /\ \E a \in HostAddrs :
       /\ PutTable(bp_remove(Table, a, FALSE))
       /\ reply' = IF SetIn(Table, a, User) THEN "OK" ELSE "E01"
  /\ UNCHANGED << pc, reg, g_pc, g_reg, stepping, mask, image, left, raced, scarred >>

(* c and s, with an address or without.  The way back from a second entry  *)
(* into the first, whose stack it has overwritten, is not modelled: the    *)
(* debugger sets the registers of the program first.                       *)
ResumeAddrs == IF g_pc \in Addr THEN HostAddrs \cup {g_pc} ELSE {}

cmd_continue ==
  /\ InStub
  /\ \E a \in ResumeAddrs : RestoreFrame(a)
  /\ left' = Unlimited
  /\ UNCHANGED << mem, bps, stepping >>

cmd_step ==
  /\ InStub
  /\ \E a \in ResumeAddrs :
       /\ PutTable(PlantSteps(Table, next_pcs(mem, a, g_reg)))
       /\ RestoreFrame(a)
  /\ stepping' = TRUE
  /\ left' = 1

----------------------------------------------------------------------------
(* Reset starts the program at 0.  RAM stays: the program with what is     *)
(* planted in it, table, stepping, frame.  Registers stay too; what the    *)
(* stub leaves in them, which a program does not read, is 0 here.          *)
Restart ==
  /\ MayReset
  /\ pc' = 0 /\ mask' = FALSE /\ reply' = "none" /\ left' = Unlimited
  /\ reg' = IF InStub THEN 0 ELSE reg
  /\ g_pc' = 0 /\ g_reg' = 0
  /\ UNCHANGED << stepping, image >>

Reset ==
  /\ Restart
  /\ UNCHANGED << mem, bps, raced, scarred >>

----------------------------------------------------------------------------
(* A reset, or a second entry, in the middle of a command.  A slot and what *)
(* is planted for it are two stores: the program's memory, then "used".     *)
(* bp_remove and remove_step_bps keep the same order.                      *)

Half(t, next) == [mem |-> next.mem, bps |-> t.bps]

(* The tables between the stores that lead over t1 to t2.                   *)
Between(t, t1, t2) == {Half(t, t1), t1, Half(t1, t2)}

Touched(t, next) ==
  UNION {CoveredBy(t.bps[i]) \cup CoveredBy(next.bps[i]) :
           i \in {j \in Slots : t.bps[j] # next.bps[j]}}

(* Bound: one command is cut short.                                        *)
FirstCut == scarred = {}

CutAt(cuts, next) ==
  /\ FirstCut
  /\ \E cut \in cuts : PutTable(cut)
  /\ scarred' = scarred \cup Touched(Table, next)
  /\ raced' = TRUE

(* A step also ends with a store, to stepping.                              *)
CutCommand ==
  \/ \E a \in HostAddrs :
       \E next \in {bp_insert(Table, a, FALSE), bp_remove(Table, a, FALSE)} :
         next # Table /\ CutAt({Half(Table, next)}, next)
  \/ \E a \in ResumeAddrs :
       LET targets == next_pcs(mem, a, g_reg)
           t1      == bp_insert(Table, targets[1], TRUE)
           t2      == PlantSteps(Table, targets)
       IN CutAt(Between(Table, t1, t2) \cup {t2}, t2)

ResetInCommand ==
  /\ InStub
  /\ CutCommand
  /\ Restart

HaltInCommand ==
  /\ InStub /\ ~mask
  /\ CutCommand
  /\ SaveFrame(StubPC, StubValue)
  /\ mask' = TRUE /\ reply' = "T05"
  /\ UNCHANGED << stepping, image, left >>

(* Entered after a step, before stepping = 0.                              *)
ResetInEntry ==
  /\ ~InStub /\ stepping
  /\ LET t1 == Lift(Table, NUser + 1)
         t2 == Lift(t1, NUser + 2)
     IN CutAt(Between(Table, t1, t2) \cup {t2}, t2)
  /\ Restart

Init ==
  /\ image \in Images /\ mem = image
  /\ \E ram \in PowerUp : bps = ram.bps /\ stepping = ram.stepping
  /\ pc = 0 /\ reg = 0 /\ g_pc = 0 /\ g_reg = 0
  /\ mask = FALSE /\ reply = "none" /\ left = Unlimited
  /\ raced = FALSE /\ scarred = {}

Run == Execute \/ Ebreak

Next ==
  \/ Run \/ Halt \/ HaltOnEbreak \/ HaltInStub
  \/ cmd_stop_reason \/ cmd_read_regs \/ cmd_read_mem \/ cmd_query
  \/ hw_bp_insert \/ hw_bp_remove \/ Others
  \/ cmd_write_regs \/ cmd_write_mem
  \/ cmd_insert_bp \/ cmd_remove_bp \/ cmd_continue \/ cmd_step
  \/ Reset \/ ResetInCommand \/ HaltInCommand \/ ResetInEntry

Spec == Init /\ [][Next]_vars

(* The core executes instructions.                                         *)
FairSpec == Spec /\ WF_vars(Run)

----------------------------------------------------------------------------
(* Properties.                                                             *)

(* Memory is the program with the planted EBREAKs over it, and each slot   *)
(* holds what undoes its own: user slots the program's bytes, scratch      *)
(* slots what the user slots left.  Slots at one address, removal in an    *)
(* order of its own, writes between: none may leave an EBREAK behind, or   *)
(* put back bytes the debugger has changed since.  A command that a reset  *)
(* or a second entry cuts short may, where it was at work and nowhere else. *)
Over(m, slots) ==
  [a \in Addr |->
     IF \E i \in slots : a \in Covered(i)
       THEN LET i == CHOOSE j \in slots : a \in Covered(j)
            IN Planted(bps[i].orig)[a - bps[i].addr + 1]
       ELSE m[a]]

Undoes(i, m) ==
  bps[i].used /\ Covered(i) \cap scarred = {} => bps[i].orig = Orig(m, bps[i].addr)

ProgramIntact ==
  /\ \A a \in Addr \ scarred : mem[a] = Over(image, Slots)[a]
  /\ \A i \in User : Undoes(i, image)
  /\ \A i \in Scratch : Undoes(i, Over(image, User))

(* "Remove: Find the slot, restore the saved bytes" (docs/debug.md, 3.5):   *)
(* with no breakpoint set, memory is the program.                          *)
LeavesNoTrace == (\A i \in Slots : ~bps[i].used) => mem = image

(* The debugger sees the target of DbgTarget: breakpoints are not part of  *)
(* the program, execution stops at each of them before the instruction, a  *)
(* step is one instruction, a stop reports where the program is, and       *)
(* resuming goes on from there.  All this until a break meets an EBREAK or *)
(* the stub: then the saved frame is not the program's (raced).            *)
Target == INSTANCE DbgTarget WITH
  MaxBreakpoints <- NUser,
  at      <- IF InStub THEN g_pc ELSE pc,
  ra      <- IF InStub THEN g_reg ELSE reg,
  stopped <- InStub,
  bset    <- {bps[i].addr : i \in {j \in User : bps[j].used}},
  strays  <- IF stepping /\ left = Unlimited
               THEN {bps[i].addr : i \in {j \in Scratch : bps[j].used}} ELSE {}

ImplementsTarget ==
  /\ Target!TargetInit
  /\ [][Target!TargetNext \/ raced']_Target!targetVars

(* Every step comes back to the debugger, unless a reset cuts it short, or *)
(* an earlier one has cut a command short: the slots it left stay taken.   *)
StepReturns == left = 1 /\ scarred = {} ~> InStub \/ left = Unlimited

=============================================================================
