------------------------------ MODULE DbgTarget ------------------------------
(***************************************************************************)
(* What a debugger may expect of the target (docs/debug.md, 3.3 to 3.8):   *)
(* a program, which only the debugger changes; a set of breakpoints, which *)
(* are not part of the program; and a processor that is stopped, or runs,  *)
(* or is to run one instruction.                                           *)
(***************************************************************************)
EXTENDS RvProgram, FiniteSets

CONSTANT MaxBreakpoints

VARIABLES
  image,    (* the program                                                 *)
  at,       (* address of the next instruction                             *)
  ra,
  stopped,
  bset,     (* breakpoints                                                 *)
  strays,   (* places of an unfinished step that a reset has left          *)
  left,     (* instructions to run: 1 or 0 in a step, else Unlimited       *)
  reply

targetVars == << image, at, ra, stopped, bset, strays, left, reply >>

Unlimited == 2

TargetInit ==
  /\ at \in Addr /\ ra \in Addr
  /\ stopped = FALSE /\ bset = {} /\ strays = {} /\ left = Unlimited /\ reply = "none"

----------------------------------------------------------------------------
(* The processor runs.                                                     *)

MayExecute == ~stopped /\ left # 0 /\ at \notin bset \cup strays

Move == \E s \in Successors(image, at, ra) : at' = s[1] /\ ra' = s[2]

Counted == left' = IF left = Unlimited THEN left ELSE left - 1

Execute ==
  /\ MayExecute /\ Move /\ Counted
  /\ UNCHANGED << image, stopped, bset, strays, reply >>

Stopping ==
  /\ stopped' /\ strays' = {} /\ left' = Unlimited /\ reply' = "T05"
  /\ UNCHANGED << image, bset >>

(* It stops at a breakpoint, at an EBREAK or ECALL of the program, and     *)
(* after one step.  A step from an instruction to itself is a special case: *)
(* it may stop where it is, without a turn of the loop.                    *)
Stop ==
  /\ ~stopped
  /\ \/ at \in bset \cup strays
     \/ Decode(image, at).kind = "trap"
     \/ left = 0
     \/ left = 1 /\ \E s \in Successors(image, at, ra) : s[1] = at
  /\ Stopping
  /\ UNCHANGED << at, ra >>

(* A request from outside lets the instruction finish.                     *)
HaltOutside == MayExecute /\ Move /\ Stopping

----------------------------------------------------------------------------
(* The debugger's commands.                                                *)

SetRegs ==
  /\ stopped
  /\ at' \in Addr /\ ra' \in Addr /\ reply' = "OK"
  /\ UNCHANGED << image, stopped, bset, strays, left >>

SetMemory ==
  /\ stopped
  /\ \E a \in Addr : \A b \in Addr \ {a} : image'[b] = image[b]
  /\ DOMAIN image' = DOMAIN image
  /\ reply' = "OK"
  /\ UNCHANGED << at, ra, stopped, bset, strays, left >>

(* E01 only when the table is full.                                        *)
SetBreakpoint(a) ==
  /\ stopped
  /\ \/ bset' = bset \cup {a} /\ reply' = "OK"
     \/ a \notin bset /\ Cardinality(bset) = MaxBreakpoints /\ bset' = bset /\ reply' = "E01"
  /\ UNCHANGED << image, at, ra, stopped, strays, left >>

ClearBreakpoint(a) ==
  /\ stopped
  /\ bset' = bset \ {a}
  /\ reply' = IF a \in bset THEN "OK" ELSE "E01"
  /\ UNCHANGED << image, at, ra, stopped, strays, left >>

Ask ==
  /\ stopped
  /\ reply' \in {"T05", "OK", "data", "E01"}
  /\ UNCHANGED << image, at, ra, stopped, bset, strays, left >>

Go ==
  /\ stopped /\ ~stopped'
  /\ at' \in Addr
  /\ left' \in {1, Unlimited} /\ reply' = "none"
  /\ UNCHANGED << image, ra, bset, strays >>

RestartTarget ==
  /\ at' = 0 /\ ra' \in Addr /\ ~stopped' /\ left' = Unlimited /\ reply' = "none"
  /\ strays' \in SUBSET Addr
  /\ UNCHANGED << image, bset >>

TargetNext ==
  \/ Execute \/ Stop \/ HaltOutside
  \/ SetRegs \/ SetMemory \/ Ask \/ Go \/ RestartTarget
  \/ \E a \in Addr : SetBreakpoint(a) \/ ClearBreakpoint(a)

TargetSpec == TargetInit /\ [][TargetNext]_targetVars

=============================================================================
