------------------------------ MODULE RvProgram ------------------------------
(***************************************************************************)
(* Programs at the level of instructions, as the debugger sees them: a     *)
(* RAM of 16-bit parcels, what the instruction at an address is, and where *)
(* the core goes from it (PC_new in rtl/attorv32.v).                       *)
(*                                                                         *)
(* An address counts parcels.  A parcel is a record: "long" if it is the   *)
(* first half of a 32-bit instruction, the kind of instruction that begins *)
(* with it, and an offset, which a 32-bit instruction takes from its       *)
(* second parcel.  One register, the return address, stands for all.       *)
(***************************************************************************)
EXTENDS Integers, Sequences

CONSTANTS
  RamSize,    (* parcels of RAM                                            *)
  StubPC,     (* where the debug stub is, in ROM                           *)
  StubValue   (* what a register holds while the stub runs                 *)

ASSUME ProgramAssumption ==
  /\ RamSize \in Nat \ {0} /\ RamSize % 2 = 0
  /\ StubPC \notin 0 .. RamSize - 1
  /\ StubValue \notin 0 .. RamSize - 1

Addr == 0 .. RamSize - 1

Kinds == {"seq", "jump", "call", "branch", "return", "trap"}

Parcel(kind, long, off, id) == [kind |-> kind, long |-> long, off |-> off, id |-> id]

(* 0x9002, and 0x00100073 with its two halves.  The core takes any SYSTEM   *)
(* instruction with funct3 = 0 but MRET and WFI for ECALL or EBREAK, so    *)
(* that the first half alone makes a trap.                                 *)
c_ebreak  == Parcel("trap", FALSE, 0, "c.ebreak")
ebreak_lo == Parcel("trap", TRUE, 0, "ebreak")
ebreak_hi == Parcel("seq", FALSE, 0, "ebreak_hi")
ebreak    == << ebreak_lo, ebreak_hi >>

Wrap(a) == a % RamSize

(* The instruction the core fetches at a: it puts halves of two words       *)
(* together where it has to (AttoFetch).                                   *)
Decode(m, a) ==
  [kind |-> m[a].kind,
   len  |-> IF m[a].long THEN 2 ELSE 1,
   off  |-> IF m[a].long THEN m[Wrap(a + 1)].off ELSE m[a].off]

(* Next address and return register after the instruction at a; none for a *)
(* trap.  Either way of a branch is possible.                              *)
Successors(m, a, ra) ==
  LET i    == Decode(m, a)
      next == Wrap(a + i.len)
      dest == Wrap(a + i.off)
  IN CASE i.kind = "seq"    -> {<< next, ra >>}
       [] i.kind = "jump"   -> {<< dest, ra >>}
       [] i.kind = "call"   -> {<< dest, next >>}
       [] i.kind = "branch" -> {<< next, ra >>, << dest, ra >>}
       [] i.kind = "return" -> {<< ra, ra >>}
       [] i.kind = "trap"   -> {}

=============================================================================
