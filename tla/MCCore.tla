-------------------------------- MODULE MCCore --------------------------------
(***************************************************************************)
(* Instances of AttoCore: four small programs.   Each is a sequence of     *)
(* instructions laid out from address 0; "l" marks a 32-bit one, whose     *)
(* second parcel is an operand parcel.  The trap handler is at word 5, and *)
(* word 7 is data.                                                         *)
(***************************************************************************)
EXTENDS AttoCore, Sequences

At(w, h) == [word |-> w, half |-> h]

Parcel(o, l, n, ts) == [op |-> o, long |-> l, id |-> n, tgt |-> ts]

(* The second half of the 32-bit instruction n; its low bits may well look *)
(* like the start of one.                                                  *)
Rest(n) == Parcel("alu", n % 2 = 0, n, {})

C(o, n, ts) == << Parcel(o, FALSE, n, ts) >>
L(o, n, ts) == << Parcel(o, TRUE, n, ts), Rest(n) >>

Data == << Rest(90), Rest(91) >>
Pad  == C("alu", 92, {})

(* Every kind of trap and of wait; the handler skips the trapping          *)
(* instruction by writing mepc.                                            *)
ProgA == L("mie_set", 1, {}) \o C("load", 2, {At(7, 0)}) \o L("ecall", 3, {})
         \o C("alu", 4, {}) \o L("wfi", 5, {})
         \o C("jump", 6, {At(0, 0), At(1, 0)}) \o Pad
         \o L("csrw_mepc", 7, {At(2, 1)}) \o L("mret", 8, {}) \o Data

ProgB == L("mie_set", 11, {}) \o C("store", 12, {At(7, 1)}) \o L("muldiv", 13, {})
         \o C("branch", 14, {At(1, 0)}) \o L("mie_clear", 15, {})
         \o C("ebreak", 16, {}) \o C("jump", 17, {At(0, 0)})
         \o L("csrw_mepc", 18, {At(4, 1)}) \o L("mret", 19, {}) \o Data

(* A loop over every instruction that waits, and a handler that only       *)
(* returns.                                                                *)
ProgC == L("mie_set", 21, {}) \o C("load", 22, {At(7, 0)}) \o L("muldiv", 23, {})
         \o C("store", 24, {At(7, 1)}) \o C("branch", 25, {At(1, 0)})
         \o C("jump", 26, {At(1, 0)}) \o Pad \o Pad
         \o C("load", 27, {At(7, 1)}) \o L("mret", 28, {}) \o Pad \o Data

(* A loop that waits for a store and a divide and sleeps in WFI.           *)
ProgD == L("mie_set", 31, {}) \o C("store", 32, {At(7, 1)}) \o L("muldiv", 33, {})
         \o L("wfi", 34, {}) \o C("jump", 35, {At(1, 0)}) \o Pad \o Pad
         \o C("load", 36, {At(7, 1)}) \o L("mret", 37, {}) \o Pad \o Data

Image(prog) == [w \in 0 .. 7 |-> [lo |-> prog[2 * w + 1], hi |-> prog[2 * w + 2]]]

Junk == {[lo |-> Parcel(o, FALSE, 99, {}), hi |-> Rest(98)] : o \in {"alu", "load"}}

AllImages  == {Image(ProgA), Image(ProgB), Image(ProgC)}
LoopImages == {Image(ProgC)}
WfiImages  == {Image(ProgD)}

MCParcels ==
  UNION {{ProgA[i], ProgB[i], ProgC[i], ProgD[i]} : i \in 1 .. 16}
    \cup UNION {{j.lo, j.hi} : j \in Junk}
MCLong    == {p \in MCParcels : p.long}
MCRs2     == {p \in MCParcels : p.op \in {"store", "muldiv", "branch"}}
MCOpOf    == [p \in MCParcels |-> p.op]
MCTarget  == [p \in MCParcels |-> p.tgt]
MCVec     == At(5, 0)
MCStored  == {[lo |-> Rest(98), hi |-> Rest(98)]}

(* The handler, words 5 and 6, is entered by traps only.                   *)
MCHandler == {At(w, h) : w \in {5, 6}, h \in {0, 1}}

ASSUME MCHandlerApart == Images \in {AllImages, WfiImages} => HandlerApart

(* However often requests come, the interrupted loop goes round: its head  *)
(* is executed again and again, because a handler returns past the         *)
(* instruction that was interrupted.                                       *)
LoopHead     == state = "EXECUTE" /\ PC = At(1, 0)
LoopAdvances ==
  [](~nested /\ ~cut) /\ []<>(lines # {}) => []<>LoopHead

=============================================================================
