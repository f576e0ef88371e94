-------------------------------- MODULE MCSoc --------------------------------
(***************************************************************************)
(* Instance of DbgSoc: a user program, words 0 to 4, and a stub, words 5   *)
(* and 6, both of which read and write breakpoint registers.               *)
(***************************************************************************)
EXTENDS DbgSoc, MCCore

ProgS == C("alu", 41, {}) \o L("alu", 42, {}) \o C("load", 43, {At(7, 0)})
         \o C("store", 44, {At(7, 1)}) \o C("jump", 45, {At(0, 0), At(3, 0)})
         \o C("muldiv", 46, {}) \o C("wfi", 47, {}) \o C("jump", 48, {At(0, 1)}) \o Pad
         \o C("store", 49, {At(7, 1)}) \o C("load", 50, {At(7, 0)})
         \o C("mret", 51, {}) \o Pad \o Data

SocImages  == {Image(ProgS)}
SocParcels == {ProgS[i] : i \in 1 .. 16} \cup UNION {{j.lo, j.hi} : j \in Junk}
SocLong    == {p \in SocParcels : p.long}
SocRs2     == {p \in SocParcels : p.op \in {"store", "muldiv"}}
SocOpOf    == [p \in SocParcels |-> p.op]
SocTarget  == [p \in SocParcels |-> p.tgt]

SocSlots   == {"BP_ADDR0", "BP_ADDR1"}
SocRegsOf  == [p \in SocParcels |-> IF p.op \in {"load", "store"} THEN Regs ELSE {}]

ASSUME SocHandlerApart == Images = SocImages => HandlerApart

(* A 32-bit instruction across two words, and the store itself.             *)
SocBpTargets == {At(0, 1), At(2, 0)}

=============================================================================
