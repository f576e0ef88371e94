------------------------------ MODULE StubLayout ------------------------------
(***************************************************************************)
(* Programs laid out so that the stub's breakpoints work: 32-bit           *)
(* instructions begin at words, the debugger and the program use addresses *)
(* where instructions begin.  And what keeps the memory of such a program  *)
(* in order: the inductive invariant of GdbStub.                           *)
(***************************************************************************)
EXTENDS GdbStub

CONSTANTS
  Starts,    (* addresses where instructions begin                         *)
  Programs,  (* the images, and what the debugger's writes make of them    *)
  Parcels    (* what they consist of, and EBREAKs                          *)

Wide(s) == s % 2 = 0 /\ s + 1 \notin Starts

Size(s) == IF Wide(s) THEN 2 ELSE 1

Cell(s) == s .. s + Size(s) - 1

(* Instructions follow each other without gaps, and none leads out.         *)
Proper(m) ==
  /\ m \in [Addr -> Parcels]
  /\ \A s \in Starts :
       /\ m[s].long = Wide(s)
       /\ Wrap(s + Size(s)) \in Starts
       /\ Decode(m, s).kind \in {"jump", "call", "branch"} =>
            Wrap(s + Decode(m, s).off) \in Starts

Layout ==
  /\ {c_ebreak, ebreak_lo, ebreak_hi} \subseteq Parcels
  /\ \A p \in Parcels : p.kind \in Kinds /\ p.long \in BOOLEAN /\ p.off \in Int
  /\ 0 \in Starts /\ Starts \subseteq Addr
  /\ HostAddrs \subseteq Starts
  /\ Images \subseteq Programs
  /\ \A m \in Programs :
       Proper(m) /\ \A w \in HostWrites : [m EXCEPT ![w[1]] = w[2]] \in Programs
  /\ PowerUp = {Cleared}

----------------------------------------------------------------------------
(* A table, its memory, and the image they belong to.                      *)

(* What of an EBREAK comes to lie at a.                                     *)
EbreakAt(a) ==
  IF a \notin Starts THEN ebreak_hi ELSE IF Wide(a) THEN ebreak_lo ELSE c_ebreak

SlotType == [used : BOOLEAN, addr : Addr, orig : Seq(Parcels)]

(* Every parcel in memory or saved is the program's or an EBREAK's.         *)
Shape(t, img) ==
  /\ t.mem \in [Addr -> Parcels] /\ t.bps \in [Slots -> SlotType]
  /\ \A a \in Addr : t.mem[a] \in {img[a], EbreakAt(a)}
  /\ \A i \in Slots : t.bps[i].used =>
       LET s == t.bps[i].addr
       IN /\ s \in Starts /\ Len(t.bps[i].orig) = Size(s)
          /\ \A a \in Cell(s) : t.bps[i].orig[a - s + 1] \in {img[a], EbreakAt(a)}

Distinct(t) ==
  \A i, j \in Slots :
    t.bps[i].used /\ t.bps[j].used /\ t.bps[i].addr = t.bps[j].addr
      /\ (i \in User <=> j \in User) => i = j

Covers(t, slots, a) == \E i \in slots : t.bps[i].used /\ a \in Cell(t.bps[i].addr)

(* ProgramIntact, parcel by parcel.                                        *)
Intact(t, img, sc) ==
  /\ \A a \in Addr \ sc : t.mem[a] = IF Covers(t, Slots, a) THEN EbreakAt(a) ELSE img[a]
  /\ \A i \in Slots : t.bps[i].used =>
       \A a \in Cell(t.bps[i].addr) \ sc :
         t.bps[i].orig[a - t.bps[i].addr + 1] =
           IF i \in Scratch /\ Covers(t, User, a) THEN EbreakAt(a) ELSE img[a]

TableInv(t, img, sc) == Shape(t, img) /\ Distinct(t) /\ Intact(t, img, sc)

(* No scratch breakpoint but where a command was cut short.                *)
NoScratch(t, sc) == \A i \in Scratch : t.bps[i].used => Cell(t.bps[i].addr) \subseteq sc

----------------------------------------------------------------------------
(* The registers.  The saved ones are the program's, or those of the stub  *)
(* when it has interrupted itself.                                         *)
RegInv ==
  /\ IF InStub THEN reg = StubValue
               ELSE pc \in Starts /\ reg \in Starts /\ g_pc = 0 /\ g_reg = 0
  /\ InStub => \/ g_pc = StubPC /\ g_reg = StubValue
               \/ g_pc \in Starts /\ g_reg \in Starts

FlagInv ==
  /\ stepping \in BOOLEAN /\ mask \in BOOLEAN /\ raced \in BOOLEAN
  /\ left \in -1 .. Unlimited /\ scarred \subseteq Addr
  /\ ~InStub => reply = "none" /\ ~mask
  /\ InStub => reply # "none" /\ ~stepping /\ left = Unlimited
  /\ scarred # {} => raced

StubInv ==
  /\ image \in Programs
  /\ RegInv /\ FlagInv
  /\ TableInv(Table, image, scarred)
  /\ ~stepping => NoScratch(Table, scarred)

(* A step under way: the scratch breakpoints are where the instruction at  *)
(* pc leads, or have been reached.                                         *)
ScratchAddrs == {bps[i].addr : i \in {j \in Scratch : bps[j].used}}
UserAddrs    == {bps[i].addr : i \in {j \in User : bps[j].used}}

StepInv ==
  ~raced =>
    /\ left >= 0
    /\ left # Unlimited => stepping
    /\ left = 0 => pc \in ScratchAddrs
    /\ left = 1 => \/ pc \in UserAddrs
                   \/ Decode(image, pc).kind = "trap"
                   \/ ScratchAddrs = {s[1] : s \in Successors(image, pc, reg)}

=============================================================================
