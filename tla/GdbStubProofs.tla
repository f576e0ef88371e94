----------------------------- MODULE GdbStubProofs -----------------------------
(***************************************************************************)
(* Proofs about GdbStub, for every program with the layout of StubLayout   *)
(* and every size of the table: memory is the program with the EBREAKs     *)
(* planted over it, whatever resets and second entries do to a command;    *)
(* and the debugger sees the target of DbgTarget.                          *)
(***************************************************************************)
EXTENDS StubLayout, TLAPS, FiniteSetTheorems, WellFoundedInduction,
        SequenceTheorems

----------------------------------------------------------------------------
(* Numbers and sets.                                                       *)

LEMMA WrapLemma == ASSUME NEW x \in Int PROVE Wrap(x) \in Addr
  BY ProgramAssumption DEF Wrap, Addr

LEMMA FirstLemma ==
  ASSUME NEW S \in SUBSET Nat, S # {}
  PROVE  First(S) \in S
<1>1. \E x \in S : \A y \in S : ~(<< y, x >> \in OpToRel(<, Nat))
  BY NatLessThanWellFounded, WFMin
<1>2. PICK x \in S : \A y \in S : ~(<< y, x >> \in OpToRel(<, Nat))
  BY <1>1
<1>3. \A y \in S : ~(y < x)
  BY <1>2 DEF OpToRel
<1>4. \A y \in S : x <= y
  BY <1>3
<1>5. QED
  BY <1>4 DEF First

LEMMA SlotsLemma ==
  /\ Slots = User \cup Scratch /\ User \cap Scratch = {}
  /\ User \subseteq Nat /\ Scratch \subseteq Nat
  /\ Scratch = {NUser + 1, NUser + 2} /\ NUser + 1 # NUser + 2
  BY StubAssumption DEF Slots, User, Scratch

----------------------------------------------------------------------------
(* Cells: the parcels of one instruction.                                  *)

LEMMA CellLemma ==
  ASSUME Layout, NEW s \in Starts
  PROVE  /\ s \in Nat /\ s \in Cell(s) /\ Cell(s) \subseteq Addr
         /\ Wide(s)  => Cell(s) = {s, s + 1} /\ s - (s % 2) = s /\ s + 1 \in Addr
         /\ ~Wide(s) => Cell(s) = {s}
         /\ Size(s) \in {1, 2}
  BY ProgramAssumption DEF Layout, Cell, Size, Wide, Addr

LEMMA CellsApart ==
  ASSUME Layout, NEW s \in Starts, NEW r \in Starts, NEW a, a \in Cell(s), a \in Cell(r)
  PROVE  s = r
  BY CellLemma DEF Wide

----------------------------------------------------------------------------
(* Loads and stores of one cell.                                           *)

(* A store of a cell changes this cell and nothing else.                   *)
LEMMA StoreLemma ==
  ASSUME Layout, NEW m \in [Addr -> Parcels], NEW s \in Starts,
         NEW p \in Seq(Parcels), Len(p) = Size(s)
  PROVE  /\ Store(m, s, p) \in [Addr -> Parcels]
         /\ \A a \in Cell(s) : Store(m, s, p)[a] = p[a - s + 1]
         /\ \A a \in Addr \ Cell(s) : Store(m, s, p)[a] = m[a]
<1>1. CASE Wide(s)
  <2>1. Store(m, s, p) = [m EXCEPT ![s] = p[1], ![s + 1] = p[2]]
    BY <1>1, CellLemma DEF Store, StoreWord, Size
  <2>2. Len(p) = 2 /\ p[1] \in Parcels /\ p[2] \in Parcels
    <3>1. Len(p) = 2
      BY <1>1 DEF Size
    <3>2. QED
      BY <3>1, ElementOfSeq
  <2>3. s # s + 1 /\ s \in Addr /\ s + 1 \in Addr /\ Cell(s) = {s, s + 1} /\ s + 1 - s + 1 = 2 /\ s - s + 1 = 1
    BY <1>1, CellLemma
  <2> DEFINE n == [m EXCEPT ![s] = p[1], ![s + 1] = p[2]]
  <2>4. n \in [Addr -> Parcels] /\ n[s] = p[1] /\ n[s + 1] = p[2]
    BY <2>2, <2>3
  <2>5. \A a \in Addr \ {s, s + 1} : n[a] = m[a]
    BY <2>2, <2>3
  <2>6. ASSUME NEW a \in Cell(s) PROVE n[a] = p[a - s + 1]
    <3>1. CASE a = s
      BY <2>3, <2>4, <3>1
    <3>2. CASE a = s + 1
      BY CellLemma, <2>3, <2>4, <3>2
    <3>3. QED
      BY <2>3, <3>1, <3>2
  <2>7. QED
    BY <2>1, <2>3, <2>4, <2>5, <2>6
<1>2. CASE ~Wide(s)
  <2>1. Store(m, s, p) = [m EXCEPT ![s] = p[1]]
    BY <1>2, CellLemma DEF Store, Size
  <2>2. Len(p) = 1 /\ p[1] \in Parcels
    <3>1. Len(p) = 1
      BY <1>2 DEF Size
    <3>2. QED
      BY <3>1, ElementOfSeq
  <2>3. s \in Addr /\ Cell(s) = {s} /\ s - s + 1 = 1
    BY <1>2, CellLemma
  <2>4. QED
    BY <2>1, <2>2, <2>3
<1>3. QED
  BY <1>1, <1>2

(* What is saved of a cell is the cell.                                    *)
LEMMA OrigLemma ==
  ASSUME Layout, NEW m \in [Addr -> Parcels], NEW s \in Starts, m[s].long = Wide(s)
  PROVE  /\ Orig(m, s) \in Seq(Parcels) /\ Len(Orig(m, s)) = Size(s)
         /\ \A a \in Cell(s) : Orig(m, s)[a - s + 1] = m[a]
<1>1. CASE Wide(s)
  <2>1. Orig(m, s) = << m[s], m[s + 1] >>
    BY <1>1, CellLemma DEF Orig, LoadWord
  <2>2. s \in Addr /\ s + 1 \in Addr /\ Cell(s) = {s, s + 1} /\ s + 1 - s + 1 = 2 /\ s - s + 1 = 1
    BY <1>1, CellLemma
  <2>3. Orig(m, s) \in Seq(Parcels) /\ Len(Orig(m, s)) = 2
    BY <2>1, <2>2
  <2>4. Orig(m, s)[1] = m[s] /\ Orig(m, s)[2] = m[s + 1]
    BY <2>1
  <2>5. ASSUME NEW a \in Cell(s) PROVE Orig(m, s)[a - s + 1] = m[a]
    <3>1. CASE a = s
      BY <2>2, <2>4, <3>1
    <3>2. CASE a = s + 1
      BY CellLemma, <2>2, <2>4, <3>2
    <3>3. QED
      BY <2>2, <3>1, <3>2
  <2>6. QED
    BY <1>1, <2>3, <2>5 DEF Size
<1>2. CASE ~Wide(s)
  <2>1. Orig(m, s) = << m[s] >>
    BY <1>2, CellLemma DEF Orig
  <2>2. s \in Addr /\ Cell(s) = {s} /\ s - s + 1 = 1
    BY <1>2, CellLemma
  <2>3. QED
    BY <1>2, <2>1, <2>2 DEF Size
<1>3. QED
  BY <1>1, <1>2

LEMMA EbreakTypes ==
  ASSUME Layout
  PROVE  /\ c_ebreak \in Parcels /\ ebreak_lo \in Parcels /\ ebreak_hi \in Parcels
         /\ \A a : EbreakAt(a) \in Parcels
         /\ c_ebreak.long = FALSE /\ ebreak_lo.long = TRUE
         /\ c_ebreak.kind = "trap" /\ ebreak_lo.kind = "trap" /\ ebreak_hi.off = 0
<1>1. c_ebreak \in Parcels /\ ebreak_lo \in Parcels /\ ebreak_hi \in Parcels
  BY DEF Layout
<1>2. \A a : EbreakAt(a) \in Parcels
  BY <1>1 DEF EbreakAt
<1>3. /\ c_ebreak.long = FALSE /\ ebreak_lo.long = TRUE
      /\ c_ebreak.kind = "trap" /\ ebreak_lo.kind = "trap" /\ ebreak_hi.off = 0
  BY DEF c_ebreak, ebreak_lo, ebreak_hi, Parcel
<1>4. QED
  BY <1>1, <1>2, <1>3

LEMMA PlantedLemma ==
  ASSUME Layout, NEW s \in Starts, NEW p \in Seq(Parcels), Len(p) = Size(s)
  PROVE  /\ Planted(p) \in Seq(Parcels) /\ Len(Planted(p)) = Size(s)
         /\ \A a \in Cell(s) : Planted(p)[a - s + 1] = EbreakAt(a)
<1>1. CASE Wide(s)
  <2>1. Planted(p) = << ebreak_lo, ebreak_hi >>
    BY <1>1 DEF Planted, ebreak, Size
  <2>2. s \in Nat /\ Cell(s) = {s, s + 1} /\ s + 1 - s + 1 = 2 /\ s - s + 1 = 1
    <3>1. s \in Nat /\ Cell(s) = {s, s + 1}
      BY <1>1, CellLemma
    <3>2. QED
      BY <3>1
  <2>3. EbreakAt(s) = ebreak_lo /\ EbreakAt(s + 1) = ebreak_hi
    BY <1>1 DEF Wide, EbreakAt
  <2>4. Planted(p) \in Seq(Parcels) /\ Len(Planted(p)) = 2
    BY <2>1, EbreakTypes
  <2>5. Planted(p)[1] = ebreak_lo /\ Planted(p)[2] = ebreak_hi
    BY <2>1
  <2>6. ASSUME NEW a \in Cell(s) PROVE Planted(p)[a - s + 1] = EbreakAt(a)
    <3>1. CASE a = s
      BY <2>2, <2>3, <2>5, <3>1
    <3>2. CASE a = s + 1
      BY CellLemma, <2>2, <2>3, <2>5, <3>2
    <3>3. QED
      BY <2>2, <3>1, <3>2
  <2>7. QED
    BY <1>1, <2>4, <2>6 DEF Size
<1>2. CASE ~Wide(s)
  <2>1. Planted(p) = << c_ebreak >>
    BY <1>2 DEF Planted, Size
  <2>2. Cell(s) = {s} /\ s - s + 1 = 1
    BY <1>2, CellLemma
  <2>3. QED
    BY <1>2, <2>1, <2>2, EbreakTypes DEF Size, EbreakAt
<1>3. QED
  BY <1>1, <1>2

(* The shape of memory gives every instruction its length.                 *)
LEMMA LengthLemma ==
  ASSUME Layout, NEW img \in Programs, NEW m \in [Addr -> Parcels], NEW s \in Starts,
         m[s] \in {img[s], EbreakAt(s)}
  PROVE  m[s].long = Wide(s)
<1>1. img[s].long = Wide(s)
  BY DEF Layout, Proper
<1>2. EbreakAt(s).long = Wide(s)
  <2>1. CASE Wide(s)
    BY <2>1, EbreakTypes DEF EbreakAt, Wide
  <2>2. CASE ~Wide(s)
    BY <2>2, EbreakTypes DEF EbreakAt, Wide
  <2>3. QED
    BY <2>1, <2>2
<1>3. QED
  BY <1>1, <1>2

----------------------------------------------------------------------------
(* One slot taken, one slot given back.                                    *)

(* What bp_insert does with a slot it has found.                           *)
Put(t, i, a) ==
  LET orig == Orig(t.mem, a)
  IN [mem |-> Store(t.mem, a, Planted(orig)),
      bps |-> [t.bps EXCEPT ![i] = [used |-> TRUE, addr |-> a, orig |-> orig]]]

(* Slots that cover one parcel are at one address.                         *)
LEMMA OneAddress ==
  ASSUME Layout, NEW t, NEW img, Shape(t, img), NEW i \in Slots, NEW s \in Starts,
         NEW b, t.bps[i].used, b \in Cell(t.bps[i].addr), b \in Cell(s)
  PROVE  t.bps[i].addr = s
<1>1. t.bps[i].addr \in Starts
  BY DEF Shape
<1>2. QED
  BY <1>1, CellsApart

LEMMA PutShape ==
  ASSUME Layout, NEW img \in Programs, NEW t, Shape(t, img), NEW a \in Starts, NEW i \in Slots,
         NEW n, n = Put(t, i, a)
  PROVE  /\ Shape(n, img)
         /\ n.bps[i].used /\ n.bps[i].addr = a
         /\ \A b \in Cell(a) : n.bps[i].orig[b - a + 1] = t.mem[b]
         /\ \A j \in Slots \ {i} : n.bps[j] = t.bps[j]
         /\ \A b \in Cell(a) : n.mem[b] = EbreakAt(b)
         /\ \A b \in Addr \ Cell(a) : n.mem[b] = t.mem[b]
<1> DEFINE orig == Orig(t.mem, a)
<1>1. t.mem \in [Addr -> Parcels] /\ t.bps \in [Slots -> SlotType] /\ a \in Addr
  BY DEF Shape, Layout
<1>2. t.mem[a].long = Wide(a)
  BY <1>1, LengthLemma DEF Shape
<1>3. /\ orig \in Seq(Parcels) /\ Len(orig) = Size(a)
      /\ \A b \in Cell(a) : orig[b - a + 1] = t.mem[b]
  BY <1>1, <1>2, OrigLemma
<1>4. /\ Planted(orig) \in Seq(Parcels) /\ Len(Planted(orig)) = Size(a)
      /\ \A b \in Cell(a) : Planted(orig)[b - a + 1] = EbreakAt(b)
  BY <1>3, PlantedLemma
<1> HIDE DEF orig
<1>5. n.mem = Store(t.mem, a, Planted(orig))
      /\ n.bps = [t.bps EXCEPT ![i] = [used |-> TRUE, addr |-> a, orig |-> orig]]
  BY DEF Put, orig
<1>6. /\ n.mem \in [Addr -> Parcels]
      /\ \A b \in Cell(a) : n.mem[b] = Planted(orig)[b - a + 1]
      /\ \A b \in Addr \ Cell(a) : n.mem[b] = t.mem[b]
  BY <1>1, <1>4, <1>5, StoreLemma
<1>7. \A b \in Cell(a) : n.mem[b] = EbreakAt(b)
  BY <1>4, <1>6
<1>8. [used |-> TRUE, addr |-> a, orig |-> orig] \in SlotType
  BY <1>1, <1>3 DEF SlotType
<1>9. n.bps \in [Slots -> SlotType] /\ n.bps[i] = [used |-> TRUE, addr |-> a, orig |-> orig]
      /\ \A j \in Slots \ {i} : n.bps[j] = t.bps[j]
  BY <1>1, <1>5, <1>8
<1>10. n.bps[i].used /\ n.bps[i].addr = a /\ n.bps[i].orig = orig
  BY <1>9
<1>11. \A b \in Addr : n.mem[b] \in {img[b], EbreakAt(b)}
  BY <1>6, <1>7 DEF Shape
<1>12. ASSUME NEW j \in Slots, n.bps[j].used
       PROVE  LET s == n.bps[j].addr
              IN /\ s \in Starts /\ Len(n.bps[j].orig) = Size(s)
                 /\ \A b \in Cell(s) : n.bps[j].orig[b - s + 1] \in {img[b], EbreakAt(b)}
  <2>1. CASE j = i
    <3>1. \A b \in Cell(a) : orig[b - a + 1] \in {img[b], EbreakAt(b)}
      BY <1>3, CellLemma DEF Shape
    <3>2. QED
      BY <1>3, <1>10, <2>1, <3>1
  <2>2. CASE j # i
    BY <1>9, <1>12, <2>2 DEF Shape
  <2>3. QED
    BY <2>1, <2>2
<1>13. Shape(n, img)
  BY <1>6, <1>9, <1>11, <1>12 DEF Shape
<1>14. \A b \in Cell(a) : n.bps[i].orig[b - a + 1] = t.mem[b]
  BY <1>3, <1>10
<1>15. QED
  BY <1>6, <1>7, <1>9, <1>10, <1>13, <1>14

(* A slot is taken at an address where no slot of its kind is; a user slot *)
(* while the scratch slots are given back.                                 *)
LEMMA PutLemma ==
  ASSUME Layout, NEW img \in Programs, NEW sc \in SUBSET Addr, NEW t, TableInv(t, img, sc),
         NEW a \in Starts, NEW i \in Slots, ~t.bps[i].used,
         \A j \in Slots : t.bps[j].used /\ t.bps[j].addr = a => ~(i \in User <=> j \in User),
         i \in User => NoScratch(t, sc)
  PROVE  TableInv(Put(t, i, a), img, sc)
<1> DEFINE n == Put(t, i, a)
<1>1. /\ Shape(n, img)
      /\ n.bps[i].used /\ n.bps[i].addr = a
      /\ \A b \in Cell(a) : n.bps[i].orig[b - a + 1] = t.mem[b]
      /\ \A j \in Slots \ {i} : n.bps[j] = t.bps[j]
      /\ \A b \in Cell(a) : n.mem[b] = EbreakAt(b)
      /\ \A b \in Addr \ Cell(a) : n.mem[b] = t.mem[b]
  <2>1. Shape(t, img)
    BY DEF TableInv
  <2>2. QED
    BY <2>1, PutShape
<1> HIDE DEF n
<1>2. Distinct(n)
  BY <1>1 DEF TableInv, Distinct
<1>3. \A b \in Cell(a) : Covers(n, Slots, b)
  BY <1>1 DEF Covers
<1>4. \A b, slots : slots \subseteq Slots /\ b \notin Cell(a) => (Covers(n, slots, b) <=> Covers(t, slots, b))
  BY <1>1 DEF Covers
<1>5. \A b \in Addr \ sc : n.mem[b] = IF Covers(n, Slots, b) THEN EbreakAt(b) ELSE img[b]
  <2> SUFFICES ASSUME NEW b \in Addr \ sc
               PROVE  n.mem[b] = IF Covers(n, Slots, b) THEN EbreakAt(b) ELSE img[b]
    OBVIOUS
  <2>1. CASE b \in Cell(a)
    BY <1>1, <1>3, <2>1
  <2>2. CASE b \notin Cell(a)
    BY <1>1, <1>4, <2>2 DEF TableInv, Intact
  <2>3. QED
    BY <2>1, <2>2
(* Who covers what, before.                                                *)
<1>6. ASSUME NEW j \in Slots, NEW b \in Cell(a), t.bps[j].used, b \in Cell(t.bps[j].addr)
      PROVE  ~(i \in User <=> j \in User)
  <2>1. t.bps[j].addr = a
    BY <1>6, OneAddress DEF TableInv
  <2>2. QED
    BY <1>6, <2>1
<1>7. ASSUME NEW b \in Cell(a) \ sc
      PROVE  t.mem[b] = IF i \in Scratch /\ Covers(n, User, b) THEN EbreakAt(b) ELSE img[b]
  <2>1. t.mem[b] = IF Covers(t, Slots, b) THEN EbreakAt(b) ELSE img[b]
    BY CellLemma DEF TableInv, Intact
  <2>2. CASE i \in User
    <3>1. ~Covers(t, Slots, b)
      <4> SUFFICES ASSUME NEW j \in Slots, t.bps[j].used, b \in Cell(t.bps[j].addr)
                   PROVE  FALSE
        BY DEF Covers
      <4>1. j \in Scratch
        BY <1>6, <2>2, SlotsLemma
      <4>2. QED
        BY <2>2, <4>1 DEF NoScratch
    <3>2. QED
      BY <2>1, <2>2, <3>1, SlotsLemma
  <2>3. CASE i \in Scratch
    <3>1. Covers(t, Slots, b) <=> Covers(t, User, b)
      <4>1. \A j \in Slots : t.bps[j].used /\ b \in Cell(t.bps[j].addr) => j \in User
        BY <1>6, <2>3, SlotsLemma
      <4>2. QED
        BY <4>1, SlotsLemma DEF Covers
    <3>2. Covers(n, User, b) <=> Covers(t, User, b)
      BY <1>1, <2>3, SlotsLemma DEF Covers
    <3>3. QED
      BY <2>1, <2>3, <3>1, <3>2
  <2>4. QED
    BY <2>2, <2>3, SlotsLemma
<1>8. ASSUME NEW j \in Slots, n.bps[j].used, NEW b \in Cell(n.bps[j].addr) \ sc
      PROVE  n.bps[j].orig[b - n.bps[j].addr + 1] =
               IF j \in Scratch /\ Covers(n, User, b) THEN EbreakAt(b) ELSE img[b]
  <2>1. CASE j = i
    BY <1>1, <1>7, <1>8, <2>1
  <2>2. CASE j # i
    <3>1. n.bps[j] = t.bps[j]
      BY <1>1, <2>2
    <3>2. t.bps[j].orig[b - t.bps[j].addr + 1] =
            IF j \in Scratch /\ Covers(t, User, b) THEN EbreakAt(b) ELSE img[b]
      BY <1>8, <3>1 DEF TableInv, Intact
    <3>3. j \in Scratch => (Covers(n, User, b) <=> Covers(t, User, b))
      <4> SUFFICES ASSUME j \in Scratch
                   PROVE  Covers(n, User, b) <=> Covers(t, User, b)
        OBVIOUS
      <4>1. i \in Scratch
        BY <1>8, <3>1, SlotsLemma DEF NoScratch
      <4>2. QED
        BY <1>1, <4>1, SlotsLemma DEF Covers
    <3>4. QED
      BY <3>1, <3>2, <3>3
  <2>3. QED
    BY <2>1, <2>2
<1>9. Intact(n, img, sc)
  BY <1>5, <1>8 DEF Intact
<1>10. QED
  BY <1>1, <1>2, <1>9 DEF TableInv, n

LEMMA FreeLemma == Free \in SlotType /\ Free.used = FALSE
<1>1. 0 \in Addr /\ << >> \in Seq(Parcels)
  BY ProgramAssumption DEF Addr
<1>2. QED
  BY <1>1 DEF Free, SlotType

LEMMA LiftShape ==
  ASSUME Layout, NEW img \in Programs, NEW t, Shape(t, img), NEW i \in Slots, t.bps[i].used,
         NEW n, n = Lift(t, i), NEW s, s = t.bps[i].addr
  PROVE  /\ Shape(n, img)
         /\ ~n.bps[i].used
         /\ \A j \in Slots \ {i} : n.bps[j] = t.bps[j]
         /\ \A b \in Cell(s) : n.mem[b] = t.bps[i].orig[b - s + 1]
         /\ \A b \in Addr \ Cell(s) : n.mem[b] = t.mem[b]
<1> DEFINE p == t.bps[i].orig
<1>1. /\ t.mem \in [Addr -> Parcels] /\ t.bps \in [Slots -> SlotType]
      /\ s \in Starts /\ Len(p) = Size(s)
      /\ \A b \in Cell(s) : p[b - s + 1] \in {img[b], EbreakAt(b)}
  BY DEF Shape
<1>2. p \in Seq(Parcels)
  BY <1>1 DEF SlotType
<1>3. n.mem = Store(t.mem, s, p) /\ n.bps = [t.bps EXCEPT ![i] = Free]
  BY DEF Lift
<1>4. /\ n.mem \in [Addr -> Parcels]
      /\ \A b \in Cell(s) : n.mem[b] = p[b - s + 1]
      /\ \A b \in Addr \ Cell(s) : n.mem[b] = t.mem[b]
  BY <1>1, <1>2, <1>3, StoreLemma
<1>5. n.bps \in [Slots -> SlotType] /\ n.bps[i] = Free /\ \A j \in Slots \ {i} : n.bps[j] = t.bps[j]
  BY <1>1, <1>3, FreeLemma
<1>6. ~n.bps[i].used
  BY <1>5, FreeLemma
<1>7. \A b \in Addr : n.mem[b] \in {img[b], EbreakAt(b)}
  BY <1>1, <1>4 DEF Shape
<1>8. \A j \in Slots : n.bps[j].used => j # i /\ n.bps[j] = t.bps[j]
  BY <1>5, <1>6
<1>9. Shape(n, img)
  BY <1>4, <1>5, <1>7, <1>8 DEF Shape
<1>10. QED
  BY <1>4, <1>5, <1>6, <1>9

(* A slot is given back; a user slot while the scratch slots are.          *)
LEMMA LiftLemma ==
  ASSUME Layout, NEW img \in Programs, NEW sc \in SUBSET Addr, NEW t, TableInv(t, img, sc),
         NEW i \in Slots, i \in User => NoScratch(t, sc)
  PROVE  TableInv(Lift(t, i), img, sc)
<1>1. CASE ~t.bps[i].used
  BY <1>1 DEF Lift
<1>2. CASE t.bps[i].used
  <2> DEFINE n == Lift(t, i)
             s == t.bps[i].addr
  <2>1. /\ Shape(n, img)
        /\ ~n.bps[i].used
        /\ \A j \in Slots \ {i} : n.bps[j] = t.bps[j]
        /\ \A b \in Cell(s) : n.mem[b] = t.bps[i].orig[b - s + 1]
        /\ \A b \in Addr \ Cell(s) : n.mem[b] = t.mem[b]
    <3>1. Shape(t, img)
      BY DEF TableInv
    <3>2. QED
      BY <1>2, <3>1, LiftShape
  <2> HIDE DEF n
  <2>2. s \in Starts
    BY <1>2 DEF TableInv, Shape
  <2>3. Distinct(n)
    BY <2>1 DEF TableInv, Distinct
  <2>4. ASSUME NEW j \in Slots, j # i, NEW b \in Cell(s), t.bps[j].used, b \in Cell(t.bps[j].addr)
        PROVE  ~(i \in User <=> j \in User)
    <3>1. t.bps[j].addr = s
      BY <2>2, <2>4, OneAddress DEF TableInv
    <3>2. QED
      BY <1>2, <2>4, <3>1 DEF TableInv, Distinct
  <2>5. \A b, slots : slots \subseteq Slots /\ b \notin Cell(s) => (Covers(n, slots, b) <=> Covers(t, slots, b))
    BY <2>1 DEF Covers
  <2>6. i \in Scratch => \A b : Covers(n, User, b) <=> Covers(t, User, b)
    BY <2>1, SlotsLemma DEF Covers
  <2>7. ASSUME NEW b \in Cell(s) \ sc
        PROVE  n.mem[b] = IF Covers(n, Slots, b) THEN EbreakAt(b) ELSE img[b]
    <3>1. n.mem[b] = IF i \in Scratch /\ Covers(t, User, b) THEN EbreakAt(b) ELSE img[b]
      BY <1>2, <2>1 DEF TableInv, Intact
    <3>2. CASE i \in User
      <4>1. ~Covers(n, Slots, b)
        <5> SUFFICES ASSUME NEW j \in Slots, n.bps[j].used, b \in Cell(n.bps[j].addr)
                     PROVE  FALSE
          BY DEF Covers
        <5>1. j # i /\ n.bps[j] = t.bps[j]
          BY <2>1
        <5>2. j \in Scratch
          BY <2>4, <3>2, <5>1, SlotsLemma
        <5>3. QED
          BY <3>2, <5>1, <5>2 DEF NoScratch
      <4>2. QED
        BY <3>1, <3>2, <4>1, SlotsLemma
    <3>3. CASE i \in Scratch
      <4>1. Covers(n, Slots, b) <=> Covers(n, User, b)
        <5>1. \A j \in Slots : n.bps[j].used /\ b \in Cell(n.bps[j].addr) => j \in User
          BY <2>1, <2>4, <3>3, SlotsLemma
        <5>2. QED
          BY <5>1, SlotsLemma DEF Covers
      <4>2. QED
        BY <2>6, <3>1, <3>3, <4>1
    <3>4. QED
      BY <3>2, <3>3, SlotsLemma
  <2>8. \A b \in Addr \ sc : n.mem[b] = IF Covers(n, Slots, b) THEN EbreakAt(b) ELSE img[b]
    <3> SUFFICES ASSUME NEW b \in Addr \ sc
                 PROVE  n.mem[b] = IF Covers(n, Slots, b) THEN EbreakAt(b) ELSE img[b]
      OBVIOUS
    <3>1. CASE b \in Cell(s)
      BY <2>7, <3>1
    <3>2. CASE b \notin Cell(s)
      BY <2>1, <2>5, <3>2 DEF TableInv, Intact
    <3>3. QED
      BY <3>1, <3>2
  <2>9. ASSUME NEW j \in Slots, n.bps[j].used, NEW b \in Cell(n.bps[j].addr) \ sc
        PROVE  n.bps[j].orig[b - n.bps[j].addr + 1] =
                 IF j \in Scratch /\ Covers(n, User, b) THEN EbreakAt(b) ELSE img[b]
    <3>1. j # i /\ n.bps[j] = t.bps[j]
      BY <2>1, <2>9
    <3>2. t.bps[j].orig[b - t.bps[j].addr + 1] =
            IF j \in Scratch /\ Covers(t, User, b) THEN EbreakAt(b) ELSE img[b]
      BY <2>9, <3>1 DEF TableInv, Intact
    <3>3. j \in Scratch => i \in Scratch
      BY <2>9, <3>1, SlotsLemma DEF NoScratch
    <3>4. QED
      BY <2>6, <3>1, <3>2, <3>3
  <2>10. Intact(n, img, sc)
    BY <2>8, <2>9 DEF Intact
  <2>11. QED
    BY <2>1, <2>3, <2>10 DEF TableInv, n
<1>3. QED
  BY <1>1, <1>2

----------------------------------------------------------------------------
(* The functions of the table.  A slot is taken, or given back, and the    *)
(* others stay.                                                            *)

Takes(t, n, i, a) ==
  /\ ~t.bps[i].used /\ n.bps[i].used /\ n.bps[i].addr = a
  /\ \A j \in Slots \ {i} : n.bps[j] = t.bps[j]

Frees(t, n, i) == ~n.bps[i].used /\ \A j \in Slots \ {i} : n.bps[j] = t.bps[j]

(* bp_insert: the breakpoint is set, or there is no slot for it.           *)
Inserted(t, n, slots, a) ==
  \/ n = t /\ (SetIn(t, a, slots) \/ Full(t, slots))
  \/ \E i \in slots : Takes(t, n, i, a)

LEMMA SlotsOfLemma ==
  ASSUME NEW scratch \in BOOLEAN, NEW slots, slots = SlotsOf(scratch)
  PROVE  /\ slots \subseteq Slots /\ slots \subseteq Nat /\ slots \in {User, Scratch}
         /\ \A i \in slots, j \in Slots : (i \in User <=> j \in User) <=> j \in slots
  BY SlotsLemma DEF SlotsOf

LEMMA PutTakes ==
  ASSUME Layout, NEW img \in Programs, NEW t, NEW a \in Starts, NEW i \in Slots,
         Shape(t, img), ~t.bps[i].used
  PROVE  Takes(t, Put(t, i, a), i, a)
  BY PutShape DEF Takes

LEMMA LiftFrees ==
  ASSUME Layout, NEW img \in Programs, NEW t, NEW i \in Slots, Shape(t, img)
  PROVE  Frees(t, Lift(t, i), i)
<1>1. CASE t.bps[i].used
  BY <1>1, LiftShape DEF Frees
<1>2. CASE ~t.bps[i].used
  <2>1. Lift(t, i) = t
    BY <1>2 DEF Lift
  <2>2. QED
    BY <1>2, <2>1 DEF Frees
<1>3. QED
  BY <1>1, <1>2

LEMMA InsertLemma ==
  ASSUME Layout, NEW img \in Programs, NEW sc \in SUBSET Addr, NEW t, NEW a \in Starts,
         NEW scratch \in BOOLEAN, NEW slots, slots = SlotsOf(scratch),
         TableInv(t, img, sc), slots = User => NoScratch(t, sc)
  PROVE  /\ TableInv(bp_insert(t, a, scratch), img, sc)
         /\ Inserted(t, bp_insert(t, a, scratch), slots, a)
<1> DEFINE free == {j \in slots : ~t.bps[j].used}
           i    == First(free)
<1>1. CASE SetIn(t, a, slots) \/ Full(t, slots)
  <2>1. bp_insert(t, a, scratch) = t
    BY <1>1 DEF bp_insert
  <2>2. QED
    BY <1>1, <2>1 DEF Inserted
<1>2. CASE ~(SetIn(t, a, slots) \/ Full(t, slots))
  <2>1. bp_insert(t, a, scratch) = Put(t, i, a)
    BY <1>2 DEF bp_insert, Put
  <2>2. free # {} /\ free \in SUBSET Nat
    BY <1>2, SlotsOfLemma DEF Full
  <2>3. i \in free
    BY <2>2, FirstLemma
  <2> HIDE DEF i
  <2>4. i \in Slots /\ i \in slots /\ ~t.bps[i].used
    BY <2>3, SlotsOfLemma
  <2>5. \A j \in Slots : t.bps[j].used /\ t.bps[j].addr = a => ~(i \in User <=> j \in User)
    BY <1>2, <2>4, SlotsOfLemma DEF SetIn
  <2>6. i \in User => NoScratch(t, sc)
    BY <2>4, SlotsOfLemma, SlotsLemma
  <2>7. TableInv(Put(t, i, a), img, sc)
    BY <2>4, <2>5, <2>6, PutLemma
  <2>8. Shape(t, img)
    BY DEF TableInv
  <2>9. Takes(t, Put(t, i, a), i, a)
    BY <2>4, <2>8, PutTakes
  <2>10. QED
    BY <2>1, <2>4, <2>7, <2>9 DEF Inserted
<1>3. QED
  BY <1>1, <1>2

(* bp_remove of a user slot: it is given back, or there was none.          *)
Removed(t, n, a) ==
  \/ n = t /\ ~SetIn(t, a, User)
  \/ \E i \in User : t.bps[i].used /\ t.bps[i].addr = a /\ Frees(t, n, i)

LEMMA RemoveLemma ==
  ASSUME Layout, NEW img \in Programs, NEW sc \in SUBSET Addr, NEW t, NEW a,
         TableInv(t, img, sc), NoScratch(t, sc)
  PROVE  /\ TableInv(bp_remove(t, a, FALSE), img, sc)
         /\ Removed(t, bp_remove(t, a, FALSE), a)
<1> DEFINE found == {j \in User : t.bps[j].used /\ t.bps[j].addr = a}
           i     == First(found)
<1>0. SlotsOf(FALSE) = User
  BY DEF SlotsOf
<1>1. CASE ~SetIn(t, a, User)
  <2>1. bp_remove(t, a, FALSE) = t
    BY <1>0, <1>1 DEF bp_remove
  <2>2. QED
    BY <1>1, <2>1 DEF Removed
<1>2. CASE SetIn(t, a, User)
  <2>1. bp_remove(t, a, FALSE) = Lift(t, i)
    BY <1>0, <1>2 DEF bp_remove
  <2>2. found # {} /\ found \in SUBSET Nat
    BY <1>2, SlotsLemma DEF SetIn
  <2>3. i \in found
    BY <2>2, FirstLemma
  <2> HIDE DEF i
  <2>4. i \in Slots /\ i \in User /\ t.bps[i].used /\ t.bps[i].addr = a
    BY <2>3, SlotsLemma
  <2>5. TableInv(Lift(t, i), img, sc)
    BY <2>4, LiftLemma
  <2>6. Shape(t, img)
    BY DEF TableInv
  <2>7. Frees(t, Lift(t, i), i)
    BY <2>4, <2>6, LiftFrees
  <2>8. QED
    BY <2>1, <2>4, <2>5, <2>7 DEF Removed
<1>3. QED
  BY <1>1, <1>2

(* A slot changes once on the way from t over t1 to t2.                    *)
Steady(t, t1, t2) == \A i \in Slots : t1.bps[i] = t.bps[i] \/ t2.bps[i] = t1.bps[i]

(* remove_step_bps gives both scratch slots back.                          *)
LEMMA RemoveStepsLemma ==
  ASSUME Layout, NEW img \in Programs, NEW sc \in SUBSET Addr, NEW t, NEW t1, NEW t2,
         TableInv(t, img, sc), t1 = Lift(t, NUser + 1), t2 = Lift(t1, NUser + 2)
  PROVE  /\ TableInv(t1, img, sc) /\ TableInv(t2, img, sc)
         /\ Frees(t, t1, NUser + 1) /\ Frees(t1, t2, NUser + 2)
<1>1. /\ NUser + 1 \in Slots \ User /\ NUser + 2 \in Slots \ User
  BY SlotsLemma
<1>2. TableInv(t1, img, sc)
  BY <1>1, LiftLemma
<1>3. TableInv(t2, img, sc)
  BY <1>1, <1>2, LiftLemma
<1>4. Shape(t, img) /\ Shape(t1, img)
  BY <1>2 DEF TableInv
<1>5. QED
  BY <1>1, <1>2, <1>3, <1>4, LiftFrees

(* PlantSteps takes a scratch slot at each target that has none yet.       *)
AreTargets(targets) ==
  /\ targets[1] \in Starts
  /\ Len(targets) = 2 => targets[2] \in Starts
  /\ Len(targets) \in {1, 2}

PlantedFor(t, t1, t2, targets) ==
  /\ Inserted(t, t1, Scratch, targets[1])
  /\ IF Len(targets) = 2 THEN Inserted(t1, t2, Scratch, targets[2]) ELSE t2 = t1

FirstPlanted(t, targets) == bp_insert(t, targets[1], TRUE)

LEMMA PlantLemma ==
  ASSUME Layout, NEW img \in Programs, NEW sc \in SUBSET Addr, NEW t, NEW targets,
         NEW t1, NEW t2, TableInv(t, img, sc), AreTargets(targets),
         t1 = FirstPlanted(t, targets), t2 = PlantSteps(t, targets)
  PROVE  /\ TableInv(t1, img, sc) /\ TableInv(t2, img, sc)
         /\ PlantedFor(t, t1, t2, targets)
<1>0. Scratch = SlotsOf(TRUE) /\ Scratch # User
  BY SlotsLemma DEF SlotsOf
<1>1. TableInv(t1, img, sc) /\ Inserted(t, t1, Scratch, targets[1])
  BY <1>0, InsertLemma DEF AreTargets, FirstPlanted
<1>2. CASE Len(targets) = 2
  <2>1. t2 = bp_insert(t1, targets[2], TRUE)
    BY <1>2 DEF PlantSteps, FirstPlanted
  <2>2. TableInv(t2, img, sc) /\ Inserted(t1, t2, Scratch, targets[2])
    BY <1>0, <1>1, <1>2, <2>1, InsertLemma DEF AreTargets
  <2>3. QED
    BY <1>1, <1>2, <2>2 DEF PlantedFor
<1>3. CASE Len(targets) # 2
  <2>1. t2 = t1
    BY <1>3 DEF PlantSteps, FirstPlanted
  <2>2. QED
    BY <1>1, <1>3, <2>1 DEF PlantedFor
<1>4. QED
  BY <1>2, <1>3

----------------------------------------------------------------------------
(* Commands cut short.                                                     *)

LEMMA CoveredLemma ==
  ASSUME NEW img, NEW t, Shape(t, img), NEW i \in Slots
  PROVE  CoveredBy(t.bps[i]) = IF t.bps[i].used THEN Cell(t.bps[i].addr) ELSE {}
<1>1. CASE t.bps[i].used
  <2>1. Len(t.bps[i].orig) = Size(t.bps[i].addr)
    BY <1>1 DEF Shape
  <2>2. QED
    BY <1>1, <2>1 DEF CoveredBy, Cell
<1>2. CASE ~t.bps[i].used
  BY <1>2 DEF CoveredBy
<1>3. QED
  BY <1>1, <1>2

LEMMA TouchedLemma ==
  ASSUME Layout, NEW img, NEW t, NEW n, Shape(t, img), Shape(n, img)
  PROVE  /\ Touched(t, n) \subseteq Addr
         /\ \A i \in Slots : t.bps[i] # n.bps[i] =>
              /\ t.bps[i].used => Cell(t.bps[i].addr) \subseteq Touched(t, n)
              /\ n.bps[i].used => Cell(n.bps[i].addr) \subseteq Touched(t, n)
<1>1. \A i \in Slots : t.bps[i].used => t.bps[i].addr \in Starts
  BY DEF Shape
<1>2. \A i \in Slots : n.bps[i].used => n.bps[i].addr \in Starts
  BY DEF Shape
<1>3. \A i \in Slots : CoveredBy(t.bps[i]) = IF t.bps[i].used THEN Cell(t.bps[i].addr) ELSE {}
  BY CoveredLemma
<1>4. \A i \in Slots : CoveredBy(n.bps[i]) = IF n.bps[i].used THEN Cell(n.bps[i].addr) ELSE {}
  BY CoveredLemma
<1>5. \A i \in Slots : CoveredBy(t.bps[i]) \subseteq Addr /\ CoveredBy(n.bps[i]) \subseteq Addr
  BY <1>1, <1>2, <1>3, <1>4, CellLemma
<1>6. Touched(t, n) \subseteq Addr
  BY <1>5 DEF Touched
<1>7. \A i \in Slots : t.bps[i] # n.bps[i] =>
        CoveredBy(t.bps[i]) \cup CoveredBy(n.bps[i]) \subseteq Touched(t, n)
  BY DEF Touched
<1>8. QED
  BY <1>3, <1>4, <1>6, <1>7

LEMMA WidenLemma ==
  ASSUME NEW img, NEW t, NEW sc, NEW sc2, TableInv(t, img, sc), sc \subseteq sc2
  PROVE  TableInv(t, img, sc2)
<1>1. Shape(t, img) /\ Distinct(t) /\ Intact(t, img, sc)
  BY DEF TableInv
<1>2. Intact(t, img, sc2)
  BY <1>1 DEF Intact
<1>3. QED
  BY <1>1, <1>2 DEF TableInv

(* The program's memory has changed, the table has not.                    *)
LEMMA HalfLemma ==
  ASSUME Layout, NEW img \in Programs, NEW sc, NEW sc2, NEW t, NEW n,
         TableInv(t, img, sc), TableInv(n, img, sc),
         sc \subseteq sc2,
         \A i \in Slots : t.bps[i] # n.bps[i] =>
              /\ t.bps[i].used => Cell(t.bps[i].addr) \subseteq sc2
              /\ n.bps[i].used => Cell(n.bps[i].addr) \subseteq sc2
  PROVE  TableInv(Half(t, n), img, sc2)
<1> DEFINE h == Half(t, n)
<1>1. h.mem = n.mem /\ h.bps = t.bps
  BY DEF Half
<1> HIDE DEF h
<1>2. Shape(t, img) /\ Distinct(t) /\ Intact(t, img, sc) /\ Shape(n, img) /\ Intact(n, img, sc)
  BY DEF TableInv
<1>3. Shape(h, img)
  BY <1>1, <1>2 DEF Shape
<1>4. Distinct(h)
  BY <1>1, <1>2 DEF Distinct
<1>5. \A a \in Addr \ sc2 : Covers(n, Slots, a) <=> Covers(h, Slots, a)
  BY <1>1 DEF Covers
<1>6. \A a \in Addr \ sc2 : h.mem[a] = IF Covers(h, Slots, a) THEN EbreakAt(a) ELSE img[a]
  <2> SUFFICES ASSUME NEW a \in Addr \ sc2
               PROVE  h.mem[a] = IF Covers(h, Slots, a) THEN EbreakAt(a) ELSE img[a]
    OBVIOUS
  <2>1. n.mem[a] = IF Covers(n, Slots, a) THEN EbreakAt(a) ELSE img[a]
    BY <1>2 DEF Intact
  <2>2. QED
    BY <1>1, <1>5, <2>1
<1>7. \A a : Covers(h, User, a) <=> Covers(t, User, a)
  BY <1>1 DEF Covers
<1>8. ASSUME NEW i \in Slots, h.bps[i].used, NEW a \in Cell(h.bps[i].addr) \ sc2
      PROVE  h.bps[i].orig[a - h.bps[i].addr + 1] =
               IF i \in Scratch /\ Covers(h, User, a) THEN EbreakAt(a) ELSE img[a]
  <2>1. t.bps[i].orig[a - t.bps[i].addr + 1] =
          IF i \in Scratch /\ Covers(t, User, a) THEN EbreakAt(a) ELSE img[a]
    BY <1>1, <1>2, <1>8 DEF Intact
  <2>2. QED
    BY <1>1, <1>7, <2>1
<1>9. Intact(h, img, sc2)
  BY <1>6, <1>8 DEF Intact
<1>10. QED
  BY <1>3, <1>4, <1>9 DEF TableInv, h

LEMMA CutLemma ==
  ASSUME Layout, NEW img \in Programs, NEW sc \in SUBSET Addr, NEW sc2,
         NEW t, NEW t1, NEW t2, NEW cut,
         TableInv(t, img, sc), TableInv(t1, img, sc), TableInv(t2, img, sc),
         Steady(t, t1, t2), sc2 = sc \cup Touched(t, t2),
         cut \in Between(t, t1, t2) \cup {t2}
  PROVE  /\ sc2 \subseteq Addr
         /\ TableInv(cut, img, sc2)
         /\ NoScratch(t, sc) => NoScratch(cut, sc2)
<1>1. Shape(t, img) /\ Shape(t1, img) /\ Shape(t2, img)
  BY DEF TableInv
<1>2. /\ Touched(t, t2) \subseteq Addr
      /\ \A i \in Slots : t.bps[i] # t2.bps[i] =>
           /\ t.bps[i].used => Cell(t.bps[i].addr) \subseteq Touched(t, t2)
           /\ t2.bps[i].used => Cell(t2.bps[i].addr) \subseteq Touched(t, t2)
  BY <1>1, TouchedLemma
<1>3. sc2 \subseteq Addr /\ sc \subseteq sc2
  BY <1>2
<1>4. \A i \in Slots : t.bps[i] # t1.bps[i] =>
           /\ t.bps[i].used => Cell(t.bps[i].addr) \subseteq sc2
           /\ t1.bps[i].used => Cell(t1.bps[i].addr) \subseteq sc2
  <2> SUFFICES ASSUME NEW i \in Slots, t.bps[i] # t1.bps[i]
               PROVE  /\ t.bps[i].used => Cell(t.bps[i].addr) \subseteq sc2
                      /\ t1.bps[i].used => Cell(t1.bps[i].addr) \subseteq sc2
    OBVIOUS
  <2>1. t2.bps[i] = t1.bps[i]
    BY DEF Steady
  <2>2. QED
    BY <1>2, <2>1
<1>5. \A i \in Slots : t1.bps[i] # t2.bps[i] =>
           /\ t1.bps[i].used => Cell(t1.bps[i].addr) \subseteq sc2
           /\ t2.bps[i].used => Cell(t2.bps[i].addr) \subseteq sc2
  <2> SUFFICES ASSUME NEW i \in Slots, t1.bps[i] # t2.bps[i]
               PROVE  /\ t1.bps[i].used => Cell(t1.bps[i].addr) \subseteq sc2
                      /\ t2.bps[i].used => Cell(t2.bps[i].addr) \subseteq sc2
    OBVIOUS
  <2>1. t1.bps[i] = t.bps[i]
    BY DEF Steady
  <2>2. QED
    BY <1>2, <2>1
<1>6. /\ TableInv(Half(t, t1), img, sc2) /\ TableInv(Half(t1, t2), img, sc2)
      /\ TableInv(t1, img, sc2) /\ TableInv(t2, img, sc2)
  BY <1>3, <1>4, <1>5, HalfLemma, WidenLemma
<1>7. ASSUME NoScratch(t, sc)
      PROVE  NoScratch(t1, sc2) /\ NoScratch(t2, sc2)
  <2>1. \A i \in Scratch : t.bps[i].used => Cell(t.bps[i].addr) \subseteq sc2
    BY <1>3, <1>7 DEF NoScratch
  <2>2. NoScratch(t1, sc2)
    BY <1>4, <2>1, SlotsLemma DEF NoScratch
  <2>3. NoScratch(t2, sc2)
    BY <1>2, <2>1, SlotsLemma DEF NoScratch
  <2>4. QED
    BY <2>2, <2>3
<1>8. NoScratch(t, sc) => NoScratch(Half(t, t1), sc2) /\ NoScratch(Half(t1, t2), sc2)
  <2>1. Half(t, t1).bps = t.bps /\ Half(t1, t2).bps = t1.bps
    BY DEF Half
  <2>2. QED
    BY <1>3, <1>7, <2>1 DEF NoScratch
<1>9. cut \in {Half(t, t1), t1, Half(t1, t2), t2}
  BY DEF Between
<1>10. QED
  BY <1>3, <1>6, <1>7, <1>8, <1>9

LEMMA FreesSteady ==
  ASSUME NEW t, NEW t1, NEW t2, NEW i, NEW j, i # j, Frees(t, t1, i), Frees(t1, t2, j)
  PROVE  Steady(t, t1, t2)
  BY DEF Frees, Steady

LEMMA InsertedKeeps ==
  ASSUME NEW t, NEW n, NEW slots, NEW a, slots \subseteq Slots, Inserted(t, n, slots, a)
  PROVE  \A i \in Slots : \/ n.bps[i] = t.bps[i]
                          \/ /\ i \in slots /\ n.bps[i].addr = a
                             /\ ~t.bps[i].used /\ n.bps[i].used
<1>1. CASE n = t
  BY <1>1
<1>2. CASE \E i \in slots : Takes(t, n, i, a)
  BY <1>2 DEF Takes
<1>3. QED
  BY <1>1, <1>2 DEF Inserted

LEMMA InsertedSteady ==
  ASSUME NEW t, NEW t1, NEW t2, NEW a, NEW b, Inserted(t, t1, Scratch, a),
         Inserted(t1, t2, Scratch, b)
  PROVE  Steady(t, t1, t2)
<1>1. \A i \in Slots : t1.bps[i] = t.bps[i] \/ t1.bps[i].used
  BY InsertedKeeps, SlotsLemma
<1>2. \A i \in Slots : t2.bps[i] = t1.bps[i] \/ ~t1.bps[i].used
  BY InsertedKeeps, SlotsLemma
<1>3. QED
  BY <1>1, <1>2 DEF Steady

----------------------------------------------------------------------------
(* Where instructions lead, in the program and with EBREAKs over it.       *)

(* A memory in the shape of a program.                                     *)
Patched(m, img) == m \in [Addr -> Parcels] /\ \A a \in Addr : m[a] \in {img[a], EbreakAt(a)}

LEMMA WrapId == ASSUME NEW a \in Addr PROVE Wrap(a) = a
  BY ProgramAssumption DEF Wrap, Addr

LEMMA DecodeLemma ==
  ASSUME Layout, NEW img \in Programs, NEW m, NEW p \in Starts, Patched(m, img)
  PROVE  /\ m[p].long = Wide(p)
         /\ Decode(m, p).kind = m[p].kind /\ Decode(m, p).kind \in Kinds
         /\ Decode(m, p).len = Size(p) /\ Wrap(p + Size(p)) \in Starts
         /\ Decode(m, p).off = IF Wide(p) THEN m[p + 1].off ELSE m[p].off
         /\ Decode(m, p).off \in Int
<1>1. p \in Addr /\ m \in [Addr -> Parcels] /\ m[p] \in {img[p], EbreakAt(p)}
  BY DEF Layout, Patched
<1>2. m[p].long = Wide(p)
  BY <1>1, LengthLemma
<1>3. m[p] \in Parcels /\ m[p].kind \in Kinds /\ m[p].off \in Int
  <2>1. m[p] \in Parcels
    BY <1>1
  <2>2. QED
    BY <2>1 DEF Layout
<1>4. Wrap(p + Size(p)) \in Starts
  BY DEF Layout, Proper
<1>5. CASE Wide(p)
  <2>1. p + 1 \in Addr
    BY <1>5, CellLemma
  <2>2. Wrap(p + 1) = p + 1
    BY <2>1, WrapId
  <2>3. m[p + 1] \in Parcels
    BY <1>1, <2>1
  <2>4. m[p + 1].off \in Int
    BY <2>3 DEF Layout
  <2>5. QED
    BY <1>2, <1>3, <1>4, <1>5, <2>2, <2>4 DEF Decode, Size
<1>6. CASE ~Wide(p)
  BY <1>2, <1>3, <1>4, <1>6 DEF Decode, Size
<1>7. QED
  BY <1>5, <1>6

LEMMA ImagePatched == ASSUME Layout, NEW img \in Programs PROVE Patched(img, img)
  BY DEF Layout, Proper, Patched

(* Jumps over planted halves of EBREAKs stay in the program.               *)
LEMMA DestLemma ==
  ASSUME Layout, NEW img \in Programs, NEW m, NEW p \in Starts, Patched(m, img),
         Decode(m, p).kind \in {"jump", "call", "branch"}
  PROVE  Wrap(p + Decode(m, p).off) \in Starts
<1>1. p \in Addr
  BY DEF Layout
<1>2. m[p].kind \in {"jump", "call", "branch"}
  BY DecodeLemma
<1>3. EbreakAt(p).kind = "trap"
  BY EbreakTypes DEF EbreakAt
<1>4. m[p] = img[p]
  BY <1>1, <1>2, <1>3 DEF Patched
<1>5. Decode(img, p).kind \in {"jump", "call", "branch"}
  BY <1>2, <1>4, ImagePatched, DecodeLemma
<1>6. Wrap(p + Decode(img, p).off) \in Starts
  BY <1>5 DEF Layout, Proper
<1>7. CASE ~Wide(p)
  <2>1. Decode(m, p).off = m[p].off /\ Decode(img, p).off = img[p].off
    BY <1>7, ImagePatched, DecodeLemma
  <2>2. QED
    BY <1>4, <1>6, <2>1
<1>8. CASE Wide(p)
  <2>1. Decode(m, p).off = m[p + 1].off /\ Decode(img, p).off = img[p + 1].off
    BY <1>8, ImagePatched, DecodeLemma
  <2>2. m[p + 1] \in {img[p + 1], EbreakAt(p + 1)}
    BY <1>8, CellLemma DEF Patched
  <2>3. CASE m[p + 1] = img[p + 1]
    BY <1>6, <2>1, <2>3
  <2>4. CASE m[p + 1] = EbreakAt(p + 1)
    <3>1. EbreakAt(p + 1).off = 0
      BY <1>8, EbreakTypes DEF EbreakAt, Wide
    <3>2. Decode(m, p).off = 0
      BY <2>1, <2>4, <3>1
    <3>3. p + 0 = p
      BY CellLemma
    <3>4. QED
      BY <1>1, <3>2, <3>3, WrapId
  <2>5. QED
    BY <2>2, <2>3, <2>4
<1>9. QED
  BY <1>7, <1>8

LEMMA SuccessorsLemma ==
  ASSUME Layout, NEW img \in Programs, NEW m, NEW p \in Starts, NEW r \in Starts,
         Patched(m, img), NEW s \in Successors(m, p, r)
  PROVE  s[1] \in Starts /\ s[2] \in Starts
<1> DEFINE i == Decode(m, p)
<1>1. /\ i.kind \in Kinds /\ Wrap(p + i.len) \in Starts
      /\ i.kind \in {"jump", "call", "branch"} => Wrap(p + i.off) \in Starts
  BY DecodeLemma, DestLemma
<1> DEFINE next == Wrap(p + i.len)
           dest == Wrap(p + i.off)
<1>2. s \in CASE i.kind = "seq"    -> {<< next, r >>}
              [] i.kind = "jump"   -> {<< dest, r >>}
              [] i.kind = "call"   -> {<< dest, next >>}
              [] i.kind = "branch" -> {<< next, r >>, << dest, r >>}
              [] i.kind = "return" -> {<< r, r >>}
              [] i.kind = "trap"   -> {}
  BY DEF Successors
<1> HIDE DEF i, next, dest
<1>3. next \in Starts /\ (i.kind \in {"jump", "call", "branch"} => dest \in Starts)
  BY <1>1 DEF next, dest
<1>4. CASE i.kind = "seq"
  BY <1>2, <1>3, <1>4
<1>5. CASE i.kind = "jump"
  BY <1>2, <1>3, <1>5
<1>6. CASE i.kind = "call"
  BY <1>2, <1>3, <1>6
<1>7. CASE i.kind = "branch"
  BY <1>2, <1>3, <1>7
<1>8. CASE i.kind = "return"
  BY <1>2, <1>3, <1>8
<1>9. CASE i.kind = "trap"
  BY <1>2, <1>3, <1>9
<1>10. QED
  BY <1>1, <1>4, <1>5, <1>6, <1>7, <1>8, <1>9 DEF Kinds

(* The prediction decodes as the core does.                                *)
LEMMA NextPcsLemma ==
  ASSUME Layout, NEW img \in Programs, NEW m, NEW p \in Starts, NEW r, Patched(m, img)
  PROVE  next_pcs(m, p, r) =
           LET i    == Decode(m, p)
               next == Wrap(p + i.len)
               dest == Wrap(p + i.off)
           IN IF i.kind \in {"jump", "call"} THEN << dest >>
              ELSE IF i.kind = "branch" THEN << next, dest >>
              ELSE IF i.kind = "return" THEN << r >>
              ELSE << next >>
<1>1. /\ m[p].long = Wide(p)
      /\ Decode(m, p).kind = m[p].kind
      /\ Decode(m, p).len = Size(p)
      /\ Decode(m, p).off = IF Wide(p) THEN m[p + 1].off ELSE m[p].off
  BY DecodeLemma
<1>2. CASE Wide(p)
  <2>1. LoadWord(m, p) = << m[p], m[p + 1] >>
    BY <1>2, CellLemma DEF LoadWord
  <2>2. next_pcs(m, p, r) = NextPcs32(m, p, r)
    BY <1>1, <1>2 DEF next_pcs
  <2>3. Decode(m, p).len = 2 /\ Decode(m, p).off = m[p + 1].off
    BY <1>1, <1>2 DEF Size
  <2>4. LoadWord(m, p)[1] = m[p] /\ LoadWord(m, p)[2] = m[p + 1]
    BY <2>1
  <2>5. LoadWord(m, p)[1].long
    BY <1>1, <1>2, <2>4
  <2>6. QED
    BY <1>1, <2>2, <2>3, <2>4, <2>5 DEF NextPcs32
<1>3. CASE ~Wide(p)
  <2>1. next_pcs(m, p, r) = NextPcs16(m, p, r)
    BY <1>1, <1>3 DEF next_pcs
  <2>2. Decode(m, p).len = 1 /\ Decode(m, p).off = m[p].off
    BY <1>1, <1>3 DEF Size
  <2>3. QED
    BY <1>1, <2>1, <2>2 DEF NextPcs16
<1>4. QED
  BY <1>2, <1>3

LEMMA TargetsLemma ==
  ASSUME Layout, NEW img \in Programs, NEW m, NEW p \in Starts, NEW r \in Starts,
         Patched(m, img), NEW targets, targets = next_pcs(m, p, r)
  PROVE  AreTargets(targets)
<1> DEFINE i == Decode(m, p)
           next == Wrap(p + i.len)
           dest == Wrap(p + i.off)
<1>1. targets = IF i.kind \in {"jump", "call"} THEN << dest >>
                ELSE IF i.kind = "branch" THEN << next, dest >>
                ELSE IF i.kind = "return" THEN << r >>
                ELSE << next >>
  BY NextPcsLemma
<1>2. /\ next \in Starts
      /\ i.kind \in {"jump", "call", "branch"} => dest \in Starts
  BY DecodeLemma, DestLemma
<1> HIDE DEF i, next, dest
<1>3. QED
  BY <1>1, <1>2 DEF AreTargets

----------------------------------------------------------------------------
(* The invariant.                                                          *)

LEMMA CopyLemma ==
  ASSUME NEW t, NEW c, c = [mem |-> t.mem, bps |-> t.bps], NEW img, NEW sc
  PROVE  /\ TableInv(t, img, sc) => TableInv(c, img, sc)
         /\ NoScratch(t, sc) => NoScratch(c, sc)
<1>1. c.mem = t.mem /\ c.bps = t.bps
  OBVIOUS
<1>2. Shape(t, img) => Shape(c, img)
  BY <1>1 DEF Shape
<1>3. Distinct(t) => Distinct(c)
  BY <1>1 DEF Distinct
<1>4. \A slots, a : Covers(t, slots, a) <=> Covers(c, slots, a)
  BY <1>1 DEF Covers
<1>5. Intact(t, img, sc) => Intact(c, img, sc)
  BY <1>1, <1>4 DEF Intact
<1>6. NoScratch(t, sc) => NoScratch(c, sc)
  BY <1>1 DEF NoScratch
<1>7. QED
  BY <1>2, <1>3, <1>5, <1>6 DEF TableInv

LEMMA PutTableLemma ==
  ASSUME NEW t, NEW img, NEW sc, PutTable(t)
  PROVE  /\ TableInv(t, img, sc) => TableInv(Table', img, sc)
         /\ NoScratch(t, sc) => NoScratch(Table', sc)
<1>1. Table' = [mem |-> t.mem, bps |-> t.bps]
  BY DEF PutTable, Table
<1>2. QED
  BY <1>1, CopyLemma

LEMMA SameTable == ASSUME UNCHANGED << mem, bps >> PROVE Table' = Table
  BY DEF Table

LEMMA TablePatched ==
  ASSUME TableInv(Table, image, scarred)
  PROVE  Shape(Table, image) /\ Patched(mem, image)
<1>1. Shape(Table, image) /\ Table.mem = mem
  BY DEF TableInv, Table
<1>2. QED
  BY <1>1 DEF Shape, Patched

LEMMA StubOutside == ASSUME Layout PROVE StubPC \notin Starts /\ StubPC \notin Addr /\ 0 \in Starts
  BY ProgramAssumption DEF Layout, Addr

LEMMA InitStub ==
  ASSUME Layout, Init
  PROVE  StubInv
<1>1. /\ image \in Programs /\ mem = image
      /\ bps = [i \in Slots |-> Free] /\ stepping = FALSE
  BY DEF Init, Layout, Cleared
<1>2. Table.mem = image /\ Table.bps \in [Slots -> SlotType] /\ \A i \in Slots : ~Table.bps[i].used
  BY <1>1, FreeLemma DEF Table
<1>3. image \in [Addr -> Parcels]
  BY <1>1 DEF Layout, Proper
<1>4. Shape(Table, image)
  BY <1>2, <1>3 DEF Shape
<1>5. Distinct(Table)
  BY <1>2 DEF Distinct
<1>6. \A a : ~Covers(Table, Slots, a)
  BY <1>2 DEF Covers
<1>7. Intact(Table, image, scarred)
  BY <1>2, <1>6 DEF Intact
<1>8. NoScratch(Table, scarred)
  BY <1>2, SlotsLemma DEF NoScratch
<1>9. RegInv /\ FlagInv
  <2>1. ~InStub
    BY StubOutside DEF Init, InStub
  <2>2. RegInv
    BY <2>1, StubOutside DEF Init, RegInv
  <2>3. stepping \in BOOLEAN /\ mask \in BOOLEAN /\ raced \in BOOLEAN
    BY <1>1 DEF Init
  <2>4. left \in -1 .. Unlimited /\ scarred = {}
    BY DEF Init, Unlimited
  <2>5. reply = "none" /\ ~mask
    BY DEF Init
  <2>6. FlagInv
    BY <2>1, <2>3, <2>4, <2>5 DEF FlagInv
  <2>7. QED
    BY <2>2, <2>6
<1>10. QED
  BY <1>1, <1>4, <1>5, <1>7, <1>8, <1>9 DEF StubInv, TableInv

(* Entering gives the scratch slots back.                                  *)
LEMMA EntryTable ==
  ASSUME Layout, StubInv, PutTable(IF stepping THEN remove_step_bps(Table) ELSE Table)
  PROVE  TableInv(Table', image, scarred) /\ NoScratch(Table', scarred)
<1>1. image \in Programs /\ TableInv(Table, image, scarred) /\ (~stepping => NoScratch(Table, scarred))
  BY DEF StubInv
<1>2. scarred \in SUBSET Addr
  BY DEF StubInv, FlagInv
<1>3. CASE ~stepping
  <2>1. PutTable(Table)
    BY <1>3
  <2>2. QED
    BY <1>1, <1>3, <2>1, PutTableLemma
<1>4. CASE stepping
  <2> DEFINE t1 == Lift(Table, NUser + 1)
             t2 == Lift(t1, NUser + 2)
  <2>1. PutTable(t2)
    BY <1>4 DEF remove_step_bps
  <2>2. TableInv(t2, image, scarred) /\ Frees(Table, t1, NUser + 1) /\ Frees(t1, t2, NUser + 2)
    BY <1>1, <1>2, RemoveStepsLemma
  <2> HIDE DEF t1, t2
  <2>3. NoScratch(t2, scarred)
    BY <2>2, SlotsLemma DEF Frees, NoScratch
  <2>4. QED
    BY <2>1, <2>2, <2>3, PutTableLemma
<1>5. QED
  BY <1>3, <1>4

LEMMA EnterLemma ==
  ASSUME Layout, StubInv, NEW mepc, NEW r, EnterStub(mepc, r),
         \/ mepc \in Starts /\ r \in Starts
         \/ mepc = StubPC /\ r = StubValue,
         mask' \in BOOLEAN, raced' \in BOOLEAN, raced => raced', scarred' = scarred
  PROVE  StubInv'
<1>1. /\ pc' = StubPC /\ reg' = StubValue /\ g_pc' = mepc /\ g_reg' = r
      /\ PutTable(IF stepping THEN remove_step_bps(Table) ELSE Table)
      /\ stepping' = FALSE /\ reply' = "T05" /\ left' = Unlimited /\ image' = image
  BY DEF EnterStub, SaveFrame, gdb_stub_entry
<1>2. TableInv(Table', image', scarred') /\ NoScratch(Table', scarred')
  BY <1>1, EntryTable
<1>3. RegInv'
  BY <1>1, StubOutside DEF RegInv, InStub
<1>4. FlagInv'
  <2>1. scarred' \subseteq Addr /\ (scarred' # {} => raced')
    BY DEF StubInv, FlagInv
  <2>2. InStub'
    BY <1>1 DEF InStub
  <2>3. (stepping \in BOOLEAN /\ mask \in BOOLEAN /\ raced \in BOOLEAN)'
    BY <1>1
  <2>4. (left \in -1 .. Unlimited)'
    BY <1>1 DEF Unlimited
  <2>5. (InStub => reply # "none" /\ ~stepping /\ left = Unlimited)'
    BY <1>1
  <2>6. QED
    BY <2>1, <2>2, <2>3, <2>4, <2>5 DEF FlagInv
<1>5. QED
  BY <1>1, <1>2, <1>3, <1>4 DEF StubInv

LEMMA RunFacts ==
  ASSUME Layout, StubInv, ~InStub
  PROVE  /\ pc \in Starts /\ reg \in Starts
         /\ \A s \in Successors(mem, pc, reg) : s[1] \in Starts /\ s[2] \in Starts
         /\ Wrap(pc + Decode(mem, pc).len) \in Starts
<1>1. pc \in Starts /\ reg \in Starts
  BY DEF StubInv, RegInv
<1>2. image \in Programs /\ Patched(mem, image)
  BY TablePatched DEF StubInv
<1>3. QED
  BY <1>1, <1>2, SuccessorsLemma, DecodeLemma

LEMMA ExecuteStub == ASSUME Layout, StubInv, Execute PROVE StubInv'
<1>1. \E s \in Successors(mem, pc, reg) : pc' = s[1] /\ reg' = s[2]
  BY DEF Execute
<1>2. ~InStub /\ pc' \in Starts /\ reg' \in Starts
  BY <1>1, RunFacts DEF Execute
<1>3. UNCHANGED << mem, g_pc, g_reg, bps, stepping, mask, reply, image, raced, scarred >>
  BY DEF Execute
<1>4. RegInv'
  BY <1>2, <1>3, StubOutside DEF StubInv, RegInv, InStub
<1>5. left' \in -1 .. Unlimited
  BY DEF Execute, StubInv, FlagInv, Unlimited
<1>6. FlagInv'
  BY <1>2, <1>3, <1>5, StubOutside DEF StubInv, FlagInv, InStub
<1>7. Table' = Table
  BY <1>3, SameTable
<1>8. QED
  BY <1>3, <1>4, <1>6, <1>7 DEF StubInv

LEMMA HaltsStub ==
  ASSUME Layout, StubInv, Ebreak \/ Halt \/ HaltOnEbreak \/ HaltInStub
  PROVE  StubInv'
<1>0. raced \in BOOLEAN /\ mask \in BOOLEAN
  BY DEF StubInv, FlagInv
<1>1. CASE Ebreak
  BY <1>0, <1>1, RunFacts, EnterLemma DEF Ebreak
<1>2. CASE Halt
  <2>1. PICK s \in Successors(mem, pc, reg) : EnterStub(s[1], s[2])
    BY <1>2 DEF Halt
  <2>2. s[1] \in Starts /\ s[2] \in Starts
    BY <1>2, RunFacts DEF Halt
  <2>3. mask' \in BOOLEAN /\ raced' = raced /\ scarred' = scarred
    BY <1>2 DEF Halt
  <2>4. QED
    BY <1>0, <2>1, <2>2, <2>3, EnterLemma
<1>3. CASE HaltOnEbreak
  BY <1>0, <1>3, RunFacts, EnterLemma DEF HaltOnEbreak
<1>4. CASE HaltInStub
  BY <1>0, <1>4, EnterLemma DEF HaltInStub
<1>5. QED
  BY <1>1, <1>2, <1>3, <1>4

(* A write between the breakpoints changes the program and nothing else.   *)
Writes(t, n, x, v) ==
  /\ \A i \in Slots : x \notin CoveredBy(t.bps[i])
  /\ n.mem = [t.mem EXCEPT ![x] = v] /\ n.bps = t.bps

LEMMA WriteLemma ==
  ASSUME Layout, NEW img \in Programs, NEW img2 \in Programs, NEW sc, NEW t, NEW n,
         NEW x \in Addr, NEW v, img2 = [img EXCEPT ![x] = v],
         TableInv(t, img, sc), Writes(t, n, x, v)
  PROVE  TableInv(n, img2, sc)
<1>0. /\ \A i \in Slots : x \notin CoveredBy(t.bps[i])
      /\ n.mem = [t.mem EXCEPT ![x] = v] /\ n.bps = t.bps
  BY DEF Writes
<1>1. Shape(t, img) /\ Distinct(t) /\ Intact(t, img, sc)
  BY DEF TableInv
<1>2. img \in [Addr -> Parcels] /\ img2 \in [Addr -> Parcels]
  BY DEF Layout, Proper
<1>3. img2[x] = v /\ v \in Parcels /\ \A a \in Addr \ {x} : img2[a] = img[a]
  BY <1>2
<1>4. t.mem \in [Addr -> Parcels]
  BY <1>1 DEF Shape
<1>5. n.mem \in [Addr -> Parcels] /\ n.mem[x] = v /\ \A a \in Addr \ {x} : n.mem[a] = t.mem[a]
  BY <1>0, <1>3, <1>4
<1>6. \A i \in Slots : t.bps[i].used =>
        t.bps[i].addr \in Starts /\ Cell(t.bps[i].addr) \subseteq Addr \ {x}
  <2> SUFFICES ASSUME NEW i \in Slots, t.bps[i].used
               PROVE  t.bps[i].addr \in Starts /\ Cell(t.bps[i].addr) \subseteq Addr \ {x}
    OBVIOUS
  <2>1. t.bps[i].addr \in Starts
    BY <1>1 DEF Shape
  <2>2. CoveredBy(t.bps[i]) = Cell(t.bps[i].addr)
    BY <1>1, CoveredLemma
  <2>3. QED
    BY <1>0, <2>1, <2>2, CellLemma
<1>7. \A a \in Addr : n.mem[a] \in {img2[a], EbreakAt(a)}
  <2> SUFFICES ASSUME NEW a \in Addr PROVE n.mem[a] \in {img2[a], EbreakAt(a)}
    OBVIOUS
  <2>1. t.mem[a] \in {img[a], EbreakAt(a)}
    BY <1>1 DEF Shape
  <2>2. QED
    BY <1>3, <1>5, <2>1
<1>8. ASSUME NEW i \in Slots, n.bps[i].used
      PROVE  LET s == n.bps[i].addr
             IN /\ s \in Starts /\ Len(n.bps[i].orig) = Size(s)
                /\ \A a \in Cell(s) : n.bps[i].orig[a - s + 1] \in {img2[a], EbreakAt(a)}
  <2>1. n.bps[i] = t.bps[i] /\ t.bps[i].used
    BY <1>0, <1>8
  <2> DEFINE s == t.bps[i].addr
  <2>2. /\ s \in Starts /\ Len(t.bps[i].orig) = Size(s)
        /\ \A a \in Cell(s) : t.bps[i].orig[a - s + 1] \in {img[a], EbreakAt(a)}
    BY <1>1, <2>1 DEF Shape
  <2>3. \A a \in Cell(s) : img2[a] = img[a]
    BY <1>3, <1>6, <2>1
  <2>4. QED
    BY <2>1, <2>2, <2>3
<1>9. Shape(n, img2)
  <2>1. n.bps \in [Slots -> SlotType]
    BY <1>0, <1>1 DEF Shape
  <2>2. QED
    BY <1>5, <1>7, <1>8, <2>1 DEF Shape
<1>10. Distinct(n)
  BY <1>0, <1>1 DEF Distinct
<1>11. \A slots, a : Covers(n, slots, a) <=> Covers(t, slots, a)
  BY <1>0 DEF Covers
<1>12. ~Covers(t, Slots, x)
  BY <1>6 DEF Covers
<1>13. ASSUME NEW a \in Addr \ sc
       PROVE  n.mem[a] = IF Covers(n, Slots, a) THEN EbreakAt(a) ELSE img2[a]
  <2>1. CASE a = x
    BY <1>3, <1>5, <1>11, <1>12, <2>1
  <2>2. CASE a # x
    <3>1. t.mem[a] = IF Covers(t, Slots, a) THEN EbreakAt(a) ELSE img[a]
      BY <1>1 DEF Intact
    <3>2. QED
      BY <1>3, <1>5, <1>11, <2>2, <3>1
  <2>3. QED
    BY <2>1, <2>2
<1>14. ASSUME NEW i \in Slots, n.bps[i].used, NEW a \in Cell(n.bps[i].addr) \ sc
       PROVE  n.bps[i].orig[a - n.bps[i].addr + 1] =
                IF i \in Scratch /\ Covers(n, User, a) THEN EbreakAt(a) ELSE img2[a]
  <2>1. n.bps[i] = t.bps[i] /\ t.bps[i].used /\ a \in Cell(t.bps[i].addr) \ sc
    BY <1>0, <1>14
  <2>2. t.bps[i].orig[a - t.bps[i].addr + 1] =
          IF i \in Scratch /\ Covers(t, User, a) THEN EbreakAt(a) ELSE img[a]
    BY <1>1, <2>1 DEF Intact
  <2>3. img2[a] = img[a]
    BY <1>3, <1>6, <2>1
  <2>4. QED
    BY <1>11, <2>1, <2>2, <2>3
<1>15. Intact(n, img2, sc)
  BY <1>13, <1>14 DEF Intact
<1>16. QED
  BY <1>9, <1>10, <1>15 DEF TableInv

(* A command leaves the table in order.                                    *)
LEMMA CommandLemma ==
  ASSUME Layout, StubInv, InStub, UNCHANGED << pc, reg, stepping, mask, left, raced, scarred >>,
         reply' # "none", image' \in Programs,
         UNCHANGED << g_pc, g_reg >> \/ (g_pc' \in Starts /\ g_reg' \in Starts),
         TableInv(Table', image', scarred), NoScratch(Table', scarred)
  PROVE  StubInv'
<1>1. RegInv'
  BY DEF StubInv, RegInv, InStub
<1>2. FlagInv'
  BY DEF StubInv, FlagInv, InStub
<1>3. QED
  BY <1>1, <1>2 DEF StubInv

LEMMA InsideFacts ==
  ASSUME Layout, StubInv, InStub
  PROVE  /\ image \in Programs /\ scarred \in SUBSET Addr
         /\ TableInv(Table, image, scarred) /\ NoScratch(Table, scarred)
         /\ Patched(mem, image)
         /\ ResumeAddrs \subseteq Starts /\ (ResumeAddrs # {} => g_reg \in Starts)
<1>1. /\ image \in Programs /\ scarred \in SUBSET Addr
      /\ TableInv(Table, image, scarred) /\ NoScratch(Table, scarred)
  BY DEF StubInv, FlagInv
<1>2. Patched(mem, image)
  BY <1>1, TablePatched
<1>3. g_pc \in Addr => g_pc \in Starts /\ g_reg \in Starts
  BY StubOutside DEF StubInv, RegInv
<1>4. ResumeAddrs \subseteq Starts /\ (ResumeAddrs # {} => g_reg \in Starts)
  BY <1>3 DEF ResumeAddrs, Layout
<1>5. QED
  BY <1>1, <1>2, <1>4

LEMMA QuietStub ==
  ASSUME Layout, StubInv, NEW r, r # "none", Answers(r) \/ (cmd_write_regs /\ r = "OK")
  PROVE  StubInv'
<1>1. /\ InStub /\ UNCHANGED << mem, bps, image, pc, reg, stepping, mask, left, raced, scarred >>
      /\ reply' = r
  BY DEF Answers, cmd_write_regs
<1>2. UNCHANGED << g_pc, g_reg >> \/ (g_pc' \in Starts /\ g_reg' \in Starts)
  BY DEF Answers, cmd_write_regs, Layout
<1>3. Table' = Table
  BY <1>1, SameTable
<1>4. QED
  BY <1>1, <1>2, <1>3, InsideFacts, CommandLemma

LEMMA WriteStub == ASSUME Layout, StubInv, cmd_write_mem PROVE StubInv'
<1>1. PICK w \in HostWrites :
        /\ w[1] \notin UNION {Covered(i) : i \in Slots}
        /\ mem' = [mem EXCEPT ![w[1]] = w[2]]
        /\ image' = [image EXCEPT ![w[1]] = w[2]]
  BY DEF cmd_write_mem
<1>2. /\ InStub /\ reply' = "OK"
      /\ UNCHANGED << pc, reg, g_pc, g_reg, bps, stepping, mask, left, raced, scarred >>
  BY DEF cmd_write_mem
<1>3. image \in Programs /\ TableInv(Table, image, scarred) /\ NoScratch(Table, scarred)
  BY <1>2, InsideFacts
<1>4. w[1] \in Addr
  BY StubAssumption
<1>5. image' \in Programs
  BY <1>1, <1>3 DEF Layout
<1>6. Table'.mem = [Table.mem EXCEPT ![w[1]] = w[2]] /\ Table'.bps = Table.bps
  BY <1>1, <1>2 DEF Table
<1>7. \A i \in Slots : w[1] \notin CoveredBy(Table.bps[i])
  BY <1>1 DEF Covered, Table
<1>8. TableInv(Table', image', scarred)
  <2> DEFINE x == w[1]
             v == w[2]
  <2>1. Writes(Table, Table', x, v)
    BY <1>6, <1>7 DEF Writes
  <2>2. x \in Addr /\ image' = [image EXCEPT ![x] = v]
    BY <1>1, <1>4
  <2> HIDE DEF x, v
  <2>3. QED
    BY <1>3, <1>5, <2>1, <2>2, WriteLemma
<1>9. NoScratch(Table', scarred)
  BY <1>3, <1>6 DEF NoScratch
<1>10. QED
  BY <1>2, <1>5, <1>8, <1>9, CommandLemma

(* The scratch slots stay as they are when a user slot is taken or given   *)
(* back.                                                                   *)
LEMMA UserKeepsScratch ==
  ASSUME NEW t, NEW n, NEW a, NEW sc, NoScratch(t, sc),
         Inserted(t, n, User, a) \/ Removed(t, n, a)
  PROVE  NoScratch(n, sc)
<1>1. \A i \in Scratch : n.bps[i] = t.bps[i]
  <2>1. CASE Inserted(t, n, User, a)
    BY <2>1, InsertedKeeps, SlotsLemma
  <2>2. CASE Removed(t, n, a)
    BY <2>2, SlotsLemma DEF Removed, Frees
  <2>3. QED
    BY <2>1, <2>2
<1>2. QED
  BY <1>1 DEF NoScratch

LEMMA UserTables ==
  ASSUME Layout, StubInv, InStub, NEW a \in HostAddrs, NEW n,
         n \in {bp_insert(Table, a, FALSE), bp_remove(Table, a, FALSE)}
  PROVE  /\ TableInv(n, image, scarred) /\ NoScratch(n, scarred)
         /\ n = bp_insert(Table, a, FALSE) => Inserted(Table, n, User, a)
         /\ n = bp_remove(Table, a, FALSE) => Removed(Table, n, a)
<1>1. /\ image \in Programs /\ scarred \in SUBSET Addr
      /\ TableInv(Table, image, scarred) /\ NoScratch(Table, scarred)
  BY InsideFacts
<1>2. a \in Starts
  BY DEF Layout
<1>3. User = SlotsOf(FALSE)
  BY DEF SlotsOf
<1>4. /\ TableInv(bp_insert(Table, a, FALSE), image, scarred)
      /\ Inserted(Table, bp_insert(Table, a, FALSE), User, a)
  BY <1>1, <1>2, <1>3, InsertLemma
<1>5. /\ TableInv(bp_remove(Table, a, FALSE), image, scarred)
      /\ Removed(Table, bp_remove(Table, a, FALSE), a)
  BY <1>1, RemoveLemma
<1>6. QED
  BY <1>1, <1>4, <1>5, UserKeepsScratch

LEMMA BreakpointStub == ASSUME Layout, StubInv, cmd_insert_bp \/ cmd_remove_bp PROVE StubInv'
<1>1. PICK a \in HostAddrs :
        \E n \in {bp_insert(Table, a, FALSE), bp_remove(Table, a, FALSE)} : PutTable(n)
  BY DEF cmd_insert_bp, cmd_remove_bp
<1>2. /\ InStub /\ reply' \in {"OK", "E01"}
      /\ UNCHANGED << pc, reg, g_pc, g_reg, stepping, mask, image, left, raced, scarred >>
  BY DEF cmd_insert_bp, cmd_remove_bp
<1>3. PICK n \in {bp_insert(Table, a, FALSE), bp_remove(Table, a, FALSE)} : PutTable(n)
  BY <1>1
<1>4. TableInv(n, image, scarred) /\ NoScratch(n, scarred)
  BY <1>2, UserTables
<1>5. TableInv(Table', image, scarred) /\ NoScratch(Table', scarred)
  BY <1>3, <1>4, PutTableLemma
<1>6. image' \in Programs
  BY <1>2, InsideFacts
<1>7. QED
  BY <1>2, <1>5, <1>6, CommandLemma

(* The tables on the way of a step.                                        *)
LEMMA StepTables ==
  ASSUME Layout, StubInv, InStub, NEW a \in ResumeAddrs, NEW targets, NEW t1, NEW t2,
         targets = next_pcs(mem, a, g_reg),
         t1 = FirstPlanted(Table, targets), t2 = PlantSteps(Table, targets)
  PROVE  /\ TableInv(t1, image, scarred) /\ TableInv(t2, image, scarred)
         /\ Steady(Table, t1, t2)
         /\ PlantedFor(Table, t1, t2, targets)
<1>1. /\ image \in Programs /\ scarred \in SUBSET Addr
      /\ TableInv(Table, image, scarred) /\ Patched(mem, image)
      /\ a \in Starts /\ g_reg \in Starts
  BY InsideFacts
<1>2. AreTargets(targets)
  BY <1>1, TargetsLemma
<1>3. /\ TableInv(t1, image, scarred) /\ TableInv(t2, image, scarred)
      /\ PlantedFor(Table, t1, t2, targets)
  BY <1>1, <1>2, PlantLemma
<1>4. Steady(Table, t1, t2)
  <2>1. CASE Len(targets) = 2
    BY <1>3, <2>1, InsertedSteady DEF PlantedFor
  <2>2. CASE Len(targets) # 2
    BY <1>3, <2>2 DEF Steady, PlantedFor
  <2>3. QED
    BY <2>1, <2>2
<1>5. QED
  BY <1>3, <1>4

(* The way out.                                                            *)
LEMMA ResumeLemma ==
  ASSUME Layout, StubInv, InStub, NEW a \in ResumeAddrs, RestoreFrame(a),
         stepping' \in BOOLEAN, left' \in {1, Unlimited},
         TableInv(Table', image, scarred), ~stepping' => NoScratch(Table', scarred)
  PROVE  StubInv'
<1>1. a \in Starts /\ g_reg \in Starts /\ image \in Programs
  BY InsideFacts
<1>2. /\ pc' = a /\ reg' = g_reg /\ g_pc' = 0 /\ g_reg' = 0 /\ mask' = FALSE /\ reply' = "none"
      /\ UNCHANGED << image, raced, scarred >>
  BY DEF RestoreFrame
<1>3. ~InStub'
  BY <1>1, <1>2, StubOutside DEF InStub
<1>4. RegInv'
  BY <1>1, <1>2, <1>3 DEF RegInv
<1>5. left' \in -1 .. Unlimited
  BY DEF Unlimited
<1>6. FlagInv'
  <2>1. raced' \in BOOLEAN /\ scarred' \subseteq Addr /\ (scarred' # {} => raced')
    BY <1>2 DEF StubInv, FlagInv
  <2>2. QED
    BY <1>2, <1>3, <1>5, <2>1 DEF FlagInv
<1>7. QED
  BY <1>1, <1>2, <1>4, <1>6 DEF StubInv

LEMMA ResumeStub == ASSUME Layout, StubInv, cmd_continue \/ cmd_step PROVE StubInv'
<1>1. CASE cmd_continue
  <2>1. PICK a \in ResumeAddrs : RestoreFrame(a)
    BY <1>1 DEF cmd_continue
  <2>2. InStub /\ UNCHANGED << mem, bps, stepping >> /\ left' = Unlimited
    BY <1>1 DEF cmd_continue
  <2>3. Table' = Table /\ TableInv(Table, image, scarred) /\ NoScratch(Table, scarred)
    BY <2>2, SameTable, InsideFacts
  <2>4. stepping' \in BOOLEAN
    BY <2>2 DEF StubInv, FlagInv
  <2>5. QED
    BY <2>1, <2>2, <2>3, <2>4, ResumeLemma
<1>2. CASE cmd_step
  <2>1. PICK a \in ResumeAddrs :
          PutTable(PlantSteps(Table, next_pcs(mem, a, g_reg))) /\ RestoreFrame(a)
    BY <1>2 DEF cmd_step
  <2>2. InStub /\ stepping' = TRUE /\ left' = 1
    BY <1>2 DEF cmd_step
  <2>3. TableInv(PlantSteps(Table, next_pcs(mem, a, g_reg)), image, scarred)
    BY <2>2, StepTables
  <2>4. TableInv(Table', image, scarred)
    BY <2>1, <2>3, PutTableLemma
  <2>5. QED
    BY <2>1, <2>2, <2>4, ResumeLemma
<1>3. QED
  BY <1>1, <1>2

(* The tables a command cut short may leave.                               *)
LEMMA CutAtLemma ==
  ASSUME Layout, StubInv, NEW t1, NEW t2, NEW cuts, CutAt(cuts, t2),
         TableInv(t1, image, scarred), TableInv(t2, image, scarred), Steady(Table, t1, t2),
         cuts \subseteq Between(Table, t1, t2) \cup {t2}
  PROVE  /\ raced' = TRUE /\ scarred' \subseteq Addr
         /\ TableInv(Table', image, scarred')
         /\ NoScratch(Table, scarred) => NoScratch(Table', scarred')
<1>1. PICK cut \in cuts : PutTable(cut)
  BY DEF CutAt
<1>2. scarred' = scarred \cup Touched(Table, t2) /\ raced' = TRUE
  BY DEF CutAt
<1>3. image \in Programs /\ TableInv(Table, image, scarred) /\ scarred \in SUBSET Addr
  BY DEF StubInv, FlagInv
<1>4. cut \in Between(Table, t1, t2) \cup {t2}
  BY <1>1
<1>5. /\ scarred' \subseteq Addr
      /\ TableInv(cut, image, scarred')
      /\ NoScratch(Table, scarred) => NoScratch(cut, scarred')
  BY <1>2, <1>3, <1>4, CutLemma
<1>6. QED
  BY <1>1, <1>2, <1>5, PutTableLemma

LEMMA CutCommandLemma ==
  ASSUME Layout, StubInv, InStub, CutCommand
  PROVE  /\ raced' = TRUE /\ scarred' \subseteq Addr
         /\ TableInv(Table', image, scarred') /\ NoScratch(Table', scarred')
<1>0. NoScratch(Table, scarred)
  BY InsideFacts
<1>1. CASE \E a \in HostAddrs :
             \E next \in {bp_insert(Table, a, FALSE), bp_remove(Table, a, FALSE)} :
               next # Table /\ CutAt({Half(Table, next)}, next)
  <2>1. PICK a \in HostAddrs :
             \E next \in {bp_insert(Table, a, FALSE), bp_remove(Table, a, FALSE)} :
               next # Table /\ CutAt({Half(Table, next)}, next)
    BY <1>1
  <2>2. PICK next \in {bp_insert(Table, a, FALSE), bp_remove(Table, a, FALSE)} :
               next # Table /\ CutAt({Half(Table, next)}, next)
    BY <2>1
  <2>3. TableInv(next, image, scarred)
    BY UserTables
  <2>4. Steady(Table, next, next)
    BY DEF Steady
  <2>5. {Half(Table, next)} \subseteq Between(Table, next, next) \cup {next}
    BY DEF Between
  <2>6. QED
    BY <1>0, <2>2, <2>3, <2>4, <2>5, CutAtLemma
<1>2. CASE \E a \in ResumeAddrs :
             LET targets == next_pcs(mem, a, g_reg)
                 t1      == bp_insert(Table, targets[1], TRUE)
                 t2      == PlantSteps(Table, targets)
             IN CutAt(Between(Table, t1, t2) \cup {t2}, t2)
  <2>1. PICK a \in ResumeAddrs :
             LET targets == next_pcs(mem, a, g_reg)
                 t1      == bp_insert(Table, targets[1], TRUE)
                 t2      == PlantSteps(Table, targets)
             IN CutAt(Between(Table, t1, t2) \cup {t2}, t2)
    BY <1>2
  <2> DEFINE targets == next_pcs(mem, a, g_reg)
             t1      == FirstPlanted(Table, targets)
             t2      == PlantSteps(Table, targets)
  <2>2. CutAt(Between(Table, t1, t2) \cup {t2}, t2)
    BY <2>1 DEF FirstPlanted
  <2>3. TableInv(t1, image, scarred) /\ TableInv(t2, image, scarred) /\ Steady(Table, t1, t2)
    BY StepTables
  <2> HIDE DEF targets, t1, t2
  <2>4. QED
    BY <1>0, <2>2, <2>3, CutAtLemma
<1>3. QED
  BY <1>1, <1>2 DEF CutCommand

(* A reset goes back to the start of the program, the table stays in order. *)
LEMMA RestartLemma ==
  ASSUME Layout, StubInv, Restart, raced' \in BOOLEAN, scarred' \subseteq Addr,
         scarred' # {} => raced',
         TableInv(Table', image, scarred'), ~stepping => NoScratch(Table', scarred')
  PROVE  StubInv'
<1>1. /\ pc' = 0 /\ mask' = FALSE /\ reply' = "none" /\ left' = Unlimited
      /\ reg' = (IF InStub THEN 0 ELSE reg) /\ g_pc' = 0 /\ g_reg' = 0
      /\ UNCHANGED << stepping, image >>
  BY DEF Restart
<1>2. reg' \in Starts
  BY <1>1, StubOutside DEF StubInv, RegInv
<1>3. ~InStub'
  BY <1>1, StubOutside DEF InStub
<1>4. RegInv'
  BY <1>1, <1>2, <1>3, StubOutside DEF RegInv
<1>5. stepping' \in BOOLEAN
  BY <1>1 DEF StubInv, FlagInv
<1>6. mask' \in BOOLEAN
  BY <1>1
<1>7. left' \in -1 .. Unlimited
  BY <1>1 DEF Unlimited
<1>8. FlagInv'
  BY <1>1, <1>3, <1>5, <1>6, <1>7 DEF FlagInv
<1>9. QED
  BY <1>1, <1>4, <1>8 DEF StubInv

LEMMA ResetStub ==
  ASSUME Layout, StubInv, Reset \/ ResetInCommand \/ ResetInEntry
  PROVE  StubInv'
<1>0. /\ scarred \subseteq Addr /\ raced \in BOOLEAN /\ (scarred # {} => raced)
      /\ TableInv(Table, image, scarred) /\ (~stepping => NoScratch(Table, scarred))
  BY DEF StubInv, FlagInv
<1>1. CASE Reset
  <2>1. Restart /\ UNCHANGED << mem, bps, raced, scarred >>
    BY <1>1 DEF Reset
  <2>2. Table' = Table
    BY <2>1, SameTable
  <2>3. QED
    BY <1>0, <2>1, <2>2, RestartLemma
<1>2. CASE ResetInCommand
  <2>1. InStub /\ CutCommand /\ Restart
    BY <1>2 DEF ResetInCommand
  <2>2. QED
    BY <2>1, CutCommandLemma, RestartLemma
<1>3. CASE ResetInEntry
  <2> DEFINE t1 == Lift(Table, NUser + 1)
             t2 == Lift(t1, NUser + 2)
  <2>1. stepping /\ CutAt(Between(Table, t1, t2) \cup {t2}, t2) /\ Restart
    BY <1>3 DEF ResetInEntry
  <2>2. image \in Programs /\ scarred \in SUBSET Addr
    BY <1>0 DEF StubInv
  <2>3. /\ TableInv(t1, image, scarred) /\ TableInv(t2, image, scarred)
        /\ Frees(Table, t1, NUser + 1) /\ Frees(t1, t2, NUser + 2)
    BY <1>0, <2>2, RemoveStepsLemma
  <2> HIDE DEF t1, t2
  <2>4. Steady(Table, t1, t2)
    BY <2>3, SlotsLemma, FreesSteady
  <2>5. raced' = TRUE /\ scarred' \subseteq Addr /\ TableInv(Table', image, scarred')
    BY <2>1, <2>3, <2>4, CutAtLemma
  <2>6. QED
    BY <2>1, <2>5, RestartLemma
<1>4. QED
  BY <1>1, <1>2, <1>3

LEMMA HaltInCommandStub == ASSUME Layout, StubInv, HaltInCommand PROVE StubInv'
<1>1. /\ InStub /\ CutCommand
      /\ pc' = StubPC /\ reg' = StubValue /\ g_pc' = StubPC /\ g_reg' = StubValue
      /\ mask' = TRUE /\ reply' = "T05" /\ UNCHANGED << stepping, image, left >>
  BY DEF HaltInCommand, SaveFrame
<1>2. /\ raced' = TRUE /\ scarred' \subseteq Addr
      /\ TableInv(Table', image, scarred') /\ NoScratch(Table', scarred')
  BY <1>1, CutCommandLemma
<1>3. RegInv'
  BY <1>1 DEF RegInv, InStub
<1>4. InStub' /\ left' = Unlimited /\ ~stepping' /\ stepping' \in BOOLEAN
  BY <1>1 DEF StubInv, FlagInv, InStub
<1>5. left' \in -1 .. Unlimited
  BY <1>4 DEF Unlimited
<1>6. FlagInv'
  BY <1>1, <1>2, <1>4, <1>5 DEF FlagInv
<1>7. image' \in Programs
  BY <1>1 DEF StubInv
<1>8. QED
  BY <1>1, <1>2, <1>3, <1>6, <1>7 DEF StubInv

(* What every step of the stub, the program and the line preserves: memory *)
(* is the program with the planted EBREAKs over it but where a command was *)
(* cut short, each slot holds what undoes it, the scratch slots are free   *)
(* in the stub, and the frame is the program's or the stub's own.          *)
THEOREM StubInvariance == ASSUME Layout PROVE Spec => []StubInv
<1>1. Init => StubInv
  BY InitStub
<1>2. StubInv /\ [Next]_vars => StubInv'
  <2> SUFFICES ASSUME StubInv, [Next]_vars PROVE StubInv'
    OBVIOUS
  <2>1. CASE Run
    BY <2>1, ExecuteStub, HaltsStub DEF Run
  <2>2. CASE Halt \/ HaltOnEbreak \/ HaltInStub
    BY <2>2, HaltsStub
  <2>3. CASE \/ cmd_stop_reason \/ cmd_read_regs \/ cmd_read_mem \/ cmd_query
             \/ hw_bp_insert \/ hw_bp_remove \/ Others \/ cmd_write_regs
    <3>1. PICK r \in {"T05", "data", "E01", "OK"} : Answers(r) \/ (cmd_write_regs /\ r = "OK")
      BY <2>3 DEF cmd_stop_reason, cmd_read_regs, cmd_read_mem, cmd_query,
                  hw_bp_insert, hw_bp_remove, Others
    <3>2. QED
      BY <3>1, QuietStub
  <2>4. CASE cmd_write_mem
    BY <2>4, WriteStub
  <2>5. CASE cmd_insert_bp \/ cmd_remove_bp
    BY <2>5, BreakpointStub
  <2>6. CASE cmd_continue \/ cmd_step
    BY <2>6, ResumeStub
  <2>7. CASE Reset \/ ResetInCommand \/ ResetInEntry
    BY <2>7, ResetStub
  <2>8. CASE HaltInCommand
    BY <2>8, HaltInCommandStub
  <2>9. CASE UNCHANGED vars
    <3>1. UNCHANGED << mem, pc, reg, g_pc, g_reg, bps, stepping, mask, reply, image, left,
                       raced, scarred >>
      BY <2>9 DEF vars
    <3>2. Table' = Table
      BY <3>1, SameTable
    <3>3. QED
      BY <3>1, <3>2 DEF StubInv, RegInv, FlagInv, InStub
  <2>10. QED
    BY <2>1, <2>2, <2>3, <2>4, <2>5, <2>6, <2>7, <2>8, <2>9 DEF Next
<1>3. QED
  BY <1>1, <1>2, PTL DEF Spec

----------------------------------------------------------------------------
(* What the runs check of every state follows.                             *)

(* Registers, table and flags have their types, in the stub and out of it. *)
THEOREM StubTypeCorrect == ASSUME Layout PROVE Spec => []StubTypeOK
<1>1. StubInv => StubTypeOK
  <2> SUFFICES ASSUME StubInv PROVE StubTypeOK
    OBVIOUS
  <2>1. pc \in Addr \cup {StubPC} /\ g_pc \in Addr \cup {StubPC}
    BY StubOutside DEF StubInv, RegInv, InStub, Layout
  <2>2. reg \in Addr \cup {StubValue} /\ g_reg \in Addr \cup {StubValue}
    BY StubOutside DEF StubInv, RegInv, Layout
  <2>3. Shape(Table, image) /\ image \in Programs
    BY TablePatched DEF StubInv
  <2>4. DOMAIN mem = Addr /\ DOMAIN image = Addr
    BY <2>3 DEF Shape, Table, Layout, Proper
  <2>5. ASSUME NEW i \in Slots, bps[i].used
        PROVE  bps[i].addr \in Addr /\ Len(bps[i].orig) \in {1, 2}
    <3>1. bps[i].addr \in Starts /\ Len(bps[i].orig) = Size(bps[i].addr)
      BY <2>3, <2>5 DEF Shape, Table
    <3>2. QED
      BY <3>1, CellLemma DEF Layout
  <2>6. /\ stepping \in BOOLEAN /\ mask \in BOOLEAN /\ raced \in BOOLEAN
        /\ left \in -1 .. Unlimited /\ scarred \subseteq Addr
        /\ ~InStub => reply = "none" /\ ~mask /\ g_pc = 0 /\ g_reg = 0
        /\ InStub => reply # "none" /\ ~stepping /\ left = Unlimited
    BY DEF StubInv, FlagInv, RegInv
  <2>7. QED
    BY <2>1, <2>2, <2>4, <2>5, <2>6 DEF StubTypeOK
<1>2. QED
  BY <1>1, StubInvariance, PTL

(* Over says what EbreakAt says.                                           *)
LEMMA OverLemma ==
  ASSUME Layout, NEW img, NEW m, Shape(Table, img), NEW slots, slots \subseteq Slots, NEW a \in Addr
  PROVE  Over(m, slots)[a] = IF Covers(Table, slots, a) THEN EbreakAt(a) ELSE m[a]
<1>1. \A i \in slots : Covered(i) = IF bps[i].used THEN Cell(bps[i].addr) ELSE {}
  BY CoveredLemma DEF Covered, Table
<1>2. Covers(Table, slots, a) <=> \E i \in slots : a \in Covered(i)
  BY <1>1 DEF Covers, Table
<1>3. CASE ~Covers(Table, slots, a)
  BY <1>2, <1>3 DEF Over
<1>4. CASE Covers(Table, slots, a)
  <2> DEFINE i == CHOOSE j \in slots : a \in Covered(j)
  <2>1. i \in slots /\ a \in Covered(i)
    BY <1>2, <1>4
  <2>2. Over(m, slots)[a] = Planted(bps[i].orig)[a - bps[i].addr + 1]
    BY <1>2, <1>4 DEF Over
  <2> HIDE DEF i
  <2>3. i \in Slots /\ bps[i].used /\ a \in Cell(bps[i].addr)
    BY <1>1, <2>1
  <2>4. /\ bps[i].addr \in Starts /\ Len(bps[i].orig) = Size(bps[i].addr)
        /\ bps[i].orig \in Seq(Parcels)
    BY <2>3 DEF Shape, Table, SlotType
  <2>5. Planted(bps[i].orig)[a - bps[i].addr + 1] = EbreakAt(a)
    BY <2>3, <2>4, PlantedLemma
  <2>6. QED
    BY <1>4, <2>2, <2>5
<1>5. QED
  BY <1>3, <1>4

LEMMA OverPatched ==
  ASSUME Layout, NEW img \in Programs, Shape(Table, img), NEW slots, slots \subseteq Slots
  PROVE  Patched(Over(img, slots), img)
<1> DEFINE o == Over(img, slots)
<1>1. \A a \in Addr : o[a] = IF Covers(Table, slots, a) THEN EbreakAt(a) ELSE img[a]
  BY OverLemma
<1>2. \A a \in Addr : img[a] \in Parcels /\ EbreakAt(a) \in Parcels
  BY EbreakTypes DEF Layout, Proper
<1>3. \A a \in Addr : o[a] \in Parcels /\ o[a] \in {img[a], EbreakAt(a)}
  BY <1>1, <1>2
<1>4. o = [a \in Addr |-> o[a]]
  BY DEF Over
<1> HIDE DEF o
<1>5. o \in [Addr -> Parcels]
  BY <1>3, <1>4
<1>6. QED
  BY <1>3, <1>5 DEF Patched, o

LEMMA UndoesLemma ==
  ASSUME Layout, NEW img \in Programs, NEW m, Patched(m, img), Shape(Table, img),
         NEW i \in Slots, bps[i].used,
         \A a \in Cell(bps[i].addr) : bps[i].orig[a - bps[i].addr + 1] = m[a]
  PROVE  bps[i].orig = Orig(m, bps[i].addr)
<1> DEFINE s == bps[i].addr
           p == bps[i].orig
           q == Orig(m, s)
<1>1. s \in Starts /\ Len(p) = Size(s) /\ p \in Seq(Parcels)
  BY DEF Shape, Table, SlotType
<1>2. m \in [Addr -> Parcels] /\ s \in Addr /\ m[s] \in {img[s], EbreakAt(s)}
  BY <1>1 DEF Patched, Layout
<1>3. m[s].long = Wide(s)
  BY <1>1, <1>2, LengthLemma
<1>4. q \in Seq(Parcels) /\ Len(q) = Size(s) /\ \A a \in Cell(s) : q[a - s + 1] = m[a]
  BY <1>1, <1>2, <1>3, OrigLemma
<1>5. \A a \in Cell(s) : p[a - s + 1] = q[a - s + 1]
  BY <1>4
<1> HIDE DEF p, q, s
<1>6. \A k \in 1 .. Len(p) : p[k] = q[k]
  <2> SUFFICES ASSUME NEW k \in 1 .. Len(p) PROVE p[k] = q[k]
    OBVIOUS
  <2>1. s \in Nat /\ Size(s) \in {1, 2}
    BY <1>1, CellLemma
  <2>2. s + k - 1 \in Cell(s) /\ (s + k - 1) - s + 1 = k
    BY <1>1, <2>1 DEF Cell
  <2>3. QED
    BY <1>5, <2>2
<1>7. p = q
  BY <1>1, <1>4, <1>6, SeqEqual
<1>8. QED
  BY <1>7 DEF p, q, s

(* Memory is the program with the planted EBREAKs over it, and every slot  *)
(* holds what undoes its own, wherever no command has been cut short.      *)
THEOREM MemoryIsProgram == ASSUME Layout PROVE Spec => []ProgramIntact
<1>1. StubInv => ProgramIntact
  <2> SUFFICES ASSUME StubInv PROVE ProgramIntact
    OBVIOUS
  <2>1. Shape(Table, image) /\ image \in Programs /\ Intact(Table, image, scarred)
    BY TablePatched DEF StubInv, TableInv
  <2>2. Slots \subseteq Slots /\ User \subseteq Slots /\ Scratch \subseteq Slots /\ User \cap Scratch = {}
    BY SlotsLemma
  <2>3. ASSUME NEW a \in Addr \ scarred PROVE mem[a] = Over(image, Slots)[a]
    <3>1. mem[a] = IF Covers(Table, Slots, a) THEN EbreakAt(a) ELSE image[a]
      BY <2>1 DEF Intact, Table
    <3>2. QED
      BY <2>1, <2>2, <3>1, OverLemma
  <2>4. ASSUME NEW i \in Slots, bps[i].used, Covered(i) \cap scarred = {}
        PROVE  /\ bps[i].addr \in Starts
               /\ \A a \in Cell(bps[i].addr) :
                    /\ a \in Addr
                    /\ bps[i].orig[a - bps[i].addr + 1] =
                         IF i \in Scratch /\ Covers(Table, User, a) THEN EbreakAt(a) ELSE image[a]
    <3>1. bps[i].addr \in Starts
      BY <2>1, <2>4 DEF Shape, Table
    <3>2. Covered(i) = Cell(bps[i].addr)
      BY <2>1, <2>4, CoveredLemma DEF Covered, Table
    <3>3. Cell(bps[i].addr) \subseteq Addr \ scarred
      BY <2>4, <3>1, <3>2, CellLemma
    <3>4. \A a \in Cell(bps[i].addr) \ scarred :
             bps[i].orig[a - bps[i].addr + 1] =
               IF i \in Scratch /\ Covers(Table, User, a) THEN EbreakAt(a) ELSE image[a]
      BY <2>1, <2>4 DEF Intact, Table
    <3>5. QED
      BY <3>1, <3>3, <3>4
  <2>5. ASSUME NEW i \in User PROVE Undoes(i, image)
    <3> SUFFICES ASSUME bps[i].used, Covered(i) \cap scarred = {}
                 PROVE  bps[i].orig = Orig(image, bps[i].addr)
      BY DEF Undoes
    <3>1. \A a \in Cell(bps[i].addr) : bps[i].orig[a - bps[i].addr + 1] = image[a]
      BY <2>2, <2>4
    <3>2. QED
      BY <2>1, <2>2, <3>1, ImagePatched, UndoesLemma
  <2>6. ASSUME NEW i \in Scratch PROVE Undoes(i, Over(image, User))
    <3> SUFFICES ASSUME bps[i].used, Covered(i) \cap scarred = {}
                 PROVE  bps[i].orig = Orig(Over(image, User), bps[i].addr)
      BY DEF Undoes
    <3>1. \A a \in Cell(bps[i].addr) : bps[i].orig[a - bps[i].addr + 1] = Over(image, User)[a]
      BY <2>1, <2>2, <2>4, OverLemma
    <3>2. Patched(Over(image, User), image)
      BY <2>1, <2>2, OverPatched
    <3>3. QED
      BY <2>1, <2>2, <3>1, <3>2, UndoesLemma
  <2>7. QED
    BY <2>3, <2>5, <2>6 DEF ProgramIntact
<1>2. QED
  BY <1>1, StubInvariance, PTL

(* So a program of this layout is left as it was once its breakpoints are  *)
(* gone, unless a command has been cut short.                              *)
THEOREM NoTraceUnlessCut == ASSUME Layout PROVE Spec => [](scarred = {} => LeavesNoTrace)
<1>1. StubInv => (scarred = {} => LeavesNoTrace)
  <2> SUFFICES ASSUME StubInv, scarred = {}, \A i \in Slots : ~bps[i].used
               PROVE  mem = image
    BY DEF LeavesNoTrace
  <2>1. image \in Programs /\ Shape(Table, image) /\ Intact(Table, image, {})
    BY TablePatched DEF StubInv, TableInv
  <2>2. mem \in [Addr -> Parcels] /\ image \in [Addr -> Parcels]
    BY <2>1 DEF Shape, Table, Layout, Proper
  <2>3. \A a : ~Covers(Table, Slots, a)
    BY DEF Covers, Table
  <2>4. \A a \in Addr : mem[a] = image[a]
    BY <2>1, <2>3 DEF Intact, Table
  <2>5. QED
    BY <2>2, <2>4
<1>2. QED
  BY <1>1, StubInvariance, PTL

----------------------------------------------------------------------------
(* Steps, while no break has met an EBREAK or the stub.                    *)

AddrsIn(t, slots) == {t.bps[i].addr : i \in {j \in slots : t.bps[j].used}}

TargetSet(targets) == IF Len(targets) = 2 THEN {targets[1], targets[2]} ELSE {targets[1]}

LEMMA AddrsLemma ==
  /\ UserAddrs = AddrsIn(Table, User) /\ ScratchAddrs = AddrsIn(Table, Scratch)
  /\ UserAddrs' = AddrsIn(Table', User) /\ ScratchAddrs' = AddrsIn(Table', Scratch)
  BY DEF UserAddrs, ScratchAddrs, AddrsIn, Table

LEMMA InsertedAddrs ==
  ASSUME NEW t, NEW n, NEW slots, NEW a, slots \subseteq Slots, Inserted(t, n, slots, a)
  PROVE  \/ AddrsIn(n, slots) = AddrsIn(t, slots) \cup {a}
         \/ n = t /\ Full(t, slots) /\ a \notin AddrsIn(t, slots)
<1>0. SetIn(t, a, slots) <=> a \in AddrsIn(t, slots)
  BY DEF SetIn, AddrsIn
<1>1. CASE n = t /\ SetIn(t, a, slots)
  BY <1>0, <1>1
<1>2. CASE n = t /\ Full(t, slots) /\ ~SetIn(t, a, slots)
  BY <1>0, <1>2
<1>3. CASE \E i \in slots : Takes(t, n, i, a)
  <2>1. PICK i \in slots : Takes(t, n, i, a)
    BY <1>3
  <2>2. /\ ~t.bps[i].used /\ n.bps[i].used /\ n.bps[i].addr = a
        /\ \A j \in slots \ {i} : n.bps[j] = t.bps[j]
    BY <2>1 DEF Takes
  <2>3. AddrsIn(n, slots) = AddrsIn(t, slots) \cup {a}
    BY <2>2 DEF AddrsIn
  <2>4. QED
    BY <2>3
<1>4. QED
  BY <1>1, <1>2, <1>3 DEF Inserted

LEMMA KeptAddrs ==
  ASSUME NEW t, NEW n, NEW slots, \A i \in slots : n.bps[i] = t.bps[i]
  PROVE  AddrsIn(n, slots) = AddrsIn(t, slots)
  BY DEF AddrsIn

LEMMA RemovedAddrs ==
  ASSUME NEW t, NEW n, NEW a, Distinct(t), Removed(t, n, a)
  PROVE  AddrsIn(n, User) = AddrsIn(t, User) \ {a} /\ AddrsIn(n, Scratch) = AddrsIn(t, Scratch)
<1>1. CASE n = t /\ ~SetIn(t, a, User)
  <2>1. a \notin AddrsIn(t, User)
    BY <1>1 DEF SetIn, AddrsIn
  <2>2. QED
    BY <1>1, <2>1
<1>2. CASE \E i \in User : t.bps[i].used /\ t.bps[i].addr = a /\ Frees(t, n, i)
  <2>1. PICK i \in User : t.bps[i].used /\ t.bps[i].addr = a /\ Frees(t, n, i)
    BY <1>2
  <2>2. ~n.bps[i].used /\ \A j \in Slots \ {i} : n.bps[j] = t.bps[j]
    BY <2>1 DEF Frees
  <2>3. \A j \in User \ {i} : t.bps[j].used => t.bps[j].addr # a
    BY <2>1, SlotsLemma DEF Distinct
  <2>4. AddrsIn(n, User) = AddrsIn(t, User) \ {a}
    BY <2>1, <2>2, <2>3, SlotsLemma DEF AddrsIn
  <2>5. AddrsIn(n, Scratch) = AddrsIn(t, Scratch)
    BY <2>1, <2>2, SlotsLemma, KeptAddrs
  <2>6. QED
    BY <2>4, <2>5
<1>3. QED
  BY <1>1, <1>2 DEF Removed

(* With both scratch slots free, a step gets one at each target.           *)
LEMMA PlantedAddrs ==
  ASSUME NEW t, NEW t1, NEW t2, NEW targets, \A i \in Scratch : ~t.bps[i].used,
         PlantedFor(t, t1, t2, targets)
  PROVE  /\ AddrsIn(t2, Scratch) = TargetSet(targets)
         /\ AddrsIn(t2, User) = AddrsIn(t, User)
<1> DEFINE x == targets[1]
           y == targets[2]
           two == Len(targets) = 2
<1>1. /\ Inserted(t, t1, Scratch, x)
      /\ two => Inserted(t1, t2, Scratch, y)
      /\ ~two => t2 = t1
  BY DEF PlantedFor
<1>2. TargetSet(targets) = IF two THEN {x, y} ELSE {x}
  BY DEF TargetSet
<1> HIDE DEF x, y, two
<1>3. Scratch \subseteq Slots /\ User \subseteq Slots /\ User \cap Scratch = {}
  BY SlotsLemma
<1>4. AddrsIn(t, Scratch) = {} /\ ~Full(t, Scratch)
  BY SlotsLemma DEF AddrsIn, Full
<1>5. AddrsIn(t1, Scratch) = {x}
  BY <1>1, <1>3, <1>4, InsertedAddrs
<1>6. \E i \in Scratch : ~t1.bps[i].used
  <2>1. PICK i \in Scratch : Takes(t, t1, i, x)
    <3>1. ~SetIn(t, x, Scratch)
      BY DEF SetIn
    <3>2. QED
      BY <1>1, <1>4, <3>1 DEF Inserted
  <2>2. PICK j \in Scratch : j # i
    BY SlotsLemma
  <2>3. t1.bps[j] = t.bps[j]
    BY <1>3, <2>1, <2>2 DEF Takes
  <2>4. QED
    BY <2>3
<1>7. AddrsIn(t2, Scratch) = IF two THEN {x, y} ELSE {x}
  <2>1. CASE two
    <3>1. ~Full(t1, Scratch)
      BY <1>6 DEF Full
    <3>2. AddrsIn(t2, Scratch) = AddrsIn(t1, Scratch) \cup {y}
      BY <1>1, <1>3, <2>1, <3>1, InsertedAddrs
    <3>3. QED
      BY <1>5, <2>1, <3>2
  <2>2. CASE ~two
    BY <1>1, <1>5, <2>2
  <2>3. QED
    BY <2>1, <2>2
<1>8. \A i \in User : t2.bps[i] = t.bps[i]
  <2>1. \A i \in User : t1.bps[i] = t.bps[i]
    BY <1>1, <1>3, InsertedKeeps
  <2>2. CASE two
    BY <1>1, <1>3, <2>1, <2>2, InsertedKeeps
  <2>3. CASE ~two
    BY <1>1, <2>1, <2>3
  <2>4. QED
    BY <2>2, <2>3
<1>9. QED
  BY <1>2, <1>7, <1>8, KeptAddrs

(* What the program would do, the memory does where there is no breakpoint. *)
LEMMA AgreeLemma ==
  ASSUME Layout, NEW img \in Programs, NEW m, NEW p \in Starts, Patched(m, img),
         \A a \in Cell(p) : m[a] = img[a]
  PROVE  /\ Decode(m, p) = Decode(img, p)
         /\ \A r : Successors(m, p, r) = Successors(img, p, r)
         /\ \A r : next_pcs(m, p, r) = next_pcs(img, p, r)
<1>1. Decode(m, p) = Decode(img, p)
  <2>1. Patched(img, img) /\ m[p] = img[p]
    BY ImagePatched, CellLemma
  <2>2. Wide(p) => m[p + 1] = img[p + 1]
    BY CellLemma
  <2>3. /\ Decode(m, p).kind = Decode(img, p).kind
        /\ Decode(m, p).len = Decode(img, p).len
        /\ Decode(m, p).off = Decode(img, p).off
    BY <2>1, <2>2, DecodeLemma
  <2>4. QED
    BY <2>3 DEF Decode
<1>2. \A r : Successors(m, p, r) = Successors(img, p, r)
  BY <1>1 DEF Successors
<1>3. \A r : next_pcs(m, p, r) = next_pcs(img, p, r)
  BY <1>1, ImagePatched, NextPcsLemma
<1>4. QED
  BY <1>1, <1>2, <1>3

LEMMA PredictLemma ==
  ASSUME Layout, NEW img \in Programs, NEW p \in Starts, NEW r, Decode(img, p).kind # "trap"
  PROVE  TargetSet(next_pcs(img, p, r)) = {s[1] : s \in Successors(img, p, r)}
<1> DEFINE i == Decode(img, p)
           next == Wrap(p + i.len)
           dest == Wrap(p + i.off)
<1>0. Patched(img, img)
  BY ImagePatched
<1>1. next_pcs(img, p, r) = IF i.kind \in {"jump", "call"} THEN << dest >>
                ELSE IF i.kind = "branch" THEN << next, dest >>
                ELSE IF i.kind = "return" THEN << r >>
                ELSE << next >>
  BY <1>0, NextPcsLemma
<1>2. Successors(img, p, r) =
           CASE i.kind = "seq"    -> {<< next, r >>}
             [] i.kind = "jump"   -> {<< dest, r >>}
             [] i.kind = "call"   -> {<< dest, next >>}
             [] i.kind = "branch" -> {<< next, r >>, << dest, r >>}
             [] i.kind = "return" -> {<< r, r >>}
             [] i.kind = "trap"   -> {}
  BY DEF Successors
<1>3. i.kind \in Kinds /\ i.kind # "trap"
  BY <1>0, DecodeLemma
<1> HIDE DEF i, next, dest
<1>4. CASE i.kind = "seq"
  BY <1>1, <1>2, <1>4 DEF TargetSet
<1>5. CASE i.kind = "jump"
  BY <1>1, <1>2, <1>5 DEF TargetSet
<1>6. CASE i.kind = "call"
  BY <1>1, <1>2, <1>6 DEF TargetSet
<1>7. CASE i.kind = "branch"
  BY <1>1, <1>2, <1>7 DEF TargetSet
<1>8. CASE i.kind = "return"
  BY <1>1, <1>2, <1>8 DEF TargetSet
<1>9. QED
  BY <1>3, <1>4, <1>5, <1>6, <1>7, <1>8 DEF Kinds

(* Where there is a breakpoint the core traps, and elsewhere it does what  *)
(* the program says.                                                       *)
LEMMA UnscarredLemma ==
  ASSUME Layout, StubInv, scarred = {}, NEW p \in Starts
  PROVE  /\ p \in UserAddrs \cup ScratchAddrs => Decode(mem, p).kind = "trap"
         /\ p \notin UserAddrs \cup ScratchAddrs => \A a \in Cell(p) : mem[a] = image[a]
<1>1. /\ image \in Programs /\ Shape(Table, image) /\ Intact(Table, image, {})
      /\ Patched(mem, image)
  BY TablePatched DEF StubInv, TableInv
<1>2. \A a \in Addr : mem[a] = IF Covers(Table, Slots, a) THEN EbreakAt(a) ELSE image[a]
  BY <1>1 DEF Intact, Table
<1>3. \A a \in Cell(p) : a \in Addr
  BY CellLemma
<1>4. CASE p \in UserAddrs \cup ScratchAddrs
  <2>1. PICK i \in Slots : bps[i].used /\ bps[i].addr = p
    BY <1>4, SlotsLemma DEF UserAddrs, ScratchAddrs
  <2>2. Covers(Table, Slots, p)
    BY <2>1, CellLemma DEF Covers, Table
  <2>3. mem[p] = EbreakAt(p)
    BY <1>2, <1>3, <2>2, CellLemma
  <2>4. EbreakAt(p).kind = "trap"
    BY EbreakTypes DEF EbreakAt
  <2>5. QED
    BY <1>1, <1>4, <2>3, <2>4, DecodeLemma
<1>5. CASE p \notin UserAddrs \cup ScratchAddrs
  <2>1. \A i \in Slots : bps[i].used => bps[i].addr # p
    BY <1>5, SlotsLemma DEF UserAddrs, ScratchAddrs
  <2>2. ASSUME NEW a \in Cell(p) PROVE ~Covers(Table, Slots, a)
    <3> SUFFICES ASSUME NEW i \in Slots, bps[i].used, a \in Cell(bps[i].addr)
                 PROVE  FALSE
      BY DEF Covers, Table
    <3>1. bps[i].addr \in Starts
      BY <1>1 DEF Shape, Table
    <3>2. QED
      BY <2>1, <3>1, CellsApart
  <2>3. QED
    BY <1>2, <1>3, <1>5, <2>2
<1>6. QED
  BY <1>4, <1>5

LEMMA TrapNowhere ==
  ASSUME NEW m, NEW p, NEW r, NEW s \in Successors(m, p, r)
  PROVE  Decode(m, p).kind # "trap"
  BY DEF Successors

(* An instruction of the program that the core executes.                   *)
LEMMA RunningLemma ==
  ASSUME Layout, StubInv, StepInv, ~raced, ~InStub, Decode(mem, pc).kind # "trap"
  PROVE  /\ pc \notin UserAddrs \cup ScratchAddrs
         /\ left \in {1, 2}
         /\ Successors(mem, pc, reg) = Successors(image, pc, reg)
         /\ left = 1 => ScratchAddrs = {s[1] : s \in Successors(image, pc, reg)}
<1>1. scarred = {} /\ pc \in Starts /\ image \in Programs /\ Patched(mem, image)
  BY TablePatched DEF StubInv, RegInv, FlagInv
<1>2. pc \notin UserAddrs \cup ScratchAddrs /\ \A a \in Cell(pc) : mem[a] = image[a]
  BY <1>1, UnscarredLemma
<1>3. Decode(mem, pc) = Decode(image, pc) /\ Successors(mem, pc, reg) = Successors(image, pc, reg)
  BY <1>1, <1>2, AgreeLemma
<1>4. left \in -1 .. 2 /\ left >= 0 /\ left # 0
  BY <1>2 DEF StubInv, FlagInv, StepInv, Unlimited
<1>5. left \in {1, 2}
  BY <1>4
<1>6. left = 1 => ScratchAddrs = {s[1] : s \in Successors(image, pc, reg)}
  BY <1>2, <1>3 DEF StepInv
<1>7. QED
  BY <1>2, <1>3, <1>5, <1>6

LEMMA ExecuteStep == ASSUME Layout, StubInv, StepInv, Execute PROVE StepInv'
<1> SUFFICES ASSUME ~raced'
             PROVE  /\ left' >= 0
                    /\ left' # Unlimited => stepping'
                    /\ left' = 0 => pc' \in ScratchAddrs'
                    /\ left' # 1
  BY DEF StepInv
<1>1. PICK s \in Successors(mem, pc, reg) : pc' = s[1] /\ reg' = s[2]
  BY DEF Execute
<1>2. ~InStub /\ UNCHANGED << mem, bps, stepping, raced >> /\ left' = IF left \in {0, 1} THEN left - 1 ELSE left
  BY DEF Execute
<1>3. /\ left \in {1, 2}
      /\ Successors(mem, pc, reg) = Successors(image, pc, reg)
      /\ left = 1 => ScratchAddrs = {r[1] : r \in Successors(image, pc, reg)}
  BY <1>1, <1>2, TrapNowhere, RunningLemma
<1>4. left # 2 => stepping
  BY <1>2 DEF StepInv, Unlimited
<1>5. ScratchAddrs' = ScratchAddrs
  BY <1>2 DEF ScratchAddrs
<1>6. CASE left = 1
  <2>1. left' = 0 /\ pc' \in ScratchAddrs
    BY <1>1, <1>2, <1>3, <1>6
  <2>2. QED
    BY <1>2, <1>4, <1>5, <1>6, <2>1 DEF Unlimited
<1>7. CASE left = 2
  <2>1. left' = 2
    BY <1>2, <1>7
  <2>2. QED
    BY <2>1 DEF Unlimited
<1>8. QED
  BY <1>3, <1>6, <1>7

LEMMA UnlimitedStep == ASSUME left' = Unlimited PROVE StepInv'
<1>1. left' = 2
  BY DEF Unlimited
<1>2. QED
  BY <1>1 DEF StepInv, Unlimited

(* The scratch breakpoints of a step are where the instruction leads.      *)
LEMMA PlantStep == ASSUME Layout, StubInv, cmd_step PROVE StepInv'
<1>1. PICK a \in ResumeAddrs :
          PutTable(PlantSteps(Table, next_pcs(mem, a, g_reg))) /\ RestoreFrame(a)
  BY DEF cmd_step
<1>2. InStub /\ stepping' = TRUE /\ left' = 1
  BY DEF cmd_step
<1>3. pc' = a /\ reg' = g_reg /\ UNCHANGED << image, raced, scarred >>
  BY <1>1 DEF RestoreFrame
<1> SUFFICES ASSUME ~raced, a \notin UserAddrs', Decode(image, a).kind # "trap"
             PROVE  ScratchAddrs' = {s[1] : s \in Successors(image, a, g_reg)}
  BY <1>2, <1>3 DEF StepInv, Unlimited
<1> DEFINE targets == next_pcs(mem, a, g_reg)
           t1      == FirstPlanted(Table, targets)
           t2      == PlantSteps(Table, targets)
<1>4. PutTable(t2) /\ PlantedFor(Table, t1, t2, targets)
  BY <1>1, <1>2, StepTables
<1>5. /\ scarred = {} /\ NoScratch(Table, {}) /\ a \in Starts /\ image \in Programs
      /\ Patched(mem, image) /\ Shape(Table, image)
  BY <1>2, InsideFacts, TablePatched DEF StubInv, FlagInv
<1>6. \A i \in Scratch : ~Table.bps[i].used
  <2> SUFFICES ASSUME NEW i \in Scratch, Table.bps[i].used PROVE FALSE
    OBVIOUS
  <2>1. Table.bps[i].addr \in Starts
    BY <1>5, SlotsLemma DEF Shape
  <2>2. Cell(Table.bps[i].addr) = {}
    BY <1>5 DEF NoScratch
  <2>3. QED
    BY <2>1, <2>2, CellLemma
<1>7. AddrsIn(t2, Scratch) = TargetSet(targets) /\ AddrsIn(t2, User) = AddrsIn(Table, User)
  BY <1>4, <1>6, PlantedAddrs
<1>8. AddrsIn(Table', Scratch) = AddrsIn(t2, Scratch) /\ AddrsIn(Table', User) = AddrsIn(t2, User)
  BY <1>4 DEF PutTable, Table, AddrsIn
<1> HIDE DEF t1, t2
<1>9. a \notin UserAddrs \cup ScratchAddrs
  <2>1. UserAddrs' = UserAddrs
    BY <1>7, <1>8, AddrsLemma
  <2>2. ScratchAddrs = {}
    BY <1>6 DEF ScratchAddrs, Table
  <2>3. QED
    BY <2>1, <2>2
<1>10. targets = next_pcs(image, a, g_reg)
  BY <1>5, <1>9, UnscarredLemma, AgreeLemma
<1>11. TargetSet(targets) = {s[1] : s \in Successors(image, a, g_reg)}
  BY <1>5, <1>10, PredictLemma
<1>12. QED
  BY <1>7, <1>8, <1>11, AddrsLemma

(* As long as no break has met an EBREAK or the stub, the instruction of a *)
(* step leads to where its scratch breakpoints are.                        *)
THEOREM StepInvariance == ASSUME Layout PROVE Spec => []StepInv
<1>1. Init => StepInv
  BY DEF Init, StepInv, Unlimited
<1>2. StubInv /\ StepInv /\ [Next]_vars => StepInv'
  <2> SUFFICES ASSUME StubInv, StepInv, [Next]_vars PROVE StepInv'
    OBVIOUS
  <2>1. CASE Execute
    BY <2>1, ExecuteStep
  <2>2. CASE Ebreak \/ Halt \/ HaltOnEbreak \/ HaltInStub
    BY <2>2, UnlimitedStep DEF Ebreak, Halt, HaltOnEbreak, HaltInStub, EnterStub
  <2>3. CASE \/ cmd_stop_reason \/ cmd_read_regs \/ cmd_read_mem \/ cmd_query
             \/ hw_bp_insert \/ hw_bp_remove \/ Others \/ cmd_write_regs
             \/ cmd_write_mem \/ cmd_insert_bp \/ cmd_remove_bp
    <3>1. InStub /\ left' = left
      BY <2>3 DEF cmd_stop_reason, cmd_read_regs, cmd_read_mem, cmd_query, hw_bp_insert,
                  hw_bp_remove, Others, Answers, cmd_write_regs, cmd_write_mem,
                  cmd_insert_bp, cmd_remove_bp
    <3>2. QED
      BY <3>1, UnlimitedStep DEF StubInv, FlagInv
  <2>4. CASE cmd_continue
    BY <2>4, UnlimitedStep DEF cmd_continue
  <2>5. CASE cmd_step
    BY <2>5, PlantStep
  <2>6. CASE Reset \/ ResetInCommand \/ ResetInEntry
    BY <2>6, UnlimitedStep DEF Reset, ResetInCommand, ResetInEntry, Restart
  <2>7. CASE HaltInCommand
    <3>1. InStub /\ left' = left
      BY <2>7 DEF HaltInCommand
    <3>2. QED
      BY <3>1, UnlimitedStep DEF StubInv, FlagInv
  <2>8. CASE UNCHANGED vars
    BY <2>8 DEF vars, StepInv, ScratchAddrs, UserAddrs
  <2>9. QED
    BY <2>1, <2>2, <2>3, <2>4, <2>5, <2>6, <2>7, <2>8 DEF Next, Run
<1>3. QED
  BY <1>1, <1>2, StubInvariance, PTL DEF Spec

----------------------------------------------------------------------------
(* The debugger sees the target of DbgTarget.                              *)

LEMMA TargetOperators ==
  /\ Target!Addr = Addr /\ Target!Unlimited = Unlimited
  /\ \A m, a : Target!Decode(m, a) = Decode(m, a)
  /\ \A m, a, r : Target!Successors(m, a, r) = Successors(m, a, r)
<1>1. Target!Addr = Addr /\ Target!Unlimited = Unlimited
  BY DEF Target!Addr, Addr, Target!Unlimited, Unlimited
<1>2. \A m, a : Target!Decode(m, a) = Decode(m, a)
  BY DEF Target!Decode, Decode, Target!Wrap, Wrap
<1>3. \A m, a, r : Target!Successors(m, a, r) = Successors(m, a, r)
  <2>1. \A k : Target!Wrap(k) = Wrap(k)
    BY DEF Target!Wrap, Wrap
  <2>2. SUFFICES ASSUME NEW m, NEW a, NEW r
                 PROVE  Target!Successors(m, a, r) = Successors(m, a, r)
    OBVIOUS
  <2>3. Target!Decode(m, a) = Decode(m, a)
    BY <1>2
  <2>4. QED
    BY <2>1, <2>3 DEF Target!Successors, Successors
<1>4. QED
  BY <1>1, <1>2, <1>3

(* The refinement mapping.                                                 *)
At     == IF InStub THEN g_pc ELSE pc
Ra     == IF InStub THEN g_reg ELSE reg
Strays == IF stepping /\ left = Unlimited THEN ScratchAddrs ELSE {}

LEMMA SameSide == ASSUME InStub' <=> InStub PROVE InStub' = InStub
  BY DEF InStub

LEMMA TargetExecute ==
  ASSUME ~InStub, left # 0, At \notin UserAddrs \cup Strays,
         \E s \in Successors(image, At, Ra) : At' = s[1] /\ Ra' = s[2],
         left' = (IF left = Unlimited THEN left ELSE left - 1),
         ~InStub', UNCHANGED << image, UserAddrs, Strays, reply >>
  PROVE  Target!Execute
<1>1. Target!MayExecute
  BY DEF Target!MayExecute, At, Strays, UserAddrs, ScratchAddrs
<1>2. Target!Move
  BY TargetOperators DEF Target!Move, At, Ra
<1>3. Target!Counted
  BY TargetOperators DEF Target!Counted
<1>4. UNCHANGED << image, InStub, UserAddrs, Strays, reply >>
  BY SameSide
<1>5. QED
  BY <1>1, <1>2, <1>3, <1>4 DEF Target!Execute, Strays, UserAddrs, ScratchAddrs

LEMMA TargetStopping ==
  ASSUME InStub', Strays' = {}, left' = Unlimited, reply' = "T05",
         UNCHANGED << image, UserAddrs >>
  PROVE  Target!Stopping
  BY TargetOperators DEF Target!Stopping, Strays, UserAddrs, ScratchAddrs

LEMMA TargetStop ==
  ASSUME ~InStub, Target!Stopping, UNCHANGED << At, Ra >>,
         \/ At \in UserAddrs \cup Strays
         \/ Decode(image, At).kind = "trap"
         \/ left = 0
         \/ left = 1 /\ \E s \in Successors(image, At, Ra) : s[1] = At
  PROVE  Target!Stop
  BY TargetOperators DEF Target!Stop, Strays, UserAddrs, ScratchAddrs, At, Ra

LEMMA TargetHalt ==
  ASSUME ~InStub, left # 0, At \notin UserAddrs \cup Strays,
         \E s \in Successors(image, At, Ra) : At' = s[1] /\ Ra' = s[2],
         Target!Stopping
  PROVE  Target!HaltOutside
<1>1. Target!MayExecute
  BY DEF Target!MayExecute, At, Strays, UserAddrs, ScratchAddrs
<1>2. Target!Move
  BY TargetOperators DEF Target!Move, At, Ra
<1>3. QED
  BY <1>1, <1>2 DEF Target!HaltOutside

LEMMA TargetAsk ==
  ASSUME InStub, InStub', UNCHANGED << image, At, Ra, UserAddrs, Strays, left >>,
         reply' \in {"T05", "OK", "data", "E01"}
  PROVE  Target!Ask
<1>0. InStub' = InStub
  BY SameSide
<1>1. QED
  BY <1>0 DEF Target!Ask, Strays, UserAddrs, ScratchAddrs, At, Ra

LEMMA TargetSetRegs ==
  ASSUME InStub, InStub', UNCHANGED << image, UserAddrs, Strays, left >>,
         At' \in Addr, Ra' \in Addr, reply' = "OK"
  PROVE  Target!SetRegs
<1>0. InStub' = InStub
  BY SameSide
<1>1. QED
  BY <1>0, TargetOperators DEF Target!SetRegs, Strays, UserAddrs, ScratchAddrs, At, Ra

LEMMA TargetSetMemory ==
  ASSUME InStub, InStub', UNCHANGED << At, Ra, UserAddrs, Strays, left >>,
         DOMAIN image' = DOMAIN image, reply' = "OK",
         \E a \in Addr : \A b \in Addr \ {a} : image'[b] = image[b]
  PROVE  Target!SetMemory
<1>0. InStub' = InStub
  BY SameSide
<1>1. QED
  BY <1>0, TargetOperators DEF Target!SetMemory, Strays, UserAddrs, ScratchAddrs, At, Ra

LEMMA SameCardinality ==
  ASSUME NEW S
  PROVE  Target!Cardinality(S) = Cardinality(S)
BY DEF Target!Cardinality, Cardinality

LEMMA TargetSetBreakpoint ==
  ASSUME InStub, InStub', UNCHANGED << image, At, Ra, Strays, left >>, NEW a,
         \/ UserAddrs' = UserAddrs \cup {a} /\ reply' = "OK"
         \/ /\ a \notin UserAddrs /\ Cardinality(UserAddrs) = NUser
            /\ UserAddrs' = UserAddrs /\ reply' = "E01"
  PROVE  Target!SetBreakpoint(a)
<1>0. InStub' = InStub
  BY SameSide
<1>1. Target!Cardinality(UserAddrs) = Cardinality(UserAddrs)
  BY SameCardinality
<1>2. QED
  BY <1>0, <1>1 DEF Target!SetBreakpoint, Strays, UserAddrs, ScratchAddrs, At, Ra

LEMMA TargetClearBreakpoint ==
  ASSUME InStub, InStub', UNCHANGED << image, At, Ra, Strays, left >>, NEW a,
         UserAddrs' = UserAddrs \ {a}, reply' = IF a \in UserAddrs THEN "OK" ELSE "E01"
  PROVE  Target!ClearBreakpoint(a)
<1>0. InStub' = InStub
  BY SameSide
<1>1. QED
  BY <1>0 DEF Target!ClearBreakpoint, Strays, UserAddrs, ScratchAddrs, At, Ra

LEMMA TargetGo ==
  ASSUME InStub, ~InStub', At' \in Addr, left' \in {1, Unlimited}, reply' = "none",
         UNCHANGED << image, Ra, UserAddrs, Strays >>
  PROVE  Target!Go
  BY TargetOperators DEF Target!Go, Strays, UserAddrs, ScratchAddrs, At, Ra

LEMMA TargetRestart ==
  ASSUME At' = 0, Ra' \in Addr, ~InStub', left' = Unlimited, reply' = "none",
         Strays' \in SUBSET Addr, UNCHANGED << image, UserAddrs >>
  PROVE  Target!RestartTarget
  BY TargetOperators DEF Target!RestartTarget, Strays, UserAddrs, ScratchAddrs, At, Ra

(* When every user slot is taken, there are as many breakpoints as slots.  *)
LEMMA FullLemma ==
  ASSUME NEW t, Distinct(t), Full(t, User)
  PROVE  Cardinality(AddrsIn(t, User)) = NUser
<1> DEFINE f == [i \in User |-> t.bps[i].addr]
<1>1. AddrsIn(t, User) = {f[i] : i \in User}
  BY DEF AddrsIn, Full
<1>2. \A i, j \in User : f[i] = f[j] => i = j
  BY SlotsLemma DEF Distinct, Full
<1>3. f \in [User -> AddrsIn(t, User)]
  BY <1>1
<1> HIDE DEF f
<1>4. f \in Bijection(User, AddrsIn(t, User))
  BY <1>1, <1>2, <1>3 DEF Bijection, Injection, Surjection, IsInjective
<1>5. IsFiniteSet(User) /\ Cardinality(User) = NUser
  <2>1. NUser \in Nat /\ 1 \in Int /\ NUser \in Int
    BY StubAssumption
  <2>2. IsFiniteSet(1 .. NUser) /\ Cardinality(1 .. NUser) = IF 1 > NUser THEN 0 ELSE NUser - 1 + 1
    BY <2>1, FS_Interval
  <2>3. QED
    BY <2>1, <2>2 DEF User
<1>6. QED
  BY <1>4, <1>5, FS_Bijection DEF ExistsBijection

LEMMA SetInAddrs ==
  ASSUME NEW t, NEW a, NEW slots
  PROVE  SetIn(t, a, slots) <=> a \in AddrsIn(t, slots)
  BY DEF SetIn, AddrsIn

LEMMA PutTableAddrs ==
  ASSUME NEW t, PutTable(t), NEW slots
  PROVE  AddrsIn(Table', slots) = AddrsIn(t, slots)
  BY DEF PutTable, Table, AddrsIn

(* What holds between two commands, or two instructions.                   *)
LEMMA QuietFacts ==
  ASSUME Layout, StubInv, ~raced
  PROVE  /\ scarred = {} /\ image \in Programs
         /\ TableInv(Table, image, {}) /\ Patched(mem, image)
         /\ UserAddrs \cup ScratchAddrs \subseteq Starts
         /\ ~stepping => ScratchAddrs = {} /\ Strays = {}
         /\ InStub => ~stepping /\ left = Unlimited
<1>1. /\ scarred = {} /\ image \in Programs
      /\ TableInv(Table, image, scarred) /\ (~stepping => NoScratch(Table, scarred))
      /\ (InStub => ~stepping /\ left = Unlimited)
  BY DEF StubInv, FlagInv
<1>2. Shape(Table, image) /\ Patched(mem, image)
  BY <1>1, TablePatched
<1>3. \A i \in Slots : bps[i].used => bps[i].addr \in Starts
  BY <1>2 DEF Shape, Table
<1>4. UserAddrs \cup ScratchAddrs \subseteq Starts
  BY <1>3, SlotsLemma DEF UserAddrs, ScratchAddrs
<1>5. ASSUME ~stepping PROVE ScratchAddrs = {}
  <2> SUFFICES ASSUME NEW i \in Scratch, bps[i].used PROVE FALSE
    BY DEF ScratchAddrs
  <2>1. bps[i].addr \in Starts
    BY <1>3, SlotsLemma
  <2>2. Cell(bps[i].addr) = {}
    BY <1>1, <1>5 DEF NoScratch, Table
  <2>3. QED
    BY <2>1, <2>2, CellLemma
<1>6. ~stepping => Strays = {}
  BY DEF Strays
<1>7. QED
  BY <1>1, <1>2, <1>4, <1>5, <1>6

(* The entry gives back scratch slots only.                                *)
LEMMA EntryAddrs ==
  ASSUME Layout, StubInv, PutTable(IF stepping THEN remove_step_bps(Table) ELSE Table)
  PROVE  UserAddrs' = UserAddrs
<1>1. CASE stepping
  <2> DEFINE t1 == Lift(Table, NUser + 1)
             t2 == Lift(t1, NUser + 2)
  <2>1. PutTable(t2)
    BY <1>1 DEF remove_step_bps
  <2>2. image \in Programs /\ scarred \in SUBSET Addr /\ TableInv(Table, image, scarred)
    BY DEF StubInv, FlagInv
  <2>3. Frees(Table, t1, NUser + 1) /\ Frees(t1, t2, NUser + 2)
    BY <2>2, RemoveStepsLemma
  <2> HIDE DEF t1, t2
  <2>4. \A i \in User : t1.bps[i] = Table.bps[i] /\ t2.bps[i] = t1.bps[i]
    BY <2>3, SlotsLemma DEF Frees
  <2>5. AddrsIn(t2, User) = AddrsIn(Table, User)
    BY <2>4, KeptAddrs
  <2>6. QED
    BY <2>1, <2>5, PutTableAddrs, AddrsLemma
<1>2. CASE ~stepping
  BY <1>2, PutTableAddrs, AddrsLemma
<1>3. QED
  BY <1>1, <1>2

(* An instruction is an instruction of the program.                        *)
LEMMA ExecuteRefines ==
  ASSUME Layout, StubInv, StepInv, ~raced, Execute
  PROVE  Target!Execute
<1>1. PICK s \in Successors(mem, pc, reg) : pc' = s[1] /\ reg' = s[2]
  BY DEF Execute
<1>2. /\ ~InStub /\ left' = IF left \in {0, 1} THEN left - 1 ELSE left
      /\ UNCHANGED << mem, bps, stepping, reply, image >>
  BY DEF Execute
<1>3. /\ pc \notin UserAddrs \cup ScratchAddrs /\ left \in {1, 2}
      /\ Successors(mem, pc, reg) = Successors(image, pc, reg)
  BY <1>1, <1>2, TrapNowhere, RunningLemma
<1>4. s[1] \in Starts
  BY <1>1, <1>2, RunFacts
<1>5. ~InStub'
  BY <1>1, <1>4, StubOutside DEF InStub
<1>6. At = pc /\ Ra = reg /\ At' = s[1] /\ Ra' = s[2]
  BY <1>1, <1>2, <1>5 DEF At, Ra
<1>7. At \notin UserAddrs \cup Strays
  BY <1>3, <1>6 DEF Strays
<1>8. left # 0 /\ left' = (IF left = Unlimited THEN left ELSE left - 1)
  BY <1>2, <1>3 DEF Unlimited
<1>9. UserAddrs' = UserAddrs /\ ScratchAddrs' = ScratchAddrs
  BY <1>2 DEF UserAddrs, ScratchAddrs
<1>10. left' = Unlimited <=> left = Unlimited
  BY <1>2, <1>3 DEF Unlimited
<1>11. Strays' = Strays
  BY <1>2, <1>9, <1>10 DEF Strays
<1>12. QED
  BY <1>1, <1>2, <1>3, <1>5, <1>6, <1>7, <1>8, <1>9, <1>11, TargetExecute

(* What an entry does to what the debugger sees.                           *)
LEMMA EntryRefines ==
  ASSUME Layout, StubInv, ~InStub, NEW mepc, NEW r, EnterStub(mepc, r)
  PROVE  /\ Target!Stopping
         /\ InStub' /\ At' = mepc /\ Ra' = r
<1>1. /\ pc' = StubPC /\ g_pc' = mepc /\ g_reg' = r /\ left' = Unlimited /\ image' = image
      /\ PutTable(IF stepping THEN remove_step_bps(Table) ELSE Table)
      /\ stepping' = FALSE /\ reply' = "T05"
  BY DEF EnterStub, SaveFrame, gdb_stub_entry
<1>2. InStub' /\ At' = mepc /\ Ra' = r
  BY <1>1 DEF InStub, At, Ra
<1>3. Strays' = {}
  BY <1>1 DEF Strays
<1>4. UserAddrs' = UserAddrs
  BY <1>1, EntryAddrs
<1>5. QED
  BY <1>1, <1>2, <1>3, <1>4, TargetStopping

(* A trap comes from a breakpoint, from the end of a step, or from the     *)
(* program.                                                                *)
LEMMA EbreakRefines ==
  ASSUME Layout, StubInv, StepInv, ~raced, Ebreak
  PROVE  Target!Stop
<1>1. ~InStub /\ Decode(mem, pc).kind = "trap" /\ EnterStub(pc, reg)
  BY DEF Ebreak
<1>2. Target!Stopping /\ InStub' /\ At' = pc /\ Ra' = reg
  BY <1>1, EntryRefines
<1>3. At = pc /\ Ra = reg
  BY <1>1 DEF At, Ra
<1>4. pc \in Starts
  BY <1>1 DEF StubInv, RegInv
<1>5. \/ pc \in UserAddrs \cup Strays
      \/ Decode(image, pc).kind = "trap"
      \/ left = 0
      \/ left = 1 /\ \E s \in Successors(image, pc, reg) : s[1] = pc
  <2>1. CASE pc \in UserAddrs
    BY <2>1
  <2>2. CASE pc \in ScratchAddrs
    <3>1. stepping
      BY <2>2, QuietFacts
    <3>2. left \in {0, 1, 2}
      <4>1. left \in -1 .. 2 /\ left >= 0
        BY DEF StubInv, FlagInv, StepInv, Unlimited
      <4>2. QED
        BY <4>1
    <3>3. CASE left = 2
      BY <2>2, <3>1, <3>3 DEF Strays, Unlimited
    <3>4. CASE left = 1
      BY <2>2, <3>4 DEF StepInv
    <3>5. QED
      BY <3>2, <3>3, <3>4
  <2>3. CASE pc \notin UserAddrs \cup ScratchAddrs
    <3>1. \A a \in Cell(pc) : mem[a] = image[a]
      BY <1>4, <2>3, QuietFacts, UnscarredLemma
    <3>2. Decode(mem, pc) = Decode(image, pc)
      BY <1>4, <3>1, QuietFacts, AgreeLemma
    <3>3. QED
      BY <1>1, <3>2
  <2>4. QED
    BY <2>1, <2>2, <2>3
<1>6. QED
  BY <1>1, <1>2, <1>3, <1>5, TargetStop

(* A request from outside lets the instruction finish.                     *)
LEMMA HaltRefines ==
  ASSUME Layout, StubInv, StepInv, ~raced, Halt
  PROVE  Target!HaltOutside
<1>1. ~InStub /\ \E s \in Successors(mem, pc, reg) : EnterStub(s[1], s[2])
  BY DEF Halt
<1>2. PICK s \in Successors(mem, pc, reg) : EnterStub(s[1], s[2])
  BY <1>1
<1>3. Target!Stopping /\ At' = s[1] /\ Ra' = s[2]
  BY <1>1, <1>2, EntryRefines
<1>4. /\ pc \notin UserAddrs \cup ScratchAddrs /\ left \in {1, 2}
      /\ Successors(mem, pc, reg) = Successors(image, pc, reg)
  BY <1>1, <1>2, TrapNowhere, RunningLemma
<1>5. At = pc /\ Ra = reg /\ At \notin UserAddrs \cup Strays /\ left # 0
  BY <1>1, <1>4 DEF At, Ra, Strays
<1>6. QED
  BY <1>1, <1>2, <1>3, <1>4, <1>5, TargetHalt

LEMMA AnswersRefines ==
  ASSUME NEW r \in {"T05", "OK", "data", "E01"}, Answers(r)
  PROVE  Target!Ask
<1>1. /\ InStub /\ reply' = r
      /\ UNCHANGED << mem, pc, reg, g_pc, g_reg, bps, stepping, image, left >>
  BY DEF Answers
<1>2. InStub' /\ UNCHANGED << At, Ra, UserAddrs, ScratchAddrs >>
  BY <1>1 DEF InStub, At, Ra, UserAddrs, ScratchAddrs
<1>3. Strays' = Strays
  BY <1>1, <1>2 DEF Strays
<1>4. QED
  BY <1>1, <1>2, <1>3, TargetAsk

LEMMA WriteRegsRefines ==
  ASSUME Layout, cmd_write_regs
  PROVE  Target!SetRegs
<1>1. /\ InStub /\ g_pc' \in HostAddrs /\ g_reg' \in HostAddrs /\ reply' = "OK"
      /\ UNCHANGED << mem, pc, reg, bps, stepping, image, left >>
  BY DEF cmd_write_regs
<1>2. InStub' /\ UNCHANGED << UserAddrs, ScratchAddrs >>
  BY <1>1 DEF InStub, UserAddrs, ScratchAddrs
<1>3. At' \in Addr /\ Ra' \in Addr
  BY <1>1, <1>2, StubAssumption DEF At, Ra
<1>4. Strays' = Strays
  BY <1>1, <1>2 DEF Strays
<1>5. QED
  BY <1>1, <1>2, <1>3, <1>4, TargetSetRegs

LEMMA WriteMemRefines ==
  ASSUME Layout, StubInv, cmd_write_mem
  PROVE  Target!SetMemory
<1>1. PICK w \in HostWrites : image' = [image EXCEPT ![w[1]] = w[2]]
  BY DEF cmd_write_mem
<1>2. /\ InStub /\ reply' = "OK"
      /\ UNCHANGED << pc, reg, g_pc, g_reg, bps, stepping, left >>
  BY DEF cmd_write_mem
<1>3. InStub' /\ UNCHANGED << At, Ra, UserAddrs, ScratchAddrs >>
  BY <1>2 DEF InStub, At, Ra, UserAddrs, ScratchAddrs
<1>4. Strays' = Strays
  BY <1>2, <1>3 DEF Strays
<1>5. w[1] \in Addr /\ image \in [Addr -> Parcels]
  BY StubAssumption DEF StubInv, Layout, Proper
<1>6. DOMAIN image' = DOMAIN image /\ \A b \in Addr \ {w[1]} : image'[b] = image[b]
  BY <1>1, <1>5
<1>7. QED
  BY <1>2, <1>3, <1>4, <1>5, <1>6, TargetSetMemory

(* Z0 and z0.                                                              *)
LEMMA InsertRefines ==
  ASSUME Layout, StubInv, ~raced, cmd_insert_bp
  PROVE  \E a \in Addr : Target!SetBreakpoint(a)
<1>1. PICK a \in HostAddrs :
        /\ PutTable(bp_insert(Table, a, FALSE))
        /\ reply' = IF SetIn(bp_insert(Table, a, FALSE), a, User) THEN "OK" ELSE "E01"
  BY DEF cmd_insert_bp
<1> DEFINE n == bp_insert(Table, a, FALSE)
<1>2. /\ InStub
      /\ UNCHANGED << pc, reg, g_pc, g_reg, stepping, image, left >>
  BY DEF cmd_insert_bp
<1>3. InStub' /\ UNCHANGED << At, Ra >>
  BY <1>2 DEF InStub, At, Ra
<1>4. ~stepping /\ ~stepping'
  BY <1>2, QuietFacts
<1>5. Strays' = Strays
  BY <1>4 DEF Strays
<1>6. Inserted(Table, n, User, a) /\ PutTable(n)
  BY <1>1, <1>2, UserTables
<1>7. reply' = IF a \in AddrsIn(n, User) THEN "OK" ELSE "E01"
  BY <1>1, SetInAddrs
<1> HIDE DEF n
<1>8. UserAddrs' = AddrsIn(n, User) /\ UserAddrs = AddrsIn(Table, User)
  BY <1>6, PutTableAddrs, AddrsLemma
<1>9. Distinct(Table)
  BY QuietFacts DEF TableInv
<1>10. \/ UserAddrs' = UserAddrs \cup {a} /\ reply' = "OK"
       \/ /\ a \notin UserAddrs /\ Cardinality(UserAddrs) = NUser
          /\ UserAddrs' = UserAddrs /\ reply' = "E01"
  <2>1. CASE AddrsIn(n, User) = AddrsIn(Table, User) \cup {a}
    BY <1>7, <1>8, <2>1
  <2>2. CASE n = Table /\ Full(Table, User) /\ a \notin AddrsIn(Table, User)
    BY <1>7, <1>8, <1>9, <2>2, FullLemma
  <2>3. QED
    BY <1>6, <2>1, <2>2, InsertedAddrs, SlotsLemma
<1>11. Target!SetBreakpoint(a)
  BY <1>2, <1>3, <1>5, <1>10, TargetSetBreakpoint
<1>12. QED
  BY <1>1, <1>11, StubAssumption

LEMMA RemoveRefines ==
  ASSUME Layout, StubInv, ~raced, cmd_remove_bp
  PROVE  \E a \in Addr : Target!ClearBreakpoint(a)
<1>1. PICK a \in HostAddrs :
        /\ PutTable(bp_remove(Table, a, FALSE))
        /\ reply' = IF SetIn(Table, a, User) THEN "OK" ELSE "E01"
  BY DEF cmd_remove_bp
<1> DEFINE n == bp_remove(Table, a, FALSE)
<1>2. /\ InStub
      /\ UNCHANGED << pc, reg, g_pc, g_reg, stepping, image, left >>
  BY DEF cmd_remove_bp
<1>3. InStub' /\ UNCHANGED << At, Ra >>
  BY <1>2 DEF InStub, At, Ra
<1>4. ~stepping /\ ~stepping'
  BY <1>2, QuietFacts
<1>5. Strays' = Strays
  BY <1>4 DEF Strays
<1>6. Removed(Table, n, a) /\ PutTable(n)
  BY <1>1, <1>2, UserTables
<1>7. reply' = IF a \in AddrsIn(Table, User) THEN "OK" ELSE "E01"
  BY <1>1, SetInAddrs
<1> HIDE DEF n
<1>8. UserAddrs' = AddrsIn(n, User) /\ UserAddrs = AddrsIn(Table, User)
  BY <1>6, PutTableAddrs, AddrsLemma
<1>9. Distinct(Table)
  BY QuietFacts DEF TableInv
<1>10. UserAddrs' = UserAddrs \ {a} /\ reply' = IF a \in UserAddrs THEN "OK" ELSE "E01"
  BY <1>6, <1>7, <1>8, <1>9, RemovedAddrs
<1>11. Target!ClearBreakpoint(a)
  BY <1>2, <1>3, <1>5, <1>10, TargetClearBreakpoint
<1>12. QED
  BY <1>1, <1>11, StubAssumption

(* c and s.                                                                *)
LEMMA ResumeRefines ==
  ASSUME Layout, StubInv, ~raced, NEW a \in ResumeAddrs, InStub, RestoreFrame(a),
         left' \in {1, Unlimited}, left' = Unlimited => ~stepping', UserAddrs' = UserAddrs
  PROVE  Target!Go
<1>1. pc' = a /\ reg' = g_reg /\ reply' = "none" /\ image' = image
  BY DEF RestoreFrame
<1>2. a \in Starts /\ a \in Addr
  BY InsideFacts DEF Layout
<1>3. ~InStub'
  BY <1>1, <1>2, StubOutside DEF InStub
<1>4. At' = a /\ Ra' = Ra
  BY <1>1, <1>3 DEF At, Ra
<1>5. Strays = {} /\ Strays' = {}
  BY QuietFacts DEF Strays
<1>6. QED
  BY <1>1, <1>2, <1>3, <1>4, <1>5, TargetGo

LEMMA ContinueRefines ==
  ASSUME Layout, StubInv, ~raced, cmd_continue
  PROVE  Target!Go
<1>1. PICK a \in ResumeAddrs : RestoreFrame(a)
  BY DEF cmd_continue
<1>2. InStub /\ left' = Unlimited /\ UNCHANGED << mem, bps, stepping >>
  BY DEF cmd_continue
<1>3. ~stepping'
  BY <1>2, QuietFacts
<1>4. UserAddrs' = UserAddrs
  BY <1>2 DEF UserAddrs
<1>5. QED
  BY <1>1, <1>2, <1>3, <1>4, ResumeRefines

LEMMA StepRefines ==
  ASSUME Layout, StubInv, ~raced, cmd_step
  PROVE  Target!Go
<1>1. PICK a \in ResumeAddrs :
          PutTable(PlantSteps(Table, next_pcs(mem, a, g_reg))) /\ RestoreFrame(a)
  BY DEF cmd_step
<1>2. InStub /\ stepping' = TRUE /\ left' = 1
  BY DEF cmd_step
<1> DEFINE targets == next_pcs(mem, a, g_reg)
           t1      == FirstPlanted(Table, targets)
           t2      == PlantSteps(Table, targets)
<1>3. PutTable(t2) /\ PlantedFor(Table, t1, t2, targets)
  BY <1>1, <1>2, StepTables
<1>4. \A i \in Scratch : ~Table.bps[i].used
  <2>1. ScratchAddrs = {}
    BY <1>2, QuietFacts
  <2>2. QED
    BY <2>1 DEF ScratchAddrs, Table
<1> HIDE DEF targets, t1, t2
<1>5. AddrsIn(t2, User) = AddrsIn(Table, User)
  BY <1>3, <1>4, PlantedAddrs
<1>6. UserAddrs' = UserAddrs
  BY <1>3, <1>5, PutTableAddrs, AddrsLemma
<1>7. left' # Unlimited
  BY <1>2 DEF Unlimited
<1>8. QED
  BY <1>1, <1>2, <1>6, <1>7, ResumeRefines

LEMMA ResetRefines ==
  ASSUME Layout, StubInv, ~raced, Reset
  PROVE  Target!RestartTarget
<1>1. /\ pc' = 0 /\ reply' = "none" /\ left' = Unlimited
      /\ reg' = (IF InStub THEN 0 ELSE reg)
      /\ UNCHANGED << mem, bps, image >>
  BY DEF Reset, Restart
<1>2. ~InStub'
  BY <1>1, StubOutside DEF InStub
<1>3. reg' \in Addr
  BY <1>1, StubOutside DEF StubInv, RegInv, Layout
<1>4. At' = 0 /\ Ra' \in Addr
  BY <1>1, <1>2, <1>3 DEF At, Ra
<1>5. UserAddrs' = UserAddrs /\ ScratchAddrs' = ScratchAddrs
  BY <1>1 DEF UserAddrs, ScratchAddrs
<1>6. Strays' \subseteq Addr
  BY <1>5, QuietFacts DEF Strays, Layout
<1>7. QED
  BY <1>1, <1>2, <1>4, <1>5, <1>6, TargetRestart

LEMMA InitRefines == ASSUME Layout, Init PROVE Target!TargetInit
<1>1. /\ pc = 0 /\ reg = 0 /\ reply = "none" /\ left = Unlimited
      /\ bps = Cleared.bps /\ stepping = Cleared.stepping
  BY DEF Init, Layout
<1>2. ~InStub /\ 0 \in Addr
  BY <1>1, StubOutside DEF InStub, Layout
<1>3. At = 0 /\ Ra = 0
  BY <1>1, <1>2 DEF At, Ra
<1>4. InStub = FALSE
  BY <1>2 DEF InStub
<1>5. \A i \in Slots : ~bps[i].used
  BY <1>1 DEF Cleared, Free
<1>6. UserAddrs = {} /\ Strays = {}
  BY <1>5, SlotsLemma DEF UserAddrs, Strays, ScratchAddrs
<1>7. QED
  BY <1>1, <1>2, <1>3, <1>4, <1>6, TargetOperators
  DEF Target!TargetInit, At, Ra, UserAddrs, Strays, ScratchAddrs

(* Every step of the stub, the program and the core is one of the target   *)
(* the debugger sees, or none: breakpoints are not part of the program,    *)
(* the program stops at each before its instruction, a step runs one       *)
(* instruction, a stop reports where the program is, and a reset or a      *)
(* command changes what it says it changes.  Until a break meets an EBREAK *)
(* or the stub itself.                                                     *)
THEOREM StubImplementsTarget == ASSUME Layout PROVE Spec => ImplementsTarget
<1>1. Init => Target!TargetInit
  BY InitRefines
<1>2. StubInv /\ StepInv /\ [Next]_vars => [Target!TargetNext \/ raced']_Target!targetVars
  <2> SUFFICES ASSUME StubInv, StepInv, [Next]_vars, ~raced'
               PROVE  Target!TargetNext \/ UNCHANGED Target!targetVars
    OBVIOUS
  <2>0. ~raced
    BY DEF Next, Run, Execute, Ebreak, Halt, HaltOnEbreak, HaltInStub, cmd_stop_reason,
           cmd_read_regs, cmd_read_mem, cmd_query, hw_bp_insert, hw_bp_remove, Others, Answers,
           cmd_write_regs, cmd_write_mem, cmd_insert_bp, cmd_remove_bp, cmd_continue, cmd_step,
           RestoreFrame, Reset, ResetInCommand, HaltInCommand, ResetInEntry, CutCommand, CutAt, vars
  <2>1. CASE Execute
    BY <2>0, <2>1, ExecuteRefines DEF Target!TargetNext
  <2>2. CASE Ebreak
    BY <2>0, <2>2, EbreakRefines DEF Target!TargetNext
  <2>3. CASE Halt
    BY <2>0, <2>3, HaltRefines DEF Target!TargetNext
  <2>4. CASE \/ cmd_stop_reason \/ cmd_read_regs \/ cmd_read_mem \/ cmd_query
             \/ hw_bp_insert \/ hw_bp_remove \/ Others
    <3>1. \E r \in {"T05", "OK", "data", "E01"} : Answers(r)
      BY <2>4 DEF cmd_stop_reason, cmd_read_regs, cmd_read_mem, cmd_query,
                  hw_bp_insert, hw_bp_remove, Others
    <3>2. QED
      BY <3>1, AnswersRefines DEF Target!TargetNext
  <2>5. CASE cmd_write_regs
    BY <2>5, WriteRegsRefines DEF Target!TargetNext
  <2>6. CASE cmd_write_mem
    BY <2>6, WriteMemRefines DEF Target!TargetNext
  <2>7. CASE cmd_insert_bp
    BY <2>0, <2>7, InsertRefines, TargetOperators DEF Target!TargetNext
  <2>8. CASE cmd_remove_bp
    BY <2>0, <2>8, RemoveRefines, TargetOperators DEF Target!TargetNext
  <2>9. CASE cmd_continue \/ cmd_step
    BY <2>0, <2>9, ContinueRefines, StepRefines DEF Target!TargetNext
  <2>10. CASE Reset
    BY <2>0, <2>10, ResetRefines DEF Target!TargetNext
  <2>11. CASE UNCHANGED vars
    BY <2>11 DEF vars, Target!targetVars, InStub
  <2>12. CASE HaltOnEbreak \/ HaltInStub \/ ResetInCommand \/ HaltInCommand \/ ResetInEntry
    BY <2>12 DEF HaltOnEbreak, HaltInStub, ResetInCommand, HaltInCommand, ResetInEntry,
                 CutCommand, CutAt
  <2>13. QED
    BY <2>1, <2>2, <2>3, <2>4, <2>5, <2>6, <2>7, <2>8, <2>9, <2>10, <2>11, <2>12 DEF Next, Run
<1>3. QED
  BY <1>1, <1>2, StubInvariance, StepInvariance, PTL DEF Spec, ImplementsTarget

=============================================================================
