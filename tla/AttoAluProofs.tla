----------------------------- MODULE AttoAluProofs -----------------------------
(***************************************************************************)
(* Proofs about AttoAlu: for every register width 2^LogW, LogW >= 1, every *)
(* build, every operand and whatever the units were still doing for an     *)
(* operation that a trap cut short, each shift, multiply and divide writes *)
(* what the ISA asks, within W + 1 waiting clocks.                         *)
(*                                                                         *)
(* The argument has one invariant per unit, that relates its registers to  *)
(* the operands at every clock of the operation in progress:               *)
(*   BusyInv   the counters against the clocks waited so far;              *)
(*   ShiftInv  shift_data is the operand, shifted by what is not left of   *)
(*             shift_count; the barrel shifter is one right shift between  *)
(*             two reversals;                                              *)
(*   DivInv    the dividend left, the quotient so far and the place of the *)
(*             mask make up the dividend there was;                        *)
(*   Radix2Inv, Radix4Inv                                                  *)
(*             accumulator, bits of the multiplier left, and the product   *)
(*             still to be added make up the product.                      *)
(* Widths are not fixed, so that what holds of Pow2 and of a reversal is   *)
(* proved by induction over Nat: NatInd, for a set of numbers.             *)
(***************************************************************************)
EXTENDS AttoAlu, WellFoundedInduction, TLAPS

----------------------------------------------------------------------------
(* Induction, and the recursive functions it makes sense of.               *)

(* A set with 0 and every successor of its numbers has every number.       *)
LEMMA NatInd ==
  ASSUME NEW S, 0 \in S, \A n \in Nat : n \in S => n + 1 \in S
  PROVE  Nat \subseteq S
<1> SUFFICES ASSUME Nat \ S # {} PROVE FALSE
  OBVIOUS
<1>1. PICK x \in Nat \ S : \A y \in Nat \ S : ~(<<y,x>> \in OpToRel(<, Nat))
  BY NatLessThanWellFounded, WFMin, Nat \ S \subseteq Nat
<1>2. \A y \in Nat \ S : ~(y < x)
  BY <1>1 DEF OpToRel
<1>3. x # 0 /\ x-1 \in Nat 
  OBVIOUS
<1>4. x - 1 \in S
  BY <1>2, <1>3
<1> QED BY <1>3, <1>4

(* A first value and a step define a function on Nat.                      *)
LEMMA Recursion ==
  ASSUME NEW v \in Nat, NEW step \in [Nat \X Nat -> Nat]
  PROVE  \E f \in [Nat -> Nat] : f[0] = v /\ \A n \in Nat : f[n + 1] = step[<< n, f[n] >>]
<1> DEFINE Upto(n) == {f \in [0 .. n -> Nat] : f[0] = v /\ \A i \in 0 .. n - 1 : f[i + 1] = step[<< i, f[i] >>]}
<1> DEFINE S == {n \in Nat : Upto(n) # {}}
<1> DEFINE U == {n \in Nat : \A f, g \in Upto(n) : f[n] = g[n]}
<1>0. ASSUME NEW n \in Nat, NEW f \in Upto(n + 1) PROVE [i \in 0 .. n |-> f[i]] \in Upto(n)
  <2>1. (n + 1) - 1 = n /\ 0 \in 0 .. n
    OBVIOUS
  <2>2. /\ f \in [0 .. n + 1 -> Nat] /\ f[0] = v
        /\ \A i \in 0 .. n : f[i + 1] = step[<< i, f[i] >>]
    BY <2>1
  <2> DEFINE g == [i \in 0 .. n |-> f[i]]
  <2>3. g \in [0 .. n -> Nat] /\ g[0] = v
    BY <2>1, <2>2
  <2>4. ASSUME NEW i \in 0 .. n - 1 PROVE g[i + 1] = step[<< i, g[i] >>]
    <3>1. i \in 0 .. n /\ i + 1 \in 0 .. n
      OBVIOUS
    <3>2. QED
      BY <2>2, <3>1
  <2>5. QED
    <3> HIDE DEF g
    <3>1. g \in Upto(n)
      BY <2>3, <2>4
    <3>2. QED
      BY <3>1 DEF g
<1>1. 0 \in S
  <2>1. [i \in 0 .. 0 |-> v] \in Upto(0)
    OBVIOUS
  <2>2. QED
    BY <2>1
<1>2. ASSUME NEW n \in Nat, n \in S PROVE n + 1 \in S
  <2>1. PICK f \in Upto(n) : TRUE
    BY <1>2
  <2> DEFINE g == [i \in 0 .. n + 1 |-> IF i <= n THEN f[i] ELSE step[<< n, f[n] >>]]
  <2>2. f \in [0 .. n -> Nat] /\ f[0] = v /\ \A i \in 0 .. n - 1 : f[i + 1] = step[<< i, f[i] >>]
    BY <2>1
  <2>3. g \in [0 .. n + 1 -> Nat]
    BY <2>2
  <2>4. g[0] = v
    BY <2>2
  <2>5. ASSUME NEW i \in 0 .. n PROVE g[i + 1] = step[<< i, g[i] >>]
    <3>1. i \in 0 .. n + 1 /\ i + 1 \in 0 .. n + 1 /\ i <= n /\ g[i] = f[i]
      OBVIOUS
    <3>2. CASE i = n
      BY <3>1, <3>2
    <3>3. CASE i # n
      <4>1. i \in 0 .. n - 1 /\ i + 1 <= n
        BY <3>3
      <4>2. g[i + 1] = f[i + 1]
        BY <3>1, <4>1
      <4>3. QED
        BY <2>2, <3>1, <4>1, <4>2
    <3>4. QED
      BY <3>2, <3>3
  <2>6. g \in Upto(n + 1)
    <3> HIDE DEF g
    <3>1. (n + 1) - 1 = n
      OBVIOUS
    <3>2. QED
      BY <2>3, <2>4, <2>5, <3>1
  <2>7. QED
    <3> HIDE DEF g, Upto
    <3>1. QED
      BY <2>6
<1>3. Nat \subseteq S
  <2> HIDE DEF S
  <2>1. QED
  BY <1>1, <1>2, NatInd
<1>4. Nat \subseteq U
  <2>1. 0 \in U
    OBVIOUS
  <2>2. ASSUME NEW n \in Nat, n \in U PROVE n + 1 \in U
    <3>1. ASSUME NEW f \in Upto(n + 1), NEW g \in Upto(n + 1) PROVE f[n + 1] = g[n + 1]
      <4>1. [i \in 0 .. n |-> f[i]] \in Upto(n) /\ [i \in 0 .. n |-> g[i]] \in Upto(n)
        BY <1>0
      <4>2. f[n] = g[n]
        <5>1. [i \in 0 .. n |-> f[i]][n] = [i \in 0 .. n |-> g[i]][n]
          BY <4>1, <2>2
        <5>2. QED BY <5>1
      <4>3. /\ f \in [0 .. n + 1 -> Nat] /\ g \in [0 .. n + 1 -> Nat]
            /\ \A i \in 0 .. n : f[i + 1] = step[<< i, f[i] >>]
            /\ \A i \in 0 .. n : g[i + 1] = step[<< i, g[i] >>]
        <5>1. (n + 1) - 1 = n
          OBVIOUS
        <5>2. QED
          BY <5>1
      <4>4. f[n + 1] = step[<< n, f[n] >>] /\ g[n + 1] = step[<< n, g[n] >>]
        BY <4>3, n \in 0 .. n
      <4>5. QED
        BY <4>2, <4>4
    <3>2. QED
      <4> HIDE DEF Upto
      <4>1. QED
        BY <3>1
  <2>3. QED
    <3> HIDE DEF U
    <3>1. QED
    BY <2>1, <2>2, NatInd
<1> DEFINE h(n) == CHOOSE f \in Upto(n) : TRUE
<1> DEFINE F == [n \in Nat |-> h(n)[n]]
<1>5. ASSUME NEW n \in Nat PROVE h(n) \in Upto(n)
  BY <1>3
<1>6. F \in [Nat -> Nat]
  <2>1. ASSUME NEW n \in Nat PROVE h(n)[n] \in Nat
    <3>1. h(n) \in [0 .. n -> Nat] /\ n \in 0 .. n
      <4> HIDE DEF h
      <4>1. QED
        BY <1>5
    <3> HIDE DEF h
    <3>2. QED
      BY <3>1
  <2>2. QED
    BY <2>1
<1>7. F[0] = v
  BY <1>5
<1>8. ASSUME NEW n \in Nat PROVE F[n + 1] = step[<< n, F[n] >>]
  <2> DEFINE f == h(n + 1)
  <2>1. f \in Upto(n + 1)
    <3>1. n + 1 \in Nat
      OBVIOUS
    <3> HIDE DEF h, Upto
    <3>2. QED
      BY <1>5, <3>1
  <2> HIDE DEF h
  <2>2. [i \in 0 .. n |-> f[i]] \in Upto(n)
    <3> HIDE DEF f, Upto
    <3>1. QED
      BY <2>1, <1>0
  <2>3. [i \in 0 .. n |-> f[i]][n] = h(n)[n]
    <3> HIDE DEF f, Upto
    <3>1. QED
      BY <2>2, <1>4, <1>5
  <2>4. f[n] = F[n]
    BY <2>3
  <2>5. f[n + 1] = step[<< n, f[n] >>]
    BY <2>1
  <2>6. QED
    BY <2>4, <2>5
<1>9. QED
  BY <1>6, <1>7, <1>8

(* Pow2 is what its definition says: such a function exists.               *)
LEMMA PowIs == Pow2 = [n \in Nat |-> IF n = 0 THEN 1 ELSE 2 * Pow2[n - 1]]
<1> DEFINE step == [p \in Nat \X Nat |-> 2 * p[2]]
<1>1. step \in [Nat \X Nat -> Nat]
  OBVIOUS
<1>2. PICK f \in [Nat -> Nat] : f[0] = 1 /\ \A n \in Nat : f[n + 1] = step[<< n, f[n] >>]
  <2> HIDE DEF step
  <2>1. 1 \in Nat
    OBVIOUS
  <2>2. \E f \in [Nat -> Nat] : f[0] = 1 /\ \A n \in Nat : f[n + 1] = step[<< n, f[n] >>]
    BY <1>1, <2>1, Recursion
  <2>3. QED
    BY <2>2
<1>3. f = [n \in Nat |-> IF n = 0 THEN 1 ELSE 2 * f[n - 1]]
  <2>1. ASSUME NEW n \in Nat PROVE f[n] = IF n = 0 THEN 1 ELSE 2 * f[n - 1]
    <3>1. CASE n = 0
      BY <3>1, <1>2
    <3>2. CASE n # 0
      <4>1. n - 1 \in Nat /\ (n - 1) + 1 = n
        BY <3>2
      <4>2. f[(n - 1) + 1] = step[<< n - 1, f[n - 1] >>]
        BY <4>1, <1>2
      <4>3. QED
        BY <4>1, <4>2, <3>2
    <3>3. QED
      BY <3>1, <3>2
  <2>2. QED
    BY <2>1
<1>4. QED
  BY <1>3 DEF Pow2

(* Division by a positive number, also of a negative one.                  *)
LEMMA DivLemma ==
  \A a \in Int, d \in Nat \ {0} : a = d * (a \div d) + (a % d) /\ a % d \in 0 .. d - 1 /\ a \div d \in Int
  OBVIOUS

Splits(a, d, q, r) == a = d * q + r /\ r \in 0 .. d - 1

(* Quotient and remainder are the only ones.                               *)
LEMMA DivUnique ==
  ASSUME NEW a \in Int, NEW d \in Nat \ {0}, NEW q \in Int, NEW r \in Int, Splits(a, d, q, r)
  PROVE  a \div d = q /\ a % d = r
<1> DEFINE p == a \div d
<1> DEFINE s == a % d
<1>1. a = d * p + s /\ s \in 0 .. d - 1 /\ p \in Int
  BY DivLemma
<1> HIDE DEF p, s
<1>2. d * (p - q) = r - s
  BY <1>1 DEF Splits
<1>3. r - s < d /\ s - r < d
  BY <1>1 DEF Splits
<1>4. p - q = 0
  <2> DEFINE e == p - q
  <2>1. e \in Int /\ d * e < d /\ -(d * e) < d
    BY <1>1, <1>2, <1>3 DEF Splits
  <2> HIDE DEF e
  <2>2. e < 1 
    <3>1. SUFFICES ASSUME e >= 1 PROVE FALSE
      BY <2>1
    <3>2. d * e >= d 
      BY <2>1, <3>1
    <3>3. QED BY <3>2, <2>1
  <2>3. e > -1
    <3>1. SUFFICES ASSUME e <= -1 PROVE FALSE
      BY <2>1
    <3>2. d * (-e) >= d 
      BY <2>1, <3>1
    <3>3. QED BY <3>2, <2>1
  <2>4. QED
    BY <2>1, <2>2, <2>3 DEF e
<1>5. QED
  BY <1>1, <1>4, <1>2 DEF p, s, Splits

(* Dividing twice is dividing by the product.                              *)
LEMMA DivDiv == ASSUME NEW a \in Int, NEW b \in Nat \ {0}, NEW c \in Nat \ {0}
  PROVE (a \div b) \div c = a \div (b * c)
<1> DEFINE q == (a \div b) \div c
<1> DEFINE r == b * ((a \div b) % c) + (a % b)
<1>1. b * c \in Nat \ {0}
  OBVIOUS
<1>2. q \in Int /\ r \in Int
  BY DivLemma
<1>3. Splits(a, b * c, q, r)
  <2> DEFINE x == a \div b
  <2> DEFINE y == a % b
  <2> DEFINE z == x % c
  <2>1. x \in Int /\ a = b * x + y /\ y \in 0 .. b - 1
    BY DivLemma
  <2> HIDE DEF x, y
  <2>2. q = x \div c
    BY DEF x
  <2>3. x = c * q + z /\ z \in 0 .. c - 1 /\ q \in Int
    BY <2>1, DivLemma DEF x
  <2> HIDE DEF z, q
  <2>4. r = b * z + y
    BY DEF x, y, z
  <2>5. a = (b * c) * q + (b * z + y)
    BY <2>1, <2>3
  <2>6. b * z + y \in 0 .. b * c - 1
    <3>1. b * z <= b * (c - 1)
      BY <2>3
    <3>2. b * z >= 0
      BY <2>3
    <3>3. QED
      BY <3>1, <3>2, <2>1, <2>3
  <2>7. QED
    BY <2>4, <2>5, <2>6 DEF Splits
<1>4. QED
  <2> HIDE DEF q, r
  <2>1. a \div (b * c) = q
    BY <1>1, <1>2, <1>3, DivUnique
  <2>2. QED BY <2>1 DEF q

(* Powers of two are positive and each is twice the one before.            *)
LEMMA PowLemma ==
  /\ Pow2[0] = 1
  /\ \A n \in Nat : Pow2[n] \in Nat \ {0} /\ Pow2[n + 1] = 2 * Pow2[n]
<1>1. Pow2[0] = 1
  BY PowIs
<1>2. ASSUME NEW n \in Nat PROVE Pow2[n + 1] = 2 * Pow2[n]
  <2>1. n + 1 \in Nat /\ n + 1 # 0 /\ (n + 1) - 1 = n
    OBVIOUS
  <2>2. Pow2[n + 1] = IF n + 1 = 0 THEN 1 ELSE 2 * Pow2[(n + 1) - 1]
    BY <2>1, PowIs
  <2>3. QED
    BY <2>1, <2>2
<1> DEFINE S == {n \in Nat : Pow2[n] \in Nat \ {0}}
<1>3. 0 \in S
  BY <1>1
<1>4. ASSUME NEW n \in Nat, n \in S PROVE n + 1 \in S
  BY <1>2, <1>4
<1>5. Nat \subseteq S
  <2> HIDE DEF S
  <2>1. QED
    BY <1>3, <1>4, NatInd
<1>6. QED
  BY <1>1, <1>2, <1>5

(* The power of a sum is the product of the powers.                        *)
LEMMA PowAdd == ASSUME NEW a \in Nat, NEW b \in Nat PROVE Pow2[a + b] = Pow2[a] * Pow2[b]
<1> DEFINE S == {n \in Nat : Pow2[a + n] = Pow2[a] * Pow2[n]}
<1>1. 0 \in S
  BY PowLemma
<1>2. ASSUME NEW n \in Nat, n \in S PROVE n + 1 \in S
  <2>1. Pow2[n + 1] = 2 * Pow2[n] /\ Pow2[n] \in Nat /\ Pow2[a] \in Nat
    BY PowLemma
  <2>2. Pow2[(a + n) + 1] = 2 * Pow2[a + n] /\ a + (n + 1) = (a + n) + 1
    BY PowLemma, a + n \in Nat
  <2>3. Pow2[a] * (2 * Pow2[n]) = 2 * (Pow2[a] * Pow2[n])
    BY <2>1
  <2>4. QED
    BY <1>2, <2>1, <2>2, <2>3
<1>3. Nat \subseteq S
  <2> HIDE DEF S
  <2>1. QED
    BY <1>1, <1>2, NatInd
<1>4. QED
  BY <1>3

(* M and its parts.                                                        *)
Half == M \div 2

(* A register has an even number of bits, two or more.                     *)
LEMMA WidthLemma ==
  /\ W \in Nat /\ W >= 2 /\ W % 2 = 0
  /\ M \in Nat /\ Half \in Nat /\ M \div 4 \in Nat
  /\ M = 2 * Half /\ Half = 2 * (M \div 4) /\ M \div 4 >= 1
  /\ M = 4 * (M \div 4)
  /\ Pow2[W] = M /\ Pow2[W - 1] = Half /\ Pow2[W - 2] = M \div 4
<1>1. LogW \in Nat /\ LogW - 1 \in Nat /\ (LogW - 1) + 1 = LogW
  BY AluAssumption
<1>2. Pow2[(LogW - 1) + 1] = 2 * Pow2[LogW - 1] /\ Pow2[LogW - 1] \in Nat \ {0}
  BY <1>1, PowLemma
<1>3. W \in Nat /\ W >= 2 /\ W % 2 = 0
  BY <1>1, <1>2 DEF W
<1>4. W - 1 \in Nat /\ W - 2 \in Nat /\ (W - 1) + 1 = W /\ (W - 2) + 1 = W - 1
  BY <1>3
<1> HIDE DEF W
<1>5. /\ Pow2[(W - 1) + 1] = 2 * Pow2[W - 1] /\ Pow2[W - 1] \in Nat \ {0}
      /\ Pow2[(W - 2) + 1] = 2 * Pow2[W - 2] /\ Pow2[W - 2] \in Nat \ {0}
  BY <1>4, PowLemma
<1>6. M = 2 * Pow2[W - 1] /\ Pow2[W - 1] = 2 * Pow2[W - 2]
  BY <1>4, <1>5 DEF M
<1>7. QED
  BY <1>3, <1>5, <1>6 DEF Half, M

----------------------------------------------------------------------------
(* The inductive invariant: control and the time that is left.             *)

Waits == IF state = "WAIT" THEN waited ELSE 0

ControlInv ==
  /\ build \in {"parallel", "radix2", "radix4"}
  /\ state \in {"FETCH", "EXECUTE", "WAIT"}
  /\ funct \in Functs /\ rs1 \in 0 .. M - 1 /\ rs2 \in 0 .. M - 1
  /\ done \in BOOLEAN /\ waited \in 0 .. W + 2
  /\ done => state = "FETCH"
  /\ state = "WAIT" => needToWait
  /\ state = "EXECUTE" => waited = 0

(* After t clocks there are n more to wait.                                *)
InTime(t, n) == t + n <= W + 1

ShiftBusy == shift_count \in 0 .. W - 1 /\ InTime(Waits, shift_count)

(* Clocks until the multiplier is idle.                                    *)
Sign == IF mul_neg THEN 1 ELSE 0

MulLeft ==
  IF mul_count # 0 THEN mul_count + (IF build = "radix4" THEN 1 ELSE 0) + Sign
  ELSE IF mul_fixup THEN 1 + Sign ELSE IF mul_negate_pending THEN 1 ELSE 0

MulFlags ==
  /\ mul_count \in 0 .. W
  /\ build = "radix4" => mul_count <= W \div 2
  /\ build # "radix4" => ~mul_fixup
  /\ mul_fixup \in BOOLEAN /\ mul_negate_pending \in BOOLEAN /\ mul_neg \in BOOLEAN
  /\ mul_count # 0 => ~mul_fixup /\ ~mul_negate_pending
  /\ mul_fixup => ~mul_negate_pending

(* A clock passes at least before another instruction executes.            *)
MulBusy ==
  /\ MulFlags
  /\ InTime(Waits, MulLeft)
  /\ state = "EXECUTE" => MulLeft <= W

(* The mask, i clocks before the divider is idle.                          *)
MaskAt(i) == IF i = 0 THEN 0 ELSE Pow2[i - 1]

(* The divider goes on after its result: it has to be the last to finish.   *)
DivBusy ==
  \E i \in 0 .. W :
    /\ quotient_msk = MaskAt(i)
    /\ InTime(Waits, i)
    /\ state = "WAIT" /\ isDivide => MulLeft <= i /\ shift_count <= i

Less(n) == IF n = 0 THEN 0 ELSE n - 1

(* A clock brings the multiplier nearer to its end, sign fixup and         *)
(* negation included.                                                      *)
LEMMA MulStepLemma ==
  ASSUME MulFlags, ControlInv, MulStep, build' = build
  PROVE  MulFlags' /\ MulLeft' \in Nat /\ MulLeft' = Less(MulLeft)
<1> USE WidthLemma DEF MulFlags, Less, ControlInv, Sign
<1>0. mul_neg' = mul_neg
  BY DEF MulStep
<1>1. CASE build = "radix4"
  <2>0. Radix4Step
    BY <1>1 DEF MulStep
  <2>1. CASE mul_count # 0
    <3>1. BoothStep
      BY <2>0, <2>1 DEF Radix4Step
    <3>2. /\ mul_count' = mul_count - 1 /\ (mul_fixup' <=> mul_count = 1) /\ mul_fixup' \in BOOLEAN
          /\ ~mul_negate_pending' /\ mul_negate_pending' \in BOOLEAN
      BY <3>1, <2>1 DEF BoothStep
    <3>3. QED
      BY <1>0, <1>1, <2>1, <3>2 DEF MulLeft
  <2>2. CASE mul_count = 0 /\ mul_fixup
    <3>1. BoothFixup
      BY <2>0, <2>2 DEF Radix4Step
    <3>2. mul_count' = 0 /\ ~mul_fixup' /\ mul_fixup' \in BOOLEAN /\ (mul_negate_pending' <=> mul_neg) /\ mul_negate_pending' \in BOOLEAN
      BY <3>1, <2>2 DEF BoothFixup
    <3>3. QED
      BY <1>0, <1>1, <2>2, <3>2 DEF MulLeft
  <2>3. CASE mul_count = 0 /\ ~mul_fixup /\ mul_negate_pending
    <3>1. BoothNegate
      BY <2>0, <2>3 DEF Radix4Step
    <3>2. mul_count' = 0 /\ ~mul_fixup' /\ ~mul_negate_pending' /\ {mul_fixup', mul_negate_pending'} \subseteq BOOLEAN
      BY <3>1, <2>3 DEF BoothNegate
    <3>3. QED
      BY <1>0, <1>1, <2>3, <3>2 DEF MulLeft
  <2>4. CASE mul_count = 0 /\ ~mul_fixup /\ ~mul_negate_pending
    <3>1. mul_count' = 0 /\ ~mul_fixup' /\ ~mul_negate_pending' /\ {mul_fixup', mul_negate_pending'} \subseteq BOOLEAN
      BY <2>0, <2>4 DEF Radix4Step
    <3>2. QED
      BY <1>0, <1>1, <2>4, <3>1 DEF MulLeft
  <2>5. QED
    BY <2>1, <2>2, <2>3, <2>4
<1>2. CASE build # "radix4"
  <2>0. Radix2Step /\ ~mul_fixup' /\ mul_fixup' \in BOOLEAN
    BY <1>2 DEF MulStep
  <2>1. CASE mul_count # 0
    <3>1. /\ mul_count' = mul_count - 1
          /\ (mul_negate_pending' <=> mul_count = 1 /\ mul_neg) /\ mul_negate_pending' \in BOOLEAN
      BY <2>0, <2>1 DEF Radix2Step
    <3>2. QED
      BY <1>0, <1>2, <2>0, <2>1, <3>1 DEF MulLeft
  <2>2. CASE mul_count = 0 /\ mul_negate_pending
    <3>1. mul_count' = 0 /\ ~mul_negate_pending' /\ mul_negate_pending' \in BOOLEAN
      BY <2>0, <2>2 DEF Radix2Step
    <3>2. QED
      BY <1>0, <1>2, <2>0, <2>2, <3>1 DEF MulLeft
  <2>3. CASE mul_count = 0 /\ ~mul_negate_pending
    <3>1. mul_count' = 0 /\ ~mul_negate_pending' /\ mul_negate_pending' \in BOOLEAN
      BY <2>0, <2>3 DEF Radix2Step
    <3>2. QED
      BY <1>0, <1>2, <2>0, <2>3, <3>1 DEF MulLeft
  <2>4. QED
    BY <2>1, <2>2, <2>3
<1>3. QED
  BY <1>1, <1>2

(* A multiplication takes W + 1 clocks at most once it is loaded.          *)
LEMMA MulLoadLemma ==
  ASSUME ControlInv, MulLoad, build' = build
  PROVE  MulFlags' /\ MulLeft' <= W + 1 /\ MulLeft' \in Nat
<1>1. /\ mul_count' = (IF build = "radix4" THEN W \div 2 ELSE W)
      /\ ~mul_fixup' /\ ~mul_negate_pending' /\ {mul_neg', mul_fixup', mul_negate_pending'} \subseteq BOOLEAN
  BY DEF MulLoad, mul_sign1, mul_sign2
<1>2. W \div 2 \in Nat /\ W \div 2 <= W /\ W \div 2 # 0 /\ W \div 2 + 2 <= W + 1
  BY WidthLemma
<1>3. QED
  BY <1>1, <1>2, WidthLemma DEF MulFlags, MulLeft, Sign, ControlInv

(* Halving the mask is one clock less.                                     *)
LEMMA MaskLemma ==
  ASSUME NEW i \in 0 .. W
  PROVE  MaskAt(i) \div 2 = MaskAt(Less(i)) /\ (MaskAt(i) # 0) = (i # 0) /\ MaskAt(i) \in Nat
<1>1. CASE i = 0
  BY <1>1 DEF MaskAt, Less
<1>2. CASE i = 1
  BY <1>2, PowLemma DEF MaskAt, Less
<1>3. CASE i # 0 /\ i # 1
  <2>1. i - 2 \in Nat /\ (i - 2) + 1 = i - 1 /\ i - 1 \in Nat
    BY <1>3, WidthLemma
  <2>2. Pow2[i - 1] = 2 * Pow2[i - 2] /\ Pow2[i - 2] \in Nat \ {0}
    BY <2>1, PowLemma
  <2>3. QED
    BY <1>3, <2>1, <2>2 DEF MaskAt, Less
<1>4. QED
  BY <1>1, <1>2, <1>3

(* In one clock each unit is loaded or counts down.                        *)
LEMMA UnitsLemma ==
  ASSUME ControlInv, ShiftBusy, MulBusy, DivBusy, Units, build' = build
  PROVE  /\ shift_count' \in 0 .. W - 1
         /\ ~(aluWr /\ isShiftOp /\ Serial) => shift_count' = Less(shift_count)
         /\ MulFlags' /\ MulLeft' \in 0 .. W + 1
         /\ ~(aluWr /\ isMul /\ Serial) => MulLeft' = Less(MulLeft)
         /\ aluWr /\ isDivide => quotient_msk' = MaskAt(W)
         /\ \A i \in 0 .. W : quotient_msk = MaskAt(i) /\ ~(aluWr /\ isDivide) =>
              quotient_msk' = MaskAt(Less(i))
<1>1. /\ shift_count' \in 0 .. W - 1
      /\ ~(aluWr /\ isShiftOp /\ Serial) => shift_count' = Less(shift_count)
  <2>1. CASE aluWr /\ isShiftOp /\ Serial
    <3>1. ShiftLoad
      BY <2>1 DEF Units
    <3>2. shamt \in 0 .. W - 1
      BY WidthLemma DEF shamt, ControlInv
    <3>3. QED
      BY <2>1, <3>1, <3>2 DEF ShiftLoad
  <2>2. CASE ~(aluWr /\ isShiftOp /\ Serial)
    <3>1. ShiftStep
      BY <2>2 DEF Units
    <3>2. shift_count' = Less(shift_count)
      BY <3>1 DEF ShiftStep, ShiftBusy, shift_busy, Less, shiftVars
    <3>3. QED
      BY <3>2, WidthLemma DEF ShiftBusy, Less
  <2>3. QED
    BY <2>1, <2>2
<1>2. /\ MulFlags' /\ MulLeft' \in 0 .. W + 1
      /\ ~(aluWr /\ isMul /\ Serial) => MulLeft' = Less(MulLeft)
  <2>1. CASE aluWr /\ isMul /\ Serial
    <3>1. MulLoad
      BY <2>1 DEF Units
    <3>2. QED
      BY <2>1, <3>1, MulLoadLemma, WidthLemma
  <2>2. CASE ~(aluWr /\ isMul /\ Serial)
    <3>1. MulStep
      BY <2>2 DEF Units
    <3>2. MulFlags' /\ MulLeft' \in Nat /\ MulLeft' = Less(MulLeft)
      BY <3>1, MulStepLemma DEF MulBusy
    <3>3. MulLeft \in Nat /\ MulLeft <= W + 1
      <4>1. MulLeft \in Nat /\ Waits \in Nat /\ Waits + MulLeft <= W + 1
        BY WidthLemma DEF MulBusy, MulFlags, MulLeft, Sign, Waits, ControlInv, InTime
      <4>2. QED
        BY <4>1, WidthLemma
    <3>4. QED
      BY <3>2, <3>3, WidthLemma DEF Less
  <2>3. QED
    BY <2>1, <2>2
<1>3. ASSUME aluWr, isDivide PROVE quotient_msk' = MaskAt(W)
  <2>1. quotient_msk' = Half
    BY <1>3 DEF Units, DivLoad, Half
  <2>2. QED
    BY <2>1, WidthLemma DEF MaskAt
<1>4. ASSUME NEW i \in 0 .. W, quotient_msk = MaskAt(i), ~(aluWr /\ isDivide)
      PROVE  quotient_msk' = MaskAt(Less(i))
  <2>1. quotient_msk' = quotient_msk \div 2
    BY <1>4 DEF Units, DivStep
  <2>2. QED
    BY <1>4, <2>1, MaskLemma
<1>5. QED
  BY <1>1, <1>2, <1>3, <1>4

(* What of WidthLemma is about sizes only.                                 *)
LEMMA WideLemma == W \in Nat /\ W >= 2 /\ M \in Nat /\ M >= 1
  BY WidthLemma

(* The clocks waited and left, when one passes or an operation begins.     *)
LEMMA InTimeLemma ==
  /\ \A n \in 0 .. W + 1 : InTime(0, n)
  /\ \A t \in Nat, n \in Nat : InTime(t, n) => t + n <= W + 1
  /\ \A t \in Nat, n \in Nat, m \in Nat : InTime(t, n) /\ m <= n => InTime(t, m)
  /\ \A t \in 0 .. W, n \in Nat, m \in Nat : InTime(t, n) /\ m <= Less(n) => InTime(t + 1, m)
  BY WideLemma DEF InTime, Less

(* The multiplier is busy as long as clocks are left.                      *)
LEMMA MulLeftType ==
  ASSUME MulFlags PROVE MulLeft \in Nat /\ (mul_busy <=> MulLeft # 0)
  BY WidthLemma DEF MulFlags, MulLeft, Sign, mul_busy

BusyInv == ControlInv /\ ShiftBusy /\ MulBusy /\ DivBusy

(* An instruction comes with whatever operands; the units go on.           *)
LEMMA BusyIssue == ASSUME BusyInv, Issue PROVE BusyInv'
<1> USE WideLemma
<1>1. /\ state = "FETCH" /\ state' = "EXECUTE" /\ ~aluWr /\ build' = build /\ Units
      /\ waited' = 0 /\ ~done' /\ done' \in BOOLEAN /\ Waits = 0 /\ Waits' = 0
      /\ funct' \in Functs /\ rs1' \in 0 .. M - 1 /\ rs2' \in 0 .. M - 1
  BY DEF Issue, aluWr, Waits
<1>2. ControlInv'
  BY <1>1 DEF BusyInv, ControlInv
<1>3. /\ shift_count' \in 0 .. W - 1 /\ MulFlags' /\ MulLeft' \in 0 .. W + 1
      /\ MulLeft' <= Less(MulLeft)
      /\ \A i \in 0 .. W : quotient_msk = MaskAt(i) => quotient_msk' = MaskAt(Less(i))
  BY <1>1, UnitsLemma DEF BusyInv
<1>4. ShiftBusy'
  <2>1. InTime(0, shift_count')
    BY <1>3, InTimeLemma
  <2>2. QED
    BY <1>1, <1>3, <2>1 DEF ShiftBusy
<1>5. MulBusy'
  <2>1. MulLeft \in Nat /\ MulLeft <= W + 1
    BY <1>1, MulLeftType DEF BusyInv, MulBusy, InTime
  <2>2. MulLeft' <= W
    BY <1>3, <2>1 DEF Less
  <2>3. QED
    BY <1>1, <1>3, <2>2, InTimeLemma DEF MulBusy
<1>6. DivBusy'
  <2>1. PICK i \in 0 .. W : quotient_msk = MaskAt(i)
    BY DEF BusyInv, DivBusy
  <2>2. quotient_msk' = MaskAt(Less(i)) /\ Less(i) \in 0 .. W
    BY <1>3, <2>1 DEF Less
  <2>3. QED
    BY <1>1, <2>2, InTimeLemma DEF DivBusy
<1>7. QED
  BY <1>2, <1>4, <1>5, <1>6 DEF BusyInv

(* The units go on while nothing waits for them.                           *)
LEMMA BusyFetching == ASSUME BusyInv, Fetching PROVE BusyInv'
<1> USE WideLemma
<1>1. /\ state = "FETCH" /\ state' = "FETCH" /\ ~aluWr /\ build' = build /\ Units
      /\ waited' = waited /\ done' = done /\ Waits = 0 /\ Waits' = 0
      /\ funct' = funct /\ rs1' = rs1 /\ rs2' = rs2
  BY DEF Fetching, aluWr, Waits, instrVars
<1>2. ControlInv'
  BY <1>1 DEF BusyInv, ControlInv
<1>3. /\ shift_count' \in 0 .. W - 1 /\ MulFlags' /\ MulLeft' \in 0 .. W + 1
      /\ \A i \in 0 .. W : quotient_msk = MaskAt(i) => quotient_msk' = MaskAt(Less(i))
  BY <1>1, UnitsLemma DEF BusyInv
<1>4. ShiftBusy'
  <2>1. InTime(0, shift_count')
    BY <1>3, InTimeLemma
  <2>2. QED
    BY <1>1, <1>3, <2>1 DEF ShiftBusy
<1>5. MulBusy'
  BY <1>1, <1>3, InTimeLemma DEF MulBusy
<1>6. DivBusy'
  <2>1. PICK i \in 0 .. W : quotient_msk = MaskAt(i)
    BY DEF BusyInv, DivBusy
  <2>2. quotient_msk' = MaskAt(Less(i)) /\ Less(i) \in 0 .. W
    BY <1>3, <2>1 DEF Less
  <2>3. QED
    BY <1>1, <2>2, InTimeLemma DEF DivBusy
<1>7. QED
  BY <1>2, <1>4, <1>5, <1>6 DEF BusyInv

(* S_EXECUTE loads one unit.                                               *)
LEMMA BusyExecute == ASSUME BusyInv, Execute PROVE BusyInv'
<1> USE WideLemma
<1>1. /\ state = "EXECUTE" /\ state' \in {"FETCH", "WAIT"} /\ aluWr /\ build' = build /\ Units
      /\ waited' = waited /\ waited = 0 /\ Waits = 0 /\ Waits' = 0
      /\ funct' = funct /\ rs1' = rs1 /\ rs2' = rs2
      /\ done' \in BOOLEAN /\ (done' => state' = "FETCH") /\ (state' = "WAIT" => needToWait)
  BY DEF Execute, aluWr, Waits, instrVars, BusyInv, ControlInv
<1>2. needToWait' <=> needToWait
  BY <1>1 DEF needToWait, isDivide, isMul, isShiftOp, Serial
<1>3. ControlInv'
  BY <1>1, <1>2 DEF BusyInv, ControlInv
<1>4. /\ shift_count' \in 0 .. W - 1 /\ MulFlags' /\ MulLeft' \in 0 .. W + 1
      /\ ~(isShiftOp /\ Serial) => shift_count' = Less(shift_count)
      /\ ~(isMul /\ Serial) => MulLeft' <= Less(MulLeft)
      /\ isDivide => quotient_msk' = MaskAt(W)
      /\ \A i \in 0 .. W : quotient_msk = MaskAt(i) /\ ~isDivide => quotient_msk' = MaskAt(Less(i))
  BY <1>1, UnitsLemma DEF BusyInv
<1>5. ShiftBusy'
  <2>1. InTime(0, shift_count')
    BY <1>4, InTimeLemma
  <2>2. QED
    BY <1>1, <1>4, <2>1 DEF ShiftBusy
<1>6. MulBusy'
  BY <1>1, <1>4, InTimeLemma DEF MulBusy
<1>7. DivBusy'
  <2>1. CASE isDivide
    <3>1. ~isShiftOp /\ ~isMul
      BY <2>1 DEF isDivide, isShiftOp, isMul
    <3>2. MulLeft \in Nat /\ MulLeft <= W /\ MulLeft' <= W /\ shift_count' <= W
      BY <1>1, <1>4, <3>1, MulLeftType DEF BusyInv, MulBusy, Less
    <3>3. QED
      BY <1>1, <1>4, <2>1, <3>2, InTimeLemma DEF DivBusy
  <2>2. CASE ~isDivide
    <3>1. PICK i \in 0 .. W : quotient_msk = MaskAt(i)
      BY DEF BusyInv, DivBusy
    <3>2. quotient_msk' = MaskAt(Less(i)) /\ Less(i) \in 0 .. W
      BY <1>4, <3>1, <2>2 DEF Less
    <3>3. ~isDivide'
      BY <1>1, <2>2 DEF isDivide
    <3>4. QED
      BY <1>1, <3>2, <3>3, InTimeLemma DEF DivBusy
  <2>3. QED
    BY <2>1, <2>2
<1>8. QED
  BY <1>3, <1>5, <1>6, <1>7 DEF BusyInv

(* A clock of S_WAIT is one more waited and one less left, or the end.     *)
LEMMA BusyWait == ASSUME BusyInv, Wait PROVE BusyInv'
<1> USE WideLemma
<1>1. /\ state = "WAIT" /\ ~aluWr /\ build' = build /\ Units
      /\ Waits = waited /\ needToWait /\ ~done
      /\ funct' = funct /\ rs1' = rs1 /\ rs2' = rs2
      /\ waited' = waited + 1
      /\ IF aluBusy THEN state' = "WAIT" /\ done' = done
                    ELSE state' = "FETCH" /\ done' = TRUE
  BY DEF Wait, aluWr, Waits, instrVars, BusyInv, ControlInv
<1>2. /\ shift_count' \in 0 .. W - 1 /\ MulFlags' /\ MulLeft' \in 0 .. W + 1
      /\ shift_count' = Less(shift_count) /\ MulLeft' <= Less(MulLeft)
      /\ \A i \in 0 .. W : quotient_msk = MaskAt(i) => quotient_msk' = MaskAt(Less(i))
  BY <1>1, UnitsLemma DEF BusyInv
<1>3. /\ needToWait' <=> needToWait
      /\ isDivide' <=> isDivide
  BY <1>1 DEF needToWait, isDivide, isMul, isShiftOp, Serial
<1>4. PICK i \in 0 .. W : /\ quotient_msk = MaskAt(i) /\ InTime(waited, i)
                          /\ isDivide => MulLeft <= i /\ shift_count <= i
  BY <1>1 DEF BusyInv, DivBusy
<1>5. /\ waited \in Nat /\ InTime(waited, shift_count) /\ InTime(waited, MulLeft)
      /\ MulLeft \in Nat /\ shift_count \in Nat
  BY <1>1, <1>4, MulLeftType DEF BusyInv, ControlInv, ShiftBusy, MulBusy
<1>6. aluBusy <=> (i # 0 \/ MulLeft # 0 \/ shift_count # 0)
  BY <1>4, MaskLemma, MulLeftType DEF aluBusy, div_busy, shift_busy, BusyInv, MulBusy
<1>7. /\ waited' \in 0 .. W + 2
      /\ InTime(Waits', shift_count') /\ InTime(Waits', MulLeft') /\ InTime(Waits', Less(i))
  <2>1. CASE aluBusy
    <3>1. waited \in 0 .. W
      <4>1. waited + i <= W + 1 /\ waited + MulLeft <= W + 1 /\ waited + shift_count <= W + 1
        BY <1>4, <1>5, InTimeLemma
      <4>2. QED
        BY <2>1, <1>5, <1>6, <4>1
    <3>2. InTime(waited + 1, shift_count') /\ InTime(waited + 1, MulLeft') /\ InTime(waited + 1, Less(i))
      <4>1. Less(i) \in Nat /\ Less(shift_count) \in Nat /\ shift_count' <= Less(shift_count) /\ shift_count' \in Nat
            /\ MulLeft' \in Nat /\ i \in Nat
        BY <1>2, <1>5 DEF Less
      <4>2. QED
        BY <1>2, <1>4, <1>5, <3>1, <4>1, InTimeLemma
    <3>3. Waits' = waited + 1 /\ waited' = waited + 1
      BY <1>1, <2>1 DEF Waits
    <3>4. waited + 1 \in 0 .. W + 2
      BY <3>1
    <3>5. QED
      BY <3>2, <3>3, <3>4
  <2>2. CASE ~aluBusy
    <3>1. Waits' = 0 /\ waited' = waited + 1
      BY <1>1, <2>2 DEF Waits
    <3>4. waited + 1 \in 0 .. W + 2
      <4>1. waited + shift_count <= W + 1
        BY <1>5, InTimeLemma
      <4>2. QED
        BY <1>5, <4>1
    <3>2. shift_count' \in 0 .. W + 1 /\ MulLeft' \in 0 .. W + 1 /\ Less(i) \in 0 .. W + 1
      BY <1>2 DEF Less
    <3>3. QED
      BY <3>1, <3>2, <3>4, InTimeLemma
  <2>3. QED
    BY <2>1, <2>2
<1>8. ControlInv'
  BY <1>1, <1>3, <1>7 DEF BusyInv, ControlInv
<1>9. ShiftBusy'
  BY <1>2, <1>7 DEF ShiftBusy
<1>10. MulBusy'
  <2>1. state' # "EXECUTE" /\ Less(MulLeft) \in Nat
    BY <1>1, <1>5 DEF Less
  <2>2. QED
    BY <1>2, <1>7, <2>1 DEF MulBusy
<1>11. DivBusy'
  <2>1. Less(i) \in 0 .. W /\ quotient_msk' = MaskAt(Less(i))
    BY <1>2, <1>4 DEF Less
  <2>2. isDivide' => MulLeft' <= Less(i) /\ shift_count' <= Less(i)
    BY <1>2, <1>3, <1>4, <1>5 DEF Less
  <2>3. QED
    BY <2>1, <2>2, <1>7 DEF DivBusy
<1>12. QED
  BY <1>8, <1>9, <1>10, <1>11 DEF BusyInv

(* After reset every counter is zero.                                      *)
LEMMA BusyInit == AluInit => BusyInv
<1> SUFFICES ASSUME AluInit PROVE BusyInv
  OBVIOUS
<1> USE WideLemma, AluAssumption
<1>1. /\ build \in Builds /\ state = "FETCH" /\ funct = "divu" /\ rs1 = 0 /\ rs2 = 0
      /\ shift_count = 0 /\ mul_count = 0 /\ ~mul_fixup /\ ~mul_negate_pending
      /\ {mul_neg, mul_fixup, mul_negate_pending} \subseteq BOOLEAN
      /\ quotient_msk \in {0} \cup {Pow2[i] : i \in 0 .. W - 1}
      /\ ~done /\ done \in BOOLEAN /\ waited = 0
  BY DEF AluInit
<1>2. ControlInv
  BY <1>1 DEF ControlInv, Functs
<1>3. ShiftBusy
  BY <1>1, InTimeLemma DEF ShiftBusy, Waits
<1>4. MulBusy
  BY <1>1, InTimeLemma DEF MulBusy, MulFlags, MulLeft, Sign, Waits
<1>5. DivBusy
  <2>1. \E i \in 0 .. W : quotient_msk = MaskAt(i)
    <3>1. CASE quotient_msk = 0
      BY <3>1 DEF MaskAt
    <3>2. CASE quotient_msk # 0
      <4>1. PICK i \in 0 .. W - 1 : quotient_msk = Pow2[i]
        BY <1>1, <3>2
      <4>2. i + 1 \in 0 .. W /\ MaskAt(i + 1) = Pow2[i]
        BY <4>1 DEF MaskAt
      <4>3. QED
        BY <4>1, <4>2
    <3>3. QED
      BY <3>1, <3>2
  <2>2. QED
    BY <1>1, <2>1, InTimeLemma DEF DivBusy, Waits
<1>6. QED
  BY <1>2, <1>3, <1>4, <1>5 DEF BusyInv

(* Nothing changes.                                                        *)
LEMMA BusyStutter == ASSUME BusyInv, UNCHANGED aluVars PROVE BusyInv'
<1>1. /\ UNCHANGED << build, state, funct, rs1, rs2, done, waited, quotient_msk >>
      /\ UNCHANGED << shift_count, mul_count, mul_fixup, mul_negate_pending, mul_neg >>
  BY DEF aluVars, instrVars, shiftVars, mulVars, divVars
<1>2. ControlInv' /\ ShiftBusy'
  BY <1>1 DEF BusyInv, ControlInv, ShiftBusy, Waits, needToWait, isDivide, isMul, isShiftOp, Serial
<1>3. MulLeft' = MulLeft /\ Waits' = Waits /\ (isDivide' <=> isDivide)
  BY <1>1 DEF MulLeft, Sign, Waits, isDivide
<1>4. MulBusy'
  BY <1>1, <1>3 DEF BusyInv, MulBusy, MulFlags
<1>5. DivBusy'
  BY <1>1, <1>3 DEF BusyInv, DivBusy
<1>6. QED
  BY <1>2, <1>4, <1>5 DEF BusyInv

----------------------------------------------------------------------------
(* Shifts.                                                                 *)

Apart(x, y, d, k) == x = y + d * k

(* A multiple of the divisor more or less.                                 *)
LEMMA ModShift ==
  ASSUME NEW x \in Int, NEW y \in Int, NEW d \in Nat \ {0}, NEW k \in Int, Apart(x, y, d, k)
  PROVE  x % d = y % d /\ x \div d = (y \div d) + k
<1> DEFINE q == y \div d
<1> DEFINE r == y % d
<1>1. y = d * q + r /\ q \in Int /\ r \in 0 .. d - 1
  BY DivLemma
<1> HIDE DEF q, r
<1>2. x = d * (q + k) + r
  BY <1>1 DEF Apart
<1>3. Splits(x, d, q + k, r) /\ q + k \in Int /\ r \in Int
  BY <1>1, <1>2 DEF Splits
<1>4. x \div d = q + k /\ x % d = r
  BY <1>3, DivUnique
<1>5. QED
  BY <1>4 DEF q, r

(* One halving more.                                                       *)
LEMMA DivTwo ==
  ASSUME NEW a \in Int, NEW b \in Nat \ {0}
  PROVE  (a \div b) \div 2 = a \div (b * 2)
<1>1. PICK c \in Nat \ {0} : c = 2
  OBVIOUS
<1>2. (a \div b) \div c = a \div (b * c)
  BY DivDiv
<1>3. QED
  BY <1>1, <1>2

(* A number below the divisor is its own remainder.                        *)
LEMMA SmallMod ==
  ASSUME NEW d \in Nat \ {0}, NEW x \in 0 .. d - 1
  PROVE  x % d = x /\ x \div d = 0
<1>1. Splits(x, d, 0, x) /\ x \in Int
  BY DEF Splits
<1>2. QED
  BY <1>1, DivUnique

(* A quotient of a signed number is as small as the number.                *)
LEMMA SignedDiv ==
  ASSUME NEW s \in -Half .. Half - 1, NEW p \in Nat \ {0}
  PROVE  s \div p \in -Half .. Half - 1
<1> DEFINE q == s \div p
<1> DEFINE r == s % p
<1>0. s \in Int
  BY WidthLemma
<1>1. s = p * q + r /\ q \in Int /\ r \in 0 .. p - 1
  BY <1>0, DivLemma
<1> HIDE DEF q, r
<1>2. Half \in Nat /\ Half >= 1
  BY WidthLemma
<1>3. CASE s >= 0
  <2>1. q <= s
    <3>1. SUFFICES ASSUME q >= s + 1 PROVE FALSE
      BY <1>1
    <3>2. p * q >= q
      BY <1>1, <1>3, <3>1
    <3>3. QED
      BY <1>1, <3>1, <3>2
  <2>2. q >= 0
    <3>1. SUFFICES ASSUME q <= -1 PROVE FALSE
      BY <1>1
    <3>2. p * q <= p * (-1)
      BY <1>1, <3>1
    <3>3. QED
      BY <1>1, <1>3, <3>2
  <2>3. QED
    BY <1>1, <1>2, <1>3, <2>1, <2>2 DEF q
<1>4. CASE s < 0
  <2>1. q >= s
    <3>1. SUFFICES ASSUME q <= s - 1 PROVE FALSE
      BY <1>1
    <3>2. p * q <= p * (s - 1)
      BY <1>1, <3>1
    <3>3. p * (s - 1) = p * s - p /\ p * s <= s
      BY <1>4
    <3>4. QED
      BY <1>1, <3>2, <3>3
  <2>2. q < 0
    <3>1. SUFFICES ASSUME q >= 0 PROVE FALSE
      BY <1>1
    <3>2. p * q >= 0
      BY <1>1, <3>1
    <3>3. QED
      BY <1>1, <1>4, <3>2
  <2>3. QED
    BY <1>1, <1>2, <1>4, <2>1, <2>2 DEF q
<1>5. QED
  BY <1>3, <1>4

(* The top bit of a word is its sign.                                      *)
LEMMA SignLemma ==
  ASSUME NEW x \in 0 .. M - 1
  PROVE  /\ Bit(x, W - 1) = IF x < Half THEN 0 ELSE 1
         /\ Signed(x) = IF x < Half THEN x ELSE x - M
         /\ Signed(x) \in -Half .. Half - 1
<1>0. Pow2[W - 1] = Half
  BY WidthLemma
<1>1. Half \in Nat \ {0} /\ M = 2 * Half /\ x \in Int
  BY WidthLemma
<1>2. CASE x < Half
  <2>1. Splits(x, Half, 0, x)
    BY <1>1, <1>2 DEF Splits
  <2>2. x \div Half = 0
    BY <1>1, <1>2, SmallMod
  <2>3. QED
    BY <1>0, <1>1, <1>2, <2>2 DEF Bit, Signed, Half
<1>3. CASE x >= Half
  <2>0. Half \in Int /\ x - Half \in Int /\ 1 \in Int
    BY <1>1
  <2>1. Splits(x, Half, 1, x - Half)
    BY <1>1, <1>3, <2>0 DEF Splits
  <2>2. x \div Half = 1
    BY <1>1, <2>0, <2>1, DivUnique
  <2>3. QED
    BY <1>0, <1>1, <1>3, <2>2 DEF Bit, Signed, Half
<1>4. QED
  BY <1>1, <1>2, <1>3

(* The remainder of a signed number is its representation.                 *)
LEMMA SignedMod ==
  ASSUME NEW q \in -Half .. Half - 1
  PROVE  q % M = IF q < 0 THEN q + M ELSE q
<1>1. Half \in Nat \ {0} /\ M = 2 * Half /\ M \in Nat \ {0} /\ q \in Int
  BY WidthLemma
<1>2. CASE q < 0
  <2>1. Splits(q, M, -1, q + M) /\ q + M \in Int
    BY <1>1, <1>2 DEF Splits
  <2>2. QED
    BY <1>1, <1>2, <2>1, DivUnique
<1>3. CASE q >= 0
  <2>1. Splits(q, M, 0, q)
    BY <1>1, <1>3 DEF Splits
  <2>2. QED
    BY <1>1, <1>3, <2>1, DivUnique
<1>4. QED
  BY <1>1, <1>2, <1>3

(* The number of k places further.                                         *)
Shifted(f, a, k) ==
  CASE f = "sll" -> (a * Pow2[k]) % M
    [] f = "srl" -> a \div Pow2[k]
    [] f = "sra" -> (Signed(a) \div Pow2[k]) % M

(* One place more, as ShiftStep does it.                                   *)
OnePlace(f, d) ==
  IF f = "sll" THEN (d * 2) % M
  ELSE d \div 2 + (IF f = "sra" THEN Bit(d, W - 1) ELSE 0) * (M \div 2)

(* Shifting one place at a time is shifting, in each direction and with    *)
(* the sign.                                                               *)
LEMMA ShiftedLemma ==
  ASSUME NEW a \in 0 .. M - 1, NEW k \in Nat, NEW f \in {"sll", "srl", "sra"}
  PROVE  /\ Shifted(f, a, k) \in 0 .. M - 1
         /\ Shifted(f, a, 0) = a
         /\ OnePlace(f, Shifted(f, a, k)) = Shifted(f, a, k + 1)
<1> DEFINE p == Pow2[k]
<1>1. p \in Nat \ {0} /\ Pow2[k + 1] = 2 * p /\ Pow2[0] = 1 /\ Pow2[k + 1] = p * 2
  BY PowLemma
<1>2. M \in Nat \ {0} /\ a \in Nat /\ Half \in Nat \ {0} /\ M = 2 * Half
  BY WidthLemma
<1> HIDE DEF p
<1>3. CASE f = "sll"
  <2> DEFINE q == (a * p) \div M
  <2> DEFINE r == (a * p) % M
  <2>1. a * p \in Int
    BY <1>1, <1>2
  <2>2. a * p = M * q + r /\ q \in Int /\ r \in 0 .. M - 1
    BY <1>2, <2>1, DivLemma
  <2>3. Shifted(f, a, k) = r /\ Shifted(f, a, 0) = (a * 1) % M /\ Shifted(f, a, k + 1) = (a * (2 * p)) % M
    BY <1>1, <1>3 DEF Shifted, p
  <2> HIDE DEF q, r
  <2>4. a * (2 * p) = r * 2 + M * (2 * q)
    BY <1>1, <1>2, <2>2
  <2>5. Apart(a * (2 * p), r * 2, M, 2 * q)
    BY <2>4 DEF Apart
  <2>6. (a * (2 * p)) % M = (r * 2) % M
    <3>1. a * (2 * p) \in Int /\ r * 2 \in Int /\ 2 * q \in Int
      BY <1>1, <1>2, <2>2
    <3>2. QED
      BY <1>2, <2>5, <3>1, ModShift
  <2>7. a % M = a /\ a * 1 = a
    BY <1>2, SmallMod
  <2>8. QED
    BY <1>3, <2>2, <2>3, <2>6, <2>7 DEF OnePlace
<1>4. CASE f = "srl"
  <2> DEFINE q == a \div p
  <2>1. Shifted(f, a, k) = q /\ Shifted(f, a, 0) = a \div 1 /\ Shifted(f, a, k + 1) = a \div (p * 2)
    BY <1>1, <1>4 DEF Shifted, p
  <2>2. q \in 0 .. M - 1
    <3>0. a \in Int
      BY <1>2
    <3>1. a = p * q + (a % p) /\ q \in Int /\ a % p \in 0 .. p - 1
      BY <1>1, <3>0, DivLemma
    <3> HIDE DEF q
    <3>2. q >= 0
      <4>1. SUFFICES ASSUME q <= -1 PROVE FALSE
        BY <3>1
      <4>2. p * q <= p * (-1)
        BY <1>1, <3>1, <4>1
      <4>3. QED
        BY <1>1, <1>2, <3>1, <4>2
    <3>3. p * q >= q
      BY <1>1, <3>1, <3>2
    <3>4. QED
      BY <1>1, <1>2, <3>1, <3>2, <3>3
  <2>3. q \div 2 = a \div (p * 2)
    BY <1>1, <1>2, DivTwo
  <2> HIDE DEF q
  <2>4. a \div 1 = a
    BY <1>2
  <2>5. OnePlace(f, q) = q \div 2
    BY <1>2, <1>4, <2>2 DEF OnePlace, Half
  <2>6. QED
    BY <2>1, <2>2, <2>3, <2>4, <2>5
<1>5. CASE f = "sra"
  <2> DEFINE s == Signed(a)
  <2> DEFINE q == s \div p
  <2>1. s \in -Half .. Half - 1 /\ s = IF a < Half THEN a ELSE a - M
    BY SignLemma
  <2>2. Shifted(f, a, k) = q % M /\ Shifted(f, a, 0) = (s \div 1) % M /\ Shifted(f, a, k + 1) = (s \div (p * 2)) % M
    BY <1>1, <1>5 DEF Shifted, p
  <2> HIDE DEF s
  <2>3. q \in -Half .. Half - 1
    BY <1>1, <2>1, SignedDiv
  <2>4. s \div (p * 2) = q \div 2
    <3>1. s \in Int
      BY <1>2, <2>1
    <3>2. QED
      BY <1>1, <3>1, DivTwo
  <2> HIDE DEF q
  <2>5. q % M = (IF q < 0 THEN q + M ELSE q) /\ q % M \in 0 .. M - 1
    BY <1>2, <2>3, SignedMod
  <2>6. q \div 2 \in -Half .. Half - 1 /\ (q < 0 <=> q \div 2 < 0)
    BY <1>2, <2>3
  <2>7. (q \div 2) % M = IF q < 0 THEN (q \div 2) + M ELSE q \div 2
    BY <2>6, SignedMod
  <2>8. OnePlace(f, q % M) = (q \div 2) % M
    <3>1. CASE q < 0
      <4>1. q % M = q + M /\ q + M >= Half /\ q + M \in 0 .. M - 1
        BY <1>2, <2>3, <2>5, <3>1
      <4>2. Bit(q % M, W - 1) = 1
        <5> DEFINE y == q % M
        <5>1. y \in 0 .. M - 1 /\ ~(y < Half)
          BY <1>2, <2>3, <4>1
        <5> HIDE DEF y
        <5>2. Bit(y, W - 1) = 1
          BY <5>1, SignLemma
        <5>3. QED
          BY <5>2 DEF y
      <4>3. OnePlace(f, q % M) = ((q + M) \div 2) + 1 * Half
        BY <1>5, <4>1, <4>2 DEF OnePlace, Half
      <4>4. (q + M) \div 2 = (q \div 2) + Half
        BY <1>2, <2>3
      <4>5. QED
        BY <1>2, <2>3, <2>7, <3>1, <4>3, <4>4
    <3>2. CASE q >= 0
      <4>1. q % M = q /\ q < Half /\ q \in 0 .. M - 1
        BY <1>2, <2>3, <2>5, <3>2
      <4>2. Bit(q % M, W - 1) = 0
        BY <4>1, SignLemma
      <4>3. OnePlace(f, q % M) = (q \div 2) + 0 * Half
        BY <1>5, <4>1, <4>2 DEF OnePlace, Half
      <4>4. QED
        BY <1>2, <2>3, <2>7, <3>2, <4>3
    <3>3. QED
      BY <2>3, <3>1, <3>2
  <2>9. (s \div 1) % M = a
    <3>1. s \div 1 = s /\ s % M = IF s < 0 THEN s + M ELSE s
      BY <2>1, SignedMod
    <3>2. QED
      BY <1>2, <2>1, <3>1
  <2>10. QED
    BY <2>2, <2>4, <2>5, <2>8, <2>9
<1>6. QED
  BY <1>3, <1>4, <1>5

----------------------------------------------------------------------------
(* The barrel shifter turns a word round to shift it left.                 *)

IsTurned(f, x) == f[0] = 0 /\ \A n \in Nat : f[n + 1] = f[n] * 2 + Bit(x, n)

(* The low n bits of x, the lowest first.                                  *)
Turned(x) == CHOOSE f \in [Nat -> Nat] : IsTurned(f, x)
Rev(n, x) == Turned(x)[n]

(* A bit of a number is the next lower one of its half.                    *)
LEMMA BitLemma ==
  ASSUME NEW x \in Nat, NEW n \in Nat
  PROVE  Bit(x, n) \in 0 .. 1 /\ Bit(x, n + 1) = Bit(x \div 2, n) /\ x \div 2 \in Nat
<1> DEFINE p == Pow2[n]
<1>1. p \in Nat \ {0} /\ Pow2[n + 1] = 2 * p
  BY PowLemma
<1> HIDE DEF p
<1>2. PICK c \in Nat \ {0} : c = 2
  OBVIOUS
<1>3. (x \div c) \div p = x \div (c * p) /\ x \div p \in Int
  <2>1. x \in Int
    OBVIOUS
  <2>2. (x \div c) \div p = x \div (c * p)
    BY <1>1, <2>1, DivDiv
  <2>3. x \div p \in Int
    BY <1>1, <2>1, DivLemma
  <2>4. QED
    BY <2>2, <2>3
<1>4. QED
  BY <1>1, <1>2, <1>3 DEF Bit, p

(* The recursion that defines a reversal.                                  *)
LEMMA RevLemma ==
  ASSUME NEW x \in Nat
  PROVE  /\ Rev(0, x) = 0
         /\ \A n \in Nat : Rev(n, x) \in Nat /\ Rev(n + 1, x) = Rev(n, x) * 2 + Bit(x, n)
<1> DEFINE step == [p \in Nat \X Nat |-> p[2] * 2 + Bit(x, p[1])]
<1>1. step \in [Nat \X Nat -> Nat]
  <2>1. ASSUME NEW p \in Nat \X Nat PROVE p[2] * 2 + Bit(x, p[1]) \in Nat
    <3>1. p[1] \in Nat /\ p[2] \in Nat
      OBVIOUS
    <3>2. Bit(x, p[1]) \in 0 .. 1
      BY <3>1, BitLemma
    <3>3. QED
      BY <3>1, <3>2
  <2>2. QED
    BY <2>1
<1>2. \A n \in Nat, m \in Nat : step[<< n, m >>] = m * 2 + Bit(x, n)
  OBVIOUS
<1> HIDE DEF step
<1>3. 0 \in Nat
  OBVIOUS
<1>4. \E f \in [Nat -> Nat] : f[0] = 0 /\ \A n \in Nat : f[n + 1] = step[<< n, f[n] >>]
  BY <1>1, <1>3, Recursion
<1>5. PICK f \in [Nat -> Nat] : f[0] = 0 /\ \A n \in Nat : f[n + 1] = step[<< n, f[n] >>]
  BY <1>4
<1>6. IsTurned(f, x)
  BY <1>2, <1>5 DEF IsTurned
<1>7. Turned(x) \in [Nat -> Nat] /\ IsTurned(Turned(x), x)
  BY <1>6 DEF Turned
<1>8. QED
  BY <1>7 DEF Rev, IsTurned

(* The sum of bits that the model writes is that reversal.                 *)
LEMMA ReverseLemma ==
  ASSUME NEW x \in Nat
  PROVE  Reverse(x) = Rev(W, x)
<1> DEFINE Is(g) == g = [i \in 0 .. W |-> IF i = 0 THEN 0 ELSE g[i - 1] * 2 + Bit(x, i - 1)]
<1> DEFINE f == [i \in 0 .. W |-> Rev(i, x)]
<1> DEFINE h == CHOOSE g : Is(g)
<1> USE WideLemma
<1>1. Reverse(x) = h[W]
  BY DEF Reverse
<1>2. Is(f)
  <2>1. ASSUME NEW i \in 0 .. W
        PROVE  f[i] = IF i = 0 THEN 0 ELSE f[i - 1] * 2 + Bit(x, i - 1)
    <3>1. CASE i = 0
      BY <3>1, RevLemma
    <3>2. CASE i # 0
      <4>1. i - 1 \in Nat /\ (i - 1) + 1 = i /\ i - 1 \in 0 .. W
        BY <3>2
      <4>2. Rev((i - 1) + 1, x) = Rev(i - 1, x) * 2 + Bit(x, i - 1)
        BY <4>1, RevLemma
      <4>3. QED
        BY <3>2, <4>1, <4>2
    <3>3. QED
      BY <3>1, <3>2
  <2> HIDE DEF f
  <2>2. f = [i \in 0 .. W |-> f[i]]
    BY DEF f
  <2>3. QED
    BY <2>1, <2>2
<1>3. Is(h)
  BY <1>2
<1> HIDE DEF h
<1> DEFINE S == {n \in Nat : n <= W => h[n] = Rev(n, x)}
<1>4. 0 \in S
  BY <1>3, RevLemma
<1>5. ASSUME NEW n \in Nat, n \in S PROVE n + 1 \in S
  <2>1. SUFFICES ASSUME n + 1 <= W PROVE h[n + 1] = Rev(n + 1, x)
    OBVIOUS
  <2>2. h[n] = Rev(n, x) /\ n + 1 \in 0 .. W /\ n + 1 # 0 /\ (n + 1) - 1 = n
    BY <1>5, <2>1
  <2>3. h[n + 1] = h[n] * 2 + Bit(x, n)
    <3>1. h[n + 1] = IF n + 1 = 0 THEN 0 ELSE h[(n + 1) - 1] * 2 + Bit(x, (n + 1) - 1)
      BY <1>3, <2>2
    <3>2. QED
      BY <2>2, <3>1
  <2>4. QED
    BY <2>2, <2>3, RevLemma
<1>6. Nat \subseteq S
  <2> HIDE DEF S
  <2>1. QED
    BY <1>4, <1>5, NatInd
<1>7. QED
  BY <1>1, <1>6

(* Lowest bit first, or last.                                              *)
LEMMA RevOther ==
  ASSUME NEW x \in Nat
  PROVE  \A n \in Nat : Rev(n + 1, x) = Bit(x, 0) * Pow2[n] + Rev(n, x \div 2)
<1> DEFINE y == x \div 2
<1> DEFINE b == Bit(x, 0)
<1> DEFINE S == {n \in Nat : Rev(n + 1, x) = b * Pow2[n] + Rev(n, y)}
<1>0. y \in Nat /\ b \in 0 .. 1
  BY BitLemma, 0 \in Nat
<1>1. \A n \in Nat : Bit(x, n + 1) = Bit(y, n) /\ Bit(y, n) \in 0 .. 1
  BY <1>0, BitLemma
<1> HIDE DEF y, b
<1>2. 0 \in S
  <2>1. Rev(0 + 1, x) = Rev(0, x) * 2 + Bit(x, 0) /\ Rev(0, x) = 0 /\ Rev(0, y) = 0
    BY <1>0, RevLemma, 0 \in Nat
  <2>2. Pow2[0] = 1
    BY PowLemma
  <2>3. QED
    BY <1>0, <2>1, <2>2 DEF b
<1>3. ASSUME NEW n \in Nat, n \in S PROVE n + 1 \in S
  <2>1. n + 1 \in Nat /\ Pow2[n + 1] = 2 * Pow2[n] /\ Pow2[n] \in Nat
    BY PowLemma
  <2>2. Rev((n + 1) + 1, x) = Rev(n + 1, x) * 2 + Bit(x, n + 1) /\ Rev(n + 1, x) \in Nat
    BY <2>1, RevLemma
  <2>3. Rev(n + 1, y) = Rev(n, y) * 2 + Bit(y, n) /\ Rev(n, y) \in Nat
    BY <1>0, RevLemma
  <2>4. Bit(x, n + 1) = Bit(y, n) /\ Bit(y, n) \in 0 .. 1
    BY <1>1
  <2>5. Rev(n + 1, x) = b * Pow2[n] + Rev(n, y)
    BY <1>3
  <2> DEFINE p == Pow2[n]
  <2> DEFINE v == Rev(n, y)
  <2> DEFINE c == Bit(y, n)
  <2>6. (b * p + v) * 2 + c = b * (2 * p) + (v * 2 + c)
    <3>1. p \in Nat /\ v \in Nat /\ c \in Nat /\ b \in Nat
      BY <1>0, <2>1, <2>3, <2>4
    <3> HIDE DEF p, v, c
    <3>2. QED
      BY <3>1
  <2>7. QED
    BY <2>1, <2>2, <2>3, <2>4, <2>5, <2>6
<1>4. Nat \subseteq S
  <2> HIDE DEF S
  <2>1. QED
    BY <1>2, <1>3, NatInd
<1>5. QED
  BY <1>4 DEF b, y

(* One more of the low bits.                                               *)
LEMMA ModSplit ==
  ASSUME NEW x \in Nat, NEW n \in Nat
  PROVE  x % Pow2[n + 1] = Bit(x, n) * Pow2[n] + (x % Pow2[n])
<1> DEFINE p == Pow2[n]
<1> DEFINE q == x \div p
<1> DEFINE r == x % p
<1>1. p \in Nat \ {0} /\ Pow2[n + 1] = p * 2
  BY PowLemma
<1> HIDE DEF p
<1>2. x = p * q + r /\ q \in Int /\ r \in 0 .. p - 1
  BY <1>1, x \in Int, DivLemma
<1>3. Bit(x, n) = q % 2
  BY DEF Bit, p
<1> HIDE DEF q, r
<1> DEFINE h == q \div 2
<1> DEFINE b == q % 2
<1>4. q = 2 * h + b /\ h \in Int /\ b \in 0 .. 1
  BY <1>2
<1> HIDE DEF h, b
<1>5. x = (p * 2) * h + (b * p + r)
  BY <1>1, <1>2, <1>4
<1>6. b * p + r \in 0 .. p * 2 - 1
  <2>1. CASE b = 0
    BY <1>1, <1>2, <2>1
  <2>2. CASE b = 1
    BY <1>1, <1>2, <2>2
  <2>3. QED
    BY <1>4, <2>1, <2>2
<1>7. Splits(x, p * 2, h, b * p + r) /\ p * 2 \in Nat \ {0} /\ b * p + r \in Int /\ x \in Int
  BY <1>1, <1>5, <1>6 DEF Splits
<1>8. x % (p * 2) = b * p + r
  BY <1>4, <1>7, DivUnique
<1>9. QED
  BY <1>1, <1>3, <1>8 DEF b, r, p

(* Turned twice, the low bits are back.                                    *)
LEMMA RevTwice ==
  ASSUME NEW x \in Nat
  PROVE  \A n \in Nat : Rev(n, Rev(n, x)) = x % Pow2[n]
<1> DEFINE S == {n \in Nat : Rev(n, Rev(n, x)) = x % Pow2[n]}
<1>1. 0 \in S
  <2>1. Rev(0, x) = 0 /\ Rev(0, 0) = 0 /\ Pow2[0] = 1 /\ x % 1 = 0
    BY RevLemma, PowLemma, 0 \in Nat
  <2>2. QED
    BY <2>1
<1>2. ASSUME NEW n \in Nat, n \in S PROVE n + 1 \in S
  <2> DEFINE y == Rev(n + 1, x)
  <2> DEFINE v == Rev(n, x)
  <2> DEFINE b == Bit(x, n)
  <2>1. v \in Nat /\ b \in 0 .. 1 /\ y = v * 2 + b
    BY RevLemma, BitLemma
  <2>2. Rev(n, v) = x % Pow2[n]
    BY <1>2
  <2>3. x % Pow2[n + 1] = b * Pow2[n] + (x % Pow2[n])
    BY ModSplit
  <2> HIDE DEF y, v, b
  <2>4. y \div 2 = v /\ Bit(y, 0) = b /\ y \in Nat
    <3>1. Bit(y, 0) = (y \div 1) % 2
      BY PowLemma DEF Bit
    <3>2. y \div 1 = y
      BY <2>1
    <3>3. QED
      BY <2>1, <3>1, <3>2
  <2>5. Rev(n + 1, y) = Bit(y, 0) * Pow2[n] + Rev(n, y \div 2)
    BY <2>4, RevOther
  <2>6. QED
    BY <2>2, <2>3, <2>4, <2>5 DEF y
<1>3. Nat \subseteq S
  <2> HIDE DEF S
  <2>1. QED
    BY <1>1, <1>2, NatInd
<1>4. QED
  BY <1>3

(* As many bits turned as there were.                                      *)
LEMMA RevBound ==
  ASSUME NEW x \in Nat
  PROVE  \A n \in Nat : Rev(n, x) \in 0 .. Pow2[n] - 1
<1> DEFINE S == {n \in Nat : Rev(n, x) \in 0 .. Pow2[n] - 1}
<1>1. 0 \in S
  <2>1. Rev(0, x) = 0 /\ Pow2[0] = 1
    BY RevLemma, PowLemma
  <2>2. QED
    BY <2>1
<1>2. ASSUME NEW n \in Nat, n \in S PROVE n + 1 \in S
  <2>1. Pow2[n + 1] = 2 * Pow2[n] /\ Pow2[n] \in Nat
    BY PowLemma
  <2>2. Rev(n + 1, x) = Rev(n, x) * 2 + Bit(x, n) /\ Bit(x, n) \in 0 .. 1
    BY RevLemma, BitLemma
  <2>3. QED
    BY <1>2, <2>1, <2>2
<1>3. Nat \subseteq S
  <2> HIDE DEF S
  <2>1. QED
    BY <1>1, <1>2, NatInd
<1>4. QED
  BY <1>3

(* A number's bits above its size are zeros.                               *)
LEMMA RevAbove ==
  ASSUME NEW n \in Nat, NEW z \in 0 .. Pow2[n] - 1
  PROVE  \A s \in Nat : Rev(n + s, z) = Rev(n, z) * Pow2[s]
<1> DEFINE S == {s \in Nat : Rev(n + s, z) = Rev(n, z) * Pow2[s]}
<1>0. z \in Nat /\ Pow2[n] \in Nat \ {0}
  BY PowLemma
<1>1. 0 \in S
  <2>1. Rev(n, z) \in Nat
    BY <1>0, RevLemma
  <2>2. Pow2[0] = 1 /\ n + 0 = n
    BY PowLemma
  <2>3. QED
    BY <2>1, <2>2
<1>2. ASSUME NEW s \in Nat, s \in S PROVE s + 1 \in S
  <2>1. Pow2[s + 1] = 2 * Pow2[s] /\ Pow2[s] \in Nat \ {0} /\ Rev(n, z) \in Nat
    BY <1>0, RevLemma, PowLemma
  <2>2. n + s \in Nat /\ n + (s + 1) = (n + s) + 1
    OBVIOUS
  <2>3. Rev((n + s) + 1, z) = Rev(n + s, z) * 2 + Bit(z, n + s)
    BY <1>0, <2>2, RevLemma
  <2>4. Bit(z, n + s) = 0
    <3> DEFINE d == Pow2[n + s]
    <3>1. d = Pow2[n] * Pow2[s] /\ d \in Nat \ {0}
      BY <2>2, PowAdd, PowLemma
    <3>2. d >= Pow2[n]
      <4> HIDE DEF d
      <4>1. Pow2[n] * Pow2[s] >= Pow2[n] * 1
        BY <1>0, <2>1
      <4>2. QED
        BY <1>0, <3>1, <4>1
    <3> HIDE DEF d
    <3>3. z \in 0 .. d - 1
      BY <1>0, <3>1, <3>2
    <3>4. z \div d = 0
      BY <3>1, <3>3, SmallMod
    <3>5. QED
      BY <3>4 DEF Bit, d
  <2>5. QED
    BY <1>2, <2>1, <2>2, <2>3, <2>4
<1>3. Nat \subseteq S
  <2> HIDE DEF S
  <2>1. QED
    BY <1>1, <1>2, NatInd
<1>4. QED
  BY <1>3

(* Dropping the lowest bits of a turned number is turning fewer.           *)
LEMMA RevBelow ==
  ASSUME NEW n \in Nat, NEW x \in Nat
  PROVE  \A s \in Nat : Rev(n + s, x) \div Pow2[s] = Rev(n, x)
<1> DEFINE S == {s \in Nat : Rev(n + s, x) \div Pow2[s] = Rev(n, x)}
<1>1. 0 \in S
  <2>0. Rev(n, x) \in Nat
    BY RevLemma
  <2>1. Rev(n, x) \in Nat /\ Pow2[0] = 1 /\ n + 0 = n
    BY <2>0, PowLemma
  <2>2. Rev(n, x) \div 1 = Rev(n, x)
    BY <2>1
  <2>3. QED
    BY <2>1, <2>2
<1>2. ASSUME NEW s \in Nat, s \in S PROVE s + 1 \in S
  <2> DEFINE p == Pow2[s]
  <2> DEFINE v == Rev(n + s, x)
  <2> DEFINE y == Rev(n + (s + 1), x)
  <2>1. Pow2[s + 1] = 2 * p /\ p \in Nat \ {0}
    BY PowLemma
  <2>2. n + s \in Nat /\ n + (s + 1) = (n + s) + 1
    OBVIOUS
  <2>3. y = v * 2 + Bit(x, n + s) /\ v \in Nat /\ Bit(x, n + s) \in 0 .. 1
    BY <2>2, RevLemma, BitLemma
  <2>4. v \div p = Rev(n, x)
    BY <1>2
  <2> HIDE DEF p, v, y
  <2>5. y \div 2 = v /\ y \in Int
    BY <2>3
  <2>6. PICK c \in Nat \ {0} : c = 2
    OBVIOUS
  <2>7. (y \div c) \div p = y \div (c * p)
    BY <2>1, <2>5, DivDiv
  <2>8. QED
    BY <2>1, <2>4, <2>5, <2>6, <2>7 DEF y
<1>3. Nat \subseteq S
  <2> HIDE DEF S
  <2>1. QED
    BY <1>1, <1>2, NatInd
<1>4. QED
  BY <1>3

(* Numerator and divisor scaled alike.                                     *)
LEMMA ModScale ==
  ASSUME NEW x \in Int, NEW a \in Nat \ {0}, NEW c \in Nat \ {0}
  PROVE  (x % a) * c = (x * c) % (a * c) /\ x \div a = (x * c) \div (a * c)
<1> DEFINE q == x \div a
<1> DEFINE r == x % a
<1>1. x = a * q + r /\ q \in Int /\ r \in 0 .. a - 1
  BY DivLemma
<1> HIDE DEF q, r
<1>2. x * c = (a * c) * q + r * c
  BY <1>1
<1>3. r * c >= 0 /\ r * c <= (a - 1) * c /\ (a - 1) * c = a * c - c
  BY <1>1
<1>4. Splits(x * c, a * c, q, r * c) /\ r * c \in Int /\ x * c \in Int /\ a * c \in Nat \ {0}
  BY <1>1, <1>2, <1>3 DEF Splits
<1>5. (x * c) % (a * c) = r * c /\ (x * c) \div (a * c) = q
  BY <1>1, <1>4, DivUnique
<1>6. QED
  BY <1>5 DEF r, q

(* The amount of a shift is less than the width.                           *)
LEMMA ShamtLemma ==
  ASSUME ControlInv
  PROVE  shamt \in 0 .. W - 1 /\ Pow2[shamt] \in Nat \ {0}
<1>1. shamt \in 0 .. W - 1
  BY WideLemma DEF ControlInv, shamt
<1>2. QED
  BY <1>1, PowLemma

(* A right shift between two reversals is a left shift.                    *)
LEMMA TurnLemma ==
  ASSUME NEW x \in 0 .. M - 1, NEW s \in 0 .. W - 1
  PROVE  Reverse((Reverse(x) \div Pow2[s]) % M) = (x * Pow2[s]) % M
<1>0. W \in Nat /\ M \in Nat \ {0} /\ x \in Nat /\ s \in Nat
  BY WideLemma
<1>1. PICK n \in Nat : n + s = W
  <2>1. W - s \in Nat /\ (W - s) + s = W
    BY <1>0
  <2>2. QED
    BY <2>1
<1>2. Pow2[n] * Pow2[s] = M /\ Pow2[n] \in Nat \ {0} /\ Pow2[s] \in Nat \ {0}
  BY <1>0, <1>1, PowAdd, PowLemma, WidthLemma
<1> DEFINE z == Rev(n, x)
<1>3. Reverse(x) \div Pow2[s] = z
  <2>1. Reverse(x) = Rev(n + s, x)
    BY <1>0, <1>1, ReverseLemma
  <2>2. Rev(n + s, x) \div Pow2[s] = Rev(n, x)
    BY <1>0, RevBelow
  <2>3. QED
    BY <2>1, <2>2
<1>4. z \in 0 .. Pow2[n] - 1 /\ z \in Nat
  BY <1>0, RevBound, RevLemma
<1>5. Rev(n, z) = x % Pow2[n]
  BY <1>0, RevTwice
<1> HIDE DEF z
<1>6. z % M = z
  <2>1. Pow2[n] <= M
    <3> DEFINE p == Pow2[n]
    <3> DEFINE q == Pow2[s]
    <3>1. p \in Nat /\ q \in Nat \ {0} /\ p * q = M
      BY <1>2
    <3> HIDE DEF p, q
    <3>2. p * q >= p * 1
      BY <3>1
    <3>3. QED
      BY <3>1, <3>2 DEF p
  <2>2. z \in 0 .. M - 1
    BY <1>0, <1>2, <1>4, <2>1
  <2>3. QED
    BY <1>0, <2>2, SmallMod
<1>7. Reverse(z) = Rev(n, z) * Pow2[s]
  <2>1. Reverse(z) = Rev(n + s, z)
    BY <1>1, <1>4, ReverseLemma
  <2>2. QED
    BY <1>0, <1>4, <2>1, RevAbove
<1>8. (x % Pow2[n]) * Pow2[s] = (x * Pow2[s]) % (Pow2[n] * Pow2[s])
  BY <1>0, <1>2, x \in Int, ModScale
<1>9. QED
  BY <1>2, <1>3, <1>5, <1>6, <1>7, <1>8

(* The barrel shifter and the ISA shift alike.                             *)
LEMMA BarrelLemma ==
  ASSUME ControlInv, isShiftOp
  PROVE  BarrelResult = Shifted(funct, rs1, shamt) /\ IsaResult = Shifted(funct, rs1, shamt)
<1> DEFINE p == Pow2[shamt]
<1>1. shamt \in 0 .. W - 1 /\ p \in Nat \ {0} /\ rs1 \in 0 .. M - 1 /\ M \in Nat \ {0} /\ rs1 \in Int
  BY ShamtLemma, WideLemma DEF ControlInv
<1>2. IsaResult = Shifted(funct, rs1, shamt)
  BY DEF isShiftOp, IsaResult, Shifted
<1>3. CASE funct = "sll"
  <2>1. Reverse(rs1) \in Nat
    <3>1. rs1 \in Nat /\ W \in Nat
      BY <1>1, WideLemma
    <3>2. Reverse(rs1) = Rev(W, rs1)
      BY <3>1, ReverseLemma
    <3>3. Rev(W, rs1) \in Nat
      BY <3>1, RevLemma
    <3>4. QED
      BY <3>2, <3>3
  <2>2. Reverse(rs1) - 0 * M = Reverse(rs1)
    BY <1>1, <2>1
  <2>3. shifter = (Reverse(rs1) \div p) % M
    BY <1>3, <2>2 DEF shifter
  <2>4. BarrelResult = Reverse(shifter)
    BY <1>3 DEF BarrelResult
  <2>5. Reverse((Reverse(rs1) \div p) % M) = (rs1 * p) % M
    BY <1>1, TurnLemma
  <2>6. QED
    BY <1>2, <1>3, <2>3, <2>4, <2>5 DEF Shifted
<1>4. CASE funct = "srl"
  <2>1. shifter = ((rs1 - 0 * M) \div p) % M /\ BarrelResult = shifter
    BY <1>4 DEF shifter, BarrelResult
  <2>2. rs1 - 0 * M = rs1
    BY <1>1
  <2>3. rs1 \div p = Shifted(funct, rs1, shamt)
    BY <1>4 DEF Shifted
  <2>4. Shifted(funct, rs1, shamt) \in 0 .. M - 1
    <3>1. funct \in {"sll", "srl", "sra"} /\ shamt \in Nat
      BY <1>1, <1>4, WideLemma
    <3>2. QED
      BY <1>1, <3>1, ShiftedLemma
  <2>5. Shifted(funct, rs1, shamt) % M = Shifted(funct, rs1, shamt)
    BY <1>1, <2>4, SmallMod
  <2>6. QED
    BY <1>2, <2>1, <2>2, <2>3, <2>5
<1>5. CASE funct = "sra"
  <2>1. shifter = ((rs1 - Bit(rs1, W - 1) * M) \div p) % M /\ BarrelResult = shifter
    BY <1>5 DEF shifter, BarrelResult
  <2>2. rs1 - Bit(rs1, W - 1) * M = Signed(rs1)
    <3>1. Bit(rs1, W - 1) = (IF rs1 < Half THEN 0 ELSE 1) /\ Signed(rs1) = IF rs1 < Half THEN rs1 ELSE rs1 - M
      BY <1>1, SignLemma
    <3>2. 0 * M = 0 /\ 1 * M = M /\ rs1 - 0 = rs1
      BY <1>1
    <3>3. QED
      BY <3>1, <3>2
  <2>3. QED
    BY <1>2, <1>5, <2>1, <2>2 DEF Shifted
<1>6. QED
  BY <1>3, <1>4, <1>5 DEF isShiftOp

----------------------------------------------------------------------------
(* The serial shifter.                                                     *)

ShiftInv ==
  state = "WAIT" /\ isShiftOp =>
    /\ shift_count <= shamt
    /\ shift_is_left <=> funct = "sll"
    /\ shift_is_arith <=> funct = "sra"
    /\ {shift_is_left, shift_is_arith} \subseteq BOOLEAN
    /\ shift_data = Shifted(funct, rs1, shamt - shift_count)

(* A place more in shift_data is a place less in shift_count.              *)
LEMMA ShiftStepLemma ==
  ASSUME ControlInv, ShiftBusy, ShiftInv, state = "WAIT", isShiftOp, ShiftStep,
         UNCHANGED << funct, rs1, rs2 >>
  PROVE  ShiftInv'
<1> DEFINE k == shamt - shift_count
<1>1. /\ shift_count <= shamt /\ (shift_is_left <=> funct = "sll") /\ (shift_is_arith <=> funct = "sra")
      /\ {shift_is_left, shift_is_arith} \subseteq BOOLEAN
      /\ shift_data = Shifted(funct, rs1, k)
      /\ shift_count \in 0 .. W - 1 /\ shamt \in 0 .. W - 1 /\ k \in Nat /\ W \in Nat
  BY ShamtLemma, WideLemma DEF ShiftInv, ShiftBusy
<1>2. shamt' = shamt /\ (isShiftOp' <=> isShiftOp)
  BY DEF shamt, isShiftOp
<1>3. CASE shift_count = 0
  <2>1. UNCHANGED shiftVars
    BY <1>3 DEF ShiftStep, shift_busy
  <2>2. QED
    BY <1>1, <1>2, <2>1 DEF ShiftInv, shiftVars
<1>4. CASE shift_count # 0
  <2>1. /\ shift_count' = shift_count - 1
        /\ shift_is_left' = shift_is_left /\ shift_is_arith' = shift_is_arith
        /\ shift_data' = OnePlace(funct, shift_data)
    BY <1>1, <1>4 DEF ShiftStep, shift_busy, OnePlace
  <2>2. OnePlace(funct, shift_data) = Shifted(funct, rs1, k + 1)
    <3>1. funct \in {"sll", "srl", "sra"} /\ rs1 \in 0 .. M - 1
      BY DEF isShiftOp, ControlInv
    <3>2. \A f \in {"sll", "srl", "sra"}, v \in 0 .. M - 1, m \in Nat :
            OnePlace(f, Shifted(f, v, m)) = Shifted(f, v, m + 1)
      BY ShiftedLemma, Zenon
    <3>3. QED
      BY <1>1, <3>1, <3>2, Zenon
  <2>3. shamt - (shift_count - 1) = k + 1 /\ shift_count - 1 <= shamt
    BY <1>1, <1>4
  <2> HIDE DEF k
  <2>4. QED
    BY <1>1, <1>2, <2>1, <2>2, <2>3 DEF ShiftInv
<1>5. QED
  BY <1>3, <1>4

(* Loaded, it is the operand and the whole amount.                         *)
LEMMA ShiftLoadLemma ==
  ASSUME ControlInv, isShiftOp, ShiftLoad, UNCHANGED << funct, rs1, rs2 >>
  PROVE  ShiftInv'
<1>1. /\ shift_data' = rs1 /\ shift_count' = shamt
      /\ (shift_is_left' <=> funct = "sll") /\ (shift_is_arith' <=> funct = "sra")
      /\ {shift_is_left', shift_is_arith'} \subseteq BOOLEAN
  BY DEF ShiftLoad
<1>2. shamt' = shamt /\ shamt \in 0 .. W - 1 /\ shamt - shamt = 0 /\ shamt <= shamt
  BY ShamtLemma, WideLemma DEF shamt
<1>3. Shifted(funct, rs1, 0) = rs1
  <2>1. funct \in {"sll", "srl", "sra"} /\ rs1 \in 0 .. M - 1 /\ 0 \in Nat
    BY DEF isShiftOp, ControlInv
  <2>2. QED
    BY <2>1, ShiftedLemma
<1>4. QED
  BY <1>1, <1>2, <1>3 DEF ShiftInv

----------------------------------------------------------------------------
(* The divider.                                                            *)

(* The absolute values it works on, and what it makes of them.             *)
DivN == IF isSigned /\ Signed(rs1) < 0 THEN Neg(rs1) ELSE rs1
DivD == IF isSigned /\ Signed(rs2) < 0 THEN Neg(rs2) ELSE rs2

DivEnd(n, d) ==
  IF isRem THEN (IF d = 0 THEN n ELSE n % d) ELSE (IF d = 0 THEN M - 1 ELSE n \div d)

(* Quotient q of n by d down to the bit of weight p, with remainder r.     *)
DivDown(n, d, p, r, q) ==
  /\ r \in Nat /\ q \in Nat /\ q % p = 0
  /\ n = r + q * d
  /\ d # 0 => r < d * p
  /\ d = 0 => q = M - p

DivInv ==
  state = "WAIT" /\ isDivide =>
    /\ quotient_msk # 0 =>
         /\ divisor = DivD * quotient_msk
         /\ DivDown(DivN, DivD, 2 * quotient_msk, dividend, quotient)
    /\ quotient_msk = 0 => divResult = DivEnd(DivN, DivD)

(* Two's complement.                                                       *)
LEMMA NegLemma ==
  ASSUME NEW x \in 0 .. M - 1
  PROVE  Neg(x) = IF x = 0 THEN 0 ELSE M - x
<1>1. M \in Nat \ {0} /\ -x \in Int
  BY WideLemma
<1>2. CASE x = 0
  <2>0. 0 \in 0 .. M - 1
    BY <1>1
  <2>1. -x = 0
    <3>1. \A y \in Nat : y < 1 => -y = y
      OBVIOUS
    <3>2. x \in Nat /\ x < 1
      BY <1>2
    <3>3. -x = x
      BY <3>1, <3>2
    <3>4. QED
      BY <1>2, <3>3
  <2>2. 0 % M = 0
    BY <1>1, <2>0, SmallMod
  <2>3. QED
    BY <1>2, <2>1, <2>2 DEF Neg
<1>3. CASE x # 0
  <2>1. Splits(-x, M, -1, M - x) /\ M - x \in Int /\ -1 \in Int
    BY <1>1, <1>3 DEF Splits
  <2>2. (-x) % M = M - x
    BY <1>1, <2>1, DivUnique
  <2>3. QED
    BY <1>3, <2>2 DEF Neg
<1>4. QED
  BY <1>2, <1>3

(* The absolute value of a word read as a signed number.                   *)
LEMMA AbsLemma ==
  ASSUME NEW x \in 0 .. M - 1
  PROVE  /\ Signed(x) < 0 <=> Bit(x, W - 1) = 1
         /\ Signed(x) < 0 => Neg(x) = -Signed(x) /\ Signed(x) = x - M
         /\ Signed(x) >= 0 => Signed(x) = x
         /\ Signed(x) = 0 <=> x = 0
         /\ Signed(x) \in -Half .. Half - 1
         /\ Neg(x) \in 0 .. M - 1
<1>1. Half \in Nat /\ M = 2 * Half /\ Half >= 1
  BY WidthLemma
<1>2. Neg(x) = IF x = 0 THEN 0 ELSE M - x
  BY NegLemma
<1>3. Bit(x, W - 1) = IF x < Half THEN 0 ELSE 1
  BY SignLemma
<1>4. Signed(x) = (IF x < Half THEN x ELSE x - M) /\ Signed(x) \in -Half .. Half - 1
  BY SignLemma
<1>5. QED
  BY <1>1, <1>2, <1>3, <1>4

(* The absolute values fit a register, the most negative number's too.     *)
LEMMA DivOperands ==
  ASSUME ControlInv
  PROVE  DivN \in 0 .. M - 1 /\ DivD \in 0 .. M - 1 /\ (DivD = 0 <=> rs2 = 0)
<1>1. rs1 \in 0 .. M - 1 /\ rs2 \in 0 .. M - 1
  BY DEF ControlInv
<1>2. Neg(rs1) \in 0 .. M - 1 /\ Neg(rs2) \in 0 .. M - 1 /\ (Signed(rs2) < 0 => Neg(rs2) # 0 /\ rs2 # 0)
  <2>1. /\ Neg(rs1) \in 0 .. M - 1 /\ Neg(rs2) \in 0 .. M - 1
        /\ Signed(rs2) < 0 => Neg(rs2) = -Signed(rs2)
        /\ Signed(rs2) \in -Half .. Half - 1
        /\ Signed(rs2) = 0 <=> rs2 = 0
    BY <1>1, AbsLemma
  <2>2. Half \in Nat
    BY WidthLemma
  <2>3. QED
    BY <2>1, <2>2
<1>3. QED
  BY <1>1, <1>2 DEF DivN, DivD

(* One step of the divider gains one bit.                                  *)
LEMMA DivGain ==
  ASSUME NEW n \in 0 .. M - 1, NEW d \in 0 .. M - 1, quotient_msk \in Nat \ {0},
         divisor = d * quotient_msk,
         DivDown(n, d, 2 * quotient_msk, dividend, quotient)
  PROVE  DivDown(n, d, quotient_msk, dividendN, quotientN)
<1> DEFINE p == quotient_msk
<1> DEFINE r == dividend
<1> DEFINE q == quotient
<1>1. /\ r \in Nat /\ q \in Nat /\ q % (2 * p) = 0 /\ n = r + q * d
      /\ (d # 0 => r < d * (2 * p)) /\ (d = 0 => q = M - 2 * p)
      /\ p \in Nat \ {0} /\ n \in 0 .. M - 1 /\ d \in Nat /\ M \in Nat \ {0}
  BY WideLemma DEF DivDown
<1>2. /\ divstep_do <=> d * p <= r
      /\ dividendN = (IF d * p <= r THEN (r - d * p) % M ELSE r)
      /\ quotientN = IF d * p <= r /\ p # 0 /\ (q \div p) % 2 = 0 THEN q + p ELSE q
  BY DEF divstep_do, dividendN, quotientN
<1> HIDE DEF p, r, q
<1>3. PICK a \in Int : q = p * (2 * a)
  <2>1. 2 * p \in Nat \ {0} /\ q \in Int
    BY <1>1
  <2>2. q = (2 * p) * (q \div (2 * p)) + (q % (2 * p)) /\ q \div (2 * p) \in Int
    BY <2>1, DivLemma
  <2> DEFINE c == q \div (2 * p)
  <2>3. c \in Int /\ q = (2 * p) * c
    BY <1>1, <2>2
  <2> HIDE DEF c
  <2>4. q = p * (2 * c)
    BY <1>1, <2>3
  <2>5. QED
    BY <2>3, <2>4
<1>4. (q \div p) % 2 = 0 /\ q % p = 0
  <2>1. Splits(q, p, 2 * a, 0) /\ 2 * a \in Int /\ q \in Int /\ 0 \in Int
    BY <1>1, <1>3 DEF Splits
  <2>2. q \div p = 2 * a /\ q % p = 0
    BY <1>1, <2>1, DivUnique
  <2>3. QED
    BY <1>3, <2>2
<1>5. (q + p) % p = 0
  <2>1. Splits(q + p, p, 2 * a + 1, 0) /\ 2 * a + 1 \in Int /\ q + p \in Int /\ 0 \in Int
    BY <1>1, <1>3 DEF Splits
  <2>2. QED
    BY <1>1, <2>1, DivUnique
<1>6. r <= n
  <2>1. q * d >= 0
    BY <1>1
  <2>2. QED
    BY <1>1, <2>1
<1>7. d * (2 * p) = d * p + d * p /\ d * p \in Nat /\ d * p >= 0
  BY <1>1
<1>8. CASE d * p <= r
  <2>1. (r - d * p) % M = r - d * p
    <3>1. r - d * p \in 0 .. M - 1
      BY <1>1, <1>6, <1>7, <1>8
    <3>2. QED
      BY <1>1, <3>1, SmallMod
  <2>2. dividendN = r - d * p /\ quotientN = q + p
    BY <1>1, <1>2, <1>4, <1>8, <2>1
  <2>3. (q + p) * d = q * d + d * p /\ q * d \in Nat
    BY <1>1
  <2>4. n = (r - d * p) + (q + p) * d
    BY <1>1, <1>7, <2>3
  <2>5. r - d * p \in Nat /\ q + p \in Nat
    BY <1>1, <1>7, <1>8
  <2>6. d # 0 => r - d * p < d * p
    BY <1>1, <1>7
  <2>7. d = 0 => q + p = M - p
    BY <1>1
  <2>8. DivDown(n, d, p, r - d * p, q + p)
    BY <1>5, <2>4, <2>5, <2>6, <2>7 DEF DivDown
  <2>9. QED
    BY <2>2, <2>8 DEF p
<1>9. CASE ~(d * p <= r)
  <2>1. dividendN = r /\ quotientN = q
    BY <1>2, <1>9
  <2>2. d # 0
    BY <1>1, <1>9
  <2>3. r < d * p
    BY <1>1, <1>7, <1>9
  <2>4. DivDown(n, d, p, r, q)
    BY <1>1, <1>4, <2>2, <2>3 DEF DivDown
  <2>5. QED
    BY <2>1, <2>4 DEF p
<1>10. QED
  BY <1>8, <1>9

(* At the last bit the division is done.                                   *)
LEMMA DivLast ==
  ASSUME NEW n \in 0 .. M - 1, NEW d \in 0 .. M - 1, NEW r, NEW q, DivDown(n, d, 1, r, q)
  PROVE  (IF isRem THEN r ELSE q) = DivEnd(n, d)
<1>1. /\ r \in Nat /\ q \in Nat /\ n = r + q * d /\ (d # 0 => r < d) /\ (d = 0 => q = M - 1)
      /\ M \in Nat /\ d \in Nat /\ n \in Int
  BY WideLemma DEF DivDown
<1>2. CASE d = 0
  <2>1. r = n
    BY <1>1, <1>2
  <2>2. QED
    BY <1>1, <1>2, <2>1 DEF DivEnd
<1>3. CASE d # 0
  <2>1. Splits(n, d, q, r) /\ q \in Int /\ r \in Int /\ d \in Nat \ {0}
    <3>1. q * d = d * q
      BY <1>1
    <3>2. QED
      BY <1>1, <1>3, <3>1 DEF Splits
  <2>2. n \div d = q /\ n % d = r
    BY <1>1, <2>1, DivUnique
  <2>3. QED
    BY <1>3, <2>2 DEF DivEnd
<1>4. QED
  BY <1>2, <1>3

(* The mask is halved until it is one, and is then the last.               *)
LEMMA MaskEven ==
  ASSUME NEW i \in 0 .. W, quotient_msk = MaskAt(i)
  PROVE  quotient_msk \in Nat /\ (quotient_msk > 1 => quotient_msk = 2 * (quotient_msk \div 2))
<1>1. CASE i = 0
  BY <1>1 DEF MaskAt
<1>2. CASE i = 1
  BY <1>2, PowLemma DEF MaskAt
<1>3. CASE i # 0 /\ i # 1
  <2>1. i - 2 \in Nat /\ (i - 2) + 1 = i - 1
    BY <1>3, WideLemma
  <2>2. Pow2[i - 1] = 2 * Pow2[i - 2] /\ Pow2[i - 2] \in Nat
    BY <2>1, PowLemma
  <2>3. quotient_msk = Pow2[i - 1]
    BY <1>3 DEF MaskAt
  <2>4. QED
    BY <2>2, <2>3
<1>4. QED
  BY <1>1, <1>2, <1>3

(* Each clock of the divider gains a bit; the last one latches the         *)
(* result.                                                                 *)
LEMMA DivStepLemma ==
  ASSUME ControlInv, DivBusy, DivInv, state = "WAIT", isDivide, DivStep, LatchResult,
         quotient_msk # 0, UNCHANGED << funct, rs1, rs2 >>
  PROVE  DivInv'
<1> DEFINE p == quotient_msk
<1> DEFINE n == DivN
<1> DEFINE d == DivD
<1>1. p \in Nat \ {0} /\ (p > 1 => p = 2 * (p \div 2))
  BY MaskEven DEF DivBusy
<1>2. n \in 0 .. M - 1 /\ d \in 0 .. M - 1
  BY DivOperands
<1>3. divisor = d * p /\ DivDown(n, d, 2 * p, dividend, quotient)
  BY DEF DivInv
<1>4. DivDown(n, d, p, dividendN, quotientN)
  BY <1>1, <1>2, <1>3, DivGain
<1>5. /\ DivN' = n /\ DivD' = d /\ (isRem' <=> isRem) /\ DivEnd(n, d)' = DivEnd(n, d)
      /\ dividend' = dividendN /\ divisor' = divisor \div 2
      /\ quotient' = quotientN /\ quotient_msk' = p \div 2
      /\ divResult' = IF isRem THEN dividendN ELSE quotientN
  BY DEF DivN, DivD, isRem, isSigned, DivEnd, DivStep, LatchResult
<1> HIDE DEF n, d
<1>6. CASE p = 1
  <2>1. p \div 2 = 0
    BY <1>6
  <2>2. DivDown(n, d, 1, dividendN, quotientN)
    BY <1>4, <1>6
  <2>3. divResult' = DivEnd(n, d)
    BY <1>2, <1>5, <2>2, DivLast
  <2>4. QED
    BY <1>5, <2>1, <2>3 DEF DivInv, DivEnd
<1>7. CASE p # 1
  <2>1. PICK h \in Nat \ {0} : p = 2 * h /\ p \div 2 = h
    BY <1>1, <1>7
  <2>2. divisor' = d * h
    <3>1. d * p = 2 * (d * h) /\ d * h \in Int
      BY <1>2, <2>1
    <3>2. QED
      BY <1>3, <1>5, <3>1
  <2>3. DivDown(n, d, 2 * h, dividend', quotient')
    BY <1>4, <1>5, <2>1
  <2>4. quotient_msk' = h /\ h # 0
    BY <1>5, <2>1
  <2>5. DivInv'
    BY <1>5, <2>2, <2>3, <2>4 DEF DivInv, DivDown
  <2>6. QED
    BY <2>5
<1>8. QED
  BY <1>6, <1>7

(* Loaded, nothing is divided yet: the mask is above every bit.            *)
LEMMA DivLoadLemma ==
  ASSUME ControlInv, isDivide, DivLoad, UNCHANGED << funct, rs1, rs2 >>
  PROVE  DivInv'
<1> DEFINE n == DivN
<1> DEFINE d == DivD
<1>1. n \in 0 .. M - 1 /\ d \in 0 .. M - 1
  BY DivOperands
<1>2. /\ DivN' = n /\ DivD' = d
      /\ dividend' = n /\ divisor' = d * Half /\ quotient' = 0 /\ quotient_msk' = Half
  BY DEF DivN, DivD, isSigned, DivLoad, Half
<1> HIDE DEF n, d
<1>3. Half \in Nat \ {0} /\ M = 2 * Half /\ M \in Nat \ {0} /\ 0 % M = 0
  <2>1. Half \in Nat \ {0} /\ M = 2 * Half /\ M \in Nat \ {0} /\ 0 \in 0 .. M - 1
    BY WidthLemma
  <2>2. QED
    BY <2>1, SmallMod
<1>4. DivDown(n, d, 2 * Half, n, 0)
  <2>1. d # 0 => n < d * M
    <3>1. SUFFICES ASSUME d # 0 PROVE n < d * M
      OBVIOUS
    <3>2. d * M >= 1 * M
      BY <1>1, <1>3, <3>1
    <3>3. QED
      BY <1>1, <1>3, <3>2
  <2>2. n = n + 0 * d /\ n \in Nat
    BY <1>1
  <2>3. QED
    BY <1>3, <2>1, <2>2 DEF DivDown
<1>5. QED
  BY <1>2, <1>3, <1>4 DEF DivInv, DivDown

(* The sign the quotient and the remainder of the ISA have.                *)
IsAbs(n, a) == n = IF a < 0 THEN -a ELSE a

(* Signed division, from the absolute values.                              *)
LEMMA QuotLemma ==
  ASSUME NEW a \in Int, NEW b \in Int, b # 0, NEW n \in Int, NEW d \in Int,
         IsAbs(n, a), IsAbs(d, b)
  PROVE  /\ Quotient(a, b) = IF (a < 0) = (b < 0) THEN n \div d ELSE -(n \div d)
         /\ Remainder(a, b) = IF a < 0 THEN -(n % d) ELSE n % d
<1> DEFINE q == n \div d
<1> DEFINE r == n % d
<1>0. n = (IF a < 0 THEN -a ELSE a) /\ d = (IF b < 0 THEN -b ELSE b)
  BY DEF IsAbs
<1>1. d \in Nat \ {0}
  BY <1>0
<1>2. n = d * q + r /\ q \in Int /\ r \in Int
  <2>1. n = d * q + r /\ r \in 0 .. d - 1 /\ q \in Int
    BY <1>1, DivLemma, Zenon
  <2>2. QED
    BY <1>1, <2>1
<1>3. Quotient(a, b) = IF (a < 0) = (b < 0) THEN q ELSE -q
  BY <1>0 DEF Quotient
<1>4. Remainder(a, b) = a - b * Quotient(a, b)
  BY DEF Remainder
<1> HIDE DEF q, r
<1>5. CASE a < 0 /\ b < 0
  <2>1. a = -n /\ b = -d /\ Quotient(a, b) = q
    BY <1>0, <1>3, <1>5
  <2>2. b * q = -(d * q)
    BY <1>1, <1>2, <2>1
  <2>3. Remainder(a, b) = -r
    BY <1>2, <1>4, <2>1, <2>2
  <2>4. QED
    BY <1>5, <2>1, <2>3 DEF q, r
<1>6. CASE a < 0 /\ ~(b < 0)
  <2>1. a = -n /\ b = d /\ Quotient(a, b) = -q
    BY <1>0, <1>3, <1>6
  <2>2. b * (-q) = -(d * q)
    BY <1>1, <1>2, <2>1
  <2>3. QED
    BY <1>2, <1>3, <1>4, <1>6, <2>1, <2>2 DEF q, r
<1>7. CASE ~(a < 0) /\ b < 0
  <2>1. a = n /\ b = -d /\ Quotient(a, b) = -q
    BY <1>0, <1>3, <1>7
  <2>2. b * (-q) = d * q
    BY <1>1, <1>2, <2>1
  <2>3. QED
    BY <1>2, <1>3, <1>4, <1>7, <2>1, <2>2 DEF q, r
<1>8. CASE ~(a < 0) /\ ~(b < 0)
  <2>1. a = n /\ b = d /\ Quotient(a, b) = q
    BY <1>0, <1>3, <1>8
  <2>2. QED
    BY <1>2, <1>3, <1>4, <1>8, <2>1 DEF q, r
<1>9. QED
  BY <1>5, <1>6, <1>7, <1>8

(* Quotient and remainder fit a register.                                  *)
LEMMA QuotBound ==
  ASSUME NEW n \in 0 .. M - 1, NEW d \in Nat \ {0}
  PROVE  n \div d \in 0 .. M - 1 /\ n % d \in 0 .. M - 1
<1> DEFINE q == n \div d
<1> DEFINE r == n % d
<1>1. n = d * q + r /\ q \in Int /\ r \in 0 .. d - 1 /\ n \in Int /\ M \in Nat
  BY n \in Int, DivLemma, WideLemma
<1> HIDE DEF q, r
<1>2. q >= 0
  <2>1. SUFFICES ASSUME q <= -1 PROVE FALSE
    BY <1>1
  <2>2. d * q <= d * (-1)
    BY <1>1, <2>1
  <2>3. QED
    BY <1>1, <2>2
<1>3. d * q >= q
  BY <1>1, <1>2
<1>4. q \in 0 .. M - 1 /\ r \in 0 .. M - 1
  BY <1>1, <1>2, <1>3
<1>5. QED
  BY <1>4 DEF q, r

(* With its sign the result is the ISA's, by zero and at the overflow      *)
(* too.                                                                    *)
LEMMA DivResultLemma ==
  ASSUME ControlInv, isDivide, divResult = DivEnd(DivN, DivD)
  PROVE  DivideResult = IsaResult
<1> DEFINE a == Signed(rs1)
<1> DEFINE b == Signed(rs2)
<1> DEFINE n == DivN
<1> DEFINE d == DivD
<1>0. M \in Nat \ {0} /\ Half \in Nat /\ rs1 \in 0 .. M - 1 /\ rs2 \in 0 .. M - 1
  BY WidthLemma DEF ControlInv
<1>1. n \in 0 .. M - 1 /\ d \in 0 .. M - 1 /\ (d = 0 <=> rs2 = 0)
  BY DivOperands
<1>2. /\ a < 0 <=> Bit(rs1, W - 1) = 1
      /\ a < 0 => Neg(rs1) = -a /\ a = rs1 - M
      /\ a >= 0 => a = rs1
      /\ a \in Int
  BY <1>0, AbsLemma
<1>3. /\ b < 0 <=> Bit(rs2, W - 1) = 1
      /\ b < 0 => Neg(rs2) = -b
      /\ b >= 0 => b = rs2
      /\ b = 0 <=> rs2 = 0
      /\ b \in Int
  BY <1>0, AbsLemma
<1>4. isSigned => n = (IF a < 0 THEN -a ELSE a) /\ d = (IF b < 0 THEN -b ELSE b)
  BY <1>2, <1>3 DEF DivN, DivD
<1>5. ~isSigned => n = rs1 /\ d = rs2
  BY DEF DivN, DivD
<1>6. Bit(rs1, W - 1) \in 0 .. 1 /\ Bit(rs2, W - 1) \in 0 .. 1
  <2>1. W - 1 \in Nat /\ rs1 \in Nat /\ rs2 \in Nat
    BY <1>0, WideLemma
  <2>2. QED
    BY <2>1, BitLemma
<1>7. d # 0 => n \div d \in 0 .. M - 1 /\ n % d \in 0 .. M - 1
  <2>1. SUFFICES ASSUME d # 0 PROVE n \div d \in 0 .. M - 1 /\ n % d \in 0 .. M - 1
    OBVIOUS
  <2>2. d \in Nat \ {0}
    BY <1>0, <1>1, <2>1
  <2> HIDE DEF n, d
  <2>3. QED
    BY <1>1, <2>2, QuotBound
<1>8. isSigned /\ rs2 # 0 =>
        /\ Quotient(a, b) = IF (a < 0) = (b < 0) THEN n \div d ELSE -(n \div d)
        /\ Remainder(a, b) = IF a < 0 THEN -(n % d) ELSE n % d
  <2>1. SUFFICES ASSUME isSigned, rs2 # 0
                 PROVE  /\ Quotient(a, b) = IF (a < 0) = (b < 0) THEN n \div d ELSE -(n \div d)
                        /\ Remainder(a, b) = IF a < 0 THEN -(n % d) ELSE n % d
    OBVIOUS
  <2>2. b # 0 /\ n \in Int /\ d \in Int
    BY <1>1, <1>3, <2>1
  <2> HIDE DEF a, b, n, d
  <2>3. IsAbs(n, a) /\ IsAbs(d, b) /\ a \in Int /\ b \in Int
    BY <1>2, <1>3, <1>4, <2>1 DEF IsAbs
  <2>4. QED
    BY <2>2, <2>3, QuotLemma
<1>9. div_sign <=> isSigned /\ IF isRem THEN a < 0 ELSE (a < 0) # (b < 0) /\ rs2 # 0
  BY <1>2, <1>3, <1>6 DEF div_sign
<1>10. \A y \in 0 .. M - 1 : y % M = y /\ Neg(y) = (-y) % M
  BY <1>0, SmallMod DEF Neg
<1>11. DivideResult = IF div_sign THEN Neg(DivEnd(n, d)) ELSE DivEnd(n, d)
  BY DEF DivideResult
<1>12. CASE funct = "div"
  <2>1. isSigned /\ ~isRem
    BY <1>12 DEF isSigned, isRem
  <2>2. IsaResult = IF rs2 = 0 THEN M - 1 ELSE Quotient(a, b) % M
    BY <1>12 DEF IsaResult
  <2>3. DivEnd(n, d) = IF rs2 = 0 THEN M - 1 ELSE n \div d
    BY <1>1, <2>1 DEF DivEnd
  <2> HIDE DEF a, b, n, d
  <2>4. CASE rs2 = 0
    BY <1>9, <1>11, <2>1, <2>2, <2>3, <2>4
  <2>5. CASE rs2 # 0
    <3> DEFINE q == n \div d
    <3>1. q % M = q /\ Neg(q) = (-q) % M
      BY <1>1, <1>7, <1>10, <2>5
    <3> HIDE DEF q
    <3>2. QED
      BY <1>8, <1>9, <1>11, <2>1, <2>2, <2>3, <2>5, <3>1 DEF q
  <2>6. QED
    BY <2>4, <2>5
<1>13. CASE funct = "rem"
  <2>1. isSigned /\ isRem
    BY <1>13 DEF isSigned, isRem
  <2>2. IsaResult = IF rs2 = 0 THEN rs1 ELSE Remainder(a, b) % M
    BY <1>13 DEF IsaResult
  <2>3. DivEnd(n, d) = IF rs2 = 0 THEN n ELSE n % d
    BY <1>1, <2>1 DEF DivEnd
  <2> HIDE DEF a, b, n, d
  <2>4. CASE rs2 = 0
    <3>1. CASE a < 0
      <4>1. n = -a /\ -n = rs1 - M
        BY <1>0, <1>2, <1>4, <2>1, <3>1
      <4>2. Neg(n) = (-n) % M
        BY <1>1, <1>10
      <4>3. (rs1 - M) % M = rs1
        <5>1. Splits(rs1 - M, M, -1, rs1) /\ rs1 - M \in Int /\ -1 \in Int /\ rs1 \in Int
          BY <1>0 DEF Splits
        <5>2. QED
          BY <1>0, <5>1, DivUnique
      <4>4. QED
        BY <1>9, <1>11, <2>1, <2>2, <2>3, <2>4, <3>1, <4>1, <4>2, <4>3
    <3>2. CASE ~(a < 0)
      BY <1>2, <1>4, <1>9, <1>11, <2>1, <2>2, <2>3, <2>4, <3>2
    <3>3. QED
      BY <3>1, <3>2
  <2>5. CASE rs2 # 0
    <3> DEFINE r == n % d
    <3>1. r % M = r /\ Neg(r) = (-r) % M
      BY <1>1, <1>7, <1>10, <2>5
    <3> HIDE DEF r
    <3>2. QED
      BY <1>8, <1>9, <1>11, <2>1, <2>2, <2>3, <2>5, <3>1 DEF r
  <2>6. QED
    BY <2>4, <2>5
<1>14. CASE funct \in {"divu", "remu"}
  <2>1. ~isSigned /\ (isRem <=> funct = "remu")
    BY <1>14 DEF isSigned, isRem
  <2>2. DivEnd(n, d) = IsaResult
    BY <1>5, <1>14, <2>1 DEF DivEnd, IsaResult
  <2>3. QED
    BY <1>9, <1>11, <2>1, <2>2
<1>15. QED
  BY <1>12, <1>13, <1>14 DEF isDivide

----------------------------------------------------------------------------
(* What a shift or a division writes.                                      *)

QuotientInv == ShiftInv /\ DivInv /\ ShiftOrQuotientIsRight

(* The ISA's result depends on the instruction only.                       *)
LEMMA SameResult ==
  ASSUME UNCHANGED << funct, rs1, rs2 >>
  PROVE  /\ IsaResult' = IsaResult /\ (isMul' <=> isMul)
         /\ (isShiftOp' <=> isShiftOp) /\ (isDivide' <=> isDivide)
  BY DEF IsaResult, shamt, isMul, isShiftOp, isDivide

(* What a finished shifter hands to write-back.                            *)
LEMMA ShiftWrites ==
  ASSUME ControlInv, ShiftInv, state = "WAIT", isShiftOp, shift_count = 0
  PROVE  aluOut = IsaResult
<1>1. Serial
  BY DEF ControlInv, needToWait, isDivide, isShiftOp
<1>2. shift_data = Shifted(funct, rs1, shamt - 0)
  BY DEF ShiftInv
<1>3. shamt - 0 = shamt
  BY ShamtLemma
<1>4. IsaResult = Shifted(funct, rs1, shamt)
  BY BarrelLemma
<1>5. QED
  BY <1>1, <1>2, <1>3, <1>4 DEF aluOut, isShiftOp, isMul, isDivide

(* What a finished divider hands to write-back.                            *)
LEMMA QuotientWrites ==
  ASSUME ControlInv, DivInv, state = "WAIT", isDivide, quotient_msk = 0
  PROVE  aluOut = IsaResult
<1>1. DivideResult = IsaResult
  BY DivResultLemma DEF DivInv
<1>2. QED
  BY <1>1 DEF aluOut, isShiftOp, isMul, isDivide

(* Every step keeps the invariants of shifter and divider.                 *)
LEMMA QuotientNext ==
  ASSUME BusyInv, QuotientInv, [AluNext]_aluVars
  PROVE  QuotientInv'
<1>0. ControlInv /\ ShiftBusy /\ MulBusy /\ DivBusy /\ ShiftInv /\ DivInv /\ ShiftOrQuotientIsRight
  BY DEF BusyInv, QuotientInv
<1>1. CASE Issue
  <2>1. state' = "EXECUTE" /\ ~done'
    BY <1>1 DEF Issue
  <2>2. QED
    BY <2>1 DEF QuotientInv, ShiftInv, DivInv, ShiftOrQuotientIsRight
<1>2. CASE Fetching
  <2>1. state' = "FETCH" /\ UNCHANGED << funct, rs1, rs2, rd, done >>
    BY <1>2 DEF Fetching, instrVars
  <2>2. ShiftOrQuotientIsRight'
    BY <1>0, <2>1, SameResult DEF ShiftOrQuotientIsRight
  <2>3. QED
    BY <2>1, <2>2 DEF QuotientInv, ShiftInv, DivInv
<1>3. CASE Execute
  <2>1. /\ state = "EXECUTE" /\ aluWr /\ Units /\ rd' = aluOut /\ UNCHANGED << funct, rs1, rs2 >>
        /\ done' => ~needToWait
        /\ state' = "WAIT" => needToWait
    BY <1>3 DEF Execute, aluWr, instrVars
  <2>2. IsaResult' = IsaResult /\ (isMul' <=> isMul) /\ (isShiftOp' <=> isShiftOp) /\ (isDivide' <=> isDivide)
    BY <2>1, SameResult
  <2>3. ShiftInv'
    <3>1. CASE state' = "WAIT" /\ isShiftOp
      <4>1. Serial
        BY <2>1, <3>1 DEF needToWait, isShiftOp, isDivide
      <4>2. ShiftLoad
        BY <2>1, <3>1, <4>1 DEF Units
      <4>3. QED
        BY <1>0, <2>1, <3>1, <4>2, ShiftLoadLemma
    <3>2. CASE ~(state' = "WAIT" /\ isShiftOp)
      BY <2>2, <3>2 DEF ShiftInv
    <3>3. QED
      BY <3>1, <3>2
  <2>4. DivInv'
    <3>1. CASE isDivide
      <4>1. DivLoad
        BY <2>1, <3>1 DEF Units
      <4>2. QED
        BY <1>0, <2>1, <3>1, <4>1, DivLoadLemma
    <3>2. CASE ~isDivide
      BY <2>2, <3>2 DEF DivInv
    <3>3. QED
      BY <3>1, <3>2
  <2>5. ShiftOrQuotientIsRight'
    <3>1. SUFFICES ASSUME done', ~isMul PROVE rd' = IsaResult
      BY <2>2 DEF ShiftOrQuotientIsRight
    <3>2. isShiftOp /\ ~Serial
      BY <1>0, <2>1, <3>1 DEF needToWait, ControlInv, Functs, isMul, isShiftOp, isDivide
    <3>3. aluOut = BarrelResult
      BY <3>2 DEF aluOut, isShiftOp, isMul, isDivide
    <3>4. BarrelResult = IsaResult
      BY <1>0, <3>2, BarrelLemma
    <3>5. QED
      BY <2>1, <3>3, <3>4
  <2>6. QED
    BY <2>3, <2>4, <2>5 DEF QuotientInv
<1>4. CASE Wait
  <2>1. /\ state = "WAIT" /\ ~aluWr /\ Units /\ rd' = aluOut /\ UNCHANGED << funct, rs1, rs2 >>
        /\ IF aluBusy THEN state' = "WAIT" /\ done' = done ELSE state' = "FETCH"
        /\ ~done
    BY <1>0, <1>4 DEF Wait, aluWr, instrVars, ControlInv
  <2>2. IsaResult' = IsaResult /\ (isMul' <=> isMul) /\ (isShiftOp' <=> isShiftOp) /\ (isDivide' <=> isDivide)
    BY <2>1, SameResult
  <2>3. ShiftStep /\ DivStep /\ LatchResult
    BY <2>1 DEF Units
  <2>4. ShiftInv'
    <3>1. CASE isShiftOp
      BY <1>0, <2>1, <2>3, <3>1, ShiftStepLemma
    <3>2. CASE ~isShiftOp
      BY <2>2, <3>2 DEF ShiftInv
    <3>3. QED
      BY <3>1, <3>2
  <2>5. isDivide /\ quotient_msk = 0 => ~aluBusy
    <3>1. SUFFICES ASSUME isDivide, quotient_msk = 0 PROVE ~aluBusy
      OBVIOUS
    <3>2. PICK i \in 0 .. W : quotient_msk = MaskAt(i) /\ MulLeft <= i /\ shift_count <= i
      BY <1>0, <2>1, <3>1 DEF DivBusy
    <3>3. i = 0
      BY <3>1, <3>2, MaskLemma
    <3>4. MulLeft \in Nat /\ (mul_busy <=> MulLeft # 0) /\ shift_count \in Nat
      BY <1>0, MulLeftType, WideLemma DEF MulBusy, ShiftBusy
    <3>5. QED
      BY <3>1, <3>2, <3>3, <3>4 DEF aluBusy, div_busy, shift_busy
  <2>6. DivInv'
    <3>1. CASE isDivide /\ quotient_msk # 0
      BY <1>0, <2>1, <2>3, <3>1, DivStepLemma
    <3>2. CASE isDivide /\ quotient_msk = 0
      BY <2>1, <2>5, <3>2 DEF DivInv
    <3>3. CASE ~isDivide
      BY <2>2, <3>3 DEF DivInv
    <3>4. QED
      BY <3>1, <3>2, <3>3
  <2>7. ShiftOrQuotientIsRight'
    <3>1. SUFFICES ASSUME done', ~isMul PROVE rd' = IsaResult
      BY <2>2 DEF ShiftOrQuotientIsRight
    <3>2. ~aluBusy
      BY <1>0, <2>1, <3>1 DEF ControlInv
    <3>3. shift_count = 0 /\ quotient_msk = 0
      BY <3>2 DEF aluBusy, shift_busy, div_busy
    <3>4. isShiftOp \/ isDivide
      BY <1>0, <3>1 DEF ControlInv, Functs, isMul, isShiftOp, isDivide
    <3>5. QED
      BY <1>0, <2>1, <3>3, <3>4, ShiftWrites, QuotientWrites
  <2>8. QED
    BY <2>4, <2>6, <2>7 DEF QuotientInv
<1>5. CASE UNCHANGED aluVars
  <2>1. /\ UNCHANGED << build, state, funct, rs1, rs2, rd, done >>
        /\ UNCHANGED shiftVars /\ UNCHANGED divVars
    BY <1>5 DEF aluVars, instrVars
  <2>2. ShiftInv'
    BY <1>0, <2>1 DEF ShiftInv, isShiftOp, shamt, shiftVars
  <2>3. DivInv'
    BY <1>0, <2>1 DEF DivInv, DivN, DivD, DivEnd, DivDown, isDivide, isSigned, isRem, divVars
  <2>4. ShiftOrQuotientIsRight'
    BY <1>0, <2>1, SameResult DEF ShiftOrQuotientIsRight
  <2>5. QED
    BY <2>2, <2>3, <2>4 DEF QuotientInv
<1>6. QED
  BY <1>1, <1>2, <1>3, <1>4, <1>5 DEF AluNext

(* Every step keeps the counters in time.                                  *)
LEMMA BusyNext == ASSUME BusyInv, [AluNext]_aluVars PROVE BusyInv'
  BY BusyIssue, BusyFetching, BusyExecute, BusyWait, BusyStutter DEF AluNext

(* The counters of the units, against the clocks an instruction has waited. *)
THEOREM BusyInvariance == AluSpec => []BusyInv
<1>1. AluInit => BusyInv
  BY BusyInit
<1>2. BusyInv /\ [AluNext]_aluVars => BusyInv'
  BY BusyNext
<1>3. QED
  BY <1>1, <1>2, PTL DEF AluSpec

(* The clocks the instruction's own unit still takes.                      *)
OwnLeft(n) ==
  /\ isShiftOp => shift_count = n
  /\ isMul => MulLeft = n
  /\ isDivide => n <= W /\ quotient_msk = MaskAt(n)

(* They and the cycles waited make up the unit's time, but for those in     *)
(* which only another unit was busy.                                       *)
TimeInv ==
  /\ kept \in Nat
  /\ state = "EXECUTE" => kept = 0
  /\ state = "WAIT" => \E n \in 0 .. W + 1 : OwnLeft(n) /\ waited + n = UnitCycles + kept
  /\ done => waited = Latency + kept

(* An operation that waits has one unit, and a time it takes.               *)
LEMMA UnitLemma ==
  ASSUME ControlInv
  PROVE  /\ UnitCycles \in 0 .. W + 1
         /\ isShiftOp \/ isMul \/ isDivide
         /\ ~(isShiftOp /\ isMul) /\ ~(isShiftOp /\ isDivide) /\ ~(isMul /\ isDivide)
<1>1. isShiftOp \/ isMul \/ isDivide
  BY DEF ControlInv, Functs, isShiftOp, isMul, isDivide
<1>2. ~(isShiftOp /\ isMul) /\ ~(isShiftOp /\ isDivide) /\ ~(isMul /\ isDivide)
  BY DEF isShiftOp, isMul, isDivide
<1>3. CASE isShiftOp
  <2>1. shamt \in 0 .. W - 1
    BY WidthLemma DEF shamt, ControlInv
  <2>2. UnitCycles = shamt
    BY <1>2, <1>3 DEF UnitCycles
  <2>3. QED
    BY <1>1, <1>2, <2>1, <2>2, WideLemma
<1>4. CASE isDivide
  <2>1. UnitCycles = W
    BY <1>2, <1>4 DEF UnitCycles
  <2>2. QED
    BY <1>1, <1>2, <2>1, WideLemma
<1>5. CASE isMul
  <2>1. UnitCycles = (IF build = "radix4" THEN W \div 2 + 1 ELSE W)
                       + (IF mul_sign1 # mul_sign2 THEN 1 ELSE 0)
    BY <1>2, <1>5 DEF UnitCycles
  <2>2. W \div 2 \in Nat /\ W \div 2 + 2 <= W + 1
    BY WidthLemma
  <2>3. QED
    BY <1>1, <1>2, <2>1, <2>2, WideLemma
<1>6. QED
  BY <1>1, <1>3, <1>4, <1>5

(* The time is the instruction's.                                          *)
LEMMA SameTime ==
  ASSUME UNCHANGED << build, funct, rs1, rs2 >>
  PROVE  /\ UnitCycles' = UnitCycles /\ Latency' = Latency
         /\ (isShiftOp' <=> isShiftOp) /\ (isMul' <=> isMul) /\ (isDivide' <=> isDivide)
         /\ (needToWait' <=> needToWait)
<1>1. /\ isShiftOp' = isShiftOp /\ isMul' = isMul /\ isDivide' = isDivide
      /\ Serial' = Serial /\ shamt' = shamt
      /\ mul_sign1' = mul_sign1 /\ mul_sign2' = mul_sign2
  BY DEF isShiftOp, isMul, isDivide, Serial, shamt, mul_sign1, mul_sign2
<1>2. UnitCycles' = UnitCycles
  BY <1>1 DEF UnitCycles
<1>3. needToWait' = needToWait
  BY <1>1 DEF needToWait
<1>4. QED
  BY <1>1, <1>2, <1>3 DEF Latency

(* S_EXECUTE gives the unit its time.                                      *)
LEMMA TimeExecute == ASSUME BusyInv, TimeInv, Execute PROVE TimeInv'
<1>1. /\ state = "EXECUTE" /\ aluWr /\ Units /\ UNCHANGED << build, funct, rs1, rs2 >>
      /\ waited' = 0 /\ kept' = 0
      /\ \/ needToWait  /\ state' = "WAIT"  /\ done' = FALSE
         \/ needToWait  /\ state' = "FETCH" /\ done' = FALSE
         \/ ~needToWait /\ state' = "FETCH" /\ done' = TRUE
  BY DEF Execute, aluWr, instrVars, BusyInv, ControlInv, TimeInv
<1>2. ControlInv /\ MulFlags
  BY DEF BusyInv, MulBusy
<1>3. CASE state' = "FETCH"
  <2>1. done' => ~needToWait
    BY <1>1, <1>3
  <2>2. done' => Latency' = 0
    BY <1>1, <2>1, SameTime DEF Latency
  <2>3. QED
    BY <1>1, <1>3, <2>2 DEF TimeInv
<1>4. CASE state' = "WAIT"
  <2>1. needToWait /\ ~done'
    BY <1>1, <1>4
  <2>2. isShiftOp => shift_count' = UnitCycles
    <3>1. SUFFICES ASSUME isShiftOp PROVE shift_count' = UnitCycles
      OBVIOUS
    <3>2. ShiftLoad
      BY <1>1, <1>2, <2>1, <3>1, UnitLemma DEF Units, needToWait
    <3>3. QED
      BY <1>2, <3>1, <3>2, UnitLemma DEF ShiftLoad, UnitCycles
  <2>3. isMul => MulLeft' = UnitCycles
    <3>1. SUFFICES ASSUME isMul PROVE MulLeft' = UnitCycles
      OBVIOUS
    <3>2. MulLoad
      BY <1>1, <1>2, <2>1, <3>1, UnitLemma DEF Units, needToWait
    <3>3. /\ mul_count' = (IF build = "radix4" THEN W \div 2 ELSE W)
          /\ (mul_neg' <=> mul_sign1 # mul_sign2) /\ build' = build
      BY <1>1, <3>2 DEF MulLoad
    <3>4. W \div 2 \in Nat \ {0} /\ W \in Nat \ {0}
      BY WidthLemma
    <3>5. UnitCycles = (IF build = "radix4" THEN W \div 2 + 1 ELSE W)
                         + (IF mul_sign1 # mul_sign2 THEN 1 ELSE 0)
      BY <1>2, <3>1, UnitLemma DEF UnitCycles
    <3>6. QED
      BY <3>3, <3>4, <3>5 DEF MulLeft, Sign
  <2>4. isDivide => UnitCycles = W /\ quotient_msk' = MaskAt(W)
    <3>1. SUFFICES ASSUME isDivide PROVE UnitCycles = W /\ quotient_msk' = MaskAt(W)
      OBVIOUS
    <3>2. quotient_msk' = MaskAt(W)
      BY <1>1, <3>1, UnitsLemma DEF BusyInv
    <3>3. QED
      BY <1>2, <3>1, <3>2, UnitLemma DEF UnitCycles
  <2>5. PICK n \in 0 .. W + 1 : n = UnitCycles
    BY <1>2, UnitLemma
  <2>6. OwnLeft(n)'
    <3>1. isDivide => n <= W /\ quotient_msk' = MaskAt(W) /\ n = W
      BY <2>4, <2>5, WideLemma
    <3>2. QED
      BY <1>1, <2>2, <2>3, <2>5, <3>1, SameTime DEF OwnLeft
  <2>7. waited' + n = UnitCycles' + kept'
    BY <1>1, <2>5, SameTime
  <2>8. QED
    BY <1>1, <1>4, <2>1, <2>5, <2>6, <2>7 DEF TimeInv
<1>5. QED
  BY <1>1, <1>3, <1>4

(* A cycle of S_WAIT is one of the unit's own, one of another's, or the     *)
(* last.                                                                   *)
LEMMA TimeWait == ASSUME BusyInv, TimeInv, Wait PROVE TimeInv'
<1>1. /\ state = "WAIT" /\ ~aluWr /\ Units /\ UNCHANGED << build, funct, rs1, rs2 >>
      /\ needToWait /\ ~done /\ waited' = waited + 1
      /\ kept' = IF aluBusy /\ ~ownBusy THEN kept + 1 ELSE kept
      /\ IF aluBusy THEN state' = "WAIT" /\ done' = done
                    ELSE state' = "FETCH" /\ done' = TRUE
  BY DEF Wait, aluWr, instrVars, BusyInv, ControlInv
<1>2. PICK n \in 0 .. W + 1 : OwnLeft(n) /\ waited + n = UnitCycles + kept
  BY <1>1 DEF TimeInv
<1>3. ControlInv /\ MulFlags /\ kept \in Nat /\ waited \in Nat /\ shift_count \in Nat
  BY WideLemma DEF BusyInv, MulBusy, TimeInv, ControlInv, ShiftBusy
<1>4. UnitCycles \in Nat
  BY <1>3, UnitLemma, WideLemma
<1>5. ownBusy <=> n # 0
  <2>1. isDivide => (div_busy <=> n # 0)
    BY <1>2, MaskLemma DEF OwnLeft, div_busy
  <2>2. isMul => (mul_busy <=> n # 0)
    BY <1>2, <1>3, MulLeftType DEF OwnLeft
  <2>3. isShiftOp => (shift_busy <=> n # 0)
    BY <1>2 DEF OwnLeft, shift_busy
  <2>4. QED
    BY <1>3, <2>1, <2>2, <2>3, UnitLemma DEF ownBusy
<1>6. ownBusy => aluBusy
  BY DEF ownBusy, aluBusy
<1>7. CASE aluBusy
  <2>1. Less(n) \in 0 .. W + 1 /\ waited' + Less(n) = UnitCycles + kept'
    BY <1>1, <1>2, <1>3, <1>4, <1>5, <1>7, WideLemma DEF Less
  <2>2. /\ isShiftOp => shift_count' = Less(n)
        /\ isMul => MulLeft' = Less(n)
    BY <1>1, <1>2, UnitsLemma DEF BusyInv, OwnLeft
  <2>3. isDivide => Less(n) <= W /\ quotient_msk' = MaskAt(Less(n))
    BY <1>1, <1>2, UnitsLemma, WideLemma DEF BusyInv, OwnLeft, Less
  <2>4. OwnLeft(Less(n))'
    BY <1>1, <2>2, <2>3, SameTime DEF OwnLeft
  <2>5. kept' \in Nat /\ ~done' /\ state' = "WAIT"
    BY <1>1, <1>3, <1>7
  <2>6. waited' + Less(n) = UnitCycles' + kept'
    BY <1>1, <2>1, SameTime
  <2>7. QED
    BY <2>1, <2>4, <2>5, <2>6 DEF TimeInv
<1>8. CASE ~aluBusy
  <2>1. n = 0 /\ kept' = kept
    BY <1>1, <1>5, <1>6, <1>8
  <2>2. waited' = UnitCycles + 1 + kept'
    BY <1>1, <1>2, <1>3, <1>4, <2>1
  <2>3. Latency' = UnitCycles + 1
    BY <1>1, SameTime DEF Latency
  <2>4. QED
    BY <1>1, <1>3, <1>8, <2>1, <2>2, <2>3 DEF TimeInv
<1>9. QED
  BY <1>7, <1>8

(* Every step keeps the account.                                           *)
LEMMA TimeNext == ASSUME BusyInv, TimeInv, [AluNext]_aluVars PROVE TimeInv'
<1>1. CASE Issue
  BY <1>1 DEF Issue, TimeInv
<1>2. CASE Fetching
  <2>1. UNCHANGED << build, funct, rs1, rs2, done, waited, kept >> /\ state' = "FETCH"
    BY <1>2 DEF Fetching, instrVars
  <2>2. QED
    BY <2>1, SameTime DEF TimeInv
<1>3. CASE UNCHANGED aluVars
  <2>1. /\ UNCHANGED << build, funct, rs1, rs2, done, waited, kept, state >>
        /\ UNCHANGED << shift_count, quotient_msk, mul_count, mul_fixup >>
        /\ UNCHANGED << mul_negate_pending, mul_neg >>
    BY <1>3 DEF aluVars, instrVars, shiftVars, mulVars, divVars
  <2>2. MulLeft' = MulLeft
    BY <2>1 DEF MulLeft, Sign
  <2>3. ASSUME NEW n \in 0 .. W + 1, OwnLeft(n) PROVE OwnLeft(n)'
    BY <2>1, <2>2, <2>3, SameTime DEF OwnLeft
  <2>4. QED
    BY <2>1, <2>3, SameTime DEF TimeInv
<1>4. QED
  BY <1>1, <1>2, <1>3, TimeExecute, TimeWait DEF AluNext

(* Every operation takes exactly its number of cycles, for every width, in  *)
(* every build and for all operands (attorv32.v:938-941): longer only by    *)
(* the cycles in which another unit ends what a trap cut short, and never   *)
(* longer than W + 2.                                                      *)
THEOREM AnswersAreInTime == AluSpec => []AnswersInTime
<1>1. AluInit => TimeInv
  BY DEF AluInit, TimeInv
<1>2. BusyInv /\ TimeInv /\ [AluNext]_aluVars => TimeInv'
  BY TimeNext
<1>3. BusyInv /\ TimeInv => AnswersInTime
  BY WideLemma DEF BusyInv, ControlInv, TimeInv, AnswersInTime
<1>4. QED
  BY <1>1, <1>2, <1>3, BusyInvariance, PTL DEF AluSpec

(* Every completed shift, division and remainder has written the result of *)
(* the ISA, serial or parallel, also by zero and at the overflow, and also *)
(* where the unit was still running for an operation that a trap cut short.*)
THEOREM QuotientsAreRight == AluSpec => []ShiftOrQuotientIsRight
<1>1. AluInit => QuotientInv
  BY DEF AluInit, QuotientInv, ShiftInv, DivInv, ShiftOrQuotientIsRight
<1>2. BusyInv /\ QuotientInv /\ [AluNext]_aluVars => QuotientInv'
  BY QuotientNext
<1>3. QuotientInv => ShiftOrQuotientIsRight
  BY DEF QuotientInv
<1>4. QED
  BY <1>1, <1>2, <1>3, BusyInvariance, PTL DEF AluSpec

----------------------------------------------------------------------------
(* The radix-2 multiplier.                                                 *)

(* Below weight p is what is left of b, above it a times what has gone.    *)
AddedAt(a, b, p, q, l, r, pm) ==
  p * q = M /\ l < q /\ r < p /\ b = q * r + l /\ pm = (a * l) * p + r

Added(a, b, p, pm) == \E q \in Nat \ {0}, l \in Nat, r \in Nat : AddedAt(a, b, p, q, l, r, pm)

AddAndShift(a, pm) ==
  (pm \div M + (IF pm % 2 = 1 THEN a ELSE 0)) * (M \div 2) + (pm % M) \div 2

(* Adding and shifting gains one bit of the product.                       *)
LEMMA AddedGain ==
  ASSUME NEW a \in Nat, NEW b \in Nat, NEW h \in Nat \ {0}, NEW pm, Added(a, b, 2 * h, pm)
  PROVE  Added(a, b, h, AddAndShift(a, pm))
<1>1. PICK q \in Nat \ {0}, l \in Nat, r \in Nat : AddedAt(a, b, 2 * h, q, l, r, pm)
  BY DEF Added
<1> DEFINE z == a * l
<1>2. (2 * h) * q = M /\ l < q /\ r < 2 * h /\ b = q * r + l /\ pm = z * (2 * h) + r /\ z \in Nat
  BY <1>1 DEF AddedAt
<1>3. M \in Nat \ {0} /\ Half = h * q
  BY <1>2, WidthLemma
<1> HIDE DEF z
<1>4. PICK y \in Int, x \in Int : z = q * y + x /\ x >= 0 /\ x <= q - 1
  <2> DEFINE y == z \div q
  <2> DEFINE x == z % q
  <2>1. z = q * y + x /\ x \in 0 .. q - 1 /\ y \in Int
    BY <1>2, z \in Int, DivLemma
  <2> HIDE DEF y, x
  <2>2. z = q * y + x /\ x >= 0 /\ x <= q - 1 /\ y \in Int /\ x \in Int
    BY <2>1
  <2>3. QED
    BY <2>2
<1>5. PICK u \in 0 .. 1, c \in Nat : r = 2 * c + u
  <2>1. r = 2 * (r \div 2) + (r % 2) /\ r % 2 \in 0 .. 1 /\ r \div 2 \in Nat
    OBVIOUS
  <2>2. QED
    BY <2>1
<1> DEFINE w == x * h
<1>6. x * (2 * h) = 2 * w /\ w \in Nat /\ w <= (q - 1) * h /\ (q - 1) * h = h * q - h
  <2>1. x \in Nat /\ w \in Nat
    BY <1>4
  <2>2. w <= (q - 1) * h
    BY <1>4
  <2>3. x * (2 * h) = 2 * (x * h) /\ (q - 1) * h = h * q - h
    BY <1>4
  <2>4. QED
    BY <2>1, <2>2, <2>3
<1>7. pm \div M = y /\ pm % M = 2 * w + r
  <2>1. pm = M * y + (2 * w + r)
    <3>1. z * (2 * h) = ((2 * h) * q) * y + x * (2 * h)
      BY <1>4
    <3>2. QED
      BY <1>2, <1>4, <1>6, <3>1
  <2>2. 2 * w + r \in 0 .. M - 1
    <3>1. M = 2 * (h * q)
      BY <1>2
    <3> DEFINE hq == h * q
    <3>2. hq \in Nat /\ M = 2 * hq /\ w <= hq - h
      BY <1>6, <3>1
    <3> HIDE DEF hq, w
    <3>3. QED
      BY <1>2, <1>6, <3>2
  <2> HIDE DEF w
  <2>3. pm \in Int /\ 2 * w + r \in Int
    BY <1>2, <1>6
  <2>4. Splits(pm, M, y, 2 * w + r)
    BY <2>1, <2>2 DEF Splits
  <2>5. QED
    BY <1>3, <1>4, <2>3, <2>4, DivUnique
<1>8. pm % 2 = u
  <2>1. z * (2 * h) = 2 * (z * h) /\ z * h \in Int
    BY <1>2
  <2> DEFINE v == z * h
  <2>2. pm = 2 * (v + c) + u /\ v \in Int
    BY <1>2, <1>5, <2>1
  <2> HIDE DEF v
  <2>3. QED
    BY <1>5, <2>2
<1>9. (pm % M) \div 2 = w + c
  <2> HIDE DEF w
  <2>1. QED
    BY <1>5, <1>6, <1>7
<1>10. AddAndShift(a, pm) = (y + u * a) * (h * q) + (w + c)
  <2>1. (IF pm % 2 = 1 THEN a ELSE 0) = u * a
    <3>1. CASE u = 0
      BY <1>8, <3>1
    <3>2. CASE u = 1
      BY <1>8, <3>2
    <3>3. QED
      BY <1>5, <3>1, <3>2
  <2> HIDE DEF w
  <2>2. QED
    BY <1>3, <1>7, <1>9, <2>1 DEF AddAndShift, Half
<1>11. (y + u * a) * (h * q) + (w + c) = (a * (l + u * q)) * h + c
  <2>1. (y + u * a) * (h * q) + w = h * (q * y + x) + (a * (u * q)) * h
    BY <1>4, <1>5
  <2>2. h * (q * y + x) = (a * l) * h
    <3>1. h * (q * y + x) = h * z
      BY <1>4
    <3>2. h * z = z * h
      BY <1>2
    <3>3. QED
      BY <3>1, <3>2 DEF z
  <2>3. (a * l) * h + (a * (u * q)) * h = (a * (l + u * q)) * h
    BY <1>5
  <2> DEFINE s == (y + u * a) * (h * q)
  <2> DEFINE t == (a * (l + u * q)) * h
  <2>4. s + w = t /\ s \in Int /\ t \in Int /\ w \in Int
    BY <1>4, <1>5, <1>6, <2>1, <2>2, <2>3
  <2> HIDE DEF s, t, w
  <2>5. s + (w + c) = t + c
    BY <2>4
  <2>6. QED
    BY <2>5 DEF s, t
<1>12. /\ h * (2 * q) = M /\ l + u * q < 2 * q /\ c < h /\ b = (2 * q) * c + (l + u * q)
       /\ 2 * q \in Nat \ {0} /\ l + u * q \in Nat
  <2>1. h * (2 * q) = M
    BY <1>2
  <2>2. u * q <= q /\ u * q \in Nat
    BY <1>5
  <2>3. q * r = (2 * q) * c + u * q
    BY <1>5
  <2>4. QED
    BY <1>2, <1>5, <2>1, <2>2, <2>3
<1>13. AddedAt(a, b, h, 2 * q, l + u * q, c, AddAndShift(a, pm))
  BY <1>10, <1>11, <1>12 DEF AddedAt
<1>14. QED
  BY <1>12, <1>13 DEF Added

(* Before the first bit nothing is added.                                  *)
LEMMA AddedFirst ==
  ASSUME NEW a \in Nat, NEW b \in 0 .. M - 1
  PROVE  Added(a, b, M, b)
<1>1. M \in Nat /\ M * 1 = M /\ b = 1 * b + 0 /\ b = (a * 0) * M + b /\ 0 < 1 /\ b < M
  BY WideLemma
<1>2. AddedAt(a, b, M, 1, 0, b, b)
  BY <1>1 DEF AddedAt
<1>3. QED
  BY <1>2 DEF Added

(* After the last bit the register is the product.                         *)
LEMMA AddedLast ==
  ASSUME NEW a \in Nat, NEW b \in Nat, NEW pm, Added(a, b, 1, pm)
  PROVE  pm = a * b
<1>1. PICK q \in Nat \ {0}, l \in Nat, r \in Nat : AddedAt(a, b, 1, q, l, r, pm)
  BY DEF Added
<1>2. r = 0 /\ b = q * r + l /\ pm = (a * l) * 1 + r
  BY <1>1 DEF AddedAt
<1>3. l = b
  BY <1>2
<1>4. QED
  BY <1>2, <1>3

----------------------------------------------------------------------------
(* The radix-4 multiplier.                                                 *)

(* s as a number of W + 1 bits.                                            *)
Wrapped(s, n) == s \in -M .. M - 1 /\ n = IF s < 0 THEN s + 2 * M ELSE s

(* s is x, as far as W + 1 bits can tell.                                  *)
Nearly(s, x, f) == s = x + (2 * M) * f /\ (x \in -M .. M - 1 => f = 0)

(* The accumulator, W + 1 bits wide, stands for a signed number.           *)
LEMMA AccLemma ==
  ASSUME NEW x \in Int
  PROVE  \E s \in Int, f \in Int : Wrapped(s, x % (2 * M)) /\ Nearly(s, x, f)
<1> DEFINE n == x % (2 * M)
<1> DEFINE k == x \div (2 * M)
<1>1. M \in Nat \ {0} /\ 2 * M \in Nat \ {0}
  BY WideLemma
<1>2. x = (2 * M) * k + n /\ k \in Int /\ n \in 0 .. 2 * M - 1
  BY <1>1, DivLemma
<1> HIDE DEF k
<1>3. CASE n < M
  <2> HIDE DEF n
  <2>1. Wrapped(n, n)
    BY <1>1, <1>2, <1>3 DEF Wrapped
  <2>2. n = x + (2 * M) * (-k) /\ -k \in Int
    BY <1>1, <1>2
  <2>3. x \in -M .. M - 1 => -k = 0
    <3>1. SUFFICES ASSUME x \in -M .. M - 1, k # 0 PROVE FALSE
      BY <1>2
    <3>2. CASE k >= 1
      <4>1. (2 * M) * k >= (2 * M) * 1
        BY <1>1, <1>2, <3>2
      <4>2. QED
        BY <1>1, <1>2, <3>1, <4>1
    <3>3. CASE k <= -1
      <4>1. (2 * M) * k <= (2 * M) * (-1)
        BY <1>1, <1>2, <3>3
      <4>2. QED
        BY <1>1, <1>2, <1>3, <3>1, <4>1
    <3>4. QED
      BY <1>2, <3>1, <3>2, <3>3
  <2>4. Nearly(n, x, -k)
    BY <2>2, <2>3 DEF Nearly
  <2>5. QED
    BY <1>2, <2>1, <2>2, <2>4 DEF n
<1>4. CASE n >= M
  <2> HIDE DEF n
  <2> DEFINE s == n - 2 * M
  <2>1. s \in -M .. M - 1 /\ s < 0 /\ n = s + 2 * M /\ s \in Int
    BY <1>1, <1>2, <1>4
  <2>2. s = x + (2 * M) * (-k - 1) /\ -k - 1 \in Int
    BY <1>1, <1>2
  <2>3. x \in -M .. M - 1 => -k - 1 = 0
    <3>1. SUFFICES ASSUME x \in -M .. M - 1, k # -1 PROVE FALSE
      BY <1>2
    <3>2. CASE k >= 0
      <4>1. (2 * M) * k >= (2 * M) * 0
        BY <1>1, <1>2, <3>2
      <4>2. QED
        BY <1>1, <1>2, <1>4, <3>1, <4>1
    <3>3. CASE k <= -2
      <4>1. (2 * M) * k <= (2 * M) * (-2)
        BY <1>1, <1>2, <3>3
      <4>2. QED
        BY <1>1, <1>2, <3>1, <4>1
    <3>4. QED
      BY <1>2, <3>1, <3>2, <3>3
  <2> HIDE DEF s
  <2>4. Nearly(s, x, -k - 1)
    BY <2>2, <2>3 DEF Nearly
  <2>5. Wrapped(s, n)
    BY <2>1 DEF Wrapped
  <2>6. QED
    BY <2>1, <2>2, <2>4, <2>5 DEF n
<1>5. QED
  BY <1>1, <1>2, <1>3, <1>4

(* The accumulator's arithmetic shift.                                     *)
LEMMA AccShift ==
  ASSUME NEW s \in Int, NEW n \in Int, Wrapped(s, n)
  PROVE  /\ n % 4 = s % 4 /\ n \in 0 .. 2 * M - 1
         /\ Wrapped(s \div 4, n \div 4 + Bit(n, W) * (3 * ((2 * M) \div 4)))
         /\ n % M = s % M
<1>1. PICK m \in Nat : M = 4 * m /\ m >= 1
  BY WidthLemma
<1>2. s \in -M .. M - 1 /\ n = IF s < 0 THEN s + 2 * M ELSE s
  BY DEF Wrapped
<1>3. n % 4 = s % 4 /\ n \in 0 .. 2 * M - 1
  BY <1>1, <1>2
<1>4. (2 * M) \div 4 = 2 * m
  BY <1>1
<1>5. CASE s < 0
  <2>1. n \div 4 = (s \div 4) + 2 * m /\ n \in M .. 2 * M - 1
    BY <1>1, <1>2, <1>5
  <2>2. Bit(n, W) = 1 /\ n % M = s % M
    <3>1. Splits(n, M, 1, n - M) /\ n - M \in Int /\ 1 \in Int /\ M \in Nat \ {0}
      BY <1>1, <2>1 DEF Splits
    <3>2. n \div M = 1 /\ n % M = n - M
      BY <3>1, DivUnique
    <3>3. Splits(s, M, -1, n - M) /\ -1 \in Int
      BY <1>1, <1>2, <1>5 DEF Splits
    <3>4. s % M = n - M
      BY <3>1, <3>3, DivUnique
    <3>5. Bit(n, W) = (n \div M) % 2
      BY WidthLemma DEF Bit
    <3>6. Bit(n, W) = 1
      BY <3>2, <3>5
    <3>7. QED
      BY <3>2, <3>4, <3>6
  <2>3. n \div 4 + Bit(n, W) * (3 * ((2 * M) \div 4)) = (s \div 4) + 2 * M
    BY <1>1, <1>4, <2>1, <2>2
  <2>4. s \div 4 \in -M .. M - 1 /\ s \div 4 < 0
    BY <1>1, <1>2, <1>5
  <2>5. QED
    BY <1>3, <2>2, <2>3, <2>4 DEF Wrapped
<1>6. CASE s >= 0
  <2>1. n = s /\ n \in 0 .. M - 1 /\ n \in Int /\ M \in Nat \ {0}
    BY <1>1, <1>2, <1>6
  <2>2. n \div M = 0
    BY <2>1, SmallMod
  <2>3. Bit(n, W) = 0
    BY <2>2, WidthLemma DEF Bit
  <2>4. n \div 4 + Bit(n, W) * (3 * ((2 * M) \div 4)) = s \div 4
    BY <1>1, <1>4, <2>1, <2>3
  <2>5. s \div 4 \in -M .. M - 1 /\ s \div 4 >= 0
    BY <1>1, <1>2, <1>6
  <2>6. QED
    BY <1>3, <2>1, <2>4, <2>5 DEF Wrapped
<1>7. QED
  BY <1>5, <1>6

(* The recoded digit of two bits and the one below them.                   *)
LEMMA DigitLemma ==
  ASSUME mul_pm \in Nat, mul_booth_prev \in 0 .. 1
  PROVE  \E b0 \in 0 .. 1, b1 \in 0 .. 1 :
           /\ mul_pm % 4 = 2 * b1 + b0
           /\ Bit(mul_pm, 1) = b1
           /\ BoothDigit = (b0 - 2 * b1) + mul_booth_prev
<1>1. Pow2[0] = 1 /\ Pow2[0 + 1] = 2 * Pow2[0]
  BY PowLemma, 0 \in Nat
<1>2. 0 + 1 = 1
  OBVIOUS
<1>3. Bit(mul_pm, 1) = (mul_pm \div 2) % 2
  BY <1>1, <1>2 DEF Bit
<1>4. Bit(mul_pm, 0) = mul_pm % 2
  <2>1. mul_pm \div 1 = mul_pm
    OBVIOUS
  <2>2. QED
    BY <1>1, <2>1 DEF Bit
<1>5. mul_pm % 4 = 2 * ((mul_pm \div 2) % 2) + (mul_pm % 2)
  OBVIOUS
<1>6. (mul_pm \div 2) % 2 \in 0 .. 1 /\ mul_pm % 2 \in 0 .. 1
  OBVIOUS
<1> DEFINE b0 == mul_pm % 2
<1> DEFINE b1 == (mul_pm \div 2) % 2
<1> DEFINE b == 4 * b1 + 2 * b0 + mul_booth_prev
<1>7. BoothDigit = CASE b \in {0, 7} -> 0 [] b \in {1, 2} -> 1 [] b = 3 -> 2 [] b = 4 -> -2
                     [] b \in {5, 6} -> -1
  BY <1>3, <1>4 DEF BoothDigit
<1>8. b0 \in {0, 1} /\ b1 \in {0, 1} /\ mul_booth_prev \in {0, 1}
  BY <1>6
<1> HIDE DEF b0, b1
<1>9. BoothDigit = (b0 - 2 * b1) + mul_booth_prev
  BY <1>7, <1>8
<1>10. mul_pm % 4 = 2 * b1 + b0 /\ Bit(mul_pm, 1) = b1 /\ b0 \in 0 .. 1 /\ b1 \in 0 .. 1
  BY <1>3, <1>5, <1>8 DEF b0, b1
<1>11. QED
  BY <1>9, <1>10

(* The accumulator s over h, the bits of the product already shifted out,  *)
(* is a times the bits l of b already seen, less what the last digit owes; *)
(* exactly so for a multiplicand whose top bit is clear, and up to a       *)
(* multiple of M for the others.                                           *)
BoothAt(a, b, p, q, l, r, s, h, e, acc, pm, prev) ==
  /\ p * q = M /\ l < q /\ r < p /\ b = q * r + l
  /\ Wrapped(s, acc)
  /\ h < q /\ pm % M = h * p + r
  /\ s * q + h = a * (l - prev * q) + M * e
  /\ a < Half => e = 0 /\ IF prev = 1 THEN -a <= s /\ s <= 0 ELSE 0 <= s /\ s <= a

Booth(a, b, p, acc, pm, prev) ==
  \E q \in Nat \ {0}, l \in Nat, r \in Nat, s \in Int, h \in Nat, e \in Int :
    BoothAt(a, b, p, q, l, r, s, h, e, acc, pm, prev)

BoothPm ==
  (booth_shifted_acc % M) * M + (booth_new_acc % 4) * (M \div 4) + (mul_pm % M) \div 4

(* With a multiplicand below half of M no digit takes the accumulator out  *)
(* of its width.                                                           *)
LEMMA BoothBounds ==
  ASSUME NEW a \in Nat, a < Half, NEW s \in Int, NEW b0 \in 0 .. 1, NEW b1 \in 0 .. 1,
         NEW prev \in 0 .. 1,
         IF prev = 1 THEN -a <= s /\ s <= 0 ELSE 0 <= s /\ s <= a
  PROVE  LET x == s + ((b0 - 2 * b1) + prev) * a
         IN /\ x \in -M .. M - 1
            /\ IF b1 = 1 THEN -a <= x \div 4 /\ x \div 4 <= 0 ELSE 0 <= x \div 4 /\ x \div 4 <= a
<1>1. M \in Nat /\ Half \in Nat /\ M = 2 * Half
  BY WidthLemma
<1> DEFINE d == (b0 - 2 * b1) + prev
<1> DEFINE x == s + d * a
<1>2. d \in -2 .. 2
  OBVIOUS
<1>3. x \in Int /\ (b1 = 1 => -(2 * a) <= x /\ x <= 0) /\ (b1 = 0 => 0 <= x /\ x <= 2 * a)
  <2>1. CASE prev = 0
    <3>1. d = b0 - 2 * b1 /\ 0 <= s /\ s <= a
      BY <2>1
    <3>2. CASE b1 = 0
      <4>1. d = 0 \/ d = 1
        BY <3>1, <3>2
      <4>2. d * a = 0 \/ d * a = a
        BY <4>1
      <4> HIDE DEF d
      <4>3. QED
        BY <3>1, <3>2, <4>2
    <3>3. CASE b1 = 1
      <4>1. d = -2 \/ d = -1
        BY <3>1, <3>3
      <4>2. d * a = -(2 * a) \/ d * a = -a
        BY <4>1
      <4> HIDE DEF d
      <4>3. QED
        BY <3>1, <3>3, <4>2
    <3>4. QED
      BY <3>2, <3>3
  <2>2. CASE prev = 1
    <3>1. d = (b0 - 2 * b1) + 1 /\ -a <= s /\ s <= 0
      BY <2>2
    <3>2. CASE b1 = 0
      <4>1. d = 1 \/ d = 2
        BY <3>1, <3>2
      <4>2. d * a = a \/ d * a = 2 * a
        BY <4>1
      <4> HIDE DEF d
      <4>3. QED
        BY <3>1, <3>2, <4>2
    <3>3. CASE b1 = 1
      <4>1. d = -1 \/ d = 0
        BY <3>1, <3>3
      <4>2. d * a = -a \/ d * a = 0
        BY <4>1
      <4> HIDE DEF d
      <4>3. QED
        BY <3>1, <3>3, <4>2
    <3>4. QED
      BY <3>2, <3>3
  <2>3. QED
    BY <2>1, <2>2
<1> HIDE DEF x
<1>4. /\ x \in -M .. M - 1
      /\ IF b1 = 1 THEN -a <= x \div 4 /\ x \div 4 <= 0 ELSE 0 <= x \div 4 /\ x \div 4 <= a
  <2>1. CASE b1 = 1
    BY <1>1, <1>3, <2>1
  <2>2. CASE b1 = 0
    BY <1>1, <1>3, <2>2
  <2>3. QED
    BY <2>1, <2>2
<1>5. QED
  BY <1>4 DEF x

(* One digit more: two bits of the multiplier are gone, two of the         *)
(* product are there.                                                      *)
LEMMA BoothGain ==
  ASSUME mul_mcand \in Nat, mul_pm \in Nat, mul_booth_prev \in 0 .. 1,
         NEW b \in Nat, NEW g \in Nat \ {0},
         Booth(mul_mcand, b, 4 * g, mul_acc, mul_pm, mul_booth_prev)
  PROVE  /\ Booth(mul_mcand, b, g, booth_shifted_acc, BoothPm, Bit(mul_pm, 1))
         /\ BoothPm \in Nat /\ Bit(mul_pm, 1) \in 0 .. 1
<1> DEFINE a == mul_mcand
<1> DEFINE prev == mul_booth_prev
<1>1. PICK q \in Nat \ {0}, l \in Nat, r \in Nat, s \in Int, h \in Nat, e \in Int :
        BoothAt(a, b, 4 * g, q, l, r, s, h, e, mul_acc, mul_pm, prev)
  BY DEF Booth
<1>2. /\ (4 * g) * q = M /\ l < q /\ r < 4 * g /\ b = q * r + l
      /\ Wrapped(s, mul_acc)
      /\ h < q /\ mul_pm % M = h * (4 * g) + r
      /\ s * q + h = a * (l - prev * q) + M * e
      /\ a < Half => e = 0 /\ IF prev = 1 THEN -a <= s /\ s <= 0 ELSE 0 <= s /\ s <= a
      /\ a \in Nat /\ prev \in 0 .. 1
  BY <1>1 DEF BoothAt
<1>3. PICK b0 \in 0 .. 1, b1 \in 0 .. 1 :
        mul_pm % 4 = 2 * b1 + b0 /\ Bit(mul_pm, 1) = b1 /\ BoothDigit = (b0 - 2 * b1) + prev
  BY DigitLemma
<1> DEFINE d == (b0 - 2 * b1) + prev
<1> DEFINE x == s + d * a
<1>4. d \in Int /\ x \in Int /\ M \in Nat \ {0} /\ M \div 4 = g * q /\ M = 4 * (g * q) /\ g * q \in Nat
  <2>1. M \in Nat \ {0} /\ M = 4 * (M \div 4) /\ M \div 4 \in Nat
    BY WidthLemma
  <2>2. (4 * g) * q = 4 * (g * q) /\ g * q \in Nat
    BY <1>2
  <2>3. d \in Int
    BY <1>2
  <2>4. QED
    BY <1>2, <2>1, <2>2, <2>3
<1>5. booth_new_acc = x % (2 * M)
  <2>1. booth_new_acc = (mul_acc + d * a) % (2 * M)
    BY <1>3 DEF booth_new_acc, AccM
  <2>2. PICK j \in 0 .. 1 : mul_acc = s + (2 * M) * j
    <3>1. CASE s < 0
      <4>1. mul_acc = s + (2 * M) * 1
        BY <1>2, <1>4, <3>1 DEF Wrapped
      <4>2. QED
        BY <4>1
    <3>2. CASE s >= 0
      <4>1. mul_acc = s + (2 * M) * 0
        BY <1>2, <1>4, <3>2 DEF Wrapped
      <4>2. QED
        BY <4>1
    <3>3. QED
      BY <3>1, <3>2
  <2>3. d * a \in Int
    BY <1>2, <1>4
  <2>4. Apart(mul_acc + d * a, x, 2 * M, j) /\ mul_acc + d * a \in Int /\ 2 * M \in Nat \ {0} /\ j \in Int
    BY <1>4, <2>2, <2>3 DEF Apart
  <2> DEFINE z == mul_acc + d * a
  <2> DEFINE n == 2 * M
  <2>5. Apart(z, x, n, j) /\ z \in Int /\ n \in Nat \ {0} /\ j \in Int /\ booth_new_acc = z % n /\ x \in Int
    BY <1>4, <2>1, <2>4
  <2> HIDE DEF x, d, z, n
  <2>6. z % n = x % n
    BY <2>5, ModShift, ZenonT(60)
  <2>7. QED
    BY <2>5, <2>6 DEF n
<1> HIDE DEF x
<1>6. PICK t \in Int, f \in Int : Wrapped(t, booth_new_acc) /\ Nearly(t, x, f)
  BY <1>4, <1>5, AccLemma
<1>7. /\ booth_new_acc % 4 = t % 4 /\ booth_new_acc \in 0 .. 2 * M - 1
      /\ Wrapped(t \div 4, booth_shifted_acc)
  <2>1. booth_new_acc \in Int
    BY <1>4, <1>6 DEF Wrapped
  <2>2. booth_shifted_acc = booth_new_acc \div 4 + Bit(booth_new_acc, W) * (3 * ((2 * M) \div 4))
    BY DEF booth_shifted_acc, AccM
  <2>3. QED
    BY <1>6, <2>1, <2>2, AccShift
<1>8. PICK v \in Int, w \in Nat : t = 4 * v + w /\ t \div 4 = v /\ t % 4 = w /\ w <= 3
  <2>1. t = 4 * (t \div 4) + (t % 4) /\ t % 4 \in 0 .. 3 /\ t \div 4 \in Int
    OBVIOUS
  <2>2. QED
    BY <2>1
<1>9. PICK c \in Nat, u \in Nat : r = 4 * c + u /\ u = 2 * b1 + b0
  <2>1. PICK k \in Int : mul_pm = M * k + (mul_pm % M)
    <3>1. mul_pm = M * (mul_pm \div M) + (mul_pm % M) /\ mul_pm \div M \in Int
      BY <1>4, mul_pm \in Int, DivLemma
    <3>2. QED
      BY <3>1, Zenon
  <2>2. mul_pm = 4 * ((g * q) * k + h * g) + r
    <3>1. M * k = 4 * ((g * q) * k)
      BY <1>4
    <3>2. h * (4 * g) = 4 * (h * g)
      OBVIOUS
    <3>3. QED
      BY <1>2, <1>4, <2>1, <3>1, <3>2
  <2> DEFINE y == (g * q) * k + h * g
  <2>3. y \in Int
    BY <1>4, <2>1
  <2>4. mul_pm = 4 * y + r
    BY <2>2
  <2> HIDE DEF y
  <2>5. mul_pm % 4 = r % 4
    BY <2>3, <2>4
  <2>6. r = 4 * (r \div 4) + (2 * b1 + b0) /\ r \div 4 \in Nat /\ 2 * b1 + b0 \in Nat
    BY <1>3, <2>5
  <2>7. QED
    BY <2>6
<1> DEFINE hh == w * q + h
<1> DEFINE low == hh * g + c
<1>10. hh \in Nat /\ hh <= 4 * q - 1 /\ hh < 4 * q
  <2>1. w * q <= 3 * q /\ w * q \in Nat
    BY <1>8
  <2>2. QED
    BY <1>2, <2>1
<1>11. c < g
  BY <1>2, <1>9
<1>12. low \in 0 .. M - 1
  <2>1. hh * g <= (4 * q - 1) * g /\ hh * g \in Nat
    BY <1>10
  <2>2. (4 * q - 1) * g = M - g
    BY <1>4
  <2> DEFINE y == hh * g
  <2>3. y <= M - g /\ y \in Nat
    BY <2>1, <2>2
  <2> HIDE DEF y, hh
  <2>4. y + c \in 0 .. M - 1
    BY <1>4, <1>11, <2>3
  <2>5. QED
    BY <2>4 DEF y
<1>13. BoothPm = (booth_shifted_acc % M) * M + low
  <2>1. (mul_pm % M) \div 4 = h * g + c
    <3>1. h * (4 * g) = 4 * (h * g) /\ h * g \in Nat
      OBVIOUS
    <3> DEFINE y == h * g
    <3>2. mul_pm % M = 4 * (y + c) + u /\ u <= 3 /\ y \in Nat
      BY <1>2, <1>9, <3>1
    <3> HIDE DEF y
    <3>3. (mul_pm % M) \div 4 = y + c
      BY <3>2
    <3>4. QED
      BY <3>3 DEF y
  <2>2. (booth_new_acc % 4) * (M \div 4) = w * (g * q)
    BY <1>4, <1>7, <1>8
  <2>3. w * (g * q) + (h * g + c) = low
    OBVIOUS
  <2>4. w * (g * q) \in Nat /\ h * g + c \in Nat /\ booth_shifted_acc % M \in Nat
    <3>1. booth_shifted_acc \in Int
      BY <1>7, <1>8, <1>4 DEF Wrapped
    <3>2. booth_shifted_acc % M \in 0 .. M - 1
      BY <1>4, <3>1, DivLemma
    <3>3. QED
      BY <1>4, <3>2
  <2> DEFINE y1 == (booth_shifted_acc % M) * M
  <2> DEFINE y2 == w * (g * q)
  <2> DEFINE y3 == h * g + c
  <2>5. BoothPm = y1 + y2 + y3 /\ y1 \in Nat /\ y2 \in Nat /\ y3 \in Nat /\ y2 + y3 = low
    <3>1. y1 \in Nat
      BY <1>4, <2>4
    <3>2. BoothPm = y1 + y2 + y3
      BY <2>1, <2>2 DEF BoothPm
    <3>3. QED
      BY <2>3, <2>4, <3>1, <3>2
  <2> HIDE DEF y1, y2, y3, low
  <2>6. BoothPm = y1 + low
    BY <2>5
  <2>7. QED
    BY <2>6 DEF y1
<1>14. BoothPm % M = low /\ BoothPm \in Nat
  <2> DEFINE k == booth_shifted_acc % M
  <2>1. k \in Nat
    <3>1. booth_shifted_acc \in Int
      BY <1>7, <1>8, <1>4 DEF Wrapped
    <3>2. k \in 0 .. M - 1
      BY <1>4, <3>1, DivLemma
    <3>3. QED
      BY <1>4, <3>2
  <2>2. BoothPm = k * M + low
    BY <1>13
  <2> HIDE DEF k, low
  <2>3. k * M = M * k /\ k * M \in Nat /\ low \in Nat
    BY <1>4, <1>12, <2>1
  <2>4. Splits(BoothPm, M, k, low) /\ BoothPm \in Nat
    BY <1>4, <1>12, <2>2, <2>3 DEF Splits
  <2>5. BoothPm \in Int /\ k \in Int /\ low \in Int
    BY <2>1, <2>3, <2>4
  <2>6. BoothPm % M = low
    BY <1>4, <2>4, <2>5, DivUnique
  <2>7. QED
    BY <2>4, <2>6
<1> DEFINE ll == l + u * q
<1> DEFINE ee == e + 2 * (f * q)
<1>15. ll \in Nat /\ ll < 4 * q /\ b = (4 * q) * c + ll /\ 4 * q \in Nat \ {0} /\ g * (4 * q) = M
  <2>1. u * q <= 3 * q /\ u * q \in Nat
    BY <1>9
  <2>2. q * r = (4 * q) * c + u * q
    BY <1>9
  <2>3. QED
    BY <1>2, <1>4, <2>1, <2>2
<1>16. v * (4 * q) + hh = a * (ll - b1 * (4 * q)) + M * ee
  <2>1. v * (4 * q) + w * q = t * q
    BY <1>8
  <2>2. t * q = s * q + (a * (d * q)) + M * (2 * (f * q))
    <3>1. t = (s + d * a) + (2 * M) * f
      BY <1>6 DEF Nearly, x
    <3> HIDE DEF d
    <3>2. QED
      BY <1>2, <1>4, <3>1
  <2>3. a * (l - prev * q) + a * (d * q) = a * (ll - b1 * (4 * q))
    <3>1. (l - prev * q) + d * q = ll - b1 * (4 * q)
      BY <1>2, <1>9
    <3>2. l - prev * q \in Int /\ d * q \in Int
      BY <1>2, <1>4
    <3> DEFINE y == l - prev * q
    <3> DEFINE z == d * q
    <3>3. a * y + a * z = a * (y + z)
      <4> HIDE DEF y, z
      <4>1. y \in Int /\ z \in Int
        BY <3>2 DEF y, z
      <4>2. QED
        BY <1>2, <4>1
    <3>4. QED
      BY <3>1, <3>3
  <2>4. M * e + M * (2 * (f * q)) = M * ee
    BY <1>4
  <2> DEFINE y1 == s * q
  <2> DEFINE y2 == a * (d * q)
  <2> DEFINE y3 == M * (2 * (f * q))
  <2> DEFINE y4 == a * (l - prev * q)
  <2> DEFINE y5 == M * e
  <2> DEFINE y6 == v * (4 * q)
  <2> DEFINE y7 == w * q
  <2> DEFINE y8 == a * (ll - b1 * (4 * q))
  <2> DEFINE y9 == M * ee
  <2>5. /\ y1 \in Int /\ y2 \in Int /\ y3 \in Int /\ y4 \in Int /\ y5 \in Int /\ y6 \in Int /\ y7 \in Int
        /\ y8 \in Int /\ y9 \in Int
    BY <1>2, <1>4, <1>15
  <2>6. y6 + y7 = y1 + y2 + y3 /\ y1 + h = y4 + y5 /\ y4 + y2 = y8 /\ y5 + y3 = y9
    BY <1>2, <2>1, <2>2, <2>3, <2>4
  <2>7. y6 + (y7 + h) = y8 + y9
    <3> HIDE DEF y1, y2, y3, y4, y5, y6, y7, y8, y9
    <3>1. QED
      BY <2>5, <2>6
  <2>8. QED
    BY <2>7
<1>17. a < Half => ee = 0 /\ IF b1 = 1 THEN -a <= v /\ v <= 0 ELSE 0 <= v /\ v <= a
  <2>1. SUFFICES ASSUME a < Half
                 PROVE  ee = 0 /\ IF b1 = 1 THEN -a <= v /\ v <= 0 ELSE 0 <= v /\ v <= a
    OBVIOUS
  <2>2. e = 0 /\ IF prev = 1 THEN -a <= s /\ s <= 0 ELSE 0 <= s /\ s <= a
    BY <1>2, <2>1
  <2>3. /\ x \in -M .. M - 1
        /\ IF b1 = 1 THEN -a <= x \div 4 /\ x \div 4 <= 0 ELSE 0 <= x \div 4 /\ x \div 4 <= a
    BY <1>2, <2>1, <2>2, BoothBounds DEF x
  <2>4. f = 0
    BY <1>6, <2>3 DEF Nearly
  <2>5. t = x
    <3>1. (2 * M) * f = 0
      BY <1>4, <2>4
    <3>2. QED
      BY <1>4, <1>6, <3>1 DEF Nearly
  <2>6. ee = 0
    BY <2>2, <2>4
  <2>7. QED
    BY <1>8, <2>3, <2>5, <2>6
<1>18. BoothAt(a, b, g, 4 * q, ll, c, v, hh, ee, booth_shifted_acc, BoothPm, b1)
  <2>1. Wrapped(v, booth_shifted_acc)
    BY <1>7, <1>8
  <2> HIDE DEF ll, ee, hh, a
  <2>2. QED
    BY <1>10, <1>11, <1>14, <1>15, <1>16, <1>17, <2>1 DEF BoothAt
<1>19. ee \in Int /\ hh \in Nat /\ v \in Int /\ c \in Nat /\ ll \in Nat
  BY <1>10, <1>15
<1>20. QED
  <2> HIDE DEF ll, ee, hh, a
  <2>1. Booth(a, b, g, booth_shifted_acc, BoothPm, b1)
    BY <1>15, <1>18, <1>19 DEF Booth
  <2>2. QED
    BY <1>3, <1>14, <2>1 DEF a

(* Before the first digit nothing is added.                                *)
LEMMA BoothFirst ==
  ASSUME NEW a \in Nat, NEW b \in 0 .. M - 1
  PROVE  Booth(a, b, M, 0, b, 0)
<1>1. M \in Nat \ {0} /\ b \in Nat /\ b % M = b /\ M * 1 = M
  BY WideLemma, SmallMod
<1>2. Wrapped(0, 0)
  BY <1>1 DEF Wrapped
<1>3. /\ 0 < 1 /\ b < M /\ b = 1 * b + 0 /\ b = 0 * M + b
      /\ 0 * 1 + 0 = a * (0 - 0 * 1) + M * 0
      /\ a < Half => 0 <= a
  BY <1>1
<1>4. BoothAt(a, b, M, 1, 0, b, 0, 0, 0, 0, b, 0)
  BY <1>1, <1>2, <1>3 DEF BoothAt
<1>5. 1 \in Nat \ {0} /\ 0 \in Nat /\ 0 \in Int
  OBVIOUS
<1>6. QED
  BY <1>1, <1>4, <1>5 DEF Booth

Halves(z, pm) == z * M + (pm % M)

(* After the last digit and its fixup the two halves are the product, the  *)
(* lower one for every multiplicand.                                       *)
LEMMA BoothLast ==
  ASSUME NEW a \in 0 .. M - 1, NEW b \in 0 .. M - 1, NEW acc \in Int, NEW pm \in Nat,
         NEW prev \in 0 .. 1, Booth(a, b, 1, acc, pm, prev)
  PROVE  /\ pm % M = (a * b) % M
         /\ a < Half =>
              /\ (acc + prev * a) % (2 * M) \in 0 .. M - 1
              /\ Halves((acc + prev * a) % (2 * M), pm) = a * b
<1>1. PICK q \in Nat \ {0}, l \in Nat, r \in Nat, s \in Int, h \in Nat, e \in Int :
        BoothAt(a, b, 1, q, l, r, s, h, e, acc, pm, prev)
  BY DEF Booth
<1>2. /\ 1 * q = M /\ l < q /\ r < 1 /\ b = q * r + l
      /\ Wrapped(s, acc)
      /\ h < q /\ pm % M = h * 1 + r
      /\ s * q + h = a * (l - prev * q) + M * e
      /\ a < Half => e = 0 /\ IF prev = 1 THEN -a <= s /\ s <= 0 ELSE 0 <= s /\ s <= a
      /\ M \in Nat \ {0} /\ a \in Nat /\ b \in Nat
  BY <1>1, WideLemma DEF BoothAt
<1>3. q = M /\ r = 0
  BY <1>2
<1>4. M * 0 = 0 /\ l = b /\ h = pm % M /\ h \in 0 .. M - 1
  BY <1>2, <1>3
<1>5. s * M + h = a * b + M * (e - prev * a)
  <2>1. a * (b - prev * M) = a * b - M * (prev * a)
    BY <1>2
  <2>2. M * (e - prev * a) = M * e - M * (prev * a)
    BY <1>2
  <2>3. s * M + h = a * (b - prev * M) + M * e
    BY <1>2, <1>3, <1>4
  <2> DEFINE y1 == a * b
  <2> DEFINE y2 == M * (prev * a)
  <2> DEFINE y3 == M * e
  <2> DEFINE y4 == s * M
  <2>4. y1 \in Int /\ y2 \in Int /\ y3 \in Int /\ y4 \in Int
    BY <1>2
  <2>5. y4 + h = (y1 - y2) + y3
    BY <2>1, <2>3
  <2> HIDE DEF y1, y2, y3, y4
  <2>6. y4 + h = y1 + (y3 - y2)
    BY <2>4, <2>5
  <2>7. QED
    BY <2>2, <2>6 DEF y1, y2, y3, y4
<1>6. pm % M = (a * b) % M
  <2> DEFINE ab == a * b
  <2> DEFINE k == s - (e - prev * a)
  <2>1. ab \in Int /\ k \in Int /\ h \in Int /\ M \in Nat \ {0}
    BY <1>2
  <2>2. ab = M * k + h
    BY <1>2, <1>5
  <2>3. Splits(ab, M, k, h)
    BY <1>4, <2>2 DEF Splits
  <2> HIDE DEF ab, k
  <2>4. ab % M = h
    BY <2>1, <2>3, DivUnique
  <2>5. QED
    BY <1>4, <2>4 DEF ab
<1>7. ASSUME a < Half
      PROVE  /\ (acc + prev * a) % (2 * M) \in 0 .. M - 1
             /\ Halves((acc + prev * a) % (2 * M), pm) = a * b
  <2> DEFINE z == s + prev * a
  <2>1. e = 0 /\ IF prev = 1 THEN -a <= s /\ s <= 0 ELSE 0 <= s /\ s <= a
    BY <1>2, <1>7
  <2>2. z \in 0 .. M - 1
    <3>1. CASE prev = 0
      <4>1. prev * a = 0
        BY <1>2, <3>1
      <4>2. QED
        BY <1>2, <2>1, <3>1, <4>1
    <3>2. CASE prev = 1
      <4>1. prev * a = a
        BY <1>2, <3>2
      <4>2. QED
        BY <1>2, <2>1, <3>2, <4>1
    <3>3. QED
      BY <3>1, <3>2
  <2>3. z * M + h = a * b
    <3>1. z * M = s * M + M * (prev * a) /\ M * (0 - prev * a) = -(M * (prev * a))
      BY <1>2
    <3> DEFINE y1 == a * b
    <3> DEFINE y2 == M * (prev * a)
    <3> DEFINE y4 == s * M
    <3> DEFINE y5 == z * M
    <3>2. y1 \in Int /\ y2 \in Int /\ y4 \in Int /\ y5 \in Int
      BY <1>2
    <3>3. y4 + h = y1 + (-y2) /\ y5 = y4 + y2
      BY <1>5, <2>1, <3>1
    <3> HIDE DEF y1, y2, y4, y5
    <3>4. y5 + h = y1
      BY <3>2, <3>3
    <3>5. QED
      BY <3>4 DEF y1, y5
  <2>4. (acc + prev * a) % (2 * M) = z
    <3> DEFINE x == acc + prev * a
    <3> DEFINE n == 2 * M
    <3>1. PICK j \in 0 .. 1 : acc = s + (2 * M) * j
      <4>1. CASE s < 0
        <5>1. acc = s + (2 * M) * 1
          BY <1>2, <4>1 DEF Wrapped
        <5>2. QED
          BY <5>1
      <4>2. CASE s >= 0
        <5>1. acc = s + (2 * M) * 0
          BY <1>2, <4>2 DEF Wrapped
        <5>2. QED
          BY <5>1
      <4>3. QED
        BY <4>1, <4>2
    <3>2. prev * a \in Int /\ n \in Nat \ {0} /\ x \in Int /\ j \in Int /\ z \in Int /\ z \in 0 .. n - 1
      BY <1>2, <2>2
    <3>3. x = n * j + z
      BY <1>2, <3>1, <3>2
    <3>4. Splits(x, n, j, z)
      BY <3>2, <3>3 DEF Splits
    <3> HIDE DEF x, n, z
    <3>5. x % n = z
      BY <3>2, <3>4, DivUnique
    <3>6. QED
      BY <3>5 DEF x, n
  <2>5. Halves(z, pm) = a * b
    BY <1>4, <2>3 DEF Halves
  <2> HIDE DEF z
  <2>6. QED
    BY <2>2, <2>4, <2>5
<1>8. QED
  BY <1>6, <1>7

----------------------------------------------------------------------------
(* What a multiplication writes.                                           *)

SignedProduct == IF mul_sign1 # mul_sign2 THEN -(mul_abs1 * mul_abs2) ELSE mul_abs1 * mul_abs2

(* x stands for the product s: its low half for MUL, all of it for the others. *)
StandsFor(f, s, x) == IF f = "mul" THEN x % M = s % M ELSE x = s % (M * M)

IsProduct(x) == StandsFor(funct, SignedProduct, x)

AbsProduct == mul_abs1 * mul_abs2

Radix2Inv ==
  /\ mul_count # 0 => Added(mul_abs1, mul_abs2, Pow2[mul_count], mul_pm)
  /\ mul_count = 0 /\ mul_negate_pending => mul_neg /\ mul_pm = AbsProduct
  /\ ~mul_busy => IsProduct(mul_pm)

(* The weight of the n-th Booth digit.                                     *)
Weight(n) == Pow2[2 * n]

Radix4Inv ==
  /\ mul_booth_prev \in 0 .. 1 /\ mul_acc \in Int
  /\ mul_count # 0 \/ mul_fixup =>
       Booth(mul_abs1, mul_abs2, Weight(mul_count), mul_acc, mul_pm, mul_booth_prev)
  /\ mul_count = 0 /\ mul_negate_pending =>
       mul_neg /\ (BoothOverflows \/ Halves(mul_acc % M, mul_pm) = AbsProduct)
  /\ ~mul_busy => BoothOverflows \/ IsProduct(mul_pm)

MulInv ==
  state = "WAIT" /\ isMul =>
    /\ mul_pm \in Nat /\ mul_mcand = mul_abs1
    /\ mul_neg <=> ~(mul_sign1 <=> mul_sign2)
    /\ IF build = "radix4" THEN Radix4Inv ELSE Radix2Inv

(* The absolute values and signs of the operands.                          *)
LEMMA MulOperands ==
  ASSUME ControlInv
  PROVE  /\ mul_abs1 \in 0 .. M - 1 /\ mul_abs2 \in 0 .. M - 1
         /\ mul_sign1 \in BOOLEAN /\ mul_sign2 \in BOOLEAN
         /\ funct = "mul" => ~mul_sign1 /\ ~mul_sign2
         /\ mul_abs1 * mul_abs2 \in 0 .. M * M - 1
         /\ SignedProduct \in Int
<1>0. M \in Nat \ {0} /\ rs1 \in 0 .. M - 1 /\ rs2 \in 0 .. M - 1
  BY WideLemma DEF ControlInv
<1>1. mul_abs1 \in 0 .. M - 1 /\ mul_abs2 \in 0 .. M - 1
  <2>1. Neg(rs1) \in 0 .. M - 1 /\ Neg(rs2) \in 0 .. M - 1
    BY <1>0, AbsLemma
  <2>2. QED
    BY <1>0, <2>1 DEF mul_abs1, mul_abs2
<1>2. /\ mul_sign1 \in BOOLEAN /\ mul_sign2 \in BOOLEAN
      /\ funct = "mul" => ~mul_sign1 /\ ~mul_sign2
  BY DEF mul_sign1, mul_sign2
<1>3. mul_abs1 * mul_abs2 \in 0 .. M * M - 1
  <2> DEFINE a == mul_abs1
  <2> DEFINE b == mul_abs2
  <2>1. a \in Nat /\ b \in Nat /\ a <= M - 1 /\ b <= M - 1
    BY <1>0, <1>1
  <2> HIDE DEF a, b
  <2>2. a * b <= (M - 1) * b /\ (M - 1) * b <= (M - 1) * (M - 1)
    BY <1>0, <2>1
  <2>3. (M - 1) * (M - 1) = M * M - 2 * M + 1
    BY <1>0
  <2>4. a * b \in Nat /\ (M - 1) * b \in Nat
    BY <1>0, <2>1
  <2> DEFINE y == a * b
  <2> DEFINE mm == M * M
  <2> DEFINE z == (M - 1) * b
  <2>5. y \in Nat /\ z \in Nat /\ mm \in Nat /\ y <= z /\ z <= mm - 2 * M + 1
    BY <1>0, <2>2, <2>3, <2>4
  <2> HIDE DEF y, mm, z
  <2>6. y \in 0 .. mm - 1
    BY <1>0, <2>5
  <2>7. QED
    BY <2>6 DEF y, mm, a, b
<1>4. SignedProduct \in Int
  BY <1>3, <1>0, <1>1 DEF SignedProduct
<1>5. QED
  BY <1>1, <1>2, <1>3, <1>4

(* They depend on the instruction only.                                    *)
LEMMA SameOperands ==
  ASSUME UNCHANGED << build, funct, rs1, rs2 >>
  PROVE  /\ (isMul' <=> isMul) /\ (mul_sign1' <=> mul_sign1) /\ (mul_sign2' <=> mul_sign2)
         /\ mul_abs1' = mul_abs1 /\ mul_abs2' = mul_abs2
         /\ AbsProduct' = AbsProduct /\ SignedProduct' = SignedProduct
         /\ (BoothOverflows' <=> BoothOverflows)
  BY DEF isMul, mul_sign1, mul_sign2, mul_abs1, mul_abs2, AbsProduct, SignedProduct,
         BoothOverflows, Neg, Bit

(* Without a sign the product needs no negation.                           *)
LEMMA PlainProduct ==
  ASSUME ControlInv
  PROVE  /\ AbsProduct \in 0 .. M * M - 1 /\ AbsProduct \in Nat
         /\ (mul_sign1 <=> mul_sign2) => IsProduct(AbsProduct) /\ SignedProduct = AbsProduct
         /\ ~(mul_sign1 <=> mul_sign2) => SignedProduct = -AbsProduct /\ funct # "mul"
<1>1. AbsProduct \in 0 .. M * M - 1 /\ mul_sign1 \in BOOLEAN /\ mul_sign2 \in BOOLEAN
  BY MulOperands DEF AbsProduct
<1>2. M * M \in Nat \ {0}
  BY WideLemma
<1>3. AbsProduct \in Nat
  BY <1>1, <1>2
<1>4. ASSUME mul_sign1 <=> mul_sign2 PROVE IsProduct(AbsProduct) /\ SignedProduct = AbsProduct
  <2>1. SignedProduct = AbsProduct
    BY <1>1, <1>4 DEF SignedProduct, AbsProduct
  <2> DEFINE n == M * M
  <2>2. n \in Nat \ {0} /\ AbsProduct \in 0 .. n - 1
    BY <1>1, <1>2
  <2> HIDE DEF n
  <2>3. AbsProduct % n = AbsProduct
    BY <2>2, SmallMod
  <2>4. QED
    BY <2>1, <2>3 DEF IsProduct, StandsFor, n
<1>5. ASSUME ~(mul_sign1 <=> mul_sign2) PROVE SignedProduct = -AbsProduct /\ funct # "mul"
  BY <1>1, <1>5, MulOperands DEF SignedProduct, AbsProduct
<1>6. QED
  BY <1>1, <1>3, <1>4, <1>5

(* The product register holds a number.                                    *)
LEMMA AddedType ==
  ASSUME NEW a \in Nat, NEW b \in Nat, NEW p \in Nat, NEW pm, Added(a, b, p, pm)
  PROVE  pm \in Nat
<1>1. PICK q \in Nat \ {0}, l \in Nat, r \in Nat : AddedAt(a, b, p, q, l, r, pm)
  BY DEF Added
<1>2. pm = (a * l) * p + r /\ a * l \in Nat
  BY <1>1 DEF AddedAt
<1>3. (a * l) * p \in Nat
  BY <1>2
<1>4. QED
  BY <1>2, <1>3

(* Each clock of the radix-2 multiplier, the negation included.            *)
LEMMA Radix2Lemma ==
  ASSUME ControlInv, MulFlags, MulInv, state = "WAIT", isMul, build # "radix4", MulStep,
         UNCHANGED << build, funct, rs1, rs2 >>
  PROVE  MulInv'
<1> DEFINE a == mul_abs1
<1> DEFINE b == mul_abs2
<1>1. /\ Radix2Step /\ mul_mcand' = mul_mcand /\ mul_neg' = mul_neg /\ mul_fixup' = mul_fixup
      /\ ~mul_fixup /\ mul_fixup \in BOOLEAN
  BY DEF MulStep, MulFlags
<1>2. /\ mul_pm \in Nat /\ mul_mcand = a /\ (mul_neg <=> ~(mul_sign1 <=> mul_sign2)) /\ Radix2Inv
      /\ mul_neg \in BOOLEAN /\ mul_negate_pending \in BOOLEAN /\ mul_count \in 0 .. W
      /\ mul_count # 0 => ~mul_negate_pending
  BY DEF MulInv, MulFlags
<1>3. /\ a \in Nat /\ b \in Nat /\ M \in Nat \ {0} /\ W \in Nat
  BY MulOperands, WideLemma
<1>4. /\ AbsProduct \in Nat
      /\ ~mul_neg => IsProduct(AbsProduct)
      /\ mul_neg => SignedProduct = -AbsProduct /\ funct # "mul"
  BY <1>2, PlainProduct
<1>5. /\ (isMul' <=> isMul) /\ (mul_sign1' <=> mul_sign1) /\ (mul_sign2' <=> mul_sign2)
      /\ mul_abs1' = a /\ mul_abs2' = b /\ AbsProduct' = AbsProduct /\ SignedProduct' = SignedProduct
  BY SameOperands
<1>6. ASSUME mul_pm' \in Nat, Radix2Inv' PROVE MulInv'
  BY <1>1, <1>2, <1>5, <1>6 DEF MulInv
<1> HIDE DEF a, b
<1>7. CASE mul_count # 0
  <2>1. /\ mul_pm' = AddAndShift(a, mul_pm) /\ mul_count' = mul_count - 1
        /\ mul_negate_pending' = IF mul_count = 1 THEN mul_neg ELSE mul_negate_pending
    BY <1>1, <1>2, <1>7 DEF Radix2Step, AddAndShift
  <2>2. PICK c \in Nat : mul_count = c + 1 /\ mul_count - 1 = c
    <3>1. mul_count - 1 \in Nat /\ mul_count = (mul_count - 1) + 1
      BY <1>2, <1>3, <1>7
    <3>2. QED
      BY <3>1
  <2> DEFINE h == Pow2[c]
  <2>3. h \in Nat \ {0} /\ Pow2[mul_count] = 2 * h
    BY <2>2, PowLemma
  <2>4. Added(a, b, 2 * h, mul_pm)
    BY <1>2, <1>7, <2>3 DEF Radix2Inv, a, b
  <2> HIDE DEF h
  <2>5. Added(a, b, h, mul_pm')
    BY <1>3, <2>1, <2>3, <2>4, AddedGain
  <2>6. mul_pm' \in Nat
    BY <1>3, <2>3, <2>5, AddedType
  <2>7. CASE c = 0
    <3>1. h = 1
      BY <2>7, PowLemma DEF h
    <3>2. mul_pm' = AbsProduct
      <4>1. Added(a, b, 1, mul_pm')
        BY <2>5, <3>1
      <4>2. mul_pm' = a * b
        BY <1>3, <4>1, AddedLast
      <4>3. QED
        BY <4>2 DEF AbsProduct, a, b
    <3>3. mul_count' = 0 /\ mul_negate_pending' = mul_neg
      BY <2>1, <2>2, <2>7
    <3>4. Radix2Inv'
      BY <1>1, <1>2, <1>4, <1>5, <3>2, <3>3 DEF Radix2Inv, mul_busy, IsProduct
    <3>5. QED
      BY <1>6, <2>6, <3>4
  <2>8. CASE c # 0
    <3>1. mul_count' = c /\ mul_count' # 0 /\ Pow2[mul_count'] = h
      BY <2>1, <2>2, <2>8 DEF h
    <3>2. Added(mul_abs1', mul_abs2', Pow2[mul_count'], mul_pm')
      BY <1>5, <2>5, <3>1
    <3>3. Added(mul_abs1, mul_abs2, Pow2[mul_count], mul_pm)'
      BY <3>2 DEF Added, AddedAt
    <3>4. Radix2Inv'
      BY <3>1, <3>3 DEF Radix2Inv, mul_busy
    <3>5. QED
      BY <1>6, <2>6, <3>4
  <2>9. QED
    BY <2>7, <2>8
<1>8. CASE mul_count = 0 /\ mul_negate_pending
  <2>1. mul_pm' = (-mul_pm) % (M * M) /\ ~mul_negate_pending' /\ mul_count' = mul_count
    BY <1>1, <1>8 DEF Radix2Step
  <2>2. mul_neg /\ mul_pm = AbsProduct
    BY <1>2, <1>8 DEF Radix2Inv
  <2>3. mul_pm' = SignedProduct % (M * M) /\ funct' # "mul"
    BY <1>4, <2>1, <2>2
  <2>4. mul_pm' \in Nat
    <3>1. M * M \in Nat \ {0} /\ -mul_pm \in Int
      BY <1>2, <1>3
    <3>2. (-mul_pm) % (M * M) \in 0 .. M * M - 1
      BY <3>1, DivLemma
    <3>3. QED
      BY <2>1, <3>1, <3>2
  <2>5. IsProduct(mul_pm)'
    BY <1>5, <2>3 DEF IsProduct, StandsFor
  <2>6. Radix2Inv'
    BY <1>8, <2>1, <2>5 DEF Radix2Inv, mul_busy
  <2>7. QED
    BY <1>6, <2>4, <2>6
<1>9. CASE mul_count = 0 /\ ~mul_negate_pending
  <2>1. UNCHANGED << mul_pm, mul_count, mul_negate_pending >>
    BY <1>1, <1>9 DEF Radix2Step
  <2>2. IsProduct(mul_pm)
    BY <1>1, <1>2, <1>9 DEF Radix2Inv, mul_busy
  <2>3. IsProduct(mul_pm)'
    BY <1>5, <2>1, <2>2 DEF IsProduct, StandsFor
  <2>4. Radix2Inv'
    BY <1>9, <2>1, <2>3 DEF Radix2Inv
  <2>5. QED
    BY <1>2, <1>6, <2>1, <2>4
<1>10. QED
  BY <1>7, <1>8, <1>9

(* A digit of the radix-4 multiplier.                                      *)
LEMMA BoothStepLemma ==
  ASSUME ControlInv, MulFlags, MulInv, state = "WAIT", isMul, build = "radix4", MulStep,
         UNCHANGED << build, funct, rs1, rs2 >>, mul_count # 0
  PROVE  /\ mul_pm' \in Nat /\ Radix4Inv'
<1> DEFINE a == mul_abs1
<1> DEFINE b == mul_abs2
<1>1. BoothStep /\ mul_neg' = mul_neg
  BY DEF MulStep, Radix4Step
<1>2. /\ mul_pm \in Nat /\ mul_mcand = a
      /\ mul_booth_prev \in 0 .. 1
      /\ Booth(a, b, Weight(mul_count), mul_acc, mul_pm, mul_booth_prev)
      /\ mul_count \in 0 .. W /\ W \in Nat /\ ~mul_fixup /\ ~mul_negate_pending
      /\ mul_negate_pending \in BOOLEAN
  BY WideLemma DEF MulInv, Radix4Inv, MulFlags
<1>3. a \in Nat /\ b \in Nat
  BY MulOperands
<1>4. mul_abs1' = a /\ mul_abs2' = b
  BY SameOperands
<1> HIDE DEF a, b
<1>5. PICK c \in Nat : mul_count = c + 1 /\ mul_count - 1 = c
  <2>1. mul_count - 1 \in Nat /\ mul_count = (mul_count - 1) + 1
    BY <1>2
  <2>2. QED
    BY <2>1
<1>6. Weight(mul_count) = 4 * Weight(c) /\ Weight(c) \in Nat \ {0}
  <2>1. 2 * mul_count = (2 * c + 1) + 1 /\ 2 * c \in Nat /\ 2 * c + 1 \in Nat
    BY <1>5
  <2>2. /\ Pow2[(2 * c + 1) + 1] = 2 * Pow2[2 * c + 1] /\ Pow2[2 * c + 1] = 2 * Pow2[2 * c]
        /\ Pow2[2 * c] \in Nat \ {0}
    BY <2>1, PowLemma
  <2>3. QED
    BY <2>1, <2>2 DEF Weight
<1>7. /\ Booth(a, b, Weight(c), booth_shifted_acc, BoothPm, Bit(mul_pm, 1))
      /\ BoothPm \in Nat /\ Bit(mul_pm, 1) \in 0 .. 1
  <2> DEFINE g == Weight(c)
  <2>1. g \in Nat \ {0} /\ Booth(mul_mcand, b, 4 * g, mul_acc, mul_pm, mul_booth_prev)
    BY <1>2, <1>6
  <2> HIDE DEF g
  <2>2. mul_mcand \in Nat
    BY <1>2, <1>3
  <2>3. /\ Booth(mul_mcand, b, g, booth_shifted_acc, BoothPm, Bit(mul_pm, 1))
        /\ BoothPm \in Nat /\ Bit(mul_pm, 1) \in 0 .. 1
    BY <1>2, <1>3, <2>1, <2>2, BoothGain
  <2>4. QED
    BY <1>2, <2>3 DEF g
<1>8. /\ mul_acc' = booth_shifted_acc /\ mul_pm' = BoothPm /\ mul_booth_prev' = Bit(mul_pm, 1)
      /\ mul_count' = c /\ (mul_fixup' <=> mul_count = 1) /\ ~mul_negate_pending'
  BY <1>1, <1>2, <1>5 DEF BoothStep, BoothPm
<1>9. mul_acc' \in Int
  <2>1. Booth(a, b, Weight(c), booth_shifted_acc, BoothPm, Bit(mul_pm, 1))
    BY <1>7
  <2>2. PICK q \in Nat \ {0}, l \in Nat, r \in Nat, s \in Int, h \in Nat, e \in Int :
          BoothAt(a, b, Weight(c), q, l, r, s, h, e, booth_shifted_acc, BoothPm, Bit(mul_pm, 1))
    BY <2>1 DEF Booth
  <2>3. Wrapped(s, booth_shifted_acc)
    BY <2>2 DEF BoothAt
  <2>4. M \in Nat
    BY WideLemma
  <2>5. QED
    BY <1>8, <2>3, <2>4 DEF Wrapped
<1>10. Booth(mul_abs1', mul_abs2', Weight(mul_count'), mul_acc', mul_pm', mul_booth_prev')
  BY <1>4, <1>7, <1>8
<1>11. Booth(mul_abs1, mul_abs2, Weight(mul_count), mul_acc, mul_pm, mul_booth_prev)'
  BY <1>10 DEF Booth, BoothAt, Wrapped, Weight, Half
<1>12. mul_count' = 0 => mul_fixup'
  BY <1>5, <1>8
<1>13. Radix4Inv'
  BY <1>7, <1>8, <1>9, <1>11, <1>12 DEF Radix4Inv, mul_busy
<1>14. QED
  BY <1>7, <1>8, <1>13

(* Its fixup, which adds the digit that the last bit leaves.               *)
LEMMA BoothFixupLemma ==
  ASSUME ControlInv, MulFlags, MulInv, state = "WAIT", isMul, build = "radix4", MulStep,
         UNCHANGED << build, funct, rs1, rs2 >>, mul_count = 0, mul_fixup
  PROVE  /\ mul_pm' \in Nat /\ Radix4Inv'
<1> DEFINE a == mul_abs1
<1> DEFINE b == mul_abs2
<1> DEFINE z == (mul_acc + mul_booth_prev * mul_mcand) % (2 * M)
<1>1. BoothFixup
  BY DEF MulStep, Radix4Step
<1>2. /\ mul_pm \in Nat /\ mul_mcand = a /\ mul_booth_prev \in 0 .. 1 /\ mul_acc \in Int
      /\ (mul_neg <=> ~(mul_sign1 <=> mul_sign2)) /\ mul_neg \in BOOLEAN
      /\ Booth(a, b, Weight(mul_count), mul_acc, mul_pm, mul_booth_prev)
  BY DEF MulInv, Radix4Inv, MulFlags
<1>3. a \in 0 .. M - 1 /\ b \in 0 .. M - 1 /\ M \in Nat \ {0}
  BY MulOperands, WideLemma
<1>4. /\ AbsProduct \in Nat /\ AbsProduct = a * b
      /\ ~mul_neg => IsProduct(AbsProduct) /\ SignedProduct = AbsProduct
      /\ mul_neg => SignedProduct = -AbsProduct /\ funct # "mul"
  BY <1>2, PlainProduct DEF AbsProduct
<1>5. /\ mul_abs1' = a /\ mul_abs2' = b /\ AbsProduct' = AbsProduct /\ SignedProduct' = SignedProduct
      /\ (BoothOverflows' <=> BoothOverflows)
  BY SameOperands
<1>6. /\ mul_acc' = z /\ mul_pm' = (z % M) * M + (mul_pm % M) /\ ~mul_fixup' /\ mul_fixup' \in BOOLEAN
      /\ (mul_negate_pending' <=> mul_neg) /\ mul_count' = 0 /\ mul_booth_prev' = mul_booth_prev
  <2>1. mul_acc' = z /\ mul_pm' = (z % M) * M + (mul_pm % M) /\ mul_booth_prev' = mul_booth_prev
    <3> DEFINE x == mul_acc + mul_booth_prev * mul_mcand
    <3>1. mul_acc' = z /\ mul_pm' = (x % M) * M + (mul_pm % M) /\ mul_booth_prev' = mul_booth_prev
      BY <1>1 DEF BoothFixup, AccM
    <3>2. x \in Int
      <4>1. mul_mcand \in Int
        BY <1>2, <1>3
      <4>2. mul_booth_prev * mul_mcand \in Int
        BY <1>2, <4>1
      <4>3. QED
        BY <1>2, <4>2
    <3>3. x % M = z % M
      <4>1. z = x % (2 * M)
        OBVIOUS
      <4> HIDE DEF x, z
      <4> DEFINE k == x \div (2 * M)
      <4>2. x = (2 * M) * k + z /\ k \in Int /\ z \in 0 .. 2 * M - 1
        BY <1>3, <3>2, <4>1, 2 * M \in Nat \ {0}, DivLemma
      <4> HIDE DEF k
      <4>3. Apart(x, z, M, 2 * k) /\ z \in Int /\ 2 * k \in Int
        BY <1>3, <4>2 DEF Apart
      <4>4. QED
        BY <1>3, <3>2, <4>3, ModShift
    <3>4. QED
      BY <3>1, <3>3
  <2>2. mul_fixup' = FALSE /\ mul_negate_pending' = mul_neg /\ mul_count' = mul_count
    BY <1>1 DEF BoothFixup
  <2>3. ~mul_fixup' /\ mul_fixup' \in BOOLEAN
    BY <2>2
  <2>4. mul_negate_pending' <=> mul_neg
    BY <2>2
  <2>5. QED
    BY <2>1, <2>2, <2>3, <2>4
<1>7. BoothOverflows \/ a < Half \/ funct = "mul"
  <2>1. a \in Int /\ Half \in Int
    BY <1>3, WidthLemma
  <2>2. ~(a < Half) => a >= Half
    BY <2>1
  <2>3. QED
    BY <2>2 DEF BoothOverflows, Half
<1> HIDE DEF a, b
<1>8. Weight(mul_count) = 1
  <2>1. 2 * mul_count = 0
    OBVIOUS
  <2>2. QED
    BY <2>1, PowLemma DEF Weight
<1>9. /\ mul_pm % M = (a * b) % M
      /\ a < Half => z \in 0 .. M - 1 /\ Halves(z, mul_pm) = a * b
  <2>1. Booth(a, b, 1, mul_acc, mul_pm, mul_booth_prev)
    BY <1>2, <1>8
  <2>2. /\ a \in 0 .. M - 1 /\ b \in 0 .. M - 1 /\ mul_acc \in Int /\ mul_pm \in Nat
        /\ mul_booth_prev \in 0 .. 1
    BY <1>2, <1>3
  <2>3. /\ mul_pm % M = (a * b) % M
        /\ a < Half => /\ (mul_acc + mul_booth_prev * a) % (2 * M) \in 0 .. M - 1
                       /\ Halves((mul_acc + mul_booth_prev * a) % (2 * M), mul_pm) = a * b
    BY <2>1, <2>2, BoothLast, ZenonT(60)
  <2>4. QED
    BY <1>2, <2>3
<1>10. z % M \in Nat /\ z \in Int /\ mul_pm % M \in 0 .. M - 1
  <2>1. mul_acc + mul_booth_prev * mul_mcand \in Int
    <3>1. mul_mcand \in Int
      BY <1>2, <1>3
    <3>2. mul_booth_prev * mul_mcand \in Int
      BY <1>2, <3>1
    <3>3. QED
      BY <1>2, <3>2
  <2>2. 2 * M \in Nat \ {0}
    BY <1>3
  <2>3. z \in Int
    BY <2>1, <2>2, DivLemma
  <2> HIDE DEF z
  <2>4. z % M \in 0 .. M - 1
    BY <1>3, <2>3, DivLemma
  <2>5. mul_pm % M \in 0 .. M - 1
    BY <1>2, <1>3, mul_pm \in Int, DivLemma
  <2>6. QED
    BY <1>3, <2>3, <2>4, <2>5
<1> HIDE DEF z
<1> DEFINE pm == (z % M) * M + (mul_pm % M)
<1>11. pm \in Nat /\ pm % M = mul_pm % M
  <2> DEFINE k == z % M
  <2> DEFINE low == mul_pm % M
  <2>1. k \in Nat /\ low \in 0 .. M - 1
    BY <1>10
  <2> HIDE DEF k, low
  <2> DEFINE x == k * M + low
  <2>2. x = M * k + low /\ x \in Nat /\ k \in Int /\ low \in Int
    <3>1. k * M = M * k /\ k * M \in Nat
      BY <1>3, <2>1
    <3>2. QED
      BY <1>3, <2>1, <3>1
  <2> HIDE DEF x
  <2>3. Splits(x, M, k, low) /\ x \in Int
    BY <2>1, <2>2 DEF Splits
  <2>4. x % M = low
    BY <1>3, <2>2, <2>3, DivUnique
  <2>5. pm = x
    BY DEF x, k, low
  <2>6. QED
    BY <2>2, <2>4, <2>5 DEF low
<1>12. a < Half => z % M = z /\ pm = AbsProduct /\ Halves(z % M, pm) = AbsProduct
  <2>1. SUFFICES ASSUME a < Half PROVE z % M = z /\ pm = AbsProduct /\ Halves(z % M, pm) = AbsProduct
    OBVIOUS
  <2>2. z % M = z
    BY <1>3, <1>9, <2>1, SmallMod
  <2>3. QED
    BY <1>4, <1>9, <1>11, <2>1, <2>2 DEF Halves
<1>13. funct = "mul" => IsProduct(pm)
  <2>1. SUFFICES ASSUME funct = "mul" PROVE IsProduct(pm)
    OBVIOUS
  <2>2. SignedProduct = a * b
    BY <1>4, <2>1
  <2> HIDE DEF pm
  <2>3. QED
    BY <1>9, <1>11, <2>1, <2>2 DEF IsProduct, StandsFor
<1> HIDE DEF pm
<1>14. mul_pm' = pm
  BY <1>6 DEF pm
<1>15. BoothOverflows \/ mul_neg \/ IsProduct(pm)
  BY <1>4, <1>7, <1>12, <1>13
<1>16. mul_neg => BoothOverflows \/ Halves(z % M, pm) = AbsProduct
  BY <1>4, <1>7, <1>12
<1>17. (BoothOverflows \/ IsProduct(mul_pm))' <=> BoothOverflows \/ IsProduct(pm)
  BY <1>5, <1>14 DEF IsProduct, StandsFor
<1>18. Halves(mul_acc % M, mul_pm)' = Halves(z % M, pm)
  BY <1>6, <1>14 DEF Halves
<1>19. Radix4Inv'
  <2>1. mul_booth_prev' \in 0 .. 1 /\ mul_acc' \in Int /\ mul_count' = 0 /\ ~mul_fixup'
    BY <1>2, <1>6, <1>10
  <2>2. mul_negate_pending' =>
          mul_neg' /\ (BoothOverflows \/ Halves(mul_acc % M, mul_pm) = AbsProduct)'
    <3>1. mul_neg' <=> mul_neg
      BY DEF MulStep
    <3>2. QED
      BY <1>5, <1>6, <1>16, <1>18, <3>1
  <2>3. ~mul_busy' => (BoothOverflows \/ IsProduct(mul_pm))'
    BY <1>6, <1>15, <1>17 DEF mul_busy
  <2>4. QED
    BY <2>1, <2>2, <2>3 DEF Radix4Inv
<1>20. QED
  BY <1>11, <1>14, <1>19

(* Its negation.                                                           *)
LEMMA BoothNegateLemma ==
  ASSUME ControlInv, MulFlags, MulInv, state = "WAIT", isMul, build = "radix4", MulStep,
         UNCHANGED << build, funct, rs1, rs2 >>, mul_count = 0, ~mul_fixup
  PROVE  /\ mul_pm' \in Nat /\ Radix4Inv'
<1>1. Radix4Step
  BY DEF MulStep
<1>2. /\ mul_pm \in Nat /\ Radix4Inv /\ mul_booth_prev \in 0 .. 1 /\ mul_acc \in Int
      /\ (mul_neg <=> ~(mul_sign1 <=> mul_sign2)) /\ mul_neg \in BOOLEAN
      /\ mul_negate_pending \in BOOLEAN /\ mul_fixup \in BOOLEAN
  BY DEF MulInv, Radix4Inv, MulFlags
<1>3. /\ AbsProduct' = AbsProduct /\ SignedProduct' = SignedProduct
      /\ (BoothOverflows' <=> BoothOverflows) /\ mul_abs1' = mul_abs1 /\ mul_abs2' = mul_abs2
  BY SameOperands
<1>4. mul_neg => SignedProduct = -AbsProduct /\ funct # "mul"
  BY <1>2, PlainProduct
<1>5. M * M \in Nat \ {0} /\ M \in Nat \ {0}
  BY WideLemma
<1>6. CASE mul_negate_pending
  <2> DEFINE x == Halves(mul_acc % M, mul_pm)
  <2>1. /\ mul_pm' = (-((mul_acc % M) * M + (mul_pm % M))) % (M * M)
        /\ ~mul_negate_pending' /\ mul_negate_pending' \in BOOLEAN
        /\ UNCHANGED << mul_acc, mul_count, mul_booth_prev, mul_fixup >>
    BY <1>1, <1>6 DEF Radix4Step, BoothNegate
  <2>2. mul_pm' = (-x) % (M * M)
    BY <2>1 DEF Halves
  <2>3. mul_neg /\ (BoothOverflows \/ x = AbsProduct)
    BY <1>2, <1>6 DEF Radix4Inv
  <2>4. x \in Int
    <3> DEFINE k == mul_acc % M
    <3> DEFINE low == mul_pm % M
    <3>1. k \in Int /\ low \in Int
      BY <1>2, <1>5
    <3> HIDE DEF k, low
    <3>2. k * M + low \in Int
      BY <1>5, <3>1
    <3>3. QED
      BY <3>2 DEF Halves, k, low
  <2> HIDE DEF x
  <2>5. mul_pm' \in Nat
    <3> DEFINE n == M * M
    <3> DEFINE y == -x
    <3>1. n \in Nat \ {0} /\ y \in Int
      BY <1>5, <2>4
    <3> HIDE DEF n, y
    <3>2. y % n \in 0 .. n - 1
      BY <3>1, DivLemma
    <3>3. y % n \in Nat
      BY <3>1, <3>2
    <3>4. QED
      BY <2>2, <3>3 DEF n, y
  <2>6. BoothOverflows \/ mul_pm' = SignedProduct % (M * M)
    BY <1>4, <2>2, <2>3
  <2>7. BoothOverflows' \/ IsProduct(mul_pm)'
    BY <1>3, <1>4, <2>3, <2>6 DEF IsProduct, StandsFor
  <2>8. Radix4Inv'
    BY <1>2, <2>1, <2>7 DEF Radix4Inv
  <2>9. QED
    BY <2>5, <2>8
<1>7. CASE ~mul_negate_pending
  <2>1. UNCHANGED << mul_pm, mul_acc, mul_booth_prev, mul_count, mul_fixup, mul_negate_pending >>
    BY <1>1, <1>7 DEF Radix4Step
  <2>2. BoothOverflows \/ IsProduct(mul_pm)
    BY <1>2, <1>7 DEF Radix4Inv, mul_busy
  <2>3. BoothOverflows' \/ IsProduct(mul_pm)'
    BY <1>3, <2>1, <2>2 DEF IsProduct, StandsFor
  <2>4. Radix4Inv'
    BY <1>2, <1>7, <2>1, <2>3 DEF Radix4Inv
  <2>5. QED
    BY <1>2, <2>1, <2>4
<1>8. QED
  BY <1>6, <1>7

(* Each clock of either multiplier.                                        *)
LEMMA MulStepKeeps ==
  ASSUME ControlInv, MulFlags, MulInv, state = "WAIT", isMul, MulStep,
         UNCHANGED << build, funct, rs1, rs2 >>
  PROVE  MulInv'
<1>1. CASE build # "radix4"
  BY <1>1, Radix2Lemma
<1>2. CASE build = "radix4"
  <2>1. mul_mcand' = mul_mcand /\ mul_neg' = mul_neg
    BY DEF MulStep
  <2>2. mul_mcand = mul_abs1 /\ (mul_neg <=> ~(mul_sign1 <=> mul_sign2))
    BY DEF MulInv
  <2>3. (mul_sign1' <=> mul_sign1) /\ (mul_sign2' <=> mul_sign2) /\ mul_abs1' = mul_abs1
    BY SameOperands
  <2>4. mul_pm' \in Nat /\ Radix4Inv'
    BY <1>2, BoothStepLemma, BoothFixupLemma, BoothNegateLemma DEF MulFlags
  <2>5. QED
    BY <1>2, <2>1, <2>2, <2>3, <2>4 DEF MulInv
<1>3. QED
  BY <1>1, <1>2

(* Loaded, the multiplier register holds the multiplier.                   *)
LEMMA MulStarts ==
  ASSUME ControlInv, isMul, MulLoad, UNCHANGED << build, funct, rs1, rs2 >>
  PROVE  MulInv'
<1> DEFINE a == mul_abs1
<1> DEFINE b == mul_abs2
<1>1. /\ mul_pm' = b /\ mul_acc' = 0 /\ mul_mcand' = a /\ mul_booth_prev' = 0
      /\ mul_count' = (IF build = "radix4" THEN W \div 2 ELSE W)
      /\ ~mul_negate_pending' /\ ~mul_fixup'
      /\ (mul_neg' <=> ~(mul_sign1 <=> mul_sign2))
  <2>1. mul_sign1 \in BOOLEAN /\ mul_sign2 \in BOOLEAN
    BY MulOperands
  <2>2. mul_neg' = (mul_sign1 # mul_sign2)
    BY DEF MulLoad
  <2>3. mul_neg' <=> ~(mul_sign1 <=> mul_sign2)
    BY <2>1, <2>2
  <2>4. QED
    BY <2>3 DEF MulLoad
<1>2. a \in Nat /\ b \in 0 .. M - 1 /\ b \in Nat
  BY MulOperands, WideLemma
<1>3. mul_abs1' = a /\ mul_abs2' = b /\ (mul_sign1' <=> mul_sign1) /\ (mul_sign2' <=> mul_sign2)
  BY SameOperands
<1> HIDE DEF a, b
<1>4. CASE build = "radix4"
  <2>1. Weight(W \div 2) = M /\ W \div 2 # 0
    <3>1. W \in Nat /\ W >= 2 /\ W % 2 = 0 /\ Pow2[W] = M
      BY WidthLemma
    <3>2. \A n \in Nat : n >= 2 /\ n % 2 = 0 => 2 * (n \div 2) = n /\ n \div 2 # 0
      OBVIOUS
    <3>3. 2 * (W \div 2) = W /\ W \div 2 # 0
      BY <3>1, <3>2
    <3>4. QED
      BY <3>1, <3>3 DEF Weight
  <2>2. Booth(a, b, M, 0, b, 0)
    BY <1>2, BoothFirst
  <2>3. Weight(mul_count') = M /\ mul_count' # 0
    BY <1>1, <1>4, <2>1
  <2>4. Booth(mul_abs1', mul_abs2', Weight(mul_count'), mul_acc', mul_pm', mul_booth_prev')
    BY <1>1, <1>3, <2>2, <2>3
  <2>5. Booth(mul_abs1, mul_abs2, Weight(mul_count), mul_acc, mul_pm, mul_booth_prev)'
    BY <2>4 DEF Booth, BoothAt, Wrapped, Weight, Half
  <2>6. Radix4Inv'
    BY <1>1, <2>3, <2>5 DEF Radix4Inv, mul_busy
  <2>7. QED
    BY <1>1, <1>2, <1>3, <1>4, <2>6 DEF MulInv
<1>5. CASE build # "radix4"
  <2>1. mul_count' = W /\ mul_count' # 0 /\ Pow2[mul_count'] = M
    BY <1>1, <1>5, WidthLemma
  <2>2. Added(a, b, M, b)
    BY <1>2, AddedFirst
  <2>3. Added(mul_abs1', mul_abs2', Pow2[mul_count'], mul_pm')
    BY <1>1, <1>3, <2>1, <2>2
  <2>4. Added(mul_abs1, mul_abs2, Pow2[mul_count], mul_pm)'
    BY <2>3 DEF Added, AddedAt
  <2>5. Radix2Inv'
    BY <1>1, <2>1, <2>4 DEF Radix2Inv, mul_busy
  <2>6. QED
    BY <1>1, <1>2, <1>3, <1>5, <2>5 DEF MulInv
<1>6. QED
  BY <1>4, <1>5

(* The upper half of a product modulo its width.                           *)
LEMMA HighHalf ==
  ASSUME NEW x \in Int
  PROVE  (x % (M * M)) \div M = (x \div M) % M /\ (x % (M * M)) % M = x % M
<1> DEFINE n == M * M
<1> DEFINE y == x % n
<1> DEFINE k == x \div n
<1> DEFINE q == y \div M
<1> DEFINE r == y % M
<1>1. M \in Nat \ {0} /\ n \in Nat \ {0}
  BY WideLemma
<1>2. x = n * k + y /\ k \in Int /\ y \in 0 .. n - 1 /\ y \in Int
  <2> HIDE DEF n
  <2>1. x = n * k + y /\ k \in Int /\ y \in 0 .. n - 1
    BY <1>1, DivLemma
  <2>2. QED
    BY <1>1, <2>1
<1> HIDE DEF y, k
<1>3. y = M * q + r /\ q \in Int /\ r \in 0 .. M - 1 /\ r \in Int
  <2>1. y = M * q + r /\ q \in Int /\ r \in 0 .. M - 1
    BY <1>1, <1>2, DivLemma
  <2>2. QED
    BY <1>1, <2>1
<1> HIDE DEF q, r
<1>4. q \in 0 .. M - 1
  <2>1. y <= n - 1 /\ n = M * M /\ y >= 0
    BY <1>1, <1>2
  <2>2. q >= 0
    <3>1. SUFFICES ASSUME q <= -1 PROVE FALSE
      BY <1>3
    <3>2. M * q <= M * (-1)
      BY <1>1, <1>3, <3>1
    <3>3. QED
      BY <1>1, <1>3, <2>1, <3>2
  <2>3. q <= M - 1
    <3>1. SUFFICES ASSUME q >= M PROVE FALSE
      BY <1>1, <1>3
    <3>2. M * q >= M * M
      BY <1>1, <1>3, <3>1
    <3> DEFINE z == M * q
    <3>3. z >= n /\ z \in Int /\ y = z + r
      BY <1>1, <1>3, <2>1, <3>2
    <3> HIDE DEF z, n
    <3>4. QED
      BY <1>1, <1>3, <2>1, <3>3
  <2>4. QED
    BY <1>1, <1>3, <2>2, <2>3
<1>5. x = M * (M * k + q) + r
  BY <1>1, <1>2, <1>3
<1> DEFINE p == M * k + q
<1>6. p \in Int /\ x = M * p + r
  BY <1>1, <1>2, <1>3, <1>5
<1>7. p % M = q
  <2>1. Splits(p, M, k, q)
    BY <1>4 DEF Splits
  <2> HIDE DEF p
  <2>2. QED
    BY <1>1, <1>2, <1>3, <1>6, <2>1, DivUnique
<1> HIDE DEF p
<1>8. x \div M = p /\ x % M = r
  <2>1. Splits(x, M, p, r)
    BY <1>3, <1>6 DEF Splits
  <2>2. QED
    BY <1>1, <1>3, <1>6, <2>1, DivUnique
<1>9. QED
  BY <1>7, <1>8 DEF q, r, y

(* The product the ISA means, signed as the instruction says.              *)
IsaProduct ==
  (IF funct \in {"mulh", "mulhsu"} THEN Signed(rs1) ELSE rs1) *
  (IF funct = "mulh" THEN Signed(rs2) ELSE rs2)

(* The ISA's result is a half of one signed product.                       *)
LEMMA IsaProductLemma ==
  ASSUME ControlInv, isMul
  PROVE  /\ IsaProduct \in Int
         /\ IsaResult = IF funct = "mul" THEN IsaProduct % M ELSE (IsaProduct \div M) % M
<1>1. M \in Nat \ {0} /\ rs1 \in 0 .. M - 1 /\ rs2 \in 0 .. M - 1 /\ Half \in Nat
  BY WidthLemma DEF ControlInv
<1>2. Signed(rs1) \in Int /\ Signed(rs2) \in Int
  <2>1. Signed(rs1) \in -Half .. Half - 1 /\ Signed(rs2) \in -Half .. Half - 1
    BY <1>1, SignLemma
  <2>2. QED
    BY <1>1, <2>1
<1>3. IsaProduct \in Int
  <2> DEFINE x == IF funct \in {"mulh", "mulhsu"} THEN Signed(rs1) ELSE rs1
  <2> DEFINE y == IF funct = "mulh" THEN Signed(rs2) ELSE rs2
  <2>1. x \in Int /\ y \in Int
    BY <1>1, <1>2
  <2> HIDE DEF x, y
  <2>2. x * y \in Int
    BY <2>1
  <2>3. QED
    BY <2>2 DEF x, y, IsaProduct
<1>4. CASE funct = "mul"
  BY <1>3, <1>4 DEF IsaProduct, IsaResult
<1>5. CASE funct = "mulh"
  BY <1>3, <1>5 DEF IsaProduct, IsaResult
<1>6. CASE funct = "mulhsu"
  BY <1>3, <1>6 DEF IsaProduct, IsaResult
<1>7. CASE funct = "mulhu"
  <2>1. IsaProduct = rs1 * rs2 /\ IsaResult = (rs1 * rs2) \div M
    BY <1>7 DEF IsaProduct, IsaResult
  <2>2. (rs1 * rs2) \div M \in 0 .. M - 1
    <3> DEFINE x == rs1 * rs2
    <3> DEFINE q == x \div M
    <3> DEFINE r == x % M
    <3>1. x \in Nat /\ x <= (M - 1) * rs2 /\ (M - 1) * rs2 <= (M - 1) * M
      BY <1>1
    <3>2. x = M * q + r /\ q \in Int /\ r \in 0 .. M - 1
      BY <1>1, <3>1, x \in Int, DivLemma
    <3> HIDE DEF q, r
    <3>3. x <= M * (M - 1)
      <4>1. (M - 1) * rs2 \in Int /\ (M - 1) * M \in Int /\ (M - 1) * M = M * (M - 1)
        BY <1>1
      <4>2. QED
        BY <3>1, <4>1
    <3> HIDE DEF x
    <3>4. q >= 0
      <4>1. SUFFICES ASSUME q <= -1 PROVE FALSE
        BY <3>2
      <4>2. M * q <= M * (-1)
        BY <1>1, <3>2, <4>1
      <4>3. QED
        BY <1>1, <3>1, <3>2, <4>2
    <3>5. q <= M - 1
      <4>1. SUFFICES ASSUME q >= M PROVE FALSE
        BY <1>1, <3>2
      <4>2. M * q >= M * M /\ M * M = M * (M - 1) + M
        BY <1>1, <3>2, <4>1
      <4> DEFINE z == M * q
      <4> DEFINE y == M * (M - 1)
      <4>3. z >= y + M /\ z \in Int /\ y \in Int /\ x = z + r /\ x <= y
        BY <1>1, <3>2, <3>3, <4>2
      <4> HIDE DEF y, z
      <4>4. QED
        BY <1>1, <3>1, <3>2, <4>3
    <3>6. q \in 0 .. M - 1
      BY <1>1, <3>2, <3>4, <3>5
    <3>7. QED
      BY <3>6 DEF q, x
  <2>3. ((rs1 * rs2) \div M) % M = (rs1 * rs2) \div M
    BY <1>1, <2>2, SmallMod
  <2>4. QED
    BY <1>3, <1>7, <2>1, <2>3
<1>8. QED
  BY <1>4, <1>5, <1>6, <1>7 DEF isMul

(* So it is of whatever stands for that product.                           *)
LEMMA ProductLemma ==
  ASSUME ControlInv, isMul, NEW x \in Int, StandsFor(funct, IsaProduct, x)
  PROVE  (IF funct = "mul" THEN x % M ELSE x \div M) = IsaResult
<1>1. IsaProduct \in Int /\ IsaResult = IF funct = "mul" THEN IsaProduct % M ELSE (IsaProduct \div M) % M
  BY IsaProductLemma
<1>2. CASE funct = "mul"
  BY <1>1, <1>2 DEF StandsFor
<1>3. CASE funct # "mul"
  <2>1. x = IsaProduct % (M * M)
    BY <1>3 DEF StandsFor
  <2>2. (IsaProduct % (M * M)) \div M = (IsaProduct \div M) % M
    BY <1>1, HighHalf
  <2>3. QED
    BY <1>1, <1>3, <2>1, <2>2
<1>4. QED
  BY <1>2, <1>3

(* The absolute values with their signs multiply to it.                    *)
LEMMA SignsLemma ==
  ASSUME ControlInv, isMul
  PROVE  SignedProduct = IsaProduct
<1> DEFINE s1 == Signed(rs1)
<1> DEFINE s2 == Signed(rs2)
<1>1. rs1 \in 0 .. M - 1 /\ rs2 \in 0 .. M - 1 /\ rs1 \in Int /\ rs2 \in Int
  BY WideLemma DEF ControlInv
<1>2. /\ s1 < 0 <=> Bit(rs1, W - 1) = 1
      /\ s1 < 0 => Neg(rs1) = -s1
      /\ s1 >= 0 => s1 = rs1
      /\ s1 \in Int
  BY <1>1, AbsLemma, WidthLemma
<1>3. /\ s2 < 0 <=> Bit(rs2, W - 1) = 1
      /\ s2 < 0 => Neg(rs2) = -s2
      /\ s2 >= 0 => s2 = rs2
      /\ s2 \in Int
  BY <1>1, AbsLemma, WidthLemma
<1> HIDE DEF s1, s2
<1> DEFINE x == IF funct \in {"mulh", "mulhsu"} THEN s1 ELSE rs1
<1> DEFINE y == IF funct = "mulh" THEN s2 ELSE rs2
<1>4. /\ mul_sign1 <=> x < 0
      /\ mul_abs1 = IF mul_sign1 THEN -x ELSE x
      /\ x \in Int
  BY <1>1, <1>2 DEF mul_sign1, mul_abs1
<1>5. /\ mul_sign2 <=> y < 0
      /\ mul_abs2 = IF mul_sign2 THEN -y ELSE y
      /\ y \in Int
  BY <1>1, <1>3 DEF mul_sign2, mul_abs2
<1>6. IsaProduct = x * y
  BY DEF IsaProduct, s1, s2
<1>7. mul_sign1 \in BOOLEAN /\ mul_sign2 \in BOOLEAN
  BY MulOperands
<1> HIDE DEF x, y
<1>8. (-x) * (-y) = x * y /\ -((-x) * y) = x * y /\ -(x * (-y)) = x * y
  BY <1>4, <1>5
<1>9. QED
  BY <1>4, <1>5, <1>6, <1>7, <1>8 DEF SignedProduct

(* What an idle multiplier hands to write-back.                            *)
LEMMA SerialWrites ==
  ASSUME ControlInv, MulFlags, MulInv, state = "WAIT", isMul, ~mul_busy
  PROVE  BoothOverflows \/ aluOut = IsaResult
<1>1. Serial
  BY DEF ControlInv, needToWait, isMul, isDivide
<1>2. aluOut = IF funct = "mul" THEN mul_pm % M ELSE mul_pm \div M
  BY <1>1 DEF aluOut, isShiftOp, isMul, isDivide, MulResult, Product
<1>3. mul_pm \in Int /\ (BoothOverflows \/ IsProduct(mul_pm))
  BY DEF MulInv, Radix2Inv, Radix4Inv
<1>4. SignedProduct = IsaProduct
  BY SignsLemma
<1>5. QED
  BY <1>2, <1>3, <1>4, ProductLemma DEF IsProduct

(* What the combinational multiplier hands to write-back.                  *)
LEMMA ParallelWrites ==
  ASSUME ControlInv, isMul, ~Serial
  PROVE  SignsSwapped \/ aluOut = IsaResult
<1>1. SUFFICES ASSUME ~SignsSwapped PROVE aluOut = IsaResult
  OBVIOUS
<1>2. aluOut = IF funct = "mul" THEN Product % M ELSE Product \div M
  BY DEF aluOut, isShiftOp, isMul, isDivide, MulResult
<1>3. Product = (signed1 * signed2) % (M * M)
  BY DEF Product
<1>4. build = "parallel"
  BY DEF Serial
<1>5. signed1 * signed2 = IsaProduct
  <2>1. CASE funct = "mulhsu"
    <3>1. rs1 = rs2
      BY <1>1, <1>4, <2>1 DEF SignsSwapped
    <3>2. signed1 = rs1 /\ signed2 = Signed(rs1) /\ IsaProduct = Signed(rs1) * rs1
      BY <2>1, <3>1 DEF signed1, signed2, IsaProduct
    <3>3. rs1 \in Int /\ Signed(rs1) \in Int
      <4>1. rs1 \in 0 .. M - 1 /\ Half \in Nat
        BY WidthLemma DEF ControlInv
      <4>2. Signed(rs1) \in -Half .. Half - 1
        BY <4>1, SignLemma
      <4>3. QED
        BY <4>1, <4>2
    <3>4. rs1 * Signed(rs1) = Signed(rs1) * rs1
      BY <3>3
    <3>5. QED
      BY <3>2, <3>4
  <2>2. CASE funct # "mulhsu"
    BY <2>2 DEF signed1, signed2, IsaProduct, isMul
  <2>3. QED
    BY <2>1, <2>2
<1>6. IsaProduct \in Int
  BY IsaProductLemma
<1>7. M * M \in Nat \ {0}
  BY WideLemma
<1>8. Product \in Int
  <2> DEFINE n == M * M
  <2>1. n \in Nat \ {0} /\ Product = IsaProduct % n
    BY <1>3, <1>5, <1>7
  <2> HIDE DEF n
  <2>2. QED
    BY <1>6, <2>1
<1>9. StandsFor(funct, IsaProduct, Product)
  <2>1. (IsaProduct % (M * M)) % M = IsaProduct % M
    BY <1>6, HighHalf
  <2>2. QED
    BY <1>3, <1>5, <2>1 DEF StandsFor
<1>10. QED
  BY <1>2, <1>8, <1>9, ProductLemma

ProductInv == MulInv /\ ProductIsRight

(* Every step keeps the invariants of the multipliers.                     *)
LEMMA ProductNext ==
  ASSUME BusyInv, ProductInv, [AluNext]_aluVars
  PROVE  ProductInv'
<1>0. ControlInv /\ MulFlags /\ MulInv /\ ProductIsRight
  BY DEF BusyInv, MulBusy, ProductInv
<1>1. CASE Issue
  <2>1. state' = "EXECUTE" /\ ~done'
    BY <1>1 DEF Issue
  <2>2. QED
    BY <2>1 DEF ProductInv, MulInv, ProductIsRight
<1>2. ASSUME UNCHANGED << build, funct, rs1, rs2 >>
      PROVE  /\ (isMul' <=> isMul) /\ IsaResult' = IsaResult
             /\ (BoothOverflows' <=> BoothOverflows) /\ (SignsSwapped' <=> SignsSwapped)
  <2>1. (isMul' <=> isMul) /\ IsaResult' = IsaResult
    BY <1>2, SameResult
  <2>2. BoothOverflows' <=> BoothOverflows
    BY <1>2, SameOperands
  <2>3. SignsSwapped' <=> SignsSwapped
    BY <1>2 DEF SignsSwapped
  <2>4. QED
    BY <2>1, <2>2, <2>3
<1>3. CASE Fetching
  <2>1. state' = "FETCH" /\ UNCHANGED << build, funct, rs1, rs2, rd, done >>
    BY <1>3 DEF Fetching, instrVars
  <2>2. ProductIsRight'
    BY <1>0, <1>2, <2>1 DEF ProductIsRight
  <2>3. QED
    BY <2>1, <2>2 DEF ProductInv, MulInv
<1>4. CASE Execute
  <2>1. /\ state = "EXECUTE" /\ aluWr /\ Units /\ rd' = aluOut
        /\ UNCHANGED << build, funct, rs1, rs2 >>
        /\ done' => ~needToWait
        /\ state' = "WAIT" => needToWait
    BY <1>4 DEF Execute, aluWr, instrVars
  <2>2. MulInv'
    <3>1. CASE state' = "WAIT" /\ isMul
      <4>1. Serial
        BY <2>1, <3>1 DEF needToWait, isMul, isDivide
      <4>2. MulLoad
        BY <2>1, <3>1, <4>1 DEF Units
      <4>3. QED
        BY <1>0, <2>1, <3>1, <4>2, MulStarts
    <3>2. CASE ~(state' = "WAIT" /\ isMul)
      <4>1. isMul' <=> isMul
        BY <1>2, <2>1
      <4>2. QED
        BY <3>2, <4>1 DEF MulInv
    <3>3. QED
      BY <3>1, <3>2
  <2>3. ProductIsRight'
    <3>1. SUFFICES ASSUME done', isMul PROVE BoothOverflows \/ SignsSwapped \/ rd' = IsaResult
      BY <1>2, <2>1 DEF ProductIsRight
    <3>2. ~Serial
      BY <2>1, <3>1 DEF needToWait
    <3>3. QED
      BY <1>0, <2>1, <3>1, <3>2, ParallelWrites
  <2>4. QED
    BY <2>2, <2>3 DEF ProductInv
<1>5. CASE Wait
  <2>1. /\ state = "WAIT" /\ ~aluWr /\ Units /\ rd' = aluOut
        /\ UNCHANGED << build, funct, rs1, rs2 >>
        /\ IF aluBusy THEN state' = "WAIT" /\ done' = done ELSE state' = "FETCH"
        /\ ~done
    BY <1>0, <1>5 DEF Wait, aluWr, instrVars, ControlInv
  <2>2. MulStep
    BY <2>1 DEF Units
  <2>3. MulInv'
    <3>1. CASE isMul
      BY <1>0, <2>1, <2>2, <3>1, MulStepKeeps
    <3>2. CASE ~isMul
      <4>1. isMul' <=> isMul
        BY <1>2, <2>1
      <4>2. QED
        BY <3>2, <4>1 DEF MulInv
    <3>3. QED
      BY <3>1, <3>2
  <2>4. ProductIsRight'
    <3>1. SUFFICES ASSUME done', isMul PROVE BoothOverflows \/ SignsSwapped \/ rd' = IsaResult
      BY <1>2, <2>1 DEF ProductIsRight
    <3>2. ~aluBusy
      BY <1>0, <2>1, <3>1 DEF ControlInv
    <3>3. ~mul_busy
      BY <3>2 DEF aluBusy
    <3>4. QED
      BY <1>0, <2>1, <3>1, <3>3, SerialWrites
  <2>5. QED
    BY <2>3, <2>4 DEF ProductInv
<1>6. CASE UNCHANGED aluVars
  <2>1. /\ UNCHANGED << build, state, funct, rs1, rs2, rd, done >> /\ UNCHANGED mulVars
    BY <1>6 DEF aluVars, instrVars
  <2>2. /\ (isMul' <=> isMul) /\ (mul_sign1' <=> mul_sign1) /\ (mul_sign2' <=> mul_sign2)
        /\ mul_abs1' = mul_abs1 /\ mul_abs2' = mul_abs2
        /\ AbsProduct' = AbsProduct /\ SignedProduct' = SignedProduct
        /\ (BoothOverflows' <=> BoothOverflows)
    BY <2>1, SameOperands
  <2>3. IsProduct(mul_pm)' <=> IsProduct(mul_pm)
    BY <2>1, <2>2 DEF IsProduct, StandsFor, mulVars
  <2>4. /\ Added(mul_abs1, mul_abs2, Pow2[mul_count], mul_pm)' <=>
             Added(mul_abs1, mul_abs2, Pow2[mul_count], mul_pm)
        /\ Booth(mul_abs1, mul_abs2, Weight(mul_count), mul_acc, mul_pm, mul_booth_prev)' <=>
             Booth(mul_abs1, mul_abs2, Weight(mul_count), mul_acc, mul_pm, mul_booth_prev)
        /\ Halves(mul_acc % M, mul_pm)' = Halves(mul_acc % M, mul_pm)
    BY <2>1, <2>2 DEF Added, AddedAt, Booth, BoothAt, Weight, Wrapped, Halves, Half, mulVars
  <2>5. Radix2Inv' <=> Radix2Inv
    BY <2>1, <2>2, <2>3, <2>4 DEF Radix2Inv, mul_busy, mulVars
  <2>6. Radix4Inv' <=> Radix4Inv
    BY <2>1, <2>2, <2>3, <2>4 DEF Radix4Inv, mul_busy, mulVars
  <2>7. MulInv'
    BY <1>0, <2>1, <2>2, <2>5, <2>6 DEF MulInv, mulVars
  <2>8. ProductIsRight'
    BY <1>0, <1>2, <2>1 DEF ProductIsRight
  <2>9. QED
    BY <2>7, <2>8 DEF ProductInv
<1>7. QED
  BY <1>1, <1>3, <1>4, <1>5, <1>6 DEF AluNext

(* Every completed multiplication has written the half of the product that *)
(* the ISA asks for, in each of the three multipliers, but for the two     *)
(* cases in which the code does not (BoothOverflows, SignsSwapped).        *)
THEOREM ProductsAreRight == AluSpec => []ProductIsRight
<1>1. AluInit => ProductInv
  BY DEF AluInit, ProductInv, MulInv, ProductIsRight
<1>2. BusyInv /\ ProductInv /\ [AluNext]_aluVars => ProductInv'
  BY ProductNext
<1>3. ProductInv => ProductIsRight
  BY DEF ProductInv
<1>4. QED
  BY <1>1, <1>2, <1>3, BusyInvariance, PTL DEF AluSpec

=============================================================================
