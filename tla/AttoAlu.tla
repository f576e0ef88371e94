-------------------------------- MODULE AttoAlu --------------------------------
(***************************************************************************)
(* The shift, multiply and divide units of rtl/attorv32.v and the part of  *)
(* the FSM that starts them and waits for them.  One step is one clock     *)
(* edge.  Registers are numbers of their width; 32 is W and 5 is LogW.     *)
(*                                                                         *)
(* The units are those of the three builds the Verilog offers: everything  *)
(* combinational, or serial with a radix-2 or a radix-4 Booth multiplier.  *)
(***************************************************************************)
EXTENDS Integers

CONSTANTS
  LogW,      (* log2 of the register width                                 *)
  Builds,    (* builds to check, of "parallel", "radix2", "radix4"         *)
  Leftovers  (* the operations that another one may follow                 *)

Pow2[n \in Nat] == IF n = 0 THEN 1 ELSE 2 * Pow2[n - 1]

W == Pow2[LogW]
M == Pow2[W]

Functs == {"sll", "srl", "sra", "mul", "mulh", "mulhsu", "mulhu",
           "div", "divu", "rem", "remu"}

ASSUME AluAssumption ==
  /\ LogW \in Nat \ {0}
  /\ Builds \subseteq {"parallel", "radix2", "radix4"}
  /\ Leftovers \subseteq Functs \X (0 .. M - 1) \X (0 .. M - 1)

VARIABLES
  build,
  state,                (* "FETCH", "EXECUTE" or "WAIT"                     *)
  funct, rs1, rs2,      (* the instruction and aluIn1, aluIn2              *)
  shift_data, shift_count, shift_is_left, shift_is_arith,
  mul_pm, mul_acc, mul_mcand, mul_count, mul_neg, mul_booth_prev,
  mul_fixup, mul_negate_pending,
  dividend, divisor, quotient, quotient_msk, divResult,
  rd,                   (* what write-back last wrote                      *)
  done,                 (* that write-back completed the instruction       *)
  issued,               (* instructions so far                             *)
  waited,               (* cycles the current one has spent in S_WAIT      *)
  kept                  (* those in which only another one's unit was busy *)

instrVars == << build, funct, rs1, rs2, issued >>
shiftVars == << shift_data, shift_count, shift_is_left, shift_is_arith >>
mulVars   == << mul_pm, mul_acc, mul_mcand, mul_count, mul_neg, mul_booth_prev,
                mul_fixup, mul_negate_pending >>
divVars   == << dividend, divisor, quotient, quotient_msk, divResult >>
aluVars   == << instrVars, state, shiftVars, mulVars, divVars, rd, done, waited, kept >>

----------------------------------------------------------------------------
(* Numbers of a width.                                                     *)

Bit(x, i)  == (x \div Pow2[i]) % 2
Neg(x)     == (-x) % M
Signed(x)  == IF x >= M \div 2 THEN x - M ELSE x

----------------------------------------------------------------------------
(* What the ISA asks of each operation.                                    *)

shamt == rs2 % W

Quotient(a, b)  == IF (a < 0) = (b < 0) THEN (IF a < 0 THEN -a ELSE a) \div (IF b < 0 THEN -b ELSE b)
                   ELSE -((IF a < 0 THEN -a ELSE a) \div (IF b < 0 THEN -b ELSE b))
Remainder(a, b) == a - b * Quotient(a, b)

IsaResult ==
  CASE funct = "sll"    -> (rs1 * Pow2[shamt]) % M
    [] funct = "srl"    -> rs1 \div Pow2[shamt]
    [] funct = "sra"    -> (Signed(rs1) \div Pow2[shamt]) % M
    [] funct = "mul"    -> (rs1 * rs2) % M
    [] funct = "mulh"   -> ((Signed(rs1) * Signed(rs2)) \div M) % M
    [] funct = "mulhsu" -> ((Signed(rs1) * rs2) \div M) % M
    [] funct = "mulhu"  -> (rs1 * rs2) \div M
    [] funct = "div"    -> IF rs2 = 0 THEN M - 1 ELSE Quotient(Signed(rs1), Signed(rs2)) % M
    [] funct = "divu"   -> IF rs2 = 0 THEN M - 1 ELSE rs1 \div rs2
    [] funct = "rem"    -> IF rs2 = 0 THEN rs1 ELSE Remainder(Signed(rs1), Signed(rs2)) % M
    [] funct = "remu"   -> IF rs2 = 0 THEN rs1 ELSE rs1 % rs2

----------------------------------------------------------------------------
(* Decode.                                                                 *)

isShiftOp == funct \in {"sll", "srl", "sra"}
isMul     == funct \in {"mul", "mulh", "mulhsu", "mulhu"}
isDivide  == funct \in {"div", "divu", "rem", "remu"}
isSigned  == funct \in {"div", "rem"}
isRem     == funct \in {"rem", "remu"}

Serial == build # "parallel"

needToWait == isDivide \/ (Serial /\ (isShiftOp \/ isMul))

aluWr == state = "EXECUTE"

----------------------------------------------------------------------------
(* Shift units.                                                            *)

Reverse(x) == LET bits[i \in 0 .. W] ==
                    IF i = 0 THEN 0 ELSE bits[i - 1] * 2 + Bit(x, i - 1)
              IN bits[W]

(* The barrel shifter shifts right; a left shift goes through it reversed.  *)
shifter ==
  LET in   == IF funct = "sll" THEN Reverse(rs1) ELSE rs1
      sign == IF funct = "sra" THEN Bit(rs1, W - 1) ELSE 0
  IN ((in - sign * M) \div Pow2[shamt]) % M

BarrelResult == IF funct = "sll" THEN Reverse(shifter) ELSE shifter

shift_busy == shift_count # 0

(* Mutant: the shift amount is not cut down to its low bits.               *)
ShiftLoadUnmasked ==
  /\ shift_data' = rs1
  /\ shift_count' = rs2
  /\ shift_is_left' = (funct = "sll")
  /\ shift_is_arith' = (funct = "sra")

ShiftLoad ==
  /\ shift_data' = rs1
  /\ shift_count' = shamt
  /\ shift_is_left' = (funct = "sll")
  /\ shift_is_arith' = (funct = "sra")

ShiftStep ==
  IF shift_busy
    THEN /\ shift_data' =
              IF shift_is_left THEN (shift_data * 2) % M
              ELSE shift_data \div 2 +
                   (IF shift_is_arith THEN Bit(shift_data, W - 1) ELSE 0) * (M \div 2)
         /\ shift_count' = shift_count - 1
         /\ UNCHANGED << shift_is_left, shift_is_arith >>
    ELSE UNCHANGED shiftVars

----------------------------------------------------------------------------
(* Multipliers.  The serial ones work on absolute values.                  *)

mul_sign1 == Bit(rs1, W - 1) = 1 /\ funct \in {"mulh", "mulhsu"}
mul_sign2 == Bit(rs2, W - 1) = 1 /\ funct = "mulh"
mul_abs1  == IF mul_sign1 THEN Neg(rs1) ELSE rs1
mul_abs2  == IF mul_sign2 THEN Neg(rs2) ELSE rs2

(* Mutant: the core does not wait for the negation.                        *)
BusyUntilNegate == mul_count # 0 \/ mul_fixup

mul_busy == mul_count # 0 \/ mul_fixup \/ mul_negate_pending

MulLoad ==
  /\ mul_pm' = mul_abs2
  /\ mul_acc' = 0
  /\ mul_mcand' = mul_abs1
  /\ mul_count' = IF build = "radix4" THEN W \div 2 ELSE W
  /\ mul_neg' = (mul_sign1 # mul_sign2)
  /\ mul_negate_pending' = FALSE
  /\ mul_fixup' = FALSE
  /\ mul_booth_prev' = 0

(* Radix 2: add and shift right, W times, then negate.                     *)
Radix2Step ==
  LET upper == mul_pm \div M + (IF mul_pm % 2 = 1 THEN mul_mcand ELSE 0)
  IN CASE mul_count # 0 ->
            /\ mul_pm' = upper * (M \div 2) + (mul_pm % M) \div 2
            /\ mul_count' = mul_count - 1
            /\ mul_negate_pending' = IF mul_count = 1 THEN mul_neg ELSE mul_negate_pending
       [] mul_count = 0 /\ mul_negate_pending ->
            /\ mul_pm' = (-mul_pm) % (M * M)
            /\ mul_negate_pending' = FALSE
            /\ UNCHANGED mul_count
       [] OTHER -> UNCHANGED << mul_pm, mul_count, mul_negate_pending >>

(* Radix 4: one Booth digit and two bits at a time, in an accumulator of    *)
(* W + 1 bits; a fixup for the digit beyond the top; then negate.          *)
AccM == 2 * M

BoothDigit ==
  LET b == 4 * Bit(mul_pm, 1) + 2 * Bit(mul_pm, 0) + mul_booth_prev
  IN CASE b \in {0, 7} -> 0
       [] b \in {1, 2} -> 1
       [] b = 3        -> 2
       [] b = 4        -> -2
       [] b \in {5, 6} -> -1

booth_new_acc == (mul_acc + BoothDigit * mul_mcand) % AccM

(* Arithmetic shift of the accumulator: its top bit is the sign.           *)
booth_shifted_acc ==
  booth_new_acc \div 4 + Bit(booth_new_acc, W) * (3 * (AccM \div 4))

BoothStep ==
  /\ mul_acc' = booth_shifted_acc
  /\ mul_pm' = (booth_shifted_acc % M) * M + (booth_new_acc % 4) * (M \div 4)
                 + (mul_pm % M) \div 4
  /\ mul_booth_prev' = Bit(mul_pm, 1)
  /\ mul_count' = mul_count - 1
  /\ mul_fixup' = (mul_fixup \/ mul_count = 1)
  /\ UNCHANGED mul_negate_pending

(* Mutant: no correction for a multiplier whose top bit is set.            *)
NoFixup ==
  /\ mul_pm' = (mul_acc % M) * M + (mul_pm % M)
  /\ mul_fixup' = FALSE
  /\ mul_negate_pending' = mul_neg
  /\ UNCHANGED << mul_acc, mul_count, mul_booth_prev >>

BoothFixup ==
  /\ mul_acc' = (mul_acc + mul_booth_prev * mul_mcand) % AccM
  /\ mul_pm' = ((mul_acc + mul_booth_prev * mul_mcand) % M) * M + (mul_pm % M)
  /\ mul_fixup' = FALSE
  /\ mul_negate_pending' = mul_neg
  /\ UNCHANGED << mul_count, mul_booth_prev >>

BoothNegate ==
  /\ mul_pm' = (-((mul_acc % M) * M + (mul_pm % M))) % (M * M)
  /\ mul_negate_pending' = FALSE
  /\ UNCHANGED << mul_acc, mul_count, mul_booth_prev, mul_fixup >>

Radix4Step ==
  CASE mul_count # 0                                   -> BoothStep
    [] mul_count = 0 /\ mul_fixup                      -> BoothFixup
    [] mul_count = 0 /\ ~mul_fixup /\ mul_negate_pending -> BoothNegate
    [] OTHER -> UNCHANGED << mul_pm, mul_acc, mul_booth_prev, mul_count, mul_fixup,
                             mul_negate_pending >>

MulStep ==
  /\ \/ build = "radix4" /\ Radix4Step
     \/ build # "radix4" /\ Radix2Step /\ UNCHANGED << mul_acc, mul_booth_prev, mul_fixup >>
  /\ UNCHANGED << mul_mcand, mul_neg >>

(* The parallel multiplier's operands, W + 1 bits and signed.              *)
signed1 == IF funct = "mulh" THEN Signed(rs1) ELSE rs1
signed2 == IF funct \in {"mulh", "mulhsu"} THEN Signed(rs2) ELSE rs2

Product == IF Serial THEN mul_pm ELSE (signed1 * signed2) % (M * M)

MulResult == IF funct = "mul" THEN Product % M ELSE Product \div M

----------------------------------------------------------------------------
(* Divider: restoring, on absolute values.  It has no reset and never      *)
(* stops stepping.                                                         *)

divstep_do == divisor <= dividend
dividendN  == IF divstep_do THEN (dividend - divisor) % M ELSE dividend
quotientN  == IF divstep_do /\ quotient_msk # 0 /\ (quotient \div quotient_msk) % 2 = 0
                THEN quotient + quotient_msk
                ELSE quotient

div_busy == quotient_msk # 0

DivLoad ==
  /\ dividend' = IF isSigned /\ Signed(rs1) < 0 THEN Neg(rs1) ELSE rs1
  /\ divisor' = (IF isSigned /\ Signed(rs2) < 0 THEN Neg(rs2) ELSE rs2) * (M \div 2)
  /\ quotient' = 0
  /\ quotient_msk' = M \div 2

DivStep ==
  /\ dividend' = dividendN
  /\ divisor' = divisor \div 2
  /\ quotient' = quotientN
  /\ quotient_msk' = quotient_msk \div 2

LatchResult == divResult' = IF isRem THEN dividendN ELSE quotientN

(* Mutant: DIV by zero negates the all-ones quotient.                      *)
SignOfOperands ==
  isSigned /\ IF isRem THEN Bit(rs1, W - 1) = 1 ELSE Bit(rs1, W - 1) # Bit(rs2, W - 1)

div_sign ==
  isSigned /\ IF isRem THEN Bit(rs1, W - 1) = 1
              ELSE Bit(rs1, W - 1) # Bit(rs2, W - 1) /\ rs2 # 0

DivideResult == IF div_sign THEN Neg(divResult) ELSE divResult

----------------------------------------------------------------------------
(* The units together.                                                     *)

aluBusy == div_busy \/ mul_busy \/ shift_busy

(* The unit of the instruction itself is busy.                             *)
ownBusy ==
  \/ isDivide /\ div_busy
  \/ isMul /\ mul_busy
  \/ isShiftOp /\ shift_busy

aluOut ==
  CASE isShiftOp -> IF Serial THEN shift_data ELSE BarrelResult
    [] isMul     -> MulResult
    [] isDivide  -> DivideResult

Units ==
  /\ IF aluWr /\ isShiftOp /\ Serial THEN ShiftLoad ELSE ShiftStep
  /\ IF aluWr /\ isMul /\ Serial     THEN MulLoad   ELSE MulStep
  /\ IF aluWr /\ isDivide            THEN DivLoad   ELSE DivStep
  /\ LatchResult

----------------------------------------------------------------------------
(* FSM.                                                                    *)

(* The next instruction arrives: the first one, or one that follows an     *)
(* operation of Leftovers, completed or cut short.                         *)
Issue ==
  /\ state = "FETCH"
  /\ issued = 0 \/ (issued = 1 /\ << funct, rs1, rs2 >> \in Leftovers)
  /\ funct' \in Functs
  /\ rs1' \in 0 .. M - 1
  /\ rs2' \in 0 .. M - 1
  /\ state' = "EXECUTE"
  /\ issued' = issued + 1
  /\ done' = FALSE
  /\ waited' = 0
  /\ kept' = 0
  /\ Units
  /\ UNCHANGED << build, rd >>

Fetching ==
  /\ state = "FETCH"
  /\ Units
  /\ UNCHANGED << instrVars, state, rd, done, waited, kept >>

(* S_EXECUTE.  An NMI or a debug halt may cut the instruction short.        *)
Execute ==
  /\ state = "EXECUTE"
  /\ Units
  /\ rd' = aluOut
  /\ \/ needToWait  /\ state' = "WAIT"  /\ done' = FALSE
     \/ needToWait  /\ state' = "FETCH" /\ done' = FALSE
     \/ ~needToWait /\ state' = "FETCH" /\ done' = TRUE
  /\ UNCHANGED << instrVars, waited, kept >>

Wait ==
  /\ state = "WAIT"
  /\ Units
  /\ rd' = aluOut
  /\ IF aluBusy THEN UNCHANGED << state, done >>
                ELSE state' = "FETCH" /\ done' = TRUE
  /\ waited' = waited + 1
  /\ kept' = IF aluBusy /\ ~ownBusy THEN kept + 1 ELSE kept
  /\ UNCHANGED instrVars

AluNext == Issue \/ Fetching \/ Execute \/ Wait

(* Only the counters have a reset.  The divider's mask comes up as anything, *)
(* and its top bit says how long the divider seems busy.                   *)
AluInit ==
  /\ build \in Builds
  /\ state = "FETCH"
  /\ funct = "divu" /\ rs1 = 0 /\ rs2 = 0
  /\ shift_data = 0 /\ shift_count = 0
  /\ shift_is_left = FALSE /\ shift_is_arith = FALSE
  /\ mul_pm = 0 /\ mul_acc = 0 /\ mul_mcand = 0 /\ mul_count = 0
  /\ mul_neg = FALSE /\ mul_booth_prev = 0
  /\ mul_fixup = FALSE /\ mul_negate_pending = FALSE
  /\ dividend = 0 /\ divisor = 0 /\ quotient = 0 /\ divResult = 0
  /\ quotient_msk \in {0} \cup {Pow2[i] : i \in 0 .. W - 1}
  /\ rd = 0 /\ done = FALSE /\ issued = 0 /\ waited = 0 /\ kept = 0

AluSpec == AluInit /\ [][AluNext]_aluVars

----------------------------------------------------------------------------
(* Properties.                                                             *)

(* What is wrong in the code, and what the other properties leave out: the  *)
(* high half of a Booth product whose multiplicand has its top bit set,    *)
(* and the parallel MULHSU, whose operands are taken the wrong way round.  *)
BoothOverflows == build = "radix4" /\ mul_abs1 >= M \div 2 /\ funct # "mul"
SignsSwapped   == build = "parallel" /\ funct = "mulhsu" /\ rs1 # rs2

(* A completed operation has written what the ISA asks: in every build, for *)
(* all operands, whatever the units were still doing for an operation that *)
(* a trap cut short.                                                       *)
ProductIsRight ==
  done /\ isMul => BoothOverflows \/ SignsSwapped \/ rd = IsaResult

ShiftOrQuotientIsRight == done /\ ~isMul => rd = IsaResult

(* The cycles an instruction spends in S_WAIT: as many as its unit takes,   *)
(* and the one in which S_WAIT finds it idle (attorv32.v:938-941).          *)
UnitCycles ==
  CASE isShiftOp -> shamt
    [] isDivide  -> W
    [] isMul     -> (IF build = "radix4" THEN W \div 2 + 1 ELSE W)
                      + (IF mul_sign1 # mul_sign2 THEN 1 ELSE 0)

Latency == IF needToWait THEN UnitCycles + 1 ELSE 0

(* Every operation takes exactly its time, and longer only by the clocks in *)
(* which what a trap cut short (or the divider's mask after reset) still    *)
(* keeps another unit busy; never for more than W + 2 cycles.              *)
AnswersInTime == waited <= W + 2 /\ (done => waited = Latency + kept)

(* The cycles beyond the 3 of a simple instruction that README.md:386-391   *)
(* gives each class; a load's 4 (README.md:384) has its S_WAIT in it.       *)
TableCycles ==
  CASE ~needToWait -> {0}
    [] needToWait /\ isShiftOp -> {shamt}
    [] needToWait /\ isDivide  -> {W}
    [] needToWait /\ isMul     -> IF build = "radix4" THEN {W \div 2 + 1, W \div 2 + 2}
                                                     ELSE {W, W + 1}

(* The table holds.                                                        *)
CycleTable == done /\ kept = 0 => waited \in TableCycles

=============================================================================
