----------------------------- MODULE DbgUartProofs -----------------------------
(***************************************************************************)
(* Proofs about DbgUart, for every period, byte and length of a break that *)
(* UartAssumption admits.  A clock of the UART is told by the place that   *)
(* the host has come to in its frame or break: the invariant says for each *)
(* place what the synchroniser, the calibration, the receiver and the      *)
(* break detector hold.                                                    *)
(***************************************************************************)
EXTENDS DbgUart, Integers, SequenceTheorems, TLAPS

----------------------------------------------------------------------------
(* The host.                                                               *)

Sending == host.mode \in {"frame", "break"}

(* Whole clocks since the host began.                                      *)
Age == host.t \div 8

HostInv ==
  /\ period \in Periods
  /\ host \in [mode : {"idle", "frame", "break", "quiet"}, t : Nat, byte : Nat]
  /\ host.mode = "idle"  => host.t = 0
  /\ host.mode = "frame" => host.byte \in 0 .. 255 /\ host.t < 10 * period
  /\ host.mode = "break" => host.byte \in BreakBits /\ host.t < host.byte * period
  /\ host.mode = "quiet" => host.t % 8 = 0 /\ host.t < 8 * (CalMax + 3)
  /\ period % 8 = 0 => host.t % 8 = 0

(* The line as it was some clocks ago: idle before the host began.         *)
LineAt(x) == IF host.mode = "break" THEN 0 ELSE FrameBit(host.byte, x \div period)

Past(clocks) == IF Age < clocks THEN 1 ELSE LineAt(host.t - 8 * clocks)

(* A line that is idle, or was when the host began, only rises.            *)
PipeInv ==
  /\ rx_sync \in {0, 1} \X {0, 1} /\ rx_d \in {0, 1}
  /\ IF Sending /\ Age >= 1
       THEN rx_sync[1] = Past(1) /\ rx_level = Past(2) /\ (Age >= 2 => rx_d = Past(3))
       ELSE /\ rx_sync[1] = 0 => rx_level = 0
            /\ rx_level = 0 => rx_d = 0
            /\ Sending => rx_sync[1] = 1

----------------------------------------------------------------------------
(* Calibration.                                                            *)

(* The bits of the frame up to bit k are those of 0x55.                    *)
Alternates(byte, k) == \A j \in 0 .. k : FrameBit(byte, j) = j % 2

(* The bits of a frame that the edge detector compares.                    *)
Seen  == (host.t - 24) \div period
Level == (host.t - 16) \div period

(* A frame has no more falling edges than 0x55, and as many only if it is:  *)
(* e edges, the first one included, need 2 * e - 2 bits.                    *)
PaceAt(byte, bit, e) ==
  /\ e \in 1 .. 4
  /\ bit >= 2 * e - 2
  /\ bit = 2 * e - 2 => Alternates(byte, bit)
  /\ bit = 2 * e - 1 /\ FrameBit(byte, bit) = 1 => Alternates(byte, bit)

Pace == PaceAt(host.byte, Seen, cal.edge)

SyncPace ==
  LET x == host.t - 24
  IN /\ cal.active /\ cal.cnt = Age - 3 /\ x < 8 * period
     /\ cal.edge = IF x < 2 * period THEN 1 ELSE IF x < 4 * period THEN 2
                   ELSE IF x < 6 * period THEN 3 ELSE 4

CalInv ==
  /\ baud_locked \in BOOLEAN /\ baud_div \in Nat
  /\ cal \in [active : BOOLEAN, cnt : 0 .. CalMax, edge : 0 .. 4]
  /\ baud_locked => baud_div + 1 = (period + 7) \div 8 /\ host.mode # "quiet"
  /\ ~baud_locked =>
       /\ baud_div = 0
       /\ host.mode = "idle" => ~cal.active
       /\ host.mode = "quiet" /\ cal.active => cal.cnt >= Age
       /\ Sending /\ Age < 3 => ~cal.active
       /\ Sending /\ Age >= 3 =>
            IF Syncing THEN SyncPace
            ELSE cal.active => IF host.mode = "frame" THEN Pace ELSE cal.edge = 1

----------------------------------------------------------------------------
(* Receiver.                                                               *)

Half == baud_div \div 2

(* In the locking frame, after the lock.                                   *)
Locking == Syncing /\ host.t >= 8 * period + 24 /\ ~rx.busy /\ owed = << >>

(* The data bits received are those sent.                                  *)
Received(byte, sr, bits) == sr \div (2 ^ (8 - bits)) = byte % (2 ^ bits)

(* What receiver r still owes of a frame that is over, but for the sample   *)
(* of its stop bit.                                                        *)
Rest(r, level) == IF r.busy /\ level = 1 THEN << r.sr >> ELSE << >>

(* A frame is owed after what is owed already.                             *)
Then(bytes, h) == IF h.mode = "frame" THEN Append(bytes, h.byte) ELSE bytes

Ours == IF host.mode = "frame" THEN << host.byte >> ELSE << >>

(* The clock of the sample of bit k, from the host's beginning.             *)
SampleAge(div, k) == 3 + div \div 2 + k * (div + 1)

Filling ==
  /\ rx.busy /\ owed = Ours /\ rx.bit \in 0 .. 9
  /\ rx.timer <= baud_div
  /\ Age + rx.timer = SampleAge(baud_div, rx.bit)
  /\ host.mode = "frame" /\ rx.bit >= 1 => Received(host.byte, rx.sr, rx.bit - 1)

Filled == ~rx.busy /\ owed = << >> /\ Age > SampleAge(baud_div, 9)

RxInv ==
  /\ rx \in Frame
  /\ ~baud_locked => ~rx.busy /\ owed = << >>
  /\ baud_locked /\ host.mode = "idle" =>
       IF rx.busy THEN /\ rx.bit = 9 /\ rx.timer \in {0, 1}
                       /\ owed = Rest(rx, IF rx.timer = 0 THEN rx_level ELSE rx_sync[1])
                  ELSE owed = << >>
  /\ baud_locked /\ Sending /\ Age = 0 =>
       /\ rx.busy => rx.bit = 9 /\ rx.timer = 0
       /\ owed = Then(Rest(rx, rx_level), host)
  /\ baud_locked /\ Sending /\ Age \in 1 .. 2 => ~rx.busy /\ owed = Ours
  /\ baud_locked /\ Sending /\ Age >= 3 => Locking \/ Filling \/ Filled

----------------------------------------------------------------------------
(* Transmitter.                                                            *)

TxInv ==
  /\ tx \in Frame /\ tx_pin \in {0, 1} /\ tx_age \in Nat
  /\ tx.busy =>
       /\ baud_locked /\ tx_byte \in 0 .. 255 /\ tx.bit \in 0 .. 9
       /\ tx.timer <= baud_div
       /\ tx_age + tx.timer = tx.bit * (baud_div + 1) + baud_div
       /\ tx_pin = FrameBit(tx_byte, tx.bit)
       /\ tx.bit <= 8 => tx.sr = tx_byte \div (2 ^ tx.bit)

----------------------------------------------------------------------------
(* Break detector.                                                         *)

(* Clocks that the detector has seen the line low, while it counts.        *)
Low == brk_cnt * (baud_div + 1) + brk_timer

Enough == 12 * (baud_div + 1)

(* Low samples on their way through the synchroniser.                      *)
Coming == (1 - rx_sync[1]) + (1 - rx_level)

Pending == brk \/ (brk_cnt < 12 /\ Low + Coming >= Enough)

Count(p) == IF p THEN 1 ELSE 0

Long == host.mode = "break" /\ host.byte * period >= 8 * Enough

BrkInv ==
  /\ brk_timer \in 0 .. baud_div /\ brk_cnt \in 0 .. 12 /\ brk_prev \in BOOLEAN
  /\ ~baud_locked => brk_timer = 0 /\ brk_cnt = 0 /\ ~brk_prev /\ due = 0
  /\ baud_locked /\ host.mode = "idle" => due = Count(Pending)
  /\ baud_locked /\ Sending /\ Age = 0 => due = Count(Pending) + Count(Long)
  /\ baud_locked /\ Sending /\ Age = 1 => due = Count(brk) + Count(Long)
  /\ baud_locked /\ host.mode = "frame" /\ Age >= 2 =>
       Low <= Age - 2 /\ due = 0 /\ (Age > 2 => ~brk_prev)
  /\ baud_locked /\ host.mode = "break" /\ Age >= 2 =>
       /\ IF Age - 2 < Enough THEN Low = Age - 2 ELSE brk_cnt = 12
       /\ Age > 2 => brk_prev = (Age - 3 >= Enough)
       /\ due = Count(Long /\ Age - 2 <= Enough)

----------------------------------------------------------------------------
(* The core's reads.                                                       *)

ReadInv ==
  /\ rd_data \in 0 .. 255 /\ rd_valid \in BOOLEAN /\ reading \in BOOLEAN
  /\ unread \in 0 .. None /\ overrun \in BOOLEAN
  /\ ~overrun =>
       /\ reading => rd_data = unread /\ ~rd_valid
       /\ rd_valid => rd_data = unread
       /\ unread # None => rd_valid \/ reading


UartInv == HostInv /\ PipeInv /\ CalInv /\ RxInv /\ TxInv /\ BrkInv /\ ReadInv

----------------------------------------------------------------------------
(* Numbers and bits.                                                       *)

(* Ten bits, of which most proofs need not know how many they are.         *)
LEMMA DivMaxLemma == DivMax \in Nat
  BY DEF DivMax

USE DivMaxLemma

LEMMA PeriodLemma ==
  ASSUME NEW p \in Periods
  PROVE  /\ p \in Nat /\ p >= 16 /\ p < CalMax /\ CalMax \in Nat
         /\ (p % 8 = 0 /\ p >= 16) \/ p > 152
  BY UartAssumption

LEMMA IndexLemma ==
  ASSUME NEW p \in Nat, NEW x \in Nat, NEW k \in Nat, k * p <= x, x < (k + 1) * p
  PROVE  x \div p = k
OBVIOUS

LEMMA DivLemma ==
  ASSUME NEW p \in Nat, p >= 1, NEW x \in Nat
  PROVE  x \div p \in Nat /\ (x \div p) * p <= x /\ x < (x \div p + 1) * p
OBVIOUS

LEMMA PowerLemma ==
  /\ 2 ^ 0 = 1 /\ 2 ^ 1 = 2 /\ 2 ^ 2 = 4 /\ 2 ^ 3 = 8 /\ 2 ^ 4 = 16
  /\ 2 ^ 5 = 32 /\ 2 ^ 6 = 64 /\ 2 ^ 7 = 128 /\ 2 ^ 8 = 256
  /\ \A i \in 0 .. 7 : 2 ^ i \in {1, 2, 4, 8, 16, 32, 64, 128}
<1>1. /\ 2 ^ 0 = 1 /\ 2 ^ 1 = 2 /\ 2 ^ 2 = 4 /\ 2 ^ 3 = 8 /\ 2 ^ 4 = 16
      /\ 2 ^ 5 = 32 /\ 2 ^ 6 = 64 /\ 2 ^ 7 = 128 /\ 2 ^ 8 = 256
  OBVIOUS
<1>2. ASSUME NEW i \in 0 .. 7 PROVE 2 ^ i \in {1, 2, 4, 8, 16, 32, 64, 128}
  <2>0. CASE i = 0
    BY <1>1, <2>0
  <2>1. CASE i = 1
    BY <1>1, <2>1
  <2>2. CASE i = 2
    BY <1>1, <2>2
  <2>3. CASE i = 3
    BY <1>1, <2>3
  <2>4. CASE i = 4
    BY <1>1, <2>4
  <2>5. CASE i = 5
    BY <1>1, <2>5
  <2>6. CASE i = 6
    BY <1>1, <2>6
  <2>7. CASE i = 7
    BY <1>1, <2>7
  <2>8. QED
    BY <2>0, <2>1, <2>2, <2>3, <2>4, <2>5, <2>6, <2>7
<1>3. QED
  BY <1>1, <1>2

LEMMA FrameBitLemma ==
  ASSUME NEW byte \in Nat
  PROVE  /\ \A k \in Nat : FrameBit(byte, k) \in {0, 1}
         /\ FrameBit(byte, 0) = 0 /\ FrameBit(byte, 9) = 1
<1>1. ASSUME NEW k \in Nat PROVE FrameBit(byte, k) \in {0, 1}
  <2>1. CASE k = 0
    BY <2>1 DEF FrameBit
  <2>2. CASE k \in 1 .. 8
    <3>1. \A i \in 0 .. 7 : 2 ^ i \in {1, 2, 4, 8, 16, 32, 64, 128}
      BY PowerLemma
    <3>2. 2 ^ (k - 1) \in {1, 2, 4, 8, 16, 32, 64, 128}
      <4>1. k - 1 \in 0 .. 7
        BY <2>2
      <4>2. QED
        BY <3>1, <4>1
    <3>3. Bit(byte, k - 1) \in {0, 1}
      <4> DEFINE w == 2 ^ (k - 1)
      <4>1. w \in {1, 2, 4, 8, 16, 32, 64, 128}
        BY <3>2
      <4>2. Bit(byte, k - 1) = (byte \div w) % 2
        BY DEF Bit
      <4> HIDE DEF w
      <4>3. byte \div w \in Nat
        BY <4>1
      <4>4. QED
        BY <4>2, <4>3
    <3>4. QED
      BY <2>2, <3>3 DEF FrameBit
  <2>3. CASE k \notin 1 .. 8 /\ k # 0
    BY <2>3 DEF FrameBit
  <2>4. QED
    BY <2>1, <2>2, <2>3
<1>2. QED
  BY <1>1 DEF FrameBit

(* 0x55 has a falling edge every second bit.                               *)
LEMMA SyncBits == \A k \in 0 .. 9 : FrameBit(Sync, k) = k % 2
<1> SUFFICES ASSUME NEW k \in 0 .. 9 PROVE FrameBit(Sync, k) = k % 2
  OBVIOUS
<1>1. /\ Bit(85, 0) = 1 /\ Bit(85, 1) = 0 /\ Bit(85, 2) = 1 /\ Bit(85, 3) = 0
      /\ Bit(85, 4) = 1 /\ Bit(85, 5) = 0 /\ Bit(85, 6) = 1 /\ Bit(85, 7) = 0
  BY PowerLemma DEF Bit
<1>2. \/ k = 0 \/ k = 1 \/ k = 2 \/ k = 3 \/ k = 4 \/ k = 5 \/ k = 6 \/ k = 7
      \/ k = 8 \/ k = 9
  OBVIOUS
<1>3. QED
  BY <1>1, <1>2 DEF FrameBit, Sync

(* A byte with as many is 0x55.                                            *)
LEMMA SyncOnly ==
  ASSUME NEW byte \in 0 .. 255, \A j \in 0 .. 8 : FrameBit(byte, j) = j % 2
  PROVE  byte = Sync
<1>1. \A i \in 0 .. 7 : Bit(byte, i) = (i + 1) % 2
  <2> SUFFICES ASSUME NEW i \in 0 .. 7 PROVE Bit(byte, i) = (i + 1) % 2
    OBVIOUS
  <2>1. FrameBit(byte, i + 1) = Bit(byte, i)
    BY DEF FrameBit
  <2>2. QED
    BY <2>1
<1>2. /\ (byte \div 1) % 2 = 1 /\ (byte \div 2) % 2 = 0
      /\ (byte \div 4) % 2 = 1 /\ (byte \div 8) % 2 = 0
      /\ (byte \div 16) % 2 = 1 /\ (byte \div 32) % 2 = 0
      /\ (byte \div 64) % 2 = 1 /\ (byte \div 128) % 2 = 0
  BY <1>1 DEF Bit
<1>3. QED
  BY <1>2 DEF Sync

----------------------------------------------------------------------------
(* The host's steps.                                                       *)

Stays == host.mode = "idle" /\ host' = host

Begins ==
  host.mode = "idle" /\ host'.mode \in {"frame", "break"} /\ host'.t \in 0 .. 7

Continues ==
  /\ host.mode # "idle" /\ host.t + 8 < Length
  /\ host' = [mode |-> host.mode, t |-> host.t + 8, byte |-> host.byte]

Ends ==
  /\ host.mode # "idle" /\ host.t + 8 >= Length
  /\ host' = IF ~baud_locked /\ host.mode # "quiet" /\ ~Syncing
               THEN [mode |-> "quiet", t |-> 0, byte |-> 0]
               ELSE [mode |-> "idle", t |-> 0, byte |-> 0]

HostMoves == period' = period /\ (Stays \/ Begins \/ Continues \/ Ends)

LEMMA LengthLemma ==
  ASSUME HostInv, Sending
  PROVE  /\ Length \in Nat /\ Length >= 10 * period /\ host.t < Length
         /\ period \in Nat /\ period >= 16 /\ host.t \in Nat
         /\ host.mode = "frame" => Length = 10 * period
<1>1. period \in Nat /\ period >= 16 /\ host.t \in Nat
  BY PeriodLemma DEF HostInv
<1>2. CASE host.mode = "frame"
  BY <1>1, <1>2 DEF Length, HostInv
<1>3. CASE host.mode = "break"
  <2>1. host.byte \in Nat /\ host.byte >= 10
    BY <1>3, UartAssumption DEF HostInv
  <2>2. host.byte * period >= 10 * period /\ host.byte * period \in Nat
    BY <1>1, <2>1
  <2>3. QED
    BY <1>1, <1>3, <2>2 DEF Length, HostInv
<1>4. QED
  BY <1>2, <1>3 DEF Sending

LEMMA HostLemma ==
  ASSUME HostInv, HostIdle \/ HostBusy, period' = period
  PROVE  HostInv' /\ HostMoves
<1>1. period \in Nat /\ period >= 16 /\ host.t \in Nat /\ host.byte \in Nat
  BY PeriodLemma DEF HostInv
<1>2. host = [mode |-> host.mode, t |-> host.t, byte |-> host.byte]
  BY DEF HostInv
<1>3. CASE HostIdle
  <2>1. CASE host' = host
    <3>1. host.mode = "idle" /\ Stays
      BY <1>3, <2>1 DEF HostIdle, Stays
    <3>2. QED
      BY <2>1, <3>1 DEF HostInv, HostMoves
  <2>2. CASE \E b \in Bytes \cup {Sync} : Begin("frame", b)
    <3>1. PICK b \in Bytes \cup {Sync}, t \in Phases : host' = [mode |-> "frame", t |-> t, byte |-> b]
      BY <2>2 DEF Begin
    <3>2. b \in 0 .. 255
      BY UartAssumption DEF Sync
    <3>3. t \in 0 .. 7 /\ (period % 8 = 0 => t = 0)
      BY <1>1 DEF Phases
    <3>4. HostInv'
      BY <1>1, <3>1, <3>2, <3>3 DEF HostInv
    <3>5. Begins
      BY <1>3, <3>1, <3>3 DEF Begins, HostIdle
    <3>6. QED
      BY <3>4, <3>5 DEF HostMoves
  <2>3. CASE \E n \in BreakBits : Begin("break", n)
    <3>1. PICK n \in BreakBits, t \in Phases : host' = [mode |-> "break", t |-> t, byte |-> n]
      BY <2>3 DEF Begin
    <3>2. n \in Nat /\ n >= 10
      BY UartAssumption
    <3>3. t \in 0 .. 7 /\ (period % 8 = 0 => t = 0)
      BY <1>1 DEF Phases
    <3>4. n * period >= 10 * period
      BY <1>1, <3>2
    <3>5. t < n * period
      BY <1>1, <3>2, <3>3, <3>4
    <3>6. HostInv'
      BY <1>1, <3>1, <3>2, <3>3, <3>5 DEF HostInv
    <3>7. Begins
      BY <1>3, <3>1, <3>3 DEF Begins, HostIdle
    <3>8. QED
      BY <3>6, <3>7 DEF HostMoves
  <2>4. QED
    BY <1>3, <2>1, <2>2, <2>3 DEF HostIdle
<1>4. CASE HostBusy
  <2>1. CASE host.t + 8 < Length
    <3>1. host' = [host EXCEPT !.t = @ + 8] /\ host.mode # "idle"
      BY <1>4, <2>1 DEF HostBusy
    <3>2. host' = [mode |-> host.mode, t |-> host.t + 8, byte |-> host.byte]
      BY <1>2, <3>1
    <3>3. Continues
      BY <2>1, <3>1, <3>2 DEF Continues
    <3>4. host'.t % 8 = host.t % 8 /\ host'.t \in Nat
      BY <1>1, <3>2
    <3>5. HostInv'
      BY <1>1, <2>1, <3>2, <3>4 DEF HostInv, Length
    <3>6. QED
      BY <3>3, <3>5 DEF HostMoves
  <2>2. CASE ~(host.t + 8 < Length)
    <3>0. host.byte * period \in Nat /\ 10 * period \in Nat /\ 8 * (CalMax + 3) \in Nat
      BY <1>1, UartAssumption
    <3>1. host.t + 8 >= Length
      BY <1>1, <2>2, <3>0 DEF Length, HostInv
    <3>2. Ends
      BY <1>4, <2>2, <3>1 DEF HostBusy, Ends
    <3>3. host' \in {[mode |-> "quiet", t |-> 0, byte |-> 0], [mode |-> "idle", t |-> 0, byte |-> 0]}
      BY <3>2 DEF Ends
    <3>4. HostInv'
      BY <1>1, <3>3, UartAssumption DEF HostInv
    <3>5. QED
      BY <3>2, <3>4 DEF HostMoves
  <2>3. QED
    BY <2>1, <2>2
<1>5. QED
  BY <1>3, <1>4

----------------------------------------------------------------------------
(* The synchroniser.                                                       *)

LEMMA PastLemma ==
  ASSUME HostInv, Sending, NEW c \in Nat
  PROVE  /\ Past(c) \in {0, 1}
         /\ Age < c => Past(c) = 1
         /\ host.mode = "break" /\ Age >= c => Past(c) = 0
         /\ host.mode = "frame" /\ Age >= c =>
              \A k \in 0 .. 9 : k * period <= host.t - 8 * c /\ host.t - 8 * c < (k + 1) * period
                => Past(c) = FrameBit(host.byte, k)
<1>1. period \in Nat /\ period >= 16 /\ host.t \in Nat /\ host.byte \in Nat
  BY PeriodLemma DEF HostInv
<1>2. Age >= c => host.t - 8 * c \in Nat
  BY <1>1 DEF Age
<1>3. ASSUME host.mode = "frame", Age >= c, NEW k \in 0 .. 9,
             k * period <= host.t - 8 * c, host.t - 8 * c < (k + 1) * period
      PROVE  Past(c) = FrameBit(host.byte, k)
  <2>1. (host.t - 8 * c) \div period = k
    BY <1>1, <1>2, <1>3, IndexLemma
  <2>2. QED
    BY <1>1, <1>3, <2>1 DEF Past, LineAt, Age
<1>4. ASSUME Age >= c PROVE Past(c) \in {0, 1}
  <2>1. (host.t - 8 * c) \div period \in Nat
    BY <1>1, <1>2, <1>4
  <2>2. FrameBit(host.byte, (host.t - 8 * c) \div period) \in {0, 1}
    BY <1>1, <2>1, FrameBitLemma
  <2>3. QED
    BY <1>1, <1>4, <2>2 DEF Past, LineAt, Age
<1>5. Age \in Nat
  BY <1>1 DEF Age
<1>6. Age < c => Past(c) = 1
  BY DEF Past
<1>7. host.mode = "break" /\ Age >= c => Past(c) = 0
  BY <1>5 DEF Past, LineAt
<1>8. QED
  BY <1>3, <1>4, <1>5, <1>6, <1>7

LEMMA LineLemma ==
  ASSUME HostInv
  PROVE  line = IF Sending THEN Past(0) ELSE 1
<1>1. host.t \in Nat
  BY DEF HostInv
<1>2. QED
  BY <1>1 DEF line, Past, LineAt, Sending, Age, HostInv

LEMMA ShiftLemma ==
  ASSUME HostInv, Sending, Continues, period' = period
  PROVE  /\ Sending' /\ Age' = Age + 1
         /\ Past(1)' = Past(0) /\ Past(2)' = Past(1) /\ Past(3)' = Past(2)
<1>1. /\ host'.mode = host.mode /\ host'.byte = host.byte /\ host'.t = host.t + 8
      /\ host.t \in Nat
  BY DEF Continues, HostInv
<1>2. Age' = Age + 1 /\ Age \in Nat
  BY <1>1 DEF Age
<1>3. /\ host'.t - 8 * 1 = host.t - 8 * 0
      /\ host'.t - 8 * 2 = host.t - 8 * 1
      /\ host'.t - 8 * 3 = host.t - 8 * 2
  BY <1>1
<1>4. QED
  BY <1>1, <1>2, <1>3 DEF Past, LineAt, Sending

(* In its last clock a frame has been high for two, a break low for more.  *)
LEMMA EndLemma ==
  ASSUME HostInv, Sending, Ends
  PROVE  /\ Age >= 3 /\ ~Sending'
         /\ \A c \in 0 .. 1 : Past(c) = IF host.mode = "frame" THEN 1 ELSE 0
         /\ host.mode = "break" => Past(2) = 0
<1>1. /\ Length \in Nat /\ Length >= 10 * period /\ host.t < Length /\ host.t + 8 >= Length
      /\ period \in Nat /\ period >= 16 /\ host.t \in Nat
      /\ host.mode = "frame" => Length = 10 * period
  BY LengthLemma DEF Ends
<1>2. Age >= 3
  BY <1>1 DEF Age
<1>3. ~Sending'
  BY DEF Ends, Sending
<1>4. CASE host.mode = "break"
  <2>0. Age \in Nat
    BY <1>1 DEF Age
  <2>1. Past(0) = 0 /\ Past(1) = 0 /\ Past(2) = 0
    BY <1>2, <1>4, <2>0, PastLemma
  <2>2. QED
    BY <1>2, <1>3, <1>4, <2>1
<1>5. CASE host.mode = "frame"
  <2>0. Age \in Nat
    BY <1>1 DEF Age
  <2>1. \A c \in 0 .. 1 : /\ 9 * period <= host.t - 8 * c /\ host.t - 8 * c < (9 + 1) * period
                          /\ Age >= c /\ c \in Nat
    BY <1>1, <1>2, <1>5, <2>0
  <2>2. FrameBit(host.byte, 9) = 1
    BY FrameBitLemma DEF HostInv
  <2>3. \A c \in 0 .. 1 : Past(c) = 1
    BY <1>5, <2>1, <2>2, PastLemma
  <2>4. QED
    BY <1>2, <1>3, <1>5, <2>3
<1>6. QED
  BY <1>4, <1>5 DEF Sending

LEMMA PipeLemma ==
  ASSUME HostInv, PipeInv, HostMoves, Synchronise, HostInv'
  PROVE  PipeInv'
<1>1. /\ rx_sync' = << line, rx_sync[1] >> /\ rx_d' = rx_sync[2]
      /\ rx_sync'[1] = line /\ rx_sync'[2] = rx_sync[1]
  BY DEF Synchronise, rx_level
<1>2. rx_sync[1] \in {0, 1} /\ rx_sync[2] \in {0, 1} /\ rx_d \in {0, 1}
  BY DEF PipeInv
<1>3. line = (IF Sending THEN Past(0) ELSE 1) /\ line \in {0, 1}
  BY LineLemma, PastLemma
<1>4. rx_sync' \in {0, 1} \X {0, 1} /\ rx_d' \in {0, 1}
  BY <1>1, <1>2, <1>3
<1>5. CASE ~Sending /\ ~Sending'
  BY <1>1, <1>3, <1>4, <1>5 DEF PipeInv, rx_level
<1>6. CASE Begins
  <2>1. Age' = 0 /\ ~Sending
    BY <1>6 DEF Begins, Age, Sending
  <2>2. rx_sync'[1] = 1
    BY <1>1, <1>3, <2>1
  <2>3. QED
    BY <1>1, <1>2, <1>4, <2>1, <2>2 DEF PipeInv, rx_level
<1>7. CASE Sending /\ Continues
  <2>1. /\ Sending' /\ Age' = Age + 1 /\ Age \in Nat
        /\ Past(1)' = Past(0) /\ Past(2)' = Past(1) /\ Past(3)' = Past(2)
    BY <1>7, ShiftLemma DEF HostMoves, Age, HostInv
  <2>2. rx_sync'[1] = Past(1)'
    BY <1>1, <1>3, <1>7, <2>1
  <2>3. rx_sync[1] = Past(1)
    BY <1>7, <2>1, PastLemma DEF PipeInv
  <2>4. Age >= 1 => rx_sync[2] = Past(2)
    BY <1>7 DEF PipeInv, rx_level
  <2>5. QED
    BY <1>1, <1>4, <2>1, <2>2, <2>3, <2>4 DEF PipeInv, rx_level
<1>8. CASE Sending /\ Ends
  <2>1. Age >= 3 /\ ~Sending'
    BY <1>8, EndLemma
  <2>2. line = rx_sync[1] /\ (rx_sync[1] = 1 \/ rx_sync[2] = 0)
    <3>0. Age \in Nat /\ Age >= 3
      BY <2>1 DEF Age, HostInv
    <3>1. rx_sync[1] = Past(1) /\ rx_sync[2] = Past(2) /\ line = Past(0)
      BY <1>3, <1>8, <3>0 DEF PipeInv, rx_level
    <3>2. Past(0) = Past(1) /\ (Past(1) = 1 \/ Past(2) = 0)
      BY <1>8, EndLemma DEF Sending
    <3>3. QED
      BY <3>1, <3>2
  <2>3. QED
    BY <1>1, <1>2, <1>4, <2>1, <2>2 DEF PipeInv, rx_level
<1>9. QED
  BY <1>5, <1>6, <1>7, <1>8 DEF HostMoves, Stays, Continues, Ends, Sending

----------------------------------------------------------------------------
(* Falling edges and the calibration.                                      *)

LEMMA StepIndex ==
  ASSUME NEW p \in Nat, p >= 16, NEW x \in Nat, NEW k \in Nat, x < k * p
  PROVE  /\ x \div p \in Nat /\ x \div p < k
         /\ (x + 8) \div p \in {x \div p, x \div p + 1}
<1> DEFINE q == x \div p
<1>1. q \in Nat /\ q * p <= x /\ x < (q + 1) * p
  OBVIOUS
<1> HIDE DEF q
<1>2. q < k
  <2> SUFFICES ASSUME q >= k PROVE FALSE
    BY <1>1
  <2>1. q * p >= k * p
    BY <1>1
  <2>2. QED
    BY <1>1, <2>1
<1>3. (x + 8) \div p \in {q, q + 1}
  <2>1. (q + 2) * p = (q + 1) * p + p
    BY <1>1
  <2>2. CASE x + 8 < (q + 1) * p
    BY <1>1, <2>2, IndexLemma
  <2>3. CASE x + 8 >= (q + 1) * p
    <3>1. x + 8 < (q + 2) * p
      BY <1>1, <2>1
    <3>2. (q + 1) + 1 = q + 2 /\ q + 1 \in Nat /\ x + 8 \in Nat
      BY <1>1
    <3>3. QED
      BY <2>3, <3>1, <3>2, IndexLemma
  <2>4. QED
    BY <1>1, <2>2, <2>3
<1>4. QED
  BY <1>1, <1>2, <1>3 DEF q

LEMMA FallLemma ==
  ASSUME HostInv, PipeInv
  PROVE  /\ rx_fall => Sending /\ Age >= 2
         /\ Sending /\ Age = 2 => rx_fall /\ rx_level = 0
         /\ host.mode = "break" /\ Age >= 2 => rx_level = 0 /\ (Age >= 3 => ~rx_fall)
         /\ host.mode = "frame" /\ Age >= 3 =>
              /\ Seen \in 0 .. 9 /\ Level \in 0 .. 9 /\ Level \in {Seen, Seen + 1}
              /\ rx_level = FrameBit(host.byte, Level)
              /\ rx_fall <=> FrameBit(host.byte, Seen) = 1 /\ FrameBit(host.byte, Level) = 0
         /\ Sending /\ Ends => ~rx_fall
<1>1. period \in Nat /\ period >= 16 /\ host.t \in Nat /\ host.byte \in Nat /\ Age \in Nat
  BY PeriodLemma DEF HostInv, Age
<1>2. ASSUME ~(Sending /\ Age >= 2) PROVE ~rx_fall
  <2>1. CASE Sending /\ Age = 1
    BY <2>1, PastLemma DEF PipeInv, rx_fall
  <2>2. CASE ~Sending \/ Age = 0
    BY <1>1, <2>2 DEF PipeInv, rx_fall
  <2>3. QED
    BY <1>1, <1>2, <2>1, <2>2
<1>3. ASSUME Sending, Age >= 2
      PROVE  rx_level = Past(2) /\ rx_d = Past(3)
  BY <1>1, <1>3 DEF PipeInv
<1>4. ASSUME Sending, Age = 2 PROVE rx_fall /\ rx_level = 0
  <2>1. Past(3) = 1
    BY <1>4, PastLemma
  <2>2. Past(2) = 0
    <3>1. CASE host.mode = "break"
      BY <1>4, <3>1, PastLemma
    <3>2. CASE host.mode = "frame"
      <4>1. 0 * period <= host.t - 8 * 2 /\ host.t - 8 * 2 < (0 + 1) * period
        BY <1>1, <1>4 DEF Age
      <4>2. FrameBit(host.byte, 0) = 0
        BY <1>1, FrameBitLemma
      <4>3. QED
        BY <1>4, <3>2, <4>1, <4>2, PastLemma
    <3>3. QED
      BY <1>4, <3>1, <3>2 DEF Sending
  <2>3. QED
    BY <1>3, <1>4, <2>1, <2>2 DEF rx_fall
<1>5. ASSUME host.mode = "break", Age >= 2 PROVE rx_level = 0 /\ (Age >= 3 => ~rx_fall)
  <2>1. Past(2) = 0 /\ (Age >= 3 => Past(3) = 0)
    BY <1>1, <1>5, PastLemma DEF Sending
  <2>2. QED
    BY <1>1, <1>3, <1>5, <2>1 DEF rx_fall, Sending
<1>6. ASSUME host.mode = "frame", Age >= 3
      PROVE  /\ Seen \in 0 .. 9 /\ Level \in 0 .. 9 /\ Level \in {Seen, Seen + 1}
             /\ rx_level = FrameBit(host.byte, Level) /\ rx_d = FrameBit(host.byte, Seen)
  <2>1. host.t - 24 \in Nat /\ host.t - 16 \in Nat /\ host.t < 10 * period
    BY <1>1, <1>6 DEF Age, HostInv
  <2>2. /\ Seen \in Nat /\ Seen < 10 /\ Level \in {Seen, Seen + 1}
    <3>1. (host.t - 24) + 8 = host.t - 16 /\ host.t - 24 < 10 * period
      BY <1>1, <2>1
    <3>2. QED
      BY <1>1, <2>1, <3>1, StepIndex DEF Seen, Level
  <2>3. Level \in Nat /\ Level < 10
    <3>1. host.t - 16 < 10 * period
      BY <1>1, <2>1
    <3>2. QED
      BY <1>1, <2>1, <3>1, StepIndex DEF Level
  <2>4. Past(2) = FrameBit(host.byte, Level) /\ Past(3) = FrameBit(host.byte, Seen)
    BY <1>1, <1>6 DEF Past, LineAt, Level, Seen
  <2>5. QED
    BY <1>1, <1>3, <1>6, <2>2, <2>3, <2>4 DEF Sending
<1>7. ASSUME Sending, Ends PROVE ~rx_fall
  <2>1. Age >= 3
    BY <1>7, EndLemma
  <2>2. CASE host.mode = "break"
    BY <1>1, <1>5, <2>1, <2>2
  <2>3. CASE host.mode = "frame"
    <3>1. Length = 10 * period /\ host.t + 8 >= Length /\ host.t < Length
      BY <1>7, <2>3, LengthLemma DEF Ends
    <3>2. 8 * period <= host.t - 24 /\ host.t - 24 \in Nat /\ host.t - 24 < 10 * period
      BY <1>1, <3>1
    <3>3. Seen \in {8, 9}
      <4>1. CASE host.t - 24 < 9 * period
        BY <1>1, <3>2, <4>1, IndexLemma DEF Seen
      <4>2. CASE host.t - 24 >= 9 * period
        BY <1>1, <3>2, <4>2, IndexLemma DEF Seen
      <4>3. QED
        BY <1>1, <3>2, <4>1, <4>2
    <3>4. Level = Seen \/ Level = 9
      BY <1>1, <1>6, <2>1, <2>3, <3>3
    <3>5. FrameBit(host.byte, 9) = 1
      BY <1>1, FrameBitLemma
    <3>6. rx_level = FrameBit(host.byte, Level) /\ rx_d = FrameBit(host.byte, Seen)
      BY <1>1, <1>6, <2>1, <2>3
    <3>7. QED
      BY <3>4, <3>5, <3>6 DEF rx_fall
  <2>4. QED
    BY <1>7, <2>2, <2>3 DEF Sending
<1>8. QED
  BY <1>1, <1>2, <1>4, <1>5, <1>6, <1>7 DEF rx_fall, Sending

(* The host's next clock, for an invariant of frames.                      *)
LEMMA NextSeen ==
  ASSUME HostInv, Sending, Continues, period' = period, Age >= 2
  PROVE  /\ host'.mode = host.mode /\ host'.byte = host.byte /\ host'.t = host.t + 8
         /\ Age' = Age + 1 /\ Sending' /\ Seen' = Level
         /\ Syncing' <=> Syncing
<1>1. /\ host'.mode = host.mode /\ host'.byte = host.byte /\ host'.t = host.t + 8
      /\ host.t \in Nat
  BY DEF Continues, HostInv
<1>2. host'.t - 24 = host.t - 16
  BY <1>1
<1>3. QED
  BY <1>1, <1>2, ShiftLemma DEF Seen, Level, Syncing

LEMMA PaceStep ==
  ASSUME NEW byte \in 0 .. 255, byte # Sync, NEW e,
         NEW b \in 0 .. 9, NEW d \in 0 .. 9, d \in {b, b + 1}, PaceAt(byte, b, e)
  PROVE  IF FrameBit(byte, b) = 1 /\ FrameBit(byte, d) = 0
           THEN e # 4 /\ PaceAt(byte, d, e + 1)
           ELSE PaceAt(byte, d, e)
<1> DEFINE f(k) == FrameBit(byte, k)
           A(k) == Alternates(byte, k)
<1>1. \A k \in Nat : f(k) \in {0, 1}
  BY FrameBitLemma
<1>2. f(9) = 1
  BY FrameBitLemma
<1>3. /\ e \in 1 .. 4 /\ b >= 2 * e - 2
      /\ b = 2 * e - 2 => A(b)
      /\ b = 2 * e - 1 /\ f(b) = 1 => A(b)
  BY DEF PaceAt
<1>4. ~A(8)
  BY SyncOnly DEF Alternates
<1>5. ASSUME NEW k \in 0 .. 8, A(k), f(k + 1) = (k + 1) % 2 PROVE A(k + 1)
  <2>1. ASSUME NEW j \in 0 .. k + 1 PROVE f(j) = j % 2
    <3>1. j \in 0 .. k \/ j = k + 1
      OBVIOUS
    <3>2. QED
      BY <1>5, <3>1 DEF Alternates
  <2>2. QED
    BY <2>1 DEF Alternates
<1>6. \A k \in 0 .. 9 : A(k) => f(k) = k % 2
  BY DEF Alternates
<1>7. ASSUME NEW x PROVE PaceAt(byte, d, x) <=> /\ x \in 1 .. 4 /\ d >= 2 * x - 2
                                                /\ d = 2 * x - 2 => A(d)
                                                /\ d = 2 * x - 1 /\ f(d) = 1 => A(d)
  BY DEF PaceAt
<1> HIDE DEF f, A
<1>8. CASE f(b) = 1 /\ f(d) = 0
  <2>1. d = b + 1 /\ f(b) = 1 /\ f(b + 1) = 0
    BY <1>8
  <2>2. b # 2 * e - 2
    <3> SUFFICES ASSUME b = 2 * e - 2 PROVE FALSE
      OBVIOUS
    <3>1. f(b) = b % 2 /\ b % 2 = 0
      BY <1>3, <1>6
    <3>2. QED
      BY <2>1, <3>1
  <2>3. b >= 2 * e - 1
    BY <1>3, <2>2
  <2>4. b = 2 * e - 1 => A(b + 1)
    <3> SUFFICES ASSUME b = 2 * e - 1 PROVE A(b + 1)
      OBVIOUS
    <3>1. A(b) /\ (b + 1) % 2 = 0 /\ b \in 0 .. 8
      BY <1>3, <2>1
    <3>2. QED
      BY <1>5, <2>1, <3>1
  <2>5. e # 4
    <3> SUFFICES ASSUME e = 4 PROVE FALSE
      OBVIOUS
    <3>1. b = 7
      BY <1>2, <2>1, <2>3
    <3>2. A(8)
      BY <2>4, <3>1
    <3>3. QED
      BY <1>4, <3>2
  <2>6. /\ e + 1 \in 1 .. 4 /\ d >= 2 * (e + 1) - 2
        /\ d = 2 * (e + 1) - 2 => A(d)
        /\ d = 2 * (e + 1) - 1 /\ f(d) = 1 => A(d)
    BY <1>3, <2>1, <2>3, <2>4, <2>5
  <2>7. PaceAt(byte, d, e + 1)
    BY <1>7, <2>6
  <2>8. QED
    BY <1>8, <2>5, <2>7 DEF f
<1>9. CASE ~(f(b) = 1 /\ f(d) = 0)
  <2>1. d >= 2 * e - 2
    BY <1>3
  <2>2. d = 2 * e - 2 => A(d)
    BY <1>3
  <2>3. ASSUME d = 2 * e - 1, f(d) = 1 PROVE A(d)
    <3>1. CASE d = b
      BY <1>3, <2>3, <3>1
    <3>2. CASE d = b + 1
      <4>1. A(b) /\ b \in 0 .. 8 /\ (b + 1) % 2 = 1
        BY <1>3, <2>3, <3>2
      <4>2. QED
        BY <1>5, <2>3, <3>2, <4>1
    <3>3. QED
      BY <3>1, <3>2
  <2>4. PaceAt(byte, d, e)
    BY <1>3, <1>7, <2>1, <2>2, <2>3
  <2>5. QED
    BY <1>9, <2>4 DEF f
<1>10. QED
  BY <1>8, <1>9

(* The first falling edge of a frame.                                      *)
LEMMA PaceStart ==
  ASSUME NEW byte \in 0 .. 255, NEW d \in 0 .. 9
  PROVE  PaceAt(byte, d, 1)
<1>1. FrameBit(byte, 0) = 0
  BY FrameBitLemma
<1>2. d = 0 => Alternates(byte, d)
  BY <1>1 DEF Alternates
<1>3. d = 1 /\ FrameBit(byte, d) = 1 => Alternates(byte, d)
  <2> SUFFICES ASSUME d = 1, FrameBit(byte, 1) = 1, NEW j \in 0 .. 1 PROVE FrameBit(byte, j) = j % 2
    BY DEF Alternates
  <2>1. j = 0 \/ j = 1
    OBVIOUS
  <2>2. QED
    BY <1>1, <2>1
<1>4. QED
  BY <1>2, <1>3 DEF PaceAt

LEMMA CalibrateLemma ==
  ASSUME CalInv, Calibrate
  PROVE  /\ baud_locked' \in BOOLEAN /\ baud_div' \in Nat /\ cal' \in [active : BOOLEAN, cnt : 0 .. CalMax, edge : 0 .. 4]
         /\ baud_locked => baud_locked' /\ baud_div' = baud_div
         /\ ~baud_locked /\ ~cal.active /\ ~rx_fall => ~baud_locked' /\ baud_div' = 0 /\ ~cal'.active
         /\ ~baud_locked /\ ~cal.active /\ rx_fall =>
              ~baud_locked' /\ baud_div' = 0 /\ cal'.active /\ cal'.cnt = 0 /\ cal'.edge = 1
         /\ ~baud_locked /\ cal.active =>
              /\ baud_locked' <=> rx_fall /\ cal.edge = 4
              /\ baud_div' = IF rx_fall /\ cal.edge = 4 THEN cal.cnt \div 8 ELSE 0
              /\ cal'.active <=> ~(rx_fall /\ cal.edge = 4) /\ cal.cnt # CalMax
              /\ cal.cnt # CalMax => cal'.cnt = cal.cnt + 1
              /\ cal'.edge = IF rx_fall /\ cal.edge # 4 THEN cal.edge + 1 ELSE cal.edge
<1>1. CalMax \in Nat
  BY UartAssumption
<1>2. /\ baud_locked \in BOOLEAN /\ cal.active \in BOOLEAN /\ cal.cnt \in 0 .. CalMax /\ cal.edge \in 0 .. 4
      /\ cal \in [active : BOOLEAN, cnt : 0 .. CalMax, edge : 0 .. 4]
      /\ baud_div \in Nat /\ (~baud_locked => baud_div = 0)
  BY DEF CalInv
<1>3. CASE baud_locked \/ (~cal.active /\ ~rx_fall)
  <2>1. baud_locked' = baud_locked /\ baud_div' = baud_div /\ cal' = cal
    BY <1>3 DEF Calibrate, CalibrateOn, calVars
  <2>2. QED
    BY <1>2, <1>3, <2>1
<1>4. CASE ~baud_locked /\ ~cal.active /\ rx_fall
  <2>1. cal' = [active |-> TRUE, cnt |-> 0, edge |-> 1] /\ baud_locked' = baud_locked /\ baud_div' = baud_div
    BY <1>4 DEF Calibrate, CalibrateOn
  <2>2. QED
    BY <1>1, <1>2, <1>4, <2>1
<1>5. CASE ~baud_locked /\ cal.active
  <2>1. /\ baud_locked' = (rx_fall /\ cal.edge = 4)
        /\ baud_div' = IF baud_locked' THEN cal.cnt \div 8 ELSE baud_div
        /\ cal' = [active |-> ~baud_locked' /\ cal.cnt # CalMax,
                   cnt    |-> (cal.cnt + 1) % (CalMax + 1),
                   edge   |-> IF rx_fall /\ ~baud_locked' THEN cal.edge + 1 ELSE cal.edge]
    BY <1>5 DEF Calibrate, CalibrateOn
  <2>2. (cal.cnt + 1) % (CalMax + 1) \in 0 .. CalMax
    BY <1>1, <1>2
  <2>3. cal.cnt # CalMax => (cal.cnt + 1) % (CalMax + 1) = cal.cnt + 1
    BY <1>1, <1>2
  <2>4. baud_locked' <=> rx_fall /\ cal.edge = 4
    BY <2>1
  <2>5. baud_div' \in Nat
    BY <1>1, <1>2, <2>1
  <2>6. QED
    BY <1>2, <1>5, <2>1, <2>2, <2>3, <2>4, <2>5
<1>6. QED
  BY <1>2, <1>3, <1>4, <1>5

(* Clocks and eighths of them.                                             *)
LEMMA AgeLemma ==
  ASSUME HostInv
  PROVE  /\ period \in Nat /\ period >= 16 /\ period < CalMax /\ CalMax \in Nat
         /\ host.t \in Nat /\ host.byte \in Nat /\ Age \in Nat
         /\ host.t >= 8 * Age /\ host.t < 8 * Age + 8
         /\ Age >= 3 => host.t - 24 \in Nat
BY PeriodLemma DEF HostInv, Age

(* The frame of 0x55, from its first edge to the lock.                     *)
LEMMA CalSync ==
  ASSUME HostInv, PipeInv, CalInv, Calibrate, ~baud_locked, Syncing, Age >= 3, HostMoves
  PROVE  /\ Continues
         /\ IF baud_locked' THEN baud_div' + 1 = (period + 7) \div 8 /\ host.t + 8 >= 8 * period + 24
            ELSE baud_div' = 0 /\ SyncPace'
<1> DEFINE x == host.t - 24
           e == cal.edge
<1>1. /\ period \in Nat /\ period >= 16 /\ period < CalMax /\ CalMax \in Nat
      /\ host.t \in Nat /\ x \in Nat /\ Age \in Nat
      /\ host.t >= 8 * Age /\ host.t < 8 * Age + 8
  BY AgeLemma
<1>2. /\ cal.active /\ cal.cnt = Age - 3 /\ x < 8 * period
      /\ e = IF x < 2 * period THEN 1 ELSE IF x < 4 * period THEN 2
             ELSE IF x < 6 * period THEN 3 ELSE 4
  BY DEF CalInv, SyncPace, Syncing, Sending
<1>3. host.mode = "frame" /\ host.byte = Sync /\ Sending
  BY DEF Syncing, Sending
<1>4. Continues
  <2>1. Length = 10 * period
    BY <1>3 DEF Length
  <2>2. ~Stays /\ ~Begins /\ ~Ends
    BY <1>1, <1>2, <1>3, <2>1 DEF Stays, Begins, Ends
  <2>3. QED
    BY <2>2 DEF HostMoves
<1>5. /\ host'.mode = "frame" /\ host'.byte = Sync /\ host'.t = host.t + 8 /\ Age' = Age + 1
      /\ period' = period
  BY <1>1, <1>3, <1>4, NextSeen DEF HostMoves
<1>6. rx_fall <=> \E k \in {2, 4, 6, 8} : x < k * period /\ x + 8 >= k * period
  <2>0. /\ Seen \in 0 .. 9 /\ Level \in 0 .. 9 /\ Level \in {Seen, Seen + 1}
        /\ rx_fall <=> Seen % 2 = 1 /\ Level % 2 = 0
    BY <1>3, FallLemma, SyncBits
  <2>1. Seen = x \div period /\ Level = (x + 8) \div period
    <3>1. host.t - 16 = x + 8
      BY <1>1
    <3>2. QED
      BY <3>1 DEF Seen, Level
  <2>2. /\ Seen * period <= x /\ x < (Seen + 1) * period
        /\ Level * period <= x + 8 /\ x + 8 < (Level + 1) * period
    <3>1. (x \div period) * period <= x /\ x < (x \div period + 1) * period
      <4>1. period >= 1
        BY <1>1
      <4>2. QED
        BY <1>1, <4>1, DivLemma
    <3>2. /\ ((x + 8) \div period) * period <= x + 8
          /\ x + 8 < ((x + 8) \div period + 1) * period
      <4>1. x + 8 \in Nat /\ period >= 1
        BY <1>1
      <4>2. QED
        BY <1>1, <4>1, DivLemma
    <3>3. QED
      BY <2>1, <3>1, <3>2
  <2>3. ASSUME NEW k \in {2, 4, 6, 8}, x < k * period, x + 8 >= k * period
        PROVE  rx_fall
    <3>1. (k - 1) * period <= x /\ x < ((k - 1) + 1) * period /\ k - 1 \in Nat
      BY <1>1, <2>3
    <3>2. x \div period = k - 1
      BY <1>1, <3>1, IndexLemma
    <3>3. (x + 8) \div period = k
      <4>1. x + 8 < (k + 1) * period /\ x + 8 \in Nat /\ k \in Nat
        BY <1>1, <2>3
      <4>2. QED
        BY <1>1, <2>3, <4>1, IndexLemma
    <3>4. QED
      BY <2>0, <2>1, <3>2, <3>3
  <2>4. ASSUME rx_fall PROVE \E k \in {2, 4, 6, 8} : x < k * period /\ x + 8 >= k * period
    <3>1. Level = Seen + 1 /\ Level \in {2, 4, 6, 8, 10}
      BY <2>0, <2>4
    <3>2. Level # 10
      BY <2>0
    <3>3. x < Level * period /\ x + 8 >= Level * period
      BY <1>1, <2>2, <3>1
    <3>4. QED
      BY <3>1, <3>2, <3>3
  <2>5. QED
    BY <2>3, <2>4
<1> HIDE DEF x, e
<1>7. x >= 8 * (Age - 3) /\ x < 8 * (Age - 3) + 8
  BY <1>1 DEF x
<1>8. rx_fall /\ e = 4 <=> x + 8 >= 8 * period
  BY <1>1, <1>2, <1>6
<1>9. cal.cnt # CalMax
  BY <1>1, <1>2, <1>7
<1>10. /\ baud_locked' <=> rx_fall /\ e = 4
       /\ baud_div' = IF rx_fall /\ e = 4 THEN cal.cnt \div 8 ELSE 0
       /\ cal'.active <=> ~(rx_fall /\ e = 4)
       /\ cal'.cnt = cal.cnt + 1
       /\ cal'.edge = IF rx_fall /\ e # 4 THEN e + 1 ELSE e
  BY <1>2, <1>9, CalibrateLemma DEF e
<1>11. CASE x + 8 >= 8 * period
  <2>1. Age - 3 = period - 1
    BY <1>1, <1>2, <1>7, <1>11
  <2>2. (period - 1) \div 8 + 1 = (period + 7) \div 8
    BY <1>1
  <2>3. QED
    BY <1>2, <1>4, <1>8, <1>10, <1>11, <2>1, <2>2, <1>1 DEF x
<1>12. CASE x + 8 < 8 * period
  <2>1. host'.t - 24 = x + 8
    BY <1>1, <1>5 DEF x
  <2>2. cal'.active /\ cal'.cnt = Age' - 3
    BY <1>1, <1>2, <1>5, <1>8, <1>10, <1>12
  <2>3. cal'.edge = IF x + 8 < 2 * period THEN 1 ELSE IF x + 8 < 4 * period THEN 2
                    ELSE IF x + 8 < 6 * period THEN 3 ELSE 4
    BY <1>1, <1>2, <1>6, <1>10, <1>12
  <2>4. SyncPace'
    BY <1>5, <1>12, <2>1, <2>2, <2>3 DEF SyncPace
  <2>5. QED
    BY <1>1, <1>4, <1>8, <1>10, <1>12, <2>4
<1>13. QED
  BY <1>1, <1>11, <1>12

(* What ends the calibration well.                                         *)
Locks == ~baud_locked /\ baud_locked' =>
           /\ Syncing /\ Continues /\ host.t + 8 >= 8 * period + 24
           /\ baud_div' + 1 = (period + 7) \div 8

LEMMA CalLemma ==
  ASSUME HostInv, PipeInv, CalInv, Calibrate, HostMoves, HostInv'
  PROVE  CalInv' /\ Locks /\ (baud_locked => baud_locked' /\ baud_div' = baud_div)
<1>1. /\ period \in Nat /\ period >= 16 /\ period < CalMax /\ CalMax \in Nat
      /\ host.t \in Nat /\ Age \in Nat /\ period' = period
      /\ host.t >= 8 * Age /\ host.t < 8 * Age + 8
  BY AgeLemma DEF HostMoves
<1>2. /\ baud_locked' \in BOOLEAN /\ baud_div' \in Nat /\ cal' \in [active : BOOLEAN, cnt : 0 .. CalMax, edge : 0 .. 4]
      /\ baud_locked => baud_locked' /\ baud_div' = baud_div
      /\ ~baud_locked /\ ~cal.active /\ ~rx_fall => ~baud_locked' /\ baud_div' = 0 /\ ~cal'.active
      /\ ~baud_locked /\ ~cal.active /\ rx_fall =>
           ~baud_locked' /\ baud_div' = 0 /\ cal'.active /\ cal'.cnt = 0 /\ cal'.edge = 1
      /\ ~baud_locked /\ cal.active =>
           /\ baud_locked' <=> rx_fall /\ cal.edge = 4
           /\ baud_div' = IF rx_fall /\ cal.edge = 4 THEN cal.cnt \div 8 ELSE 0
           /\ cal'.active <=> ~(rx_fall /\ cal.edge = 4) /\ cal.cnt # CalMax
           /\ cal.cnt # CalMax => cal'.cnt = cal.cnt + 1
           /\ cal'.edge = IF rx_fall /\ cal.edge # 4 THEN cal.edge + 1 ELSE cal.edge
  BY CalibrateLemma
<1>3. /\ cal.cnt \in 0 .. CalMax /\ cal'.cnt \in 0 .. CalMax
      /\ cal.active \in BOOLEAN /\ cal'.active \in BOOLEAN /\ baud_locked \in BOOLEAN
  BY <1>2 DEF CalInv
<1>4. CASE baud_locked
  <2>1. host'.mode # "quiet" /\ baud_div + 1 = (period + 7) \div 8
    BY <1>4 DEF HostMoves, Stays, Begins, Continues, Ends, CalInv
  <2>2. QED
    BY <1>1, <1>2, <1>4, <2>1 DEF CalInv, Locks
<1>5. CASE ~baud_locked /\ ~Sending /\ ~Sending'
  <2>1. ~rx_fall
    BY <1>5, FallLemma
  <2>2. ~baud_locked' /\ baud_div' = 0 /\ (~cal.active => ~cal'.active)
    BY <1>2, <1>3, <1>5, <2>1
  <2>3. host.mode = "idle" => ~cal.active
    BY <1>5 DEF CalInv
  <2>4. CASE host.mode = "idle"
    <3>1. host'.mode \in {"idle", "frame", "break", "quiet"} /\ host'.mode # "quiet"
      BY <1>5, <2>4 DEF HostMoves, Stays, Begins, Continues, Ends, Sending
    <3>2. QED
      BY <1>2, <1>5, <2>2, <2>3, <2>4, <3>1 DEF CalInv, Locks
  <2>5. CASE host.mode = "quiet"
    <3>1. Length = 8 * (CalMax + 3) /\ host.t = 8 * Age
      BY <1>1, <2>5 DEF Length, HostInv, Age
    <3>2. cal.active => cal.cnt >= Age
      BY <1>5, <2>5 DEF CalInv
    <3>3. CASE Continues
      <4>1. host'.mode = "quiet" /\ Age' = Age + 1
        BY <1>1, <2>5, <3>3 DEF Continues, Age
      <4>2. cal'.active => cal'.cnt >= Age'
        BY <1>1, <1>2, <1>3, <1>5, <2>1, <3>2, <4>1
      <4>3. QED
        BY <1>2, <1>5, <2>2, <4>1, <4>2 DEF CalInv, Locks
    <3>4. CASE Ends
      <4>1. ~cal.active
        BY <1>1, <1>3, <3>1, <3>2, <3>4 DEF Ends
      <4>2. host'.mode = "idle"
        BY <2>5, <3>4 DEF Ends
      <4>3. QED
        BY <1>2, <1>5, <2>2, <4>1, <4>2 DEF CalInv, Locks
    <3>5. QED
      BY <1>1, <2>5, <3>3, <3>4 DEF HostMoves, Stays, Begins
  <2>6. QED
    BY <1>5, <2>4, <2>5 DEF Sending, HostInv
<1>6. CASE ~baud_locked /\ Begins
  <2>1. ~rx_fall /\ ~cal.active
    BY <1>6, FallLemma DEF Begins, CalInv, Sending
  <2>2. Age' = 0 /\ Sending' /\ host'.mode # "idle" /\ host'.mode # "quiet"
    BY <1>6 DEF Begins, Age, Sending
  <2>3. QED
    BY <1>2, <1>6, <2>1, <2>2 DEF CalInv, Locks
<1>7. CASE ~baud_locked /\ Sending /\ Age < 3 /\ Continues
  <2>0. /\ host'.mode = host.mode /\ host'.byte = host.byte /\ host'.t = host.t + 8
        /\ Age' = Age + 1 /\ Sending'
    BY <1>1, <1>7 DEF Continues, Age, Sending
  <2>1. ~cal.active
    BY <1>7 DEF CalInv
  <2>2. CASE Age < 2
    <3>1. ~rx_fall
      BY <1>1, <2>2, FallLemma
    <3>2. ~baud_locked' /\ baud_div' = 0 /\ ~cal'.active /\ Age' < 3
      BY <1>1, <1>2, <1>7, <2>0, <2>1, <2>2, <3>1
    <3>3. QED
      BY <1>1, <1>2, <1>7, <2>0, <3>2 DEF CalInv, Locks, Sending
  <2>3. CASE Age = 2
    <3>1. ~baud_locked' /\ baud_div' = 0 /\ cal'.active /\ cal'.cnt = 0 /\ cal'.edge = 1
      BY <1>2, <1>7, <2>1, <2>3, FallLemma
    <3>2. SyncPace'
      <4>1. host'.t - 24 < 8
        BY <1>1, <2>0, <2>3
      <4>2. host'.t - 24 < 8 * period' /\ host'.t - 24 < 2 * period' /\ Age' - 3 = 0
        BY <1>1, <2>0, <2>3, <4>1
      <4>3. QED
        BY <3>1, <4>2 DEF SyncPace
    <3>3. host'.mode = "frame" => Pace'
      <4>1. SUFFICES ASSUME host'.mode = "frame" PROVE Pace'
        OBVIOUS
      <4>2. host'.byte \in 0 .. 255
        BY <4>1 DEF HostInv
      <4>3. Seen' = 0
        <5>1. host'.t - 24 \in Nat /\ host'.t - 24 < period' /\ period' \in Nat
          BY <1>1, <2>0, <2>3
        <5>2. 0 * period' <= host'.t - 24 /\ host'.t - 24 < (0 + 1) * period'
          BY <5>1
        <5>3. QED
          BY <5>1, <5>2, IndexLemma DEF Seen
      <4>4. PaceAt(host'.byte, 0, 1)
        <5>1. 0 \in 0 .. 9
          OBVIOUS
        <5>2. QED
          BY <4>2, <5>1, PaceStart
      <4>5. QED
        BY <3>1, <4>3, <4>4 DEF Pace
    <3>4. QED
      BY <1>1, <1>2, <1>7, <2>0, <2>3, <3>1, <3>2, <3>3 DEF CalInv, Locks, Sending
  <2>4. QED
    BY <1>1, <1>7, <2>2, <2>3
<1>8. CASE ~baud_locked /\ Syncing /\ Age >= 3
  <2>1. /\ Continues
        /\ IF baud_locked' THEN baud_div' + 1 = (period + 7) \div 8 /\ host.t + 8 >= 8 * period + 24
           ELSE baud_div' = 0 /\ SyncPace'
    BY <1>8, CalSync
  <2>2. Sending' /\ Syncing' /\ Age' = Age + 1 /\ Age' >= 3 /\ host'.mode = "frame"
    BY <1>1, <1>8, <2>1 DEF Continues, Syncing, Sending, Age
  <2>3. Locks
    BY <1>8, <2>1 DEF Locks
  <2>4. CASE baud_locked'
    BY <1>1, <1>2, <1>8, <2>1, <2>2, <2>3, <2>4 DEF CalInv
  <2>5. CASE ~baud_locked'
    BY <1>1, <1>2, <1>8, <2>1, <2>2, <2>3, <2>5 DEF CalInv
  <2>6. QED
    BY <2>4, <2>5
<1>9. CASE ~baud_locked /\ Sending /\ ~Syncing /\ Age >= 3 /\ Continues
  <2>1. /\ host'.mode = host.mode /\ host'.byte = host.byte /\ host'.t = host.t + 8
        /\ Age' = Age + 1 /\ Sending' /\ Seen' = Level /\ ~Syncing' /\ Age' >= 3
    BY <1>1, <1>9, NextSeen
  <2>2. CASE host.mode = "break"
    <3>1. ~rx_fall /\ (cal.active => cal.edge = 1)
      BY <1>1, <1>9, <2>2, FallLemma DEF CalInv
    <3>2. QED
      BY <1>2, <1>3, <1>9, <2>1, <2>2, <3>1 DEF CalInv, Locks
  <2>3. CASE host.mode = "frame"
    <3>1. /\ Seen \in 0 .. 9 /\ Level \in 0 .. 9 /\ Level \in {Seen, Seen + 1}
          /\ rx_fall <=> FrameBit(host.byte, Seen) = 1 /\ FrameBit(host.byte, Level) = 0
      BY <1>9, <2>3, FallLemma
    <3>2. host.byte \in 0 .. 255 /\ host.byte # Sync
      BY <1>9, <2>3 DEF HostInv, Syncing
    <3>3. CASE cal.active
      <4>1. PaceAt(host.byte, Seen, cal.edge)
        BY <1>9, <2>3, <3>3 DEF CalInv, Pace
      <4>2. IF rx_fall THEN cal.edge # 4 /\ PaceAt(host.byte, Level, cal.edge + 1)
            ELSE PaceAt(host.byte, Level, cal.edge)
        BY <3>1, <3>2, <4>1, PaceStep
      <4>3. ~baud_locked' /\ baud_div' = 0
        BY <1>2, <1>3, <1>9, <3>3, <4>2
      <4>4. PaceAt(host.byte, Level, cal'.edge)
        BY <1>2, <1>9, <3>3, <4>2
      <4>5. Pace'
        BY <2>1, <4>4 DEF Pace
      <4>6. QED
        BY <1>2, <1>9, <2>1, <2>3, <4>3, <4>5 DEF CalInv, Locks
    <3>4. CASE ~cal.active /\ rx_fall
      <4>1. ~baud_locked' /\ baud_div' = 0 /\ cal'.edge = 1
        BY <1>2, <1>9, <3>4
      <4>2. Pace'
        <5>1. PaceAt(host.byte, Level, 1)
          BY <3>1, <3>2, PaceStart
        <5>2. QED
          BY <2>1, <4>1, <5>1 DEF Pace
      <4>3. QED
        BY <1>2, <1>9, <2>1, <2>3, <4>1, <4>2 DEF CalInv, Locks
    <3>5. CASE ~cal.active /\ ~rx_fall
      <4>1. ~baud_locked' /\ baud_div' = 0 /\ ~cal'.active
        BY <1>2, <1>9, <3>5
      <4>2. QED
        BY <1>2, <1>9, <2>1, <2>3, <4>1 DEF CalInv, Locks
    <3>6. QED
      BY <1>3, <3>3, <3>4, <3>5
  <2>4. QED
    BY <1>9, <2>2, <2>3 DEF Sending
<1>10. CASE ~baud_locked /\ Sending /\ ~Syncing /\ Ends
  <2>1. ~rx_fall /\ ~baud_locked' /\ baud_div' = 0
    BY <1>2, <1>3, <1>10, FallLemma
  <2>2. host'.mode = "quiet" /\ Age' = 0
    BY <1>10 DEF Ends, Sending, Age
  <2>3. QED
    BY <1>2, <1>3, <1>10, <2>1, <2>2 DEF CalInv, Locks, Sending
<1>11. Sending /\ Ends => Age >= 3
  BY EndLemma
<1>12. Sending => Continues \/ Ends
  BY DEF HostMoves, Stays, Begins, Sending
<1>13. ~Sending /\ Sending' => Begins
  BY DEF HostMoves, Stays, Continues, Ends, Sending, Begins
<1>14. QED
  BY <1>1, <1>3, <1>4, <1>5, <1>6, <1>7, <1>8, <1>9, <1>10, <1>11, <1>12, <1>13 DEF Syncing, Sending

----------------------------------------------------------------------------
(* The UART's bit period, in clocks, and the host's, in eighths of a clock. *)

LEMMA BaudLemma ==
  ASSUME HostInv, CalInv, baud_locked
  PROVE  /\ period \in Nat /\ period >= 16 /\ baud_div \in 1 .. DivMax
         /\ period <= 8 * (baud_div + 1) /\ 8 * (baud_div + 1) - 7 <= period
         /\ period = 8 * (baud_div + 1) \/ baud_div >= 19
         /\ period % 8 # 0 => baud_div >= 19
<1>1. /\ period \in Nat /\ period >= 16 /\ period < CalMax /\ CalMax \in Nat /\ CalMax <= 8191
      /\ (period % 8 = 0) \/ period > 152
  BY PeriodLemma, UartAssumption DEF HostInv
<1>2. baud_div \in Nat /\ baud_div + 1 = (period + 7) \div 8
  BY DEF CalInv
<1>3. baud_div >= 1 /\ baud_div <= 1023
  BY <1>1, <1>2
<1>4. DivMax >= 1023
  BY DEF DivMax
<1>5. baud_div \in 1 .. DivMax
  BY <1>2, <1>3, <1>4
<1>6. QED
  BY <1>1, <1>2, <1>5

----------------------------------------------------------------------------
(* The transmitter and the core's reads.                                   *)

LEMMA HalveLemma ==
  ASSUME NEW byte \in 0 .. 255, NEW k \in 0 .. 7
  PROVE  (byte \div (2 ^ k)) \div 2 = byte \div (2 ^ (k + 1))
<1>1. \/ k = 0 \/ k = 1 \/ k = 2 \/ k = 3 \/ k = 4 \/ k = 5 \/ k = 6 \/ k = 7
  OBVIOUS
<1>2. /\ (byte \div 1) \div 2 = byte \div 2
      /\ (byte \div 2) \div 2 = byte \div 4
      /\ (byte \div 4) \div 2 = byte \div 8
      /\ (byte \div 8) \div 2 = byte \div 16
      /\ (byte \div 16) \div 2 = byte \div 32
      /\ (byte \div 32) \div 2 = byte \div 64
      /\ (byte \div 64) \div 2 = byte \div 128
      /\ (byte \div 128) \div 2 = byte \div 256
  OBVIOUS
<1>3. CASE k = 0
  BY <1>2, <1>3, PowerLemma
<1>4. CASE k = 1
  BY <1>2, <1>4, PowerLemma
<1>5. CASE k = 2
  BY <1>2, <1>5, PowerLemma
<1>6. CASE k = 3
  BY <1>2, <1>6, PowerLemma
<1>7. CASE k = 4
  BY <1>2, <1>7, PowerLemma
<1>8. CASE k = 5
  BY <1>2, <1>8, PowerLemma
<1>9. CASE k = 6
  BY <1>2, <1>9, PowerLemma
<1>10. CASE k = 7
  BY <1>2, <1>10, PowerLemma
<1>11. QED
  BY <1>1, <1>3, <1>4, <1>5, <1>6, <1>7, <1>8, <1>9, <1>10

(* A frame with another timer.                                             *)
LEMMA FrameLemma ==
  ASSUME NEW f \in Frame, NEW v
  PROVE  [f EXCEPT !.timer = v] = [busy |-> f.busy, timer |-> v, bit |-> f.bit, sr |-> f.sr]
  BY DEF Frame

LEMMA TxLemma ==
  ASSUME TxInv, Transmit, baud_locked \in BOOLEAN, baud_div \in 0 .. DivMax,
         baud_locked => baud_locked' /\ baud_div' = baud_div
  PROVE  TxInv'
<1>1. /\ tx \in Frame /\ tx_pin \in {0, 1} /\ tx_age \in Nat
      /\ tx.busy \in BOOLEAN /\ tx.timer \in 0 .. DivMax /\ tx.bit \in 0 .. 10 /\ tx.sr \in 0 .. 255
  BY DEF TxInv, Frame
<1>2. tx.busy => /\ baud_locked /\ tx_byte \in 0 .. 255 /\ tx.bit \in 0 .. 9
                 /\ tx.timer <= baud_div
                 /\ tx_age + tx.timer = tx.bit * (baud_div + 1) + baud_div
                 /\ tx_pin = FrameBit(tx_byte, tx.bit)
                 /\ tx.bit <= 8 => tx.sr = tx_byte \div (2 ^ tx.bit)
  BY DEF TxInv
<1>3. ASSUME tx_ready, NEW b \in Writes, Accept(b), tx_byte' = b, tx_age' = 0 PROVE TxInv'
  <2>1. b \in 0 .. 255
    BY UartAssumption
  <2>2. tx' = [busy |-> TRUE, timer |-> baud_div, bit |-> 0, sr |-> b] /\ tx_pin' = 0
    BY <1>3 DEF Accept
  <2>3. baud_locked' /\ baud_div' = baud_div
    BY <1>3 DEF tx_ready
  <2>4. b \div (2 ^ 0) = b
    BY <2>1, PowerLemma
  <2>5. FrameBit(b, 0) = 0
    BY DEF FrameBit
  <2>6. tx' \in Frame
    BY <2>1, <2>2 DEF Frame
  <2>7. QED
    BY <1>3, <2>1, <2>2, <2>3, <2>4, <2>5, <2>6 DEF TxInv
<1>4. ASSUME Shift, tx_age' = IF tx.busy THEN tx_age + 1 ELSE 0,
             tx_byte' = IF tx'.busy THEN tx_byte ELSE None
      PROVE  TxInv'
  <2>1. CASE ~tx.busy
    <3>1. tx' = tx /\ tx_pin' = tx_pin
      BY <1>4, <2>1 DEF Shift
    <3>2. QED
      BY <1>1, <1>4, <2>1, <3>1 DEF TxInv
  <2>2. CASE tx.busy /\ tx.timer # 0
    <3>1. tx' = [tx EXCEPT !.timer = @ - 1] /\ tx_pin' = tx_pin
      BY <1>4, <2>2 DEF Shift
    <3>2. /\ tx' \in Frame /\ tx'.busy /\ tx'.timer = tx.timer - 1
          /\ tx'.bit = tx.bit /\ tx'.sr = tx.sr
      <4>1. tx.timer - 1 \in 0 .. DivMax
        BY <1>1, <2>2
      <4>2. tx' = [busy |-> tx.busy, timer |-> tx.timer - 1, bit |-> tx.bit, sr |-> tx.sr]
        BY <1>1, <3>1, FrameLemma
      <4>3. QED
        BY <1>1, <2>2, <4>1, <4>2 DEF Frame
    <3>3. tx_age' + tx'.timer = tx_age + tx.timer /\ tx'.timer <= baud_div /\ tx_age' \in Nat
      <4>1. tx_age' = tx_age + 1 /\ tx_age \in Nat
        BY <1>1, <1>4, <2>2
      <4>2. tx'.timer = tx.timer - 1
        BY <3>2
      <4>3. tx.timer \in 0 .. DivMax
        BY <1>1
      <4>4. tx.timer <= baud_div
        BY <1>2, <2>2, Zenon
      <4>5. QED
        BY <4>1, <4>2, <4>3, <4>4
    <3>4. tx_byte' = tx_byte /\ baud_locked' /\ baud_div' = baud_div
      BY <1>2, <1>4, <2>2, <3>2
    <3>5. QED
      BY <1>1, <1>2, <2>2, <3>1, <3>2, <3>3, <3>4 DEF TxInv
  <2>3. CASE tx.busy /\ tx.timer = 0
    <3>1. /\ tx' = [busy  |-> tx.bit # 9,
                    timer |-> baud_div,
                    bit   |-> tx.bit + 1,
                    sr    |-> IF tx.bit <= 7 THEN tx.sr \div 2 ELSE tx.sr]
          /\ tx_pin' = IF tx.bit <= 7 THEN tx.sr % 2 ELSE 1
      BY <1>4, <2>3 DEF Shift
    <3>2. tx' \in Frame /\ tx_pin' \in {0, 1} /\ tx_age' = tx_age + 1 /\ tx_age' \in Nat
      BY <1>1, <1>2, <1>4, <2>3, <3>1 DEF Frame
    <3>3. CASE tx.bit = 9
      BY <3>1, <3>2, <3>3 DEF TxInv
    <3>4. CASE tx.bit \in 0 .. 8
      <4>0. tx' = [busy  |-> TRUE,
                   timer |-> baud_div,
                   bit   |-> tx.bit + 1,
                   sr    |-> IF tx.bit <= 7 THEN tx.sr \div 2 ELSE tx.sr]
        <5>1. (tx.bit # 9) = TRUE
          BY <3>4
        <5>2. QED
          BY <3>1, <5>1
      <4>1. tx_byte' = tx_byte /\ baud_locked' /\ baud_div' = baud_div
        <5>1. tx'.busy
          BY <4>0
        <5>2. QED
          BY <1>2, <1>4, <2>3, <5>1
      <4>2. tx_age + 1 + baud_div = (tx.bit + 1) * (baud_div + 1) + baud_div
        <5>1. tx_age = tx.bit * (baud_div + 1) + baud_div
          BY <1>1, <1>2, <2>3
        <5>2. (tx.bit + 1) * (baud_div + 1) = tx.bit * (baud_div + 1) + (baud_div + 1)
          BY <1>1
        <5>3. QED
          BY <1>1, <5>1, <5>2
      <4>3. tx_pin' = FrameBit(tx_byte, tx.bit + 1)
        <5>1. CASE tx.bit \in 0 .. 7
          <6>1. tx_pin' = (tx_byte \div (2 ^ tx.bit)) % 2
            BY <1>2, <2>3, <3>1, <5>1
          <6>2. FrameBit(tx_byte, tx.bit + 1) = Bit(tx_byte, tx.bit)
            BY <5>1 DEF FrameBit
          <6>3. QED
            BY <6>1, <6>2 DEF Bit
        <5>2. CASE tx.bit = 8
          BY <3>1, <5>2 DEF FrameBit
        <5>3. QED
          BY <3>4, <5>1, <5>2
      <4>4. tx.bit <= 7 => tx.sr \div 2 = tx_byte \div (2 ^ (tx.bit + 1))
        <5>1. SUFFICES ASSUME tx.bit <= 7 PROVE tx.sr \div 2 = tx_byte \div (2 ^ (tx.bit + 1))
          OBVIOUS
        <5>2. tx.bit \in 0 .. 7 /\ tx_byte \in 0 .. 255
          BY <1>2, <2>3, <3>4, <5>1
        <5>3. tx.sr = tx_byte \div (2 ^ tx.bit)
          BY <1>2, <2>3, <5>2
        <5>4. QED
          BY <5>2, <5>3, HalveLemma
      <4>5. /\ tx'.busy /\ tx'.timer = baud_div /\ tx'.bit = tx.bit + 1 /\ tx'.bit \in 0 .. 9
            /\ tx'.bit <= 8 => tx.bit <= 7 /\ tx'.sr = tx.sr \div 2
        BY <3>4, <4>0
      <4>6. QED
        BY <1>2, <2>3, <3>2, <4>1, <4>2, <4>3, <4>4, <4>5 DEF TxInv
    <3>5. QED
      BY <1>2, <2>3, <3>3, <3>4
  <2>4. QED
    BY <1>1, <2>1, <2>2, <2>3
<1>5. QED
  BY <1>3, <1>4 DEF Transmit

LEMMA ReadLemma ==
  ASSUME ReadInv, rx \in Frame, NEW rd_en \in BOOLEAN, Reads(rd_en)
  PROVE  ReadInv'
<1>1. rx.sr \in 0 .. 255 /\ Deliver \in BOOLEAN
  BY DEF Frame, Deliver, Sampling
<1>2. QED
  BY <1>1 DEF ReadInv, Reads, ReadData, None

(* The bit period of the UART is the host's rounded up, and what is lost in *)
(* ten bits is little; a is how far the host is from the UART's clock.     *)
Fits(p, D, a) ==
  /\ p <= 8 * (D + 1) /\ 8 * (D + 1) - 7 <= p
  /\ (p = 8 * (D + 1) /\ a = 0) \/ D >= 19

InMiddle(p, k, a) == 16 * a <= (2 * k + 1) * p /\ (2 * k + 1) * p < 16 * (a + 1)

InBit(p, k, x) == k * p <= x /\ x < (k + 1) * p

InUart(D, k, x) == InBit(D + 1, k, x)

(* What is left of bit n, and when that is.                                *)
Left(D, n, t, x) == t <= D /\ x + t = n * (D + 1) + D

SampleAt(D, k, a) == a + 8 * (1 + D \div 2 + k * (D + 1))

LEMMA BitLemma ==
  ASSUME NEW p \in Nat, NEW x \in Nat, NEW k \in Nat, InBit(p, k, x)
  PROVE  x \div p = k
<1>1. k * p <= x /\ x < (k + 1) * p
  BY DEF InBit
<1>2. QED
  BY <1>1, IndexLemma

LEMMA UartBitLemma ==
  ASSUME NEW D \in Nat, NEW x \in Nat, NEW k \in Nat, InUart(D, k, x)
  PROVE  x \div (D + 1) = k
<1> DEFINE p == D + 1
<1>1. p \in Nat /\ InBit(p, k, x)
  BY DEF InUart
<1> HIDE DEF p
<1>2. x \div p = k
  BY <1>1, BitLemma
<1>3. QED
  BY <1>2 DEF p

LEMMA LeftLemma ==
  ASSUME NEW D \in Nat, NEW n \in Nat, NEW t \in Nat, NEW x \in Nat, Left(D, n, t, x)
  PROVE  InUart(D, n, x)
<1> DEFINE m == n * (D + 1)
<1>1. m \in Nat /\ (n + 1) * (D + 1) = m + (D + 1)
  OBVIOUS
<1>2. t <= D /\ x + t = m + D
  BY DEF Left
<1> HIDE DEF m
<1>3. m <= x /\ x < m + (D + 1)
  BY <1>1, <1>2
<1>4. QED
  BY <1>1, <1>3 DEF InUart, InBit, m

(* The host's sample of bit k falls in the UART's bit k.                   *)
LEMMA MiddleLemma ==
  ASSUME NEW p \in Nat, NEW D \in 1 .. DivMax, NEW k \in 0 .. 9, NEW a \in Nat,
         Fits(p, D, 0), InMiddle(p, k, a)
  PROVE  InUart(D, k, a)
<1> USE DEF Fits, InMiddle, InBit, InUart
<1>0. CASE k = 0
  BY <1>0
<1>1. CASE k = 1
  BY <1>1
<1>2. CASE k = 2
  BY <1>2
<1>3. CASE k = 3
  BY <1>3
<1>4. CASE k = 4
  BY <1>4
<1>5. CASE k = 5
  BY <1>5
<1>6. CASE k = 6
  BY <1>6
<1>7. CASE k = 7
  BY <1>7
<1>8. CASE k = 8
  BY <1>8
<1>9. CASE k = 9
  BY <1>9
<1>10. QED
  BY <1>0, <1>1, <1>2, <1>3, <1>4, <1>5, <1>6, <1>7, <1>8, <1>9

LEMMA TxRightLemma ==
  ASSUME HostInv, CalInv, TxInv
  PROVE  TxRight
<1> SUFFICES ASSUME tx.busy, NEW k \in 0 .. 9, InMiddle(period, k, tx_age)
             PROVE  tx_pin = FrameBit(tx_byte, k)
  BY DEF TxRight, InMiddle
<1>1. /\ baud_locked /\ tx.bit \in 0 .. 9 /\ tx.timer \in 0 .. DivMax /\ tx_age \in Nat
      /\ tx_pin = FrameBit(tx_byte, tx.bit)
      /\ Left(baud_div, tx.bit, tx.timer, tx_age)
  BY DEF TxInv, Frame, Left
<1>2. period \in Nat /\ baud_div \in 1 .. DivMax /\ Fits(period, baud_div, 0)
  BY <1>1, BaudLemma DEF Fits
<1>3. baud_div \in Nat /\ tx.bit \in Nat /\ tx.timer \in Nat /\ k \in Nat
  BY <1>1, <1>2
<1>4. InUart(baud_div, k, tx_age)
  BY <1>1, <1>2, MiddleLemma
<1>5. InUart(baud_div, tx.bit, tx_age)
  BY <1>1, <1>3, LeftLemma
<1>6. tx_age \div (baud_div + 1) = k
  BY <1>1, <1>3, <1>4, UartBitLemma
<1>7. tx_age \div (baud_div + 1) = tx.bit
  BY <1>1, <1>3, <1>5, UartBitLemma
<1>8. QED
  BY <1>1, <1>6, <1>7

----------------------------------------------------------------------------
(* The receiver.                                                           *)

(* The receiver samples bit k of the UART in the host's bit k.             *)
LEMMA SampleLemma ==
  ASSUME NEW p \in Nat, NEW D \in 1 .. DivMax, NEW a \in 0 .. 7, NEW k \in 0 .. 9, Fits(p, D, a)
  PROVE  InBit(p, k, SampleAt(D, k, a))
<1> USE DEF Fits, InBit, SampleAt
<1>0. CASE k = 0
  BY <1>0
<1>1. CASE k = 1
  BY <1>1
<1>2. CASE k = 2
  BY <1>2
<1>3. CASE k = 3
  BY <1>3
<1>4. CASE k = 4
  BY <1>4
<1>5. CASE k = 5
  BY <1>5
<1>6. CASE k = 6
  BY <1>6
<1>7. CASE k = 7
  BY <1>7
<1>8. CASE k = 8
  BY <1>8
<1>9. CASE k = 9
  BY <1>9
<1>10. QED
  BY <1>0, <1>1, <1>2, <1>3, <1>4, <1>5, <1>6, <1>7, <1>8, <1>9

LEMMA TwoBitsLemma ==
  ASSUME NEW n \in Nat
  PROVE  n % 4 = 2 * ((n \div 2) % 2) + (n % 2)
<1>1. PICK q \in Nat, r \in 0 .. 3 : n = 4 * q + r
  <2>1. n = 4 * (n \div 4) + (n % 4) /\ n \div 4 \in Nat /\ n % 4 \in 0 .. 3
    OBVIOUS
  <2>2. QED
    BY <2>1
<1>2. n % 4 = r /\ n \div 2 = 2 * q + r \div 2 /\ n % 2 = r % 2
  BY <1>1
<1>3. (2 * q + r \div 2) % 2 = r \div 2 /\ r = 2 * (r \div 2) + (r % 2)
  BY <1>1
<1>4. QED
  BY <1>2, <1>3

(* A bit shifted in at the top.                                            *)
LEMMA ShiftInLemma ==
  ASSUME NEW byte \in 0 .. 255, NEW sr \in 0 .. 255, NEW k \in 1 .. 8, Received(byte, sr, k - 1)
  PROVE  Received(byte, 128 * Bit(byte, k - 1) + sr \div 2, k)
<1> DEFINE in(j) == 128 * Bit(byte, j) + sr \div 2
<1>0. /\ in(0) = 128 * (byte % 2) + sr \div 2
      /\ in(1) = 128 * ((byte \div 2) % 2) + sr \div 2
      /\ in(2) = 128 * ((byte \div 4) % 2) + sr \div 2
      /\ in(3) = 128 * ((byte \div 8) % 2) + sr \div 2
      /\ in(4) = 128 * ((byte \div 16) % 2) + sr \div 2
      /\ in(5) = 128 * ((byte \div 32) % 2) + sr \div 2
      /\ in(6) = 128 * ((byte \div 64) % 2) + sr \div 2
      /\ in(7) = 128 * ((byte \div 128) % 2) + sr \div 2
  BY PowerLemma DEF Bit
<1>p. /\ 2 ^ 0 = 1 /\ 2 ^ 1 = 2 /\ 2 ^ 2 = 4 /\ 2 ^ 3 = 8 /\ 2 ^ 4 = 16
      /\ 2 ^ 5 = 32 /\ 2 ^ 6 = 64 /\ 2 ^ 7 = 128 /\ 2 ^ 8 = 256
  BY PowerLemma
<1> HIDE DEF in
<1>1. CASE k = 1
  <2>1. in(0) \div 128 = byte % 2
    BY <1>0
  <2>2. QED
    BY <1>1, <1>p, <2>1 DEF Received, in
<1>2. CASE k = 2
  <2>1. sr \div 128 = byte % 2
    BY <1>2, <1>p DEF Received
  <2>2. in(1) \div 64 = byte % 4
    <3>1. byte % 4 = 2 * ((byte \div 2) % 2) + (byte % 2)
      BY TwoBitsLemma
    <3>2. (sr \div 2) \div 64 = sr \div 128
      OBVIOUS
    <3>3. in(1) \div 64 = 2 * ((byte \div 2) % 2) + (sr \div 2) \div 64
      BY <1>0
    <3>4. QED
      BY <2>1, <3>1, <3>2, <3>3
  <2>3. QED
    BY <1>2, <1>p, <2>2 DEF Received, in
<1>3. CASE k = 3
  <2>1. sr \div 64 = byte % 4
    BY <1>3, <1>p DEF Received
  <2>2. in(2) \div 32 = byte % 8
    <3> DEFINE b == (byte \div 4) % 2
               y == sr \div 2
    <3>1. byte % 8 = 4 * b + (byte % 4) /\ b \in {0, 1} /\ byte % 4 \in Nat
      <4> DEFINE u == byte \div 4
                 v == byte % 4
                 w == u \div 2
      <4>1. byte = 4 * u + v /\ v \in 0 .. 3 /\ u \in Nat
        OBVIOUS
      <4>2. b \in {0, 1} /\ w \in Nat
        BY <4>1
      <4>3. u = 2 * w + b
        BY <4>1
      <4> HIDE DEF u, v, w, b
      <4>4. byte = 8 * w + (4 * b + v) /\ 4 * b + v \in 0 .. 7
        BY <4>1, <4>2, <4>3
      <4>5. byte % 8 = 4 * b + v
        BY <4>2, <4>4
      <4>6. QED
        BY <4>1, <4>2, <4>5 DEF v
    <3>2. y \div 32 = byte % 4 /\ y \in Nat /\ in(2) = 128 * b + y
      BY <1>0, <2>1
    <3> HIDE DEF b, y
    <3>3. (128 * b + y) \div 32 = 4 * b + y \div 32
      BY <3>1, <3>2
    <3>4. QED
      BY <3>1, <3>2, <3>3
  <2>3. QED
    BY <1>3, <1>p, <2>2 DEF Received, in
<1>4. CASE k = 4
  <2>1. sr \div 32 = byte % 8
    BY <1>4, <1>p DEF Received
  <2>2. in(3) \div 16 = byte % 16
    <3> DEFINE b == (byte \div 8) % 2
               y == sr \div 2
    <3>1. byte % 16 = 8 * b + (byte % 8) /\ b \in {0, 1} /\ byte % 8 \in Nat
      <4> DEFINE u == byte \div 8
                 v == byte % 8
                 w == u \div 2
      <4>1. byte = 8 * u + v /\ v \in 0 .. 7 /\ u \in Nat
        OBVIOUS
      <4>2. b \in {0, 1} /\ w \in Nat
        BY <4>1
      <4>3. u = 2 * w + b
        BY <4>1
      <4> HIDE DEF u, v, w, b
      <4>4. byte = 16 * w + (8 * b + v) /\ 8 * b + v \in 0 .. 15
        BY <4>1, <4>2, <4>3
      <4>5. byte % 16 = 8 * b + v
        BY <4>2, <4>4
      <4>6. QED
        BY <4>1, <4>2, <4>5 DEF v
    <3>2. y \div 16 = byte % 8 /\ y \in Nat /\ in(3) = 128 * b + y
      BY <1>0, <2>1
    <3> HIDE DEF b, y
    <3>3. (128 * b + y) \div 16 = 8 * b + y \div 16
      BY <3>1, <3>2
    <3>4. QED
      BY <3>1, <3>2, <3>3
  <2>3. QED
    BY <1>4, <1>p, <2>2 DEF Received, in
<1>5. CASE k = 5
  <2>1. sr \div 16 = byte % 16
    BY <1>5, <1>p DEF Received
  <2>2. in(4) \div 8 = byte % 32
    <3> DEFINE b == (byte \div 16) % 2
               y == sr \div 2
    <3>1. byte % 32 = 16 * b + (byte % 16) /\ b \in {0, 1} /\ byte % 16 \in Nat
      <4> DEFINE u == byte \div 16
                 v == byte % 16
                 w == u \div 2
      <4>1. byte = 16 * u + v /\ v \in 0 .. 15 /\ u \in Nat
        OBVIOUS
      <4>2. b \in {0, 1} /\ w \in Nat
        BY <4>1
      <4>3. u = 2 * w + b
        BY <4>1
      <4> HIDE DEF u, v, w, b
      <4>4. byte = 32 * w + (16 * b + v) /\ 16 * b + v \in 0 .. 31
        BY <4>1, <4>2, <4>3
      <4>5. byte % 32 = 16 * b + v
        BY <4>2, <4>4
      <4>6. QED
        BY <4>1, <4>2, <4>5 DEF v
    <3>2. y \div 8 = byte % 16 /\ y \in Nat /\ in(4) = 128 * b + y
      BY <1>0, <2>1
    <3> HIDE DEF b, y
    <3>3. (128 * b + y) \div 8 = 16 * b + y \div 8
      BY <3>1, <3>2
    <3>4. QED
      BY <3>1, <3>2, <3>3
  <2>3. QED
    BY <1>5, <1>p, <2>2 DEF Received, in
<1>6. CASE k = 6
  <2>1. sr \div 8 = byte % 32
    BY <1>6, <1>p DEF Received
  <2>2. in(5) \div 4 = byte % 64
    <3> DEFINE b == (byte \div 32) % 2
               y == sr \div 2
    <3>1. byte % 64 = 32 * b + (byte % 32) /\ b \in {0, 1} /\ byte % 32 \in Nat
      <4> DEFINE u == byte \div 32
                 v == byte % 32
                 w == u \div 2
      <4>1. byte = 32 * u + v /\ v \in 0 .. 31 /\ u \in Nat
        OBVIOUS
      <4>2. b \in {0, 1} /\ w \in Nat
        BY <4>1
      <4>3. u = 2 * w + b
        BY <4>1
      <4> HIDE DEF u, v, w, b
      <4>4. byte = 64 * w + (32 * b + v) /\ 32 * b + v \in 0 .. 63
        BY <4>1, <4>2, <4>3
      <4>5. byte % 64 = 32 * b + v
        BY <4>2, <4>4
      <4>6. QED
        BY <4>1, <4>2, <4>5 DEF v
    <3>2. y \div 4 = byte % 32 /\ y \in Nat /\ in(5) = 128 * b + y
      BY <1>0, <2>1
    <3> HIDE DEF b, y
    <3>3. (128 * b + y) \div 4 = 32 * b + y \div 4
      BY <3>1, <3>2
    <3>4. QED
      BY <3>1, <3>2, <3>3
  <2>3. QED
    BY <1>6, <1>p, <2>2 DEF Received, in
<1>7. CASE k = 7
  <2>1. sr \div 4 = byte % 64
    BY <1>7, <1>p DEF Received
  <2>2. in(6) \div 2 = byte % 128
    <3> DEFINE b == (byte \div 64) % 2
               y == sr \div 2
    <3>1. byte % 128 = 64 * b + (byte % 64) /\ b \in {0, 1} /\ byte % 64 \in Nat
      <4> DEFINE u == byte \div 64
                 v == byte % 64
                 w == u \div 2
      <4>1. byte = 64 * u + v /\ v \in Nat /\ v < 64 /\ u \in Nat
        OBVIOUS
      <4>2. b \in {0, 1} /\ w \in Nat
        BY <4>1
      <4>3. u = 2 * w + b
        BY <4>1
      <4> HIDE DEF u, v, w, b
      <4>4. byte = 128 * w + (64 * b + v) /\ 64 * b + v \in Nat /\ 64 * b + v < 128
        BY <4>1, <4>2, <4>3
      <4>5. byte % 128 = 64 * b + v
        BY <4>2, <4>4
      <4>6. QED
        BY <4>1, <4>2, <4>5 DEF v
    <3>2. y \div 2 = byte % 64 /\ y \in Nat /\ in(6) = 128 * b + y
      BY <1>0, <2>1
    <3> HIDE DEF b, y
    <3>3. (128 * b + y) \div 2 = 64 * b + y \div 2
      BY <3>1, <3>2
    <3>4. QED
      BY <3>1, <3>2, <3>3
  <2>3. QED
    BY <1>7, <1>p, <2>2 DEF Received, in
<1>8. CASE k = 8
  <2>1. sr \div 2 = byte % 128
    BY <1>8, <1>p DEF Received
  <2>2. in(7) \div 1 = byte % 256
    <3> DEFINE b == (byte \div 128) % 2
               y == sr \div 2
    <3>1. byte % 256 = 128 * b + (byte % 128) /\ b \in {0, 1} /\ byte % 128 \in Nat
      <4> DEFINE u == byte \div 128
                 v == byte % 128
                 w == u \div 2
      <4>1. byte = 128 * u + v /\ v \in Nat /\ v < 128 /\ u \in Nat
        OBVIOUS
      <4>2. b \in {0, 1} /\ w \in Nat
        BY <4>1
      <4>3. u = 2 * w + b
        BY <4>1
      <4> HIDE DEF u, v, w, b
      <4>4. byte = 256 * w + (128 * b + v) /\ 128 * b + v \in Nat /\ 128 * b + v < 256
        BY <4>1, <4>2, <4>3
      <4>5. byte % 256 = 128 * b + v
        BY <4>2, <4>4
      <4>6. QED
        BY <4>1, <4>2, <4>5 DEF v
    <3>2. y \div 1 = byte % 128 /\ y \in Nat /\ in(7) = 128 * b + y
      BY <1>0, <2>1
    <3> HIDE DEF b, y
    <3>3. (128 * b + y) \div 1 = 128 * b + y \div 1
      BY <3>1, <3>2
    <3>4. QED
      BY <3>1, <3>2, <3>3
  <2>3. QED
    BY <1>8, <1>p, <2>2 DEF Received, in
<1>9. QED
  BY <1>1, <1>2, <1>3, <1>4, <1>5, <1>6, <1>7, <1>8

LEMMA ReceiveLemma ==
  ASSUME rx \in Frame, rx_level \in {0, 1}, baud_div \in 0 .. DivMax, baud_locked \in BOOLEAN,
         rx.busy => rx.bit <= 9, Receive
  PROVE  /\ rx' \in Frame
         /\ ~rx.busy /\ ~(baud_locked /\ rx_fall) => rx' = rx
         /\ ~rx.busy /\ baud_locked /\ rx_fall => rx'.busy /\ rx'.timer = Half /\ rx'.bit = 0
         /\ rx.busy /\ rx.timer # 0 =>
              rx'.busy /\ rx'.timer = rx.timer - 1 /\ rx'.bit = rx.bit /\ rx'.sr = rx.sr
         /\ rx.busy /\ rx.timer = 0 =>
              /\ rx'.busy <=> ~(rx.bit = 9 \/ (rx.bit = 0 /\ rx_level = 1))
              /\ rx'.timer = baud_div /\ rx'.bit = rx.bit + 1
              /\ rx'.sr = IF rx.bit \in 1 .. 8 THEN 128 * rx_level + rx.sr \div 2 ELSE rx.sr
<1>1. /\ rx.busy \in BOOLEAN /\ rx.timer \in 0 .. DivMax /\ rx.bit \in 0 .. 10 /\ rx.sr \in 0 .. 255
      /\ rx = [busy |-> rx.busy, timer |-> rx.timer, bit |-> rx.bit, sr |-> rx.sr]
  BY DEF Frame
<1>2. CASE ~rx.busy /\ ~(baud_locked /\ rx_fall)
  BY <1>1, <1>2 DEF Receive, ReceiveFrom, Sampling
<1>3. CASE ~rx.busy /\ baud_locked /\ rx_fall
  <2>1. rx' = [rx EXCEPT !.busy = TRUE, !.timer = Half, !.bit = 0]
    BY <1>3 DEF Receive, ReceiveFrom, Half
  <2>2. Half \in 0 .. DivMax /\ 0 \in 0 .. 10
    BY DEF Half
  <2>3. rx' \in Frame
    BY <2>1, <2>2, ZenonT(60) DEF Frame
  <2>4. rx'.busy /\ rx'.timer = Half /\ rx'.bit = 0
    BY <2>1 DEF Frame
  <2>5. QED
    BY <1>3, <2>3, <2>4
<1>4. CASE rx.busy /\ rx.timer # 0
  <2>1. rx' = [rx EXCEPT !.timer = rx.timer - 1]
    BY <1>4 DEF Receive, ReceiveFrom, Sampling
  <2>2. rx' = [busy |-> rx.busy, timer |-> rx.timer - 1, bit |-> rx.bit, sr |-> rx.sr]
    BY <2>1, FrameLemma
  <2>3. rx.timer - 1 \in 0 .. DivMax
    BY <1>1, <1>4
  <2>4. QED
    BY <1>1, <1>4, <2>2, <2>3 DEF Frame
<1>5. CASE rx.busy /\ rx.timer = 0
  <2>1. rx' = [busy  |-> ~(rx.bit = 9 \/ (rx.bit = 0 /\ rx_level = 1)),
               timer |-> baud_div,
               bit   |-> rx.bit + 1,
               sr    |-> IF rx.bit \in 1 .. 8 THEN 128 * rx_level + rx.sr \div 2 ELSE rx.sr]
    BY <1>5 DEF Receive, ReceiveFrom, Sampling
  <2> DEFINE b == ~(rx.bit = 9 \/ (rx.bit = 0 /\ rx_level = 1))
             s == IF rx.bit \in 1 .. 8 THEN 128 * rx_level + rx.sr \div 2 ELSE rx.sr
  <2>2. s \in 0 .. 255 /\ rx.bit + 1 \in 0 .. 10 /\ b \in BOOLEAN
    BY <1>1, <1>5
  <2>3. rx' = [busy |-> b, timer |-> baud_div, bit |-> rx.bit + 1, sr |-> s]
    BY <2>1
  <2>4. b <=> ~(rx.bit = 9 \/ (rx.bit = 0 /\ rx_level = 1))
    OBVIOUS
  <2>5. s = IF rx.bit \in 1 .. 8 THEN 128 * rx_level + rx.sr \div 2 ELSE rx.sr
    OBVIOUS
  <2> HIDE DEF b, s
  <2>6. rx' \in Frame
    BY <2>2, <2>3 DEF Frame
  <2>7. (rx'.busy <=> b) /\ rx'.timer = baud_div /\ rx'.bit = rx.bit + 1 /\ rx'.sr = s
    BY <2>3
  <2>8. QED
    BY <1>5, <2>4, <2>5, <2>6, <2>7
<1>6. QED
  BY <1>1, <1>2, <1>3, <1>4, <1>5

LEMMA SampledLemma ==
  ASSUME HostInv, PipeInv, CalInv, rx \in Frame, baud_locked, Sending, Age >= 3, Filling, rx.timer = 0
  PROVE  rx_level = IF host.mode = "frame" THEN FrameBit(host.byte, rx.bit) ELSE 0
<1>1. /\ period \in Nat /\ host.t \in Nat /\ Age \in Nat
      /\ host.t >= 8 * Age /\ host.t < 8 * Age + 8
  BY AgeLemma
<1>2. CASE host.mode = "break"
  BY <1>1, <1>2, FallLemma
<1>3. CASE host.mode = "frame"
  <2> DEFINE a == host.t - 8 * Age
             k == rx.bit
  <2>1. /\ period >= 16 /\ baud_div \in 1 .. DivMax
        /\ period <= 8 * (baud_div + 1) /\ 8 * (baud_div + 1) - 7 <= period
        /\ period % 8 # 0 => baud_div >= 19
    BY BaudLemma
  <2>2. a \in Nat /\ a <= 7 /\ (period % 8 = 0 => a = 0)
    <3>1. period % 8 = 0 => host.t % 8 = 0
      BY DEF HostInv
    <3>2. QED
      BY <1>1, <3>1
  <2>3. (period = 8 * (baud_div + 1) /\ a = 0) \/ baud_div >= 19
    <3>1. CASE period % 8 # 0
      BY <2>1, <3>1
    <3>2. CASE period % 8 = 0
      <4>1. period = 8 * (baud_div + 1)
        BY <1>1, <2>1, <3>2
      <4>2. QED
        BY <2>2, <3>2, <4>1
    <3>3. QED
      BY <3>1, <3>2
  <2>4. k \in 0 .. 9 /\ Age = 3 + (baud_div \div 2) + k * (baud_div + 1)
    BY <1>1 DEF Filling, SampleAge, Half
  <2>5. host.t = a + 8 * Age
    BY <1>1
  <2> HIDE DEF a, k
  <2>6. InBit(period, k, SampleAt(baud_div, k, a))
    <3>1. Fits(period, baud_div, a)
      BY <2>1, <2>3 DEF Fits
    <3>2. period \in Nat /\ baud_div \in 1 .. DivMax /\ a \in 0 .. 7 /\ k \in 0 .. 9
      BY <1>1, <2>1, <2>2, <2>4
    <3>3. QED
      BY <3>1, <3>2, SampleLemma
  <2>7. host.t - 16 = SampleAt(baud_div, k, a)
    <3> DEFINE m == k * (baud_div + 1)
               h == baud_div \div 2
    <3>1. m \in Nat /\ h \in Nat /\ Age = 3 + h + m
      BY <2>1, <2>4
    <3> HIDE DEF m, h
    <3>2. host.t - 16 = a + 8 * (1 + h + m)
      BY <1>1, <2>2, <2>5, <3>1
    <3>3. QED
      BY <3>2 DEF m, h, SampleAt
  <2>8. Level = k
    <3>1. host.t - 16 \in Nat /\ k \in Nat
      BY <1>1, <2>4
    <3>2. InBit(period, k, host.t - 16)
      BY <2>6, <2>7
    <3>3. QED
      BY <1>1, <3>1, <3>2, BitLemma DEF Level
  <2>9. QED
    BY <1>1, <1>3, <2>8, FallLemma DEF k
<1>4. QED
  BY <1>2, <1>3 DEF Sending

(* A clock of the receiver in a frame or a break.                          *)
LEMMA FillLemma ==
  ASSUME HostInv, PipeInv, CalInv, rx \in Frame, baud_locked, Sending, Age >= 3, Filling, Receive
  PROVE  \/ /\ ~rx'.busy /\ Delivered = << >> /\ Age + 1 > SampleAge(baud_div, 9)
            /\ Deliver => host.mode = "frame" /\ rx.sr = host.byte
         \/ /\ rx'.busy /\ ~Deliver /\ rx'.bit \in 0 .. 9 /\ rx'.timer \in 0 .. baud_div
            /\ Age + 1 + rx'.timer = SampleAge(baud_div, rx'.bit)
            /\ host.mode = "frame" /\ rx'.bit >= 1 => Received(host.byte, rx'.sr, rx'.bit - 1)
<1>1. Age \in Nat /\ baud_div \in 1 .. DivMax /\ rx_level \in {0, 1}
  BY AgeLemma, BaudLemma DEF PipeInv, rx_level
<1>2. /\ rx.busy /\ owed = Ours /\ rx.bit \in 0 .. 9 /\ rx.timer \in 0 .. baud_div
      /\ Age + rx.timer = SampleAge(baud_div, rx.bit)
      /\ host.mode = "frame" /\ rx.bit >= 1 => Received(host.byte, rx.sr, rx.bit - 1)
      /\ rx.sr \in 0 .. 255
  BY DEF Filling, Frame
<1>3. /\ rx.timer # 0 =>
           rx'.busy /\ rx'.timer = rx.timer - 1 /\ rx'.bit = rx.bit /\ rx'.sr = rx.sr
      /\ rx.timer = 0 =>
           /\ rx'.busy <=> ~(rx.bit = 9 \/ (rx.bit = 0 /\ rx_level = 1))
           /\ rx'.timer = baud_div /\ rx'.bit = rx.bit + 1
           /\ rx'.sr = IF rx.bit \in 1 .. 8 THEN 128 * rx_level + rx.sr \div 2 ELSE rx.sr
  BY <1>1, <1>2, ReceiveLemma
<1>4. \A k \in 0 .. 9 : SampleAge(baud_div, k) \in Nat
  BY <1>1 DEF SampleAge, Half
<1>5. CASE rx.timer # 0
  <2>1. ~Deliver
    BY <1>5 DEF Deliver, Sampling
  <2>2. Age + 1 + rx'.timer = SampleAge(baud_div, rx'.bit)
    BY <1>1, <1>2, <1>3, <1>4, <1>5
  <2>3. rx'.timer \in 0 .. baud_div
    BY <1>1, <1>2, <1>3, <1>5
  <2>4. QED
    BY <1>2, <1>3, <1>5, <2>1, <2>2, <2>3
<1>6. CASE rx.timer = 0 /\ rx.bit = 9
  <2>1. Age + 1 > SampleAge(baud_div, 9)
    BY <1>1, <1>2, <1>4, <1>6
  <2>2. ~rx'.busy
    BY <1>3, <1>6
  <2>3. rx_level = IF host.mode = "frame" THEN 1 ELSE 0
    BY <1>6, SampledLemma, FrameBitLemma DEF HostInv
  <2>4. Deliver <=> host.mode = "frame"
    BY <1>2, <1>6, <2>3 DEF Deliver, Sampling
  <2>5. Delivered = << >>
    BY <1>2, <2>4 DEF Delivered, Ours
  <2>6. host.mode = "frame" => rx.sr = host.byte
    <3>1. SUFFICES ASSUME host.mode = "frame" PROVE rx.sr = host.byte
      OBVIOUS
    <3>2. Received(host.byte, rx.sr, 8) /\ host.byte \in 0 .. 255
      BY <1>2, <1>6, <3>1 DEF HostInv
    <3>3. rx.sr \div (2 ^ 0) = host.byte % (2 ^ 8)
      BY <3>2 DEF Received
    <3>4. rx.sr \div 1 = host.byte % 256
      BY <3>3, PowerLemma
    <3>5. rx.sr \div 1 = rx.sr /\ host.byte % 256 = host.byte
      <4>1. \A s \in 0 .. 255 : s \div 1 = s
        OBVIOUS
      <4>2. \A c \in 0 .. 255 : c % 256 = c
        OBVIOUS
      <4>3. QED
        BY <1>2, <3>2, <4>1, <4>2
    <3>6. QED
      BY <3>4, <3>5
  <2>7. QED
    BY <2>1, <2>2, <2>4, <2>5, <2>6
<1>7. CASE rx.timer = 0 /\ rx.bit \in 0 .. 8
  <2>1. ~Deliver
    BY <1>7 DEF Deliver
  <2>2. rx_level = IF host.mode = "frame" THEN FrameBit(host.byte, rx.bit) ELSE 0
    BY <1>7, SampledLemma
  <2>3. rx.bit = 0 => rx_level = 0
    BY <2>2 DEF FrameBit
  <2>4. rx'.busy /\ rx'.timer = baud_div /\ rx'.bit = rx.bit + 1 /\ rx'.bit \in 0 .. 9
    BY <1>3, <1>7, <2>3
  <2>5. Age + 1 + rx'.timer = SampleAge(baud_div, rx'.bit)
    <3> DEFINE m == rx.bit * (baud_div + 1)
    <3>1. Age = 3 + Half + m /\ m \in Nat /\ Half \in Nat
      BY <1>1, <1>2, <1>7 DEF SampleAge, Half
    <3>2. (rx.bit + 1) * (baud_div + 1) = m + (baud_div + 1)
      BY <1>1, <1>7
    <3>3. SampleAge(baud_div, rx'.bit) = 3 + Half + (rx.bit + 1) * (baud_div + 1)
      BY <2>4 DEF SampleAge, Half
    <3> HIDE DEF m
    <3>4. QED
      BY <1>1, <2>4, <3>1, <3>2, <3>3
  <2>6. host.mode = "frame" => Received(host.byte, rx'.sr, rx'.bit - 1)
    <3>1. SUFFICES ASSUME host.mode = "frame" PROVE Received(host.byte, rx'.sr, rx.bit)
      BY <1>7, <2>4
    <3>2. host.byte \in 0 .. 255
      BY <3>1 DEF HostInv
    <3>3. CASE rx.bit = 0
      <4>1. rx.sr \div 256 = host.byte % 1
        BY <1>2, <3>2
      <4>2. rx'.sr = rx.sr
        BY <1>3, <1>7, <3>3
      <4>3. QED
        BY <3>3, <4>1, <4>2, PowerLemma DEF Received
    <3>4. CASE rx.bit \in 1 .. 8
      <4>1. Received(host.byte, rx.sr, rx.bit - 1)
        BY <1>2, <3>1, <3>4
      <4>2. rx_level = Bit(host.byte, rx.bit - 1)
        BY <2>2, <3>1, <3>4 DEF FrameBit
      <4>3. rx'.sr = 128 * Bit(host.byte, rx.bit - 1) + rx.sr \div 2
        BY <1>3, <1>7, <3>4, <4>2
      <4>4. Received(host.byte, 128 * Bit(host.byte, rx.bit - 1) + rx.sr \div 2, rx.bit)
        BY <1>2, <3>2, <3>4, <4>1, ShiftInLemma
      <4>5. QED
        BY <4>3, <4>4
    <3>5. QED
      BY <1>7, <3>3, <3>4
  <2>7. rx'.timer \in 0 .. baud_div
    BY <1>1, <2>4
  <2>8. QED
    BY <2>1, <2>4, <2>5, <2>6, <2>7
<1>8. QED
  BY <1>2, <1>5, <1>6, <1>7

LEMMA OwedLemma ==
  ASSUME HostIdle \/ HostBusy, RxInv, baud_locked \in BOOLEAN
  PROVE  owed' = IF baud_locked /\ host.mode = "idle" /\ host'.mode = "frame"
                   THEN Append(Delivered, host'.byte) ELSE Delivered
<1>1. ~baud_locked => Delivered = owed
  BY DEF RxInv, Delivered, Deliver, Sampling
<1>2. CASE HostBusy
  BY <1>2 DEF HostBusy
<1>3. CASE HostIdle
  <2>1. CASE UNCHANGED host /\ owed' = Delivered
    BY <1>3, <2>1 DEF HostIdle
  <2>2. CASE ~baud_locked
    BY <1>1, <1>3, <2>2 DEF HostIdle
  <2>3. ASSUME baud_locked, NEW b \in Bytes, Begin("frame", b), owed' = Append(Delivered, b)
        PROVE  host'.mode = "frame" /\ owed' = Append(Delivered, host'.byte)
    BY <2>3 DEF Begin
  <2>4. ASSUME NEW n \in BreakBits, Begin("break", n)
        PROVE  host'.mode = "break"
    BY <2>4 DEF Begin
  <2>5. host.mode = "idle"
    BY <1>3 DEF HostIdle
  <2>6. QED
    BY <1>3, <2>1, <2>2, <2>3, <2>4, <2>5 DEF HostIdle
<1>4. QED
  BY <1>2, <1>3

(* When the host ends, the receiver has its stop bit or is about to have it. *)
LEMMA StopLemma ==
  ASSUME HostInv, CalInv, baud_locked, Sending, Ends,
         NEW k \in 0 .. 9, NEW timer \in 0 .. baud_div, Age + 1 + timer = SampleAge(baud_div, k)
  PROVE  k = 9 /\ timer \in {0, 1}
<1> DEFINE a == host.t - 8 * Age
           D == baud_div
           p == period
           age == Age
<1>1. /\ p \in Nat /\ D \in 1 .. DivMax /\ age \in Nat /\ a \in Nat /\ a <= 7
      /\ p <= 8 * (D + 1) /\ 8 * (D + 1) - 7 <= p /\ (p % 8 # 0 => D >= 19)
  BY AgeLemma, BaudLemma
<1>2. (p = 8 * (D + 1) /\ a = 0) \/ D >= 19
  <2>1. CASE p % 8 # 0
    BY <1>1, <2>1
  <2>2. CASE p % 8 = 0
    <3>1. host.t \in Nat /\ host.t % 8 = 0
      BY <2>2 DEF HostInv
    <3>2. a = 0
      BY <1>1, <3>1
    <3>3. p = 8 * (D + 1)
      BY <1>1, <2>2
    <3>4. QED
      BY <3>2, <3>3
  <2>3. QED
    BY <2>1, <2>2
<1>3. 8 * age + a + 8 >= 10 * p
  <2>1. host.t + 8 >= 10 * p /\ host.t \in Nat
    BY LengthLemma DEF Ends
  <2>2. QED
    BY <1>1, <2>1
<1>4. age + 1 + timer = 3 + D \div 2 + k * (D + 1) /\ timer \in 0 .. D
  BY DEF SampleAge
<1> HIDE DEF a, D, p, age
<1>5. CASE k = 9
  <2>1. age + 1 + timer = 3 + D \div 2 + 9 * (D + 1)
    BY <1>4, <1>5
  <2>2. timer < 2
    BY <1>1, <1>2, <1>3, <1>4, <2>1
  <2>3. QED
    BY <1>1, <1>4, <1>5, <2>2
<1>6. CASE k \in 0 .. 8
  <2> DEFINE m == k * (D + 1)
  <2>1. m <= 8 * (D + 1) /\ m \in Nat
    BY <1>1, <1>6
  <2>2. age + 1 + timer = 3 + D \div 2 + m
    BY <1>4
  <2> HIDE DEF m
  <2>3. age + 1 <= 3 + D \div 2 + 8 * (D + 1)
    BY <1>1, <1>4, <2>1, <2>2
  <2>4. QED
    BY <1>1, <1>2, <1>3, <2>3
<1>7. QED
  BY <1>5, <1>6

(* While the host is idle.                                                 *)
LEMMA RxIdle ==
  ASSUME HostInv, PipeInv, CalInv, RxInv, baud_locked, host.mode = "idle", Receive, Synchronise
  PROVE  /\ rx' \in Frame /\ (rx'.busy => rx'.bit = 9 /\ rx'.timer = 0)
         /\ Delivered = Rest(rx', rx_level')
<1>1. rx_level' = rx_sync[1] /\ rx_level \in {0, 1} /\ rx_sync[1] \in {0, 1}
  BY DEF Synchronise, PipeInv, rx_level
<1>2. baud_div \in 1 .. DivMax /\ ~rx_fall
  BY BaudLemma, FallLemma DEF Sending
<1>3. /\ rx \in Frame
      /\ IF rx.busy THEN /\ rx.bit = 9 /\ rx.timer \in {0, 1}
                         /\ owed = Rest(rx, IF rx.timer = 0 THEN rx_level ELSE rx_sync[1])
                    ELSE owed = << >>
  BY DEF RxInv
<1>4. /\ rx' \in Frame
      /\ ~rx.busy => rx' = rx
      /\ rx.busy /\ rx.timer # 0 =>
              rx'.busy /\ rx'.timer = rx.timer - 1 /\ rx'.bit = rx.bit /\ rx'.sr = rx.sr
      /\ rx.busy /\ rx.timer = 0 /\ rx.bit = 9 => ~rx'.busy
  BY <1>1, <1>2, <1>3, ReceiveLemma
<1>5. CASE ~rx.busy
  BY <1>3, <1>4, <1>5 DEF Delivered, Deliver, Sampling, Rest
<1>6. CASE rx.busy /\ rx.timer = 0
  <2>1. Deliver <=> rx_level = 1
    BY <1>3, <1>6 DEF Deliver, Sampling
  <2>2. Delivered = << >>
    <3>1. CASE rx_level = 1
      <4>1. owed = << rx.sr >>
        BY <1>3, <1>6, <3>1 DEF Rest
      <4>2. Tail(<< rx.sr >>) = << >>
        OBVIOUS
      <4>3. QED
        BY <2>1, <3>1, <4>1, <4>2 DEF Delivered
    <3>2. CASE rx_level # 1
      <4>1. owed = << >>
        BY <1>3, <1>6, <3>2 DEF Rest
      <4>2. QED
        BY <2>1, <3>2, <4>1 DEF Delivered
    <3>3. QED
      BY <3>1, <3>2
  <2>3. QED
    BY <1>3, <1>4, <1>6, <2>2 DEF Rest
<1>7. CASE rx.busy /\ rx.timer = 1
  <2>1. ~Deliver
    BY <1>7 DEF Deliver, Sampling
  <2>2. rx'.busy /\ rx'.bit = 9 /\ rx'.timer = 0 /\ rx'.sr = rx.sr
    BY <1>3, <1>4, <1>7
  <2>3. owed = Rest(rx, rx_sync[1])
    BY <1>3, <1>7
  <2>4. QED
    BY <1>1, <1>4, <1>7, <2>1, <2>2, <2>3 DEF Delivered, Rest
<1>8. QED
  BY <1>3, <1>5, <1>6, <1>7

(* While the host sends: the delivery of a frame that is over, and the edge. *)
LEMMA RxStart ==
  ASSUME HostInv, PipeInv, CalInv, RxInv, baud_locked, Sending, Age \in 0 .. 2, Receive
  PROVE  /\ rx' \in Frame /\ Delivered = Ours
         /\ Age \in 0 .. 1 => ~rx'.busy
         /\ Age = 2 => rx'.busy /\ rx'.timer = Half /\ rx'.bit = 0
<1>1. rx_level \in {0, 1} /\ baud_div \in 1 .. DivMax /\ rx \in Frame /\ Age \in Nat
  BY BaudLemma, AgeLemma DEF PipeInv, rx_level, RxInv
<1>2. /\ Age = 0 => /\ rx.busy => rx.bit = 9 /\ rx.timer = 0
                    /\ owed = Then(Rest(rx, rx_level), host)
      /\ Age \in 1 .. 2 => ~rx.busy /\ owed = Ours
  BY DEF RxInv
<1>3. (Age < 2 => ~rx_fall) /\ (Age = 2 => rx_fall)
  BY <1>1, FallLemma
<1>4. /\ rx' \in Frame
      /\ ~rx.busy /\ ~rx_fall => rx' = rx
      /\ ~rx.busy /\ rx_fall => rx'.busy /\ rx'.timer = Half /\ rx'.bit = 0
      /\ rx.busy /\ rx.timer = 0 /\ rx.bit = 9 => ~rx'.busy
  BY <1>1, <1>2, <1>3, ReceiveLemma
<1>5. Then(<< >>, host) = Ours
  BY DEF Then, Ours
<1>6. CASE ~rx.busy
  <2>1. owed = Ours
    <3>1. Rest(rx, rx_level) = << >>
      BY <1>6 DEF Rest
    <3>2. QED
      BY <1>1, <1>2, <1>5, <3>1
  <2>2. Delivered = Ours
    BY <1>6, <2>1 DEF Delivered, Deliver, Sampling
  <2>3. QED
    BY <1>1, <1>3, <1>4, <1>6, <2>2
<1>7. CASE rx.busy
  <2>1. Age = 0 /\ rx.bit = 9 /\ rx.timer = 0
    BY <1>1, <1>2, <1>7
  <2>2. Deliver <=> rx_level = 1
    BY <1>7, <2>1 DEF Deliver, Sampling
  <2>3. Delivered = Ours
    <3>1. CASE rx_level = 1
      <4>1. owed = Then(<< rx.sr >>, host)
        BY <1>2, <1>7, <2>1, <3>1 DEF Rest
      <4>2. rx.sr \in Nat /\ host.byte \in Nat
        BY <1>1 DEF Frame, HostInv
      <4>3. << rx.sr >> \in Seq(Nat) /\ << rx.sr >> # << >> /\ Tail(<< rx.sr >>) = << >>
        BY <4>2
      <4>4. Tail(Append(<< rx.sr >>, host.byte)) = Append(<< >>, host.byte)
        BY <4>2, <4>3, HeadTailAppend
      <4>5. Append(<< >>, host.byte) = << host.byte >>
        OBVIOUS
      <4>6. Tail(owed) = Ours
        BY <4>1, <4>3, <4>4, <4>5 DEF Then, Ours
      <4>7. QED
        BY <2>2, <3>1, <4>6 DEF Delivered
    <3>2. CASE rx_level # 1
      <4>1. owed = Then(<< >>, host)
        BY <1>2, <2>1, <3>2 DEF Rest
      <4>2. QED
        BY <1>5, <2>2, <3>2, <4>1 DEF Delivered
    <3>3. QED
      BY <3>1, <3>2
  <2>4. QED
    BY <1>4, <1>7, <2>1, <2>3
<1>8. QED
  BY <1>1, <1>6, <1>7 DEF Frame

(* The end of 0x55 after the lock has no falling edge, nor has a stop bit.  *)
LEMMA RxQuiet ==
  ASSUME HostInv, PipeInv, CalInv, rx \in Frame, baud_locked, Sending, Age >= 3,
         Locking \/ Filled, Receive
  PROVE  rx' = rx /\ ~rx'.busy /\ Delivered = << >> /\ owed = << >>
<1>1. /\ period \in Nat /\ period >= 16 /\ host.t \in Nat /\ Age \in Nat
      /\ host.t >= 8 * Age /\ host.t < 8 * Age + 8 /\ host.t - 24 \in Nat
  BY AgeLemma
<1>2. /\ baud_div \in 1 .. DivMax /\ period <= 8 * (baud_div + 1) /\ rx_level \in {0, 1}
  BY BaudLemma DEF PipeInv, rx_level
<1>3. ~rx.busy /\ owed = << >>
  BY DEF Locking, Filled
<1>4. ~rx_fall
  <2>1. CASE host.mode = "break"
    BY <1>1, <2>1, FallLemma
  <2>2. CASE host.mode = "frame"
    <3>1. /\ Seen \in 0 .. 9 /\ Level \in 0 .. 9 /\ Level \in {Seen, Seen + 1}
          /\ rx_fall <=> FrameBit(host.byte, Seen) = 1 /\ FrameBit(host.byte, Level) = 0
      BY <2>2, FallLemma
    <3>2. FrameBit(host.byte, 9) = 1
      BY FrameBitLemma DEF HostInv
    <3>3. host.t - 24 < 10 * period
      BY <1>1, <2>2 DEF HostInv
    <3>4. CASE Locking
      <4>1. host.byte = Sync /\ 8 * period <= host.t - 24
        BY <1>1, <3>4 DEF Locking, Syncing
      <4>2. Seen \in {8, 9}
        <5>1. CASE host.t - 24 < 9 * period
          <6>1. host.t - 24 < (8 + 1) * period
            BY <1>1, <5>1
          <6>2. QED
            BY <1>1, <4>1, <6>1, IndexLemma DEF Seen
        <5>2. CASE host.t - 24 >= 9 * period
          <6>1. 9 * period <= host.t - 24 /\ host.t - 24 < (9 + 1) * period
            BY <1>1, <3>3, <5>2
          <6>2. QED
            BY <1>1, <6>1, IndexLemma DEF Seen
        <5>3. QED
          BY <1>1, <5>1, <5>2
      <4>3. FrameBit(host.byte, 8) = 0
        <5>1. 8 \in 0 .. 9 /\ 8 % 2 = 0
          OBVIOUS
        <5>2. QED
          BY <4>1, <5>1, SyncBits
      <4>4. QED
        BY <3>1, <3>2, <4>2, <4>3
    <3>5. CASE Filled
      <4>1. Age > 3 + baud_div \div 2 + 9 * (baud_div + 1)
        BY <3>5 DEF Filled, SampleAge
      <4>2. 9 * period <= host.t - 24 /\ host.t - 24 < (9 + 1) * period
        BY <1>1, <1>2, <3>3, <4>1
      <4>3. Seen = 9
        BY <1>1, <4>2, IndexLemma DEF Seen
      <4>4. QED
        BY <3>1, <3>2, <4>3
    <3>6. QED
      BY <3>4, <3>5
  <2>3. QED
    BY <2>1, <2>2 DEF Sending
<1>5. rx' = rx
  BY <1>2, <1>3, <1>4, ReceiveLemma
<1>6. QED
  BY <1>3, <1>5 DEF Delivered, Deliver, Sampling

LEMMA RxLemma ==
  ASSUME HostInv, PipeInv, CalInv, RxInv, HostMoves, HostInv', CalInv', PipeInv', Locks,
         baud_locked => baud_locked' /\ baud_div' = baud_div,
         Receive, Synchronise, HostIdle \/ HostBusy
  PROVE  RxInv'
<1>1. /\ period \in Nat /\ period >= 16 /\ period' = period
      /\ host.t \in Nat /\ Age \in Nat /\ host.t >= 8 * Age /\ host.t < 8 * Age + 8
      /\ baud_locked \in BOOLEAN /\ baud_locked' \in BOOLEAN /\ rx \in Frame
  BY AgeLemma DEF HostMoves, CalInv, RxInv
<1>2. owed' = IF baud_locked /\ host.mode = "idle" /\ host'.mode = "frame"
                THEN Append(Delivered, host'.byte) ELSE Delivered
  BY <1>1, OwedLemma
<1>3. CASE ~baud_locked
  <2>1. ~rx.busy /\ owed = << >> /\ baud_div \in 0 .. DivMax /\ rx_level \in {0, 1}
    BY <1>3 DEF RxInv, CalInv, PipeInv, rx_level
  <2>2. rx' = rx
    BY <1>1, <1>3, <2>1, ReceiveLemma
  <2>3. owed' = << >>
    BY <1>2, <1>3, <2>1 DEF Delivered, Deliver, Sampling
  <2>4. CASE ~baud_locked'
    BY <1>1, <2>1, <2>2, <2>3, <2>4 DEF RxInv
  <2>5. CASE baud_locked'
    <3>1. Syncing /\ Continues /\ host.t + 8 >= 8 * period + 24
      BY <1>3, <2>5 DEF Locks
    <3>2. host'.mode = "frame" /\ host'.byte = Sync /\ host'.t = host.t + 8 /\ Age' = Age + 1
      BY <1>1, <3>1 DEF Continues, Syncing, Age
    <3>3. Locking'
      BY <1>1, <2>1, <2>2, <2>3, <3>1, <3>2 DEF Locking, Syncing
    <3>4. Age' >= 3
      BY <1>1, <3>1, <3>2
    <3>5. QED
      BY <1>1, <2>2, <2>5, <3>2, <3>3, <3>4 DEF RxInv, Sending
  <2>6. QED
    BY <2>4, <2>5
<1>4. CASE baud_locked /\ host.mode = "idle"
  <2>1. /\ rx' \in Frame /\ (rx'.busy => rx'.bit = 9 /\ rx'.timer = 0)
        /\ Delivered = Rest(rx', rx_level')
    BY <1>4, RxIdle
  <2>2. baud_locked'
    BY <1>4
  <2>3. CASE Stays
    <3>1. host'.mode = "idle" /\ ~Sending'
      BY <2>3 DEF Stays, Sending
    <3>2. owed' = Rest(rx', rx_level')
      BY <1>2, <2>1, <3>1
    <3>3. ~rx'.busy => owed' = << >>
      BY <3>2 DEF Rest
    <3>4. QED
      BY <2>1, <2>2, <3>1, <3>2, <3>3 DEF RxInv
  <2>4. CASE Begins
    <3>1. Sending' /\ Age' = 0 /\ host'.mode # "idle"
      BY <2>4 DEF Begins, Sending, Age
    <3>2. owed' = Then(Rest(rx', rx_level'), host')
      BY <1>2, <1>4, <2>1 DEF Then
    <3>3. QED
      BY <2>1, <2>2, <3>1, <3>2 DEF RxInv
  <2>5. QED
    BY <1>4, <2>3, <2>4 DEF HostMoves, Continues, Ends
<1>5. CASE baud_locked /\ Sending
  <2>1. owed' = Delivered
    BY <1>2, <1>5 DEF Sending
  <2>2. baud_locked' /\ baud_div' = baud_div
    BY <1>5
  <2>3. baud_div \in 1 .. DivMax
    BY <1>5, BaudLemma
  <2>4. ASSUME Continues
        PROVE  /\ Sending' /\ host'.mode = host.mode /\ host'.byte = host.byte
               /\ host'.t = host.t + 8 /\ Age' = Age + 1 /\ host'.mode # "idle" /\ Ours' = Ours
    <3>1. /\ host'.mode = host.mode /\ host'.byte = host.byte /\ host'.t = host.t + 8
          /\ host.mode \in {"frame", "break"}
      BY <1>5, <2>4 DEF Continues, Sending
    <3>2. Age' = Age + 1
      BY <1>1, <3>1 DEF Age
    <3>3. QED
      BY <3>1, <3>2 DEF Sending, Ours
  <2>5. CASE Age \in 0 .. 2 /\ Continues
    <3>1. /\ rx' \in Frame /\ Delivered = Ours
          /\ Age \in 0 .. 1 => ~rx'.busy
          /\ Age = 2 => rx'.busy /\ rx'.timer = Half /\ rx'.bit = 0
      BY <1>5, <2>5, RxStart
    <3>2. CASE Age \in 0 .. 1
      BY <1>1, <2>1, <2>2, <2>4, <2>5, <3>1, <3>2 DEF RxInv
    <3>3. CASE Age = 2
      <4>1. Half' = Half /\ Half \in 0 .. baud_div
        BY <2>2, <2>3 DEF Half
      <4>2. Age' = 3 /\ Age' + rx'.timer = SampleAge(baud_div, 0)
        BY <2>3, <2>4, <2>5, <3>1, <3>3, <4>1 DEF SampleAge, Half
      <4>3. Filling'
        <5>1. rx'.busy /\ owed' = Ours' /\ rx'.bit = 0 /\ rx'.timer <= baud_div
          BY <2>1, <2>3, <2>4, <2>5, <3>1, <3>3, <4>1
        <5>2. QED
          BY <2>2, <4>2, <5>1 DEF Filling
      <4>4. QED
        BY <2>2, <2>4, <2>5, <3>1, <4>2, <4>3 DEF RxInv
    <3>4. QED
      BY <1>1, <2>5, <3>2, <3>3
  <2>6. CASE Age >= 3 /\ (Locking \/ Filled)
    <3>1. rx' = rx /\ ~rx'.busy /\ owed' = << >>
      BY <1>1, <1>5, <2>1, <2>6, RxQuiet
    <3>2. CASE Continues
      <4>1. Locking => Locking'
        BY <1>1, <2>4, <3>1, <3>2 DEF Locking, Syncing
      <4>2. Filled => Filled'
        <5>1. SampleAge(baud_div, 9) \in Nat
          BY <2>3 DEF SampleAge
        <5>2. Filled => Age + 1 > SampleAge(baud_div, 9)
          BY <1>1, <5>1 DEF Filled
        <5>3. QED
          BY <2>2, <2>4, <3>1, <3>2, <5>2 DEF Filled
      <4>3. Age' >= 3 /\ Age' \in Nat
        BY <1>1, <2>4, <2>6, <3>2
      <4>4. QED
        BY <1>1, <2>2, <2>4, <2>6, <3>1, <3>2, <4>1, <4>2, <4>3 DEF RxInv
    <3>3. CASE Ends
      <4>1. host'.mode \in {"idle", "quiet"} /\ ~Sending'
        BY <3>3 DEF Ends, Sending
      <4>2. QED
        BY <1>1, <2>2, <3>1, <4>1 DEF RxInv
    <3>4. QED
      BY <1>5, <3>2, <3>3 DEF HostMoves, Stays, Begins, Sending
  <2>7. CASE Age >= 3 /\ Filling
    <3>1. \/ /\ ~rx'.busy /\ Delivered = << >> /\ Age + 1 > SampleAge(baud_div, 9)
          \/ /\ rx'.busy /\ ~Deliver /\ rx'.bit \in 0 .. 9 /\ rx'.timer \in 0 .. baud_div
             /\ Age + 1 + rx'.timer = SampleAge(baud_div, rx'.bit)
             /\ host.mode = "frame" /\ rx'.bit >= 1 => Received(host.byte, rx'.sr, rx'.bit - 1)
      BY <1>1, <1>5, <2>7, FillLemma
    <3>2. ~Deliver => Delivered = Ours
      BY <2>7 DEF Delivered, Filling
    <3>3. rx' \in Frame
      <4>1. rx_level \in {0, 1} /\ (rx.busy => rx.bit <= 9)
        BY <2>7 DEF PipeInv, rx_level, Filling
      <4>2. QED
        BY <1>1, <2>3, <4>1, ReceiveLemma
    <3>4. CASE Continues
      <4>1. Age' >= 3 /\ Age' \in Nat /\ Age' = Age + 1
        BY <1>1, <2>4, <2>7, <3>4
      <4>2. CASE ~rx'.busy
        <5>1. Filled'
          BY <2>1, <2>2, <3>1, <4>1, <4>2 DEF Filled
        <5>2. QED
          BY <2>2, <2>4, <3>3, <3>4, <4>1, <5>1 DEF RxInv
      <4>3. CASE rx'.busy
        <5>1. /\ rx'.busy /\ ~Deliver /\ rx'.bit \in 0 .. 9 /\ rx'.timer \in 0 .. baud_div
              /\ Age' + rx'.timer = SampleAge(baud_div, rx'.bit)
              /\ host.mode = "frame" /\ rx'.bit >= 1 => Received(host.byte, rx'.sr, rx'.bit - 1)
          BY <3>1, <4>1, <4>3
        <5>2. Filling'
          BY <2>1, <2>2, <2>3, <2>4, <3>2, <3>4, <5>1 DEF Filling
        <5>3. QED
          BY <2>2, <2>4, <3>3, <3>4, <4>1, <5>2 DEF RxInv
      <4>4. QED
        BY <4>2, <4>3
    <3>5. CASE Ends
      <4>1. host'.mode = "idle" /\ ~Sending'
        BY <1>5, <3>5 DEF Ends, Sending
      <4>2. CASE ~rx'.busy
        <5>1. owed' = << >>
          BY <2>1, <3>1, <4>2
        <5>2. QED
          BY <2>2, <3>3, <4>1, <4>2, <5>1 DEF RxInv
      <4>3. CASE rx'.busy
        <5>1. /\ ~Deliver /\ rx'.bit \in 0 .. 9 /\ rx'.timer \in 0 .. baud_div
              /\ Age + 1 + rx'.timer = SampleAge(baud_div, rx'.bit)
              /\ host.mode = "frame" /\ rx'.bit >= 1 => Received(host.byte, rx'.sr, rx'.bit - 1)
          BY <3>1, <4>3
        <5>2. rx'.bit = 9 /\ rx'.timer \in {0, 1}
          BY <1>5, <3>5, <5>1, StopLemma
        <5>3. /\ rx_sync'[1] = line /\ rx_level' = rx_sync[1]
          BY DEF Synchronise, rx_level
        <5>4. line = Past(0) /\ rx_sync[1] = Past(1)
          BY <1>1, <1>5, <2>7, LineLemma DEF PipeInv
        <5>5. /\ Past(0) = IF host.mode = "frame" THEN 1 ELSE 0
              /\ Past(1) = IF host.mode = "frame" THEN 1 ELSE 0
          BY <1>5, <3>5, EndLemma
        <5>6. host.mode = "frame" => rx'.sr = host.byte
          <6>1. SUFFICES ASSUME host.mode = "frame" PROVE rx'.sr = host.byte
            OBVIOUS
          <6>2. Received(host.byte, rx'.sr, 8) /\ host.byte \in 0 .. 255 /\ rx'.sr \in 0 .. 255
            BY <3>3, <5>1, <5>2, <6>1 DEF HostInv, Frame
          <6>3. rx'.sr \div (2 ^ 0) = host.byte % (2 ^ 8)
            BY <6>2 DEF Received
          <6>4. rx'.sr \div 1 = host.byte % 256
            BY <6>3, PowerLemma
          <6>5. \A s, c \in 0 .. 255 : s \div 1 = c % 256 => s = c
            OBVIOUS
          <6>6. QED
            BY <6>2, <6>4, <6>5
        <5>7. owed' = Rest(rx', IF rx'.timer = 0 THEN rx_level' ELSE rx_sync'[1])
          <6>1. owed' = Ours
            BY <2>1, <3>2, <5>1
          <6>2. \A l \in {rx_level', rx_sync'[1]} : l = IF host.mode = "frame" THEN 1 ELSE 0
            BY <5>3, <5>4, <5>5
          <6>3. QED
            BY <4>3, <5>6, <6>1, <6>2 DEF Rest, Ours
        <5>8. QED
          BY <2>2, <3>3, <4>1, <4>3, <5>2, <5>7 DEF RxInv
      <4>4. QED
        BY <4>2, <4>3
    <3>6. QED
      BY <1>5, <3>4, <3>5 DEF HostMoves, Stays, Begins, Sending
  <2>8. Age < 3 => Continues
    BY <1>1, <1>5, EndLemma DEF HostMoves, Stays, Begins, Sending
  <2>9. Age >= 3 => Locking \/ Filling \/ Filled
    BY <1>5 DEF RxInv
  <2>10. QED
    BY <1>1, <2>5, <2>6, <2>7, <2>8, <2>9
<1>6. baud_locked => host.mode # "quiet"
  BY DEF CalInv
<1>7. QED
  BY <1>1, <1>3, <1>4, <1>5, <1>6 DEF HostInv, Sending

LEMMA BytesLemma ==
  ASSUME HostInv, PipeInv, CalInv, RxInv
  PROVE  BytesInOrder
<1>1. ASSUME Deliver PROVE owed # << >> /\ Head(owed) = rx.sr
  <2>1. rx.busy /\ rx.timer = 0 /\ rx.bit = 9 /\ rx_level = 1
    BY <1>1 DEF Deliver, Sampling
  <2>2. baud_locked /\ host.mode \in {"idle", "frame", "break"}
    BY <2>1 DEF RxInv, CalInv, HostInv
  <2>3. CASE host.mode = "idle"
    <3>1. owed = << rx.sr >>
      BY <2>1, <2>2, <2>3 DEF RxInv, Rest
    <3>2. QED
      BY <3>1
  <2>4. CASE Sending /\ Age = 0
    <3>1. owed = Then(<< rx.sr >>, host)
      BY <2>1, <2>2, <2>4 DEF RxInv, Rest
    <3>2. rx.sr \in Nat /\ host.byte \in Nat
      <4>1. rx \in Frame
        BY DEF RxInv
      <4>2. QED
        BY <4>1 DEF Frame, HostInv
    <3>3. << rx.sr >> \in Seq(Nat) /\ << rx.sr >> # << >> /\ Head(<< rx.sr >>) = rx.sr
      BY <3>2
    <3>4. /\ Head(Append(<< rx.sr >>, host.byte)) = rx.sr
          /\ Append(<< rx.sr >>, host.byte) # << >>
      BY <3>2, <3>3, HeadTailAppend, AppendProperties
    <3>5. QED
      BY <3>1, <3>3, <3>4 DEF Then
  <2>5. CASE Sending /\ Age \in 1 .. 2
    BY <2>1, <2>2, <2>5 DEF RxInv
  <2>6. CASE Sending /\ Age >= 3
    <3>1. Filling /\ rx \in Frame
      BY <2>1, <2>2, <2>6 DEF RxInv, Locking, Filled
    <3>2. rx_level = IF host.mode = "frame" THEN FrameBit(host.byte, 9) ELSE 0
      BY <2>1, <2>2, <2>6, <3>1, SampledLemma
    <3>3. host.mode = "frame"
      BY <2>1, <3>2
    <3>4. owed = << host.byte >> /\ Received(host.byte, rx.sr, 8)
      BY <2>1, <3>1, <3>3 DEF Filling, Ours
    <3>5. host.byte \in 0 .. 255 /\ rx.sr \in 0 .. 255
      BY <3>1, <3>3 DEF HostInv, Frame
    <3>6. rx.sr \div (2 ^ 0) = host.byte % (2 ^ 8)
      BY <3>4 DEF Received
    <3>7. rx.sr \div 1 = host.byte % 256
      BY <3>6, PowerLemma
    <3>8. rx.sr \div 1 = rx.sr /\ host.byte % 256 = host.byte
      <4>1. \A s \in 0 .. 255 : s \div 1 = s
        OBVIOUS
      <4>2. \A c \in 0 .. 255 : c % 256 = c
        OBVIOUS
      <4>3. QED
        BY <3>5, <4>1, <4>2
    <3>9. rx.sr = host.byte
      BY <3>7, <3>8
    <3>10. QED
      BY <3>4, <3>9
  <2>7. QED
    BY <2>2, <2>3, <2>4, <2>5, <2>6, AgeLemma DEF Sending
<1>2. Settled => owed = << >>
  BY DEF Settled, RxInv, CalInv
<1>3. QED
  BY <1>1, <1>2 DEF BytesInOrder

----------------------------------------------------------------------------
(* The break detector.                                                     *)

LEMMA LowLemma ==
  ASSUME NEW D \in Nat, NEW c \in 0 .. 12, NEW u \in 0 .. D
  PROVE  /\ c * (D + 1) + u \in Nat
         /\ c < 12 <=> c * (D + 1) + u < 12 * (D + 1)
         /\ u = D /\ c < 12 => (c + 1) * (D + 1) + 0 = c * (D + 1) + u + 1
<1> DEFINE m == c * (D + 1)
<1>1. m \in Nat
  OBVIOUS
<1>2. c \in 0 .. 11 => m <= 11 * (D + 1)
  OBVIOUS
<1>3. c = 12 => m = 12 * (D + 1)
  OBVIOUS
<1>4. (c + 1) * (D + 1) = m + (D + 1)
  OBVIOUS
<1> HIDE DEF m
<1>5. m + u \in Nat
  BY <1>1
<1>6. c < 12 <=> m + u < 12 * (D + 1)
  BY <1>1, <1>2, <1>3
<1>7. u = D => (c + 1) * (D + 1) + 0 = m + u + 1
  BY <1>1, <1>4
<1>8. QED
  BY <1>5, <1>6, <1>7 DEF m

LEMMA DetectLemma ==
  ASSUME baud_div \in Nat, brk_timer \in 0 .. baud_div, brk_cnt \in 0 .. 12, brk_prev \in BOOLEAN,
         rx_level \in {0, 1}, baud_locked, baud_div' = baud_div, Detect
  PROVE  /\ brk_timer' \in 0 .. baud_div' /\ brk_cnt' \in 0 .. 12 /\ brk_prev' \in BOOLEAN
         /\ brk_prev' <=> brk_cnt = 12
         /\ Low \in Nat /\ Low' \in Nat /\ Enough \in Nat /\ Enough' = Enough
         /\ (brk_cnt < 12 <=> Low < Enough) /\ (brk_cnt' < 12 <=> Low' < Enough)
         /\ rx_level = 1 => Low' = 0
         /\ rx_level = 0 /\ brk_cnt < 12 => Low' = Low + 1
         /\ rx_level = 0 /\ brk_cnt = 12 => brk_cnt' = 12
<1>1. (brk_prev' <=> brk_cnt = 12) /\ brk_prev' \in BOOLEAN
  BY DEF Detect, brk_now
<1>2. rx_level = 1 => brk_timer' = 0 /\ brk_cnt' = 0
  BY DEF Detect
<1>3. rx_level = 0 =>
        /\ brk_timer' = IF brk_timer = baud_div THEN 0 ELSE brk_timer + 1
        /\ brk_cnt' = IF brk_timer = baud_div /\ brk_cnt # 12 THEN brk_cnt + 1 ELSE brk_cnt
  BY DEF Detect, CountLow, brk_now
<1>4. brk_timer' \in 0 .. baud_div /\ brk_cnt' \in 0 .. 12
  BY <1>2, <1>3
<1>5. /\ Low = brk_cnt * (baud_div + 1) + brk_timer
      /\ Low' = brk_cnt' * (baud_div + 1) + brk_timer'
      /\ Enough = 12 * (baud_div + 1) /\ Enough' = 12 * (baud_div + 1)
  BY DEF Low, Enough
<1>6. /\ Low \in Nat /\ Low' \in Nat /\ Enough \in Nat
      /\ (brk_cnt < 12 <=> Low < Enough) /\ (brk_cnt' < 12 <=> Low' < Enough)
  <2>1. Low \in Nat /\ (brk_cnt < 12 <=> Low < 12 * (baud_div + 1))
    BY <1>5, LowLemma
  <2>2. Low' \in Nat /\ (brk_cnt' < 12 <=> Low' < 12 * (baud_div + 1))
    BY <1>4, <1>5, LowLemma
  <2>3. QED
    BY <1>5, <2>1, <2>2
<1>7. rx_level = 1 => Low' = 0
  BY <1>2, <1>5
<1>8. ASSUME rx_level = 0, brk_cnt < 12 PROVE Low' = Low + 1
  <2>1. CASE brk_timer = baud_div
    <3>1. brk_timer' = 0 /\ brk_cnt' = brk_cnt + 1
      BY <1>3, <1>8, <2>1
    <3>2. (brk_cnt + 1) * (baud_div + 1) + 0 = brk_cnt * (baud_div + 1) + brk_timer + 1
      BY <1>8, <2>1, LowLemma
    <3>3. QED
      BY <1>5, <3>1, <3>2
  <2>2. CASE brk_timer # baud_div
    <3>1. brk_timer' = brk_timer + 1 /\ brk_cnt' = brk_cnt
      BY <1>3, <1>8, <2>2
    <3>2. QED
      BY <1>5, <3>1
  <2>3. QED
    BY <2>1, <2>2
<1>9. QED
  BY <1>1, <1>3, <1>4, <1>5, <1>6, <1>7, <1>8

LEMMA DueLemma ==
  ASSUME HostIdle \/ HostBusy
  PROVE  due' = IF /\ baud_locked /\ host.mode = "idle" /\ host'.mode = "break"
                   /\ host'.byte * period >= 96 * (baud_div + 1)
                  THEN Reported + 1 ELSE Reported
<1>1. CASE HostBusy
  BY <1>1 DEF HostBusy
<1>2. CASE HostIdle
  <2>1. ASSUME NEW b, Begin("frame", b) PROVE host'.mode = "frame"
    BY <2>1 DEF Begin
  <2>2. ASSUME NEW n \in BreakBits, Begin("break", n)
        PROVE  host'.mode = "break" /\ host'.byte = n
    BY <2>2 DEF Begin
  <2>3. host.mode = "idle"
    BY <1>2 DEF HostIdle
  <2>4. QED
    BY <1>2, <2>1, <2>2, <2>3 DEF HostIdle
<1>3. QED
  BY <1>1, <1>2

(* The clocks in which the line is sampled low tell whether a break is long. *)
LEMMA BreakLemma ==
  ASSUME HostInv, CalInv, baud_locked, host.mode = "break"
  PROVE  /\ Age >= Enough => Long
         /\ Ends => (Long <=> Age + 1 >= Enough)
<1> DEFINE a == host.t - 8 * Age
           D == baud_div
           p == period
           n == host.byte
           q == n * p
           age == Age
<1>1. /\ p \in Nat /\ p >= 16 /\ D \in 1 .. DivMax /\ age \in Nat /\ a \in Nat /\ a <= 7
      /\ p <= 8 * (D + 1) /\ 8 * (D + 1) - 7 <= p /\ (p % 8 # 0 => D >= 19)
      /\ n \in Nat /\ q \in Nat
  BY AgeLemma, BaudLemma
<1>2. (p = 8 * (D + 1) /\ a = 0) \/ (D >= 19 /\ p % 8 # 0)
  <2>1. CASE p % 8 # 0
    BY <1>1, <2>1
  <2>2. CASE p % 8 = 0
    <3>1. host.t \in Nat /\ host.t % 8 = 0
      BY <2>2 DEF HostInv
    <3>2. a = 0
      BY <1>1, <3>1
    <3>3. p = 8 * (D + 1)
      BY <1>1, <2>2
    <3>4. QED
      BY <3>2, <3>3
  <2>3. QED
    BY <2>1, <2>2
<1>3. 8 * age + a < q
  BY <1>1 DEF HostInv
<1>4. Ends => q <= 8 * age + a + 8
  <2>1. Length = q
    BY DEF Length
  <2>2. Ends => q <= host.t + 8
    BY <1>1, <2>1 DEF Ends
  <2>3. host.t = 8 * age + a /\ host.t \in Nat
    BY <1>1, AgeLemma
  <2>4. QED
    BY <1>1, <2>2, <2>3
<1>5. (Long <=> q >= 96 * (D + 1)) /\ Enough = 12 * (D + 1)
  BY <1>1 DEF Long, Enough
<1>6. /\ n <= 11 => q <= 11 * p
      /\ n = 12 => q = 12 * p
      /\ n >= 13 => q >= 13 * p
  BY <1>1
<1> HIDE DEF a, D, p, n, q, age
<1>7. age >= 12 * (D + 1) => q >= 96 * (D + 1)
  BY <1>1, <1>3
<1>8. ASSUME Ends PROVE q >= 96 * (D + 1) <=> age + 1 >= 12 * (D + 1)
  <2>1. ASSUME q >= 96 * (D + 1) PROVE age + 1 >= 12 * (D + 1)
    BY <1>1, <1>4, <1>8, <2>1
  <2>2. ASSUME age + 1 >= 12 * (D + 1) PROVE q >= 96 * (D + 1)
    <3>1. q > 96 * (D + 1) - 8 + a
      BY <1>1, <1>3, <2>2
    <3>2. CASE n <= 11
      BY <1>1, <1>6, <3>1, <3>2
    <3>3. CASE n = 12
      <4>1. CASE p = 8 * (D + 1)
        BY <1>1, <1>6, <3>3, <4>1
      <4>2. CASE p # 8 * (D + 1)
        BY <1>1, <1>6, <3>1, <3>3, <4>2
      <4>3. QED
        BY <4>1, <4>2
    <3>4. CASE n >= 13
      BY <1>1, <1>2, <1>6, <3>4
    <3>5. QED
      BY <1>1, <3>2, <3>3, <3>4
  <2>3. QED
    BY <2>1, <2>2
<1>9. QED
  BY <1>5, <1>7, <1>8 DEF D, age

LEMMA BrkLemma ==
  ASSUME HostInv, PipeInv, CalInv, BrkInv, HostMoves, HostInv', CalInv', PipeInv', Locks,
         baud_locked => baud_locked' /\ baud_div' = baud_div,
         Detect, Synchronise, HostIdle \/ HostBusy
  PROVE  BrkInv'
<1>1. /\ period \in Nat /\ period >= 16 /\ period' = period
      /\ host.t \in Nat /\ Age \in Nat /\ host.t >= 8 * Age /\ host.t < 8 * Age + 8
      /\ baud_locked \in BOOLEAN /\ baud_locked' \in BOOLEAN /\ baud_div \in Nat /\ baud_div' \in Nat
      /\ rx_level \in {0, 1} /\ rx_sync[1] \in {0, 1}
  BY AgeLemma DEF HostMoves, CalInv, PipeInv, rx_level
<1>2. due' = IF /\ baud_locked /\ host.mode = "idle" /\ host'.mode = "break"
                /\ host'.byte * period >= 96 * (baud_div + 1)
               THEN Reported + 1 ELSE Reported
  BY DueLemma
<1>3. brk_timer \in 0 .. baud_div /\ brk_cnt \in 0 .. 12 /\ brk_prev \in BOOLEAN
  BY DEF BrkInv
<1>4. rx_sync'[1] = line /\ rx_level' = rx_sync[1]
  BY DEF Synchronise, rx_level
<1>5. CASE ~baud_locked
  <2>1. brk_timer = 0 /\ brk_cnt = 0 /\ ~brk_prev /\ due = 0
    BY <1>5 DEF BrkInv
  <2>2. brk_timer' = 0 /\ brk_cnt' = 0 /\ ~brk_prev' /\ brk_prev' \in BOOLEAN
    <3>1. brk_timer' = brk_timer /\ brk_cnt' = brk_cnt
      BY <1>5 DEF Detect
    <3>2. (brk_prev' <=> brk_cnt = 12) /\ brk_prev' \in BOOLEAN
      BY DEF Detect, brk_now
    <3>3. brk_cnt # 12
      BY <2>1
    <3>4. QED
      BY <2>1, <3>1, <3>2, <3>3
  <2>3. due' = 0
    BY <1>2, <1>5, <2>1 DEF Reported, brk, brk_now
  <2>4. brk_timer' \in 0 .. baud_div' /\ brk_cnt' \in 0 .. 12 /\ brk_prev' \in BOOLEAN
    BY <1>1, <2>2
  <2>5. CASE ~baud_locked'
    BY <2>2, <2>3, <2>4, <2>5 DEF BrkInv
  <2>6. CASE baud_locked'
    <3>1. Syncing /\ Continues /\ host.t + 8 >= 8 * period + 24
      BY <1>5, <2>6 DEF Locks
    <3>2. host'.mode = "frame" /\ Age' = Age + 1
      BY <1>1, <3>1 DEF Continues, Syncing, Age
    <3>3. Age' >= 3
      BY <1>1, <3>1, <3>2
    <3>4. Low' = 0
      <4>1. Low' = brk_cnt' * (baud_div' + 1) + brk_timer'
        BY DEF Low
      <4>2. \A d \in Nat : 0 * (d + 1) + 0 = 0
        OBVIOUS
      <4>3. QED
        BY <1>1, <2>2, <4>1, <4>2
    <3>5. QED
      BY <1>1, <2>2, <2>3, <2>4, <2>6, <3>2, <3>3, <3>4 DEF BrkInv, Sending
  <2>7. QED
    BY <2>5, <2>6
<1>6. CASE baud_locked
  <2>1. /\ brk_timer' \in 0 .. baud_div' /\ brk_cnt' \in 0 .. 12 /\ brk_prev' \in BOOLEAN
        /\ brk_prev' <=> brk_cnt = 12
        /\ Low \in Nat /\ Low' \in Nat /\ Enough \in Nat /\ Enough' = Enough
        /\ (brk_cnt < 12 <=> Low < Enough) /\ (brk_cnt' < 12 <=> Low' < Enough)
        /\ rx_level = 1 => Low' = 0
        /\ rx_level = 0 /\ brk_cnt < 12 => Low' = Low + 1
        /\ rx_level = 0 /\ brk_cnt = 12 => brk_cnt' = 12
    BY <1>1, <1>3, <1>6, DetectLemma
  <2>2. baud_locked' /\ baud_div' = baud_div /\ baud_div \in 1 .. DivMax
    BY <1>6, BaudLemma
  <2>3. brk <=> brk_cnt = 12 /\ ~brk_prev
    BY DEF brk, brk_now
  <2>4. brk' <=> brk_cnt' = 12 /\ ~brk_prev'
    BY DEF brk, brk_now
  <2>5. Enough >= 24 /\ Enough = 12 * (baud_div + 1)
    BY <2>2 DEF Enough
  <2>6. CASE host.mode = "idle"
    <3>1. due = Count(Pending) /\ (rx_sync[1] = 0 => rx_level = 0) /\ line = 1
      BY <1>6, <2>6 DEF BrkInv, PipeInv, line, Sending
    <3>2. Reported = Count(Pending')
      <4>1. Coming = (1 - rx_sync[1]) + (1 - rx_level) /\ Coming' = 1 - rx_sync[1]
        BY <1>1, <1>4, <3>1 DEF Coming
      <4>2. Pending <=> brk \/ (brk_cnt < 12 /\ Low + Coming >= Enough)
        BY DEF Pending
      <4>3. Pending' <=> brk' \/ (brk_cnt' < 12 /\ Low' + Coming' >= Enough)
        BY <2>1 DEF Pending
      <4>4. CASE rx_level = 1
        <5>1. ~Pending' /\ (Pending <=> brk)
          BY <1>1, <1>3, <2>1, <2>3, <2>4, <2>5, <3>1, <4>1, <4>2, <4>3, <4>4
        <5>2. QED
          BY <3>1, <5>1 DEF Reported, Count
      <4>5. CASE rx_level = 0 /\ brk_cnt = 12
        <5>1. ~Pending' /\ (Pending <=> brk)
          BY <1>1, <1>3, <2>1, <2>3, <2>4, <4>2, <4>3, <4>5
        <5>2. QED
          BY <3>1, <5>1 DEF Reported, Count
      <4>6. CASE rx_level = 0 /\ brk_cnt < 12
        <5>1. Low' + Coming' = Low + Coming /\ ~brk /\ ~brk_prev'
          BY <1>1, <2>1, <2>3, <4>1, <4>6
        <5>2. brk_cnt' = 12 => Low + Coming >= Enough
          BY <1>1, <2>1, <4>1, <5>1
        <5>3. Pending <=> Pending'
          BY <2>1, <2>4, <4>2, <4>3, <4>6, <5>1, <5>2
        <5>4. QED
          BY <3>1, <5>1, <5>3 DEF Reported, Count
      <4>7. QED
        BY <1>1, <1>3, <4>4, <4>5, <4>6
    <3>3. CASE Stays
      <4>1. host'.mode = "idle" /\ ~Sending'
        BY <3>3 DEF Stays, Sending
      <4>2. due' = Count(Pending')
        BY <1>2, <3>2, <4>1
      <4>3. QED
        BY <2>1, <2>2, <4>1, <4>2 DEF BrkInv
    <3>4. CASE Begins
      <4>1. Sending' /\ Age' = 0 /\ host'.mode \in {"frame", "break"}
        BY <3>4 DEF Begins, Sending, Age
      <4>2. Long' <=> host'.mode = "break" /\ host'.byte * period >= 96 * (baud_div + 1)
        <5>1. 8 * Enough' = 96 * (baud_div + 1)
          BY <2>1, <2>2, <2>5
        <5>2. QED
          BY <1>1, <5>1 DEF Long
      <4>3. due' = Count(Pending') + Count(Long')
        <5>1. Count(Pending') \in Nat
          BY DEF Count
        <5>2. CASE Long'
          BY <1>2, <1>6, <2>6, <3>2, <4>2, <5>2 DEF Count
        <5>3. CASE ~Long'
          BY <1>2, <1>6, <2>6, <3>2, <4>2, <5>1, <5>3 DEF Count
        <5>4. QED
          BY <5>2, <5>3
      <4>4. QED
        BY <2>1, <2>2, <4>1, <4>3 DEF BrkInv
    <3>5. QED
      BY <2>6, <3>3, <3>4 DEF HostMoves, Continues, Ends
  <2>7. Sending => due' = Reported
    BY <1>2 DEF Sending
  <2>8. ASSUME Sending, Continues
        PROVE  /\ Sending' /\ host'.mode = host.mode /\ Age' = Age + 1 /\ host'.mode # "idle"
               /\ Long' <=> Long
    <3>1. /\ host'.mode = host.mode /\ host'.byte = host.byte /\ host'.t = host.t + 8
          /\ host.mode \in {"frame", "break"}
      BY <2>8 DEF Continues, Sending
    <3>2. Age' = Age + 1
      BY <1>1, <3>1 DEF Age
    <3>3. QED
      BY <1>1, <2>1, <3>1, <3>2 DEF Sending, Long
  <2>9. CASE Sending /\ Age = 0 /\ Continues
    <3>1. rx_sync[1] = 1 /\ due = Count(Pending) + Count(Long)
      BY <1>6, <2>9 DEF BrkInv, PipeInv
    <3>2. Pending <=> brk \/ (brk_cnt < 12 /\ Low + (1 - rx_level) >= Enough)
      BY <1>1, <2>1, <3>1 DEF Pending, Coming
    <3>3. Count(Pending) = Count(brk) + Count(brk')
      <4>1. CASE brk_cnt = 12
        BY <2>1, <2>3, <2>4, <3>2, <4>1 DEF Count
      <4>2. CASE brk_cnt < 12
        <5>1. ~brk /\ ~brk_prev'
          BY <2>1, <2>3, <4>2
        <5>2. Low + (1 - rx_level) >= Enough <=> Low' >= Enough
          BY <1>1, <2>1, <2>5, <4>2
        <5>3. Pending <=> brk'
          BY <2>1, <2>4, <3>2, <4>2, <5>1, <5>2
        <5>4. QED
          BY <5>1, <5>3 DEF Count
      <4>3. QED
        BY <1>3, <4>1, <4>2
    <3>4. due' = Count(brk') + Count(Long)
      BY <2>7, <2>9, <3>1, <3>3 DEF Reported, Count
    <3>5. Age' = 1 /\ due' = Count(brk') + Count(Long')
      BY <2>8, <2>9, <3>4 DEF Count
    <3>6. QED
      BY <2>1, <2>2, <2>8, <2>9, <3>5 DEF BrkInv
  <2>10. CASE Sending /\ Age = 1 /\ Continues
    <3>1. rx_level = 1
      BY <2>10, PastLemma DEF PipeInv
    <3>2. due' = Count(Long)
      <4>1. due = Count(brk) + Count(Long)
        BY <1>6, <2>10 DEF BrkInv
      <4>2. QED
        BY <2>7, <2>10, <4>1 DEF Reported, Count
    <3>3. Low' = 0 /\ Age' = 2
      BY <2>1, <2>8, <2>10, <3>1
    <3>4. CASE host.mode = "frame"
      <4>1. due' = 0
        BY <3>2, <3>4 DEF Long, Count
      <4>2. QED
        BY <2>1, <2>2, <2>8, <2>10, <3>3, <3>4, <4>1 DEF BrkInv
    <3>5. CASE host.mode = "break"
      <4>1. due' = Count(Long' /\ Age' - 2 <= Enough')
        BY <2>1, <2>5, <2>8, <2>10, <3>2, <3>3 DEF Count
      <4>2. Age' - 2 < Enough' /\ Low' = Age' - 2
        BY <2>1, <2>5, <3>3
      <4>3. QED
        BY <2>1, <2>2, <2>8, <2>10, <3>3, <3>5, <4>1, <4>2 DEF BrkInv
    <3>6. QED
      BY <2>10, <3>4, <3>5 DEF Sending
  <2>11. CASE host.mode = "frame" /\ Age >= 2
    <3>0. Sending
      BY <2>11 DEF Sending
    <3>1. Low <= Age - 2 /\ due = 0
      BY <1>6, <2>11 DEF BrkInv
    <3>2. Age < Enough
      BY <1>1, <1>6, <2>2, <2>5, <2>11, BaudLemma DEF HostInv
    <3>3. brk_cnt < 12 /\ ~brk /\ ~brk_prev'
      BY <1>1, <2>1, <2>3, <3>1, <3>2
    <3>4. due' = 0
      BY <2>7, <3>0, <3>1, <3>3 DEF Reported
    <3>5. Low' <= Age - 1
      BY <1>1, <2>1, <2>11, <3>1, <3>3
    <3>6. CASE Continues
      <4>1. Age' = Age + 1 /\ Age' > 2 /\ Low' <= Age' - 2
        BY <1>1, <2>8, <2>11, <3>0, <3>5, <3>6
      <4>2. QED
        BY <2>1, <2>2, <2>8, <2>11, <3>0, <3>3, <3>4, <3>6, <4>1 DEF BrkInv
    <3>7. CASE Ends
      <4>1. host'.mode = "idle" /\ ~Sending'
        BY <1>6, <3>7, <2>11 DEF Ends, Sending
      <4>2. line = Past(0) /\ rx_sync[1] = Past(1) /\ Past(0) = 1 /\ Past(1) = 1
        BY <1>1, <2>11, <3>0, <3>7, LineLemma, EndLemma DEF PipeInv
      <4>3. Coming' = 0
        BY <1>4, <4>2 DEF Coming
      <4>4. ~Pending'
        <5>0. Low' \in Nat /\ Enough \in Nat
          BY <2>1
        <5>1. Low' < Enough
          BY <1>1, <3>2, <3>5, <5>0
        <5>2. brk_cnt' < 12 /\ ~brk'
          BY <2>1, <2>4, <5>1
        <5>3. Pending' <=> brk' \/ (brk_cnt' < 12 /\ Low' + 0 >= Enough)
          BY <2>1, <4>3 DEF Pending
        <5>4. \A x, e \in Nat : x < e => ~(x + 0 >= e)
          OBVIOUS
        <5>5. QED
          BY <5>0, <5>1, <5>2, <5>3, <5>4
      <4>5. QED
        BY <2>1, <2>2, <3>4, <4>1, <4>4 DEF BrkInv, Count
    <3>8. QED
      BY <3>0, <3>6, <3>7 DEF HostMoves, Stays, Begins, Sending
  <2>12. CASE host.mode = "break" /\ Age >= 2
    <3>0. Sending /\ rx_level = 0
      BY <1>1, <2>12, FallLemma DEF Sending
    <3>1. /\ IF Age - 2 < Enough THEN Low = Age - 2 ELSE brk_cnt = 12
          /\ Age > 2 => (brk_prev <=> Age - 3 >= Enough)
          /\ due = Count(Long /\ Age - 2 <= Enough)
      BY <1>6, <2>12 DEF BrkInv
    <3>2. IF Age - 1 < Enough THEN Low' = Age - 1 ELSE brk_cnt' = 12
      BY <1>1, <2>1, <2>12, <3>0, <3>1
    <3>3. brk_prev' <=> Age - 2 >= Enough
      BY <1>1, <2>1, <2>12, <3>1
    <3>4. brk <=> Age - 2 = Enough
      BY <1>1, <1>3, <2>1, <2>3, <2>5, <2>12, <3>1
    <3>5. Age >= Enough => Long
      BY <1>6, <2>12, BreakLemma
    <3>6. due' = Count(Long /\ Age - 1 <= Enough)
      <4>1. CASE Age - 2 < Enough
        <5>1. ~brk /\ Age - 1 <= Enough /\ Age - 2 <= Enough
          BY <1>1, <2>1, <3>4, <4>1
        <5>2. QED
          BY <2>7, <3>0, <3>1, <5>1 DEF Reported
      <4>2. CASE Age - 2 = Enough
        <5>1. brk /\ Long /\ ~(Age - 1 <= Enough) /\ Age - 2 <= Enough
          BY <1>1, <2>1, <3>4, <3>5, <4>2
        <5>2. QED
          BY <2>7, <3>0, <3>1, <5>1 DEF Reported, Count
      <4>3. CASE Age - 2 > Enough
        <5>1. ~brk /\ ~(Age - 1 <= Enough) /\ ~(Age - 2 <= Enough)
          BY <1>1, <2>1, <3>4, <4>3
        <5>2. QED
          BY <2>7, <3>0, <3>1, <5>1 DEF Reported, Count
      <4>4. QED
        BY <1>1, <2>1, <4>1, <4>2, <4>3
    <3>7. CASE Continues
      <4>1. Age' = Age + 1 /\ Age' > 2 /\ Age' - 2 = Age - 1 /\ Age' - 3 = Age - 2
        BY <1>1, <2>8, <2>12, <3>0, <3>7
      <4>2. due' = Count(Long' /\ Age' - 2 <= Enough')
        BY <2>1, <2>8, <3>0, <3>6, <3>7, <4>1
      <4>3. /\ IF Age' - 2 < Enough' THEN Low' = Age' - 2 ELSE brk_cnt' = 12
            /\ brk_prev' <=> Age' - 3 >= Enough'
        BY <2>1, <3>2, <3>3, <4>1
      <4>4. brk_prev' = (Age' - 3 >= Enough')
        BY <2>1, <4>3
      <4>5. host'.mode = "break" /\ Sending'
        BY <2>8, <2>12, <3>0, <3>7
      <4>6. QED
        BY <2>1, <2>2, <4>1, <4>2, <4>3, <4>4, <4>5 DEF BrkInv
    <3>8. CASE Ends
      <4>1. host'.mode = "idle" /\ ~Sending'
        BY <1>6, <3>8, <2>12 DEF Ends, Sending
      <4>2. line = Past(0) /\ rx_sync[1] = Past(1) /\ Past(0) = 0 /\ Past(1) = 0
        BY <1>1, <2>12, <3>0, <3>8, LineLemma, EndLemma DEF PipeInv
      <4>3. Coming' = 2
        BY <1>4, <4>2 DEF Coming
      <4>4. Long <=> Age + 1 >= Enough
        BY <1>6, <2>12, <3>8, BreakLemma
      <4>5. Pending' <=> brk' \/ (brk_cnt' < 12 /\ Low' + 2 >= Enough)
        BY <2>1, <4>3 DEF Pending
      <4>6. Pending' <=> Long /\ Age - 1 <= Enough
        <5>1. CASE Age - 1 < Enough
          <6>1. brk_cnt' < 12 /\ ~brk'
            BY <1>1, <2>1, <2>4, <3>2, <5>1
          <6>2. QED
            BY <1>1, <2>1, <3>2, <4>4, <4>5, <5>1, <6>1
        <5>2. CASE Age - 1 >= Enough
          <6>1. brk_cnt' = 12 /\ (brk' <=> Age - 2 < Enough) /\ Long
            BY <1>1, <2>1, <2>4, <3>2, <3>3, <4>4, <5>2
          <6>2. QED
            BY <1>1, <2>1, <4>5, <5>2, <6>1
        <5>3. QED
          BY <1>1, <2>1, <5>1, <5>2
      <4>7. due' = Count(Pending')
        BY <3>6, <4>6 DEF Count
      <4>8. QED
        BY <2>1, <2>2, <4>1, <4>7 DEF BrkInv
    <3>9. QED
      BY <3>0, <3>7, <3>8 DEF HostMoves, Stays, Begins, Sending
  <2>13. Sending /\ Age < 2 => Continues
    BY <1>1, EndLemma DEF HostMoves, Stays, Begins, Sending
  <2>14. host.mode # "quiet"
    BY <1>6 DEF CalInv
  <2>15. QED
    BY <1>1, <2>6, <2>9, <2>10, <2>11, <2>12, <2>13, <2>14 DEF HostInv, Sending
<1>7. QED
  BY <1>1, <1>5, <1>6

LEMMA BreakExactLemma ==
  ASSUME HostInv, PipeInv, CalInv, BrkInv
  PROVE  BreakExact
<1>1. /\ baud_div \in Nat /\ baud_locked \in BOOLEAN /\ Age \in Nat /\ period \in Nat
      /\ brk_timer \in 0 .. baud_div /\ brk_cnt \in 0 .. 12 /\ brk_prev \in BOOLEAN
  BY AgeLemma DEF CalInv, BrkInv
<1>2. Low \in Nat /\ Enough \in Nat /\ (brk_cnt < 12 <=> Low < Enough)
  BY <1>1, LowLemma DEF Low, Enough
<1>3. brk <=> brk_cnt = 12 /\ ~brk_prev
  BY DEF brk, brk_now
<1>4. ASSUME brk PROVE due > 0
  <2>1. brk_cnt = 12 /\ ~brk_prev /\ baud_locked
    BY <1>3, <1>4 DEF BrkInv
  <2>2. host.mode # "quiet"
    BY <2>1 DEF CalInv
  <2>3. Count(brk) = 1 /\ Count(Pending) = 1 /\ Count(Long) \in {0, 1}
    BY <1>4 DEF Count, Pending
  <2>4. CASE host.mode = "idle" \/ (Sending /\ Age < 2)
    BY <1>1, <2>1, <2>3, <2>4 DEF BrkInv
  <2>5. CASE host.mode = "frame" /\ Age >= 2
    <3>1. Low <= Age - 2
      BY <2>1, <2>5 DEF BrkInv
    <3>2. Age < Enough
      <4>1. period <= 8 * (baud_div + 1) /\ host.t < 10 * period /\ 8 * Age <= host.t /\ host.t \in Nat
        BY <2>1, <2>5, BaudLemma, AgeLemma DEF HostInv
      <4>2. QED
        BY <1>1, <4>1 DEF Enough
    <3>3. QED
      BY <1>1, <1>2, <2>1, <3>1, <3>2
  <2>6. CASE host.mode = "break" /\ Age >= 2
    <3>1. /\ IF Age - 2 < Enough THEN Low = Age - 2 ELSE brk_cnt = 12
          /\ Age > 2 => (brk_prev <=> Age - 3 >= Enough)
          /\ due = Count(Long /\ Age - 2 <= Enough)
      BY <2>1, <2>6 DEF BrkInv
    <3>2. Enough >= 1
      BY <1>1 DEF Enough
    <3>3. Age - 2 = Enough
      BY <1>1, <1>2, <2>1, <2>6, <3>1, <3>2
    <3>4. Long
      BY <1>1, <1>2, <2>1, <2>6, <3>3, BreakLemma
    <3>5. QED
      BY <1>1, <1>2, <3>1, <3>3, <3>4 DEF Count
  <2>7. QED
    BY <1>1, <2>2, <2>4, <2>5, <2>6 DEF HostInv, Sending
<1>5. ASSUME Settled PROVE due = 0
  <2>1. host.mode = "idle" /\ rx_sync = << 1, 1 >> /\ ~brk
    BY <1>5 DEF Settled
  <2>2. Coming = 0
    BY <2>1 DEF Coming, rx_level
  <2>3. ~Pending
    BY <1>2, <2>1, <2>2 DEF Pending
  <2>4. QED
    BY <1>1, <2>1, <2>3 DEF BrkInv, Count
<1>6. QED
  BY <1>4, <1>5 DEF BreakExact

----------------------------------------------------------------------------
(* The invariant.                                                          *)

LEMMA UartTypeLemma ==
  ASSUME UartInv
  PROVE  UartTypeOK
<1>1. baud_div \in 0 .. DivMax
  <2>1. CASE baud_locked
    BY <2>1, BaudLemma DEF UartInv
  <2>2. CASE ~baud_locked
    BY <2>2 DEF UartInv, CalInv
  <2>3. QED
    BY <2>1, <2>2
<1>2. QED
  BY <1>1 DEF UartInv, UartTypeOK, PipeInv, CalInv, RxInv, TxInv, ReadInv, BrkInv, None

LEMMA UartInit ==
  ASSUME Init
  PROVE  UartInv
<1>1. HostInv
  BY DEF Init, HostInv
<1>2. PipeInv
  BY DEF Init, PipeInv, Sending, rx_level
<1>b. /\ ~baud_locked /\ ~rd_valid /\ ~reading /\ ~overrun /\ ~brk_prev
      /\ baud_locked \in BOOLEAN /\ rd_valid \in BOOLEAN /\ reading \in BOOLEAN
      /\ overrun \in BOOLEAN /\ brk_prev \in BOOLEAN
  BY DEF Init
<1>c. /\ baud_div = 0 /\ cal = NoCal /\ host.mode = "idle" /\ due = 0
      /\ brk_timer = 0 /\ brk_cnt = 0 /\ rd_data = 0 /\ unread = 256
  BY DEF Init, None
<1>d. cal \in [active : BOOLEAN, cnt : 0 .. CalMax, edge : 0 .. 4] /\ ~cal.active
  BY <1>c, UartAssumption DEF NoCal
<1>3. CalInv
  BY <1>b, <1>c, <1>d DEF CalInv, Sending
<1>4. RxInv
  BY DEF Init, RxInv, NoFrame, Frame
<1>5. TxInv
  BY DEF Init, TxInv, NoFrame, Frame
<1>6. BrkInv
  BY <1>b, <1>c DEF BrkInv
<1>7. ReadInv
  BY <1>b, <1>c DEF ReadInv, None
<1>8. QED
  BY <1>1, <1>2, <1>3, <1>4, <1>5, <1>6, <1>7 DEF UartInv

LEMMA UartClock ==
  ASSUME UartInv, Clock
  PROVE  UartInv'
<1>1. HostInv /\ PipeInv /\ CalInv /\ RxInv /\ TxInv /\ BrkInv /\ ReadInv
  BY DEF UartInv
<1>2. /\ HostIdle \/ HostBusy
      /\ Synchronise /\ Calibrate /\ Receive /\ Transmit /\ Detect
      /\ period' = period
  BY DEF Clock
<1>3. HostInv' /\ HostMoves
  BY <1>1, <1>2, HostLemma
<1>4. PipeInv'
  BY <1>1, <1>2, <1>3, PipeLemma
<1>5. CalInv' /\ Locks /\ (baud_locked => baud_locked' /\ baud_div' = baud_div)
  BY <1>1, <1>2, <1>3, CalLemma
<1>6. RxInv'
  BY <1>1, <1>2, <1>3, <1>4, <1>5, RxLemma
<1>7. TxInv'
  <2>1. baud_div \in 0 .. DivMax /\ baud_locked \in BOOLEAN
    BY UartTypeLemma DEF UartTypeOK
  <2>2. QED
    BY <1>1, <1>2, <1>5, <2>1, TxLemma
<1>8. BrkInv'
  BY <1>1, <1>2, <1>3, <1>4, <1>5, BrkLemma
<1>9. ReadInv'
  <2>1. rx \in Frame
    BY <1>1 DEF RxInv
  <2>2. PICK rd_en \in BOOLEAN : Reads(rd_en)
    BY DEF Clock
  <2>3. QED
    BY <1>1, <2>1, <2>2, ReadLemma
<1>10. QED
  BY <1>3, <1>4, <1>5, <1>6, <1>7, <1>8, <1>9 DEF UartInv

LEMMA UartReset ==
  ASSUME UartInv, Reset
  PROVE  UartInv'
<1>1. /\ host.mode = "idle" /\ host' = host /\ period' = period
      /\ ~baud_locked' /\ baud_locked' \in BOOLEAN /\ cal' = NoCal /\ baud_div' = 0
      /\ rx' = NoFrame /\ ~rd_valid' /\ rd_data' = 0
      /\ tx' = NoFrame /\ tx_pin' = 1 /\ tx_age' = 0
      /\ brk_cnt' = 0 /\ brk_timer' = 0 /\ ~brk_prev'
      /\ ~reading' /\ owed' = << >> /\ unread' = 256 /\ ~overrun' /\ due' = 0
      /\ rd_valid' \in BOOLEAN /\ brk_prev' \in BOOLEAN
      /\ reading' \in BOOLEAN /\ overrun' \in BOOLEAN
  BY DEF Reset, None
<1>2. HostInv'
  BY <1>1 DEF UartInv, HostInv
<1>3. ~Sending' /\ host'.mode = "idle"
  BY <1>1 DEF Sending
<1>4. PipeInv'
  <2>1. CASE Synchronise
    BY <1>1, <1>2, <2>1, PipeLemma DEF UartInv, HostMoves, Stays
  <2>2. CASE rx_sync' = << 1, 1 >> /\ rx_d' = 1
    BY <1>3, <2>2 DEF PipeInv, rx_level
  <2>3. QED
    BY <2>1, <2>2 DEF Reset
<1>5. CalInv'
  BY <1>1, <1>3, UartAssumption DEF CalInv, NoCal
<1>6. RxInv'
  BY <1>1, <1>3 DEF RxInv, NoFrame, Frame
<1>7. TxInv'
  BY <1>1 DEF TxInv, NoFrame, Frame
<1>8. BrkInv'
  BY <1>1 DEF BrkInv
<1>9. ReadInv'
  BY <1>1 DEF ReadInv, None
<1>10. QED
  BY <1>2, <1>4, <1>5, <1>6, <1>7, <1>8, <1>9 DEF UartInv

LEMMA UartStutter ==
  ASSUME UartInv, UNCHANGED uartVars
  PROVE  UartInv'
<1>1. /\ rx_sync' = rx_sync /\ rx_d' = rx_d
      /\ baud_locked' = baud_locked /\ baud_div' = baud_div /\ cal' = cal
      /\ rx' = rx /\ rd_data' = rd_data /\ rd_valid' = rd_valid
      /\ tx' = tx /\ tx_pin' = tx_pin /\ tx_byte' = tx_byte /\ tx_age' = tx_age
      /\ brk_timer' = brk_timer /\ brk_cnt' = brk_cnt /\ brk_prev' = brk_prev
      /\ host' = host /\ period' = period /\ owed' = owed /\ due' = due
      /\ reading' = reading /\ unread' = unread /\ overrun' = overrun
  BY DEF uartVars, lineVars, calVars, rxVars, txVars, brkVars, hostVars
<1>2. HostInv' /\ ReadInv' /\ TxInv'
  BY <1>1 DEF UartInv, HostInv, ReadInv, TxInv
<1>3. Age' = Age /\ Sending' = Sending /\ rx_level' = rx_level
  BY <1>1 DEF Age, Sending, rx_level
<1>4. PipeInv'
  <2>1. Past(1)' = Past(1) /\ Past(2)' = Past(2) /\ Past(3)' = Past(3)
    BY <1>1, <1>3 DEF Past, LineAt
  <2>2. QED
    BY <1>1, <1>3, <2>1 DEF UartInv, PipeInv
<1>5. CalInv'
  <2>1. Syncing' = Syncing /\ Pace' = Pace /\ SyncPace' = SyncPace
    BY <1>1, <1>3 DEF Syncing, Pace, Seen, SyncPace
  <2>2. QED
    BY <1>1, <1>3, <2>1 DEF UartInv, CalInv
<1>6. RxInv'
  <2>1. Ours' = Ours /\ Filling' = Filling /\ Filled' = Filled /\ Locking' = Locking
    BY <1>1, <1>3 DEF Ours, Filling, Filled, Locking, Syncing
  <2>2. QED
    BY <1>1, <1>3, <2>1 DEF UartInv, RxInv
<1>7. BrkInv'
  <2>1. /\ Low' = Low /\ Enough' = Enough /\ Coming' = Coming /\ brk' = brk
    BY <1>1, <1>3 DEF Low, Enough, Coming, brk, brk_now
  <2>2. Pending' = Pending /\ Long' = Long
    BY <1>1, <2>1 DEF Pending, Long
  <2>3. QED
    BY <1>1, <1>3, <2>1, <2>2 DEF UartInv, BrkInv
<1>8. QED
  BY <1>2, <1>4, <1>5, <1>6, <1>7 DEF UartInv

(* In each state the program can reach, the host's place in its frame or   *)
(* break tells the synchroniser, the calibration, the receiver and the     *)
(* break detector: the inductive invariant the others follow from.         *)
THEOREM UartInvariance == Spec => []UartInv
<1>1. Init => UartInv
  BY UartInit
<1>2. UartInv /\ [Next]_uartVars => UartInv'
  BY UartClock, UartReset, UartStutter DEF Next
<1>3. QED
  BY <1>1, <1>2, PTL DEF Spec

(* The registers of the UART stay in their widths: the divisor fits ten    *)
(* bits at every rate it can lock.                                         *)
THEOREM UartTypeCorrect == Spec => []UartTypeOK
<1>1. UartInv => UartTypeOK
  BY UartTypeLemma
<1>2. QED
  BY <1>1, UartInvariance, PTL

(* 0x55 locks the host's period, rounded up to clocks, at every rate and    *)
(* whatever was on the line before; no other byte and no break locks.      *)
THEOREM LockIsRight == Spec => []LockedRight
<1>1. UartInv => LockedRight
  BY DEF UartInv, CalInv, LockedRight
<1>2. QED
  BY <1>1, UartInvariance, PTL

(* Each byte sent after the lock is delivered once, as sent and in order,  *)
(* by a receiver whose clock the host does not share.                      *)
THEOREM BytesAreInOrder == Spec => []BytesInOrder
<1>1. UartInv => BytesInOrder
  BY BytesLemma DEF UartInv
<1>2. QED
  BY <1>1, UartInvariance, PTL

(* A core that keeps up gets each byte once, a clock after it has asked.    *)
THEOREM BytesAreReadOnce == Spec => []ReadOnce
<1>1. UartInv => ReadOnce
  BY DEF UartInv, ReadInv, ReadOnce
<1>2. QED
  BY <1>1, UartInvariance, PTL

(* The host receives the byte the core has written: the error that         *)
(* rounding the period up adds over ten bits stays under half a bit.       *)
THEOREM TransmitsRight == Spec => []TxRight
<1>1. UartInv => TxRight
  BY TxRightLemma DEF UartInv
<1>2. QED
  BY <1>1, UartInvariance, PTL

(* One pulse for each break that is long enough, whatever comes after it,   *)
(* and none for data or a shorter break.                                   *)
THEOREM BreaksAreExact == Spec => []BreakExact
<1>1. UartInv => BreakExact
  BY BreakExactLemma DEF UartInv
<1>2. QED
  BY <1>1, UartInvariance, PTL

=============================================================================
