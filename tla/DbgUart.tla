------------------------------- MODULE DbgUart -------------------------------
(***************************************************************************)
(* The debug UART, rtl/dbg_uart.v: auto-baud on a byte 0x55, receiver,     *)
(* transmitter and break detector, with the host at the other end of the   *)
(* line and the core that reads and writes bytes.  One step is one clock.  *)
(*                                                                         *)
(* The host's bit period is a number of eighths of a clock.  It begins a   *)
(* frame at any time, not only on a clock edge, and waits for an idle      *)
(* line: received and transmitted frames share nothing but the divisor.    *)
(*                                                                         *)
(* baud_div + 1 clocks, the period of the UART, is the host's rounded up.  *)
(* A period of less than 19 clocks that is not a whole number of them is   *)
(* beyond it: up to a clock is lost in each bit, half a bit in the frame.   *)
(***************************************************************************)
EXTENDS Naturals, Sequences

CONSTANTS
  Periods,    (* bit periods of the host, in eighths of a clock            *)
  Bytes,      (* bytes the host sends                                      *)
  Writes,     (* bytes the core sends                                      *)
  BreakBits,  (* lengths of breaks, in bit periods                         *)
  CalMax,     (* last value of cal_cnt: 8191                               *)
  MayReset

ASSUME UartAssumption ==
  /\ Periods \subseteq Nat
  /\ \A p \in Periods : p < CalMax /\ ((p % 8 = 0 /\ p >= 16) \/ p > 152)
  /\ Bytes \subseteq 0 .. 255 /\ Writes \subseteq 0 .. 255
  /\ BreakBits \subseteq Nat \ 0 .. 9
  /\ CalMax \in Nat /\ CalMax <= 8191
  /\ MayReset \in BOOLEAN

VARIABLES
  rx_sync, rx_d,               (* synchroniser, oldest bit second          *)
  baud_locked, baud_div,
  cal,                         (* [active, cnt, edge]                      *)
  rx,                          (* [busy, timer, bit, sr]                   *)
  rd_data, rd_valid,
  tx, tx_pin,                  (* [busy, timer, bit, sr]                   *)
  brk_timer, brk_cnt, brk_prev,
  host,                        (* [mode, t, byte]: what the host does      *)
  period,
  reading,                     (* the core is in S_WAIT of a load of DATA  *)
  owed,     (* history: bytes on the line, not delivered yet               *)
  unread,   (* history: byte delivered, not read yet                       *)
  overrun,  (* history: a byte was delivered before the last was read      *)
  due,      (* history: breaks long enough, not reported yet               *)
  tx_byte, tx_age (* history: byte in transmission, clocks since its start *)

lineVars == << rx_sync, rx_d >>
calVars  == << baud_locked, baud_div, cal >>
rxVars   == << rx, rd_data, rd_valid >>
txVars   == << tx, tx_pin, tx_byte, tx_age >>
brkVars  == << brk_timer, brk_cnt, brk_prev >>
hostVars == << host, period, owed, due >>
uartVars == << lineVars, calVars, rxVars, txVars, brkVars, hostVars, reading, unread, overrun >>

None == 256

Sync == 85   (* 0x55 *)

DivMax == 1023   (* baud_div has ten bits *)

Frame == [busy : BOOLEAN, timer : 0 .. DivMax, bit : 0 .. 10, sr : 0 .. 255]

UartTypeOK ==
  /\ rx_sync \in {0, 1} \X {0, 1} /\ rx_d \in {0, 1}
  /\ baud_locked \in BOOLEAN /\ baud_div \in 0 .. DivMax
  /\ cal \in [active : BOOLEAN, cnt : 0 .. CalMax, edge : 0 .. 4]
  /\ rx \in Frame /\ tx \in Frame /\ tx_pin \in {0, 1}
  /\ rd_data \in 0 .. 255 /\ rd_valid \in BOOLEAN
  /\ brk_timer \in 0 .. baud_div /\ brk_cnt \in 0 .. 12 /\ brk_prev \in BOOLEAN

Bit(byte, i) == (byte \div (2 ^ i)) % 2

(* Bit k of a frame: start, eight data bits, stop.                         *)
FrameBit(byte, k) ==
  IF k = 0 THEN 0 ELSE IF k \in 1 .. 8 THEN Bit(byte, k - 1) ELSE 1

----------------------------------------------------------------------------
(* The line, as the host drives it.                                        *)

line ==
  CASE host.mode = "frame" -> FrameBit(host.byte, host.t \div period)
    [] host.mode = "break" -> 0
    [] OTHER               -> 1

----------------------------------------------------------------------------
(* Synchroniser and edge detector.                                         *)

rx_level == rx_sync[2]
rx_fall  == rx_d = 1 /\ rx_level = 0

Synchronise == rx_sync' = << line, rx_sync[1] >> /\ rx_d' = rx_level

----------------------------------------------------------------------------
(* Auto-baud: eight bit periods from the first falling edge of 0x55 to the *)
(* fifth.                                                                  *)

CalibrateOn(last) ==
  \/ /\ baud_locked \/ (~cal.active /\ ~rx_fall)
     /\ UNCHANGED calVars
  \/ /\ ~baud_locked /\ ~cal.active /\ rx_fall
     /\ cal' = [active |-> TRUE, cnt |-> 0, edge |-> 1]
     /\ UNCHANGED << baud_locked, baud_div >>
  \/ /\ ~baud_locked /\ cal.active
     /\ baud_locked' = (rx_fall /\ cal.edge = last)
     /\ baud_div' = IF baud_locked' THEN cal.cnt \div 8 ELSE baud_div
     /\ cal' = [active |-> ~baud_locked' /\ cal.cnt # CalMax,
                cnt    |-> (cal.cnt + 1) % (CalMax + 1),
                edge   |-> IF rx_fall /\ ~baud_locked' THEN cal.edge + 1 ELSE cal.edge]

(* Mutant: one edge too few.                                               *)
CalibrateEarly == CalibrateOn(3)

Calibrate == CalibrateOn(4)

----------------------------------------------------------------------------
(* Receiver.  The core's read clears rd_valid, a delivery in the same      *)
(* clock sets it again.                                                    *)

Sampling == rx.busy /\ rx.timer = 0

Deliver == Sampling /\ rx.bit = 9 /\ rx_level = 1

ReceiveFrom(start) ==
  rx' = IF baud_locked /\ ~rx.busy /\ rx_fall
          THEN [rx EXCEPT !.busy = TRUE, !.timer = start, !.bit = 0]
        ELSE IF Sampling
          THEN [busy  |-> ~(rx.bit = 9 \/ (rx.bit = 0 /\ rx_level = 1)),
                timer |-> baud_div,
                bit   |-> rx.bit + 1,
                sr    |-> IF rx.bit \in 1 .. 8 THEN 128 * rx_level + rx.sr \div 2 ELSE rx.sr]
        ELSE IF rx.busy THEN [rx EXCEPT !.timer = @ - 1] ELSE rx

(* Mutant: sampling begins a whole bit after the edge.                     *)
ReceiveAtEdges == ReceiveFrom(baud_div)

Receive == ReceiveFrom(baud_div \div 2)

(* Mutant: a read does not clear rd_valid.                                 *)
ReadKeepsValid(rd_en) ==
  /\ rd_data' = IF Deliver THEN rx.sr ELSE rd_data
  /\ rd_valid' = (Deliver \/ rd_valid)

ReadData(rd_en) ==
  /\ rd_data' = IF Deliver THEN rx.sr ELSE rd_data
  /\ rd_valid' = (Deliver \/ (rd_valid /\ ~rd_en))

----------------------------------------------------------------------------
(* Transmitter.                                                            *)

tx_ready == baud_locked /\ ~tx.busy

(* Mutant: the start bit is as short as the receiver's half bit.           *)
AcceptHalfBit(byte) ==
  /\ tx' = [busy |-> TRUE, timer |-> baud_div \div 2, bit |-> 0, sr |-> byte]
  /\ tx_pin' = 0

Accept(byte) ==
  /\ tx' = [busy |-> TRUE, timer |-> baud_div, bit |-> 0, sr |-> byte]
  /\ tx_pin' = 0

Shift ==
  IF tx.busy /\ tx.timer = 0
    THEN /\ tx' = [busy  |-> tx.bit # 9,
                   timer |-> baud_div,
                   bit   |-> tx.bit + 1,
                   sr    |-> IF tx.bit <= 7 THEN tx.sr \div 2 ELSE tx.sr]
         /\ tx_pin' = IF tx.bit <= 7 THEN tx.sr % 2 ELSE 1
    ELSE /\ tx' = IF tx.busy THEN [tx EXCEPT !.timer = @ - 1] ELSE tx
         /\ UNCHANGED tx_pin

Transmit ==
  \/ /\ tx_ready /\ host.mode = "idle"
     /\ \E b \in Writes : Accept(b) /\ tx_byte' = b
     /\ tx_age' = 0
  \/ /\ Shift
     /\ tx_age' = IF tx.busy THEN tx_age + 1 ELSE 0
     /\ tx_byte' = IF tx'.busy THEN tx_byte ELSE None

----------------------------------------------------------------------------
(* Break detector.                                                         *)

brk_now == brk_cnt = 12
brk     == brk_now /\ ~brk_prev

CountLow(saturates) ==
  /\ brk_timer' = IF brk_timer = baud_div THEN 0 ELSE brk_timer + 1
  /\ brk_cnt' = IF brk_timer = baud_div /\ ~(saturates /\ brk_now) THEN brk_cnt + 1 ELSE brk_cnt

(* Mutants: the count is kept while the line is high; it does not saturate. *)
DetectSumsUp ==
  /\ brk_prev' = brk_now
  /\ IF baud_locked /\ rx_level = 0 THEN CountLow(TRUE) ELSE UNCHANGED << brk_timer, brk_cnt >>

DetectUnsaturated ==
  /\ brk_prev' = brk_now
  /\ IF ~baud_locked THEN UNCHANGED << brk_timer, brk_cnt >>
     ELSE IF rx_level = 1 THEN brk_timer' = 0 /\ brk_cnt' = 0 ELSE CountLow(FALSE)

Detect ==
  /\ brk_prev' = brk_now
  /\ IF ~baud_locked THEN UNCHANGED << brk_timer, brk_cnt >>
     ELSE IF rx_level = 1 THEN brk_timer' = 0 /\ brk_cnt' = 0 ELSE CountLow(TRUE)

----------------------------------------------------------------------------
(* The host.  Before the UART is locked it sends 0x55, or something else   *)
(* and then nothing until the calibration has given up.                    *)

Phases == CASE period % 8 = 0 -> {0} [] period % 8 = 4 -> {0, 4} [] OTHER -> 0 .. 7

Length ==
  CASE host.mode = "frame" -> 10 * period
    [] host.mode = "break" -> host.byte * period
    [] host.mode = "quiet" -> 8 * (CalMax + 3)
    [] OTHER               -> 0

Begin(mode, byte) == \E t \in Phases : host' = [mode |-> mode, t |-> t, byte |-> byte]

Delivered == IF Deliver THEN Tail(owed) ELSE owed

Reported == IF brk THEN due - 1 ELSE due

HostIdle ==
  /\ host.mode = "idle"
  /\ \/ /\ UNCHANGED host
        /\ owed' = Delivered /\ due' = Reported
     \/ /\ ~baud_locked
        /\ Begin("frame", Sync)
        /\ owed' = Delivered /\ due' = Reported
     \/ /\ ~tx.busy
        /\ \E b \in Bytes : Begin("frame", b) /\ owed' = IF baud_locked THEN Append(Delivered, b) ELSE owed
        /\ due' = Reported
     \/ /\ ~tx.busy
        /\ \E n \in BreakBits : Begin("break", n) /\ due' = IF baud_locked /\ n * period >= 96 * (baud_div + 1) THEN Reported + 1 ELSE Reported
        /\ owed' = Delivered

Syncing == host.mode = "frame" /\ host.byte = Sync

HostBusy ==
  /\ host.mode # "idle"
  /\ host' = IF host.t + 8 < Length THEN [host EXCEPT !.t = @ + 8]
             ELSE IF ~baud_locked /\ host.mode # "quiet" /\ ~Syncing
                    THEN [mode |-> "quiet", t |-> 0, byte |-> 0]
                    ELSE [mode |-> "idle", t |-> 0, byte |-> 0]
  /\ owed' = Delivered /\ due' = Reported

----------------------------------------------------------------------------
(* A clock: the core reads in S_EXECUTE (rd_en) a byte that it has seen    *)
(* in STATUS; what S_WAIT samples one clock later is what counts.          *)

Reads(rd_en) ==
  /\ rd_en => rd_valid /\ ~reading
  /\ reading' = rd_en
  /\ ReadData(rd_en)
  /\ unread' = IF Deliver THEN rx.sr ELSE IF reading THEN None ELSE unread
  /\ overrun' = (overrun \/ (Deliver /\ unread # None /\ ~reading))

Clock ==
  /\ HostIdle \/ HostBusy
  /\ Synchronise /\ Calibrate /\ Receive /\ Transmit /\ Detect
  /\ \E rd_en \in BOOLEAN : Reads(rd_en)
  /\ UNCHANGED period

(* Registers without a reset are written before they are read: 0 here.      *)
NoFrame == [busy |-> FALSE, timer |-> 0, bit |-> 0, sr |-> 0]
NoCal   == [active |-> FALSE, cnt |-> 0, edge |-> 0]

(* The host keeps the line idle while the core is reset.  Two always       *)
(* blocks assign rx_sync and rx_d in a reset: either may win.              *)
Reset ==
  /\ MayReset
  /\ host.mode = "idle"
  /\ \/ rx_sync' = << 1, 1 >> /\ rx_d' = 1
     \/ Synchronise
  /\ baud_locked' = FALSE /\ cal' = NoCal
  /\ rx' = NoFrame /\ rd_valid' = FALSE
  /\ tx' = NoFrame /\ tx_pin' = 1
  /\ brk_cnt' = 0 /\ brk_timer' = 0 /\ brk_prev' = FALSE
  /\ reading' = FALSE
  /\ owed' = << >> /\ unread' = None /\ overrun' = FALSE /\ due' = 0
  /\ tx_byte' = None /\ tx_age' = 0
  /\ baud_div' = 0 /\ rd_data' = 0
  /\ UNCHANGED << host, period >>

Init ==
  /\ rx_sync = << 1, 1 >> /\ rx_d = 1
  /\ baud_locked = FALSE /\ baud_div = 0 /\ cal = NoCal
  /\ rx = NoFrame
  /\ rd_data = 0 /\ rd_valid = FALSE
  /\ tx = NoFrame /\ tx_pin = 1
  /\ brk_timer = 0 /\ brk_cnt = 0 /\ brk_prev = FALSE
  /\ host = [mode |-> "idle", t |-> 0, byte |-> 0] /\ period \in Periods
  /\ reading = FALSE
  /\ owed = << >> /\ unread = None /\ overrun = FALSE /\ due = 0
  /\ tx_byte = None /\ tx_age = 0

Next == Clock \/ Reset

Spec == Init /\ [][Next]_uartVars

----------------------------------------------------------------------------
(* Properties.                                                             *)

(* The last change of the line has gone through the synchroniser and the   *)
(* receiver.                                                               *)
Settled ==
  host.mode = "idle" /\ rx_sync = << 1, 1 >> /\ rx_d = 1 /\ ~rx.busy /\ ~brk

(* 0x55 locks the host's bit period, rounded up to clocks, whatever was on *)
(* the line before, if the calibration had the time to give it up; nothing *)
(* else locks.                                                             *)
LockedRight == baud_locked => baud_div + 1 = (period + 7) \div 8

(* Each byte the host sends after the lock is delivered, once, as it was   *)
(* sent and in order; a break, short or long, delivers nothing.            *)
BytesInOrder ==
  /\ Deliver => owed # << >> /\ Head(owed) = rx.sr
  /\ Settled => owed = << >>

(* A core that reads each byte before the next arrives gets each byte      *)
(* once: what it samples a clock after rd_en is the byte it has been told  *)
(* of, and rd_valid stays for the ones it has not read.                    *)
ReadOnce ==
  ~overrun =>
    /\ reading => rd_data = unread
    /\ rd_valid /\ ~reading => rd_data = unread
    /\ unread # None => rd_valid \/ reading

(* The host, which samples each bit in the middle of its own bit period    *)
(* after the start edge, receives the byte the core has written.           *)
TxRight ==
  tx.busy => \A k \in 0 .. 9 :
    LET middle == (2 * k + 1) * period
    IN 16 * tx_age <= middle /\ middle < 16 * (tx_age + 1) => tx_pin = FrameBit(tx_byte, k)

(* One pulse for each time the host holds the line low for twelve of the   *)
(* UART's bit periods or more, none for data or for a shorter break.       *)
BreakExact ==
  /\ brk => due > 0
  /\ Settled => due = 0

=============================================================================
