------------------------------- MODULE GdbRsp --------------------------------
(***************************************************************************)
(* The packet layer of the GDB stub (sw/gdb_stub.c:46-205 and the command  *)
(* loop, 611-681) over a serial line that loses and changes characters,    *)
(* with the debugger at the other end.                                     *)
(*                                                                         *)
(* A step of the stub is one character read, or one packet sent.           *)
(* Characters are their ASCII codes.  What a command does is in GdbStub;   *)
(* here it is executed, has an answer, or lets the program run until the   *)
(* next stop.  The counter "tries" of get_packet has no effect, since the  *)
(* loop calls get_packet again when it gives up, and is left out.          *)
(***************************************************************************)
EXTENDS Integers, Sequences, SequencesExt

CONSTANTS
  PKT_BUF_SIZE,
  Commands,     (* payloads the debugger sends                             *)
  Noise,        (* what a changed character may become                     *)
  MaxFaults,    (* characters lost or changed, in all                      *)
  HostTries     (* how often the debugger sends a packet or asks again     *)

ASSUME RspAssumption ==
  /\ PKT_BUF_SIZE \in Nat \ {0}
  /\ \A c \in Commands : c # << >> /\ c \in Seq(0 .. 255)
  /\ Noise \subseteq 0 .. 255
  /\ MaxFaults \in Nat /\ HostTries \in Nat \ {0}

Dollar == 36
Hash == 35
Plus == 43
Minus == 45

----------------------------------------------------------------------------
(* Hexadecimal digits and packets.                                         *)

hex_to_nib(c) ==
  CASE c \in 48 .. 57  -> c - 48
    [] c \in 97 .. 102 -> c - 97 + 10
    [] c \in 65 .. 70  -> c - 65 + 10
    [] OTHER           -> -1

nib_to_hex(v) == IF v % 16 < 10 THEN 48 + (v % 16) ELSE 97 + (v % 16) - 10

cksum(payload) ==
  LET sum[n \in 0 .. Len(payload)] == IF n = 0 THEN 0 ELSE (sum[n - 1] + payload[n]) % 256
  IN sum[Len(payload)]

(* Of a character that is no digit, -1, all bits are set.                   *)
rx_ck(hi, lo) == IF lo = -1 THEN 255 ELSE 16 * (hi % 16) + lo

Packet(payload) ==
  << Dollar >> \o payload
    \o << Hash, nib_to_hex(cksum(payload) \div 16), nib_to_hex(cksum(payload)) >>

----------------------------------------------------------------------------
(* Commands and answers, told apart by their first characters.             *)

T05 == << 84 >>
OK == << 79 >>
Data == << 48 >>
Empty == << >>

Resumes(payload) == payload # << >> /\ payload[1] \in {99, 115}   (* c s *)

(* ? H; g m; G M Z z; v and what the stub does not know                     *)
Reply(payload) ==
  LET c == IF payload = << >> THEN 0 ELSE payload[1]
  IN CASE c = 63               -> T05
       [] c = 72               -> OK
       [] c \in {103, 109}     -> Data
       [] c \in {71, 77, 90, 122} -> OK
       [] OTHER                -> Empty

NoAnswer == << -1 >>

AnswerTo(payload) == IF Resumes(payload) THEN T05 ELSE Reply(payload)

Fits(payload) == Len(payload) < PKT_BUF_SIZE

----------------------------------------------------------------------------
VARIABLES
  toStub, toHost,   (* characters on the line; the first one of toStub may *)
                    (* be in the receiver already                          *)
  at,               (* where the stub is                                   *)
  buf,              (* of get_packet                                       *)
  hi,               (* first digit of the checksum                         *)
  data, retry,      (* of put_packet                                       *)
  host,             (* where the debugger is: "idle", "ack", "reply"       *)
  cmd, sent,        (* its command, how often it has sent or asked         *)
  answer,           (* what it has got                                     *)
  faults,
  ran               (* history: executions of the command: 0, 1, 2 for more *)

stubVars == << at, buf, hi, data, retry >>
hostVars == << host, cmd, sent, answer >>
vars == << toStub, toHost, stubVars, hostVars, faults, ran >>

Reading == {"start", "body", "hi", "lo", "ack"}

RspTypeOK ==
  /\ at \in Reading \cup {"put", "run"}
  /\ Len(buf) < PKT_BUF_SIZE
  /\ hi \in -1 .. 15
  /\ retry \in 0 .. 3 /\ (at = "ack" => retry > 0) /\ (at = "put" => retry < 3)
  /\ host \in {"idle", "ack", "reply"} /\ sent \in 0 .. HostTries
  /\ (host = "idle") = (cmd = << >>)
  /\ faults \in 0 .. MaxFaults /\ ran \in 0 .. 2

----------------------------------------------------------------------------
(* The stub.                                                               *)

Getc(c) == toStub # << >> /\ c = Head(toStub) /\ toStub' = Tail(toStub)

Putc(s) == toHost' = toHost \o s

(* Mutant: len is not set back to 0.                                        *)
Begin_keeps_length == UNCHANGED buf

Begin == buf' = << >>

(* Wait for the dollar and discard everything else.                        *)
GetStart ==
  /\ at = "start"
  /\ \E c \in 0 .. 255 : Getc(c) /\ at' = IF c = Dollar THEN "body" ELSE "start"
  /\ Begin
  /\ UNCHANGED << toHost, hi, data, retry, hostVars, faults, ran >>

(* Characters that do not fit are not in the checksum either.              *)
Collect(c) ==
  /\ buf' = IF c # Hash /\ Len(buf) < PKT_BUF_SIZE - 1 THEN Append(buf, c) ELSE buf
  /\ at' = IF c = Hash THEN "hi" ELSE "body"

GetBody ==
  /\ at = "body"
  /\ \E c \in 0 .. 255 : Getc(c) /\ Collect(c)
  /\ UNCHANGED << toHost, hi, data, retry, hostVars, faults, ran >>

GetHi ==
  /\ at = "hi"
  /\ \E c \in 0 .. 255 : Getc(c) /\ hi' = hex_to_nib(c)
  /\ at' = "lo"
  /\ UNCHANGED << toHost, buf, data, retry, hostVars, faults, ran >>

StartPut(payload) == at' = "put" /\ data' = payload /\ retry' = 0

Dispatch ==
  /\ ran' = IF ran = 0 THEN 1 ELSE 2
  /\ IF Resumes(buf)
       THEN at' = "run" /\ UNCHANGED << data, retry >>
       ELSE StartPut(Reply(buf))

Matches(lo) == rx_ck(hi, lo) = cksum(buf)

GetLo ==
  /\ at = "lo"
  /\ \E c \in 0 .. 255 :
       /\ Getc(c)
       /\ IF Matches(hex_to_nib(c))
            THEN Putc(<< Plus >>) /\ Dispatch
            ELSE Putc(<< Minus >>) /\ at' = "start" /\ UNCHANGED << data, retry, ran >>
  /\ UNCHANGED << buf, hi, hostVars, faults >>

Put ==
  /\ at = "put"
  /\ Putc(Packet(data))
  /\ at' = "ack" /\ retry' = retry + 1
  /\ UNCHANGED << toStub, buf, hi, data, hostVars, faults, ran >>

(* Mutant: put_packet goes on until it is acknowledged.                    *)
AfterAck_for_ever(c) == IF c = Plus THEN "start" ELSE "put"

(* Any character is an answer; all but the plus are a refusal.             *)
AfterAck(c) == IF c = Plus \/ retry = 3 THEN "start" ELSE "put"

GetAck ==
  /\ at = "ack"
  /\ \E c \in 0 .. 255 : Getc(c) /\ at' = AfterAck(c)
  /\ UNCHANGED << toHost, buf, hi, data, retry, hostVars, faults, ran >>

(* Mutant: gdb_stub_entry sends no reply of its own.                       *)
gdb_stub_entry_silent == at' = "start" /\ UNCHANGED << data, retry >>

gdb_stub_entry == StartPut(T05)

(* The program stops.                                                      *)
Stop ==
  /\ at = "run"
  /\ gdb_stub_entry
  /\ UNCHANGED << toStub, toHost, buf, hi, hostVars, faults, ran >>

(* Nobody reads while the stub sends or the program runs: the receiver     *)
(* (dbg_uart.v) has room for one character, the next overwrites it.        *)
Overrun ==
  /\ at \notin Reading
  /\ Len(toStub) > 1
  /\ toStub' = Tail(toStub)
  /\ UNCHANGED << toHost, stubVars, hostVars, faults, ran >>

----------------------------------------------------------------------------
(* The debugger.  It sends a packet again when it is refused or hears      *)
(* nothing; a packet that comes instead of the acknowledgement is an old   *)
(* answer, acknowledged and ignored.                                       *)

HostSends(s) == toStub' = toStub \o s

(* After a failure the user takes longer than what is on the way.           *)
Send ==
  /\ host = "idle"
  /\ answer = NoAnswer => toStub = << >> /\ toHost = << >> /\ at # "put"
  /\ cmd' \in Commands
  /\ HostSends(Packet(cmd'))
  /\ host' = "ack" /\ sent' = 1 /\ answer' = NoAnswer
  /\ ran' = 0
  /\ UNCHANGED << toHost, stubVars, faults >>

(* Where the packet at the start of s ends.                                *)
End(s) == SelectInSeq(s, LAMBDA c : c = Hash) + 2

PacketReady == toHost # << >> /\ toHost[1] = Dollar /\ End(toHost) \in 4 .. Len(toHost)

Payload(s) == SubSeq(s, 2, End(s) - 3)

Correct(s) == SubSeq(s, 1, End(s)) = Packet(Payload(s))

Give ==
  /\ host' = "idle" /\ cmd' = << >> /\ sent' = 0

Again(s) ==
  IF sent < HostTries
    THEN HostSends(s) /\ sent' = sent + 1 /\ UNCHANGED << host, cmd, answer >>
    ELSE Give /\ UNCHANGED << toStub, answer >>

HostAck ==
  /\ host = "ack" /\ toHost # << >>
  /\ toHost' = Tail(toHost)
  /\ \/ /\ Head(toHost) = Plus
        /\ host' = "reply" /\ sent' = 0
        /\ UNCHANGED << toStub, cmd, answer >>
     \/ Head(toHost) = Minus /\ Again(Packet(cmd))
  /\ UNCHANGED << stubVars, faults, ran >>

HostSkips ==
  /\ toHost # << >>
  /\ Head(toHost) \notin {Dollar} \cup (IF host = "ack" THEN {Plus, Minus} ELSE {})
  /\ toHost' = Tail(toHost)
  /\ UNCHANGED << toStub, stubVars, hostVars, faults, ran >>

HostPacket ==
  /\ PacketReady
  /\ toHost' = SubSeq(toHost, End(toHost) + 1, Len(toHost))
  /\ \/ host # "reply" /\ HostSends(<< Plus >>) /\ UNCHANGED hostVars
     \/ /\ host = "reply" /\ Correct(toHost)
        /\ HostSends(<< Plus >>)
        /\ answer' = Payload(toHost)
        /\ Give
     \/ host = "reply" /\ ~Correct(toHost) /\ Again(<< Minus >>)
  /\ UNCHANGED << stubVars, faults, ran >>

(* It is patient: nothing is on the way when it has waited long enough.  A *)
(* stop is awaited for ever.                                               *)
Quiet == toStub = << >> /\ at \in Reading /\ (toHost # << >> => toHost[1] = Dollar /\ ~PacketReady)

HostTimeout ==
  /\ Quiet
  /\ toHost' = << >>
  /\ \/ host = "ack" /\ Again(Packet(cmd))
     \/ host = "reply" /\ ~Resumes(cmd) /\ Again(<< Minus >>)
     \/ host = "idle" /\ toHost # << >> /\ UNCHANGED << toStub, hostVars >>
  /\ UNCHANGED << stubVars, faults, ran >>

(* Both sides wait: the stop has got lost.  The user gives up.             *)
Stalemate == Quiet /\ host = "reply" /\ Resumes(cmd)

Abandon ==
  /\ Stalemate
  /\ Give
  /\ toHost' = << >>
  /\ UNCHANGED << toStub, stubVars, answer, faults, ran >>

----------------------------------------------------------------------------
(* The line.                                                               *)

Damaged(s) ==
  {RemoveAt(s, i) : i \in DOMAIN s} \cup {ReplaceAt(s, i, c) : i \in DOMAIN s, c \in Noise}

Fault ==
  /\ faults < MaxFaults
  /\ faults' = faults + 1
  /\ \/ toStub' \in Damaged(toStub) /\ UNCHANGED toHost
     \/ toHost' \in Damaged(toHost) /\ UNCHANGED toStub
  /\ UNCHANGED << stubVars, hostVars, ran >>

----------------------------------------------------------------------------
Init ==
  /\ toStub = << >> /\ toHost = << >>
  /\ at \in {"start", "run"} /\ buf = << >> /\ hi = 0 /\ data = Empty /\ retry = 0
  /\ host = "idle" /\ cmd = << >> /\ sent = 0 /\ answer = NoAnswer
  /\ faults = 0 /\ ran = 0

Stub == GetStart \/ GetBody \/ GetHi \/ GetLo \/ Put \/ GetAck \/ Stop

Host == HostAck \/ HostSkips \/ HostPacket \/ HostTimeout

Next == Stub \/ Overrun \/ Send \/ Host \/ Abandon \/ Fault

Spec == Init /\ [][Next]_vars

(* The core executes the stub and a program that stops in the end; the     *)
(* debugger reads what it is sent and loses its patience in the end.       *)
FairSpec == Spec /\ WF_vars(Stub) /\ WF_vars(Host)

----------------------------------------------------------------------------
(* Properties.                                                             *)

(* The debugger has the link of RspLink: nothing is executed but its        *)
(* command, twice only on a line that has failed; an answer is the answer   *)
(* to its command; and a command that fits is given up on such a line only. *)
(* Lost acknowledgements, refusals, resent packets and stops, the answers   *)
(* that put_packet repeats when it takes part of the next command for an    *)
(* acknowledgement, and commands too long for the buffer all come in.       *)
Link == INSTANCE RspLink WITH failed <- faults > 0

ImplementsLink == Link!LinkSpec

(* No command hangs: the stub answers, refuses or listens again, whatever   *)
(* the line does, but when the line has failed both sides may wait for each *)
(* other after a stop.                                                      *)
CommandEnds == host # "idle" ~> (host = "idle" \/ (Stalemate /\ faults > 0))

=============================================================================
