---------------------------- MODULE AttoAhblProofs ----------------------------
(***************************************************************************)
(* Proofs about AttoAhbl.  In every setup, whatever wait states the slave   *)
(* takes: the wrapper and the core keep in step, and no request is dropped. *)
(* In those that keep up (SlaveKeepsUp), wait states included: no store is  *)
(* lost, and each has landed with its own data before the next instruction *)
(* executes.  AhbAddr.cfg and AhbWdata.cfg show stores beyond that.         *)
(***************************************************************************)
EXTENDS AttoAhbl, TLAPS

(* A write is announced; it is in its data phase.                          *)
Announced == HTRANS = "NONSEQ" /\ HWRITE
Writing   == data_phase.kind = "write"

----------------------------------------------------------------------------
(* Any setup.                                                              *)

LEMMA SetupLemma ==
  ASSUME AhbTypeOK
  PROVE  ReadWaits \in Nat /\ WriteWaits \in Nat /\ Skips \in BOOLEAN /\ Cuts \in BOOLEAN
  BY AhbAssumption DEF AhbTypeOK, ReadWaits, WriteWaits, Skips, Cuts

(* The setup stays.                                                        *)
LEMMA SameSetupLemma ==
  ASSUME [AhbNext]_ahbVars
  PROVE  /\ setup' = setup /\ Skips' = Skips /\ Cuts' = Cuts
         /\ SlaveKeepsUp' = SlaveKeepsUp
<1>1. setup' = setup
  BY DEF AhbNext, Clock, AhbReset, ahbVars
<1>2. QED
  BY <1>1 DEF SlaveKeepsUp, ReadWaits, WriteWaits, Skips, Cuts

(* While the wrapper is occupied the core waits for it, for a fetch in      *)
(* S_WAIT_INSTR or for a load or store in S_WAIT.                          *)
PortInv ==
  /\ AhbTypeOK
  /\ HTRANS = "NONSEQ" => state = "DATA"
  /\ cut => state = "DATA"
  /\ state = "DATA" /\ ~cut => core = "WAIT" \/ (core = "WAIT_INSTR" /\ ~is_write_d)
  /\ skip_fetch => Skips
  /\ ~HREADY => data_phase # NoTransfer

LEMMA EmptyLemma == << >> \in Seq(Addr \X Data) /\ Len(<< >>) = 0
  OBVIOUS

(* The queue of stores stays one.                                          *)
LEMMA DueTypeLemma ==
  ASSUME AhbTypeOK, Clock
  PROVE  due' \in Seq(Addr \X Data) /\ Len(due') <= DueBound
<1> DEFINE rest == IF Landing /\ due # << >> THEN Tail(due) ELSE due
<1>1. due \in Seq(Addr \X Data) /\ Len(due) <= 2 /\ << addr, mem_wdata >> \in Addr \X Data
  BY DEF AhbTypeOK, DueBound
<1>2. rest \in Seq(Addr \X Data) /\ Len(rest) <= 2
  BY <1>1
<1>3. due' = IF mem_wstrb /\ Len(rest) < 2 THEN Append(rest, << addr, mem_wdata >>) ELSE rest
  BY DEF Clock, Account, DueBound
<1> HIDE DEF rest
<1>4. CASE mem_wstrb /\ Len(rest) < 2
  BY <1>1, <1>2, <1>3, <1>4 DEF DueBound
<1>5. CASE ~(mem_wstrb /\ Len(rest) < 2)
  BY <1>2, <1>3, <1>5 DEF DueBound
<1>6. QED
  BY <1>4, <1>5

(* The slave takes up in its data phase what was announced, if HREADY was   *)
(* high, and waits in a data phase only.                                   *)
LEMMA SlaveLemma ==
  ASSUME AhbTypeOK, Clock
  PROVE  /\ HREADY' \in BOOLEAN /\ waits' \in Nat
         /\ data_phase' \in Transfer \cup {NoTransfer}
         /\ mem' \in [Addr -> Data]
         /\ ~HREADY' => data_phase' # NoTransfer
         /\ Writing' <=> (IF HREADY THEN Announced ELSE Writing)
         /\ HREADY /\ Announced => data_phase'.addr = HADDR
         /\ HREADY /\ HTRANS = "IDLE" => HREADY'
         /\ ~HREADY => data_phase' = data_phase
<1>1. SlaveStep
  BY DEF Clock
<1>2. HREADY' \in BOOLEAN /\ waits' \in Nat
  <2>1. waits \in Nat /\ (IF HREADY THEN 0 ELSE waits) + 1 \in Nat
    BY DEF AhbTypeOK
  <2>2. \/ HREADY' = TRUE /\ waits' = 0
        \/ HREADY' = FALSE /\ waits' = (IF HREADY THEN 0 ELSE waits) + 1
    BY <1>1 DEF SlaveStep
  <2>3. CASE HREADY' = TRUE /\ waits' = 0
    BY <2>3
  <2>4. CASE HREADY' = FALSE /\ waits' = (IF HREADY THEN 0 ELSE waits) + 1
    <3>1. HREADY' \in BOOLEAN
      BY <2>4
    <3>2. waits' \in Nat
      BY <2>1, <2>4
    <3>3. QED
      BY <3>1, <3>2
  <2>5. QED
    BY <2>2, <2>3, <2>4
<1>3. ~HREADY' => data_phase' # NoTransfer
  BY <1>1 DEF SlaveStep, NoTransfer
<1>4. mem' \in [Addr -> Data]
  BY <1>1 DEF SlaveStep, AhbTypeOK
<1>5. CASE ~HREADY
  <2>1. data_phase' = data_phase
    BY <1>1, <1>5 DEF SlaveStep
  <2>2. QED
    BY <1>2, <1>3, <1>4, <1>5, <2>1 DEF AhbTypeOK, Writing
<1>6. CASE HREADY /\ HTRANS = "IDLE"
  <2>1. data_phase' = NoTransfer
    BY <1>1, <1>6 DEF SlaveStep
  <2>2. HREADY' /\ ~Writing' /\ ~Announced
    BY <1>3, <1>6, <2>1 DEF Writing, Announced, NoTransfer
  <2>3. QED
    BY <1>2, <1>4, <1>6, <2>1, <2>2
<1>7. CASE HREADY /\ HTRANS = "NONSEQ"
  <2>1. data_phase' = [kind |-> IF HWRITE THEN "write" ELSE "read", addr |-> HADDR]
    BY <1>1, <1>7 DEF SlaveStep
  <2>2. data_phase' \in Transfer
    BY <2>1 DEF Transfer, AhbTypeOK
  <2>3. Writing' <=> Announced
    BY <1>7, <2>1 DEF Writing, Announced
  <2>4. QED
    BY <1>2, <1>3, <1>4, <1>7, <2>1, <2>2, <2>3
<1>8. QED
  BY <1>5, <1>6, <1>7 DEF AhbTypeOK

(* The wrapper announces what the core asks for, and only then.            *)
LEMMA MasterLemma ==
  ASSUME AhbTypeOK, Clock
  PROVE  /\ state' \in {"IDLE", "DATA"} /\ HTRANS' \in {"IDLE", "NONSEQ"}
         /\ HADDR' \in Addr /\ HWRITE' \in BOOLEAN /\ is_write_d' \in BOOLEAN
         /\ mem_rdata' \in Data
         /\ HTRANS' = "NONSEQ" <=> state = "IDLE" /\ cpu_req
         /\ state' = "DATA" <=> (IF state = "IDLE" THEN cpu_req ELSE ~HREADY)
         /\ HTRANS' = "NONSEQ" => HADDR' = addr /\ HWRITE' = mem_wstrb
         /\ is_write_d' = IF state = "IDLE" /\ cpu_req THEN mem_wstrb ELSE is_write_d
<1>1. mem_wstrb \in BOOLEAN /\ HRDATA \subseteq Data
  BY DEF mem_wstrb, HRDATA, AhbTypeOK, Transfer, NoTransfer
<1>2. CASE MasterIdle
  BY <1>1, <1>2 DEF MasterIdle, Accept, AhbTypeOK
<1>3. CASE MasterData
  BY <1>1, <1>3 DEF MasterData, EndPhase, AhbTypeOK
<1>4. QED
  BY <1>2, <1>3 DEF Clock

(* The ways of the core.                                                   *)
LEMMA CoreLemma ==
  ASSUME AhbTypeOK, Clock
  PROVE  /\ core = "FETCH_INSTR" => core' = "WAIT_INSTR"
         /\ core = "WAIT_INSTR" => core' = IF mem_rbusy THEN "WAIT_INSTR" ELSE "EXECUTE"
         /\ core = "EXECUTE" /\ op = "alu" => core' \in {"FETCH_INSTR", "WAIT_INSTR"}
         /\ core = "EXECUTE" /\ op # "alu" =>
              core' = "WAIT" \/ (core' = "FETCH_INSTR" /\ Cuts)
         /\ core = "WAIT" => core' = IF mem_rbusy \/ mem_wbusy THEN "WAIT"
                                     ELSE AfterInstr(skip_fetch)
         /\ core' = "EXECUTE" \/ UNCHANGED mem_wdata
<1>1. CASE CoreFetch
  BY <1>1 DEF CoreFetch
<1>2. CASE CoreWaitInstr
  BY <1>2 DEF CoreWaitInstr, coreSide
<1>3. CASE CoreExecute
  BY <1>3 DEF CoreExecute, AfterInstr
<1>4. CASE CoreWait
  BY <1>4 DEF CoreWait, coreSide
<1>5. QED
  BY <1>1, <1>2, <1>3, <1>4 DEF Clock, CoreStep

LEMMA CoreTypeLemma ==
  ASSUME AhbTypeOK, Clock
  PROVE  /\ core' \in {"FETCH_INSTR", "WAIT_INSTR", "EXECUTE", "WAIT"}
         /\ op' \in {"alu", "load", "store"} /\ addr' \in Addr /\ mem_wdata' \in Data
         /\ reading' \in BOOLEAN /\ cut' \in BOOLEAN /\ skip_fetch' \in BOOLEAN
         /\ (skip_fetch => Skips) => (skip_fetch' => Skips)
<1>1. cut' \in BOOLEAN
  BY DEF Clock, CutShort, AhbTypeOK
<1>2. CASE CoreFetch
  BY <1>1, <1>2 DEF CoreFetch, AhbTypeOK
<1>3. CASE CoreWaitInstr
  BY <1>1, <1>3 DEF CoreWaitInstr, AhbTypeOK, coreSide
<1>4. CASE CoreExecute
  BY <1>1, <1>4 DEF CoreExecute, AfterInstr, AhbTypeOK
<1>5. CASE CoreWait
  BY <1>1, <1>5 DEF CoreWait, AfterInstr, AhbTypeOK, coreSide
<1>6. QED
  BY <1>2, <1>3, <1>4, <1>5 DEF Clock, CoreStep

LEMMA PortInitLemma == ASSUME AhbInit PROVE PortInv
<1>1. due \in Seq(Addr \X Data) /\ Len(due) <= DueBound
  BY EmptyLemma DEF AhbInit, DueBound
<1>2. AhbTypeOK
  BY <1>1 DEF AhbInit, AhbTypeOK
<1>3. QED
  BY <1>2 DEF AhbInit, PortInv

LEMMA PortResetLemma == ASSUME PortInv, AhbReset PROVE PortInv'
<1>1. due' \in Seq(Addr \X Data) /\ Len(due') <= DueBound
  BY EmptyLemma DEF AhbReset, DueBound
<1>2. AhbTypeOK'
  BY <1>1 DEF AhbReset, PortInv, AhbTypeOK
<1>3. QED
  BY <1>2 DEF AhbReset, PortInv

(* The core in a stalled wrapper does not move, and in an idle one finds    *)
(* its request taken.                                                      *)
LEMMA PortClockLemma ==
  ASSUME PortInv, Clock
  PROVE  PortInv'
<1> USE DEF PortInv
<1>1. AhbTypeOK'
  <2>1. setup' \in Setups
    BY SameSetupLemma DEF AhbTypeOK, AhbNext
  <2>2. QED
    BY <2>1, DueTypeLemma, SlaveLemma, MasterLemma, CoreTypeLemma DEF AhbTypeOK
<1>2. (HTRANS' = "NONSEQ" => state' = "DATA") /\ (skip_fetch' => Skips')
  BY MasterLemma, CoreTypeLemma, SameSetupLemma DEF AhbNext
<1>3. ~HREADY' => data_phase' # NoTransfer
  BY SlaveLemma
<1>4. cut' <=> /\ state' = "DATA"
               /\ cut \/ (core = "EXECUTE" /\ op # "alu" /\ core' = "FETCH_INSTR")
  BY DEF Clock, CutShort
<1>5. ASSUME state' = "DATA", ~cut'
      PROVE  core' = "WAIT" \/ (core' = "WAIT_INSTR" /\ ~is_write_d')
  <2>1. ~cut /\ ~(core = "EXECUTE" /\ op # "alu" /\ core' = "FETCH_INSTR")
    BY <1>4, <1>5
  <2>2. CASE state = "IDLE"
    <3>1. cpu_req /\ is_write_d' = mem_wstrb
      BY <1>5, <2>2, MasterLemma
    <3>2. CASE core = "FETCH_INSTR"
      BY <3>1, <3>2, CoreLemma DEF mem_wstrb
    <3>3. CASE core = "EXECUTE" /\ op # "alu"
      BY <2>1, <3>3, CoreLemma
    <3>4. QED
      BY <3>1, <3>2, <3>3 DEF cpu_req, mem_rstrb, mem_wstrb
  <2>3. CASE state = "DATA"
    <3>1. ~HREADY /\ is_write_d' = is_write_d
      BY <1>5, <2>3, MasterLemma
    <3>2. mem_rbusy = ~is_write_d /\ mem_wbusy = is_write_d /\ is_write_d \in BOOLEAN
      BY <2>3, <3>1 DEF mem_rbusy, mem_wbusy, AhbTypeOK
    <3>3. QED
      BY <2>1, <2>3, <3>1, <3>2, CoreLemma
  <2>4. QED
    BY <2>2, <2>3 DEF AhbTypeOK
<1>6. QED
  BY <1>1, <1>2, <1>3, <1>4, <1>5

(* The wrapper and the core keep in step, for every slave                  *)
(* (attorv32_ahbl.v:102-162, attorv32.v:880-945).                          *)
THEOREM PortInStep == AhbSpec => []PortInv
<1>1. PortInv /\ [AhbNext]_ahbVars => PortInv'
  <2>1. ASSUME PortInv, UNCHANGED ahbVars PROVE PortInv'
    BY <2>1, SameSetupLemma DEF PortInv, AhbTypeOK, ahbVars, coreSide, master, slave
  <2>2. QED
    BY <2>1, PortResetLemma, PortClockLemma DEF AhbNext
<1>2. QED
  BY <1>1, PortInitLemma, PTL DEF AhbSpec

(* No request finds the wrapper occupied, whatever wait states the slave    *)
(* takes, but for one that comes while an access that an NMI or a debug     *)
(* halt cut short still occupies it.                                       *)
THEOREM EveryRequestTaken == AhbSpec => []RequestsTaken
<1>1. PortInv => RequestsTaken
  BY DEF PortInv, AhbTypeOK, RequestsTaken, cpu_req, mem_rstrb, mem_wstrb
<1>2. QED
  BY <1>1, PortInStep, PTL

----------------------------------------------------------------------------
(* The slaves that keep up.                                                *)

(* A read's data phase is stretched by one wait state at most, a write's    *)
(* only if the wrapper and the core wait for its end; so the announcement   *)
(* of a store never meets HREADY low.                                      *)
StretchInv ==
  /\ ~HREADY /\ ~Writing => waits >= 1
  /\ HTRANS = "NONSEQ" /\ ~HREADY => Writing
  /\ ~HREADY /\ Writing => ~Skips /\ ~Cuts

(* Where the core is while a store is in flight.                           *)
CoreInStep ==
  /\ core = "EXECUTE" => state = "IDLE" /\ ~Writing
  /\ cut => core = "FETCH_INSTR" /\ HREADY /\ Cuts
  /\ Announced => core \in {"WAIT", "FETCH_INSTR"} /\ HREADY /\ ~Writing
  /\ Writing => core \in {"FETCH_INSTR", "WAIT_INSTR"}
  /\ Writing /\ core = "FETCH_INSTR" => state = "IDLE"
  /\ Writing /\ ~HREADY /\ core = "WAIT_INSTR" => state = "DATA" /\ ~is_write_d

(* The store that is due is the one in flight.                             *)
DueInFlight ==
  /\ Announced => due = << << HADDR, mem_wdata >> >>
  /\ Writing => due = << << data_phase.addr, mem_wdata >> >>
  /\ ~Announced /\ ~Writing => due = << >>

AhbInv == PortInv /\ StretchInv /\ CoreInStep /\ DueInFlight

(* Between transfers there is nothing in flight.                           *)
LEMMA QuietLemma ==
  ASSUME PortInv, HREADY, state = "IDLE", HTRANS = "IDLE", core = "WAIT",
         ~cut, data_phase = NoTransfer, due = << >>
  PROVE  AhbInv
<1>1. ~Announced /\ ~Writing
  BY DEF Announced, Writing, NoTransfer
<1>2. QED
  BY <1>1 DEF AhbInv, StretchInv, DueInFlight, CoreInStep

LEMMA AhbInitLemma == ASSUME AhbInit PROVE AhbInv
  BY PortInitLemma, QuietLemma DEF AhbInit

LEMMA AhbResetLemma == ASSUME AhbInv, AhbReset PROVE AhbInv'
<1>1. PortInv'
  BY PortResetLemma DEF AhbInv
<1>2. ~Announced' /\ ~Writing'
  BY DEF AhbReset, Announced, Writing, NoTransfer
<1>3. HREADY' /\ HTRANS' = "IDLE" /\ core' = "WAIT" /\ ~cut' /\ due' = << >>
  BY DEF AhbReset
<1>4. QED
  BY <1>1, <1>2, <1>3 DEF AhbInv, StretchInv, DueInFlight, CoreInStep

(* No wait state more than the slave may take.                             *)
LEMMA StretchLemma ==
  ASSUME SlaveKeepsUp, AhbInv, Clock
  PROVE  /\ ~HREADY' /\ ~Writing' => HREADY /\ waits' >= 1
         /\ ~HREADY' /\ Writing' => ~Skips /\ ~Cuts
<1>1. ASSUME ~HREADY'
      PROVE  /\ waits' = (IF HREADY THEN 0 ELSE waits) + 1
             /\ \/ data_phase'.kind = "read" /\ waits' <= ReadWaits
                \/ Writing' /\ waits' <= WriteWaits
  BY <1>1 DEF Clock, SlaveStep, Writing
<1>2. ReadWaits \in Nat /\ WriteWaits \in Nat /\ waits \in Nat
  BY SetupLemma DEF AhbInv, PortInv, AhbTypeOK
<1>3. ASSUME ~HREADY', ~Writing' PROVE HREADY /\ waits' >= 1
  <2>1. waits' <= 1
    BY <1>1, <1>2, <1>3 DEF SlaveKeepsUp
  <2>2. ~HREADY => waits >= 1
    BY <1>3, SlaveLemma DEF AhbInv, PortInv, StretchInv
  <2>3. QED
    BY <1>1, <1>2, <1>3, <2>1, <2>2
<1>4. ASSUME ~HREADY', Writing' PROVE ~Skips /\ ~Cuts
  <2>1. data_phase'.kind # "read"
    BY <1>4 DEF Writing
  <2>2. WriteWaits # 0
    BY <1>1, <1>2, <1>4, <2>1
  <2>3. QED
    BY <2>2 DEF SlaveKeepsUp
<1>5. QED
  BY <1>3, <1>4

(* With the bus idle and no write in flight, the next edge finds HREADY.   *)
LEMMA ReadyLemma ==
  ASSUME SlaveKeepsUp, AhbInv, Clock, state = "IDLE", ~Writing
  PROVE  HREADY' /\ ~Writing'
<1>1. HTRANS = "IDLE" /\ ~Announced
  BY DEF AhbInv, PortInv, AhbTypeOK, Announced
<1>2. ~Writing'
  BY <1>1, SlaveLemma DEF AhbInv, PortInv
<1>3. HREADY \/ HREADY'
  BY <1>2, StretchLemma, SlaveLemma DEF AhbInv, PortInv
<1>4. QED
  BY <1>1, <1>2, <1>3, SlaveLemma DEF AhbInv, PortInv

(* A store is announced when it executes.                                  *)
LEMMA AnnounceLemma ==
  ASSUME AhbInv, Clock
  PROVE  /\ Announced' <=> state = "IDLE" /\ mem_wstrb
         /\ Announced' => core = "EXECUTE" /\ op = "store" /\ HADDR' = addr
         /\ mem_wstrb => Announced' /\ ~Announced /\ ~Writing
<1>1. Announced' <=> state = "IDLE" /\ mem_wstrb
  BY MasterLemma DEF Announced, cpu_req, AhbInv, PortInv, AhbTypeOK
<1>2. mem_wstrb => state = "IDLE" /\ ~Writing /\ ~Announced
  BY DEF mem_wstrb, AhbInv, CoreInStep
<1>3. Announced' => HADDR' = addr
  BY MasterLemma DEF Announced, AhbInv, PortInv
<1>4. QED
  BY <1>1, <1>2, <1>3 DEF mem_wstrb

(* Where the core goes with a store in flight.                             *)
LEMMA InFlightLemma ==
  ASSUME SlaveKeepsUp, AhbInv, Clock, Writing'
  PROVE  /\ core # "EXECUTE"
         /\ core' \in {"FETCH_INSTR", "WAIT_INSTR"}
         /\ core' = "FETCH_INSTR" => state' = "IDLE"
         /\ ~HREADY' /\ core' = "WAIT_INSTR" => state' = "DATA" /\ ~is_write_d'
<1> USE DEF AhbInv, PortInv
<1>1. CASE HREADY
  <2>1. Announced
    BY <1>1, SlaveLemma
  <2>2. core \in {"WAIT", "FETCH_INSTR"} /\ state = "DATA"
    BY <2>1 DEF CoreInStep, Announced
  <2>3. state' = "IDLE"
    BY <1>1, <2>2, MasterLemma
  <2>4. ~mem_rbusy /\ ~mem_wbusy
    BY <1>1, <2>2 DEF mem_rbusy, mem_wbusy
  <2>5. CASE core = "WAIT"
    <3>1. core' = AfterInstr(skip_fetch)
      BY <2>4, <2>5, CoreLemma
    <3>2. core' = "WAIT_INSTR" => Skips
      BY <3>1 DEF AfterInstr
    <3>3. core' = "WAIT_INSTR" => HREADY'
      BY <3>2, StretchLemma, SlaveLemma
    <3>4. QED
      BY <2>3, <2>5, <3>1, <3>3 DEF AfterInstr
  <2>6. CASE core = "FETCH_INSTR"
    <3>1. cut
      BY <2>2, <2>6
    <3>2. HREADY' /\ core' = "WAIT_INSTR"
      BY <2>6, <3>1, StretchLemma, SlaveLemma, CoreLemma DEF CoreInStep
    <3>3. QED
      BY <2>6, <3>2
  <2>7. QED
    BY <2>2, <2>5, <2>6
<1>2. CASE ~HREADY
  <2>1. Writing
    BY <1>2, SlaveLemma
  <2>2. core \in {"FETCH_INSTR", "WAIT_INSTR"}
    BY <2>1 DEF CoreInStep
  <2>3. CASE core = "FETCH_INSTR"
    <3>1. state = "IDLE" /\ cpu_req /\ ~mem_wstrb /\ mem_wstrb \in BOOLEAN
      BY <2>1, <2>3 DEF CoreInStep, cpu_req, mem_rstrb, mem_wstrb
    <3>2. state' = "DATA" /\ ~is_write_d' /\ core' = "WAIT_INSTR"
      BY <2>3, <3>1, MasterLemma, CoreLemma
    <3>3. QED
      BY <2>3, <3>2
  <2>4. CASE core = "WAIT_INSTR"
    <3>1. state = "DATA" /\ ~is_write_d
      BY <1>2, <2>1, <2>4 DEF CoreInStep
    <3>2. mem_rbusy
      BY <1>2, <3>1 DEF mem_rbusy
    <3>3. core' = "WAIT_INSTR" /\ state' = "DATA" /\ ~is_write_d'
      BY <1>2, <2>4, <3>1, <3>2, MasterLemma, CoreLemma
    <3>4. QED
      BY <2>4, <3>3
  <2>5. QED
    BY <2>2, <2>3, <2>4
<1>3. QED
  BY <1>1, <1>2 DEF AhbTypeOK

(* The core executes with the bus at rest.                                 *)
LEMMA ExecuteLemma ==
  ASSUME SlaveKeepsUp, AhbInv, Clock, core' = "EXECUTE"
  PROVE  state' = "IDLE" /\ ~Writing'
<1> USE DEF AhbInv, PortInv
<1>1. core = "WAIT_INSTR" /\ ~mem_rbusy
  BY CoreLemma DEF AhbTypeOK, AfterInstr
<1>2. ~Writing'
  BY InFlightLemma
<1>3. ~cpu_req /\ ~cut
  BY <1>1 DEF cpu_req, mem_rstrb, mem_wstrb, CoreInStep
<1>4. state = "DATA" => HREADY
  BY <1>1, <1>3 DEF mem_rbusy
<1>5. QED
  BY <1>2, <1>3, <1>4, MasterLemma DEF AhbTypeOK

LEMMA CoreInStepLemma ==
  ASSUME SlaveKeepsUp, AhbInv, Clock
  PROVE  CoreInStep'
<1> USE DEF AhbInv, PortInv
<1>0. Cuts' = Cuts
  BY SameSetupLemma DEF AhbNext
<1>1. ASSUME cut' PROVE core' = "FETCH_INSTR" /\ HREADY' /\ Cuts
  <2>1. /\ state' = "DATA"
        /\ cut \/ (core = "EXECUTE" /\ op # "alu" /\ core' = "FETCH_INSTR")
    BY <1>1 DEF Clock, CutShort
  <2>2. ~cut
    BY <2>1, MasterLemma DEF CoreInStep
  <2>3. state = "IDLE" /\ ~Writing /\ core = "EXECUTE" /\ op # "alu" /\ core' = "FETCH_INSTR"
    BY <2>1, <2>2 DEF CoreInStep
  <2>4. QED
    BY <2>3, ReadyLemma, CoreLemma
<1>2. ASSUME Announced' PROVE core' \in {"WAIT", "FETCH_INSTR"} /\ HREADY' /\ ~Writing'
  <2>1. core = "EXECUTE" /\ op # "alu" /\ state = "IDLE" /\ ~Writing
    BY <1>2, AnnounceLemma DEF CoreInStep
  <2>2. QED
    BY <2>1, ReadyLemma, CoreLemma
<1>3. QED
  BY <1>0, <1>1, <1>2, ExecuteLemma, InFlightLemma DEF CoreInStep

LEMMA StretchStepLemma ==
  ASSUME SlaveKeepsUp, AhbInv, Clock
  PROVE  StretchInv'
<1> USE DEF AhbInv, PortInv
<1>1. ASSUME HTRANS' = "NONSEQ", ~HREADY' PROVE Writing'
  <2>1. state = "IDLE" /\ Writing
    BY <1>1, MasterLemma, ReadyLemma
  <2>2. HTRANS = "IDLE" /\ ~HREADY
    BY <1>1, <2>1, SlaveLemma DEF AhbTypeOK
  <2>3. QED
    BY <2>1, <2>2, SlaveLemma
<1>2. QED
  BY <1>1, StretchLemma, SameSetupLemma DEF StretchInv, AhbNext

(* The queue of stores that are due after an edge.                         *)
LEMMA AccountLemma ==
  ASSUME AhbInv, Clock
  PROVE  due' = IF mem_wstrb THEN << << addr, mem_wdata >> >>
                ELSE IF Announced \/ (Writing /\ ~HREADY) THEN due ELSE << >>
<1> DEFINE rest == IF Landing /\ due # << >> THEN Tail(due) ELSE due
<1> USE DEF AhbInv
<1>1. rest = IF Announced \/ (Writing /\ ~HREADY) THEN due ELSE << >>
  <2>1. CASE Writing /\ HREADY
    <3>1. due = << << data_phase.addr, mem_wdata >> >> /\ Landing /\ ~Announced
      BY <2>1 DEF DueInFlight, CoreInStep, Landing, Writing
    <3>2. QED
      BY <2>1, <3>1
  <2>2. CASE ~(Writing /\ HREADY)
    BY <2>2 DEF DueInFlight, Landing, Writing
  <2>3. QED
    BY <2>1, <2>2
<1>2. due' = IF mem_wstrb /\ Len(rest) < DueBound
               THEN Append(rest, << addr, mem_wdata >>) ELSE rest
  BY DEF Clock, Account
<1> HIDE DEF rest
<1>3. CASE mem_wstrb
  <2>1. rest = << >>
    BY <1>1, <1>3, AnnounceLemma
  <2>2. Len(rest) < DueBound /\ Append(rest, << addr, mem_wdata >>) = << << addr, mem_wdata >> >>
    BY <2>1, EmptyLemma DEF DueBound
  <2>3. QED
    BY <1>2, <1>3, <2>2
<1>4. CASE ~mem_wstrb
  BY <1>1, <1>2, <1>4
<1>5. QED
  BY <1>3, <1>4

LEMMA DueLemma ==
  ASSUME SlaveKeepsUp, AhbInv, Clock
  PROVE  DueInFlight'
<1>1. CoreInStep'
  BY CoreInStepLemma
<1>2. CASE Announced'
  <2>1. mem_wstrb /\ HADDR' = addr /\ core' # "EXECUTE" /\ ~Writing'
    BY <1>1, <1>2, AnnounceLemma DEF CoreInStep
  <2>2. mem_wdata' = mem_wdata
    BY <2>1, CoreLemma DEF AhbInv, PortInv
  <2>3. QED
    BY <1>2, <2>1, <2>2, AccountLemma DEF DueInFlight
<1>3. CASE Writing'
  <2>1. ~mem_wstrb /\ ~Announced' /\ core' # "EXECUTE"
    BY <1>1, <1>3, InFlightLemma DEF mem_wstrb, CoreInStep
  <2>2. mem_wdata' = mem_wdata
    BY <2>1, CoreLemma DEF AhbInv, PortInv
  <2>3. /\ IF HREADY THEN Announced ELSE Writing
        /\ HREADY => data_phase'.addr = HADDR
        /\ ~HREADY => data_phase' = data_phase
    BY <1>3, SlaveLemma DEF AhbInv, PortInv
  <2>4. due' = due
    BY <2>1, <2>3, AccountLemma
  <2>5. due = << << data_phase'.addr, mem_wdata >> >>
    BY <2>3 DEF AhbInv, DueInFlight
  <2>6. QED
    BY <1>3, <2>1, <2>2, <2>4, <2>5 DEF DueInFlight
<1>4. CASE ~Announced' /\ ~Writing'
  <2>1. ~mem_wstrb
    BY <1>4, AnnounceLemma
  <2>2. ~(IF HREADY THEN Announced ELSE Writing)
    BY <1>4, SlaveLemma DEF AhbInv, PortInv
  <2>3. ~Announced
    BY <2>2 DEF AhbInv, CoreInStep
  <2>4. due' = << >>
    BY <2>1, <2>2, <2>3, AccountLemma DEF AhbInv, PortInv, AhbTypeOK
  <2>5. QED
    BY <1>4, <2>4 DEF DueInFlight
<1>5. QED
  BY <1>2, <1>3, <1>4

----------------------------------------------------------------------------

(* The invariant of the stores (attorv32_ahbl.v:98-142, 151-162), in every  *)
(* setup that takes at most one wait state in a read and, in a write, any  *)
(* number if the next fetch is neither skipped nor cut, and none otherwise. *)
THEOREM WrapperInStep == AhbSpec => [](SlaveKeepsUp => AhbInv)
<1> DEFINE StoresInv == SlaveKeepsUp => AhbInv
<1>1. StoresInv /\ [AhbNext]_ahbVars => StoresInv'
  <2> SUFFICES ASSUME StoresInv, [AhbNext]_ahbVars, SlaveKeepsUp'
               PROVE  AhbInv'
    OBVIOUS
  <2>0. SlaveKeepsUp /\ AhbInv
    BY SameSetupLemma
  <2>1. ASSUME UNCHANGED ahbVars PROVE AhbInv'
    <3>1. /\ UNCHANGED << core, op, addr, mem_wdata, skip_fetch, reading, cut, due >>
          /\ UNCHANGED << state, HTRANS, HADDR, HWRITE, is_write_d, mem_rdata >>
          /\ UNCHANGED << HREADY, data_phase, waits, mem, setup >>
          /\ Skips' = Skips /\ Cuts' = Cuts
      BY <2>1, SameSetupLemma DEF ahbVars, coreSide, master, slave
    <3>2. PortInv'
      BY <2>0, <3>1 DEF AhbInv, PortInv, AhbTypeOK
    <3>3. QED
      BY <2>0, <3>1, <3>2
         DEF AhbInv, StretchInv, CoreInStep, DueInFlight, Announced, Writing
  <2>2. ASSUME Clock PROVE AhbInv'
    BY <2>0, <2>2, PortClockLemma, StretchStepLemma, CoreInStepLemma, DueLemma DEF AhbInv
  <2>3. QED
    BY <2>0, <2>1, <2>2, AhbResetLemma DEF AhbNext
<1>2. AhbInit => StoresInv
  BY AhbInitLemma
<1>3. QED
  BY <1>1, <1>2, PTL DEF AhbSpec

(* Each store lands once, in order, where and with what the core stored,   *)
(* though HWDATA is the core's own mem_wdata when the core has moved on    *)
(* (attorv32_ahbl.v:98-100), with every slave that keeps up.                *)
THEOREM EveryStoreLands == AhbSpec => []StoresLand
<1>1. (SlaveKeepsUp => AhbInv) => StoresLand
  BY DEF AhbInv, DueInFlight, StoresLand, Landing, Writing
<1>2. QED
  BY <1>1, WrapperInStep, PTL

(* No instruction executes while a store is under way, with the same slaves *)
(* (attorv32.v:938-941).                                                   *)
THEOREM StoreBeforeNextInstr == AhbSpec => []StoresSettle
<1>1. (SlaveKeepsUp => AhbInv) => StoresSettle
  BY DEF AhbInv, PortInv, DueInFlight, CoreInStep, StoresSettle, Announced
<1>2. QED
  BY <1>1, WrapperInStep, PTL

=============================================================================
