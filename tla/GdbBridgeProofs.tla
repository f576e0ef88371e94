---------------------------- MODULE GdbBridgeProofs ----------------------------
(***************************************************************************)
(* Proofs about GdbBridge, for any number of bytes and any length of the   *)
(* break from 20 passes on: the bytes pass unharmed, and a break halts.    *)
(***************************************************************************)
EXTENDS GdbBridge, SequenceTheorems, TLAPS

(* A byte has been received and the stub does not have it yet.             *)
InFlight == state = "WAIT" /\ op = "data"
Held     == rx_valid \/ InFlight
Count    == IF Held THEN fed - 1 ELSE fed

Numbers(k) == [i \in 1 .. k |-> i]

(* The stub reads DATA only while a byte is held there, so that none that  *)
(* the bridge puts in can slip away.                                       *)
ByteInv ==
  /\ state = "EXECUTE" /\ op = "data" => seen /\ mode = "stub"
  /\ seen => Held
  /\ ~(rx_valid /\ InFlight)
  /\ Len(got) <= Count
  /\ ~nested => got = Numbers(Count) /\ (Held => rx_data = fed)
  /\ stored = delivered

(* Steps to the next S_EXECUTE.                                            *)
Distance ==
  IF state = "EXECUTE" THEN 0
  ELSE IF state = "WAIT_INSTR" THEN 1 + 2 * words
  ELSE IF state = "FETCH" THEN 2 + 2 * words
  ELSE 3

(* While the line is low the detector fills; over the last five passes it   *)
(* is full, and the core executes an instruction before they are over.     *)
BreakInv ==
  /\ mode = "program" => ~dbg_halt_mask
  /\ state = "EXECUTE" /\ mode = "program" => op # "mret"
  /\ break_cycles > 0 => brk_cnt = 15 \/ brk_cnt >= BreakPasses - break_cycles
  /\ asked => mode = "program" /\ break_cycles > 0
  /\ asked /\ break_cycles <= 5 => Distance < break_cycles

----------------------------------------------------------------------------
(* Sequences.                                                              *)

LEMMA NumbersLemma ==
  ASSUME NEW k \in Nat
  PROVE  /\ Append(Numbers(k), k + 1) = Numbers(k + 1)
         /\ Numbers(k) \o << k + 1 >> = Numbers(k + 1)
         /\ Numbers(k) \o << >> = Numbers(k)
<1>1. Numbers(k) \in Seq(Nat) /\ Len(Numbers(k)) = k
  BY DEF Numbers
<1>2. Append(Numbers(k), k + 1) = Numbers(k + 1)
  BY <1>1 DEF Numbers
<1>3. Append(Numbers(k), k + 1) = Numbers(k) \o << k + 1 >>
  BY <1>1, AppendIsConcat
<1>4. QED
  BY <1>1, <1>2, <1>3, ConcatEmptySeq

----------------------------------------------------------------------------
(* Steps.  What every pass needs of the byte that may have come in.        *)

LEMMA InputLemma ==
  ASSUME BridgeTypeOK, NEW input, input \in tcp_try_read
  PROVE  /\ valid(input) \in BOOLEAN /\ data(input) \in Bytes
         /\ input = "byte" => ~rx_valid /\ state # "WAIT" /\ fed < MaxBytes
         /\ input = "byte" => valid(input) /\ data(input) = fed + 1
         /\ input # "byte" => (valid(input) <=> rx_valid) /\ data(input) = rx_data
  BY BridgeAssumption DEF BridgeTypeOK, tcp_try_read, Listens, valid, data, Bytes

(* The registers and the counts after the edge.                            *)
LEMMA UartLemma ==
  ASSUME BridgeTypeOK, stored = delivered, NEW input, NEW result, Pass(input, result)
  PROVE  /\ rx_data' = data(input)
         /\ rx_valid' \in BOOLEAN
         /\ rx_valid' <=> valid(input) /\ ~(state = "EXECUTE" /\ op = "data")
         /\ fed' = IF input = "byte" THEN fed + 1 ELSE fed
         /\ tx_valid' \in BOOLEAN
         /\ stored' = delivered' /\ stored' \in 0 .. 1
<1>1. rx_valid' = (valid(input) /\ ~uart_rd_en) /\ rx_data' = data(input)
  BY DEF Pass, Uart
<1>2. uart_rd_en <=> state = "EXECUTE" /\ op = "data"
  BY DEF uart_rd_en
<1>3. tx_valid' = uart_wr_en /\ uart_wr_en \in BOOLEAN
  BY DEF Pass, Uart, next_tx_valid, uart_wr_en
<1>4. stored' = (IF uart_wr_en THEN 1 - stored ELSE stored)
  BY DEF Pass, Uart
<1>5. delivered' = (IF uart_wr_en THEN 1 - delivered ELSE delivered)
  BY <1>3 DEF Pass, tcp_write
<1>6. /\ rx_valid' \in BOOLEAN
      /\ rx_valid' <=> valid(input) /\ ~(state = "EXECUTE" /\ op = "data")
  BY <1>1, <1>2, Zenon
<1>7. stored' = delivered' /\ stored' \in 0 .. 1
  BY <1>4, <1>5 DEF BridgeTypeOK
<1>8. fed' = IF input = "byte" THEN fed + 1 ELSE fed
  BY DEF Pass
<1>9. tx_valid' \in BOOLEAN
  BY <1>3, Zenon
<1>10. QED
  BY <1>1, <1>6, <1>7, <1>8, <1>9, Zenon

(* What becomes of the byte that is held, and of the stub's knowledge of it. *)
LEMMA HeldLemma ==
  ASSUME BridgeTypeOK, ByteInv, NEW input, NEW result, Pass(input, result)
  PROVE  /\ InFlight' <=> state = "EXECUTE" /\ op = "data" /\ state' = "WAIT"
         /\ InFlight => got' = Append(got, rx_data) /\ ~Held' /\ fed' = fed
         /\ ~InFlight => got' = got
         /\ state = "EXECUTE" /\ op = "data" => InFlight' \/ nested'
         /\ state' = "EXECUTE" /\ op' = "data" => seen' /\ mode' = "stub"
         /\ seen' => Held'
         /\ ~(rx_valid' /\ InFlight')
<1> USE InputLemma, UartLemma
<1>1. Core(input)
  BY DEF Pass
<1>2. input \in tcp_try_read
  BY DEF Pass
<1>3. CASE Fetch
  BY <1>2, <1>3 DEF Fetch, Held, InFlight, ByteInv, BridgeTypeOK
<1>4. CASE SecondWord
  BY <1>2, <1>4 DEF SecondWord, Held, InFlight, ByteInv, BridgeTypeOK
<1>5. CASE Decode
  BY <1>2, <1>5 DEF Decode, ProgramOps, StubOps, Held, InFlight, ByteInv, BridgeTypeOK
<1>6. CASE Trap
  BY <1>2, <1>6 DEF Trap, Held, InFlight, ByteInv, BridgeTypeOK
<1>7. CASE Stall
  BY <1>2, <1>7 DEF Stall, coreVars, Held, InFlight, ByteInv, BridgeTypeOK
<1>8. CASE Execute
  BY <1>2, <1>8 DEF Execute, NextFetch, waits, Held, InFlight, ByteInv, BridgeTypeOK
<1>9. CASE Wait(input)
  BY <1>2, <1>9 DEF Wait, NextFetch, Held, InFlight, ByteInv, BridgeTypeOK
<1>10. QED
  BY <1>1, <1>3, <1>4, <1>5, <1>6, <1>7, <1>8, <1>9 DEF Core

(* The bytes that the stub has are the first of those that were fed.       *)
LEMMA ByteLemma ==
  ASSUME BridgeTypeOK, ByteInv, NEW input, NEW result, Pass(input, result)
  PROVE  ByteInv'
<1> USE HeldLemma
<1>1. /\ input \in tcp_try_read
      /\ fed \in Nat /\ rx_data \in Nat /\ got \in Seq(Bytes) /\ rx_data \in Bytes
      /\ nested => nested'
  <2>1. nested => nested'
    BY DEF Pass, Core, Fetch, SecondWord, Decode, Trap, Stall, Execute, Wait, coreVars
  <2>2. Bytes \subseteq Nat
    BY BridgeAssumption DEF Bytes
  <2>3. QED
    BY <2>1, <2>2 DEF Pass, BridgeTypeOK
<1>2. stored' = delivered'
  BY UartLemma DEF ByteInv
<1>3. CASE InFlight
  <2>1. ~Held' /\ Count' = fed /\ Count = fed - 1 /\ Len(got) <= fed - 1
    BY <1>1, <1>3 DEF Count, Held, ByteInv
  <2>2. Len(got') <= Count'
    BY <1>1, <1>3, <2>1, AppendProperties
  <2>3. ~nested' => got' = Numbers(fed)
    <3>1. SUFFICES ASSUME ~nested' PROVE got' = Numbers(fed)
      OBVIOUS
    <3>2. got = Numbers(fed - 1) /\ rx_data = fed
      BY <1>1, <1>3, <2>1, <3>1 DEF ByteInv, Held
    <3>3. fed - 1 \in Nat
      BY <1>1, <2>1, LenProperties
    <3>4. Append(Numbers(fed - 1), (fed - 1) + 1) = Numbers((fed - 1) + 1)
      BY <3>3, NumbersLemma
    <3>5. (fed - 1) + 1 = fed
      BY <1>1
    <3>6. got' = Append(got, rx_data)
      BY <1>3
    <3>7. QED
      BY <3>2, <3>4, <3>5, <3>6
  <2>4. QED
    BY <1>2, <2>1, <2>2, <2>3 DEF ByteInv
<1>4. CASE ~InFlight
  <2>1. got' = got
    BY <1>4
  <2>2. CASE input = "byte"
    <3>1. Held' /\ fed' = fed + 1 /\ rx_data' = fed' /\ ~Held
      BY <1>1, <1>4, <2>2, InputLemma, UartLemma DEF Held, ByteInv, BridgeTypeOK
    <3>2. Count' = Count
      BY <1>1, <3>1 DEF Count
    <3>3. QED
      BY <1>1, <1>2, <2>1, <3>1, <3>2 DEF ByteInv
  <2>3. CASE input # "byte"
    <3>1. fed' = fed /\ rx_data' = rx_data
      BY <1>1, <2>3, InputLemma, UartLemma DEF ByteInv
    <3>2. CASE state = "EXECUTE" /\ op = "data" /\ nested'
      <4>1. Held /\ (Len(got) <= fed - 1)
        BY <3>2 DEF ByteInv, Count
      <4>2. Len(got') <= Count'
        BY <1>1, <2>1, <3>1, <4>1, LenProperties DEF Count
      <4>3. QED
        BY <1>2, <3>2, <4>2 DEF ByteInv
    <3>3. CASE ~(state = "EXECUTE" /\ op = "data" /\ nested')
      <4>1. Held' <=> Held
        BY <1>1, <1>4, <2>3, <3>3, InputLemma, UartLemma DEF Held, InFlight, ByteInv
      <4>2. Count' = Count
        BY <3>1, <4>1 DEF Count
      <4>3. QED
        BY <1>1, <1>2, <2>1, <3>1, <4>1, <4>2 DEF ByteInv
    <3>4. QED
      BY <3>2, <3>3
  <2>4. QED
    BY <2>2, <2>3
<1>5. QED
  BY <1>3, <1>4

(* Types: the stub never has more bytes than were fed.                     *)
LEMMA TypeLemma ==
  ASSUME BridgeTypeOK, ByteInv, ByteInv', NEW input, NEW result,
         result \in {"done", "error"}, Pass(input, result)
  PROVE  BridgeTypeOK'
<1>1. /\ rx_data' \in Bytes /\ rx_valid' \in BOOLEAN /\ tx_valid' \in BOOLEAN
      /\ stored' \in 0 .. 1 /\ delivered' \in 0 .. 1 /\ fed' \in Bytes
  BY InputLemma, UartLemma, BridgeAssumption DEF Pass, ByteInv, BridgeTypeOK, Bytes
<1>2. brk_cnt' \in 0 .. 15 /\ break_cycles' \in 0 .. BreakPasses
  BY BridgeAssumption
     DEF Pass, Uart, next_brk_cnt, uart_break, uart_rx, next_break_cycles, driven, BridgeTypeOK
<1>3. got' \in Seq(Bytes)
  BY HeldLemma, AppendProperties DEF BridgeTypeOK
<1>4. Len(got') <= MaxBytes
  BY <1>1, <1>3, LenProperties, BridgeAssumption DEF ByteInv, Count, Bytes
<1>5. /\ state' \in {"FETCH", "WAIT_INSTR", "EXECUTE", "WAIT"} /\ words' \in 0 .. 1
      /\ op' \in ProgramOps \cup StubOps /\ mode' \in {"program", "stub"}
      /\ dbg_halt_mask' \in BOOLEAN /\ seen' \in BOOLEAN /\ nested' \in BOOLEAN
  <2>1. uart_break \in BOOLEAN /\ dbg_halt_accepted \in BOOLEAN /\ valid(input) \in BOOLEAN
    BY InputLemma DEF uart_break, dbg_halt_accepted, Pass
  <2>2. Core(input)
    BY DEF Pass
  <2>3. CASE Fetch
    BY <2>3 DEF Fetch, BridgeTypeOK
  <2>4. CASE SecondWord
    BY <2>4 DEF SecondWord, BridgeTypeOK
  <2>5. CASE Decode
    BY <2>5 DEF Decode, ProgramOps, StubOps, BridgeTypeOK
  <2>6. CASE Trap
    <3>1. dbg_halt_mask' \in BOOLEAN /\ nested' \in BOOLEAN
      BY <2>1, <2>6, Zenon DEF Trap, BridgeTypeOK
    <3>2. /\ state' = "FETCH" /\ words' = 0 /\ op' = op
          /\ mode' = "stub" /\ seen' \in BOOLEAN
      BY <2>6 DEF Trap
    <3>3. state' \in {"FETCH", "WAIT_INSTR", "EXECUTE", "WAIT"} /\ words' \in 0 .. 1
      BY <3>2
    <3>4. QED
      BY <3>1, <3>2, <3>3 DEF BridgeTypeOK
  <2>7. CASE Stall
    BY <2>7 DEF Stall, coreVars, BridgeTypeOK
  <2>8. CASE Execute
    BY <2>8 DEF Execute, NextFetch, BridgeTypeOK
  <2>9. CASE Wait(input)
    <3>1. seen' \in BOOLEAN
      <4>1. (op = "status" /\ valid(input)) \in BOOLEAN /\ seen \in BOOLEAN
        BY <2>1 DEF BridgeTypeOK
      <4>2. QED
        BY <2>9, <4>1, Zenon DEF Wait
    <3>2. QED
      BY <2>9, <3>1 DEF Wait, NextFetch, BridgeTypeOK
  <2>10. QED
    BY <2>2, <2>3, <2>4, <2>5, <2>6, <2>7, <2>8, <2>9 DEF Core
<1>6. asked' \in BOOLEAN
  BY DEF Pass, Disconnected, BridgeTypeOK
<1>7. QED
  BY <1>1, <1>2, <1>3, <1>4, <1>5, <1>6 DEF BridgeTypeOK

----------------------------------------------------------------------------
(* The break.                                                              *)

(* The detector and the line.                                              *)
LEMMA DetectorLemma ==
  ASSUME BridgeTypeOK, BreakInv, NEW input, NEW result, Pass(input, result)
  PROVE  /\ break_cycles' > 0 =>
              brk_cnt' = 15 \/ brk_cnt' >= BreakPasses - break_cycles'
         /\ break_cycles' = BreakPasses \/ break_cycles' = driven
         /\ asked' => mode' = "program" /\ (asked \/ break_cycles' = BreakPasses)
  BY BridgeAssumption
     DEF Pass, Uart, next_brk_cnt, uart_break, uart_rx, next_break_cycles, Disconnected,
         driven, BridgeTypeOK, BreakInv

(* A program executes an instruction within five passes, and is halted by   *)
(* it when the detector is full.                                           *)
LEMMA DistanceLemma ==
  ASSUME BridgeTypeOK, BreakInv, NEW input, NEW result, Pass(input, result)
  PROVE  /\ Distance \in 0 .. 4
         /\ Distance' \in 0 .. 4
         /\ mode' = "program" => mode = "program" \/ ~asked
         /\ mode = "program" /\ uart_break /\ state = "EXECUTE" => mode' = "stub"
         /\ mode' = "program" => ~dbg_halt_mask'
         /\ state' = "EXECUTE" /\ mode' = "program" => op' # "mret"
         /\ state # "EXECUTE" => Distance' <= Distance - 1
<1>1. Core(input)
  BY DEF Pass
<1>2. Distance \in 0 .. 4
  BY DEF Distance, BridgeTypeOK
<1>3. CASE Fetch
  BY <1>2, <1>3 DEF Fetch, Distance, BreakInv, BridgeTypeOK
<1>4. CASE SecondWord
  BY <1>2, <1>4 DEF SecondWord, Distance, BreakInv, BridgeTypeOK
<1>5. CASE Decode
  BY <1>2, <1>5 DEF Decode, ProgramOps, Distance, BreakInv, BridgeTypeOK
<1>6. CASE Trap
  BY <1>2, <1>6 DEF Trap, dbg_halt_accepted, Distance, BreakInv, BridgeTypeOK
<1>7. CASE Stall
  BY <1>2, <1>7 DEF Stall, coreVars, Distance, BreakInv, BridgeTypeOK
<1>8. CASE Execute
  BY <1>2, <1>8 DEF Execute, NextFetch, dbg_halt_accepted, Distance, BreakInv, BridgeTypeOK
<1>9. CASE Wait(input)
  BY <1>2, <1>9 DEF Wait, NextFetch, Distance, BreakInv, BridgeTypeOK
<1>10. QED
  BY <1>1, <1>3, <1>4, <1>5, <1>6, <1>7, <1>8, <1>9 DEF Core

LEMMA BreakLemma ==
  ASSUME BreakPasses >= 20, BridgeTypeOK, BreakInv, NEW input, NEW result, Pass(input, result)
  PROVE  BreakInv'
<1>1. CASE break_cycles' = BreakPasses
  BY <1>1, DetectorLemma, DistanceLemma, BridgeAssumption DEF BreakInv
<1>2. CASE break_cycles' # BreakPasses /\ ~asked'
  BY <1>2, DetectorLemma, DistanceLemma DEF BreakInv
<1>3. CASE break_cycles' # BreakPasses /\ asked'
  <2>1. asked /\ mode = "program" /\ mode' = "program" /\ break_cycles' = break_cycles - 1
    BY <1>3, DetectorLemma DEF BreakInv, driven, BridgeTypeOK
  <2>2. break_cycles <= 5 => uart_break
    BY <2>1, BridgeAssumption DEF BreakInv, uart_break, BridgeTypeOK
  <2>3. break_cycles <= 5 => state # "EXECUTE"
    BY <2>1, <2>2, DistanceLemma
  <2>4. break_cycles' > 0
    BY <2>1, <2>3, DistanceLemma DEF BreakInv, BridgeTypeOK
  <2>5. break_cycles' <= 5 => Distance' < break_cycles'
    BY <2>1, <2>3, DistanceLemma DEF BreakInv, BridgeTypeOK
  <2>6. QED
    BY <2>1, <2>4, <2>5, DetectorLemma, DistanceLemma DEF BreakInv
<1>4. QED
  BY <1>1, <1>2, <1>3

----------------------------------------------------------------------------

(* A step is a pass of the main loop.                                      *)
LEMMA InitLemma == Init => BridgeTypeOK /\ ByteInv
<1> SUFFICES ASSUME Init PROVE BridgeTypeOK /\ ByteInv
  OBVIOUS
<1>1. got = << >> /\ got \in Seq(Bytes) /\ Len(got) = 0 /\ << >> = Numbers(0)
  BY DEF Init, Numbers
<1>2. 0 \in Bytes /\ 0 <= MaxBytes /\ BreakPasses \in 0 .. BreakPasses
  BY BridgeAssumption DEF Bytes
<1>3. BridgeTypeOK
  <2>1. brk_cnt \in 0 .. 15 /\ words \in 0 .. 1 /\ stored \in 0 .. 1 /\ delivered \in 0 .. 1
    BY DEF Init
  <2>2. state = "WAIT" /\ op \in ProgramOps /\ mode = "program"
    BY DEF Init, ProgramOps
  <2>3. /\ rx_valid \in BOOLEAN /\ tx_valid \in BOOLEAN /\ dbg_halt_mask \in BOOLEAN
        /\ seen \in BOOLEAN /\ asked \in BOOLEAN /\ nested \in BOOLEAN
    BY DEF Init
  <2>4. break_cycles \in 0 .. BreakPasses /\ rx_data \in Bytes /\ fed \in Bytes
    BY <1>2 DEF Init
  <2>5. QED
    BY <1>1, <1>2, <2>1, <2>2, <2>3, <2>4 DEF BridgeTypeOK
<1>4. ByteInv
  BY <1>1 DEF Init, ByteInv, Held, InFlight, Count
<1>5. QED
  BY <1>3, <1>4

LEMMA StutterLemma ==
  ASSUME UNCHANGED bridgeVars
  PROVE  /\ BridgeTypeOK => BridgeTypeOK'
         /\ ByteInv => ByteInv'
         /\ BreakInv => BreakInv'
  BY DEF bridgeVars, uartVars, coreVars, BridgeTypeOK, ByteInv, BreakInv, Held, InFlight,
         Count, Distance

(* The bridge keeps its types, and the bytes their order.                  *)
THEOREM BridgeTypeCorrect == Spec => [](BridgeTypeOK /\ ByteInv)
<1>1. Init => BridgeTypeOK /\ ByteInv
  BY InitLemma
<1>2. BridgeTypeOK /\ ByteInv /\ [Next]_bridgeVars => (BridgeTypeOK /\ ByteInv)'
  BY ByteLemma, TypeLemma, StutterLemma DEF Next
<1>3. QED
  BY <1>1, <1>2, PTL DEF Spec

(* However many bytes the debugger sends, the stub receives each once and   *)
(* in order, and the socket every byte that the stub stores.               *)
THEOREM BridgeHandsOver == Spec => []BytesPass
<1>1. BridgeTypeOK /\ ByteInv => BytesPass
  <2>1. SUFFICES ASSUME BridgeTypeOK, ByteInv, ~nested
                 PROVE  got \o (IF InFlight THEN << rx_data >> ELSE << >>)
                            \o (IF rx_valid THEN << rx_data >> ELSE << >>) = Numbers(fed)
    BY DEF BytesPass, ByteInv, InFlight, Numbers
  <2>2. got \in Seq(Bytes) /\ fed \in Nat /\ Len(got) \in Nat /\ rx_data \in Bytes
    BY <2>1, LenProperties, BridgeAssumption DEF BridgeTypeOK, Bytes
  <2>3. got \o << >> = got /\ (got \o << rx_data >>) \o << >> = got \o << rx_data >>
    BY <2>2, AppendProperties, AppendIsConcat, ConcatEmptySeq
  <2>4. CASE ~Held
    BY <2>1, <2>3, <2>4 DEF ByteInv, Held, Count
  <2>5. CASE Held
    <3>1. got = Numbers(fed - 1) /\ rx_data = fed /\ fed - 1 \in Nat
      BY <2>1, <2>2, <2>5 DEF ByteInv, Count
    <3>2. Numbers(fed - 1) \o << (fed - 1) + 1 >> = Numbers((fed - 1) + 1)
      BY <3>1, NumbersLemma
    <3>3. (fed - 1) + 1 = fed
      BY <2>2
    <3>4. got \o << rx_data >> = Numbers(fed)
      BY <3>1, <3>2, <3>3
    <3>5. QED
      BY <2>1, <2>3, <2>5, <3>4 DEF ByteInv, Held
  <2>6. QED
    BY <2>4, <2>5
<1>2. QED
  BY <1>1, BridgeTypeCorrect, PTL

(* A break of 20 passes or more halts the program that it is meant for,     *)
(* wherever that program is: 15 passes fill the detector, and an            *)
(* instruction executes in every five.                                     *)
THEOREM BreakReachesCore == ASSUME BreakPasses >= 20 PROVE Spec => []BreakHalts
<1>1. Init => BridgeTypeOK /\ ByteInv /\ BreakInv
  BY InitLemma, BridgeAssumption DEF Init, BreakInv, Distance
<1>2. BridgeTypeOK /\ ByteInv /\ BreakInv /\ [Next]_bridgeVars
        => (BridgeTypeOK /\ ByteInv /\ BreakInv)'
  BY ByteLemma, TypeLemma, BreakLemma, StutterLemma DEF Next
<1>3. BreakInv => BreakHalts
  BY DEF BreakInv, BreakHalts
<1>4. QED
  BY <1>1, <1>2, <1>3, PTL DEF Spec

=============================================================================
