----------------------------- MODULE DbgSocProofs -----------------------------
(***************************************************************************)
(* Proofs about the debug SoC, from the inside out, for every size of      *)
(* memory and program:                                                     *)
(*   - the front end (AttoFetch), with or without wait states and the      *)
(*     single-port register file;                                          *)
(*   - the core (AttoCore): its registers keep their types, the debug mask *)
(*     and the handler lock agree, every instruction is counted, and the   *)
(*     core implements the front end, so that what is proved of the fetch  *)
(*     holds of the core; the handler is not entered again before MRET;    *)
(*   - the SoC (DbgSoc): its core is the core of AttoCore, the breakpoint  *)
(*     unit keeps its types, and its registered halt request is exact      *)
(*     where the core samples it.                                          *)
(* SocAssumption is cited for the SoC alone, in the last part.             *)
(***************************************************************************)
EXTENDS DbgSoc, TLAPS

----------------------------------------------------------------------------
(* The inductive invariant.                                                *)

(* Out of reset, before the first fetch: cached_data is whatever it was,   *)
(* but it belongs to the last word and PC is in the first.                 *)
Fresh ==
  /\ state \in {"WAIT", "FETCH_INSTR", "WAIT_INSTR"}
  /\ cached_addr = NWords - 1
  /\ PC.word = 0
  /\ ~fetch_second_half
  /\ ~skip_fetch

CacheInv ==
  Fresh \/ cached_addr \in StoreWords \/ cached_data = mem[cached_addr]

(* The cache alone supplies the whole instruction at PC.                   *)
Ready ==
  /\ Hit(PC)
  /\ ~fetch_second_half
  /\ ~(PC.half = 1 /\ cached_data.hi \in LongParcels)

SkipInv == state = "WAIT" /\ skip_fetch => Ready

(* A second-half fetch is for the rest of an instruction whose first half  *)
(* is cached.                                                              *)
HalfInv ==
  fetch_second_half =>
    /\ state \in {"WAIT", "FETCH_INSTR", "WAIT_INSTR"}
    /\ Hit(PC)
    /\ PC.half = 1
    /\ cached_data.hi \in LongParcels

(* Without wait states nothing is ever in progress.                        *)
NeverBusy == ~WaitStates => ~mem_rbusy /\ ~mem_wbusy

BusInv ==
  /\ NeverBusy
  /\ state \in {"FETCH_INSTR", "FETCH_RS2", "EXECUTE"} => ~mem_rbusy
  /\ state \in {"FETCH_INSTR", "FETCH_RS2", "EXECUTE", "WAIT_INSTR"} => ~mem_wbusy

(* What S_WAIT_INSTR waits for is the word it asked for.                   *)
AnswerInv ==
  state = "WAIT_INSTR" =>
    \/ Ready
    \/ /\ mem_raddr = mem_addr
       /\ mem_rbusy \/ mem_raddr \in StoreWords \/ mem_rdata = mem[mem_raddr]

FetchInv ==
  /\ FetchTypeOK
  /\ CacheInv
  /\ SkipInv
  /\ HalfInv
  /\ BusInv
  /\ AnswerInv
  /\ FetchCorrect

----------------------------------------------------------------------------
(* Lemmas on addresses and on the port.                                    *)

(* Words and addresses wrap inside the address space.                      *)
LEMMA AddressLemma ==
  /\ \A w \in WAddr : NextWord(w) \in WAddr
  /\ \A a \in Addr : Plus2(a) \in Addr /\ Plus4(a) \in Addr
  /\ 0 \in WAddr /\ NWords - 1 \in WAddr /\ NWords - 1 # 0
<1>1. 0 \in WAddr /\ NWords - 1 \in WAddr /\ NWords - 1 # 0
  BY FetchAssumption DEF WAddr
<1>2. \A w \in WAddr : NextWord(w) \in WAddr
  BY FetchAssumption DEF WAddr, NextWord
<1>3. \A a \in Addr : Plus2(a) \in Addr /\ Plus4(a) \in Addr
  BY <1>2 DEF Addr, Plus2, Plus4
<1>4. QED
  BY <1>1, <1>2, <1>3

(* A cycle without a strobe: the port keeps its answer, or a read in       *)
(* progress is answered with the word it asked for.                        *)
LEMMA NoAccessLemma ==
  ASSUME FetchTypeOK, NoAccess
  PROVE  /\ mem' = mem
         /\ mem_raddr' = mem_raddr
         /\ mem_raddr' \in WAddr /\ mem_rdata' \in Word
         /\ mem_rbusy' \in BOOLEAN /\ mem_wbusy' \in BOOLEAN
         /\ mem_rbusy' => mem_rbusy
         /\ mem_wbusy' => mem_wbusy
         /\ ~mem_rbusy => mem_rdata' = mem_rdata
         /\ mem_rbusy /\ ~mem_rbusy' => mem_rdata' = mem[mem_raddr]
<1>1. mem' = mem /\ mem_wbusy' \in BOOLEAN /\ (mem_wbusy' => mem_wbusy)
  BY DEF NoAccess, NoWrite
<1>2. CASE ReadDone
  BY <1>1, <1>2 DEF FetchTypeOK, ReadDone
<1>3. CASE UNCHANGED readVars
  BY <1>1, <1>3 DEF FetchTypeOK, readVars
<1>4. QED
  BY <1>2, <1>3 DEF NoAccess, NoRead

(* A read strobed on an idle bus.                                          *)
LEMMA ReadLemma ==
  ASSUME FetchTypeOK, NEW w \in WAddr, Read(w), NoWrite
  PROVE  /\ mem' = mem
         /\ mem_raddr' \in WAddr /\ mem_rdata' \in Word
         /\ mem_rbusy' \in BOOLEAN /\ mem_wbusy' \in BOOLEAN
         /\ mem_wbusy' => mem_wbusy
         /\ mem_rbusy' => mem_rbusy \/ WaitStates
         /\ ~mem_rbusy => mem_raddr' = w /\ (mem_rbusy' \/ mem_rdata' = mem[w])
  BY DEF FetchTypeOK, Read, NoRead, ReadDone, NoWrite, readVars

(* A store changes only the words the program stores to.                   *)
LEMMA DataAccessLemma ==
  ASSUME FetchTypeOK, NoAccess \/ DataAccess
  PROVE  /\ mem' \in [WAddr -> Word]
         /\ \A w \in WAddr \ StoreWords : mem'[w] = mem[w]
         /\ mem_raddr' \in WAddr /\ mem_rdata' \in Word
         /\ mem_rbusy' \in BOOLEAN /\ mem_wbusy' \in BOOLEAN
         /\ mem_rbusy' => mem_rbusy \/ WaitStates
         /\ mem_wbusy' => mem_wbusy \/ WaitStates
<1>1. CASE NoAccess
  BY <1>1, NoAccessLemma DEF FetchTypeOK
<1>2. CASE \E w \in WAddr : Read(w) /\ NoWrite
  BY <1>2, ReadLemma DEF FetchTypeOK
<1>3. ASSUME NEW w \in StoreWords, NEW d \in StoreData, Write(w, d), NoRead
      PROVE  /\ mem' \in [WAddr -> Word]
             /\ \A v \in WAddr \ StoreWords : mem'[v] = mem[v]
             /\ mem_raddr' \in WAddr /\ mem_rdata' \in Word
             /\ mem_rbusy' \in BOOLEAN /\ mem_wbusy' \in BOOLEAN
             /\ mem_rbusy' => mem_rbusy \/ WaitStates
             /\ mem_wbusy' => mem_wbusy \/ WaitStates
  <2>1. w \in WAddr /\ d \in Word
    BY FetchAssumption
  <2>2. /\ mem' \in [WAddr -> Word]
        /\ \A v \in WAddr \ StoreWords : mem'[v] = mem[v]
        /\ mem_wbusy' \in BOOLEAN
        /\ mem_wbusy' => WaitStates
    BY <1>3, <2>1 DEF FetchTypeOK, Write
  <2>3. CASE ReadDone
    BY <2>2, <2>3 DEF FetchTypeOK, ReadDone
  <2>4. CASE UNCHANGED readVars
    BY <2>2, <2>4 DEF FetchTypeOK, readVars
  <2>5. QED
    BY <1>3, <2>3, <2>4 DEF NoRead
<1>4. QED
  BY <1>1, <1>2, <1>3 DEF DataAccess

(* The architectural instruction at an address depends on memory only.     *)
LEMMA InstrAtLemma ==
  ASSUME FetchTypeOK, NEW a \in Addr, Stable(a),
         \A w \in WAddr \ StoreWords : mem'[w] = mem[w]
  PROVE  InstrAt(a)' = InstrAt(a)
  BY AddressLemma DEF InstrAt, InstrIn, Stable, Addr

(* Every cycle strobes nothing, or an access.                              *)
LEMMA AccessLemma ==
  ASSUME FetchTypeOK,
         \/ FetchInstr \/ InstrBusy \/ InstrAnswered \/ FetchRs2
         \/ Stall \/ AnyWait \/ NoAccess \/ DataAccess
  PROVE  NoAccess \/ DataAccess
<1>1. mem_addr \in WAddr
  BY AddressLemma DEF mem_addr, FetchTypeOK, Addr
<1>2. QED
  BY <1>1 DEF FetchInstr, InstrBusy, InstrAnswered, FetchRs2, Stall, AnyWait, DataAccess

----------------------------------------------------------------------------
(* Types are preserved whatever S_EXECUTE does to the port: this does not   *)
(* depend on accesses being waited for.                                    *)
LEMMA TypeLemma ==
  ASSUME FetchTypeOK,
         \/ FetchInstr \/ InstrBusy \/ InstrAnswered \/ FetchRs2
         \/ Stall \/ AnyWait
         \/ /\ NoAccess \/ DataAccess
            /\ ResetFront \/ \E wait \in BOOLEAN, t \in Addr : GoOn(t, wait) \/ Vector(t, wait)
  PROVE  FetchTypeOK'
<1> DEFINE PortOK ==
      /\ mem' \in [WAddr -> Word]
      /\ mem_raddr' \in WAddr /\ mem_rdata' \in Word
      /\ mem_rbusy' \in BOOLEAN /\ mem_wbusy' \in BOOLEAN
<1> DEFINE FrontOK ==
      /\ state' \in States /\ PC' \in Addr
      /\ cached_addr' \in WAddr /\ cached_data' \in Word
      /\ fetch_second_half' \in BOOLEAN /\ skip_fetch' \in BOOLEAN
      /\ instr' \in Instr
<1>1. mem_addr \in WAddr
  BY AddressLemma DEF mem_addr, FetchTypeOK, Addr
<1>2. NoAccess \/ DataAccess => PortOK
  BY DataAccessLemma
<1>3. CASE FetchInstr
  <2>1. DataAccess
    BY <1>1, <1>3 DEF FetchInstr, DataAccess
  <2>2. FrontOK
    BY <1>3 DEF FetchInstr, FetchTypeOK, States
  <2>3. QED
    BY <1>2, <2>1, <2>2 DEF FetchTypeOK
<1>4. CASE InstrBusy \/ Stall
  <2>1. NoAccess /\ UNCHANGED frontVars
    BY <1>4 DEF InstrBusy, Stall
  <2>2. QED
    BY <1>2, <2>1 DEF frontVars, FetchTypeOK
<1>5. CASE InstrAnswered
  <2>1. NoAccess /\ PC' = PC /\ skip_fetch' = skip_fetch /\ instr' = decompressed
    BY <1>5 DEF InstrAnswered
  <2>2. cached_mem \in Word
    BY DEF cached_mem, FetchTypeOK
  <2>3. decompressed \in Instr
    BY <2>2 DEF decompressed, decomp_input, Instr, Word, FetchTypeOK
  <2>4. cached_addr' \in WAddr /\ cached_data' \in Word
    BY <1>1, <1>5 DEF InstrAnswered, FillCache, FetchTypeOK
  <2>5. state' \in States /\ fetch_second_half' \in BOOLEAN
    BY <1>5 DEF InstrAnswered, AfterFetch, States
  <2>6. QED
    BY <1>2, <2>1, <2>3, <2>4, <2>5 DEF FetchTypeOK
<1>6. CASE FetchRs2 \/ AnyWait
  <2>1. NoAccess
    BY <1>6 DEF FetchRs2, AnyWait
  <2>2. FrontOK
    BY <1>6 DEF FetchRs2, AnyWait, LeaveWait, FetchTypeOK, States
  <2>3. QED
    BY <1>2, <2>1, <2>2 DEF FetchTypeOK
<1>7. CASE (NoAccess \/ DataAccess) /\ ResetFront
  <2>1. FrontOK
    BY <1>7, AddressLemma DEF ResetFront, FetchTypeOK, States, Addr
  <2>2. QED
    BY <1>2, <1>7, <2>1 DEF FetchTypeOK
<1>8. ASSUME NoAccess \/ DataAccess,
             NEW wait \in BOOLEAN, NEW t \in Addr, GoOn(t, wait) \/ Vector(t, wait)
      PROVE  FetchTypeOK'
  <2>1. CASE GoOn(t, wait)
    <3>1. FrontOK
      BY <2>1 DEF GoOn, FetchTypeOK, States
    <3>2. QED
      BY <1>2, <1>8, <3>1 DEF FetchTypeOK
  <2>2. CASE Vector(t, wait)
    <3>1. FrontOK
      BY <2>2 DEF Vector, FetchTypeOK, States
    <3>2. QED
      BY <1>2, <1>8, <3>1 DEF FetchTypeOK
  <2>3. QED
    BY <1>8, <2>1, <2>2
<1>9. QED
  BY <1>3, <1>4, <1>5, <1>6, <1>7, <1>8

----------------------------------------------------------------------------
(* Each action preserves the invariant.                                    *)

LEMMA InitLemma == FetchInit => FetchInv
<1> SUFFICES ASSUME FetchInit PROVE FetchInv
  OBVIOUS
<1>1. FetchTypeOK
  <2>1. PICK w \in PowerUpWords : instr = [first |-> w.lo, second |-> w.hi]
    BY DEF FetchInit
  <2>2. instr \in Instr
    BY <2>1, FetchAssumption DEF Word, Instr
  <2>3. PC \in Addr /\ mem_raddr \in WAddr /\ cached_addr \in WAddr
    BY AddressLemma DEF FetchInit, Addr
  <2>4. cached_data \in Word /\ mem_rdata \in Word /\ mem \in [WAddr -> Word]
    BY FetchAssumption DEF FetchInit
  <2>5. QED
    BY <2>2, <2>3, <2>4 DEF FetchInit, FetchTypeOK, States
<1>2. Fresh
  BY DEF FetchInit, Fresh
<1>3. CacheInv /\ SkipInv /\ HalfInv /\ BusInv /\ AnswerInv /\ FetchCorrect
  BY <1>2 DEF FetchInit, CacheInv, SkipInv, HalfInv, NeverBusy, BusInv, AnswerInv, FetchCorrect
<1>4. QED
  BY <1>1, <1>3 DEF FetchInv

LEMMA FetchInstrLemma == FetchInv /\ FetchInstr => FetchInv'
<1> SUFFICES ASSUME FetchInv, FetchInstr PROVE FetchInv'
  OBVIOUS
<1> USE DEF FetchInv
<1>1. mem_addr \in WAddr
  BY AddressLemma DEF mem_addr, FetchTypeOK, Addr
<1>2. Read(mem_addr) /\ NoWrite /\ ~mem_rbusy /\ ~mem_wbusy
  BY DEF FetchInstr, NeverBusy, BusInv
<1>3. /\ mem' = mem
      /\ mem_raddr' \in WAddr /\ mem_rdata' \in Word
      /\ mem_rbusy' \in BOOLEAN /\ mem_wbusy' \in BOOLEAN
      /\ ~mem_wbusy'
      /\ mem_rbusy' => WaitStates
      /\ mem_raddr' = mem_addr
      /\ mem_rbusy' \/ mem_rdata' = mem[mem_addr]
  BY <1>1, <1>2, ReadLemma
<1>4. /\ state' = "WAIT_INSTR"
      /\ UNCHANGED << PC, cached_addr, cached_data, fetch_second_half,
                      skip_fetch, instr >>
  BY DEF FetchInstr
<1>5. FetchTypeOK'
  BY TypeLemma
<1>6. CacheInv' /\ SkipInv' /\ HalfInv'
  BY <1>3, <1>4 DEF FetchInstr, CacheInv, Fresh, SkipInv, HalfInv, Hit
<1>7. BusInv' /\ AnswerInv' /\ FetchCorrect'
  BY <1>3, <1>4 DEF NeverBusy, BusInv, AnswerInv, FetchCorrect, mem_addr
<1>8. QED
  BY <1>5, <1>6, <1>7

LEMMA InstrBusyLemma == FetchInv /\ InstrBusy => FetchInv'
<1> SUFFICES ASSUME FetchInv, InstrBusy PROVE FetchInv'
  OBVIOUS
<1> USE DEF FetchInv
<1>1. /\ mem' = mem
      /\ mem_raddr' = mem_raddr
      /\ mem_raddr' \in WAddr /\ mem_rdata' \in Word
      /\ mem_rbusy' \in BOOLEAN /\ mem_wbusy' \in BOOLEAN
      /\ mem_rbusy' => mem_rbusy
      /\ mem_wbusy' => mem_wbusy
      /\ ~mem_rbusy' => mem_rdata' = mem[mem_raddr]
  BY NoAccessLemma DEF InstrBusy
<1>2. state = "WAIT_INSTR" /\ UNCHANGED frontVars
  BY DEF InstrBusy
<1>3. FetchTypeOK'
  BY TypeLemma
<1>4. CacheInv' /\ SkipInv' /\ HalfInv' /\ FetchCorrect'
  BY <1>1, <1>2 DEF frontVars, CacheInv, Fresh, SkipInv, HalfInv, Hit, FetchCorrect
<1>5. BusInv' /\ AnswerInv'
  BY <1>1, <1>2 DEF frontVars, NeverBusy, BusInv, AnswerInv, Ready, Hit, mem_addr
<1>6. QED
  BY <1>3, <1>4, <1>5

LEMMA FetchRs2Lemma == FetchInv /\ FetchRs2 => FetchInv'
<1> SUFFICES ASSUME FetchInv, FetchRs2 PROVE FetchInv'
  OBVIOUS
<1> USE DEF FetchInv
<1>1. /\ mem' = mem
      /\ mem_raddr' \in WAddr /\ mem_rdata' \in Word
      /\ mem_rbusy' \in BOOLEAN /\ mem_wbusy' \in BOOLEAN
      /\ ~mem_rbusy' /\ ~mem_wbusy'
  BY NoAccessLemma DEF FetchRs2, NeverBusy, BusInv
<1>2. /\ state = "FETCH_RS2" /\ state' = "EXECUTE"
      /\ UNCHANGED << PC, cached_addr, cached_data, fetch_second_half,
                      skip_fetch, instr >>
  BY DEF FetchRs2
<1>3. FetchTypeOK'
  BY TypeLemma
<1>4. CacheInv' /\ SkipInv' /\ HalfInv' /\ BusInv' /\ AnswerInv'
  BY <1>1, <1>2 DEF CacheInv, Fresh, SkipInv, HalfInv, NeverBusy, BusInv, AnswerInv
<1>5. FetchCorrect'
  BY <1>1, <1>2 DEF FetchCorrect, Stable, InstrAt, InstrIn, Plus2
<1>6. QED
  BY <1>3, <1>4, <1>5

(* The heart of the matter: what the latched instruction is made of.        *)
LEMMA InstrAnsweredLemma == FetchInv /\ InstrAnswered => FetchInv'
<1> SUFFICES ASSUME FetchInv, InstrAnswered PROVE FetchInv'
  OBVIOUS
<1> USE DEF FetchInv
<1>1. /\ mem' = mem
      /\ mem_raddr' = mem_raddr
      /\ mem_raddr' \in WAddr /\ mem_rdata' = mem_rdata
      /\ ~mem_rbusy' /\ ~mem_wbusy'
      /\ mem_rbusy' \in BOOLEAN /\ mem_wbusy' \in BOOLEAN
  BY NoAccessLemma DEF InstrAnswered, NeverBusy, BusInv
<1>2. /\ state = "WAIT_INSTR" /\ ~mem_rbusy
      /\ PC' = PC /\ skip_fetch' = skip_fetch
      /\ instr' = decompressed
  BY DEF InstrAnswered
<1>3. mem_addr \in WAddr /\ PC.word \in WAddr /\ PC.half \in {0, 1}
  BY AddressLemma DEF mem_addr, FetchTypeOK, Addr
<1>4. cached_mem \in Word
  BY DEF cached_mem, FetchTypeOK
<1>5. cached_addr' \in WAddr /\ cached_data' \in Word
  BY <1>3 DEF InstrAnswered, FillCache, FetchTypeOK
<1>6. FetchTypeOK'
  BY TypeLemma
(* The word at hand is the one at mem_addr, cached or just read.           *)
<1>7. \/ Ready
      \/ mem_raddr = mem_addr /\ (mem_addr \in StoreWords \/ mem_rdata = mem[mem_addr])
  BY <1>2 DEF AnswerInv
<1>8. ~fetch_second_half => mem_addr = PC.word
  BY DEF mem_addr
<1>9. Hit(PC) => cached_addr \in StoreWords \/ cached_data = mem[cached_addr]
  BY <1>2, FetchAssumption DEF CacheInv, Fresh, Hit
<1>10. PC.word \in StoreWords \/ cached_mem = mem[PC.word]
  <2>1. CASE Hit(PC)
    BY <1>9, <2>1 DEF Hit, cached_mem
  <2>2. CASE ~Hit(PC)
    <3>1. ~fetch_second_half /\ ~Ready
      BY <2>2 DEF HalfInv, Ready
    <3>2. QED
      BY <1>7, <1>8, <2>2, <3>1 DEF cached_mem
  <2>3. QED
    BY <2>1, <2>2
<1>11. CacheInv'
  <2>1. CASE Hit(PC) /\ ~fetch_second_half
    BY <1>1, <1>9, <2>1 DEF InstrAnswered, FillCache, CacheInv, Hit
  <2>2. CASE ~Hit(PC) \/ fetch_second_half
    <3>1. ~Ready
      BY <2>2 DEF Ready
    <3>2. cached_addr' = mem_addr /\ cached_data' = mem_rdata
      BY <2>2 DEF InstrAnswered, FillCache
    <3>3. QED
      BY <1>1, <1>7, <3>1, <3>2 DEF CacheInv
  <2>3. QED
    BY <2>1, <2>2
(* The second half is still missing: fetch it.                             *)
<1>12. CASE current_unaligned_long /\ ~fetch_second_half
  <2>1. state' = "FETCH_INSTR" /\ fetch_second_half' = TRUE
    BY <1>12 DEF InstrAnswered
  <2>2. cached_addr' = PC.word /\ cached_data' = cached_mem
    BY <1>8, <1>12 DEF InstrAnswered, FillCache, Hit, cached_mem
  <2>3. HalfInv'
    BY <1>2, <1>12, <2>1, <2>2 DEF HalfInv, Hit, current_unaligned_long
  <2>4. SkipInv' /\ BusInv' /\ AnswerInv' /\ FetchCorrect'
    BY <1>1, <2>1 DEF SkipInv, NeverBusy, BusInv, AnswerInv, FetchCorrect
  <2>5. QED
    BY <1>6, <1>11, <2>3, <2>4
(* The instruction is complete.                                            *)
<1>13. CASE ~(current_unaligned_long /\ ~fetch_second_half)
  <2>1. state' \in {"FETCH_RS2", "EXECUTE"} /\ fetch_second_half' = FALSE
    BY <1>13 DEF InstrAnswered, AfterFetch
  <2>2. SkipInv' /\ HalfInv' /\ BusInv' /\ AnswerInv'
    BY <1>1, <2>1 DEF SkipInv, HalfInv, NeverBusy, BusInv, AnswerInv
  <2>3. FetchCorrect'
    <3> SUFFICES ASSUME Stable(PC)
                 PROVE  decompressed = InstrAt(PC)
      BY <1>1, <1>2 DEF FetchCorrect, Stable, InstrAt, InstrIn, Plus2
    <3>1. PC.word \notin StoreWords /\ Plus2(PC).word \notin StoreWords
      BY DEF Stable
    <3>2. cached_mem = mem[PC.word]
      BY <1>10, <3>1
    <3>3. CASE PC.half = 0
      BY <3>2, <3>3 DEF decompressed, decomp_input, InstrAt, InstrIn, Plus2, ParcelOf
    <3>4. CASE PC.half = 1
      <4>1. Plus2(PC).word = NextWord(PC.word) /\ Plus2(PC).half = 0
        BY <3>4 DEF Plus2
      <4>2. CASE fetch_second_half
        <5>1. mem_addr = NextWord(PC.word) /\ ~Ready
          BY <4>2 DEF mem_addr, Ready
        <5>2. mem_rdata = mem[NextWord(PC.word)]
          BY <1>7, <3>1, <4>1, <5>1
        <5>3. QED
          BY <3>2, <3>4, <4>1, <5>2 DEF decompressed, decomp_input, InstrAt, InstrIn, ParcelOf
      <4>3. CASE ~fetch_second_half
        <5>1. cached_mem.hi \notin LongParcels
          BY <1>13, <3>4, <4>3 DEF current_unaligned_long
        <5>2. QED
          BY <3>2, <3>4, <5>1 DEF decompressed, decomp_input, InstrAt, InstrIn, ParcelOf
      <4>4. QED
        BY <4>2, <4>3 DEF FetchTypeOK
    <3>5. QED
      BY <1>3, <3>3, <3>4
  <2>4. QED
    BY <1>6, <1>11, <2>2, <2>3
<1>14. QED
  BY <1>12, <1>13

(* Leaving S_EXECUTE, with or without a data access.  The cache is left     *)
(* alone; memory may change in the stored-to words.                        *)
LEMMA AnyExecuteLemma == FetchInv /\ AnyExecute => FetchInv'
<1> SUFFICES ASSUME FetchInv, AnyExecute PROVE FetchInv'
  OBVIOUS
<1> USE DEF FetchInv
<1>1. state = "EXECUTE" /\ ~mem_rbusy /\ ~mem_wbusy /\ ~fetch_second_half
  BY DEF AnyExecute, NeverBusy, BusInv, HalfInv
<1>2. NoAccess \/ DataAccess
  BY DEF AnyExecute
<1>3. /\ mem' \in [WAddr -> Word]
      /\ \A w \in WAddr \ StoreWords : mem'[w] = mem[w]
      /\ mem_raddr' \in WAddr /\ mem_rdata' \in Word
      /\ mem_rbusy' \in BOOLEAN /\ mem_wbusy' \in BOOLEAN
      /\ mem_rbusy' => WaitStates
      /\ mem_wbusy' => WaitStates
  BY <1>1, <1>2, DataAccessLemma
<1>4. mem_rbusy' \/ mem_wbusy' => state' = "WAIT"
  <2>1. CASE NoAccess
    BY <1>1, <2>1, NoAccessLemma
  <2>2. CASE (WaitStates => state' = "WAIT") /\ DataAccess
    BY <1>3, <2>2
  <2>3. QED
    BY <2>1, <2>2 DEF AnyExecute
<1>5. /\ UNCHANGED << cached_addr, cached_data, instr >>
      /\ PC' \in Addr
      /\ skip_fetch' \in BOOLEAN /\ fetch_second_half' \in BOOLEAN
      /\ state' \in {"WAIT", "WAIT_INSTR", "FETCH_INSTR"}
      /\ skip_fetch' => Ready'
      /\ state' = "WAIT_INSTR" => Ready'
      /\ fetch_second_half' => Hit(PC)' /\ PC'.half = 1 /\ cached_data'.hi \in LongParcels
  <2>1. PICK wait \in BOOLEAN, t \in Addr : GoOn(t, wait) \/ Vector(t, wait)
    BY DEF AnyExecute
  <2>2. CASE GoOn(t, wait)
    BY <2>2 DEF GoOn, Hit, next_unaligned_long, Ready
  <2>3. CASE Vector(t, wait)
    BY <1>1, <2>3 DEF Vector, FetchTypeOK
  <2>4. QED
    BY <2>1, <2>2, <2>3
<1>6. FetchTypeOK'
  BY <1>3, <1>5 DEF FetchTypeOK, States
<1>7. CacheInv'
  BY <1>1, <1>3, <1>5 DEF CacheInv, Fresh, FetchTypeOK
<1>8. SkipInv' /\ AnswerInv' /\ FetchCorrect' /\ HalfInv'
  BY <1>5 DEF SkipInv, AnswerInv, FetchCorrect, HalfInv
<1>9. BusInv'
  BY <1>3, <1>4, <1>5 DEF NeverBusy, BusInv
<1>10. QED
  BY <1>6, <1>7, <1>8, <1>9

LEMMA StallLemma == FetchInv /\ Stall => FetchInv'
<1> SUFFICES ASSUME FetchInv, Stall PROVE FetchInv'
  OBVIOUS
<1> USE DEF FetchInv
<1>1. /\ mem' = mem
      /\ mem_raddr' \in WAddr /\ mem_rdata' \in Word
      /\ mem_rbusy' \in BOOLEAN /\ mem_wbusy' \in BOOLEAN
      /\ mem_rbusy' => mem_rbusy
      /\ mem_wbusy' => mem_wbusy
  BY NoAccessLemma DEF Stall
<1>2. state \in {"EXECUTE", "WAIT"} /\ UNCHANGED frontVars
  BY DEF Stall
<1>3. FetchTypeOK'
  BY TypeLemma
<1>4. CacheInv' /\ SkipInv' /\ HalfInv' /\ BusInv' /\ AnswerInv'
  BY <1>1, <1>2 DEF frontVars, CacheInv, Fresh, SkipInv, Ready, HalfInv, Hit, NeverBusy, BusInv, AnswerInv
<1>5. FetchCorrect'
  BY <1>1, <1>2 DEF frontVars, FetchCorrect, Stable, InstrAt, InstrIn, Plus2
<1>6. QED
  BY <1>3, <1>4, <1>5

LEMMA AnyWaitLemma == FetchInv /\ AnyWait => FetchInv'
<1> SUFFICES ASSUME FetchInv, AnyWait PROVE FetchInv'
  OBVIOUS
<1> USE DEF FetchInv
<1>1. /\ mem' = mem
      /\ mem_raddr' \in WAddr /\ mem_rdata' \in Word
      /\ mem_rbusy' \in BOOLEAN /\ mem_wbusy' \in BOOLEAN
      /\ ~mem_rbusy' /\ ~mem_wbusy'
  BY NoAccessLemma DEF AnyWait, LeaveWait
<1>2. /\ state = "WAIT"
      /\ state' = IF skip_fetch THEN "WAIT_INSTR" ELSE "FETCH_INSTR"
      /\ UNCHANGED << PC, cached_addr, cached_data, fetch_second_half,
                      skip_fetch, instr >>
  BY DEF AnyWait, LeaveWait
<1>3. FetchTypeOK'
  BY TypeLemma
<1>4. CacheInv' /\ SkipInv' /\ HalfInv' /\ BusInv' /\ FetchCorrect'
  BY <1>1, <1>2 DEF CacheInv, Fresh, SkipInv, HalfInv, Hit, NeverBusy, BusInv, FetchCorrect
<1>5. AnswerInv'
  BY <1>2 DEF AnswerInv, SkipInv, Ready, Hit
<1>6. QED
  BY <1>3, <1>4, <1>5

(* A reset makes the invariant true again, even where an access cut short   *)
(* has broken it.                                                          *)
LEMMA AnyResetLemma ==
  ASSUME FetchTypeOK, NeverBusy, AnyReset
  PROVE  FetchInv'
<1>1. NoAccess \/ DataAccess
  <2>1. mem_addr \in WAddr
    BY AddressLemma DEF mem_addr, FetchTypeOK, Addr
  <2>2. QED
    BY <2>1 DEF AnyReset, DataAccess
<1>2. /\ mem' \in [WAddr -> Word]
      /\ mem_raddr' \in WAddr /\ mem_rdata' \in Word
      /\ mem_rbusy' \in BOOLEAN /\ mem_wbusy' \in BOOLEAN
      /\ mem_rbusy' => mem_rbusy \/ WaitStates
      /\ mem_wbusy' => mem_wbusy \/ WaitStates
  BY <1>1, DataAccessLemma
<1>3. Fresh' /\ state' = "WAIT" /\ UNCHANGED << cached_data, instr >>
  BY DEF AnyReset, ResetFront, Fresh
<1>4. FetchTypeOK'
  BY <1>2, <1>3, AddressLemma DEF AnyReset, ResetFront, FetchTypeOK, States, Addr
<1>5. CacheInv' /\ SkipInv' /\ HalfInv' /\ BusInv' /\ AnswerInv' /\ FetchCorrect'
  BY <1>2, <1>3 DEF NeverBusy, CacheInv, Fresh, SkipInv, HalfInv, NeverBusy, BusInv, AnswerInv, FetchCorrect
<1>6. QED
  BY <1>4, <1>5 DEF FetchInv

----------------------------------------------------------------------------
(* The theorems.                                                           *)

(* The invariant is inductive.                                             *)
LEMMA FetchStepLemma ==
  ASSUME FetchInv, [FetchNext]_fetchVars
  PROVE  FetchInv'
<1>1. CASE FetchInstr
  BY <1>1, FetchInstrLemma
<1>2. CASE InstrBusy
  BY <1>2, InstrBusyLemma
<1>3. CASE InstrAnswered
  BY <1>3, InstrAnsweredLemma
<1>4. CASE FetchRs2
  BY <1>4, FetchRs2Lemma
<1>5. CASE AnyExecute
  BY <1>5, AnyExecuteLemma
<1>6. CASE Stall
  BY <1>6, StallLemma
<1>7. CASE AnyWait
  BY <1>7, AnyWaitLemma
<1>8. CASE AnyReset
  BY <1>8, AnyResetLemma DEF FetchInv, BusInv
<1>9. CASE UNCHANGED fetchVars
  BY <1>9 DEF fetchVars, frontVars, readVars, FetchInv, FetchTypeOK, CacheInv, Fresh,
              SkipInv, Ready, HalfInv, Hit, NeverBusy, BusInv, AnswerInv, mem_addr, NextWord,
              FetchCorrect, Stable, InstrAt, InstrIn, Plus2
<1>10. QED
  BY <1>1, <1>2, <1>3, <1>4, <1>5, <1>6, <1>7, <1>8, <1>9 DEF FetchNext

THEOREM FetchInvariance == FetchSpec => []FetchInv
<1>1. FetchInv /\ [FetchNext]_fetchVars => FetchInv'
  BY FetchStepLemma
<1>2. QED
  BY <1>1, InitLemma, PTL DEF FetchSpec

(* Every front-end register and the port keep their types.                 *)
THEOREM FetchTypeCorrect == FetchSpec => []FetchTypeOK
<1>1. FetchInv => FetchTypeOK
  BY DEF FetchInv
<1>2. QED
  BY <1>1, FetchInvariance, PTL

(* The instruction executed is the one in memory at PC, for any memory,    *)
(* any placement of 16- and 32-bit instructions, any control flow, any     *)
(* memory latency and resets at any time (attorv32.v:792-815, 880-945).    *)
THEOREM FetchIsCorrect == FetchSpec => []FetchCorrect
<1>1. FetchInv => FetchCorrect
  BY DEF FetchInv
<1>2. QED
  BY <1>1, FetchInvariance, PTL

(* The front end strobes only an idle bus (attorv32.v:842-843, 938-941).   *)
THEOREM FetchBusDiscipline == FetchSpec => []StrobeOnlyWhenIdle
<1>1. FetchInv => StrobeOnlyWhenIdle
  BY DEF FetchInv, NeverBusy, BusInv, StrobeOnlyWhenIdle
<1>2. QED
  BY <1>1, FetchInvariance, PTL

----------------------------------------------------------------------------
(* Lemmas on the next values.                                              *)

(* PC_new is always an address.                                            *)
LEMMA NextPCLemma ==
  ASSUME CoreTypeOK, NEW t \in PC_new
  PROVE  t \in Addr
<1>1. PCinc \in Addr
  BY AddressLemma DEF PCinc, After, CoreTypeOK, FetchTypeOK
<1>2. Target[instr.first] \subseteq Addr
  BY CoreAssumption DEF CoreTypeOK, FetchTypeOK, Instr
<1>3. mepc \in Addr
  BY DEF CoreTypeOK
<1>4. PC_new \subseteq Addr
  BY <1>1, <1>2, <1>3 DEF PC_new
<1>5. QED
  BY <1>4

(* The data port does what the front end expects of S_EXECUTE.             *)
LEMMA DataPortLemma ==
  ASSUME CoreTypeOK, DataPort
  PROVE  NoAccess \/ (op \in {"load", "store"} /\ DataAccess)
<1>1. instr.first \in Parcels /\ Target[instr.first] \subseteq Addr
  BY CoreAssumption DEF CoreTypeOK, FetchTypeOK, Instr
<1>2. CASE op = "load"
  <2>1. PICK a \in Target[instr.first] : NoWrite /\ Read(a.word)
    BY <1>2 DEF DataPort
  <2>2. a.word \in WAddr
    BY <1>1, <2>1 DEF Addr
  <2>3. QED
    BY <1>2, <2>1, <2>2 DEF DataAccess
<1>3. CASE op = "store"
  <2>1. PICK a \in Target[instr.first], d \in StoreData : NoRead /\ Write(a.word, d)
    BY <1>3 DEF DataPort
  <2>2. a.word \in StoreWords
    BY <1>1, <1>3, <2>1, CoreAssumption DEF op
  <2>3. QED
    BY <1>3, <2>1, <2>2 DEF DataAccess
<1>4. CASE op \notin {"load", "store"}
  BY <1>4 DEF DataPort
<1>5. QED
  BY <1>2, <1>3, <1>4

(* The clocked CSRs keep their types.                                      *)
LEMMA CsrsLemma ==
  ASSUME CoreTypeOK, NEW t \in PC_new, Csrs(t)
  PROVE  /\ mepc' \in Addr
         /\ mstatus' \in BOOLEAN
         /\ mcause' \in BOOLEAN /\ mcause_irq' \in BOOLEAN
         /\ mcause_ecall' \in BOOLEAN /\ mcause_nmi' \in BOOLEAN
         /\ dbg_halt_mask' \in BOOLEAN
<1>1. mstatus' \in BOOLEAN
  BY DEF Csrs, next_mstatus, CoreTypeOK
<1>2. mepc' \in Addr
  <2>1. t \in Addr /\ PC \in Addr /\ mepc \in Addr
    BY NextPCLemma DEF CoreTypeOK, FetchTypeOK
  <2>2. Target[instr.first] \subseteq Addr
    BY CoreAssumption DEF CoreTypeOK, FetchTypeOK, Instr
  <2>3. QED
    BY <2>1, <2>2 DEF Csrs, next_mepc
<1>3. dbg_halt_mask' \in BOOLEAN
  BY DEF Csrs, next_mask
<1>4. mcause' \in BOOLEAN /\ mcause_irq' \in BOOLEAN
      /\ mcause_ecall' \in BOOLEAN /\ mcause_nmi' \in BOOLEAN
  <2>1. CASE trap_entry
    BY <2>1 DEF Csrs, interrupt_accepted, nmi_accepted
  <2>2. CASE ~trap_entry
    BY <2>2 DEF Csrs, CoreTypeOK
  <2>3. QED
    BY <2>1, <2>2
<1>5. QED
  BY <1>1, <1>2, <1>3, <1>4

----------------------------------------------------------------------------
(* The inductive invariant.                                                *)

(* How often the instruction has been counted, in each state of its life:  *)
(* a pulse before S_WAIT is the one of an IRQ that met the instruction.    *)
CountInv ==
  /\ state \in {"FETCH_RS2", "EXECUTE"} => retired = 0 /\ ~overlap
  /\ state = "WAIT" => retired = IF overlap THEN 1 ELSE 0
  /\ RetiredExactly

CoreInv == CoreTypeOK /\ NeverBusy /\ MaskImpliesLocked /\ CountInv

(* The registers outside the front end keep their types.                   *)
LEMMA CoreTypeLemma ==
  ASSUME CoreTypeOK, Next
  PROVE  /\ lines' \subseteq Sources
         /\ alu_busy' \in BOOLEAN /\ rd_ok' \in BOOLEAN
         /\ cut' \in BOOLEAN /\ nested' \in BOOLEAN
         /\ latched' \in BOOLEAN /\ overlap' \in BOOLEAN
<1>1. lines' \subseteq Sources
  BY DEF Next, Tick, Fetch, AwaitInstr, LatchInstr, ReadRs2, Fetching, Sleep, TakeTrap,
         Complete, Starts, WaitOn, WaitDone, InWait, Reset, Requests
<1>2. alu_busy' \in BOOLEAN
  BY DEF Next, Tick, Fetch, AwaitInstr, LatchInstr, ReadRs2, Fetching, Sleep, TakeTrap,
         Complete, Starts, WaitOn, WaitDone, InWait, Reset, AluStart, AluRuns
<1>3. ASSUME WriteBackExecute \/ WriteBackWait PROVE rd_ok' \in BOOLEAN
  BY <1>3 DEF WriteBackExecute, WriteBackWait, CoreTypeOK, FetchTypeOK
<1>4. cut' \in BOOLEAN /\ nested' \in BOOLEAN
  BY DEF Next, Tick, Fetch, AwaitInstr, LatchInstr, ReadRs2, Fetching, Sleep, TakeTrap,
         Complete, WaitOn, WaitDone, InWait, Reset, harmVars, CoreTypeOK
<1>8. latched' \in BOOLEAN /\ overlap' \in BOOLEAN
  <2>1. latched \in BOOLEAN /\ overlap \in BOOLEAN /\ TrapWaits \in BOOLEAN
    BY DEF CoreTypeOK, TrapWaits, needToWait
  <2>2. CASE Fetch \/ AwaitInstr \/ LatchInstr \/ ReadRs2 \/ Sleep
    BY <2>1, <2>2 DEF Fetch, AwaitInstr, LatchInstr, ReadRs2, Sleep, countVars
  <2>3. CASE TakeTrap \/ Complete
    BY <2>1, <2>3 DEF TakeTrap, Complete, Starts
  <2>4. CASE WaitOn \/ WaitDone \/ Reset
    BY <2>1, <2>4 DEF WaitOn, WaitDone, InWait, Reset
  <2>5. QED
    BY <2>2, <2>3, <2>4 DEF Next, Tick
<1>5. CASE Fetch \/ AwaitInstr \/ LatchInstr \/ ReadRs2 \/ Sleep \/ Reset
  BY <1>1, <1>2, <1>4, <1>5, <1>8 DEF Fetch, AwaitInstr, LatchInstr, ReadRs2, Fetching,
                                      Sleep, Reset, CoreTypeOK
<1>6. CASE TakeTrap \/ Complete \/ WaitOn \/ WaitDone
  BY <1>1, <1>2, <1>3, <1>4, <1>6, <1>8
  DEF TakeTrap, Complete, Starts, WaitOn, WaitDone, InWait
<1>7. QED
  BY <1>5, <1>6 DEF Next, Tick

(* What the actions are to the front end.                                  *)
LEMMA FrontLemma ==
  ASSUME CoreTypeOK, Next
  PROVE  \/ FetchInstr \/ InstrBusy \/ InstrAnswered \/ FetchRs2 \/ Stall \/ AnyWait
         \/ /\ TakeTrap \/ Complete \/ Reset
            /\ NoAccess \/ DataAccess
            /\ ResetFront \/ \E wait \in BOOLEAN, t \in Addr : GoOn(t, wait) \/ Vector(t, wait)
<1>1. CASE Fetch \/ AwaitInstr \/ LatchInstr \/ ReadRs2
  BY <1>1 DEF Fetch, AwaitInstr, LatchInstr, ReadRs2
<1>2. CASE Sleep \/ WaitOn
  BY <1>2 DEF Sleep, wfi_stall, WaitOn, InWait, Stall
<1>3. CASE WaitDone
  BY <1>3 DEF WaitDone, InWait, AnyWait
<1>4. CASE TakeTrap
  <2>1. NoAccess \/ DataAccess
    BY <1>4, DataPortLemma DEF TakeTrap, Starts
  <2>2. TrapWaits \in BOOLEAN /\ MTVEC \in Addr
    BY CoreAssumption DEF TrapWaits, needToWait
  <2>3. QED
    BY <1>4, <2>1, <2>2 DEF TakeTrap
<1>5. CASE Complete
  <2>1. NoAccess \/ DataAccess
    BY <1>5, DataPortLemma DEF Complete, Starts
  <2>2. PICK t \in PC_new : GoOn(t, needToWait)
    BY <1>5 DEF Complete
  <2>3. needToWait \in BOOLEAN /\ t \in Addr
    BY NextPCLemma DEF needToWait
  <2>4. QED
    BY <1>5, <2>1, <2>2, <2>3
<1>6. CASE Reset
  <2>1. mem_addr \in WAddr
    BY AddressLemma DEF mem_addr, CoreTypeOK, FetchTypeOK, Addr
  <2>2. NoAccess \/ DataAccess
    BY <1>6, <2>1, DataPortLemma DEF Reset, DataAccess
  <2>3. QED
    BY <1>6, <2>2 DEF Reset
<1>7. QED
  BY <1>1, <1>2, <1>3, <1>4, <1>5, <1>6 DEF Next, Tick

LEMMA CoreInitLemma == Init => CoreInv
<1> SUFFICES ASSUME Init PROVE CoreInv
  OBVIOUS
<1>1. FetchTypeOK /\ state = "WAIT"
  BY InitLemma DEF Init, FetchInv, FetchInit
<1>2. PC \in Addr /\ MTVEC \in Addr
  BY <1>1, CoreAssumption DEF FetchTypeOK
<1>3. CoreTypeOK
  <2>1. mepc \in Addr /\ lines \subseteq Sources /\ retired \in 0 .. 2
    BY <1>2 DEF Init
  <2>2. /\ mstatus \in BOOLEAN /\ mcause \in BOOLEAN /\ mcause_irq \in BOOLEAN
        /\ mcause_ecall \in BOOLEAN /\ mcause_nmi \in BOOLEAN
        /\ dbg_halt_mask \in BOOLEAN /\ alu_busy \in BOOLEAN /\ rd_ok \in BOOLEAN
        /\ cut \in BOOLEAN /\ nested \in BOOLEAN
        /\ latched \in BOOLEAN /\ overlap \in BOOLEAN
    BY DEF Init
  <2>3. QED
    BY <1>1, <2>1, <2>2 DEF CoreTypeOK
<1>4. NeverBusy
  BY DEF Init, FetchInit, NeverBusy
<1>5. QED
  BY <1>1, <1>3, <1>4 DEF Init, CoreInv, MaskImpliesLocked, CountInv, RetiredExactly

(* The trap CSRs, in every step.                                           *)
LEMMA CsrStepLemma ==
  ASSUME CoreInv, Next
  PROVE  /\ mepc' \in Addr
         /\ mstatus' \in BOOLEAN
         /\ mcause' \in BOOLEAN /\ mcause_irq' \in BOOLEAN
         /\ mcause_ecall' \in BOOLEAN /\ mcause_nmi' \in BOOLEAN
         /\ dbg_halt_mask' \in BOOLEAN
         /\ MaskImpliesLocked'
<1> USE DEF CoreInv
<1>1. CASE UNCHANGED csrVars
  BY <1>1 DEF csrVars, CoreTypeOK, MaskImpliesLocked
<1>2. CASE TakeTrap \/ Complete
  <2>1. PICK t \in PC_new : Csrs(t)
    BY <1>2 DEF TakeTrap, Complete
  <2>2. MaskImpliesLocked'
    BY <2>1 DEF Csrs, next_mask, trap_entry, async_accepted, MaskImpliesLocked
  <2>3. QED
    BY <2>1, <2>2, CsrsLemma
<1>3. CASE Reset
  <2>1. mepc' \in Addr
    <3>1. PC \in Addr /\ mepc \in Addr /\ Target[instr.first] \subseteq Addr
      BY CoreAssumption DEF CoreTypeOK, FetchTypeOK, Instr
    <3>2. \A t \in PC_new : next_mepc(t) \subseteq Addr
      BY <3>1, NextPCLemma DEF next_mepc
    <3>3. QED
      BY <1>3, <3>1, <3>2 DEF Reset
  <2>2. QED
    BY <1>3, <2>1 DEF Reset, MaskImpliesLocked
<1>4. QED
  BY <1>1, <1>2, <1>3 DEF Next, Tick, Fetch, AwaitInstr, LatchInstr, ReadRs2, Fetching,
                          Sleep, WaitOn, WaitDone, InWait

(* The instret pulses, in every step.                                      *)
LEMMA CountLemma ==
  ASSUME CoreInv, Next
  PROVE  retired' \in 0 .. 2 /\ CountInv'
<1> USE DEF CoreInv, CountInv, RetiredExactly
<1>0. retired \in 0 .. 2 /\ overlap \in BOOLEAN /\ state \in States
  BY DEF CoreTypeOK, FetchTypeOK
<1>1. CASE Fetch \/ AwaitInstr
  BY <1>0, <1>1 DEF Fetch, FetchInstr, AwaitInstr, InstrBusy, frontVars, countVars
<1>2. CASE LatchInstr
  <2>1. state = "WAIT_INSTR" /\ state' \in {"FETCH_INSTR", "FETCH_RS2", "EXECUTE"}
    BY <1>2 DEF LatchInstr, InstrAnswered, AfterFetch
  <2>2. QED
    BY <1>0, <1>2, <2>1 DEF LatchInstr, countVars
<1>3. CASE ReadRs2
  BY <1>0, <1>3 DEF ReadRs2, FetchRs2, countVars
<1>4. CASE Sleep
  BY <1>0, <1>4 DEF Sleep, frontVars, countVars
<1>5. CASE TakeTrap
  <2>1. state = "EXECUTE" /\ retired = 0 /\ ~overlap /\ trap_entry /\ ~wfi_stall
    BY <1>5 DEF TakeTrap
  <2>2. retired' = 1
    BY <1>5, <2>1 DEF TakeTrap, Starts, Count, instr_retired
  <2>3. overlap' = TrapWaits /\ state' = IF TrapWaits THEN "WAIT" ELSE "FETCH_INSTR"
    BY <1>5, <2>1 DEF TakeTrap, Vector, TrapWaits, needToWait
  <2>4. QED
    BY <2>2, <2>3
<1>6. CASE Complete
  <2>1. /\ state = "EXECUTE" /\ retired = 0 /\ ~overlap /\ ~overlap'
        /\ ~trap_entry /\ ~wfi_stall
    BY <1>6 DEF Complete
  <2>2. retired' = IF needToWait THEN 0 ELSE 1
    BY <1>6, <2>1 DEF Complete, Starts, Count, instr_retired
  <2>3. state' \in IF needToWait THEN {"WAIT"} ELSE {"WAIT_INSTR", "FETCH_INSTR"}
    BY <1>6 DEF Complete, GoOn
  <2>4. QED
    BY <2>1, <2>2, <2>3
<1>7. CASE WaitOn
  BY <1>0, <1>7 DEF WaitOn, InWait, Count, instr_retired, frontVars
<1>8. CASE WaitDone
  BY <1>0, <1>8 DEF WaitDone, InWait, Count, instr_retired, LeaveWait
<1>9. CASE Reset
  BY <1>9 DEF Reset, ResetFront
<1>10. QED
  BY <1>1, <1>2, <1>3, <1>4, <1>5, <1>6, <1>7, <1>8, <1>9 DEF Next, Tick

(* The invariant is inductive.                                             *)
THEOREM CoreInvariance == Spec => []CoreInv
<1>1. CoreInv /\ [Next]_coreVars => CoreInv'
  <2> SUFFICES ASSUME CoreInv, [Next]_coreVars PROVE CoreInv'
    OBVIOUS
  <2>1. CASE Next
    <3>1. FetchTypeOK'
      BY <2>1, FrontLemma, TypeLemma DEF CoreInv, CoreTypeOK
    <3>2. CoreTypeOK'
      BY <2>1, <3>1, CoreTypeLemma, CsrStepLemma, CountLemma DEF CoreInv, CoreTypeOK
    <3>3. NoAccess \/ DataAccess
      BY <2>1, FrontLemma, AccessLemma DEF CoreInv, CoreTypeOK
    <3>4. NeverBusy'
      BY <3>3, DataAccessLemma DEF CoreInv, CoreTypeOK, NeverBusy
    <3>5. QED
      BY <2>1, <3>2, <3>4, CsrStepLemma, CountLemma DEF CoreInv
  <2>2. CASE UNCHANGED coreVars
    BY <2>2 DEF coreVars, fetchVars, frontVars, readVars, csrVars, countVars, harmVars, CoreInv,
                CoreTypeOK, FetchTypeOK, NeverBusy, MaskImpliesLocked, CountInv, RetiredExactly
  <2>3. QED
    BY <2>1, <2>2
<1>2. QED
  BY <1>1, CoreInitLemma, PTL DEF Spec

----------------------------------------------------------------------------
(* The theorems.                                                           *)

(* The core's registers keep their types.                                  *)
THEOREM CoreTypeCorrect == Spec => []CoreTypeOK
<1>1. CoreInv => CoreTypeOK
  BY DEF CoreInv
<1>2. QED
  BY <1>1, CoreInvariance, PTL

(* Debug requests are masked only with the handler lock held, for every     *)
(* program and every order of requests (attorv32.v:712-737).               *)
THEOREM MaskIsLocked == Spec => []MaskImpliesLocked
<1>1. CoreInv => MaskImpliesLocked
  BY DEF CoreInv
<1>2. QED
  BY <1>1, CoreInvariance, PTL

(* instret counts every instruction exactly once, and twice exactly when    *)
(* an IRQ meets one that waits, for every program, order of requests and   *)
(* length of the waits (attorv32.v:626-638).                               *)
THEOREM CountedExactly == Spec => []RetiredExactly
<1>1. CoreInv => RetiredExactly
  BY DEF CoreInv, CountInv
<1>2. QED
  BY <1>1, CoreInvariance, PTL

----------------------------------------------------------------------------
(* The core implements the front end, until an NMI or a debug halt cuts an  *)
(* access short.                                                           *)

(* An access that may take wait states sends the core to S_WAIT.           *)
LEMMA ExecuteLemma ==
  ASSUME CoreTypeOK, ~cut', TakeTrap \/ Complete
  PROVE  AnyExecute
<1>1. NoAccess \/ (op \in {"load", "store"} /\ DataAccess)
  BY DataPortLemma DEF TakeTrap, Complete, Starts
<1>2. state = "EXECUTE"
  BY DEF TakeTrap, Complete
<1>3. CASE TakeTrap
  <2>1. Vector(MTVEC, TrapWaits) /\ MTVEC \in Addr /\ TrapWaits \in BOOLEAN
    BY <1>3, CoreAssumption DEF TakeTrap, TrapWaits, needToWait
  <2>2. needToWait => interrupt_accepted
    BY <1>3 DEF TakeTrap
  <2>3. op \in {"load", "store"} => state' = "WAIT"
    BY <2>1, <2>2 DEF Vector, TrapWaits, needToWait
  <2>4. QED
    BY <1>1, <1>2, <2>1, <2>3 DEF AnyExecute
<1>4. CASE Complete
  <2>1. PICK t \in PC_new : GoOn(t, needToWait)
    BY <1>4 DEF Complete
  <2>2. t \in Addr /\ needToWait \in BOOLEAN
    BY NextPCLemma DEF needToWait
  <2>3. op \in {"load", "store"} => state' = "WAIT"
    BY <2>1 DEF GoOn, needToWait
  <2>4. QED
    BY <1>1, <1>2, <2>1, <2>2, <2>3 DEF AnyExecute
<1>5. QED
  BY <1>3, <1>4

(* A reset of the core is a reset of the front end.                        *)
LEMMA ResetLemma ==
  ASSUME CoreTypeOK, Reset
  PROVE  AnyReset
<1>1. CASE state = "EXECUTE"
  BY <1>1, DataPortLemma DEF Reset, AnyReset
<1>2. CASE state # "EXECUTE"
  BY <1>2 DEF Reset, AnyReset
<1>3. QED
  BY <1>1, <1>2

(* Every step of the core is a step of the front end or leaves it alone.    *)
LEMMA StepLemma ==
  ASSUME CoreTypeOK, ~cut', [Next]_coreVars
  PROVE  [FetchNext]_fetchVars
<1>1. CASE Fetch \/ AwaitInstr \/ LatchInstr \/ ReadRs2
  BY <1>1 DEF Fetch, AwaitInstr, LatchInstr, ReadRs2, FetchNext
<1>2. CASE Sleep \/ WaitOn
  BY <1>2 DEF Sleep, wfi_stall, WaitOn, InWait, Stall, FetchNext
<1>3. CASE WaitDone
  BY <1>3 DEF WaitDone, InWait, AnyWait, FetchNext
<1>4. CASE TakeTrap \/ Complete
  BY <1>4, ExecuteLemma DEF FetchNext
<1>5. CASE Reset
  BY <1>5, ResetLemma DEF FetchNext
<1>6. CASE UNCHANGED coreVars
  BY <1>6 DEF coreVars
<1>7. QED
  BY <1>1, <1>2, <1>3, <1>4, <1>5, <1>6 DEF Next, Tick

(* The core implements AttoFetch's specification (attorv32.v:870-948).     *)
THEOREM CoreImplementsFetch == Spec => ImplementsFetch
<1>1. Init => FetchInit
  BY DEF Init
<1>2. CoreTypeOK /\ [Next]_coreVars => [~cut' => FetchNext]_fetchVars
  BY StepLemma
<1>3. QED
  BY <1>1, <1>2, CoreTypeCorrect, PTL DEF Spec, ImplementsFetch

(* Without an NMI or debug input, or when neither arrives on a load, a      *)
(* store or a multi-cycle instruction, the core executes what memory holds *)
(* at PC and never strobes a busy bus, for every program.                  *)
THEOREM CoreFetchIntact == Spec => []FetchIntact
<1> DEFINE Inv == CoreInv /\ (~cut => FetchInv)
<1>1. Init => Inv
  BY CoreInitLemma, InitLemma DEF Init
<1>2. ASSUME Inv, CoreInv', [Next]_coreVars PROVE Inv'
  <2>1. CASE Reset
    BY <1>2, <2>1, ResetLemma, AnyResetLemma DEF CoreInv, CoreTypeOK
  <2>2. ASSUME ~Reset, ~cut' PROVE FetchInv'
    <3>1. ~cut
      BY <1>2, <2>2 DEF Next, Tick, Fetch, AwaitInstr, LatchInstr, ReadRs2, Fetching, Sleep,
                        TakeTrap, Complete, WaitOn, WaitDone, InWait, harmVars, coreVars
    <3>2. [FetchNext]_fetchVars
      BY <1>2, <2>2, StepLemma DEF CoreInv
    <3>3. QED
      BY <1>2, <3>1, <3>2, FetchStepLemma
  <2>3. QED
    BY <1>2, <2>1, <2>2
<1>3. Inv => FetchIntact
  BY DEF FetchInv, BusInv, FetchIntact, StrobeOnlyWhenIdle
<1>4. QED
  BY <1>1, <1>2, <1>3, CoreInvariance, PTL DEF Spec

----------------------------------------------------------------------------
(* Results.                                                                *)

(* Until then, too, every result is in its register before the next        *)
(* instruction is fetched (attorv32.v:839-860, 919-941).                    *)
THEOREM ResultsCommitted == Spec => []ResultCommitted
<1>1. ASSUME ResultCommitted, [Next]_coreVars PROVE ResultCommitted'
  <2> USE <1>1 DEF ResultCommitted
  <2>1. CASE Fetch \/ AwaitInstr \/ LatchInstr \/ ReadRs2
    BY <2>1 DEF Fetch, AwaitInstr, LatchInstr, ReadRs2, Fetching, FetchInstr,
                InstrBusy, InstrAnswered, FetchRs2, harmVars
  <2>2. CASE Sleep
    BY <2>2 DEF Sleep, wfi_stall, harmVars
  <2>3. CASE TakeTrap
    BY <2>3 DEF TakeTrap, Vector, TrapWaits, Starts, WriteBackExecute, needToWait
  <2>4. CASE Complete
    BY <2>4 DEF Complete, GoOn, Starts, WriteBackExecute, needToWait
  <2>5. CASE WaitOn
    BY <2>5 DEF WaitOn, frontVars
  <2>6. CASE WaitDone
    BY <2>6 DEF WaitDone, InWait, WriteBackWait, waiting
  <2>7. CASE Reset
    BY <2>7 DEF Reset, ResetFront
  <2>8. CASE UNCHANGED coreVars
    BY <2>8 DEF coreVars, fetchVars, frontVars, harmVars
  <2>9. QED
    BY <2>1, <2>2, <2>3, <2>4, <2>5, <2>6, <2>7, <2>8 DEF Next, Tick
<1>2. Init => ResultCommitted
  BY DEF Init, FetchInit, ResultCommitted
<1>3. QED
  BY <1>1, <1>2, PTL DEF Spec

----------------------------------------------------------------------------
(* The handler lock.                                                       *)

(* The words that no instruction stores to stay as they are.               *)
LEMMA ConstantWords ==
  ASSUME CoreTypeOK, [Next]_coreVars, NEW w \in WAddr \ StoreWords
  PROVE  mem'[w] = mem[w]
<1>1. mem \in [WAddr -> Word]
  BY DEF CoreTypeOK, FetchTypeOK
<1>2. ASSUME NEW v \in WAddr, Read(v), NoWrite PROVE mem' = mem
  BY <1>2 DEF NoWrite
<1>3. ASSUME NoAccess PROVE mem' = mem
  BY <1>3 DEF NoAccess, NoWrite
<1>4. DataAccess => mem'[w] = mem[w]
  BY <1>1 DEF DataAccess, Write, NoWrite
<1>5. DataPort => mem'[w] = mem[w]
  BY <1>3, <1>4, DataPortLemma
<1>6. CASE Fetch \/ AwaitInstr \/ LatchInstr \/ ReadRs2
  BY <1>3, <1>6 DEF Fetch, AwaitInstr, LatchInstr, ReadRs2, FetchInstr, InstrBusy,
                    InstrAnswered, FetchRs2, NoWrite
<1>7. CASE Sleep \/ WaitOn \/ WaitDone
  BY <1>3, <1>7 DEF Sleep, WaitOn, WaitDone, InWait
<1>8. CASE TakeTrap \/ Complete
  BY <1>5, <1>8 DEF TakeTrap, Complete, Starts
<1>9. CASE Reset
  BY <1>3, <1>5, <1>9 DEF Reset, NoWrite
<1>10. CASE UNCHANGED coreVars
  BY <1>10 DEF coreVars, fetchVars
<1>11. QED
  BY <1>6, <1>7, <1>8, <1>9, <1>10 DEF Next, Tick

(* In the handler the lock is held, and mepc is back in main.              *)
LockIn(Code) ==
  ~cut /\ ~nested =>
    PC \in Code /\ (PC \in HandlerCode => mcause /\ mepc \in Code \ HandlerCode)

Agrees(m) == \A w \in WAddr \ StoreWords : mem[w] = m[w]

LockInv == \E m \in Images, Code \in SUBSET Addr : Apart(m, Code) /\ Agrees(m) /\ LockIn(Code)

(* What is executed is what the program has at PC.                         *)
LEMMA ExecutedLemma ==
  ASSUME CoreTypeOK, FetchIntact, NEW m, Agrees(m), ~cut, state = "EXECUTE", Stable(PC)
  PROVE  instr = InstrIn(m, PC)
<1>1. instr = InstrIn(mem, PC)
  BY DEF FetchIntact, FetchCorrect, InstrAt
<1>2. PC \in Addr /\ Plus2(PC) \in Addr
  BY AddressLemma DEF CoreTypeOK, FetchTypeOK
<1>3. PC.word \in WAddr \ StoreWords /\ Plus2(PC).word \in WAddr \ StoreWords
  BY <1>2 DEF Stable, Addr
<1>4. mem[PC.word] = m[PC.word] /\ mem[Plus2(PC).word] = m[Plus2(PC).word]
  BY <1>3 DEF Agrees
<1>5. QED
  BY <1>1, <1>4 DEF InstrIn

(* No instruction leads into the handler, only its MRET leads out of it,   *)
(* and no trap comes in it but a debug halt.                               *)
LEMMA LockStep ==
  ASSUME CoreTypeOK, FetchIntact, NEW m, NEW Code \in SUBSET Addr, Apart(m, Code), Agrees(m),
         LockIn(Code), [Next]_coreVars
  PROVE  LockIn(Code)'
<1>1. CASE UNCHANGED << PC, mcause, mepc, harmVars >>
  BY <1>1 DEF LockIn, harmVars
<1>2. CASE Reset
  BY <1>2 DEF Reset, ResetFront, LockIn, Apart
<1>3. ASSUME TakeTrap \/ Complete, ~cut', ~nested'
      PROVE  PC' \in Code /\ (PC' \in HandlerCode => mcause' /\ mepc' \in Code \ HandlerCode)
  <2> DEFINE Side == IF PC \in HandlerCode THEN Code \cap HandlerCode ELSE Code \ HandlerCode
  <2>1. ~cut /\ ~nested /\ state = "EXECUTE"
    <3>1. CASE TakeTrap
      <4>1. (~cut' => ~cut) /\ (~nested' => ~nested)
        BY <3>1, Zenon DEF TakeTrap
      <4>2. QED
        BY <1>3, <3>1, <4>1 DEF TakeTrap
    <3>2. CASE Complete
      BY <1>3, <3>2 DEF Complete, harmVars
    <3>3. QED
      BY <1>3, <3>1, <3>2
  <2>2. PC \in Code /\ (PC \in HandlerCode => mcause /\ mepc \in Code \ HandlerCode)
    BY <2>1 DEF LockIn
  <2>3. instr = InstrIn(m, PC)
    BY <2>1, <2>2, ExecutedLemma DEF Apart
  <2>4. /\ op \notin {"jump", "mret"} => PCinc \in Side
        /\ op \in {"jump", "branch"} => Target[instr.first] \subseteq Side
        /\ op = "mret" => PC \in HandlerCode
        /\ op = "csrw_mepc" /\ PC \in HandlerCode =>
             Target[instr.first] \subseteq Code \ HandlerCode
    BY <2>2, <2>3 DEF Apart, op, PCinc
  <2>5. ASSUME NEW t \in PC_new
        PROVE  IF op = "mret" THEN t = mepc ELSE t \in Side
    BY <2>4, <2>5 DEF PC_new
  <2>6. CASE TakeTrap
    <3>1. PC \notin HandlerCode
      BY <1>3, <2>2, <2>6 DEF TakeTrap, trap_entry, async_accepted, interrupt_accepted,
                              nmi_accepted, env_trap_accepted
    <3>2. PC' = MTVEC /\ MTVEC \in Code
      BY <2>6 DEF TakeTrap, Vector, Apart
    <3>3. PICK t \in PC_new : Csrs(t)
      BY <2>6 DEF TakeTrap
    <3>4. trap_entry
      BY <2>6 DEF TakeTrap
    <3>5. mcause' /\ mepc' \in {t, PC}
      BY <3>3, <3>4 DEF Csrs, next_mepc
    <3>6. t \in Code \ HandlerCode
      BY <2>4, <2>5, <3>1
    <3>7. QED
      BY <2>2, <3>1, <3>2, <3>5, <3>6
  <2>7. CASE Complete
    <3>1. PICK t \in PC_new : GoOn(t, needToWait) /\ Csrs(t)
      BY <2>7 DEF Complete
    <3>2. PC' = t /\ ~trap_entry
      BY <2>7, <3>1 DEF Complete, GoOn
    <3>3. CASE op = "mret"
      BY <2>2, <2>4, <2>5, <3>2, <3>3
    <3>4. CASE op # "mret"
      <4>1. t \in Side
        BY <2>5, <3>4
      <4>2. CASE PC \in HandlerCode
        <5>1. mcause' = mcause
          BY <2>2, <3>1, <3>2, <3>4, <4>2 DEF Csrs
        <5>2. mepc' \in Code \ HandlerCode
          BY <2>2, <2>4, <3>1, <3>2, <4>2 DEF Csrs, next_mepc
        <5>3. QED
          BY <2>2, <3>2, <4>1, <4>2, <5>1, <5>2
      <4>3. CASE PC \notin HandlerCode
        BY <3>2, <4>1, <4>3
      <4>4. QED
        BY <4>2, <4>3
    <3>5. QED
      BY <3>3, <3>4
  <2>8. QED
    BY <1>3, <2>6, <2>7
<1>4. CASE TakeTrap \/ Complete
  BY <1>3, <1>4 DEF LockIn
<1>5. CASE Tick /\ ~(TakeTrap \/ Complete)
  <2>1. UNCHANGED << PC, mcause, mepc, harmVars >>
    BY <1>5 DEF Tick, Fetch, AwaitInstr, LatchInstr, ReadRs2, Fetching, FetchInstr, InstrBusy,
                InstrAnswered, FetchRs2, Sleep, WaitOn, WaitDone, InWait, LeaveWait,
                frontVars, csrVars, harmVars
  <2>2. QED
    BY <1>1, <2>1
<1>6. CASE UNCHANGED coreVars
  BY <1>1, <1>6 DEF coreVars, fetchVars, frontVars, csrVars
<1>7. QED
  BY <1>2, <1>4, <1>5, <1>6 DEF Next

(* The handler cannot be entered again before its MRET                     *)
(* (attorv32.v:617-636), for every program that keeps main and handler     *)
(* apart, unless a debug halt comes in it.                                 *)
THEOREM HandlerIsLocked == ASSUME HandlerApart PROVE Spec => []LockedInHandler
<1>1. Init => LockInv
  <2> SUFFICES ASSUME Init PROVE LockInv
    OBVIOUS
  <2>1. mem \in Images /\ PC = [word |-> 0, half |-> 0]
    BY DEF Init, FetchInit
  <2>2. PICK Code \in SUBSET Addr : Apart(mem, Code)
    BY <2>1 DEF HandlerApart
  <2>3. LockIn(Code)
    BY <2>1, <2>2 DEF LockIn, Apart
  <2>4. QED
    BY <2>1, <2>2, <2>3 DEF LockInv, Agrees
<1>2. ASSUME LockInv, CoreTypeOK, FetchIntact, [Next]_coreVars PROVE LockInv'
  <2>1. PICK m \in Images, Code \in SUBSET Addr : Apart(m, Code) /\ Agrees(m) /\ LockIn(Code)
    BY <1>2 DEF LockInv
  <2>2. Agrees(m)'
    BY <1>2, <2>1, ConstantWords DEF Agrees
  <2>3. LockIn(Code)'
    BY <1>2, <2>1, LockStep
  <2>4. QED
    BY <2>1, <2>2, <2>3 DEF LockInv
<1>3. LockInv => LockedInHandler
  BY DEF LockInv, LockIn, LockedInHandler
<1>4. QED
  BY <1>1, <1>2, <1>3, CoreTypeCorrect, CoreFetchIntact, PTL DEF Spec

----------------------------------------------------------------------------
(* The state of a trap.                                                    *)

(* The cause and the return address of a trap survive until its MRET        *)
(* (attorv32.v:695-726).                                                   *)
THEOREM TrapStateKept == Spec => TrapStateSurvives
<1>1. ASSUME [Next]_coreVars, mcause, mcause', ~nested'
      PROVE  /\ mcause_read' = mcause_read
             /\ mepc' = mepc \/ op = "csrw_mepc"
  <2>1. CASE UNCHANGED csrVars
    BY <2>1 DEF csrVars, mcause_read
  <2>2. CASE Complete
    <3>1. ~trap_entry
      BY <2>2 DEF Complete
    <3>2. UNCHANGED << mcause, mcause_irq, mcause_ecall, mcause_nmi >>
      BY <1>1, <2>2, <3>1 DEF Complete, Csrs
    <3>3. mepc' = mepc \/ op = "csrw_mepc"
      BY <2>2, <3>1 DEF Complete, Csrs, next_mepc
    <3>4. QED
      BY <3>2, <3>3 DEF mcause_read
  <2>3. ~TakeTrap
    <3>1. TakeTrap => dbg_halt_accepted
      BY <1>1 DEF TakeTrap, trap_entry, async_accepted, interrupt_accepted,
                  nmi_accepted, env_trap_accepted
    <3>2. QED
      BY <1>1, <3>1 DEF TakeTrap
  <2>4. ~Reset
    BY <1>1 DEF Reset
  <2>5. QED
    BY <1>1, <2>1, <2>2, <2>3, <2>4
       DEF Next, Tick, Fetch, AwaitInstr, LatchInstr, ReadRs2, Fetching, Sleep,
           WaitOn, WaitDone, InWait, coreVars
<1>2. [Next]_coreVars =>
        [mcause /\ mcause' => \/ nested'
                              \/ /\ mcause_read' = mcause_read
                                 /\ mepc' = mepc \/ op = "csrw_mepc"]_coreVars
  BY <1>1
<1>3. QED
  BY <1>2, PTL DEF Spec, TrapStateSurvives

----------------------------------------------------------------------------

(* The core of the SoC is the core: attorv32_dbg.v:68-86 adds nothing to   *)
(* u_core but what drives its inputs.                                      *)
THEOREM SocImplementsCore == SocSpec => Spec
<1>1. SocInit => Init
  BY DEF SocInit
<1>2. [SocNext]_socVars => [Next]_coreVars
  BY DEF SocNext, SocTick, SocReset, Next, socVars
<1>3. QED
  BY <1>1, <1>2, PTL DEF SocSpec, Spec

----------------------------------------------------------------------------
(* Types.                                                                  *)

(* A write of a register keeps the types of the registers.                 *)
LEMMA WriteRegLemma ==
  ASSUME SocTypeOK, NEW r \in Regs, WriteReg(r)
  PROVE  bp_addr' \in [Slots -> Addr] /\ bp_en' \subseteq Slots /\ bp_hit' \subseteq Slots
<1>1. match \subseteq Slots /\ BpTargets \subseteq Addr
  BY SocAssumption DEF match, SocTypeOK
<1>2. CASE r = "BP_CTRL"
  BY <1>1, <1>2, SocAssumption DEF WriteReg, SocTypeOK
<1>3. CASE r = "BP_HIT"
  BY <1>3, SocAssumption DEF WriteReg, SocTypeOK
<1>4. CASE r = "BP_COUNT"
  BY <1>1, <1>4, SocAssumption DEF WriteReg, Keep, SocTypeOK
<1>5. CASE r \in Slots
  BY <1>1, <1>5, SocAssumption DEF WriteReg, SocTypeOK
<1>6. QED
  BY <1>2, <1>3, <1>4, <1>5 DEF Regs

(* The unit, the break line and the history keep theirs.                   *)
LEMMA BkptTypeLemma ==
  ASSUME SocTypeOK, CoreTypeOK', [SocNext]_socVars
  PROVE  SocTypeOK'
<1>1. CASE SocTick
  <2>1. halt_req' \in BOOLEAN /\ uart_break' \in BOOLEAN
    BY <1>1 DEF SocTick, Halt, Break
  <2>2. match \subseteq Slots
    BY DEF match, SocTypeOK
  <2>3. CASE ~Accesses
    BY <1>1, <2>1, <2>2, <2>3 DEF SocTick, BkptAccess, Keep, ReadReg, rstrb, ReadsZero, SocTypeOK
  <2>4. CASE Accesses
    <3>1. PICK r \in RegsOf[instr.first] :
            \/ op = "store" /\ WriteReg(r) /\ reg' = "none" /\ UNCHANGED rd_right
            \/ op = "load" /\ Keep /\ reg' = r /\ ReadReg(r)
      BY <1>1, <2>4 DEF SocTick, BkptAccess
    <3>2. r \in Regs
      <4>1. instr.first \in Parcels
        BY DEF SocTypeOK, CoreTypeOK, FetchTypeOK, Instr
      <4>2. QED
        BY <3>1, <4>1, SocAssumption
    <3>3. CASE op = "store"
      BY <2>1, <3>1, <3>2, <3>3, WriteRegLemma DEF SocTypeOK
    <3>4. CASE op = "load"
      BY <2>1, <2>2, <3>1, <3>2, <3>4 DEF Keep, ReadReg, SocTypeOK
    <3>5. QED
      BY <3>1, <3>3, <3>4
  <2>5. QED
    BY <2>3, <2>4
<1>2. CASE SocReset
  <2>1. ResetAddr \in Addr
    BY FetchAssumption DEF ResetAddr, Addr, WAddr
  <2>2. QED
    BY <1>2, <2>1 DEF SocReset, BkptReset, BreakReset, SocTypeOK
<1>3. CASE UNCHANGED socVars
  BY <1>3 DEF socVars, bkptVars, SocTypeOK
<1>4. QED
  BY <1>1, <1>2, <1>3 DEF SocNext

(* Every register of the SoC's model keeps its type, for every program and *)
(* every set of breakpoint slots (hw_bkpt.v:98-127).                        *)
THEOREM SocTypeCorrect == SocSpec => []SocTypeOK
<1>1. CoreTypeOK /\ SocInit => SocTypeOK
  <2>1. ResetAddr \in Addr
    BY FetchAssumption DEF ResetAddr, Addr, WAddr
  <2>2. QED
    BY <2>1 DEF SocInit, SocTypeOK
<1>2. SocTypeOK /\ CoreTypeOK' /\ [SocNext]_socVars => SocTypeOK'
  BY BkptTypeLemma
<1>3. SocSpec => []CoreTypeOK
  BY SocImplementsCore, CoreTypeCorrect, PTL
<1>4. QED
  BY <1>1, <1>2, <1>3, PTL DEF SocSpec

----------------------------------------------------------------------------
(* Halt requests.                                                          *)

(* S_EXECUTE is entered from the fetch, which leaves PC and, since nothing *)
(* is stored, the breakpoints alone, or kept by a WFI that sleeps.          *)
LEMMA EnterExecuteLemma ==
  ASSUME Tick, state' = "EXECUTE"
  PROVE  UNCHANGED PC /\ (state # "EXECUTE" \/ op = "wfi")
<1>1. CASE Fetch \/ AwaitInstr \/ LatchInstr \/ ReadRs2
  BY <1>1 DEF Fetch, AwaitInstr, LatchInstr, ReadRs2, FetchInstr, InstrBusy, InstrAnswered,
              FetchRs2, frontVars
<1>2. CASE Sleep
  BY <1>2 DEF Sleep, wfi_stall, frontVars
<1>3. CASE TakeTrap \/ Complete
  BY <1>3 DEF TakeTrap, Complete, Vector, GoOn
<1>4. CASE WaitOn \/ WaitDone
  BY <1>4 DEF WaitOn, WaitDone, LeaveWait, frontVars
<1>5. QED
  BY <1>1, <1>2, <1>3, <1>4 DEF Tick

(* The registered halt request of the breakpoint unit meets exactly the    *)
(* instruction at an enabled breakpoint, whatever program moves the        *)
(* breakpoints while it runs through them (hw_bkpt.v:68-76, 111-112).       *)
THEOREM HaltMeetsBreakpoint == SocSpec => []HaltIsExact
<1>1. SocInit => HaltIsExact
  BY DEF SocInit, Init, FetchInit, HaltIsExact
<1>2. ASSUME HaltIsExact, [SocNext]_socVars PROVE HaltIsExact'
  <2>1. CASE SocTick /\ state' = "EXECUTE"
    <3>1. UNCHANGED PC /\ ~(state = "EXECUTE" /\ op \in {"load", "store"})
      BY <2>1, EnterExecuteLemma DEF SocTick
    <3>2. UNCHANGED << bp_addr, bp_en >>
      BY <2>1, <3>1 DEF SocTick, BkptAccess, Accesses, Keep
    <3>3. match' = match /\ halt_req' = (match # {})
      BY <2>1, <3>1, <3>2 DEF SocTick, Halt, match
    <3>4. QED
      BY <3>3 DEF HaltIsExact
  <2>2. CASE SocReset
    BY <2>2 DEF SocReset, Reset, ResetFront, HaltIsExact
  <2>3. CASE UNCHANGED socVars
    BY <1>2, <2>3 DEF socVars, coreVars, fetchVars, frontVars, bkptVars, HaltIsExact, match
  <2>4. QED
    BY <1>2, <2>1, <2>2, <2>3 DEF SocNext, HaltIsExact
<1>3. QED
  BY <1>1, <1>2, PTL DEF SocSpec

=============================================================================
