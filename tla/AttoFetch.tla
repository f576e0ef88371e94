------------------------------ MODULE AttoFetch ------------------------------
(***************************************************************************)
(* The instruction front end of rtl/attorv32.v: the four/five-state FSM,   *)
(* the one-word fetch cache, the reassembly of a 32-bit instruction that   *)
(* straddles two words, and the read/write port the FSM drives.  One step  *)
(* is one clock edge.                                                      *)
(*                                                                         *)
(* What S_EXECUTE does to the rest of the core is left open here: it may   *)
(* go to any address, through the normal path (GoOn) or the trap path      *)
(* (Vector).  AttoCore fills it in and is shown to implement this module.  *)
(*                                                                         *)
(* A 16-bit parcel is a value; LongParcels are those whose bits [1:0] are  *)
(* 11 (the first half of a 32-bit instruction).  An address names a parcel *)
(* by its word and its half (PC[1]); PC[0] is always 0.                    *)
(***************************************************************************)
EXTENDS Naturals

CONSTANTS
  NWords,       (* words in the address space, 2^(ADDR_WIDTH-2)            *)
  Parcels,      (* 16-bit instruction parcels                              *)
  LongParcels,  (* parcels with [1:0] = 11                                 *)
  Rs2Parcels,   (* first parcels of instructions that read rs2             *)
  NoParcel,     (* second half of a compressed instruction                 *)
  SinglePort,   (* NRV_SINGLE_PORT_REGF                                    *)
  WaitStates,   (* whether the memory may insert wait states               *)
  StoreWords,   (* words the program stores to                             *)
  StoreData,    (* the values it stores there                              *)
  Images,       (* memory contents at power-up                             *)
  PowerUpWords  (* what un-reset 32-bit registers may hold at power-up      *)

WAddr == 0 .. NWords - 1
Addr  == [word : WAddr, half : {0, 1}]
Word  == [lo : Parcels, hi : Parcels]
Instr == [first : Parcels, second : Parcels \cup {NoParcel}]

ASSUME FetchAssumption ==
  /\ NWords \in Nat /\ NWords >= 2
  /\ LongParcels \subseteq Parcels
  /\ Rs2Parcels \subseteq Parcels
  /\ NoParcel \notin Parcels
  /\ SinglePort \in BOOLEAN
  /\ WaitStates \in BOOLEAN
  /\ StoreWords \subseteq WAddr
  /\ StoreData \subseteq Word
  /\ Images \subseteq [WAddr -> Word]
  /\ PowerUpWords \subseteq Word

VARIABLES
  state,             (* FSM state                                          *)
  PC,
  cached_addr, cached_data,
  fetch_second_half, (* the next fetch is for the second half of PC's instr *)
  skip_fetch,        (* leaving S_WAIT, the cache already holds the instr   *)
  instr,             (* decoded instruction; long_instr = it has a second   *)
  mem,               (* memory behind the bus                              *)
  mem_raddr,         (* word of the read in progress, or of the last one   *)
  mem_rdata, mem_rbusy, mem_wbusy

frontVars == << state, PC, cached_addr, cached_data, fetch_second_half,
                skip_fetch, instr >>
readVars  == << mem_raddr, mem_rdata, mem_rbusy >>
fetchVars == << frontVars, mem, readVars, mem_wbusy >>

States == {"FETCH_INSTR", "WAIT_INSTR", "FETCH_RS2", "EXECUTE", "WAIT"}

FetchTypeOK ==
  /\ state \in States
  /\ PC \in Addr
  /\ cached_addr \in WAddr
  /\ cached_data \in Word
  /\ fetch_second_half \in BOOLEAN
  /\ skip_fetch \in BOOLEAN
  /\ instr \in Instr
  /\ mem \in [WAddr -> Word]
  /\ mem_raddr \in WAddr
  /\ mem_rdata \in Word
  /\ mem_rbusy \in BOOLEAN
  /\ mem_wbusy \in BOOLEAN

----------------------------------------------------------------------------
(* Addresses wrap at the top of the address space.                         *)

NextWord(w) == IF w = NWords - 1 THEN 0 ELSE w + 1

Plus2(a) == IF a.half = 0 THEN [a EXCEPT !.half = 1]
                          ELSE [word |-> NextWord(a.word), half |-> 0]
Plus4(a) == [a EXCEPT !.word = NextWord(a.word)]

ParcelOf(word, half) == IF half = 0 THEN word.lo ELSE word.hi

(* What the ISA says the instruction at a is, in the memory m: its parcel, *)
(* and the one after it when it is long.                                   *)
InstrIn(m, a) ==
  LET b == Plus2(a)
      p == ParcelOf(m[a.word], a.half)
  IN [first  |-> p,
      second |-> IF p \in LongParcels THEN ParcelOf(m[b.word], b.half)
                                      ELSE NoParcel]

InstrAt(a) == InstrIn(mem, a)

----------------------------------------------------------------------------
(* The memory port.  A read strobed in one cycle answers in the next or,   *)
(* after wait states, later.  A slave that is still busy is free to ignore *)
(* a new strobe or to drop the old request for it.                         *)

ReadDone ==
  /\ mem_rbusy
  /\ mem_rbusy' = FALSE
  /\ mem_rdata' = mem[mem_raddr]
  /\ UNCHANGED mem_raddr

NoRead == ReadDone \/ UNCHANGED readVars

Read(w) ==
  \/ mem_rbusy /\ NoRead
  \/ /\ mem_raddr' = w
     /\ \/ mem_rbusy' = FALSE /\ mem_rdata' = mem[w]
        \/ WaitStates /\ mem_rbusy' = TRUE /\ UNCHANGED mem_rdata

NoWrite ==
  /\ UNCHANGED mem
  /\ mem_wbusy' \in BOOLEAN
  /\ mem_wbusy' => mem_wbusy

Write(w, d) ==
  /\ mem' = [mem EXCEPT ![w] = d]
  /\ mem_wbusy' \in BOOLEAN
  /\ mem_wbusy' => WaitStates

NoAccess == NoRead /\ NoWrite

----------------------------------------------------------------------------
(* Fetch datapath.                                                         *)

Hit(a) == cached_addr = a.word

(* Mutant: the second half is sought in the word of the first.             *)
FirstWordAgain == PC.word

mem_addr == IF fetch_second_half THEN NextWord(PC.word) ELSE PC.word

cached_mem == IF Hit(PC) THEN cached_data ELSE mem_rdata

current_unaligned_long == PC.half = 1 /\ cached_mem.hi \in LongParcels

next_unaligned_long(t) == t.half = 1 /\ cached_data.hi \in LongParcels

decomp_input ==
  IF PC.half = 1 THEN [lo |-> cached_mem.hi, hi |-> mem_rdata.lo]
                 ELSE cached_mem

(* The decompressor reads the upper half only of a 32-bit instruction.     *)
decompressed ==
  [first  |-> decomp_input.lo,
   second |-> IF decomp_input.lo \in LongParcels THEN decomp_input.hi
                                                 ELSE NoParcel]

uses_rs2 == decompressed.first \in Rs2Parcels

----------------------------------------------------------------------------
(* FSM.                                                                    *)

FetchInstr ==
  /\ state = "FETCH_INSTR"
  /\ state' = "WAIT_INSTR"
  /\ Read(mem_addr)
  /\ NoWrite
  /\ UNCHANGED << PC, cached_addr, cached_data, fetch_second_half,
                  skip_fetch, instr >>

(* The memory has not answered yet.                                        *)
InstrBusy ==
  /\ state = "WAIT_INSTR"
  /\ mem_rbusy
  /\ NoAccess
  /\ UNCHANGED frontVars

(* Mutant: the tag of a second half does not wrap at the top of memory.     *)
FillUnwrapped ==
  IF ~Hit(PC) \/ fetch_second_half
    THEN /\ cached_addr' = PC.word + (IF fetch_second_half THEN 1 ELSE 0)
         /\ cached_data' = mem_rdata
    ELSE UNCHANGED << cached_addr, cached_data >>

FillCache ==
  IF ~Hit(PC) \/ fetch_second_half
    THEN cached_addr' = mem_addr /\ cached_data' = mem_rdata
    ELSE UNCHANGED << cached_addr, cached_data >>

AfterFetch == IF SinglePort /\ uses_rs2 THEN "FETCH_RS2" ELSE "EXECUTE"

(* The answer is latched, and either the instruction is complete or its    *)
(* second half is in the next word.                                        *)
InstrAnswered ==
  /\ state = "WAIT_INSTR"
  /\ ~mem_rbusy
  /\ FillCache
  /\ instr' = decompressed
  /\ IF current_unaligned_long /\ ~fetch_second_half
       THEN fetch_second_half' = TRUE  /\ state' = "FETCH_INSTR"
       ELSE fetch_second_half' = FALSE /\ state' = AfterFetch
  /\ NoAccess
  /\ UNCHANGED << PC, skip_fetch >>

FetchRs2 ==
  /\ state = "FETCH_RS2"
  /\ state' = "EXECUTE"
  /\ NoAccess
  /\ UNCHANGED << PC, cached_addr, cached_data, fetch_second_half,
                  skip_fetch, instr >>

(* Leaving S_EXECUTE for t without a trap.                                 *)
GoOn(t, wait) ==
  /\ PC' = t
  /\ skip_fetch' = (Hit(t) /\ ~next_unaligned_long(t))
  /\ fetch_second_half' = (Hit(t) /\ next_unaligned_long(t))
  /\ state' = IF wait THEN "WAIT"
              ELSE IF Hit(t) /\ ~next_unaligned_long(t) THEN "WAIT_INSTR"
              ELSE "FETCH_INSTR"
  /\ UNCHANGED << cached_addr, cached_data, instr >>

(* Mutant of Vector: the skip flag survives the trap.                      *)
VectorKeepsSkip(t, wait) ==
  /\ PC' = t
  /\ state' = IF wait THEN "WAIT" ELSE "FETCH_INSTR"
  /\ UNCHANGED << cached_addr, cached_data, fetch_second_half, skip_fetch,
                  instr >>

(* Leaving S_EXECUTE for the trap vector t.                                *)
Vector(t, wait) ==
  /\ PC' = t
  /\ skip_fetch' = FALSE
  /\ state' = IF wait THEN "WAIT" ELSE "FETCH_INSTR"
  /\ UNCHANGED << cached_addr, cached_data, fetch_second_half, instr >>

LeaveWait ==
  /\ ~mem_rbusy
  /\ ~mem_wbusy
  /\ state' = IF skip_fetch THEN "WAIT_INSTR" ELSE "FETCH_INSTR"
  /\ UNCHANGED << PC, cached_addr, cached_data, fetch_second_half,
                  skip_fetch, instr >>

(* Mutant of ResetFront: out of reset straight into a fetch.               *)
ResetToFetch ==
  /\ state' = "FETCH_INSTR"
  /\ PC' = [word |-> 0, half |-> 0]
  /\ cached_addr' = NWords - 1
  /\ fetch_second_half' = FALSE
  /\ skip_fetch' = FALSE
  /\ UNCHANGED << cached_data, instr >>

(* What the synchronous reset does to the front end.  cached_data, instr   *)
(* and the memory are not reset.                                           *)
ResetFront ==
  /\ state' = "WAIT"
  /\ PC' = [word |-> 0, half |-> 0]
  /\ cached_addr' = NWords - 1
  /\ fetch_second_half' = FALSE
  /\ skip_fetch' = FALSE
  /\ UNCHANGED << cached_data, instr >>

----------------------------------------------------------------------------
(* The rest of the core, as the front end sees it.                         *)

DataAccess ==
  \/ \E w \in WAddr : Read(w) /\ NoWrite
  \/ \E w \in StoreWords, d \in StoreData : Write(w, d) /\ NoRead

(* An access that may take wait states is always waited for in S_WAIT.     *)
AnyExecute ==
  /\ state = "EXECUTE"
  /\ \E wait \in BOOLEAN, t \in Addr : GoOn(t, wait) \/ Vector(t, wait)
  /\ \/ NoAccess
     \/ (WaitStates => state' = "WAIT") /\ DataAccess

Stall ==
  /\ state \in {"EXECUTE", "WAIT"}
  /\ NoAccess
  /\ UNCHANGED frontVars

AnyWait ==
  /\ state = "WAIT"
  /\ LeaveWait
  /\ NoAccess

(* The strobe of the cycle in which reset is sampled still reaches memory. *)
AnyReset ==
  /\ CASE state = "FETCH_INSTR" -> Read(mem_addr) /\ NoWrite
       [] state = "EXECUTE"     -> NoAccess \/ DataAccess
       [] OTHER                 -> NoAccess
  /\ ResetFront

FetchNext ==
  \/ FetchInstr \/ InstrBusy \/ InstrAnswered \/ FetchRs2
  \/ AnyExecute \/ Stall \/ AnyWait \/ AnyReset

FetchInit ==
  /\ state = "WAIT"
  /\ PC = [word |-> 0, half |-> 0]
  /\ cached_addr = NWords - 1
  /\ cached_data \in PowerUpWords
  /\ fetch_second_half = FALSE
  /\ skip_fetch = FALSE
  /\ \E w \in PowerUpWords : instr = [first |-> w.lo, second |-> w.hi]
  /\ mem \in Images
  /\ mem_raddr = 0
  /\ mem_rdata \in PowerUpWords
  /\ mem_rbusy = FALSE
  /\ mem_wbusy = FALSE

FetchSpec == FetchInit /\ [][FetchNext]_fetchVars

----------------------------------------------------------------------------
(* Properties.                                                             *)

Stable(a) == {a.word, Plus2(a).word} \cap StoreWords = {}

(* The instruction that reaches S_EXECUTE is the one memory holds at PC,    *)
(* both halves of it, whatever path brought it there (cache hit, skipped   *)
(* fetch, straddling fetch, wrap at the top of memory, reset), as long as  *)
(* the program does not store to the words it lies in.                     *)
FetchCorrect ==
  state \in {"FETCH_RS2", "EXECUTE"} /\ Stable(PC) => instr = InstrAt(PC)

(* The core strobes only an idle bus: S_FETCH_INSTR and S_EXECUTE, the      *)
(* states that assert mem_rstrb or mem_wmask, are never entered while an   *)
(* access is in progress, even across a reset.                             *)
StrobeOnlyWhenIdle ==
  state \in {"FETCH_INSTR", "EXECUTE"} => ~mem_rbusy /\ ~mem_wbusy

=============================================================================
