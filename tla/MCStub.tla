-------------------------------- MODULE MCStub --------------------------------
(***************************************************************************)
(* Instance of GdbStub: two programs of ten parcels whose 32-bit           *)
(* instructions begin at words, and one with a 32-bit instruction across   *)
(* two words.                                                              *)
(***************************************************************************)
EXTENDS StubLayout

Short(kind, off, id) == << Parcel(kind, FALSE, off, id) >>
Long(kind, off, id)  == << Parcel(kind, TRUE, 0, id), Parcel("seq", FALSE, off, id) >>

Loaded(p) == [a \in Addr |-> p[a + 1]]

(* c.jal f; nop; bne: back or on; j start; nop; f: add; ret                 *)
CallLoop == Loaded(Short("call", 6, "c.jal") \o Short("seq", 0, "nop")
                   \o Long("branch", -2, "bne") \o Short("jump", -4, "c.j")
                   \o Short("seq", 0, "pad") \o Long("seq", 0, "add")
                   \o Short("return", 0, "ret") \o Short("seq", 0, "pad"))

(* nop; bnez to itself; jal f; an EBREAK of its own; j start; f: jalr; ...   *)
SelfLoop == Loaded(Short("seq", 0, "nop") \o Short("branch", 0, "c.bnez")
                   \o Long("call", 4, "jal") \o << c_ebreak >>
                   \o Short("jump", -5, "c.j") \o Long("return", 0, "jalr")
                   \o Short("seq", 0, "pad") \o Short("seq", 0, "pad"))

(* nop; a 32-bit add across two words; j start                             *)
Straddling == Loaded(Short("seq", 0, "nop") \o Long("seq", 0, "add")
                     \o Short("jump", -3, "c.j"))

StubImages == {CallLoop, SelfLoop}
StubAddrs  == {1, 2, 4}
StubWrites == {<< 1, Parcel("branch", FALSE, 0, "c.bnez") >>}

StraddlingImages == {Straddling}

StubPowerUp == {Cleared}

(* The layout of the two programs.                                         *)
StubStarts   == {0, 1, 2, 4, 5, 6, 8, 9}
StubPrograms ==
  StubImages \cup {[m EXCEPT ![w[1]] = w[2]] : m \in StubImages, w \in StubWrites}
StubParcels  == {c_ebreak, ebreak_lo, ebreak_hi} \cup {m[a] : m \in StubPrograms, a \in Addr}

ASSUME MCLayout == Images = StubImages => Layout

=============================================================================
