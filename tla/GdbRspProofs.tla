----------------------------- MODULE GdbRspProofs -----------------------------
(***************************************************************************)
(* Proofs about GdbRsp, for all commands, every size of the buffer and any *)
(* number of tries: stub and debugger keep their types, and until the line *)
(* first fails the packet layer implements RspLink: a command that fits is *)
(* executed once, no other is, and what the debugger takes for the answer  *)
(* is the answer.                                                          *)
(*                                                                         *)
(* The state of the line and of both ends is one of seven phases (LineInv),*)
(* each of which says what is in flight.  A step stays in its phase or     *)
(* leads to another.  Underneath lie facts about the checksum, which is a  *)
(* recursive function and needs induction, about hexadecimal digits and    *)
(* about the packet that is made of them.                                  *)
(***************************************************************************)
EXTENDS GdbRsp, SequenceTheorems, WellFoundedInduction, TLAPS

----------------------------------------------------------------------------
(* The checksum is a byte, and packets are read as they were written.      *)

Byte == 0 .. 255

(* A set with 0 and every successor of its numbers has every number.       *)
LEMMA NatInd ==
  ASSUME NEW S, 0 \in S, \A n \in Nat : n \in S => n + 1 \in S
  PROVE  Nat \subseteq S
<1> SUFFICES ASSUME Nat \ S # {} PROVE FALSE
  OBVIOUS
<1>1. PICK x \in Nat \ S : \A y \in Nat \ S : ~(<< y, x >> \in OpToRel(<, Nat))
  BY NatLessThanWellFounded, WFMin, Nat \ S \subseteq Nat
<1>2. \A y \in Nat \ S : ~(y < x)
  BY <1>1 DEF OpToRel
<1>3. x # 0 /\ x - 1 \in Nat
  OBVIOUS
<1>4. x - 1 \in S
  BY <1>2, <1>3
<1> QED BY <1>3, <1>4

(* The sums of the first characters of p, modulo 256.                      *)
Sums(p) ==
  CHOOSE sum : sum = [n \in 0 .. Len(p) |-> IF n = 0 THEN 0 ELSE (sum[n - 1] + p[n]) % 256]

(* Bytes add up to a byte.                                                 *)
LEMMA SumLemma ==
  ASSUME NEW x \in Byte, NEW y \in Byte
  PROVE  (x + y) % 256 \in Byte
  BY DEF Byte

(* There is such a function, for payloads of every length.                 *)
LEMMA SumsExist ==
  ASSUME NEW p \in Seq(Byte)
  PROVE  \E sum : sum = [n \in 0 .. Len(p) |-> IF n = 0 THEN 0 ELSE (sum[n - 1] + p[n]) % 256]
<1> DEFINE Upto(m) ==
      {f \in [0 .. m -> Byte] : f = [n \in 0 .. m |-> IF n = 0 THEN 0 ELSE (f[n - 1] + p[n]) % 256]}
<1> DEFINE S == {m \in Nat : m <= Len(p) => Upto(m) # {}}
<1>1. 0 \in S
  <2>1. [n \in 0 .. 0 |-> 0] \in Upto(0)
    BY DEF Byte
  <2>2. QED
    BY <2>1
<1>2. ASSUME NEW m \in Nat, m \in S PROVE m + 1 \in S
  <2> SUFFICES ASSUME m + 1 <= Len(p) PROVE Upto(m + 1) # {}
    <3> HIDE DEF Upto
    <3>1. m + 1 \in Nat
      OBVIOUS
    <3>2. QED
      BY <3>1
  <2>1. PICK f \in [0 .. m -> Byte] :
          f = [n \in 0 .. m |-> IF n = 0 THEN 0 ELSE (f[n - 1] + p[n]) % 256]
    BY <1>2
  <2> DEFINE g == [n \in 0 .. m + 1 |-> IF n <= m THEN f[n] ELSE (f[m] + p[m + 1]) % 256]
  <2>2. p[m + 1] \in Byte /\ f[m] \in Byte /\ (f[m] + p[m + 1]) % 256 \in Byte
    <3>1. p[m + 1] \in Byte /\ f[m] \in Byte
      BY <2>1
    <3>2. QED
      BY <3>1, SumLemma
  <2>3. g \in [0 .. m + 1 -> Byte]
    BY <2>2
  <2>4. ASSUME NEW n \in 0 .. m + 1 PROVE g[n] = IF n = 0 THEN 0 ELSE (g[n - 1] + p[n]) % 256
    <3>1. CASE n = 0
      BY <3>1, <2>1
    <3>2. CASE n \in 1 .. m
      <4>1. n \in 0 .. m /\ n - 1 \in 0 .. m /\ n - 1 \in 0 .. m + 1 /\ n # 0
        BY <3>2
      <4>2. g[n] = f[n] /\ g[n - 1] = f[n - 1]
        BY <4>1
      <4>3. f[n] = (f[n - 1] + p[n]) % 256
        BY <2>1, <4>1
      <4>4. QED
        BY <4>1, <4>2, <4>3
    <3>3. CASE n = m + 1
      <4>1. n - 1 = m /\ m \in 0 .. m + 1 /\ ~(n <= m) /\ n # 0
        BY <3>3
      <4>2. g[m] = f[m] /\ g[n] = (f[m] + p[m + 1]) % 256
        BY <4>1
      <4>3. QED
        BY <3>3, <4>1, <4>2
    <3>4. QED
      BY <3>1, <3>2, <3>3
  <2>5. g \in Upto(m + 1)
    <3> HIDE DEF g
    <3>1. g = [n \in 0 .. m + 1 |-> IF n = 0 THEN 0 ELSE (g[n - 1] + p[n]) % 256]
      BY <2>3, <2>4
    <3>2. QED
      BY <2>3, <3>1
  <2>6. QED
    BY <2>5
<1>3. Len(p) \in S
  <2> HIDE DEF S
  <2>1. Nat \subseteq S
    BY <1>1, <1>2, NatInd
  <2>2. QED
    BY <2>1
<1>4. QED
  BY <1>3

(* The checksum is a byte.                                                 *)
LEMMA ChecksumLemma ==
  ASSUME NEW p \in Seq(Byte)
  PROVE  cksum(p) \in Byte
<1> DEFINE s == Sums(p)
<1>1. s = [n \in 0 .. Len(p) |-> IF n = 0 THEN 0 ELSE (s[n - 1] + p[n]) % 256]
  BY SumsExist DEF Sums
<1>2. cksum(p) = s[Len(p)]
  BY DEF cksum, Sums
<1> HIDE DEF s
<1>3. s[0] = 0
  BY <1>1
<1> DEFINE S == {n \in Nat : n <= Len(p) => s[n] \in Byte}
<1>4. 0 \in S
  BY <1>3 DEF Byte
<1>5. ASSUME NEW n \in Nat, n \in S PROVE n + 1 \in S
  <2>1. ASSUME n + 1 <= Len(p) PROVE s[n + 1] \in Byte
    <3>1. s[n + 1] = (s[n] + p[n + 1]) % 256
      <4>1. n + 1 \in 0 .. Len(p) /\ n + 1 # 0 /\ (n + 1) - 1 = n
        BY <2>1
      <4>2. QED
        BY <4>1, <1>1
    <3>2. s[n] \in Byte
      BY <1>5, <2>1
    <3>3. p[n + 1] \in Byte
      BY <2>1
    <3>4. QED
      BY <3>1, <3>2, <3>3, SumLemma
  <2>2. QED
    BY <2>1
<1>6. Len(p) \in S
  <2> HIDE DEF S
  <2>1. Nat \subseteq S
    BY <1>4, <1>5, NatInd
  <2>2. QED
    BY <2>1
<1>7. QED
  BY <1>2, <1>6

(* Hexadecimal digits are digits, and are read as they were written.       *)
LEMMA HexLemma ==
  ASSUME NEW v \in Byte
  PROVE  /\ nib_to_hex(v) \in Byte \ {Dollar, Hash, Plus}
         /\ hex_to_nib(nib_to_hex(v)) = v % 16
         /\ nib_to_hex(v \div 16) \in Byte \ {Dollar, Hash, Plus}
         /\ hex_to_nib(nib_to_hex(v \div 16)) = v \div 16
         /\ rx_ck(v \div 16, v % 16) = v
<1>1. \A w \in 0 .. 255 : /\ nib_to_hex(w) \in Byte \ {Dollar, Hash, Plus}
                          /\ hex_to_nib(nib_to_hex(w)) = w % 16
  <2> TAKE w \in 0 .. 255
  <2>1. w % 16 \in 0 .. 15
    OBVIOUS
  <2>2. CASE w % 16 < 10
    BY <2>1, <2>2 DEF nib_to_hex, hex_to_nib, Byte, Dollar, Hash, Plus
  <2>3. CASE ~(w % 16 < 10)
    BY <2>1, <2>3 DEF nib_to_hex, hex_to_nib, Byte, Dollar, Hash, Plus
  <2>4. QED
    BY <2>2, <2>3
<1>2. v \div 16 \in 0 .. 15 /\ (v \div 16) % 16 = v \div 16 /\ v % 16 \in 0 .. 15
  BY DEF Byte
<1>3. v = 16 * (v \div 16) + (v % 16)
  <2>1. \A a \in Int, d \in Nat \ {0} : a = d * (a \div d) + (a % d)
    OBVIOUS
  <2>2. v \in Int /\ 16 \in Nat \ {0}
    BY DEF Byte
  <2>3. QED
    BY <2>1, <2>2
<1>4. rx_ck(v \div 16, v % 16) = v
  <2>1. v % 16 # -1
    BY <1>2
  <2>2. QED
    BY <1>2, <1>3, <2>1 DEF rx_ck
<1>5. v \div 16 \in 0 .. 255 /\ v \in 0 .. 255
  BY <1>2 DEF Byte
<1>6. QED
  BY <1>1, <1>2, <1>4, <1>5

(* A packet, character by character.                                       *)
LEMMA PacketLemma ==
  ASSUME NEW p \in Seq(Byte)
  PROVE  /\ Packet(p) \in Seq(Byte)
         /\ Len(p) \in Nat /\ Len(Packet(p)) = Len(p) + 4
         /\ Packet(p)[1] = Dollar
         /\ \A i \in 1 .. Len(p) : Packet(p)[i + 1] = p[i]
         /\ Packet(p)[Len(p) + 2] = Hash
         /\ Packet(p)[Len(p) + 3] = nib_to_hex(cksum(p) \div 16)
         /\ Packet(p)[Len(p) + 4] = nib_to_hex(cksum(p))
<1> DEFINE a == << Dollar >>
<1> DEFINE z == << Hash, nib_to_hex(cksum(p) \div 16), nib_to_hex(cksum(p)) >>
<1>1. a \in Seq(Byte) /\ Len(a) = 1 /\ a[1] = Dollar
  BY DEF Dollar, Byte
<1>2. z \in Seq(Byte) /\ Len(z) = 3
  <2>1. Hash \in Byte /\ nib_to_hex(cksum(p) \div 16) \in Byte /\ nib_to_hex(cksum(p)) \in Byte
    <3>1. cksum(p) \in Byte
      BY ChecksumLemma
    <3>2. Hash \in Byte
      BY DEF Hash, Byte
    <3>3. QED
      BY <3>1, <3>2, HexLemma
  <2>2. QED
    BY <2>1
<1>3. z[1] = Hash /\ z[2] = nib_to_hex(cksum(p) \div 16) /\ z[3] = nib_to_hex(cksum(p))
  OBVIOUS
<1>4. Packet(p) = (a \o p) \o z
  BY DEF Packet
<1> HIDE DEF a, z
<1>5. Len(p) \in Nat
  OBVIOUS
<1>6. /\ a \o p \in Seq(Byte) /\ Len(a \o p) = Len(p) + 1
      /\ \A i \in 1 .. Len(p) + 1 : (a \o p)[i] = IF i <= 1 THEN a[i] ELSE p[i - 1]
  <2>1. /\ a \o p \in Seq(Byte) /\ Len(a \o p) = Len(a) + Len(p)
        /\ \A i \in 1 .. Len(a) + Len(p) :
             (a \o p)[i] = IF i <= Len(a) THEN a[i] ELSE p[i - Len(a)]
    BY <1>1, ConcatProperties
  <2>2. Len(a) = 1 /\ Len(a) + Len(p) = Len(p) + 1
    BY <1>1, <1>5
  <2>3. QED
    BY <2>1, <2>2
<1>7. /\ (a \o p) \o z \in Seq(Byte) /\ Len((a \o p) \o z) = Len(p) + 4
      /\ \A i \in 1 .. Len(p) + 4 :
           ((a \o p) \o z)[i] = IF i <= Len(p) + 1 THEN (a \o p)[i] ELSE z[i - (Len(p) + 1)]
  <2> DEFINE x == a \o p
  <2>0. x \in Seq(Byte) /\ Len(x) = Len(p) + 1
    BY <1>6
  <2> HIDE DEF x
  <2>1. /\ x \o z \in Seq(Byte) /\ Len(x \o z) = Len(x) + Len(z)
        /\ \A i \in 1 .. Len(x) + Len(z) : (x \o z)[i] = IF i <= Len(x) THEN x[i] ELSE z[i - Len(x)]
    BY <1>2, <2>0, ConcatProperties
  <2>2. Len(x) + Len(z) = Len(p) + 4
    BY <1>2, <1>5, <2>0
  <2>3. /\ x \o z \in Seq(Byte) /\ Len(x \o z) = Len(p) + 4
        /\ \A i \in 1 .. Len(p) + 4 : (x \o z)[i] =
             IF i <= Len(p) + 1 THEN x[i] ELSE z[i - (Len(p) + 1)]
    BY <2>0, <2>1, <2>2
  <2>4. QED
    BY <2>3 DEF x
<1> DEFINE h == (a \o p) \o z
<1> HIDE DEF h
<1>8. /\ h \in Seq(Byte) /\ Len(h) = Len(p) + 4
      /\ \A i \in 1 .. Len(p) + 4 : h[i] =
           IF i <= Len(p) + 1 THEN (a \o p)[i] ELSE z[i - (Len(p) + 1)]
  BY <1>7 DEF h
<1>9. h[1] = Dollar
  BY <1>1, <1>5, <1>6, <1>8
<1>10. ASSUME NEW i \in 1 .. Len(p) PROVE h[i + 1] = p[i]
  <2>1. i + 1 \in 1 .. Len(p) + 1 /\ i + 1 \in 1 .. Len(p) + 4 /\ ~(i + 1 <= 1) /\ (i + 1) - 1 = i
    BY <1>5
  <2>2. h[i + 1] = (a \o p)[i + 1]
    <3>1. i + 1 <= Len(p) + 1
      BY <2>1, <1>5
    <3>2. QED
      BY <1>8, <2>1, <3>1
  <2>3. QED
    BY <1>6, <2>1, <2>2
<1>11. ASSUME NEW j \in 1 .. 3 PROVE h[Len(p) + 1 + j] = z[j]
  <2>1. Len(p) + 1 + j \in 1 .. Len(p) + 4 /\ ~(Len(p) + 1 + j <= Len(p) + 1)
        /\ Len(p) + 1 + j - (Len(p) + 1) = j
    BY <1>5
  <2>2. QED
    BY <1>8, <2>1
<1>12. /\ Len(p) + 1 + 1 = Len(p) + 2 /\ Len(p) + 1 + 2 = Len(p) + 3 /\ Len(p) + 1 + 3 = Len(p) + 4
       /\ 1 \in 1 .. 3 /\ 2 \in 1 .. 3 /\ 3 \in 1 .. 3
  BY <1>5
<1>13. h[Len(p) + 2] = z[1] /\ h[Len(p) + 3] = z[2] /\ h[Len(p) + 4] = z[3]
  BY <1>11, <1>12
<1>14. QED
  BY <1>3, <1>4, <1>5, <1>8, <1>9, <1>10, <1>13 DEF h

(* What stands behind the first character of h.                            *)
LEMMA MiddleLemma ==
  ASSUME NEW p \in Seq(Byte), NEW h \in Seq(Byte), Len(p) + 1 <= Len(h),
         \A i \in 1 .. Len(p) : h[i + 1] = p[i]
  PROVE  SubSeq(h, 2, Len(p) + 1) = p
<1> DEFINE q == SubSeq(h, 2, Len(p) + 1)
<1>0. Len(p) \in Nat
  OBVIOUS
<1>1. Len(q) = Len(p)
  BY <1>0
<1>2. q \in Seq(Byte)
  BY <1>0
<1>3. ASSUME NEW i \in 1 .. Len(p) PROVE q[i] = p[i]
  BY <1>0
<1> HIDE DEF q
<1>4. q = p
  BY <1>1, <1>2, <1>3, SeqEqual
<1>5. QED
  BY <1>4 DEF q

(* A payload without the character that ends it.                           *)
NoHash(p) == \A i \in DOMAIN p : p[i] # Hash

(* The debugger finds the packet at the head of a line.                    *)
LEMMA ScanLemma ==
  ASSUME NEW p \in Seq(Byte), NoHash(p), NEW s \in Seq(Byte), NEW h, h = Packet(p) \o s
  PROVE  /\ h \in Seq(Byte)
         /\ h # << >> /\ h[1] = Dollar /\ Head(h) = Dollar
         /\ End(h) \in 4 .. Len(h)
         /\ Payload(h) = p
         /\ Correct(h)
         /\ SubSeq(h, End(h) + 1, Len(h)) = s
<1> DEFINE k == Packet(p)
<1>1. /\ k \in Seq(Byte) /\ Len(p) \in Nat /\ Len(k) = Len(p) + 4 /\ k[1] = Dollar
      /\ k[Len(p) + 2] = Hash
      /\ \A i \in 1 .. Len(p) : k[i + 1] = p[i]
  BY PacketLemma
<1>0. h = k \o s
  OBVIOUS
<1> HIDE DEF k
<1>2. Len(s) \in Nat
  OBVIOUS
<1>3. /\ h \in Seq(Byte) /\ Len(h) = Len(p) + 4 + Len(s)
      /\ \A i \in 1 .. Len(p) + 4 : h[i] = k[i]
  <2>1. /\ h \in Seq(Byte) /\ Len(h) = Len(k) + Len(s)
        /\ \A i \in 1 .. Len(k) + Len(s) : h[i] = IF i <= Len(k) THEN k[i] ELSE s[i - Len(k)]
    <3>1. /\ k \o s \in Seq(Byte) /\ Len(k \o s) = Len(k) + Len(s)
          /\ \A i \in 1 .. Len(k) + Len(s) : (k \o s)[i] =
               IF i <= Len(k) THEN k[i] ELSE s[i - Len(k)]
      BY <1>1, ConcatProperties
    <3>2. QED
      BY <1>0, <3>1
  <2>2. QED
    BY <1>1, <1>2, <2>1
<1>4. SubSeq(h, Len(p) + 5, Len(h)) = s
  <2>1. CASE Len(s) = 0
    <3>1. s = << >>
      BY <2>1
    <3>2. Len(p) + 5 \in Int /\ Len(h) \in Int /\ Len(h) < Len(p) + 5
      BY <1>1, <1>3, <2>1
    <3>3. SubSeq(h, Len(p) + 5, Len(h)) = << >>
      BY <3>2, SubSeqEmpty
    <3>4. QED
      BY <3>1, <3>3
  <2>2. CASE Len(s) > 0
    <3>1. /\ Len(p) + 5 \in Len(k) + 1 .. Len(k) + Len(s)
          /\ Len(h) \in Len(k) + 1 .. Len(k) + Len(s)
          /\ Len(p) + 5 - Len(k) = 1 /\ Len(h) - Len(k) = Len(s)
      BY <1>1, <1>2, <1>3, <2>2
    <3>2. \A m, n \in Len(k) + 1 .. Len(k) + Len(s) :
            SubSeq(k \o s, m, n) = SubSeq(s, m - Len(k), n - Len(k))
      BY <1>1, SubSeqOfConcat2
    <3>4. SubSeq(h, Len(p) + 5, Len(h)) = SubSeq(s, 1, Len(s))
      <4>1. SubSeq(k \o s, Len(p) + 5, Len(h)) = SubSeq(s, Len(p) + 5 - Len(k), Len(h) - Len(k))
        BY <3>1, <3>2
      <4>2. QED
        BY <1>0, <3>1, <4>1
    <3>5. QED
      BY <3>4, SubSeqFull
  <2>3. QED
    BY <1>2, <2>1, <2>2
<1>5. SubSeq(h, 1, Len(p) + 4) = k
  <2>1. 1 \in 1 .. Len(k) /\ Len(p) + 4 \in 1 .. Len(k)
    BY <1>1
  <2>2. SubSeq(h, 1, Len(p) + 4) = SubSeq(k, 1, Len(p) + 4)
    BY <1>0, <1>1, <2>1, SubSeqOfConcat1
  <2>3. QED
    BY <1>1, <2>2, SubSeqFull
<1>6. SubSeq(h, 2, Len(p) + 1) = p
  <2>1. ASSUME NEW i \in 1 .. Len(p) PROVE h[i + 1] = p[i]
    <3>1. i + 1 \in 1 .. Len(p) + 4
      BY <1>1
    <3>2. QED
      BY <1>1, <1>3, <3>1
  <2>2. Len(p) + 1 <= Len(h)
    BY <1>1, <1>2, <1>3
  <2>3. QED
    BY <1>3, <2>1, <2>2, MiddleLemma
<1>7. End(h) = Len(p) + 4
  <2> DEFINE I == {i \in 1 .. Len(h) : h[i] = Hash}
  <2>1. Len(p) + 2 \in I
    BY <1>1, <1>2, <1>3
  <2>2. ASSUME NEW i \in I PROVE Len(p) + 2 <= i
    <3> SUFFICES ASSUME i < Len(p) + 2 PROVE FALSE
      BY <1>1
    <3>1. CASE i = 1
      BY <1>1, <1>3, <3>1 DEF Dollar, Hash
    <3>2. CASE i # 1
      <4>1. i - 1 \in 1 .. Len(p) /\ i \in 1 .. Len(p) + 4 /\ (i - 1) + 1 = i
        BY <1>1, <3>2
      <4>2. h[i] = k[i] /\ k[(i - 1) + 1] = p[i - 1]
        BY <1>1, <1>3, <4>1
      <4>3. QED
        BY <4>1, <4>2 DEF NoHash
    <3>3. QED
      BY <3>1, <3>2
  <2>3. Min(I) = Len(p) + 2
    <3> HIDE DEF I
    <3>1. I \subseteq Int
      BY DEF I
    <3>2. \A x \in I : (\A y \in I : x <= y) => x = Len(p) + 2
      BY <1>1, <2>1, <2>2, <3>1
    <3>3. \E x \in I : \A y \in I : x <= y
      BY <2>1, <2>2
    <3>4. Min(I) \in I /\ \A y \in I : Min(I) <= y
      BY <3>3 DEF Min
    <3>5. QED
      BY <3>2, <3>4
  <2>4. End(h) = Min(I) + 2
    BY <2>1 DEF End, SelectInSeq
  <2>5. QED
    <3> HIDE DEF I
    <3>1. QED
      BY <1>1, <2>3, <2>4
<1>8. (Len(p) + 4) - 3 = Len(p) + 1 /\ (Len(p) + 4) + 1 = Len(p) + 5
  BY <1>1
<1>9. Payload(h) = p
  BY <1>6, <1>7, <1>8 DEF Payload
<1>10. Correct(h)
  BY <1>5, <1>7, <1>9 DEF Correct, k
<1>11. h # << >> /\ Len(p) + 4 \in 4 .. Len(h)
  BY <1>1, <1>2, <1>3
<1>12. h[1] = Dollar /\ Head(h) = Dollar
  BY <1>1, <1>3, <1>11
<1>13. QED
  BY <1>3, <1>4, <1>7, <1>8, <1>9, <1>10, <1>11, <1>12

----------------------------------------------------------------------------
(* Types.                                                                  *)

(* Types, with what the buffer and the debugger hold.                      *)
RspInv ==
  /\ RspTypeOK
  /\ buf \in Seq(Byte)
  /\ cmd = << >> \/ cmd \in Commands

(* Commands are byte strings.                                              *)
LEMMA CommandLemma ==
  ASSUME NEW c \in Commands
  PROVE  c # << >> /\ c \in Seq(Byte)
  BY RspAssumption DEF Byte

(* hex_to_nib, gdb_stub.c:116-124, returns a nibble or -1.                 *)
LEMMA NibbleLemma ==
  ASSUME NEW c \in Byte
  PROVE  hex_to_nib(c) \in -1 .. 15
  BY DEF hex_to_nib, Byte

(* The invariant holds at first, ...                                       *)
LEMMA RspInit == Init => RspInv
  BY RspAssumption DEF Init, RspInv, RspTypeOK, Reading, Empty

(* ... each step of the stub keeps it, ...                                 *)
LEMMA StubTypes == ASSUME RspInv, Stub PROVE RspInv'
<1> USE DEF RspInv, RspTypeOK, Reading, stubVars, hostVars
<1>1. CASE GetStart
  BY <1>1, RspAssumption DEF GetStart, Begin
<1>2. CASE GetBody
  <2>1. PICK c \in Byte : Getc(c) /\ Collect(c)
    BY <1>2 DEF GetBody, Byte
  <2>2. buf' \in Seq(Byte) /\ Len(buf') < PKT_BUF_SIZE
    BY <2>1, RspAssumption DEF Collect
  <2>3. QED
    BY <1>2, <2>1, <2>2 DEF GetBody, Collect
<1>3. CASE GetHi
  BY <1>3, NibbleLemma DEF GetHi, Byte
<1>4. CASE GetLo
  BY <1>4 DEF GetLo, Dispatch, StartPut
<1>5. CASE Put
  BY <1>5 DEF Put
<1>6. CASE GetAck
  BY <1>6 DEF GetAck, AfterAck
<1>7. CASE Stop
  BY <1>7 DEF Stop, gdb_stub_entry, StartPut
<1>8. QED
  BY <1>1, <1>2, <1>3, <1>4, <1>5, <1>6, <1>7 DEF Stub

(* ... each step of the debugger, ...                                      *)
LEMMA HostTypes == ASSUME RspInv, Send \/ Host \/ Abandon PROVE RspInv'
<1> USE DEF RspInv, RspTypeOK, Reading, stubVars, hostVars
<1>1. CASE Send
  BY <1>1, CommandLemma, RspAssumption DEF Send
<1>2. CASE HostAck
  BY <1>2, RspAssumption DEF HostAck, Again, Give
<1>3. CASE HostSkips
  BY <1>3 DEF HostSkips
<1>4. CASE HostPacket
  BY <1>4, RspAssumption DEF HostPacket, Again, Give
<1>5. CASE HostTimeout
  BY <1>5, RspAssumption DEF HostTimeout, Again, Give
<1>6. CASE Abandon
  BY <1>6, RspAssumption DEF Abandon, Give, Stalemate
<1>7. QED
  BY <1>1, <1>2, <1>3, <1>4, <1>5, <1>6 DEF Host

(* ... and each fault of the line.                                         *)
LEMMA TypesNext == RspInv /\ [Next]_vars => RspInv'
<1> SUFFICES ASSUME RspInv, [Next]_vars PROVE RspInv'
  OBVIOUS
<1>1. CASE Overrun
  BY <1>1 DEF Overrun, RspInv, RspTypeOK, stubVars, hostVars
<1>2. CASE Fault
  BY <1>2, RspAssumption DEF Fault, RspInv, RspTypeOK, stubVars, hostVars
<1>3. CASE UNCHANGED vars
  BY <1>3 DEF RspInv, RspTypeOK, vars, stubVars, hostVars
<1>4. QED
  BY <1>1, <1>2, <1>3, StubTypes, HostTypes DEF Next

(* Stub and debugger keep their registers in range, whatever the line does. *)
THEOREM RspTypeCorrect == Spec => []RspTypeOK
<1>1. RspInv => RspTypeOK
  BY DEF RspInv
<1>2. QED
  BY <1>1, RspInit, TypesNext, PTL DEF Spec

----------------------------------------------------------------------------
(* What is on the line, as long as it has not failed.                      *)

(* Payloads have no dollar and no hash (the protocol escapes them), what   *)
(* the buffer cuts off shows in the checksum (gdb_stub.c:154-157 leaves it *)
(* out of the sum, so that a tail that adds up to 0 would go unnoticed),   *)
(* and the debugger tries twice, the first time perhaps at a stub that is  *)
(* not there because the program runs.                                     *)
Plain == \A c \in Commands : \A i \in DOMAIN c : c[i] \notin {Dollar, Hash}

CutShows ==
  \A c \in Commands : ~Fits(c) => cksum(SubSeq(c, 1, PKT_BUF_SIZE - 1)) # cksum(c)

Usual == Plain /\ CutShows /\ HostTries >= 2

(* The packet of the command, and the stop reply's.                        *)
P == Packet(cmd)
T == Packet(T05)

(* Stop replies of a program that has stopped before the first command.    *)
Stops(n) == CASE n = 0 -> << >> [] n = 1 -> T [] n = 2 -> T \o T [] n = 3 -> T \o (T \o T)

(* Nothing has been asked yet; a stop reply may be under way.              *)
Silent ==
  /\ host = "idle" /\ answer = NoAnswer /\ ran = 0
  /\ \/ at \in {"start", "run"} /\ toStub = << >> /\ toHost = << >>
     \/ at = "put" /\ retry = 0 /\ data = T05 /\ toStub = << >> /\ toHost = << >>
     \/ at = "ack" /\ toStub = << >> /\ toHost = T
     \/ at = "ack" /\ toStub = << Plus >> /\ toHost = << >>

(* The debugger has the answer to its last command.                        *)
Answered ==
  /\ host = "idle" /\ answer # NoAnswer
  /\ toHost = << >>
  /\ \/ at = "ack" /\ toStub = << Plus >>
     \/ at = "start" /\ toStub = << >>

(* The debugger waits, and its command has not been executed.              *)
Unserved == host = "ack" /\ answer = NoAnswer /\ ran = 0 /\ cmd \in Commands

(* The dollar of the packet has not been taken for something else.         *)
Untouched == at = "run" \/ (at = "put" /\ retry = 0) \/ (at = "ack" /\ retry = 1)

(* How many stop replies the stub has sent.                                *)
StopsSent == CASE at = "run" -> 0 [] at = "start" -> 3 [] OTHER -> retry

(* The command came while the program ran: the stub loses it.              *)
Early ==
  /\ Unserved /\ sent = 1
  /\ at \in {"run", "put", "ack", "start"}
  /\ at \in {"put", "ack"} => data = T05
  /\ toStub \in Seq(Byte)
  /\ \A i \in DOMAIN toStub : toStub[i] = Dollar => i = 1 /\ Untouched
  /\ \E n \in 0 .. StopsSent : toHost = Stops(n)
  /\ at = "ack" => toStub # << >> \/ toHost # << >>

(* The command is on its way and will be read.                             *)
Whole ==
  /\ Unserved
  /\ toHost = << >>
  /\ \/ at = "start" /\ toStub = P
     \/ at = "ack" /\ toStub = << Plus >> \o P

(* What the buffer holds of the first k characters, and what of the packet *)
(* comes from its k-th on.                                                 *)
Taken(k) == SubSeq(cmd, 1, IF k < PKT_BUF_SIZE - 1 THEN k ELSE PKT_BUF_SIZE - 1)

Rest(k) == SubSeq(P, k, Len(P))

(* The packet is being read.                                               *)
Received ==
  /\ Unserved
  /\ toHost = << >>
  /\ \/ at = "body" /\ \E k \in 0 .. Len(cmd) : buf = Taken(k) /\ toStub = Rest(k + 2)
     \/ at = "hi" /\ buf = Taken(Len(cmd)) /\ toStub = Rest(Len(cmd) + 3)
     \/ /\ at = "lo" /\ buf = Taken(Len(cmd)) /\ toStub = Rest(Len(cmd) + 4)
        /\ hi = cksum(cmd) \div 16

(* It was too long, and the refusal is on its way back.                    *)
Refused ==
  /\ Unserved /\ ~Fits(cmd)
  /\ at = "start" /\ toStub = << >> /\ toHost = << Minus >>

(* It has been executed, and the answer is being prepared or on its way.   *)
Served ==
  /\ host \in {"ack", "reply"} /\ cmd \in Commands /\ answer = NoAnswer /\ ran = 1 /\ Fits(cmd)
  /\ toStub = << >>
  /\ \/ at = "run" /\ Resumes(cmd)
     \/ at \in {"put", "ack"} /\ data = AnswerTo(cmd)
  /\ toHost = (IF host = "ack" THEN << Plus >> ELSE << >>)
              \o (IF at = "ack" THEN Packet(data) ELSE << >>)

LineInv == Silent \/ Answered \/ Early \/ Whole \/ Received \/ Refused \/ Served

(* A step of the link, while it does not fail.                             *)
LinkStep ==
  \/ UNCHANGED << cmd, ran, answer >>
  \/ cmd = << >> /\ cmd' \in Commands /\ ran' = 0 /\ answer' = NoAnswer
  \/ Fits(cmd) /\ ran = 0 /\ ran' = 1 /\ UNCHANGED << cmd, answer >>
  \/ cmd # << >> /\ ran > 0 /\ answer' = AnswerTo(cmd) /\ cmd' = << >> /\ UNCHANGED ran
  \/ cmd # << >> /\ ~Fits(cmd) /\ cmd' = << >> /\ UNCHANGED << ran, answer >>

(* Nobody reads from an empty line.                                        *)
LEMMA NoChar ==
  ASSUME toStub = << >>
  PROVE  ~GetStart /\ ~GetBody /\ ~GetHi /\ ~GetLo /\ ~GetAck /\ ~Overrun
<1>1. Len(toStub) = 0
  OBVIOUS
<1>2. QED
  BY <1>1 DEF GetStart, GetBody, GetHi, GetLo, GetAck, Overrun, Getc

(* ... nor does the debugger.                                              *)
LEMMA NoNews ==
  ASSUME toHost = << >>
  PROVE  ~HostAck /\ ~HostSkips /\ ~HostPacket
  BY DEF HostAck, HostSkips, HostPacket, PacketReady

(* The debugger waits for as long as the stub has work to do.              *)
LEMMA Waits ==
  ASSUME toStub # << >> \/ at \notin Reading
  PROVE  ~HostTimeout /\ ~Abandon
  BY DEF HostTimeout, Abandon, Stalemate, Quiet

(* A stop reply before anything else is read as the stop reply.            *)
LEMMA StopReply ==
  ASSUME NEW s \in Seq(Byte), NEW h, h = T \o s
  PROVE  /\ h \in Seq(Byte) /\ h # << >> /\ h[1] = Dollar /\ Head(h) = Dollar
         /\ End(h) \in 4 .. Len(h)
         /\ SubSeq(h, End(h) + 1, Len(h)) = s
<1>1. T05 \in Seq(Byte) /\ NoHash(T05)
  BY DEF T05, Byte, NoHash, Hash
<1>2. QED
  BY <1>1, ScanLemma DEF T

(* Stop replies one after the other.                                       *)
LEMMA StopsLemma ==
  /\ T \in Seq(Byte)
  /\ Stops(0) = << >> /\ Stops(1) = T \o Stops(0)
  /\ Stops(2) = T \o Stops(1) /\ Stops(3) = T \o Stops(2)
  /\ Stops(0) \o T = Stops(1) /\ Stops(1) \o T = Stops(2) /\ Stops(2) \o T = Stops(3)
  /\ \A n \in 0 .. 3 : Stops(n) \in Seq(Byte)
<1>1. T \in Seq(Byte)
  <2>1. T05 \in Seq(Byte)
    BY DEF T05, Byte
  <2>2. QED
    BY <2>1, PacketLemma DEF T
<1>2. Stops(0) = << >> /\ Stops(1) = T /\ Stops(2) = T \o T /\ Stops(3) = T \o (T \o T)
  BY DEF Stops
<1>3. T \o << >> = T /\ << >> \o T = T
  BY <1>1
<1>4. T \o T \in Seq(Byte) /\ T \o (T \o T) \in Seq(Byte)
  BY <1>1
<1>5. (T \o T) \o T = T \o (T \o T)
  BY <1>1, ConcatAssociative
<1>6. \A n \in 0 .. 3 : n = 0 \/ n = 1 \/ n = 2 \/ n = 3
  OBVIOUS
<1>7. << >> \in Seq(Byte)
  OBVIOUS
<1>8. \A n \in 0 .. 3 : Stops(n) \in Seq(Byte)
  BY <1>1, <1>2, <1>4, <1>6, <1>7
<1>9. QED
  BY <1>1, <1>2, <1>3, <1>5, <1>8

----------------------------------------------------------------------------
(* Each phase goes on to another one.                                      *)

Moves == Stub \/ Overrun \/ Send \/ Host \/ Abandon

(* The packet of a command has its dollar in front and nowhere else.       *)
LEMMA PacketOfCommand ==
  ASSUME NEW c \in Commands
  PROVE  /\ Packet(c) \in Seq(Byte) /\ Packet(c) # << >>
         /\ << >> \o Packet(c) = Packet(c)
         /\ Plain => \A i \in DOMAIN Packet(c) : Packet(c)[i] = Dollar => i = 1
<1>1. c \in Seq(Byte)
  BY CommandLemma
<1> DEFINE k == Packet(c)
<1>2. /\ k \in Seq(Byte)
      /\ Len(c) \in Nat /\ Len(k) = Len(c) + 4
      /\ \A i \in 1 .. Len(c) : k[i + 1] = c[i]
      /\ k[Len(c) + 2] = Hash
      /\ k[Len(c) + 3] = nib_to_hex(cksum(c) \div 16)
      /\ k[Len(c) + 4] = nib_to_hex(cksum(c))
  BY <1>1, PacketLemma
<1> HIDE DEF k
<1>3. nib_to_hex(cksum(c) \div 16) # Dollar /\ nib_to_hex(cksum(c)) # Dollar
  BY <1>1, ChecksumLemma, HexLemma
<1>4. ASSUME Plain, NEW i \in DOMAIN k, k[i] = Dollar PROVE i = 1
  <2>1. i \in 1 .. Len(c) + 4
    BY <1>2
  <2>2. CASE i \in 2 .. Len(c) + 1
    <3>1. i - 1 \in 1 .. Len(c) /\ (i - 1) + 1 = i
      BY <1>2, <2>2
    <3>2. k[i] = c[i - 1] /\ i - 1 \in DOMAIN c
      BY <1>1, <1>2, <3>1
    <3>3. QED
      BY <1>4, <3>2 DEF Plain
  <2>3. CASE i \in {Len(c) + 2, Len(c) + 3, Len(c) + 4}
    BY <1>2, <1>3, <1>4, <2>3 DEF Hash, Dollar
  <2>4. i = 1 \/ i \in 2 .. Len(c) + 1 \/ i \in {Len(c) + 2, Len(c) + 3, Len(c) + 4}
    <3>1. Len(c) \in Nat
      BY <1>2
    <3>2. QED
      BY <2>1, <3>1
  <2>5. QED
    BY <2>2, <2>3, <2>4
<1>5. k # << >> /\ << >> \o k = k
  BY <1>2
<1>6. QED
  BY <1>2, <1>4, <1>5 DEF k

(* The debugger sends its first command, or the stop reply goes through.   *)
LEMMA SilentStep ==
  ASSUME RspInv, Usual, Silent, Moves
  PROVE  LineInv' /\ LinkStep
<1>0. cmd = << >> /\ host = "idle"
  BY DEF Silent, RspInv, RspTypeOK
<1>1. CASE at \in {"start", "run"} /\ toStub = << >> /\ toHost = << >>
  <2>1. Stop \/ Send
    <3>1. ~HostTimeout /\ ~Abandon
      BY <1>0, <1>1 DEF HostTimeout, Abandon, Stalemate
    <3>2. ~Put
      BY <1>1 DEF Put
    <3>3. QED
      BY <1>1, <3>1, <3>2, NoChar, NoNews DEF Moves, Stub, Host
  <2>2. CASE Stop
    <3>1. Silent'
      BY <1>1, <2>2 DEF Silent, Stop, gdb_stub_entry, StartPut, hostVars
    <3>2. LinkStep
      BY <2>2 DEF LinkStep, Stop, hostVars
    <3>3. QED
      BY <3>1, <3>2 DEF LineInv
  <2>3. CASE Send
    <3>1. cmd' \in Commands /\ toStub' = Packet(cmd')
      BY <1>1, <2>3, PacketOfCommand DEF Send, HostSends
    <3>2. Unserved' /\ sent' = 1 /\ at' = at /\ toHost' = << >> /\ retry' = retry /\ data' = data
      BY <1>1, <2>3 DEF Send, Unserved, stubVars
    <3>3. LinkStep
      BY <1>0, <2>3 DEF Send, LinkStep
    <3>4. CASE at = "start"
      <4>1. Whole'
        BY <3>1, <3>2, <3>4 DEF Whole, P
      <4>2. QED
        BY <3>3, <4>1 DEF LineInv
    <3>5. CASE at = "run"
      <4>1. toStub' \in Seq(Byte) /\ \A i \in DOMAIN toStub' : toStub'[i] = Dollar => i = 1
        BY <3>1, PacketOfCommand DEF Usual
      <4>2. toHost' = Stops(0)
        BY <3>2, StopsLemma
      <4>3. \E n \in 0 .. StopsSent' : toHost' = Stops(n)
        BY <3>2, <3>5, <4>2 DEF StopsSent
      <4>4. Early'
        BY <3>2, <3>5, <4>1, <4>3 DEF Early, Untouched
      <4>5. QED
        BY <3>3, <4>4 DEF LineInv
    <3>6. QED
      BY <1>1, <3>4, <3>5
  <2>4. QED
    BY <2>1, <2>2, <2>3
<1>2. CASE at = "put" /\ retry = 0 /\ data = T05 /\ toStub = << >> /\ toHost = << >>
  <2>1. Put
    <3>1. ~HostTimeout /\ ~Abandon
      BY <1>0, <1>2 DEF HostTimeout, Abandon, Stalemate
    <3>2. ~Stop /\ ~Send
      BY <1>2 DEF Stop, Send, Silent
    <3>3. QED
      BY <1>2, <3>1, <3>2, NoChar, NoNews DEF Moves, Stub, Host
  <2>2. toHost' = T
    BY <1>2, <2>1, StopsLemma DEF Put, Putc, T
  <2>3. Silent'
    BY <1>2, <2>1, <2>2 DEF Silent, Put, hostVars, T
  <2>4. QED
    BY <2>1, <2>3 DEF LineInv, LinkStep, Put, hostVars
<1>3. CASE at = "ack" /\ toStub = << >> /\ toHost = T
  <2>1. T = T \o << >> /\ << >> \in Seq(Byte)
    BY StopsLemma
  <2>2. /\ toHost # << >> /\ Head(toHost) = Dollar /\ PacketReady
        /\ SubSeq(toHost, End(toHost) + 1, Len(toHost)) = << >>
    BY <1>3, <2>1, StopReply DEF PacketReady
  <2>3. HostPacket
    <3>1. ~HostTimeout /\ ~Abandon
      BY <1>3, <2>2 DEF HostTimeout, Abandon, Stalemate, Quiet
    <3>2. ~Stop /\ ~Send /\ ~Put
      BY <1>3, <2>2 DEF Stop, Send, Put, Silent
    <3>3. ~HostAck /\ ~HostSkips
      BY <1>0, <2>2 DEF HostAck, HostSkips
    <3>4. QED
      BY <1>3, <3>1, <3>2, <3>3, NoChar DEF Moves, Stub, Host
  <2>4. toHost' = << >> /\ toStub' = << Plus >> /\ UNCHANGED hostVars
    BY <1>0, <1>3, <2>2, <2>3 DEF HostPacket, HostSends
  <2>5. Silent'
    BY <1>3, <2>3, <2>4 DEF Silent, HostPacket, hostVars, stubVars
  <2>6. QED
    BY <2>3, <2>4, <2>5 DEF LineInv, LinkStep, HostPacket, hostVars
<1>4. CASE at = "ack" /\ toStub = << Plus >> /\ toHost = << >>
  <2>0. Len(toStub) = 1 /\ toStub # << >> /\ Head(toStub) = Plus /\ Tail(toStub) = << >>
    BY <1>4
  <2>1. GetAck
    <3>1. ~HostTimeout /\ ~Abandon
      BY <2>0, Waits
    <3>2. ~Stop /\ ~Send /\ ~Put /\ ~Overrun
      BY <1>4, <2>0 DEF Stop, Send, Put, Overrun, Silent
    <3>3. ~GetStart /\ ~GetBody /\ ~GetHi /\ ~GetLo
      BY <1>4 DEF GetStart, GetBody, GetHi, GetLo
    <3>4. QED
      BY <1>4, <3>1, <3>2, <3>3, NoNews DEF Moves, Stub, Host
  <2>2. at' = "start" /\ toStub' = << >>
    BY <2>0, <2>1 DEF GetAck, Getc, AfterAck
  <2>3. Silent'
    BY <1>4, <2>1, <2>2 DEF Silent, GetAck, hostVars
  <2>4. QED
    BY <2>1, <2>3 DEF LineInv, LinkStep, GetAck, hostVars
<1>5. QED
  BY <1>1, <1>2, <1>3, <1>4 DEF Silent

(* The debugger sends its next command to a stub that is reading.          *)
LEMMA AnsweredStep ==
  ASSUME RspInv, Usual, Answered, Moves
  PROVE  LineInv' /\ LinkStep
<1>0. cmd = << >> /\ host = "idle" /\ toHost = << >>
  BY DEF Answered, RspInv, RspTypeOK
<1>1. ~HostTimeout /\ ~Abandon
  BY <1>0 DEF HostTimeout, Abandon, Stalemate
<1>2. ~Put /\ ~Stop /\ ~Overrun
  BY DEF Put, Stop, Overrun, Answered, Reading
<1>3. GetAck \/ GetStart \/ Send
  BY <1>0, <1>1, <1>2, NoNews DEF Moves, Stub, Host, GetBody, GetHi, GetLo, Answered
<1>4. CASE GetStart
  BY <1>4, NoChar DEF GetStart, Answered
<1>5. CASE GetAck
  <2>1. toStub = << Plus >> /\ toStub # << >> /\ Head(toStub) = Plus /\ Tail(toStub) = << >>
    <3>1. toStub = << Plus >>
      BY <1>5 DEF Answered, GetAck
    <3>2. QED
      BY <3>1
  <2>2. at' = "start" /\ toStub' = << >>
    BY <1>5, <2>1 DEF GetAck, Getc, AfterAck
  <2>3. Answered'
    BY <1>5, <2>2 DEF Answered, GetAck, hostVars
  <2>4. QED
    BY <1>5, <2>3 DEF LineInv, LinkStep, GetAck, hostVars
<1>6. CASE Send
  <2>1. cmd' \in Commands /\ toStub' = toStub \o Packet(cmd')
    BY <1>6 DEF Send, HostSends
  <2>2. Unserved' /\ at' = at /\ toHost' = << >>
    BY <1>0, <1>6 DEF Send, Unserved, stubVars
  <2>3. Whole'
    BY <2>1, <2>2, PacketOfCommand DEF Whole, P, Answered
  <2>4. LinkStep
    BY <1>0, <1>6 DEF Send, LinkStep
  <2>5. QED
    BY <2>3, <2>4 DEF LineInv
<1>7. QED
  BY <1>3, <1>4, <1>5, <1>6

(* The debugger sends the packet again, or gives up.                       *)
LEMMA RefusedStep ==
  ASSUME RspInv, Usual, Refused, Moves
  PROVE  LineInv' /\ LinkStep
<1>0. /\ cmd \in Commands /\ cmd # << >> /\ host = "ack" /\ at = "start" /\ toStub = << >>
      /\ toHost # << >> /\ Head(toHost) = Minus /\ Tail(toHost) = << >> /\ toHost[1] = Minus
  BY CommandLemma DEF Refused, Unserved
<1>1. HostAck
  <2>1. ~HostTimeout /\ ~Abandon /\ ~HostPacket
    BY <1>0 DEF HostTimeout, Abandon, Stalemate, Quiet, HostPacket, PacketReady, Minus, Dollar
  <2>2. ~Stop /\ ~Send /\ ~Put /\ ~HostSkips
    BY <1>0 DEF Stop, Send, Put, HostSkips
  <2>3. QED
    BY <1>0, <2>1, <2>2, NoChar DEF Moves, Stub, Host
<1>2. toHost' = << >> /\ Again(Packet(cmd)) /\ UNCHANGED << stubVars, ran >>
  BY <1>0, <1>1 DEF HostAck, Minus, Plus
<1>3. CASE sent < HostTries
  <2>1. toStub' = P /\ UNCHANGED << host, cmd, answer >>
    BY <1>0, <1>2, <1>3, PacketOfCommand DEF Again, HostSends, P
  <2>2. Whole'
    BY <1>0, <1>2, <2>1 DEF Whole, Unserved, Refused, P, stubVars
  <2>3. QED
    BY <1>2, <2>1, <2>2 DEF LineInv, LinkStep
<1>4. CASE ~(sent < HostTries)
  <2>1. host' = "idle" /\ cmd' = << >> /\ UNCHANGED << toStub, answer >>
    BY <1>2, <1>4 DEF Again, Give
  <2>2. Silent'
    BY <1>0, <1>2, <2>1 DEF Silent, Refused, Unserved, stubVars
  <2>3. LinkStep
    BY <1>0, <1>2, <2>1 DEF LinkStep, Refused
  <2>4. QED
    BY <2>2, <2>3 DEF LineInv
<1>5. QED
  BY <1>3, <1>4

(* What is left of a sequence, what is at its front, what is added to it.  *)
LEMMA TailLemma ==
  ASSUME NEW s \in Seq(Byte), s # << >>
  PROVE  /\ Tail(s) \in Seq(Byte)
         /\ \A i \in DOMAIN Tail(s) :
              i # 0 /\ i + 1 \in DOMAIN s /\ i + 1 # 1 /\ Tail(s)[i] = s[i + 1]
  OBVIOUS

LEMMA FirstLemma ==
  ASSUME NEW s \in Seq(Byte), NEW x \in Byte
  PROVE  << x >> \o s # << >> /\ Head(<< x >> \o s) = x /\ Tail(<< x >> \o s) = s
  OBVIOUS

LEMMA LastLemma ==
  ASSUME NEW s \in Seq(Byte), NEW x \in Byte
  PROVE  /\ s \o << x >> \in Seq(Byte) /\ s \o << x >> # << >>
         /\ \A i \in DOMAIN (s \o << x >>) :
              (i \in DOMAIN s /\ (s \o << x >>)[i] = s[i]) \/ (s \o << x >>)[i] = x
  OBVIOUS

(* A lost command is sent again, to a stub that is reading then.           *)
LEMMA EarlyStep ==
  ASSUME RspInv, Usual, Early, Moves
  PROVE  LineInv' /\ LinkStep
<1>0. /\ host = "ack" /\ cmd \in Commands /\ sent = 1 /\ toStub \in Seq(Byte)
      /\ at \in {"run", "put", "ack", "start"} /\ retry \in 0 .. 3
  BY DEF Early, Unserved, RspInv, RspTypeOK
<1>1. PICK n \in 0 .. 3 : n <= StopsSent /\ toHost = Stops(n)
  <2>1. StopsSent \in 0 .. 3
    BY <1>0 DEF StopsSent
  <2>2. QED
    BY <2>1 DEF Early
<1>2. ASSUME toHost # << >>
      PROVE  /\ n \in 1 .. 3 /\ n - 1 \in 0 .. 2
             /\ Head(toHost) = Dollar /\ PacketReady
             /\ SubSeq(toHost, End(toHost) + 1, Len(toHost)) = Stops(n - 1)
  <2>1. n # 0
    BY <1>1, <1>2, StopsLemma
  <2>2. n \in 1 .. 3 /\ n - 1 \in 0 .. 2
    BY <2>1
  <2>3. Stops(n) = T \o Stops(n - 1)
    <3>1. n = 1 \/ n = 2 \/ n = 3
      BY <2>2
    <3>2. 1 - 1 = 0 /\ 2 - 1 = 1 /\ 3 - 1 = 2
      OBVIOUS
    <3>3. QED
      BY <3>1, <3>2, StopsLemma
  <2>4. Stops(n - 1) \in Seq(Byte)
    BY <2>2, StopsLemma
  <2>5. QED
    BY <1>1, <2>2, <2>3, <2>4, StopReply DEF PacketReady
<1>3. ~HostAck /\ ~HostSkips /\ ~Send /\ ~Abandon /\ ~GetBody /\ ~GetHi /\ ~GetLo
  <2>1. ~HostAck
    BY <1>2 DEF HostAck, Plus, Minus, Dollar
  <2>2. ~HostSkips
    BY <1>2 DEF HostSkips
  <2>3. QED
    BY <1>0, <2>1, <2>2 DEF Send, Abandon, Stalemate, GetBody, GetHi, GetLo
<1>4. ASSUME UNCHANGED << cmd, ran, answer >>, Early' PROVE LineInv' /\ LinkStep
  BY <1>4 DEF LineInv, LinkStep
<1>5. ASSUME UNCHANGED << hostVars, ran >>
      PROVE  Unserved' /\ sent' = 1 /\ UNCHANGED << cmd, ran, answer >>
  BY <1>0, <1>5 DEF Early, Unserved, hostVars
<1>6. CASE Stop
  <2>1. /\ at = "run" /\ at' = "put" /\ retry' = 0 /\ data' = T05
        /\ UNCHANGED << toStub, toHost, hostVars, ran >>
    BY <1>6 DEF Stop, gdb_stub_entry, StartPut
  <2>2. \E m \in 0 .. StopsSent' : toHost' = Stops(m)
    <3>1. n = 0 /\ StopsSent' = 0
      BY <1>1, <2>1 DEF StopsSent
    <3>2. QED
      BY <1>1, <2>1, <3>1
  <2>3. Early'
    BY <1>5, <2>1, <2>2 DEF Early, Untouched
  <2>4. QED
    BY <1>4, <1>5, <2>1, <2>3
<1>7. CASE Put
  <2>1. /\ at = "put" /\ at' = "ack" /\ retry' = retry + 1 /\ data = T05 /\ retry < 3
        /\ toHost' = Stops(n) \o T
        /\ UNCHANGED << toStub, data, hostVars, ran >>
    BY <1>1, <1>7 DEF Put, Putc, Early, T, RspInv, RspTypeOK
  <2>2. n \in 0 .. 2 /\ n + 1 \in 0 .. retry'
    BY <1>0, <1>1, <2>1 DEF StopsSent
  <2>3. toHost' = Stops(n + 1) /\ toHost' # << >>
    <3>1. n = 0 \/ n = 1 \/ n = 2
      BY <2>2
    <3>2. 0 + 1 = 1 /\ 1 + 1 = 2 /\ 2 + 1 = 3
      OBVIOUS
    <3>3. toHost' = Stops(n + 1)
      BY <2>1, <3>1, <3>2, StopsLemma
    <3>4. Stops(n + 1) = T \o Stops(n) /\ Stops(n) \in Seq(Byte)
      BY <2>2, <3>1, <3>2, StopsLemma
    <3>5. QED
      BY <3>3, <3>4, StopReply
  <2>4. \E m \in 0 .. StopsSent' : toHost' = Stops(m)
    BY <2>1, <2>2, <2>3 DEF StopsSent
  <2>5. Untouched => Untouched'
    BY <1>0, <2>1 DEF Untouched
  <2>6. Early'
    BY <1>5, <2>1, <2>3, <2>4, <2>5 DEF Early
  <2>7. QED
    BY <1>4, <1>5, <2>1, <2>6
<1>8. CASE GetAck
  <2>1. /\ at = "ack" /\ toStub # << >> /\ toStub' = Tail(toStub)
        /\ at' \in {"start", "put"}
        /\ UNCHANGED << toHost, data, retry, hostVars, ran >>
    BY <1>8 DEF GetAck, Getc, AfterAck
  <2>2. toStub' \in Seq(Byte) /\ \A i \in DOMAIN toStub' : toStub'[i] # Dollar
    BY <1>0, <2>1, TailLemma DEF Early
  <2>3. \E m \in 0 .. StopsSent' : toHost' = Stops(m)
    <3>1. n \in 0 .. StopsSent'
      BY <1>0, <1>1, <2>1 DEF StopsSent
    <3>2. QED
      BY <1>1, <2>1, <3>1
  <2>4. data' = T05
    BY <2>1 DEF Early
  <2>5. Early'
    BY <1>5, <2>1, <2>2, <2>3, <2>4 DEF Early
  <2>6. QED
    BY <1>4, <1>5, <2>1, <2>5
<1>9. CASE GetStart
  <2>1. /\ at = "start" /\ toStub # << >> /\ toStub' = Tail(toStub)
        /\ UNCHANGED << toHost, data, retry, hostVars, ran >>
    BY <1>9 DEF GetStart, Getc
  <2>2. at' = "start"
    <3>1. 1 \in DOMAIN toStub /\ Head(toStub) = toStub[1]
      BY <1>0, <2>1
    <3>2. Head(toStub) # Dollar
      BY <2>1, <3>1 DEF Early, Untouched
    <3>3. QED
      BY <1>9, <3>2 DEF GetStart, Getc
  <2>3. toStub' \in Seq(Byte) /\ \A i \in DOMAIN toStub' : toStub'[i] # Dollar
    BY <1>0, <2>1, TailLemma DEF Early
  <2>4. \E m \in 0 .. StopsSent' : toHost' = Stops(m)
    <3>1. n \in 0 .. StopsSent'
      BY <2>2 DEF StopsSent
    <3>2. QED
      BY <1>1, <2>1, <3>1
  <2>5. Early'
    BY <1>5, <2>1, <2>2, <2>3, <2>4 DEF Early
  <2>6. QED
    BY <1>4, <1>5, <2>1, <2>5
<1>10. CASE Overrun
  <2>1. /\ at \in {"run", "put"} /\ toStub # << >> /\ toStub' = Tail(toStub)
        /\ UNCHANGED << at, toHost, data, retry, hostVars, ran >>
    BY <1>0, <1>10 DEF Overrun, stubVars, Reading
  <2>2. toStub' \in Seq(Byte) /\ \A i \in DOMAIN toStub' : toStub'[i] # Dollar
    BY <1>0, <2>1, TailLemma DEF Early
  <2>3. \E m \in 0 .. StopsSent' : toHost' = Stops(m)
    <3>1. n \in 0 .. StopsSent'
      BY <1>0, <1>1, <2>1 DEF StopsSent
    <3>2. QED
      BY <1>1, <2>1, <3>1
  <2>4. Early'
    BY <1>5, <2>1, <2>2, <2>3 DEF Early
  <2>5. QED
    BY <1>4, <1>5, <2>1, <2>4
<1>11. CASE HostPacket
  <2>0. toHost # << >>
    BY <1>11 DEF HostPacket, PacketReady
  <2>1. /\ toHost' = Stops(n - 1) /\ toStub' = toStub \o << Plus >>
        /\ UNCHANGED << at, data, retry, hostVars, ran >>
    BY <1>0, <1>2, <1>11, <2>0 DEF HostPacket, HostSends, stubVars
  <2>2. /\ toStub' \in Seq(Byte) /\ toStub' # << >>
        /\ \A i \in DOMAIN toStub' : toStub'[i] = Dollar => i = 1 /\ Untouched
    <3>1. Plus \in Byte /\ Plus # Dollar
      BY DEF Plus, Dollar, Byte
    <3>2. QED
      BY <1>0, <2>1, <3>1, LastLemma DEF Early
  <2>3. \E m \in 0 .. StopsSent' : toHost' = Stops(m)
    <3>1. StopsSent' = StopsSent /\ StopsSent \in 0 .. 3
      BY <1>0, <2>1 DEF StopsSent
    <3>2. n - 1 \in 0 .. StopsSent'
      BY <1>1, <1>2, <2>0, <3>1
    <3>3. QED
      BY <2>1, <3>2
  <2>4. Untouched' = Untouched
    BY <2>1 DEF Untouched
  <2>5. Early'
    <3>1. at' \in {"put", "ack"} => data' = T05
      BY <2>1 DEF Early
    <3>2. QED
      BY <1>0, <1>5, <2>1, <2>2, <2>3, <2>4, <3>1 DEF Early
  <2>6. QED
    BY <1>4, <1>5, <2>1, <2>5
<1>12. CASE HostTimeout
  <2>1. toStub = << >> /\ toHost = << >> /\ at = "start"
    <3>1. toStub = << >> /\ at \in Reading /\ (toHost # << >> => ~PacketReady)
      BY <1>12 DEF HostTimeout, Quiet
    <3>2. toHost = << >>
      BY <1>2, <3>1
    <3>3. at # "ack"
      BY <3>1, <3>2 DEF Early
    <3>4. QED
      BY <1>0, <3>1, <3>2, <3>3 DEF Reading
  <2>2. toHost' = << >> /\ Again(Packet(cmd)) /\ UNCHANGED << stubVars, ran >>
    BY <1>0, <1>12, <2>1 DEF HostTimeout
  <2>3. toStub' = P /\ UNCHANGED << host, cmd, answer >>
    <3>1. sent < HostTries
      BY <1>0, RspAssumption DEF Usual
    <3>2. QED
      BY <1>0, <2>1, <2>2, <3>1, PacketOfCommand DEF Again, HostSends, P
  <2>4. Whole'
    BY <2>1, <2>2, <2>3 DEF Whole, Unserved, Early, P, stubVars
  <2>5. QED
    BY <2>2, <2>3, <2>4 DEF LineInv, LinkStep
<1>13. QED
  BY <1>3, <1>6, <1>7, <1>8, <1>9, <1>10, <1>11, <1>12 DEF Moves, Stub, Host

(* The packet of the command, as the stub reads it.                        *)
LEMMA PacketIs ==
  ASSUME cmd \in Commands
  PROVE  /\ cmd \in Seq(Byte) /\ cmd # << >> /\ Len(cmd) \in Nat
         /\ P \in Seq(Byte) /\ P # << >> /\ Len(P) = Len(cmd) + 4
         /\ P[1] = Dollar
         /\ \A i \in 1 .. Len(cmd) : P[i + 1] = cmd[i]
         /\ P[Len(cmd) + 2] = Hash
         /\ P[Len(cmd) + 3] = nib_to_hex(cksum(cmd) \div 16)
         /\ P[Len(cmd) + 4] = nib_to_hex(cksum(cmd))
<1>1. cmd \in Seq(Byte) /\ cmd # << >>
  BY CommandLemma
<1>2. P # << >>
  BY PacketOfCommand DEF P
<1>3. QED
  BY <1>1, <1>2, PacketLemma DEF P

(* Reading the packet a character at a time.                               *)
LEMMA RestLemma ==
  ASSUME cmd \in Commands, NEW k \in 1 .. Len(P)
  PROVE  Rest(k) # << >> /\ Head(Rest(k)) = P[k] /\ Tail(Rest(k)) = Rest(k + 1)
<1>1. P \in Seq(Byte) /\ Len(P) \in Nat
  BY PacketIs
<1>2. Len(P) \in k .. Len(P) /\ k \in 1 .. Len(P)
  BY <1>1
<1>3. Head(Rest(k)) = P[k] /\ Tail(Rest(k)) = Rest(k + 1)
  BY <1>1, <1>2, HeadTailOfSubSeq DEF Rest
<1>4. Len(Rest(k)) = Len(P) - k + 1
  BY <1>1, <1>2 DEF Rest
<1>5. Len(Rest(k)) # 0
  BY <1>1, <1>2, <1>4
<1>6. QED
  BY <1>3, <1>5

(* The stub takes the acknowledgement, or finds the packet's beginning.    *)
LEMMA WholeStep ==
  ASSUME RspInv, Usual, Whole, Moves
  PROVE  LineInv' /\ LinkStep
<1>0. cmd \in Commands /\ host = "ack" /\ toHost = << >> /\ at \in {"start", "ack"}
  BY DEF Whole, Unserved
<1>1. P \in Seq(Byte) /\ P # << >> /\ Plus \in Byte
  BY <1>0, PacketIs DEF Plus, Byte
<1>2. toStub # << >>
  BY <1>1, FirstLemma DEF Whole
<1>3. ~HostTimeout /\ ~Abandon
  BY <1>2, Waits
<1>4. GetStart \/ GetAck
  BY <1>0, <1>3, NoNews DEF Moves, Stub, Host, Put, Stop, Overrun, Send, GetBody, GetHi, GetLo, Reading
<1>5. CASE GetAck
  <2>1. Head(toStub) = Plus /\ Tail(toStub) = P
    BY <1>1, <1>5, FirstLemma DEF Whole, GetAck
  <2>2. at' = "start" /\ toStub' = P /\ UNCHANGED << toHost, hostVars, ran >>
    BY <1>5, <2>1 DEF GetAck, Getc, AfterAck
  <2>3. Whole'
    BY <2>2 DEF Whole, Unserved, hostVars, P
  <2>4. QED
    BY <2>2, <2>3 DEF LineInv, LinkStep, hostVars
<1>6. CASE GetStart
  <2>1. toStub = P
    BY <1>6 DEF Whole, GetStart
  <2>2. 1 \in 1 .. Len(P) /\ P = Rest(1) /\ 1 + 1 = 0 + 2
    BY <1>0, <1>1, PacketIs, SubSeqFull DEF Rest
  <2>3. Head(toStub) = Dollar /\ Tail(toStub) = Rest(0 + 2)
    BY <1>0, <2>1, <2>2, RestLemma, PacketIs
  <2>4. /\ at' = "body" /\ toStub' = Rest(0 + 2) /\ buf' = << >>
        /\ UNCHANGED << toHost, hostVars, ran >>
    BY <1>6, <2>3 DEF GetStart, Getc, Begin
  <2>5. buf' = Taken(0)
    <3>1. (IF 0 < PKT_BUF_SIZE - 1 THEN 0 ELSE PKT_BUF_SIZE - 1) = 0
      BY RspAssumption
    <3>2. SubSeq(cmd, 1, 0) = << >>
      BY SubSeqEmpty
    <3>3. QED
      BY <2>4, <3>1, <3>2 DEF Taken
  <2>6. Received'
    <3>1. cmd' = cmd /\ 0 \in 0 .. Len(cmd)
      BY <1>0, <2>4, PacketIs DEF hostVars
    <3>2. Taken(0)' = Taken(0) /\ Rest(0 + 2)' = Rest(0 + 2)
      BY <3>1 DEF Taken, Rest, P
    <3>3. \E k \in 0 .. Len(cmd') : buf' = Taken(k)' /\ toStub' = Rest(k + 2)'
      BY <2>4, <2>5, <3>1, <3>2
    <3>4. Unserved' /\ toHost' = << >>
      BY <2>4 DEF Whole, Unserved, hostVars
    <3>5. QED
      BY <2>4, <3>3, <3>4 DEF Received
  <2>7. QED
    BY <2>4, <2>6 DEF LineInv, LinkStep, hostVars
<1>7. QED
  BY <1>4, <1>5, <1>6

(* One character more, or none once the buffer is full.                    *)
LEMMA TakenLemma ==
  ASSUME cmd \in Commands, NEW k \in 0 .. Len(cmd) - 1, buf = Taken(k)
  PROVE  Taken(k + 1) = IF Len(buf) < PKT_BUF_SIZE - 1 THEN Append(buf, cmd[k + 1]) ELSE buf
<1>1. cmd \in Seq(Byte) /\ Len(cmd) \in Nat /\ PKT_BUF_SIZE - 1 \in Nat
  BY PacketIs, RspAssumption
<1>2. CASE k < PKT_BUF_SIZE - 1
  <2>1. buf = SubSeq(cmd, 1, k)
    BY <1>2 DEF Taken
  <2>2. Len(buf) = k
    BY <1>1, <2>1
  <2>3. Taken(k + 1) = SubSeq(cmd, 1, k + 1)
    <3>1. (IF k + 1 < PKT_BUF_SIZE - 1 THEN k + 1 ELSE PKT_BUF_SIZE - 1) = k + 1
      BY <1>1, <1>2
    <3>2. QED
      BY <3>1 DEF Taken
  <2>4. SubSeq(cmd, 1, k + 1) = SubSeq(cmd, 1, k) \o << cmd[k + 1] >>
    <3>1. 1 \in 1 .. Len(cmd) /\ k + 1 \in 1 .. Len(cmd) /\ (k + 1) - 1 = k
      BY <1>1
    <3>2. QED
      BY <1>1, <3>1, SubSeqRecursiveSecond
  <2>5. SubSeq(cmd, 1, k) \o << cmd[k + 1] >> = Append(SubSeq(cmd, 1, k), cmd[k + 1])
    <3>1. SubSeq(cmd, 1, k) \in Seq(Byte) /\ cmd[k + 1] \in Byte
      BY <1>1
    <3>2. QED
      BY <3>1, AppendIsConcat
  <2>6. QED
    BY <1>2, <2>1, <2>2, <2>3, <2>4, <2>5
<1>3. CASE ~(k < PKT_BUF_SIZE - 1)
  <2>1. buf = SubSeq(cmd, 1, PKT_BUF_SIZE - 1) /\ Taken(k + 1) = SubSeq(cmd, 1, PKT_BUF_SIZE - 1)
    <3>1. ~(k + 1 < PKT_BUF_SIZE - 1)
      BY <1>1, <1>3
    <3>2. QED
      BY <1>3, <3>1 DEF Taken
  <2>2. Len(buf) = PKT_BUF_SIZE - 1
    BY <1>1, <1>3, <2>1
  <2>3. ~(Len(buf) < PKT_BUF_SIZE - 1)
    BY <1>1, <2>2
  <2>4. Taken(k + 1) = buf
    BY <2>1
  <2>5. QED
    BY <2>3, <2>4
<1>4. QED
  BY <1>2, <1>3

(* The stub takes one character, and in the end executes or refuses.       *)
LEMMA ReceivedStep ==
  ASSUME RspInv, Usual, Received, Moves
  PROVE  LineInv' /\ LinkStep
<1>0. cmd \in Commands /\ host = "ack" /\ toHost = << >> /\ at \in {"body", "hi", "lo"}
  BY DEF Received, Unserved
<1>1. /\ cmd \in Seq(Byte) /\ Len(cmd) \in Nat /\ Len(P) = Len(cmd) + 4
      /\ \A i \in 1 .. Len(cmd) : P[i + 1] = cmd[i]
      /\ P[Len(cmd) + 2] = Hash
      /\ P[Len(cmd) + 3] = nib_to_hex(cksum(cmd) \div 16)
      /\ P[Len(cmd) + 4] = nib_to_hex(cksum(cmd))
  BY <1>0, PacketIs
<1>2. toStub # << >>
  <2>1. CASE at = "body"
    <3>1. PICK k \in 0 .. Len(cmd) : toStub = Rest(k + 2)
      BY <2>1 DEF Received
    <3>2. k + 2 \in 1 .. Len(P)
      BY <1>1
    <3>3. QED
      BY <1>0, <3>1, <3>2, RestLemma
  <2>2. CASE at = "hi"
    <3>1. Len(cmd) + 3 \in 1 .. Len(P)
      BY <1>1
    <3>2. QED
      BY <1>0, <2>2, <3>1, RestLemma DEF Received
  <2>3. CASE at = "lo"
    <3>1. Len(cmd) + 4 \in 1 .. Len(P)
      BY <1>1
    <3>2. QED
      BY <1>0, <2>3, <3>1, RestLemma DEF Received
  <2>4. QED
    BY <1>0, <2>1, <2>2, <2>3
<1>3. ~HostTimeout /\ ~Abandon
  BY <1>2, Waits
<1>4. GetBody \/ GetHi \/ GetLo
  BY <1>0, <1>3, NoNews DEF Moves, Stub, Host, Put, Stop, Overrun, Send, GetStart, GetAck, Reading
<1>5. ASSUME UNCHANGED << hostVars, ran, toHost >>
      PROVE  /\ Unserved' /\ toHost' = << >> /\ cmd' = cmd /\ LinkStep
             /\ \A k : Taken(k)' = Taken(k) /\ Rest(k)' = Rest(k)
  BY <1>0, <1>5 DEF Received, Unserved, LinkStep, Taken, Rest, P, hostVars
<1>6. CASE GetBody
  <2>1. PICK k \in 0 .. Len(cmd) : buf = Taken(k) /\ toStub = Rest(k + 2)
    BY <1>6 DEF Received, GetBody
  <2>2. k + 2 \in 1 .. Len(P) /\ k \in Nat
    BY <1>1
  <2>3. Head(toStub) = P[k + 2] /\ Tail(toStub) = Rest((k + 2) + 1)
    BY <1>0, <2>1, <2>2, RestLemma
  <2>4. Collect(P[k + 2]) /\ toStub' = Rest(k + 3) /\ UNCHANGED << hostVars, ran, toHost >>
    <3>1. (k + 2) + 1 = k + 3
      BY <2>2
    <3>2. QED
      BY <1>6, <2>3, <3>1 DEF GetBody, Getc
  <2>5. CASE k = Len(cmd)
    <3>1. at' = "hi" /\ buf' = buf
      BY <1>1, <2>4, <2>5 DEF Collect
    <3>2. Received'
      BY <1>5, <2>1, <2>4, <2>5, <3>1 DEF Received
    <3>3. QED
      BY <1>5, <2>4, <3>2 DEF LineInv
  <2>6. CASE k # Len(cmd)
    <3>1. k \in 0 .. Len(cmd) - 1 /\ k + 1 \in 1 .. Len(cmd) /\ (k + 1) + 1 = k + 2
          /\ k + 1 \in 0 .. Len(cmd) /\ (k + 1) + 2 = k + 3
      BY <1>1, <2>6
    <3>2. P[k + 2] = cmd[k + 1]
      BY <1>1, <3>1
    <3>3. cmd[k + 1] # Hash
      <4>1. k + 1 \in DOMAIN cmd
        BY <1>1, <3>1
      <4>2. QED
        BY <1>0, <4>1 DEF Usual, Plain
    <3>4. /\ at' = "body"
          /\ buf' = IF Len(buf) < PKT_BUF_SIZE - 1 THEN Append(buf, cmd[k + 1]) ELSE buf
      BY <2>4, <3>2, <3>3 DEF Collect
    <3>5. buf' = Taken(k + 1)
      BY <1>0, <2>1, <3>1, <3>4, TakenLemma
    <3>6. \E i \in 0 .. Len(cmd') : buf' = Taken(i)' /\ toStub' = Rest(i + 2)'
      BY <1>5, <2>4, <3>1, <3>5
    <3>7. Received'
      BY <1>5, <2>4, <3>4, <3>6 DEF Received
    <3>8. QED
      BY <1>5, <2>4, <3>7 DEF LineInv
  <2>7. QED
    BY <2>5, <2>6
<1>7. CASE GetHi
  <2>1. buf = Taken(Len(cmd)) /\ toStub = Rest(Len(cmd) + 3)
    BY <1>7 DEF Received, GetHi
  <2>2. Len(cmd) + 3 \in 1 .. Len(P) /\ (Len(cmd) + 3) + 1 = Len(cmd) + 4
    BY <1>1
  <2>3. Head(toStub) = P[Len(cmd) + 3] /\ Tail(toStub) = Rest(Len(cmd) + 4)
    BY <1>0, <2>1, <2>2, RestLemma
  <2>4. hex_to_nib(P[Len(cmd) + 3]) = cksum(cmd) \div 16
    BY <1>1, ChecksumLemma, HexLemma
  <2>5. /\ at' = "lo" /\ hi' = cksum(cmd) \div 16 /\ toStub' = Rest(Len(cmd) + 4)
        /\ buf' = buf /\ UNCHANGED << hostVars, ran, toHost >>
    BY <1>7, <2>3, <2>4 DEF GetHi, Getc
  <2>6. Received'
    BY <1>5, <2>1, <2>5 DEF Received
  <2>7. QED
    BY <1>5, <2>5, <2>6 DEF LineInv
<1>8. CASE GetLo
  <2>1. buf = Taken(Len(cmd)) /\ toStub = Rest(Len(cmd) + 4) /\ hi = cksum(cmd) \div 16
    BY <1>8 DEF Received, GetLo
  <2>2. Len(cmd) + 4 \in 1 .. Len(P)
    BY <1>1
  <2>3. Head(toStub) = P[Len(cmd) + 4] /\ Tail(toStub) = << >>
    <3>1. Head(toStub) = P[Len(cmd) + 4] /\ Tail(toStub) = Rest((Len(cmd) + 4) + 1)
      BY <1>0, <2>1, <2>2, RestLemma
    <3>2. Rest((Len(cmd) + 4) + 1) = << >>
      <4>1. (Len(cmd) + 4) + 1 \in Int /\ Len(P) \in Int /\ Len(P) < (Len(cmd) + 4) + 1
        BY <1>1
      <4>2. QED
        BY <4>1, SubSeqEmpty DEF Rest
    <3>3. QED
      BY <3>1, <3>2
  <2>4. rx_ck(hi, hex_to_nib(P[Len(cmd) + 4])) = cksum(cmd)
    <3>1. cksum(cmd) \in Byte
      BY <1>1, ChecksumLemma
    <3>2. hex_to_nib(P[Len(cmd) + 4]) = cksum(cmd) % 16
      BY <1>1, <3>1, HexLemma
    <3>3. QED
      BY <2>1, <3>1, <3>2, HexLemma
  <2>5. /\ toStub' = << >> /\ UNCHANGED << buf, hi, hostVars >>
        /\ IF cksum(cmd) = cksum(buf)
             THEN toHost' = << Plus >> /\ Dispatch
             ELSE toHost' = << Minus >> /\ at' = "start" /\ UNCHANGED << data, retry, ran >>
    BY <1>0, <1>8, <2>3, <2>4 DEF GetLo, Getc, Putc, Matches
  <2>6. Unserved /\ UNCHANGED << host, cmd, answer >>
    BY <2>5 DEF Received, hostVars
  <2>7. CASE Fits(cmd)
    <3>1. buf = cmd
      <4>1. (IF Len(cmd) < PKT_BUF_SIZE - 1 THEN Len(cmd) ELSE PKT_BUF_SIZE - 1) = Len(cmd)
        BY <1>1, <2>7, RspAssumption DEF Fits
      <4>2. Taken(Len(cmd)) = SubSeq(cmd, 1, Len(cmd))
        BY <4>1 DEF Taken
      <4>3. QED
        BY <1>1, <2>1, <4>2, SubSeqFull
    <3>2. toHost' = << Plus >> /\ ran = 0 /\ ran' = 1
      BY <2>5, <2>6, <3>1 DEF Dispatch, Unserved
    <3>3. \/ at' = "run" /\ Resumes(cmd)
          \/ at' = "put" /\ data' = AnswerTo(cmd)
      BY <2>5, <3>1 DEF Dispatch, StartPut, AnswerTo
    <3>4. << Plus >> = << Plus >> \o << >>
      OBVIOUS
    <3>5. toHost' = (IF host' = "ack" THEN << Plus >> ELSE << >>)
                    \o (IF at' = "ack" THEN Packet(data') ELSE << >>)
      BY <1>0, <2>6, <3>2, <3>3, <3>4
    <3>6. Served'
      BY <1>0, <2>5, <2>6, <2>7, <3>2, <3>3, <3>5 DEF Served, Unserved
    <3>7. LinkStep
      BY <2>6, <2>7, <3>2 DEF LinkStep
    <3>8. QED
      BY <3>6, <3>7 DEF LineInv
  <2>8. CASE ~Fits(cmd)
    <3>1. buf = SubSeq(cmd, 1, PKT_BUF_SIZE - 1)
      <4>1. ~(Len(cmd) < PKT_BUF_SIZE - 1)
        BY <1>1, <2>8, RspAssumption DEF Fits
      <4>2. QED
        BY <2>1, <4>1 DEF Taken
    <3>2. cksum(buf) # cksum(cmd)
      BY <1>0, <2>8, <3>1 DEF Usual, CutShows
    <3>3. toHost' = << Minus >> /\ at' = "start" /\ ran' = ran
      BY <2>5, <3>2
    <3>4. Refused'
      BY <2>5, <2>6, <2>8, <3>3 DEF Refused, Unserved
    <3>5. QED
      BY <2>6, <3>3, <3>4 DEF LineInv, LinkStep
  <2>9. QED
    BY <2>7, <2>8
<1>9. QED
  BY <1>4, <1>6, <1>7, <1>8

(* An answer is a payload that can be read back.                           *)
LEMMA AnswerLemma ==
  ASSUME NEW c
  PROVE  AnswerTo(c) \in Seq(Byte) /\ NoHash(AnswerTo(c)) /\ AnswerTo(c) # NoAnswer
<1>1. AnswerTo(c) \in {T05, OK, Data, Empty}
  BY DEF AnswerTo, Reply
<1>2. \A a \in {T05, OK, Data, Empty} : a \in Seq(Byte) /\ NoHash(a) /\ a # NoAnswer
  <2>1. T05 \in Seq(Byte) /\ NoHash(T05) /\ T05 # NoAnswer
    BY DEF T05, Byte, NoHash, Hash, NoAnswer
  <2>2. OK \in Seq(Byte) /\ NoHash(OK) /\ OK # NoAnswer
    BY DEF OK, Byte, NoHash, Hash, NoAnswer
  <2>3. Data \in Seq(Byte) /\ NoHash(Data) /\ Data # NoAnswer
    BY DEF Data, Byte, NoHash, Hash, NoAnswer
  <2>4. Empty \in Seq(Byte) /\ NoHash(Empty) /\ Empty # NoAnswer
    BY DEF Empty, Byte, NoHash, Hash, NoAnswer
  <2>5. QED
    BY <2>1, <2>2, <2>3, <2>4
<1>3. QED
  BY <1>1, <1>2

(* Acknowledgement and answer go back, and the debugger takes both.        *)
LEMMA ServedStep ==
  ASSUME RspInv, Usual, Served, Moves
  PROVE  LineInv' /\ LinkStep
<1>0. /\ cmd \in Commands /\ cmd # << >> /\ host \in {"ack", "reply"} /\ toStub = << >>
      /\ at \in {"run", "put", "ack"} /\ ran = 1 /\ Fits(cmd) /\ answer = NoAnswer
  BY CommandLemma DEF Served
<1> DEFINE rest == IF at = "ack" THEN Packet(AnswerTo(cmd)) ELSE << >>
<1>1. toHost = (IF host = "ack" THEN << Plus >> ELSE << >>) \o rest
  BY DEF Served
<1>2. Packet(AnswerTo(cmd)) \in Seq(Byte) /\ rest \in Seq(Byte)
  BY AnswerLemma, PacketLemma
<1>3. Plus \in Byte /\ << >> \o rest = rest
  <2> HIDE DEF rest
  <2>1. QED
    BY <1>2 DEF Plus, Byte
<1>4. ASSUME host = "ack"
      PROVE  /\ toHost # << >> /\ Head(toHost) = Plus /\ Tail(toHost) = rest /\ toHost[1] = Plus
             /\ toHost = << Plus >> \o rest
  <2> HIDE DEF rest
  <2>1. toHost = << Plus >> \o rest
    BY <1>1, <1>4
  <2>2. QED
    BY <1>2, <1>3, <2>1, FirstLemma
<1>5. ASSUME host = "reply" PROVE toHost = rest
  BY <1>1, <1>3, <1>5
<1>6. ASSUME host = "reply", at = "ack"
      PROVE  /\ PacketReady /\ Head(toHost) = Dollar /\ toHost # << >>
             /\ Payload(toHost) = AnswerTo(cmd) /\ Correct(toHost)
             /\ SubSeq(toHost, End(toHost) + 1, Len(toHost)) = << >>
  <2>1. toHost = Packet(AnswerTo(cmd)) \o << >> /\ << >> \in Seq(Byte)
    BY <1>2, <1>5, <1>6
  <2>2. QED
    BY <2>1, AnswerLemma, ScanLemma DEF PacketReady
<1>7. ~HostTimeout /\ ~Abandon
  <2>1. CASE at # "ack"
    BY <1>0, <2>1, Waits DEF Reading
  <2>2. CASE at = "ack" /\ host = "ack"
    BY <1>4, <2>2 DEF HostTimeout, Abandon, Stalemate, Quiet, Plus, Dollar
  <2>3. CASE at = "ack" /\ host = "reply"
    BY <1>6, <2>3 DEF HostTimeout, Abandon, Stalemate, Quiet
  <2>4. QED
    BY <1>0, <2>1, <2>2, <2>3
<1>8. ~HostSkips
  <2>1. CASE host = "ack"
    BY <1>4, <2>1 DEF HostSkips
  <2>2. CASE host = "reply" /\ at = "ack"
    BY <1>6, <2>2 DEF HostSkips
  <2>3. CASE host = "reply" /\ at # "ack"
    BY <1>5, <2>3, NoNews
  <2>4. QED
    BY <1>0, <2>1, <2>2, <2>3
<1>9. Stop \/ Put \/ HostAck \/ HostPacket
  BY <1>0, <1>7, <1>8, NoChar DEF Moves, Stub, Host, Send
<1>10. CASE Stop
  <2>1. /\ at = "run" /\ at' = "put" /\ data' = T05 /\ UNCHANGED << toStub, toHost, hostVars, ran >>
    BY <1>10 DEF Stop, gdb_stub_entry, StartPut
  <2>2. T05 = AnswerTo(cmd)
    BY <2>1 DEF Served, AnswerTo
  <2>3. Served'
    BY <1>0, <1>1, <2>1, <2>2 DEF Served, hostVars
  <2>4. QED
    BY <2>1, <2>3 DEF LineInv, LinkStep, hostVars
<1>11. CASE Put
  <2>1. /\ at = "put" /\ at' = "ack" /\ data' = data /\ data = AnswerTo(cmd)
        /\ toHost' = toHost \o Packet(data) /\ UNCHANGED << toStub, hostVars, ran >>
    BY <1>11 DEF Put, Putc, Served
  <2>2. toHost = IF host = "ack" THEN << Plus >> ELSE << >>
    <3>1. << Plus >> \o << >> = << Plus >> /\ << >> \o << >> = << >>
      OBVIOUS
    <3>2. QED
      BY <1>1, <2>1, <3>1
  <2>3. Served'
    BY <1>0, <2>1, <2>2 DEF Served, hostVars
  <2>4. QED
    BY <2>1, <2>3 DEF LineInv, LinkStep, hostVars
<1>12. CASE HostAck
  <2>1. host = "ack"
    BY <1>12 DEF HostAck
  <2>2. toHost' = rest /\ host' = "reply" /\ UNCHANGED << toStub, cmd, answer, stubVars, ran >>
    BY <1>4, <1>12, <2>1 DEF HostAck, Plus, Minus
  <2>3. Served'
    <3>1. toHost' = << >> \o rest
      BY <1>3, <2>2
    <3>2. at \in {"put", "ack"} => data = AnswerTo(cmd)
      BY <1>0 DEF Served
    <3>3. QED
      BY <1>0, <2>2, <3>1, <3>2 DEF Served, stubVars
  <2>4. QED
    BY <2>2, <2>3 DEF LineInv, LinkStep
<1>13. CASE HostPacket
  <2>1. host = "reply"
    BY <1>0, <1>4, <1>13 DEF HostPacket, PacketReady, Plus, Dollar
  <2>2. at = "ack"
    BY <1>5, <1>13, <2>1, NoNews
  <2>3. /\ toHost' = << >> /\ toStub' = << Plus >> /\ answer' = AnswerTo(cmd)
        /\ host' = "idle" /\ cmd' = << >> /\ UNCHANGED << stubVars, ran >>
    BY <1>0, <1>6, <1>13, <2>1, <2>2 DEF HostPacket, HostSends, Give
  <2>4. Answered'
    BY <2>2, <2>3, AnswerLemma DEF Answered, stubVars
  <2>5. LinkStep
    BY <1>0, <2>3 DEF LinkStep
  <2>6. QED
    BY <2>4, <2>5 DEF LineInv
<1>14. QED
  BY <1>9, <1>10, <1>11, <1>12, <1>13

----------------------------------------------------------------------------
(* The link.                                                               *)

(* A step from any phase, if the line does not fail in it.                 *)
LEMMA LineStep ==
  ASSUME RspInv, Usual, LineInv, Moves
  PROVE  LineInv' /\ LinkStep
  BY SilentStep, AnsweredStep, EarlyStep, WholeStep, ReceivedStep, RefusedStep, ServedStep
     DEF LineInv

(* The inductive invariant.                                                *)
LinkInv == RspInv /\ (faults = 0 => LineInv)

(* It holds at first: the program runs and the line is silent.             *)
LEMMA LinkStart == Init => LinkInv
  BY RspInit DEF LinkInv, Init, LineInv, Silent

(* A step from where the line has not failed: it may fail in it.           *)
LEMMA LinkSteps ==
  ASSUME Usual, LinkInv, faults = 0, [Next]_vars
  PROVE  /\ faults' = 0 => LineInv'
         /\ [Link!LinkNext]_(Link!linkVars)
<1>1. CASE Moves
  <2>1. faults' = faults
    BY <1>1 DEF Moves, Stub, Host, GetStart, GetBody, GetHi, GetLo, Put, GetAck, Stop, Overrun,
                Send, HostAck, HostSkips, HostPacket, HostTimeout, Abandon
  <2>2. LineInv' /\ LinkStep
    BY <1>1, LineStep DEF LinkInv
  <2>3. [Link!LinkNext]_(Link!linkVars)
    BY <2>1, <2>2 DEF LinkStep, NoAnswer, Link!LinkNext, Link!linkVars, Link!Issue,
                      Link!Execute, Link!Answer, Link!GiveUp
  <2>4. QED
    BY <2>2, <2>3
<1>2. CASE Fault
  <2>1. faults' > 0 /\ UNCHANGED << cmd, ran, answer >>
    BY <1>2 DEF Fault, hostVars
  <2>2. Link!Fail
    BY <2>1 DEF Link!Fail
  <2>3. QED
    BY <2>1, <2>2 DEF Link!LinkNext
<1>3. CASE UNCHANGED vars
  <2>1. UNCHANGED << cmd, ran, answer, faults >>
    BY <1>3 DEF vars, hostVars
  <2>2. LineInv' = LineInv
    BY <1>3 DEF vars, stubVars, hostVars, LineInv, Silent, Answered, Early, Whole, Received,
                Refused, Served, Unserved, Untouched, StopsSent, Taken, Rest, P
  <2>3. QED
    BY <2>1, <2>2 DEF LinkInv, Link!linkVars
<1>4. QED
  BY <1>1, <1>2, <1>3 DEF Next, Moves

(* Until the line fails, the stub executes the debugger's command and no   *)
(* other, once, and what the debugger takes for its answer is its answer:  *)
(* for all commands, every size of the buffer and any number of faults     *)
(* that come later.                                                        *)
THEOREM LinkUntilFault ==
  ASSUME Usual
  PROVE  Spec => /\ [](faults = 0 => LineInv)
                 /\ [][faults = 0 => [Link!LinkNext]_(Link!linkVars)]_vars
<1>1. LinkInv /\ [Next]_vars => LinkInv'
  <2> SUFFICES ASSUME LinkInv, [Next]_vars PROVE LinkInv'
    OBVIOUS
  <2>1. RspInv'
    BY TypesNext DEF LinkInv
  <2>2. faults' = 0 => faults = 0
    <3>1. faults \in Nat
      BY RspAssumption DEF LinkInv, RspInv, RspTypeOK
    <3>2. faults' = faults \/ faults' = faults + 1
      BY DEF vars, Next, Fault, Stub, Host, GetStart, GetBody, GetHi, GetLo, Put, GetAck, Stop, Overrun,
             Send, HostAck, HostSkips, HostPacket, HostTimeout, Abandon
    <3>3. QED
      BY <3>1, <3>2
  <2>3. QED
    BY <2>1, <2>2, LinkSteps DEF LinkInv
<1>2. LinkInv /\ [Next]_vars => (faults = 0 => [Link!LinkNext]_(Link!linkVars))
  BY LinkSteps
<1>3. LinkInv => (faults = 0 => LineInv)
  BY DEF LinkInv
<1>4. QED
  BY <1>1, <1>2, <1>3, LinkStart, PTL DEF Spec

(* On a line that does not fail the packet layer is the link.              *)
THEOREM LinkIsKept ==
  ASSUME Usual, MaxFaults = 0
  PROVE  Spec => ImplementsLink
<1>1. RspInv => faults = 0
  BY RspAssumption DEF RspInv, RspTypeOK
<1>2. Init => Link!LinkInit
  BY DEF Init, Link!LinkInit, NoAnswer
<1>3. LinkInv /\ [Next]_vars /\ faults = 0 => [Link!LinkNext]_(Link!linkVars)
  BY LinkSteps
<1>4. LinkInv => faults = 0
  BY <1>1 DEF LinkInv
<1>5. LinkInv /\ [Next]_vars => LinkInv'
  <2> SUFFICES ASSUME LinkInv, [Next]_vars PROVE LinkInv'
    OBVIOUS
  <2>1. RspInv' /\ LineInv'
    <3>1. RspInv'
      BY TypesNext DEF LinkInv
    <3>2. faults' = 0
      BY <3>1 DEF RspInv, RspTypeOK
    <3>3. QED
      BY <1>4, <3>1, <3>2, LinkSteps
  <2>2. QED
    BY <2>1 DEF LinkInv
<1>6. QED
  BY <1>2, <1>3, <1>4, <1>5, LinkStart, PTL DEF Spec, ImplementsLink, Link!LinkSpec

=============================================================================
