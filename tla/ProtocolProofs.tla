---------------------------- MODULE ProtocolProofs ----------------------------
(***************************************************************************)
(* Packets arrive as they were put together, for any commands, data and    *)
(* number of packets: the types of the protocol, and its decoder.          *)
(***************************************************************************)
EXTENDS Protocol, SequenceTheorems, WellFoundedInduction, TLAPS

(* Exclusive or: a number again, undone by doing it twice, and nothing with zero. *)

LEMMA XorTwo ==
  ASSUME NEW x \in 0..3, NEW y \in 0..3
  PROVE  Xor2(x, y) \in 0..3 /\ Xor2(Xor2(x, y), y) = x /\ Xor2(x, 0) = x
BY DEF Xor2

LEMMA XorFour ==
  ASSUME NEW x \in 0..15, NEW y \in 0..15
  PROVE  Xor4(x, y) \in 0..15 /\ Xor4(Xor4(x, y), y) = x /\ Xor4(x, 0) = x
<1>1. /\ x % 4 \in 0..3 /\ x \div 4 \in 0..3 /\ x = (x % 4) + 4 * (x \div 4)
      /\ y % 4 \in 0..3 /\ y \div 4 \in 0..3
  OBVIOUS
<1>2. PICK u \in 0..3, v \in 0..3 :
        /\ Xor2(x % 4, y % 4) = u /\ Xor2(x \div 4, y \div 4) = v
        /\ Xor2(u, y % 4) = x % 4 /\ Xor2(v, y \div 4) = x \div 4
  <2>1. Xor2(x % 4, y % 4) \in 0..3 /\ Xor2(Xor2(x % 4, y % 4), y % 4) = x % 4
    BY <1>1, XorTwo
  <2>2. /\ Xor2(x \div 4, y \div 4) \in 0..3
        /\ Xor2(Xor2(x \div 4, y \div 4), y \div 4) = x \div 4
    BY <1>1, XorTwo
  <2> QED BY <2>1, <2>2
<1>3. Xor4(x, y) = u + 4 * v
  BY <1>2 DEF Xor4
<1>4. /\ u + 4 * v \in 0..15
      /\ (u + 4 * v) % 4 = u /\ (u + 4 * v) \div 4 = v
  OBVIOUS
<1>5. Xor4(u + 4 * v, y) = x
  BY <1>1, <1>2, <1>4 DEF Xor4
<1>6. Xor4(x, 0) = x
  <2>1. 0 % 4 = 0 /\ 0 \div 4 = 0 /\ 0 \in 0..3
    OBVIOUS
  <2>2. Xor2(x % 4, 0) = x % 4 /\ Xor2(x \div 4, 0) = x \div 4
    BY <1>1, <2>1, XorTwo
  <2> QED BY <1>1, <2>1, <2>2 DEF Xor4
<1> QED BY <1>3, <1>4, <1>5, <1>6

LEMMA XorEight ==
  ASSUME NEW x \in 0..255, NEW y \in 0..255
  PROVE  Xor8(x, y) \in 0..255 /\ Xor8(Xor8(x, y), y) = x /\ Xor8(x, 0) = x
<1>1. /\ x % 16 \in 0..15 /\ x \div 16 \in 0..15 /\ x = (x % 16) + 16 * (x \div 16)
      /\ y % 16 \in 0..15 /\ y \div 16 \in 0..15
  OBVIOUS
<1>2. PICK u \in 0..15, v \in 0..15 :
        /\ Xor4(x % 16, y % 16) = u /\ Xor4(x \div 16, y \div 16) = v
        /\ Xor4(u, y % 16) = x % 16 /\ Xor4(v, y \div 16) = x \div 16
  <2>1. Xor4(x % 16, y % 16) \in 0..15 /\ Xor4(Xor4(x % 16, y % 16), y % 16) = x % 16
    BY <1>1, XorFour
  <2>2. /\ Xor4(x \div 16, y \div 16) \in 0..15
        /\ Xor4(Xor4(x \div 16, y \div 16), y \div 16) = x \div 16
    BY <1>1, XorFour
  <2> QED BY <2>1, <2>2
<1>3. Xor8(x, y) = u + 16 * v
  BY <1>2 DEF Xor8
<1>4. /\ u + 16 * v \in 0..255
      /\ (u + 16 * v) % 16 = u /\ (u + 16 * v) \div 16 = v
  OBVIOUS
<1>5. Xor8(u + 16 * v, y) = x
  BY <1>1, <1>2, <1>4 DEF Xor8
<1>6. Xor8(x, 0) = x
  <2>1. 0 % 16 = 0 /\ 0 \div 16 = 0 /\ 0 \in 0..15
    OBVIOUS
  <2>2. Xor4(x % 16, 0) = x % 16 /\ Xor4(x \div 16, 0) = x \div 16
    BY <1>1, <2>1, XorFour
  <2> QED BY <1>1, <2>1, <2>2 DEF Xor8
<1> QED BY <1>3, <1>4, <1>5, <1>6

\* Long intervals are slow in the provers, so Byte and U16 are left unexpanded from here on.
LEMMA XorOctets ==
  ASSUME NEW x \in Byte, NEW y \in Byte
  PROVE  0 \in Byte /\ Xor8(x, y) \in Byte /\ Xor8(Xor8(x, y), y) = x /\ Xor8(x, 0) = x
<1>1. Byte = 0..255
  BY DEF Byte
<1>2. 0 \in 0..255
  OBVIOUS
<1>3. Xor8(x, y) \in 0..255 /\ Xor8(Xor8(x, y), y) = x /\ Xor8(x, 0) = x
  <2>1. x \in 0..255 /\ y \in 0..255
    BY <1>1
  <2> QED BY <2>1, XorEight
<1> QED BY <1>1, <1>2, <1>3

LEMMA Within == \A m \in Nat, x \in Nat : x <= m <=> x \in 0..m
OBVIOUS

LEMMA Wide == \A x \in Nat : x \in U16 <=> x < 65536
<1>1. PICK m \in Nat : m = 65535
  OBVIOUS
<1>2. U16 = 0..m
  BY <1>1 DEF U16
<1>3. \A x \in Nat : x <= m <=> x < 65536
  BY <1>1
<1> QED BY <1>2, <1>3, Within

LEMMA WideType == U16 \subseteq Nat
<1>1. PICK m \in Nat : m = 65535
  OBVIOUS
<1>2. U16 = 0..m
  BY <1>1 DEF U16
<1>3. 0..m \subseteq Nat
  OBVIOUS
<1> QED BY <1>2, <1>3

LEMMA Narrow == \A x \in Nat : x \in Byte <=> x < 256
BY DEF Byte

LEMMA NarrowType == Byte \subseteq Nat
BY DEF Byte

LEMMA Halves ==
  ASSUME NEW x \in U16
  PROVE  x % 256 \in Byte /\ x \div 256 \in Byte /\ x = (x % 256) + 256 * (x \div 256)
<1>1. x \in Nat /\ x < 65536
  BY Wide, WideType
<1>2. /\ x % 256 \in Nat /\ x % 256 < 256 /\ x \div 256 \in Nat /\ x \div 256 < 256
      /\ x = (x % 256) + 256 * (x \div 256)
  BY <1>1
<1> QED BY <1>2, Narrow

LEMMA Joined ==
  ASSUME NEW u \in Byte, NEW v \in Byte
  PROVE  u + 256 * v \in U16 /\ (u + 256 * v) % 256 = u /\ (u + 256 * v) \div 256 = v
<1>1. u \in Nat /\ v \in Nat /\ u < 256 /\ v < 256
  BY Narrow, NarrowType
<1>2. u + 256 * v \in Nat /\ u + 256 * v < 65536
  BY <1>1
<1>3. (u + 256 * v) % 256 = u /\ (u + 256 * v) \div 256 = v
  BY <1>1
<1> QED BY <1>2, <1>3, Wide

LEMMA Small == \A x \in Byte : x \in U16 /\ x % 256 = x /\ x \div 256 = 0
<1>1. ASSUME NEW x \in Byte PROVE x \in U16 /\ x % 256 = x /\ x \div 256 = 0
  <2>1. x \in Nat /\ x < 256
    BY Narrow, NarrowType
  <2> QED BY <2>1, Wide
<1> QED BY <1>1

\* The exclusive or of a u16 with a byte leaves the upper half.
LEMMA XorHalves ==
  ASSUME NEW x \in U16, NEW y \in Byte
  PROVE  /\ Xor(x, y) \in U16
         /\ Xor(x, y) % 256 = Xor8(x % 256, y) /\ Xor(x, y) \div 256 = x \div 256
<1>1. x % 256 \in Byte /\ x \div 256 \in Byte
  BY Halves
<1>2. PICK u \in Byte, v \in Byte : u = Xor8(x % 256, y) /\ v = x \div 256
  BY <1>1, XorOctets
<1>3. v = Xor8(x \div 256, 0)
  BY <1>1, <1>2, XorOctets
<1>4. Xor(x, y) = u + 256 * v
  BY <1>2, <1>3, Small DEF Xor
<1>5. u + 256 * v \in U16 /\ (u + 256 * v) % 256 = u /\ (u + 256 * v) \div 256 = v
  BY Joined
<1> QED BY <1>2, <1>4, <1>5

LEMMA XorByte ==
  ASSUME NEW x \in Byte, NEW y \in Byte
  PROVE  Xor(x, y) \in Byte /\ Xor(x, y) = Xor8(x, y) /\ Xor(Xor(x, y), y) = x
<1>1. ASSUME NEW a \in Byte PROVE Xor(a, y) = Xor8(a, y) /\ Xor8(a, y) \in Byte
  <2>1. PICK b : b = Xor(a, y)
    OBVIOUS
  <2>2. a \in U16 /\ a % 256 = a /\ a \div 256 = 0
    BY Small
  <2>3. b \in U16 /\ b % 256 = Xor8(a, y) /\ b \div 256 = 0
    BY <2>1, <2>2, XorHalves
  <2>4. b = (b % 256) + 256 * 0
    BY <2>3, Halves
  <2>5. Xor8(a, y) \in Byte /\ Xor8(a, y) \in Nat
    BY XorOctets, NarrowType
  <2> QED BY <2>1, <2>3, <2>4, <2>5
<1>2. Xor8(Xor8(x, y), y) = x
  BY XorOctets
<1> QED BY <1>1, <1>2

\* A checksum coded as a u16 and decoded by its lower byte.
LEMMA XorBack ==
  ASSUME NEW x \in U16, NEW y \in Byte
  PROVE  /\ Xor(x, y) \in U16 /\ Xor(x, y) % 256 \in Byte /\ Xor(x, y) \div 256 \in Byte
         /\ Xor(Xor(x, y) % 256, y) + 256 * (Xor(x, y) \div 256) = x
<1>1. PICK z : z = Xor(x, y)
  OBVIOUS
<1>2. z \in U16 /\ z % 256 = Xor8(x % 256, y) /\ z \div 256 = x \div 256
  BY <1>1, XorHalves
<1>3. x % 256 \in Byte /\ x \div 256 \in Byte /\ x = (x % 256) + 256 * (x \div 256)
  BY Halves
<1>4. Xor(x % 256, y) = Xor8(x % 256, y) /\ Xor(Xor(x % 256, y), y) = x % 256
  BY <1>3, XorByte
<1>5. z % 256 \in Byte /\ z \div 256 \in Byte
  BY <1>2, Halves
<1>6. Xor(z % 256, y) = x % 256
  BY <1>2, <1>4
<1> QED BY <1>1, <1>2, <1>3, <1>5, <1>6

(* The checksum *)

Crc == [h : Byte, l : Byte]

\* A set of naturals has a least element.
LEMMA Least ==
  ASSUME NEW S, S \subseteq Nat, S # {} PROVE \E x \in S : \A y \in S : ~(y < x)
<1>1. PICK x \in S : \A y \in S : ~(<<y, x>> \in OpToRel(<, Nat))
  BY NatLessThanWellFounded, WFMin
<1> QED BY <1>1 DEF OpToRel

LEMMA Tables == \A k \in 1..256 : CRC_Array_H[k] \in Byte /\ CRC_Array_L[k] \in Byte
<1>1. CRC_Array_H \in Seq(Byte)
  BY DEF CRC_Array_H, Byte
<1>2. CRC_Array_L \in Seq(Byte)
  BY DEF CRC_Array_L, Byte
<1>3. Len(CRC_Array_H) = 256 /\ Len(CRC_Array_L) = 256
  BY DEF CRC_Array_H, CRC_Array_L
<1>4. PICK n \in Nat : n = 256
  OBVIOUS
<1>5. Len(CRC_Array_H) = n /\ Len(CRC_Array_L) = n
  BY <1>3, <1>4
<1>6. \A k \in 1..n : CRC_Array_H[k] \in Byte /\ CRC_Array_L[k] \in Byte
  BY <1>1, <1>2, <1>5
<1> QED BY <1>4, <1>6

LEMMA CrcStepType ==
  ASSUME NEW c \in Crc, NEW b \in Byte PROVE CrcStep(c, b) \in Crc
<1>1. PICK k : k = Xor(c.h, b)
  OBVIOUS
<1>2. k \in Byte /\ c.l \in Byte
  BY <1>1, XorByte DEF Crc
<1>3. k + 1 \in 1..256
  BY <1>2 DEF Byte
<1>4. Xor(c.l, CRC_Array_H[k + 1]) \in Byte /\ CRC_Array_L[k + 1] \in Byte
  BY <1>2, <1>3, Tables, XorByte
<1> QED BY <1>1, <1>4 DEF CrcStep, Crc

Parts(bytes) == [c : Crc, i : 1..Len(bytes)+1, j : 0..Len(bytes)]

\* What the recursion of Message_count_CRC_2 makes of a part, given the results g of others.
Over(bytes, g, p) ==
  IF p.i >= p.j THEN IF p.i = p.j THEN CrcStep(p.c, bytes[p.i]) ELSE p.c
  ELSE LET m == (p.i + p.j) \div 2
       IN g[[c |-> g[[p EXCEPT !.j = m]], i |-> m + 1, j |-> p.j]]

LEMMA Middle ==
  ASSUME NEW i \in Nat, NEW j \in Nat, NEW n \in Nat, i < j, j <= n
  PROVE  /\ (i + j) \div 2 \in 0..n /\ (i + j) \div 2 + 1 \in 1..n+1
         /\ i <= (i + j) \div 2 /\ (i + j) \div 2 < j
<1>1. PICK m \in Nat : m = (i + j) \div 2 /\ i + j <= 2 * m + 1 /\ 2 * m <= i + j
  OBVIOUS
<1>2. i <= m /\ m < j
  BY <1>1
<1>3. m \in 0..n /\ m + 1 \in 1..n+1
  BY <1>2
<1> QED BY <1>1, <1>2, <1>3

\* A part of more than one byte is given to the two halves, which are shorter.
LEMMA Halving ==
  ASSUME NEW bytes \in Seq(Byte), NEW p \in Parts(bytes), ~(p.i >= p.j), NEW m, m = (p.i + p.j) \div 2
  PROVE  /\ [p EXCEPT !.j = m] \in Parts(bytes)
         /\ [p EXCEPT !.j = m].i = p.i /\ [p EXCEPT !.j = m].j = m /\ m - p.i < p.j - p.i
         /\ \A c \in Crc : [c |-> c, i |-> m + 1, j |-> p.j] \in Parts(bytes)
         /\ p.j - (m + 1) < p.j - p.i
<1>1. PICK n \in Nat : n = Len(bytes)
  OBVIOUS
<1>2. p.c \in Crc /\ p.i \in 1..n+1 /\ p.j \in 0..n
  BY <1>1 DEF Parts
<1>3. m \in 0..n /\ m + 1 \in 1..n+1 /\ p.i <= m /\ m < p.j
  <2>1. PICK i \in Nat, j \in Nat : i = p.i /\ j = p.j /\ i < j /\ j <= n
    BY <1>2
  <2> QED BY <2>1, Middle
<1>4. p = [c |-> p.c, i |-> p.i, j |-> p.j]
  BY DEF Parts
<1>5. [p EXCEPT !.j = m] = [c |-> p.c, i |-> p.i, j |-> m]
  BY <1>4
<1> QED BY <1>1, <1>2, <1>3, <1>5 DEF Parts

\* Results for parts up to any length.
LEMMA ChecksumRuns ==
  ASSUME NEW bytes \in Seq(Byte)
  PROVE  \A w \in Nat : \E g \in [Parts(bytes) -> Crc] :
           \A p \in Parts(bytes) : p.j - p.i < w => g[p] = Over(bytes, g, p)
<1> DEFINE Good(w) == \E g \in [Parts(bytes) -> Crc] :
                        \A p \in Parts(bytes) : p.j - p.i < w => g[p] = Over(bytes, g, p)
           bad == {w \in Nat : ~Good(w)}
<1>0. \A p \in Parts(bytes) : p.c \in Crc /\ p.i \in Nat /\ p.j \in Nat /\ p.i >= 1 /\ p.j <= Len(bytes)
                             /\ (p.i = p.j => bytes[p.i] \in Byte)
  BY DEF Parts
<1>1. Good(0)
  <2> DEFINE g == [p \in Parts(bytes) |-> p.c]
  <2>1. g \in [Parts(bytes) -> Crc]
    BY <1>0
  <2>2. ASSUME NEW p \in Parts(bytes), p.j - p.i < 0 PROVE g[p] = Over(bytes, g, p)
    <3>1. p.i >= p.j /\ p.i # p.j
      BY <1>0, <2>2
    <3> QED BY <3>1 DEF Over
  <2> QED BY <2>1, <2>2
<1>2. ASSUME NEW w \in Nat, Good(w) PROVE Good(w + 1)
  <2>1. PICK g \in [Parts(bytes) -> Crc] : \A p \in Parts(bytes) : p.j - p.i < w => g[p] = Over(bytes, g, p)
    BY <1>2
  <2> DEFINE f == [p \in Parts(bytes) |-> IF p.j - p.i < w THEN g[p] ELSE Over(bytes, g, p)]
  <2>2. \A p \in Parts(bytes) : Over(bytes, g, p) \in Crc
    <3> SUFFICES ASSUME NEW p \in Parts(bytes) PROVE Over(bytes, g, p) \in Crc
      OBVIOUS
    <3>1. CASE p.i >= p.j
      <4>1. p.i = p.j => CrcStep(p.c, bytes[p.i]) \in Crc
        BY <1>0, CrcStepType
      <4> QED BY <1>0, <3>1, <4>1 DEF Over
    <3>2. CASE ~(p.i >= p.j)
      <4>1. PICK m : m = (p.i + p.j) \div 2
        OBVIOUS
      <4>2. g[[p EXCEPT !.j = m]] \in Crc
        BY <3>2, <4>1, Halving
      <4>3. g[[c |-> g[[p EXCEPT !.j = m]], i |-> m + 1, j |-> p.j]] \in Crc
        BY <3>2, <4>1, <4>2, Halving
      <4> QED BY <3>2, <4>1, <4>3 DEF Over
    <3> QED BY <3>1, <3>2
  <2>3. f \in [Parts(bytes) -> Crc]
    BY <2>2
  <2>4. \A p \in Parts(bytes) : p.j - p.i < w + 1 => Over(bytes, f, p) = Over(bytes, g, p)
    <3> SUFFICES ASSUME NEW p \in Parts(bytes), p.j - p.i < w + 1
                  PROVE  Over(bytes, f, p) = Over(bytes, g, p)
      OBVIOUS
    <3>1. CASE p.i >= p.j
      BY <3>1 DEF Over
    <3>2. CASE ~(p.i >= p.j)
      <4>1. PICK m : m = (p.i + p.j) \div 2
        OBVIOUS
      <4>2. m \in Int /\ m - p.i < w /\ p.j - (m + 1) < w
        BY <1>0, <3>2, <4>1, Halving
      <4>3. PICK q : q = [p EXCEPT !.j = m]
        OBVIOUS
      <4>4. q \in Parts(bytes) /\ q.j - q.i < w
        BY <3>2, <4>1, <4>2, <4>3, Halving
      <4>5. f[q] = g[q] /\ g[q] \in Crc
        BY <4>4
      <4>6. PICK r : r = [c |-> g[q], i |-> m + 1, j |-> p.j]
        OBVIOUS
      <4>7. r \in Parts(bytes) /\ r.j - r.i < w
        BY <3>2, <4>1, <4>2, <4>5, <4>6, Halving
      <4>8. f[r] = g[r]
        BY <4>7
      <4>9. Over(bytes, g, p) = g[r] /\ Over(bytes, f, p) = f[r]
        <5> HIDE DEF f
        <5> QED BY <3>2, <4>1, <4>3, <4>5, <4>6 DEF Over
      <4> QED BY <4>8, <4>9
    <3> QED BY <3>1, <3>2
  <2>5. ASSUME NEW p \in Parts(bytes), p.j - p.i < w + 1 PROVE f[p] = Over(bytes, f, p)
    <3>1. f[p] = Over(bytes, g, p)
      BY <2>1
    <3> QED BY <2>4, <2>5, <3>1
  <2> HIDE DEF f
  <2> QED BY <2>3, <2>5
<1>3. bad = {}
  <2> SUFFICES ASSUME bad # {} PROVE FALSE
    OBVIOUS
  <2> HIDE DEF Good
  <2>1. PICK w \in bad : \A v \in bad : ~(v < w)
    BY Least
  <2>2. w \in Nat /\ ~Good(w) /\ w # 0
    BY <1>1
  <2>3. w - 1 \in Nat /\ w - 1 < w
    BY <2>2
  <2>4. Good(w - 1)
    BY <2>1, <2>3
  <2>5. Good((w - 1) + 1) /\ (w - 1) + 1 = w
    BY <1>2, <2>2, <2>3, <2>4
  <2> QED BY <2>2, <2>5
<1> HIDE DEF Good
<1>4. \A w \in Nat : Good(w)
  BY <1>3
<1> QED BY <1>4 DEF Good

\* A checksum is a u16, for bytes of every length.
LEMMA ChecksumType ==
  ASSUME NEW bytes \in Seq(Byte) PROVE Message_count_CRC_2(bytes) \in U16
<1> DEFINE S == [c : [h : Byte, l : Byte], i : 1..Len(bytes)+1, j : 0..Len(bytes)]
           Eq(g) == g = [p \in S |->
                           IF p.i >= p.j THEN IF p.i = p.j THEN CrcStep(p.c, bytes[p.i]) ELSE p.c
                           ELSE LET m == (p.i + p.j) \div 2
                                IN g[[c |-> g[[p EXCEPT !.j = m]], i |-> m + 1, j |-> p.j]]]
           start == [c |-> [h |-> 255, l |-> 255], i |-> 1, j |-> Len(bytes)]
<1>1. Message_count_CRC_2(bytes) = (CHOOSE g : Eq(g))[start].h * 256 + (CHOOSE g : Eq(g))[start].l
  BY DEF Message_count_CRC_2
<1>2. S = Parts(bytes)
  BY DEF Parts, Crc
<1>3. Len(bytes) \in Nat /\ Len(bytes) + 1 \in Nat
  OBVIOUS
<1>4. PICK f \in [Parts(bytes) -> Crc] :
        \A p \in Parts(bytes) : p.j - p.i < Len(bytes) + 1 => f[p] = Over(bytes, f, p)
  BY <1>3, ChecksumRuns
<1>5. \A p \in Parts(bytes) : f[p] = Over(bytes, f, p)
  <2>1. \A p \in Parts(bytes) : p.j - p.i < Len(bytes) + 1
    BY <1>3 DEF Parts
  <2> QED BY <1>4, <2>1
<1>6. Eq(f)
  <2>1. f = [p \in Parts(bytes) |-> Over(bytes, f, p)]
    BY <1>4, <1>5
  <2> QED BY <1>2, <2>1 DEF Over
<1>7. PICK g : g = (CHOOSE h : Eq(h)) /\ Eq(g)
  <2> HIDE DEF Eq
  <2> QED BY <1>6
<1>8. \A p \in Parts(bytes) : g[p] = Over(bytes, g, p)
  BY <1>2, <1>7 DEF Over
<1>9. \A p \in Parts(bytes) : g[p] \in Crc
  <2> DEFINE Wrong(w) == \E p \in Parts(bytes) : p.j - p.i < w /\ g[p] \notin Crc
             bad == {w \in Nat : Wrong(w)}
  <2>0. \A p \in Parts(bytes) : p.c \in Crc /\ p.i \in Nat /\ p.j \in Nat /\ p.i >= 1 /\ p.j <= Len(bytes)
                               /\ (p.i = p.j => bytes[p.i] \in Byte)
    BY DEF Parts
  <2>1. ASSUME bad # {} PROVE FALSE
    <3>1. PICK w \in bad : \A v \in bad : ~(v < w)
      <4> HIDE DEF Wrong
      <4> QED BY <2>1, Least
    <3>2. PICK p \in Parts(bytes) : p.j - p.i < w /\ g[p] \notin Crc
      OBVIOUS
    <3>3. ASSUME NEW q \in Parts(bytes), q.j - q.i < p.j - p.i, 0 < p.j - p.i PROVE g[q] \in Crc
      <4>1. w \in Nat /\ w - 1 \in Nat /\ q.j - q.i < w - 1 /\ w - 1 < w
        BY <2>0, <3>2, <3>3
      <4>2. w - 1 \notin bad
        <5> HIDE DEF bad
        <5> QED BY <3>1, <4>1
      <4> QED BY <4>1, <4>2
    <3>4. CASE p.i >= p.j
      <4>1. p.i = p.j => CrcStep(p.c, bytes[p.i]) \in Crc
        BY <2>0, CrcStepType
      <4>2. Over(bytes, g, p) \in Crc
        BY <2>0, <3>4, <4>1 DEF Over
      <4> QED BY <1>8, <3>2, <4>2
    <3>5. CASE ~(p.i >= p.j)
      <4>1. PICK m : m = (p.i + p.j) \div 2
        OBVIOUS
      <4>2. PICK q : q = [p EXCEPT !.j = m]
        OBVIOUS
      <4>3. m \in Int /\ q \in Parts(bytes) /\ q.j - q.i < p.j - p.i /\ 0 < p.j - p.i
        BY <2>0, <3>5, <4>1, <4>2, Halving
      <4>4. g[q] \in Crc
        BY <3>3, <4>3
      <4>5. PICK r : r = [c |-> g[q], i |-> m + 1, j |-> p.j]
        OBVIOUS
      <4>6. r \in Parts(bytes) /\ r.j - r.i < p.j - p.i
        BY <3>5, <4>1, <4>4, <4>5, Halving
      <4>7. g[r] \in Crc
        BY <3>3, <4>3, <4>6
      <4>8. Over(bytes, g, p) = g[r]
        BY <3>5, <4>1, <4>2, <4>5 DEF Over
      <4> QED BY <1>8, <3>2, <4>7, <4>8
    <3> QED BY <3>4, <3>5
  <2>2. ASSUME NEW p \in Parts(bytes) PROVE g[p] \in Crc
    <3>1. PICK w \in Nat : p.j - p.i < w
      <4>1. Len(bytes) + 1 \in Nat /\ p.j - p.i < Len(bytes) + 1
        BY <1>3, <2>0
      <4> QED BY <4>1
    <3>2. ~Wrong(w)
      <4> HIDE DEF Wrong
      <4> QED BY <2>1
    <3> QED BY <3>1, <3>2
  <2> QED BY <2>2
<1>10. start \in Parts(bytes)
  <2>1. 255 \in Byte /\ 1 \in 1..Len(bytes)+1 /\ Len(bytes) \in 0..Len(bytes)
    BY <1>3 DEF Byte
  <2> QED BY <2>1 DEF Parts, Crc
<1>11. g[start] \in Crc
  BY <1>9, <1>10
<1>12. PICK c \in Crc : c = g[start]
  BY <1>11
<1>13. c.h \in Byte /\ c.l \in Byte
  BY DEF Crc
<1>14. Message_count_CRC_2(bytes) = c.l + 256 * c.h
  <2>1. Message_count_CRC_2(bytes) = c.h * 256 + c.l
    <3> HIDE DEF Eq, start
    <3> QED BY <1>1, <1>7, <1>12
  <2>2. \A a \in Nat, b \in Nat : a * 256 + b = b + 256 * a
    OBVIOUS
  <2>3. c.h \in Nat /\ c.l \in Nat
    BY <1>13, NarrowType
  <2> QED BY <2>1, <2>2, <2>3
<1> QED BY <1>13, <1>14, Joined

(* Packets in a buffer *)

Packet == [at : Nat, command : Byte, payload : Seq(Byte)]

\* The packets lie one behind the other and fill n bytes.
Placed(ps, n) ==
  /\ ps \in Seq(Packet) /\ n \in Nat
  /\ ps = <<>> => n = 0
  /\ ps # <<>> => ps[1].at = 0
  /\ \A k \in DOMAIN ps : ps[k].at + SizeOf(ps[k]) = IF k = Len(ps) THEN n ELSE ps[k+1].at
  /\ \A j, k \in DOMAIN ps : j < k => ps[j].at + SizeOf(ps[j]) <= ps[k].at
  /\ \A k \in DOMAIN ps : ps[k].at + SizeOf(ps[k]) <= n

Checksum(bytes) == Message_count_CRC_2(SubSeq(bytes, 1, U8(Len(bytes))))

\* The header of a packet as it is sent.
Coded(p) ==
  LET crc == Xor(Checksum(p.payload), R_CODE)
  IN <<Xor(p.command, R_CODE), U8(Xor(SizeOf(p), R_CODE)), crc % 256, crc \div 256>>

Headed(buffer, p) == \A i \in 1..4 : buffer[p.at + i] = Coded(p)[i]

LEMMA Key == R_CODE \in Byte
BY DEF R_CODE, Byte

LEMMA U8Type == \A n \in Nat : U8(n) \in Byte /\ (n < 256 => U8(n) = n)
BY DEF U8, Byte

LEMMA SizeType == \A p \in Packet : SizeOf(p) \in Nat /\ SizeOf(p) >= 4 /\ SizeOf(p) = Len(p.payload) + 4
BY DEF Packet, SizeOf, Header

LEMMA PrefixType ==
  ASSUME NEW s \in Seq(Byte), NEW n \in 0..Len(s)
  PROVE  SubSeq(s, 1, n) \in Seq(Byte) /\ (n = Len(s) => SubSeq(s, 1, n) = s)
<1>1. \A i \in 1..n : s[i] \in Byte
  OBVIOUS
<1>2. /\ SubSeq(s, 1, n) \in Seq(Byte) /\ Len(SubSeq(s, 1, n)) = n
      /\ \A i \in 1..n : SubSeq(s, 1, n)[i] = s[i]
  BY <1>1, SubSeqProperties
<1>3. n = Len(s) => SubSeq(s, 1, n) = s
  BY <1>2, SeqEqual
<1> QED BY <1>2, <1>3

LEMMA CodeType ==
  ASSUME NEW s \in Seq(Byte)
  PROVE  Checksum(s) \in U16 /\ (Len(s) < 256 => Checksum(s) = Message_count_CRC_2(s))
<1>1. U8(Len(s)) \in 0..Len(s) /\ (Len(s) < 256 => U8(Len(s)) = Len(s))
  BY DEF U8
<1>2. PICK n \in 0..Len(s) : n = U8(Len(s)) /\ (Len(s) < 256 => n = Len(s))
  BY <1>1
<1>3. SubSeq(s, 1, n) \in Seq(Byte) /\ (n = Len(s) => SubSeq(s, 1, n) = s)
  BY PrefixType
<1> QED BY <1>2, <1>3, ChecksumType DEF Checksum

\* A header decodes to what was coded, if the length is one that a u8 can say.
LEMMA HeaderBack ==
  ASSUME NEW p \in Packet
  PROVE  /\ Xor(Coded(p)[1], R_CODE) = p.command
         /\ SizeOf(p) < 256 =>
              /\ Xor(Coded(p)[2], R_CODE) = SizeOf(p)
              /\ Xor(Coded(p)[3], R_CODE) + 256 * Coded(p)[4] = Message_count_CRC_2(p.payload)
<1>1. p.command \in Byte /\ p.payload \in Seq(Byte)
  BY DEF Packet
<1>2. Xor(Coded(p)[1], R_CODE) = p.command
  BY <1>1, Key, XorByte DEF Coded
<1>3. ASSUME SizeOf(p) < 256
      PROVE  /\ Xor(Coded(p)[2], R_CODE) = SizeOf(p)
             /\ Xor(Coded(p)[3], R_CODE) + 256 * Coded(p)[4] = Message_count_CRC_2(p.payload)
  <2>1. SizeOf(p) \in Byte /\ Len(p.payload) < 256
    <3>1. SizeOf(p) \in Nat /\ SizeOf(p) = Len(p.payload) + 4 /\ Len(p.payload) \in Nat
      BY <1>1, SizeType
    <3> QED BY <1>3, <3>1, Narrow
  <2>2. Xor(SizeOf(p), R_CODE) \in Byte /\ Xor(Xor(SizeOf(p), R_CODE), R_CODE) = SizeOf(p)
    BY <2>1, Key, XorByte
  <2>3. U8(Xor(SizeOf(p), R_CODE)) = Xor(SizeOf(p), R_CODE)
    BY <2>2, NarrowType, Narrow, U8Type
  <2>4. PICK c \in U16 : c = Checksum(p.payload) /\ c = Message_count_CRC_2(p.payload)
    BY <1>1, <2>1, CodeType
  <2>5. Xor(Xor(c, R_CODE) % 256, R_CODE) + 256 * (Xor(c, R_CODE) \div 256) = c
    BY Key, XorBack
  <2>6. /\ Coded(p)[2] = U8(Xor(SizeOf(p), R_CODE))
        /\ Coded(p)[3] = Xor(c, R_CODE) % 256 /\ Coded(p)[4] = Xor(c, R_CODE) \div 256
    BY <2>4 DEF Coded
  <2> QED BY <2>2, <2>3, <2>4, <2>5, <2>6
<1> QED BY <1>2, <1>3

Behind(r, s, t) ==
  /\ r \in Seq(Byte) /\ Len(r) = Len(s) + Len(t)
  /\ \A k \in 1..Len(s) + Len(t) : r[k] = IF k <= Len(s) THEN s[k] ELSE t[k - Len(s)]

LEMMA ConcatBehind == \A s, t \in Seq(Byte) : Behind(s \o t, s, t)
BY ConcatProperties DEF Behind

\* What lies where after a packet has been put on the wire.
Put(r, s, a, b, c, d, t) ==
  /\ r \in Seq(Byte) /\ Len(r) = Len(s) + 4 + Len(t)
  /\ \A k \in 1..Len(s) : r[k] = s[k]
  /\ r[Len(s) + 1] = a /\ r[Len(s) + 2] = b /\ r[Len(s) + 3] = c /\ r[Len(s) + 4] = d

LEMMA Wired ==
  ASSUME NEW s \in Seq(Byte), NEW t \in Seq(Byte),
         NEW a \in Byte, NEW b \in Byte, NEW c \in Byte, NEW d \in Byte,
         NEW r, r = s \o <<a, b, c, d>> \o t
  PROVE  Put(r, s, a, b, c, d, t)
<1>1. PICK h : h = <<a, b, c, d>>
  OBVIOUS
<1>2. h \in Seq(Byte) /\ Len(h) = 4 /\ h[1] = a /\ h[2] = b /\ h[3] = c /\ h[4] = d
  BY <1>1
<1>3. PICK q : q = s \o h
  OBVIOUS
<1>4. /\ q \in Seq(Byte) /\ Len(q) = Len(s) + Len(h)
      /\ \A k \in 1..Len(s) + Len(h) : q[k] = IF k <= Len(s) THEN s[k] ELSE h[k - Len(s)]
  <2>1. Behind(q, s, h)
    BY <1>2, <1>3, ConcatBehind
  <2> QED BY <2>1 DEF Behind
<1>5. r = q \o t
  BY <1>1, <1>3
<1>6. /\ r \in Seq(Byte) /\ Len(r) = Len(q) + Len(t)
      /\ \A k \in 1..Len(q) + Len(t) : r[k] = IF k <= Len(q) THEN q[k] ELSE t[k - Len(q)]
  <2>1. Behind(r, q, t)
    BY <1>4, <1>5, ConcatBehind
  <2> QED BY <2>1 DEF Behind
<1>7. PICK n \in Nat, l \in Nat : n = Len(s) /\ l = Len(t)
  OBVIOUS
<1>8. Len(q) = n + 4 /\ \A k \in 1..n+4 : q[k] = IF k <= n THEN s[k] ELSE h[k - n]
  BY <1>2, <1>4, <1>7
<1>9. \A k \in 1..n+4 : r[k] = IF k <= n THEN s[k] ELSE h[k - n]
  <2>1. \A k \in 1..(n+4)+l : r[k] = IF k <= n + 4 THEN q[k] ELSE t[k - (n + 4)]
    BY <1>6, <1>7, <1>8
  <2>2. \A k \in 1..n+4 : k \in 1..(n+4)+l /\ k <= n + 4
    OBVIOUS
  <2> QED BY <1>8, <2>1, <2>2
<1>10. \A k \in 1..n : r[k] = s[k]
  <2>1. \A k \in 1..n : k \in 1..n+4 /\ k <= n
    OBVIOUS
  <2> QED BY <1>9, <2>1
<1>11. \A i \in 1..4 : r[n+i] = h[i]
  <2> SUFFICES ASSUME NEW i \in 1..4 PROVE r[n+i] = h[i]
    OBVIOUS
  <2>1. PICK k : k = n + i
    OBVIOUS
  <2>2. k \in 1..n+4 /\ ~(k <= n) /\ k - n = i
    BY <2>1
  <2> QED BY <1>9, <2>1, <2>2
<1>12. r[n+1] = a /\ r[n+2] = b /\ r[n+3] = c /\ r[n+4] = d
  <2>1. 1 \in 1..4 /\ 2 \in 1..4 /\ 3 \in 1..4 /\ 4 \in 1..4
    OBVIOUS
  <2> QED BY <1>2, <1>11, <2>1
<1> QED BY <1>6, <1>7, <1>8, <1>10, <1>12 DEF Put

(* What the sender, the wire and the receiver's buffer have to do with one another *)

PacketInv ==
  /\ load \in [commands : SUBSET Byte, chunks : SUBSET Seq(Byte), packets : Nat, cuts : SUBSET Nat]
  /\ packet \in [command : Byte, msgLength : Byte, crc16 : U16]
  /\ sender # "cmd" => load.packets > 0
  /\ sender # "overrun" => Len(MsgPayLoad) <= SendBuffer
  /\ sender \in {"end", "send"} => packet.crc16 = Xor(Checksum(MsgPayLoad), R_CODE)
  /\ sender = "send" => packet.msgLength = U8(Xor(TotalLength, R_CODE))

WireInv ==
  ~torn => Placed(sent, Len(wire)) /\ \A k \in DOMAIN sent : Headed(wire, sent[k])

\* A packet as the decoder prints it.
Shown(p) ==
  [at |-> p.at, command |-> p.command, length |-> SizeOf(p), crc16 |-> Message_count_CRC_2(p.payload)]

\* The decoder has come to the end of the m-th packet and has not yet changed those behind it.
Found(m) ==
  /\ indexof = Offset(m + 1) /\ seen = {Shown(expected[k]) : k \in 1..m}
  /\ \A k \in 1..m : Len(data) - expected[k].at >= 7
  /\ receiver \in {"decode", "process"} => \A k \in m+1..Len(expected) : Headed(data, expected[k])
  /\ receiver = "decoded" => Len(data) - indexof < 7
  /\ receiver \in {"process", "processed"} => m = 0
  /\ receiver = "processed" => known = (expected[1].command \in commandCollect)

DataInv ==
  expected # <<>> =>
    /\ Placed(expected, Len(data)) /\ Len(data) <= BufSize
    /\ (\A k \in DOMAIN expected : SizeOf(expected[k]) < 256) => \E m \in 0..Len(expected) : Found(m)

ProtocolInv == TypeOK /\ PacketInv /\ WireInv /\ DataInv

LEMMA ProtocolInit == Init => ProtocolInv
<1> SUFFICES ASSUME Init PROVE ProtocolInv
  OBVIOUS
<1>1. 0 \in Byte /\ 0 \in U16
  <2>1. 0 \in Byte
    BY DEF Byte
  <2> QED BY <2>1, Small
<1>2. TypeOK
  <2>1. torn \in BOOLEAN /\ known \in BOOLEAN
    BY DEF Init
  <2>2. {packet.command, packet.msgLength} \subseteq Byte /\ packet.crc16 \in U16
    BY <1>1 DEF Init
  <2> QED BY <1>1, <2>1, <2>2 DEF Init, TypeOK
<1>3. PacketInv
  BY <1>1, ProtocolAssumption DEF Init, PacketInv, SendBuffer
<1>4. WireInv /\ DataInv
  BY DEF Init, WireInv, DataInv, Placed
<1> QED BY <1>2, <1>3, <1>4 DEF ProtocolInv

\* Steps that leave the wire or the receiver alone.
LEMMA WireStays == ASSUME WireInv, UNCHANGED <<wire, sent, torn>> PROVE WireInv'
BY DEF WireInv

LEMMA DataStays ==
  ASSUME DataInv, UNCHANGED <<receiver, data, indexof, expected, seen, known>>
  PROVE  DataInv'
<1>1. expected' = expected /\ data' = data
  OBVIOUS
<1>2. ASSUME NEW m \in 0..Len(expected), Found(m) PROVE Found(m)'
  <2>1. Offset(m + 1)' = Offset(m + 1)
    BY DEF Offset
  <2>2. {Shown(expected[k]) : k \in 1..m}' = {Shown(expected[k]) : k \in 1..m}
    OBVIOUS
  <2>3. indexof' = Offset(m + 1)' /\ seen' = {Shown(expected[k]) : k \in 1..m}'
    <3>1. indexof = Offset(m + 1) /\ seen = {Shown(expected[k]) : k \in 1..m}
      BY <1>2 DEF Found
    <3> QED BY <2>1, <2>2, <3>1
  <2>4. (\A k \in 1..m : Len(data) - expected[k].at >= 7)'
    BY <1>2 DEF Found
  <2>5. (receiver \in {"decode", "process"} => \A k \in m+1..Len(expected) : Headed(data, expected[k]))'
    BY <1>2 DEF Found
  <2>6. (receiver = "decoded" => Len(data) - indexof < 7)'
    BY <1>2 DEF Found
  <2>7. /\ (receiver \in {"process", "processed"} => m = 0)'
        /\ (receiver = "processed" => known = (expected[1].command \in commandCollect))'
    BY <1>2, Zenon DEF Found
  <2> QED BY <2>3, <2>4, <2>5, <2>6, <2>7 DEF Found
<1> QED BY <1>1, <1>2 DEF DataInv

\* What the sender does to its packet.
LEMMA CmdStep == ASSUME ProtocolInv, NEW c \in load.commands, FmtCmd(c) PROVE ProtocolInv'
<1>1. c \in Byte /\ Xor(c, R_CODE) \in Byte
  BY Key, XorByte DEF ProtocolInv, PacketInv
<1>2. TypeOK'
  BY <1>1 DEF ProtocolInv, TypeOK, PacketInv, FmtCmd, receiving
<1>3. PacketInv'
  BY <1>1 DEF ProtocolInv, PacketInv, FmtCmd
<1>4. WireInv' /\ DataInv'
  BY WireStays, DataStays DEF ProtocolInv, FmtCmd, receiving
<1> QED BY <1>2, <1>3, <1>4 DEF ProtocolInv

LEMMA FmtStep == ASSUME ProtocolInv, NEW b \in load.chunks, Fmt(b) PROVE ProtocolInv'
<1>1. MsgPayLoad \in Seq(Byte) /\ b \in Seq(Byte) /\ MsgPayLoad' \in Seq(Byte)
  BY ConcatProperties DEF ProtocolInv, PacketInv, TypeOK, Fmt
<1>2. TypeOK'
  BY <1>1 DEF ProtocolInv, TypeOK, Fmt, receiving
<1>3. PacketInv'
  BY DEF ProtocolInv, PacketInv, Fmt, SendProtocolLength
<1>4. WireInv' /\ DataInv'
  BY WireStays, DataStays DEF ProtocolInv, Fmt, receiving
<1> QED BY <1>2, <1>3, <1>4 DEF ProtocolInv

LEMMA CrcOfStep == ASSUME ProtocolInv, FmtCrc16 PROVE ProtocolInv'
<1>1. MsgPayLoad \in Seq(Byte)
  BY DEF ProtocolInv, TypeOK
<1>2. Checksum(MsgPayLoad) \in U16 /\ Xor(Checksum(MsgPayLoad), R_CODE) \in U16
  BY <1>1, CodeType, Key, XorBack
<1>3. packet' = [packet EXCEPT !.crc16 = Xor(Checksum(MsgPayLoad), R_CODE)]
  BY DEF FmtCrc16, Checksum, SendProtocolLength
<1>4. TypeOK'
  BY <1>2, <1>3 DEF ProtocolInv, TypeOK, PacketInv, FmtCrc16, receiving
<1>5. PacketInv'
  BY <1>2, <1>3 DEF ProtocolInv, PacketInv, FmtCrc16
<1>6. WireInv' /\ DataInv'
  BY WireStays, DataStays DEF ProtocolInv, FmtCrc16, receiving
<1> QED BY <1>4, <1>5, <1>6 DEF ProtocolInv

LEMMA EndStep == ASSUME ProtocolInv, FmtEnd PROVE ProtocolInv'
<1>1. Len(MsgPayLoad) \in Nat /\ Len(MsgPayLoad) <= 1024
  BY DEF ProtocolInv, TypeOK, PacketInv, FmtEnd, SendBuffer
<1>2. TotalLength \in U16
  <2>1. TotalLength \in Nat /\ TotalLength < 65536
    BY <1>1 DEF TotalLength, SendProtocolLength, Header
  <2> QED BY <2>1, Wide
<1>3. U8(Xor(TotalLength, R_CODE)) \in Byte
  <2>1. Xor(TotalLength, R_CODE) \in Nat
    <3>1. PICK n \in U16 : n = TotalLength
      BY <1>2
    <3>2. Xor(n, R_CODE) \in U16
      BY Key, XorBack
    <3> QED BY <3>1, <3>2, WideType
  <2> QED BY <2>1, U8Type
<1>4. TypeOK'
  BY <1>3 DEF ProtocolInv, TypeOK, PacketInv, FmtEnd, receiving
<1>5. PacketInv'
  BY <1>3 DEF ProtocolInv, PacketInv, FmtEnd, TotalLength, SendProtocolLength
<1>6. WireInv' /\ DataInv'
  BY WireStays, DataStays DEF ProtocolInv, FmtEnd, receiving
<1> QED BY <1>4, <1>5, <1>6 DEF ProtocolInv

LEMMA PlacedAppend ==
  ASSUME NEW ps, NEW n, Placed(ps, n), NEW p \in Packet, p.at = n
  PROVE  Placed(Append(ps, p), n + SizeOf(p))
<1> DEFINE qs == Append(ps, p)
<1>1. PICK l \in Nat, z \in Nat : /\ l = Len(ps) /\ z = SizeOf(p) /\ DOMAIN ps = 1..l
                                  /\ ps \in Seq(Packet) /\ n \in Nat
  BY SizeType DEF Placed
<1>2. /\ qs \in Seq(Packet) /\ Len(qs) = l + 1 /\ DOMAIN qs = 1..l+1 /\ qs # <<>>
      /\ qs[l+1] = p /\ \A k \in 1..l : qs[k] = ps[k]
  BY <1>1
<1>3. \A k \in 1..l : ps[k].at \in Nat /\ SizeOf(ps[k]) \in Nat
  <2>1. \A k \in 1..l : ps[k] \in Packet
    BY <1>1
  <2> QED BY <2>1, SizeType DEF Packet
<1>4. /\ ps = <<>> => n = 0
      /\ ps # <<>> => ps[1].at = 0
      /\ \A k \in 1..l : ps[k].at + SizeOf(ps[k]) = IF k = l THEN n ELSE ps[k+1].at
      /\ \A j, k \in 1..l : j < k => ps[j].at + SizeOf(ps[j]) <= ps[k].at
      /\ \A k \in 1..l : ps[k].at + SizeOf(ps[k]) <= n
  BY <1>1 DEF Placed
<1>5. ps = <<>> <=> l = 0
  BY <1>1
<1> HIDE DEF qs
<1>6. qs[1].at = 0
  BY <1>1, <1>2, <1>4, <1>5
<1>7. \A k \in 1..l+1 : qs[k].at + SizeOf(qs[k]) = IF k = l + 1 THEN n + z ELSE qs[k+1].at
  <2> SUFFICES ASSUME NEW k \in 1..l+1
               PROVE  qs[k].at + SizeOf(qs[k]) = IF k = l + 1 THEN n + z ELSE qs[k+1].at
    OBVIOUS
  <2>1. CASE k = l + 1
    BY <1>1, <1>2, <2>1
  <2>2. CASE k = l /\ k # l + 1
    <3>1. k \in 1..l /\ k + 1 = l + 1
      BY <2>2
    <3> QED BY <1>2, <1>4, <2>2, <3>1
  <2>3. CASE k # l /\ k # l + 1
    <3>1. k \in 1..l /\ k + 1 \in 1..l
      BY <2>3
    <3> QED BY <1>2, <1>4, <2>3, <3>1
  <2> QED BY <2>1, <2>2, <2>3
<1>8. \A j, k \in 1..l+1 : j < k => qs[j].at + SizeOf(qs[j]) <= qs[k].at
  <2> SUFFICES ASSUME NEW j \in 1..l+1, NEW k \in 1..l+1, j < k
               PROVE  qs[j].at + SizeOf(qs[j]) <= qs[k].at
    OBVIOUS
  <2>1. j \in 1..l /\ (k = l + 1 \/ k \in 1..l)
    OBVIOUS
  <2> QED BY <1>2, <1>4, <2>1
<1>9. \A k \in 1..l+1 : qs[k].at + SizeOf(qs[k]) <= n + z
  <2> SUFFICES ASSUME NEW k \in 1..l+1 PROVE qs[k].at + SizeOf(qs[k]) <= n + z
    OBVIOUS
  <2>1. CASE k = l + 1
    BY <1>1, <1>2, <2>1
  <2>2. CASE k \in 1..l
    <3>1. PICK a \in Nat, b \in Nat : a = ps[k].at /\ b = SizeOf(ps[k]) /\ a + b <= n
      BY <1>3, <1>4, <2>2
    <3> QED BY <1>1, <1>2, <2>2, <3>1
  <2> QED BY <2>1, <2>2
<1>10. n + z \in Nat
  BY <1>1
<1>11. Placed(qs, n + z)
  BY <1>2, <1>6, <1>7, <1>8, <1>9, <1>10 DEF Placed
<1> QED BY <1>1, <1>11 DEF qs

\* The packet sent is the next behind those on the wire.
LEMMA SendStep == ASSUME ProtocolInv, Send PROVE ProtocolInv'
<1>1. /\ packet.command \in Byte /\ packet.msgLength \in Byte /\ packet.crc16 \in U16
      /\ MsgPayLoad \in Seq(Byte) /\ wire \in Seq(Byte)
  BY DEF ProtocolInv, TypeOK
<1>2. packet.crc16 % 256 \in Byte /\ packet.crc16 \div 256 \in Byte
  BY <1>1, Halves
<1>3. PICK p : p = [at |-> Len(wire), command |-> Xor(packet.command, R_CODE), payload |-> MsgPayLoad]
  OBVIOUS
<1>4. p \in Packet /\ p.at = Len(wire) /\ SizeOf(p) = Len(MsgPayLoad) + 4 /\ Len(MsgPayLoad) \in Nat
  BY <1>1, <1>3, Key, XorByte DEF Packet, SizeOf, Header
<1>5. /\ Coded(p)[1] = packet.command /\ Coded(p)[2] = packet.msgLength
      /\ Coded(p)[3] = packet.crc16 % 256 /\ Coded(p)[4] = packet.crc16 \div 256
  <2>1. Xor(Xor(packet.command, R_CODE), R_CODE) = packet.command
    BY <1>1, Key, XorByte
  <2>2. packet.msgLength = U8(Xor(SizeOf(p), R_CODE)) /\ packet.crc16 = Xor(Checksum(MsgPayLoad), R_CODE)
    BY <1>4 DEF ProtocolInv, PacketInv, Send, TotalLength, SendProtocolLength, Header
  <2> QED BY <1>3, <2>1, <2>2 DEF Coded
<1>6. /\ wire' \in Seq(Byte) /\ Len(wire') = Len(wire) + 4 + Len(MsgPayLoad)
      /\ \A k \in 1..Len(wire) : wire'[k] = wire[k]
      /\ wire'[Len(wire) + 1] = packet.command /\ wire'[Len(wire) + 2] = packet.msgLength
      /\ wire'[Len(wire) + 3] = packet.crc16 % 256 /\ wire'[Len(wire) + 4] = packet.crc16 \div 256
  <2>1. wire' = wire \o <<packet.command, packet.msgLength, packet.crc16 % 256, packet.crc16 \div 256>>
                     \o MsgPayLoad
    BY DEF Send
  <2>2. PICK a \in Byte, b \in Byte, c \in Byte, d \in Byte :
          /\ a = packet.command /\ b = packet.msgLength
          /\ c = packet.crc16 % 256 /\ d = packet.crc16 \div 256
    BY <1>1, <1>2
  <2>3. wire' = wire \o <<a, b, c, d>> \o MsgPayLoad
    BY <2>1, <2>2
  <2>4. Put(wire', wire, a, b, c, d, MsgPayLoad)
    BY <1>1, <2>3, Wired
  <2> QED BY <2>2, <2>4 DEF Put
<1>7. TypeOK'
  BY <1>6 DEF ProtocolInv, TypeOK, Send, receiving
<1>8. PacketInv'
  <2>1. load' = [load EXCEPT !.packets = load.packets - 1] /\ load.packets - 1 \in Nat
    BY DEF ProtocolInv, PacketInv, Send
  <2> QED BY <2>1 DEF ProtocolInv, PacketInv, Send
<1>9. WireInv'
  <2> SUFFICES ASSUME ~torn
               PROVE  Placed(sent', Len(wire')) /\ \A k \in DOMAIN sent' : Headed(wire', sent'[k])
    BY DEF WireInv, Send
  <2>1. sent' = Append(sent, p)
    BY <1>3 DEF Send
  <2>2. Placed(sent, Len(wire)) /\ \A k \in DOMAIN sent : Headed(wire, sent[k])
    BY DEF ProtocolInv, WireInv
  <2>3. Len(wire') = Len(wire) + SizeOf(p)
    BY <1>1, <1>4, <1>6
  <2>4. Placed(sent', Len(wire'))
    BY <1>4, <2>1, <2>2, <2>3, PlacedAppend
  <2>5. sent \in Seq(Packet) /\ DOMAIN sent = 1..Len(sent) /\ DOMAIN sent' = 1..Len(sent)+1
        /\ sent'[Len(sent)+1] = p /\ \A k \in 1..Len(sent) : sent'[k] = sent[k]
    BY <1>4, <2>1, <2>2 DEF Placed
  <2>6. Headed(wire', p)
    <3> SUFFICES ASSUME NEW i \in 1..4 PROVE wire'[p.at + i] = Coded(p)[i]
      BY DEF Headed
    <3>1. i = 1 \/ i = 2 \/ i = 3 \/ i = 4
      OBVIOUS
    <3> QED BY <1>4, <1>5, <1>6, <3>1
  <2>7. ASSUME NEW k \in 1..Len(sent) PROVE Headed(wire', sent[k])
    <3>1. /\ sent[k] \in Packet /\ Headed(wire, sent[k])
          /\ sent[k].at + SizeOf(sent[k]) <= Len(wire)
      BY <2>2, <2>5 DEF Placed
    <3>2. PICK a \in Nat, z \in Nat, n \in Nat : a = sent[k].at /\ z = SizeOf(sent[k]) /\ n = Len(wire)
                                                 /\ z >= 4 /\ a + z <= n
      <4>1. sent[k].at \in Nat /\ SizeOf(sent[k]) \in Nat /\ SizeOf(sent[k]) >= 4
        BY <3>1, SizeType DEF Packet
      <4>2. Len(wire) \in Nat
        BY <1>1
      <4> QED BY <3>1, <4>1, <4>2
    <3>3. ASSUME NEW i \in 1..4 PROVE a + i \in 1..n
      <4>1. a \in Nat /\ n \in Nat /\ a + 4 <= n
        BY <3>2
      <4> QED BY <4>1
    <3> QED BY <1>6, <3>1, <3>2, <3>3 DEF Headed
  <2> QED BY <2>4, <2>5, <2>6, <2>7
<1>10. DataInv'
  BY DataStays DEF ProtocolInv, Send, receiving
<1> QED BY <1>7, <1>8, <1>9, <1>10 DEF ProtocolInv

\* The receiver begins with a buffer of whole packets, or expects none.
LEMMA RecvStep == ASSUME ProtocolInv, Recv PROVE ProtocolInv'
<1>1. PICK n \in 1..Len(wire) :
        /\ n <= BufSize /\ data' = SubSeq(wire, 1, n) /\ wire' = SubSeq(wire, n + 1, Len(wire))
        /\ torn' = (torn \/ n < Len(wire)) /\ expected' = IF torn' THEN <<>> ELSE sent
  BY DEF Recv
<1>2. wire \in Seq(Byte) /\ Len(wire) \in Nat /\ n \in Nat /\ n <= Len(wire)
  BY DEF ProtocolInv, TypeOK
<1>3. data' \in Seq(Byte) /\ (n = Len(wire) => data' = wire)
  <2>1. n \in 0..Len(wire)
    BY <1>2
  <2> QED BY <1>1, <1>2, <2>1, PrefixType
<1>4. wire' \in Seq(Byte) /\ (n = Len(wire) => Len(wire') = 0)
  <2>1. n + 1 \in Int /\ Len(wire) \in Int /\ \A i \in n+1..Len(wire) : wire[i] \in Byte
    BY <1>2
  <2>2. wire' \in Seq(Byte) /\ Len(wire') = IF n + 1 <= Len(wire) THEN Len(wire) - (n + 1) + 1 ELSE 0
    BY <1>1, <2>1, SubSeqProperties
  <2> QED BY <1>2, <2>2
<1>5. TypeOK'
  <2>1. torn' \in BOOLEAN /\ known' \in BOOLEAN
    BY <1>1 DEF Recv
  <2>2. indexof' \in U16
    <3>1. 0 \in Byte
      BY DEF Byte
    <3> QED BY <3>1, Small DEF Recv
  <2> QED BY <1>3, <1>4, <2>1, <2>2 DEF ProtocolInv, TypeOK, Recv, sending
<1>6. PacketInv'
  BY DEF ProtocolInv, PacketInv, Recv, sending, TotalLength, SendProtocolLength
<1>7. CASE torn'
  BY <1>1, <1>5, <1>6, <1>7 DEF ProtocolInv, WireInv, DataInv
<1>8. CASE ~torn'
  <2>1. ~torn /\ n = Len(wire) /\ expected' = sent
    <3>1. ~torn /\ ~(n < Len(wire)) /\ expected' = sent
      BY <1>1, <1>8
    <3> QED BY <1>2, <3>1
  <2>2. Len(wire') = 0 /\ data' = wire /\ sent' = <<>>
    BY <1>3, <1>4, <2>1 DEF Recv
  <2>3. Placed(sent, Len(wire)) /\ \A k \in DOMAIN sent : Headed(wire, sent[k])
    BY <2>1 DEF ProtocolInv, WireInv
  <2>4. WireInv'
    BY <2>2 DEF WireInv, Placed
  <2>5. DataInv'
    <3> SUFFICES ASSUME sent # <<>>
                 PROVE  /\ Placed(sent, Len(wire)) /\ Len(wire) <= BufSize
                        /\ \E m \in 0..Len(sent) : Found(m)'
      BY <2>1, <2>2 DEF DataInv
    <3>1. sent \in Seq(Packet) /\ DOMAIN sent = 1..Len(sent) /\ sent[1].at = 0 /\ 1 \in DOMAIN sent
      BY <2>3 DEF Placed
    <3>2. Offset(1)' = 0
      BY <2>1, <3>1 DEF Offset
    <3>3. Found(0)'
      <4>1. indexof' = Offset(0 + 1)' /\ seen' = {Shown(sent[k]) : k \in 1..0}
        BY <3>2 DEF Recv
      <4>2. receiver' \in {"decode", "process"}
        BY DEF Recv
      <4> QED BY <2>1, <2>2, <2>3, <3>1, <4>1, <4>2 DEF Found
    <3>4. 0 \in 0..Len(sent)
      BY <3>1
    <3> QED BY <1>1, <2>1, <2>3, <3>3, <3>4
  <2> QED BY <1>5, <1>6, <2>4, <2>5 DEF ProtocolInv
<1> QED BY <1>7, <1>8

\* Protocol_Analysis changes three bytes of the buffer.
LEMMA AnalysisType ==
  ASSUME data \in Seq(Byte), NEW o \in Nat
  PROVE  /\ Protocol_Analysis(o) \in Seq(Byte) /\ Len(Protocol_Analysis(o)) = Len(data)
         /\ \A k \in 1..Len(data) : k \notin o+1..o+3 => Protocol_Analysis(o)[k] = data[k]
<1>1. \A k \in DOMAIN data : data[k] \in Byte /\ Xor(data[k], R_CODE) \in Byte
  BY Key, XorByte
<1>2. PICK n \in Nat : n = Len(data) /\ DOMAIN data = 1..n
  OBVIOUS
<1>3. PICK f : f = Protocol_Analysis(o)
  OBVIOUS
<1>4. f \in [1..n -> Byte] /\ \A k \in 1..n : k \notin o+1..o+3 => f[k] = data[k]
  BY <1>1, <1>2, <1>3 DEF Protocol_Analysis
<1>5. f \in Seq(Byte) /\ Len(f) = n
  BY <1>4
<1> QED BY <1>2, <1>3, <1>4, <1>5

LEMMA LateTypes ==
  ASSUME ProtocolInv
  PROVE  data \in Seq(Byte) /\ Len(data) \in Nat /\ indexof \in Nat
BY WideType DEF ProtocolInv, TypeOK

\* The end of the decoder's loop.
LEMMA DecodeEnd ==
  ASSUME ProtocolInv, Decode, ~(Len(data) - indexof >= 7) PROVE ProtocolInv'
<1>1. /\ receiver = "decode" /\ receiver' = "decoded"
      /\ UNCHANGED <<data, seen, indexof, sending, wire, sent, torn, expected, known, handled>>
  BY DEF Decode
<1>2. TypeOK'
  BY <1>1 DEF ProtocolInv, TypeOK, sending
<1>3. PacketInv'
  BY <1>1 DEF ProtocolInv, PacketInv, sending, TotalLength, SendProtocolLength
<1>4. WireInv'
  BY <1>1 DEF ProtocolInv, WireInv
<1>5. \A m : Found(m) => Found(m)'
  <2>1. Len(data) - indexof < 7
    BY LateTypes
  <2> QED BY <1>1, <2>1 DEF Found, Offset
<1>6. DataInv'
  BY <1>1, <1>5 DEF ProtocolInv, DataInv
<1> QED BY <1>2, <1>3, <1>4, <1>6 DEF ProtocolInv

\* A turn of the loop finds the next packet and goes on behind it.
LEMMA DecodeTurn ==
  ASSUME ProtocolInv, Decode, Len(data) - indexof >= 7 PROVE ProtocolInv'
<1> DEFINE a == Xor(data[indexof + 1], R_CODE)
           b == Xor(data[indexof + 2], R_CODE)
           c == Xor(data[indexof + 3], R_CODE)
           d == data[indexof + 4]
<1>1. /\ receiver = "decode" /\ receiver' = "decode" /\ data' = Protocol_Analysis(indexof)
      /\ seen' = seen \cup {[at |-> indexof, command |-> a, length |-> b, crc16 |-> c + 256 * d]}
      /\ indexof' = (indexof + b) % 65536
      /\ UNCHANGED <<sending, wire, sent, torn, expected, known, handled>>
  BY DEF Decode
<1>2. /\ data \in Seq(Byte) /\ Len(data) \in Nat /\ indexof \in Nat
      /\ \A i \in 1..4 : indexof + i \in DOMAIN data
  BY LateTypes
<1>3. b \in Byte /\ b \in Nat
  <2>1. data[indexof + 2] \in Byte
    BY <1>2
  <2> QED BY <2>1, Key, XorByte, NarrowType
<1> HIDE DEF a, b, c, d
<1>4. /\ data' \in Seq(Byte) /\ Len(data') = Len(data)
      /\ \A k \in 1..Len(data) : k \notin indexof+1..indexof+3 => data'[k] = data[k]
  <2>1. data' = Protocol_Analysis(indexof)
    BY <1>1
  <2> QED BY <1>2, <2>1, AnalysisType
<1>5. TypeOK'
  <2>1. (indexof + b) % 65536 \in Nat /\ (indexof + b) % 65536 < 65536
    BY <1>2, <1>3
  <2>2. indexof' \in U16
    BY <1>1, <2>1, Wide
  <2> QED BY <1>1, <1>4, <2>2 DEF ProtocolInv, TypeOK, sending
<1>6. PacketInv'
  BY <1>1 DEF ProtocolInv, PacketInv, sending, TotalLength, SendProtocolLength
<1>7. WireInv'
  BY <1>1 DEF ProtocolInv, WireInv
<1>8. DataInv'
  <2> SUFFICES ASSUME expected # <<>>
               PROVE  /\ Placed(expected, Len(data)) /\ Len(data) <= BufSize
                      /\ (\A k \in DOMAIN expected : SizeOf(expected[k]) < 256) =>
                           \E m \in 0..Len(expected) : Found(m)'
    BY <1>1, <1>4 DEF DataInv
  <2>1. Placed(expected, Len(data)) /\ Len(data) <= BufSize
    BY DEF ProtocolInv, DataInv
  <2> SUFFICES ASSUME \A k \in DOMAIN expected : SizeOf(expected[k]) < 256
               PROVE  \E m \in 0..Len(expected) : Found(m)'
    BY <2>1
  <2>2. PICK m \in 0..Len(expected) : Found(m)
    BY DEF ProtocolInv, DataInv
  <2>3. PICK n \in Nat, l \in Nat : n = Len(expected) /\ l = Len(data) /\ DOMAIN expected = 1..n
    BY <1>2, <2>1 DEF Placed
  <2>4. /\ expected \in Seq(Packet)
        /\ \A k \in 1..n : expected[k].at + SizeOf(expected[k]) = IF k = n THEN l ELSE expected[k+1].at
        /\ \A j, k \in 1..n : j < k => expected[j].at + SizeOf(expected[j]) <= expected[k].at
        /\ \A k \in 1..n : expected[k].at + SizeOf(expected[k]) <= l
    BY <2>1, <2>3 DEF Placed
  <2>5. \A k \in 1..n : expected[k] \in Packet
    BY <2>3, <2>4
  <2>6. \A k \in 1..n : /\ expected[k].at \in Nat /\ SizeOf(expected[k]) \in Nat
                        /\ SizeOf(expected[k]) >= 4 /\ SizeOf(expected[k]) < 256
    BY <2>3, <2>5, SizeType DEF Packet
  <2>7. m + 1 \in 1..n /\ indexof = expected[m+1].at
    <3>1. indexof = IF m + 1 \in 1..n THEN expected[m+1].at ELSE l
      BY <2>2, <2>3 DEF Found, Offset
    <3>2. m + 1 \in 1..n
      BY <1>2, <2>3, <3>1
    <3> QED BY <3>1, <3>2
  <2>8. PICK p \in Packet : p = expected[m+1] /\ p.at = indexof /\ Headed(data, p) /\ SizeOf(p) < 256
    <3>1. m + 1 \in m+1..Len(expected)
      BY <2>3, <2>7
    <3>2. Headed(data, expected[m+1])
      BY <1>1, <2>2, <3>1 DEF Found
    <3> QED BY <2>5, <2>6, <2>7, <3>2
  <2>9. a = p.command /\ b = SizeOf(p) /\ c + 256 * d = Message_count_CRC_2(p.payload)
    <3>1. /\ data[indexof + 1] = Coded(p)[1] /\ data[indexof + 2] = Coded(p)[2]
          /\ data[indexof + 3] = Coded(p)[3] /\ data[indexof + 4] = Coded(p)[4]
      BY <2>8 DEF Headed
    <3> QED BY <2>8, <3>1, HeaderBack DEF a, b, c, d
  <2>10. indexof' = indexof + SizeOf(p) /\ indexof + SizeOf(p) <= l
    <3>1. PICK i \in Nat, z \in Nat : i = indexof /\ z = SizeOf(p) /\ i + z <= l
      BY <1>2, <2>4, <2>6, <2>7, <2>8
    <3>2. (i + z) % 65536 = i + z
      <4>1. i + z <= BufSize
        BY <2>1, <2>3, <3>1 DEF BufSize
      <4>2. PICK k \in Nat : k = i + z /\ k <= 1024
        BY <3>1, <4>1 DEF BufSize
      <4>3. k % 65536 = k
        BY <4>2
      <4> QED BY <4>2, <4>3
    <3> QED BY <1>1, <2>9, <3>1, <3>2
  <2>11. indexof' = Offset(m + 1 + 1)'
    <3>1. indexof' = IF m + 1 = n THEN l ELSE expected[m + 1 + 1].at
      BY <2>4, <2>7, <2>8, <2>10
    <3>2. m + 1 + 1 \in DOMAIN expected <=> m + 1 # n
      BY <2>3, <2>7
    <3> QED BY <1>1, <1>4, <2>3, <3>1, <3>2 DEF Offset
  <2>12. seen' = {Shown(expected[k]) : k \in 1..m+1}
    <3>1. seen' = seen \cup {Shown(p)}
      BY <1>1, <2>8, <2>9 DEF Shown
    <3>2. seen = {Shown(expected[k]) : k \in 1..m}
      BY <2>2 DEF Found
    <3>3. 1..m+1 = 1..m \cup {m+1}
      BY <2>3
    <3> QED BY <2>8, <3>1, <3>2, <3>3
  <2>13. \A k \in 1..m+1 : Len(data) - expected[k].at >= 7
    <3>1. \A k \in 1..m+1 : k \in 1..m \/ k = m + 1
      BY <2>3
    <3> QED BY <2>2, <2>7, <3>1 DEF Found
  <2>14. ASSUME NEW k \in m+1+1..Len(expected) PROVE Headed(data', expected[k])
    <3>1. k \in m+1..Len(expected) /\ k \in 1..n /\ m + 1 < k
      BY <2>3
    <3>2. Headed(data, expected[k])
      BY <1>1, <2>2, <3>1 DEF Found
    <3>3. indexof + SizeOf(p) <= expected[k].at /\ expected[k].at + SizeOf(expected[k]) <= l
      BY <2>4, <2>7, <2>8, <3>1
    <3>4. PICK h \in Nat, z \in Nat, y \in Nat :
            /\ h = expected[k].at /\ z = SizeOf(expected[k]) /\ z >= 4 /\ h + z <= l
            /\ y = SizeOf(p) /\ y >= 4 /\ indexof + y <= h
      BY <2>6, <2>7, <2>8, <3>1, <3>3
    <3>5. \A i \in 1..4 : h + i \in 1..l /\ h + i \notin indexof+1..indexof+3
      <4>1. PICK o \in Nat : o = indexof
        BY <1>2
      <4>2. o + y <= h /\ y >= 4 /\ z >= 4 /\ h + z <= l
        BY <3>4, <4>1
      <4>3. \A i \in 1..4 : h + i \in 1..l /\ h + i \notin o+1..o+3
        BY <4>2
      <4> QED BY <4>1, <4>3
    <3> QED BY <1>4, <2>3, <3>2, <3>4, <3>5 DEF Headed
  <2>15. Found(m + 1)'
    BY <1>1, <1>4, <2>11, <2>12, <2>13, <2>14 DEF Found
  <2>16. m + 1 \in 0..Len(expected)
    BY <2>3, <2>7
  <2> QED BY <2>15, <2>16
<1> QED BY <1>5, <1>6, <1>7, <1>8 DEF ProtocolInv

\* checkCommand is right about the first packet's command.
LEMMA ProcessStep == ASSUME ProtocolInv, Process PROVE ProtocolInv'
<1>1. /\ receiver = "process" /\ receiver' = "processed" /\ known' = checkCommand(data[1])
      /\ data' = Protocol_Analysis(0)
      /\ UNCHANGED <<sending, wire, sent, torn, indexof, expected, seen>>
  BY DEF Process
<1>2. data \in Seq(Byte) /\ 0 \in Nat
  BY LateTypes
<1>3. data' \in Seq(Byte) /\ Len(data') = Len(data)
  BY <1>1, <1>2, AnalysisType
<1>4. TypeOK'
  <2>1. known' \in BOOLEAN /\ torn' \in BOOLEAN
    BY <1>1 DEF checkCommand, ProtocolInv, TypeOK
  <2> QED BY <1>1, <1>3, <2>1 DEF ProtocolInv, TypeOK, sending
<1>5. PacketInv'
  BY <1>1 DEF ProtocolInv, PacketInv, sending, TotalLength, SendProtocolLength
<1>6. WireInv'
  BY <1>1 DEF ProtocolInv, WireInv
<1>7. ASSUME expected # <<>>, NEW m \in 0..Len(expected), Found(m), Placed(expected, Len(data))
       PROVE  Found(m)'
  <2>1. m = 0
    BY <1>1, <1>7 DEF Found
  <2>2. expected \in Seq(Packet) /\ 1 \in 0+1..Len(expected) /\ expected[1] \in Packet /\ expected[1].at = 0
    BY <1>7 DEF Placed
  <2>3. Headed(data, expected[1])
    BY <1>1, <1>7, <2>1, <2>2 DEF Found
  <2>4. data[1] = Coded(expected[1])[1]
    <3>1. 1 \in 1..4 /\ 0 + 1 = 1
      OBVIOUS
    <3> QED BY <2>2, <2>3, <3>1 DEF Headed
  <2>5. known' = (expected[1].command \in commandCollect)
    BY <1>1, <2>2, <2>4, HeaderBack DEF checkCommand
  <2> QED BY <1>1, <1>3, <1>7, <2>1, <2>5 DEF Found, Offset
<1>8. DataInv'
  BY <1>1, <1>3, <1>7 DEF ProtocolInv, DataInv
<1> QED BY <1>4, <1>5, <1>6, <1>8 DEF ProtocolInv

LEMMA ProtocolNext == ProtocolInv /\ [Next]_vars => ProtocolInv'
<1> SUFFICES ASSUME ProtocolInv, [Next]_vars PROVE ProtocolInv'
  OBVIOUS
<1>1. CASE UNCHANGED vars
  <2>1. TypeOK' /\ PacketInv'
    BY <1>1 DEF vars, sending, receiving, ProtocolInv, TypeOK, PacketInv, TotalLength, SendProtocolLength
  <2>2. WireInv' /\ DataInv'
    BY <1>1, WireStays, DataStays DEF vars, sending, receiving, ProtocolInv
  <2> QED BY <2>1, <2>2 DEF ProtocolInv
<1>2. ASSUME NEW c \in load.commands, FmtCmd(c) PROVE ProtocolInv'
  BY <1>2, CmdStep
<1>3. ASSUME NEW b \in load.chunks, Fmt(b) PROVE ProtocolInv'
  BY <1>3, FmtStep
<1>4. CASE Decode
  <2>1. CASE Len(data) - indexof >= 7
    BY <1>4, <2>1, DecodeTurn
  <2>2. CASE ~(Len(data) - indexof >= 7)
    BY <1>4, <2>2, DecodeEnd
  <2> QED BY <2>1, <2>2
<1> QED BY <1>1, <1>2, <1>3, <1>4, CrcOfStep, EndStep, SendStep, RecvStep, ProcessStep DEF Next

\* No field of a header leaves its width, and no byte of the buffers is more than one, for any
\* senders and receivers.
THEOREM ProtocolTyped == Spec => []TypeOK
<1>1. ProtocolInv => TypeOK
  BY DEF ProtocolInv
<1> QED BY <1>1, ProtocolInit, ProtocolNext, PTL DEF Spec

\* A buffer of whole packets is taken apart where it was put together, for any commands and data,
\* any number of packets that fit it, and any checksums.
THEOREM PacketsTakenApart == Spec => []PacketsArrive
<1>1. ProtocolInv => PacketsArrive
  <2> SUFFICES ASSUME ProtocolInv, expected # <<>>, \A k \in DOMAIN expected : SizeOf(expected[k]) < 256
               PROVE  Decoded /\ Known
    BY DEF PacketsArrive
  <2>1. Placed(expected, Len(data))
    BY DEF ProtocolInv, DataInv
  <2>2. PICK m \in 0..Len(expected) : Found(m)
    BY DEF ProtocolInv, DataInv
  <2>3. PICK n \in Nat, l \in Nat : n = Len(expected) /\ l = Len(data) /\ DOMAIN expected = 1..n
    BY <2>1 DEF Placed
  <2>4. /\ expected \in Seq(Packet)
        /\ \A j, k \in 1..n : j < k => expected[j].at + SizeOf(expected[j]) <= expected[k].at
    BY <2>1, <2>3 DEF Placed
  <2>5. \A k \in 1..n : expected[k].at \in Nat /\ SizeOf(expected[k]) \in Nat
    <3>1. \A k \in 1..n : expected[k] \in Packet
      BY <2>3, <2>4
    <3> QED BY <3>1, SizeType DEF Packet
  <2>6. seen = {[at |-> Offset(k), command |-> expected[k].command, length |-> SizeOf(expected[k]),
                 crc16 |-> Message_count_CRC_2(expected[k].payload)] : k \in 1..m}
    <3>1. \A k \in 1..m : Offset(k) = expected[k].at
      BY <2>3 DEF Offset
    <3> QED BY <2>2, <3>1 DEF Found, Shown
  <2>7. ASSUME receiver = "decoded" PROVE 1..m = {k \in DOMAIN expected : Len(data) - Offset(k) >= 7}
    <3>1. ASSUME NEW k \in 1..m PROVE k \in DOMAIN expected /\ Len(data) - Offset(k) >= 7
      BY <2>2, <2>3 DEF Found, Offset
    <3>2. ASSUME NEW k \in 1..n, k \notin 1..m PROVE ~(Len(data) - Offset(k) >= 7)
      <4>1. m + 1 \in 1..n /\ (k = m + 1 \/ m + 1 < k)
        BY <2>3, <3>2
      <4>2. indexof = expected[m+1].at /\ l - indexof < 7
        BY <2>2, <2>3, <2>7, <4>1 DEF Found, Offset
      <4>3. expected[m+1].at <= expected[k].at
        <5>1. CASE k = m + 1
          BY <2>5, <5>1
        <5>2. CASE m + 1 < k
          <6>1. PICK x \in Nat, y \in Nat, z \in Nat :
                  x = expected[m+1].at /\ y = expected[k].at /\ z = SizeOf(expected[m+1])
            BY <2>5, <4>1
          <6>2. x + z <= y
            BY <2>4, <4>1, <5>2, <6>1
          <6>3. x <= y
            BY <6>2
          <6> QED BY <6>1, <6>3
        <5> QED BY <4>1, <5>1, <5>2
      <4>4. Offset(k) = expected[k].at
        BY <2>3 DEF Offset
      <4> QED BY <2>3, <2>5, <4>1, <4>2, <4>3, <4>4
    <3> QED BY <2>3, <3>1, <3>2
  <2>8. Decoded
    BY <2>2, <2>6, <2>7 DEF Decoded, Found
  <2>9. Known
    BY <2>2 DEF Found, Known
  <2> QED BY <2>8, <2>9
<1> QED BY <1>1, ProtocolInit, ProtocolNext, PTL DEF Spec
===============================================================================
