-------------------------------- MODULE Crc16 --------------------------------
(***************************************************************************)
(* The two 16-bit checksums of the repository: the one by tables of        *)
(* src/src/IndexTSDB_protocol.cpp (tables in IndexTSDB_protocol.h), which  *)
(* takes the bits of a byte from the lowest on, and the one bit by bit of  *)
(* src/src/crc16.cpp, which takes them from the highest on.                *)
(***************************************************************************)
EXTENDS Integers, Sequences, SequencesExt

Byte == 0..255
U16 == 0..65535

\* The exclusive or of two u16, from those of their halves.
Xor2(x, y) == ((x + y) % 2) + 2 * ((x \div 2 + y \div 2) % 2)
Xor4(x, y) == Xor2(x % 4, y % 4) + 4 * Xor2(x \div 4, y \div 4)
Xor8(x, y) == Xor4(x % 16, y % 16) + 16 * Xor4(x \div 16, y \div 16)
Xor(x, y)  == Xor8(x % 256, y % 256) + 256 * Xor8(x \div 256, y \div 256)

CRC_Array_H == <<
    0, 193, 129,  64,   1, 192, 128,  65,   1, 192, 128,  65,   0, 193, 129,  64,   1, 192, 128,  65,
    0, 193, 129,  64,   0, 193, 129,  64,   1, 192, 128,  65,   1, 192, 128,  65,   0, 193, 129,  64,
    0, 193, 129,  64,   1, 192, 128,  65,   0, 193, 129,  64,   1, 192, 128,  65,   1, 192, 128,  65,
    0, 193, 129,  64,   1, 192, 128,  65,   0, 193, 129,  64,   0, 193, 129,  64,   1, 192, 128,  65,
    0, 193, 129,  64,   1, 192, 128,  65,   1, 192, 128,  65,   0, 193, 129,  64,   0, 193, 129,  64,
    1, 192, 128,  65,   1, 192, 128,  65,   0, 193, 129,  64,   1, 192, 128,  65,   0, 193, 129,  64,
    0, 193, 129,  64,   1, 192, 128,  65,   1, 192, 128,  65,   0, 193, 129,  64,   0, 193, 129,  64,
    1, 192, 128,  65,   0, 193, 129,  64,   1, 192, 128,  65,   1, 192, 128,  65,   0, 193, 129,  64,
    0, 193, 129,  64,   1, 192, 128,  65,   1, 192, 128,  65,   0, 193, 129,  64,   1, 192, 128,  65,
    0, 193, 129,  64,   0, 193, 129,  64,   1, 192, 128,  65,   0, 193, 129,  64,   1, 192, 128,  65,
    1, 192, 128,  65,   0, 193, 129,  64,   1, 192, 128,  65,   0, 193, 129,  64,   0, 193, 129,  64,
    1, 192, 128,  65,   1, 192, 128,  65,   0, 193, 129,  64,   0, 193, 129,  64,   1, 192, 128,  65,
    0, 193, 129,  64,   1, 192, 128,  65,   1, 192, 128,  65,   0, 193, 129,  64 >>

CRC_Array_L == <<
    0, 192, 193,   1, 195,   3,   2, 194, 198,   6,   7, 199,   5, 197, 196,   4, 204,  12,  13, 205,
   15, 207, 206,  14,  10, 202, 203,  11, 201,   9,   8, 200, 216,  24,  25, 217,  27, 219, 218,  26,
   30, 222, 223,  31, 221,  29,  28, 220,  20, 212, 213,  21, 215,  23,  22, 214, 210,  18,  19, 211,
   17, 209, 208,  16, 240,  48,  49, 241,  51, 243, 242,  50,  54, 246, 247,  55, 245,  53,  52, 244,
   60, 252, 253,  61, 255,  63,  62, 254, 250,  58,  59, 251,  57, 249, 248,  56,  40, 232, 233,  41,
  235,  43,  42, 234, 238,  46,  47, 239,  45, 237, 236,  44, 228,  36,  37, 229,  39, 231, 230,  38,
   34, 226, 227,  35, 225,  33,  32, 224, 160,  96,  97, 161,  99, 163, 162,  98, 102, 166, 167, 103,
  165, 101, 100, 164, 108, 172, 173, 109, 175, 111, 110, 174, 170, 106, 107, 171, 105, 169, 168, 104,
  120, 184, 185, 121, 187, 123, 122, 186, 190, 126, 127, 191, 125, 189, 188, 124, 180, 116, 117, 181,
  119, 183, 182, 118, 114, 178, 179, 115, 177, 113, 112, 176,  80, 144, 145,  81, 147,  83,  82, 146,
  150,  86,  87, 151,  85, 149, 148,  84, 156,  92,  93, 157,  95, 159, 158,  94,  90, 154, 155,  91,
  153,  89,  88, 152, 136,  72,  73, 137,  75, 139, 138,  74,  78, 142, 143,  79, 141,  77,  76, 140,
   68, 132, 133,  69, 135,  71,  70, 134, 130,  66,  67, 131,  65, 129, 128,  64 >>

\* Mutant: the first index is not taken with the byte before it is used.
CrcStep_Late(c, b) ==
  [h |-> Xor(Xor(c.l, CRC_Array_H[c.h + 1]), b), l |-> CRC_Array_L[c.h + 1]]

CrcStep(c, b) ==
  LET Index == Xor(c.h, b)
  IN [h |-> Xor(c.l, CRC_Array_H[Index + 1]), l |-> CRC_Array_L[Index + 1]]

\* The loop over the bytes from p.i to p.j, starting from p.c, by halves.
Message_count_CRC_2(data) ==
  LET n == Len(data)
      over[p \in [c : [h : Byte, l : Byte], i : 1..n+1, j : 0..n]] ==
        IF p.i >= p.j THEN IF p.i = p.j THEN CrcStep(p.c, data[p.i]) ELSE p.c
        ELSE LET m == (p.i + p.j) \div 2
             IN over[[c |-> over[[p EXCEPT !.j = m]], i |-> m + 1, j |-> p.j]]
      crc == over[[c |-> [h |-> 255, l |-> 255], i |-> 1, j |-> n]]
  IN crc.h * 256 + crc.l

\* unsigned short: what is shifted out at the top is lost.
Shift(r) == IF r >= 32768 THEN Xor((2 * r) % 65536, 32773) ELSE 2 * r

CalCRc(crc, buf) ==
  FoldLeft(LAMBDA r, b : FoldLeft(LAMBDA a, k : Shift(a), Xor(r, 256 * b), <<1, 2, 3, 4, 5, 6, 7, 8>>),
           crc, buf)
-----------------------------------------------------------------------------
\* The n bits of x in the opposite order.
Mirrored(x, n) == LET f[k \in 0..n] == IF k = 0 THEN 0 ELSE 2 * f[k-1] + ((x \div 2^(k-1)) % 2) IN f[n]

\* What the table gives is what the bit by bit division gives, up to the order of the bits and
\* of the two bytes.
SameCode(data) ==
  LET c == Mirrored(CalCRc(65535, [k \in DOMAIN data |-> Mirrored(data[k], 8)]), 16)
  IN Message_count_CRC_2(data) = (c % 256) * 256 + c \div 256
=============================================================================
