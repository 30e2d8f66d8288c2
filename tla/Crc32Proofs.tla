---------------------------- MODULE Crc32Proofs ----------------------------
(***************************************************************************)
(* crc32_1byte() computes the CRC-32 of the standard, of any bytes, and    *)
(* tells two files apart that differ in one byte, or within four bytes in  *)
(* a row.                                                                  *)
(*                                                                         *)
(* The argument.  ^ acts on every bit alone, so that shifting to the right *)
(* and the division by a polynomial add up: what becomes of x ^ y is what  *)
(* becomes of x ^ what becomes of y.  Eight steps of the division are      *)
(* therefore those of the low byte, which the table holds, ^ the rest,     *)
(* which only moves.  And they lose nothing: the polynomial has its        *)
(* highest bit, so only the zero register is divided down to zero.         *)
(*                                                                         *)
(* The loops over bytes and bits are recursive functions.  They exist, and *)
(* are what one expects pass by pass, by induction on the passes, which    *)
(* rests on the least element of a set of numbers.                         *)
(***************************************************************************)
EXTENDS Base64, Crc32, WellFoundedInduction, TLAPS

-----------------------------------------------------------------------------
(* Induction.                                                              *)

\* A set of numbers has a least one.
LEMMA Least ==
  ASSUME NEW T \in SUBSET Nat, T # {}
  PROVE  \E n \in T : \A m \in T : n <= m
<1> DEFINE R == OpToRel(<, Nat)
<1>1. IsWellFoundedOn(R, Nat)
  BY NatLessThanWellFounded
<1>2. \A m, n \in Nat : <<m, n>> \in R <=> m < n
  BY DEF OpToRel
<1> HIDE DEF R
<1>3. PICK n \in T : \A m \in T : ~ (<<m, n>> \in R)
  BY <1>1, WFMin
<1>4. \A m \in T : ~ m < n
  BY <1>2, <1>3
<1>5. \A m \in T : n <= m
  BY <1>4
<1> QED BY <1>5

\* Induction along an interval, over a set instead of a predicate.
LEMMA Induction ==
  ASSUME NEW N \in Nat, NEW T, 0 \in T, \A n \in 1 .. N : n - 1 \in T => n \in T
  PROVE  \A n \in 0 .. N : n \in T
<1> DEFINE bad == {n \in 0 .. N : n \notin T}
<1>1. ASSUME bad # {} PROVE FALSE
  <2>1. bad \in SUBSET Nat
    OBVIOUS
  <2>2. PICK n \in bad : \A m \in bad : n <= m
    BY <1>1, <2>1, Least
  <2>3. n # 0 /\ n \in 1 .. N /\ n - 1 \in 0 .. N /\ ~ n <= n - 1
    BY <2>2
  <2>4. n - 1 \notin bad
    BY <2>2, <2>3
  <2> QED BY <2>2, <2>3, <2>4
<1> QED BY <1>1

\* The registers a loop of N passes leaves, from its start on.
Loops(N, S, start, pass) ==
  {f \in [0 .. N -> S] :
     f[0] = start /\ \A n \in 1 .. N : f[n] = pass[n][f[n - 1]]}

\* A recursive function exists.
LEMMA Recursion ==
  ASSUME NEW N \in Nat, NEW S, NEW start \in S,
         NEW pass \in [1 .. N -> [S -> S]]
  PROVE  Loops(N, S, start, pass) # {}
<1> DEFINE T == {k \in 0 .. N : Loops(k, S, start, pass) # {}}
<1>1. 0 \in T
  <2> DEFINE g == [n \in 0 .. 0 |-> start]
  <2>1. g \in [0 .. 0 -> S] /\ g[0] = start
    OBVIOUS
  <2>2. \A n \in 1 .. 0 : g[n] = pass[n][g[n - 1]]
    OBVIOUS
  <2> HIDE DEF g
  <2>3. g \in Loops(0, S, start, pass)
    BY <2>1, <2>2 DEF Loops
  <2> QED BY <2>3
<1>2. ASSUME NEW k \in 1 .. N, k - 1 \in T PROVE k \in T
  <2>1. PICK f \in Loops(k - 1, S, start, pass) : TRUE
    BY <1>2
  <2>2. /\ f \in [0 .. k - 1 -> S] /\ f[0] = start
        /\ \A n \in 1 .. k - 1 : f[n] = pass[n][f[n - 1]]
    BY <2>1 DEF Loops
  <2> DEFINE g == [n \in 0 .. k |-> IF n = k THEN pass[k][f[k - 1]] ELSE f[n]]
  <2>3. pass[k][f[k - 1]] \in S
    BY <2>2
  <2>4. g \in [0 .. k -> S]
    BY <2>2, <2>3
  <2>5. g[0] = start /\ \A n \in 1 .. k : g[n] = pass[n][g[n - 1]]
    BY <2>2
  <2> HIDE DEF g
  <2>6. g \in Loops(k, S, start, pass)
    BY <2>4, <2>5 DEF Loops
  <2> QED BY <2>6
<1>3. N \in T
  <2> HIDE DEF T
  <2>1. \A n \in 0 .. N : n \in T
    BY <1>1, <1>2, Induction
  <2> QED BY <2>1
<1> QED BY <1>3

-----------------------------------------------------------------------------
(* Bytes: ^ bit by bit.                                                    *)

Bits == 0 .. 1

\* The weights of the bits of a byte, a byte as the function of its bits, and
\* the number such a function stands for.
Weights == {1, 2, 4, 8, 16, 32, 64, 128}

Number(b) ==
  128 * b[128] + 64 * b[64] + 32 * b[32] + 16 * b[16]
  + 8 * b[8] + 4 * b[4] + 2 * b[2] + b[1]

BitsOf(a) == [p \in Weights |-> BitOf(a, p)]

\* A byte is its bits.
LEMMA ByteIsBits ==
  ASSUME NEW a \in Bytes
  PROVE  /\ \A p \in Weights : BitOf(a, p) \in Bits
         /\ BitsOf(a) \in [Weights -> Bits]
         /\ a = Number(BitsOf(a))
<1>1. /\ BitOf(a, 128) \in Bits /\ BitOf(a, 64) \in Bits
      /\ BitOf(a, 32) \in Bits /\ BitOf(a, 16) \in Bits
      /\ BitOf(a, 8) \in Bits /\ BitOf(a, 4) \in Bits
      /\ BitOf(a, 2) \in Bits /\ BitOf(a, 1) \in Bits
      /\ a = 128 * BitOf(a, 128) + 64 * BitOf(a, 64) + 32 * BitOf(a, 32)
             + 16 * BitOf(a, 16) + 8 * BitOf(a, 8) + 4 * BitOf(a, 4)
             + 2 * BitOf(a, 2) + BitOf(a, 1)
  BY DEF Bytes, Bits, BitOf
<1>2. \A p \in Weights : BitOf(a, p) \in Bits
  BY <1>1 DEF Weights
<1>3. a = Number(BitsOf(a))
  BY <1>1 DEF Number, BitsOf, Weights
<1>4. BitsOf(a) \in [Weights -> Bits]
  BY <1>2, Zenon DEF BitsOf
<1> QED BY <1>2, <1>3, <1>4

\* And the bits are a byte.
LEMMA NumberBits ==
  ASSUME NEW b \in [Weights -> Bits]
  PROVE  /\ Number(b) \in Bytes
         /\ BitsOf(Number(b)) = b
         /\ \A p \in Weights : BitOf(Number(b), p) = b[p]
<1>1. /\ b[128] \in 0 .. 1 /\ b[64] \in 0 .. 1 /\ b[32] \in 0 .. 1
      /\ b[16] \in 0 .. 1 /\ b[8] \in 0 .. 1 /\ b[4] \in 0 .. 1
      /\ b[2] \in 0 .. 1 /\ b[1] \in 0 .. 1
  BY DEF Weights, Bits
<1> DEFINE n == Number(b)
<1>2. n \in Bytes
  BY <1>1 DEF Bytes, Number
<1>3. BitOf(n, 128) = b[128]
  BY <1>1 DEF Number, BitOf
<1>4. BitOf(n, 64) = b[64]
  BY <1>1 DEF Number, BitOf
<1>5. BitOf(n, 32) = b[32]
  BY <1>1 DEF Number, BitOf
<1>6. BitOf(n, 16) = b[16]
  BY <1>1 DEF Number, BitOf
<1>7. BitOf(n, 8) = b[8]
  BY <1>1 DEF Number, BitOf
<1>8. BitOf(n, 4) = b[4]
  BY <1>1 DEF Number, BitOf
<1>9. BitOf(n, 2) = b[2]
  BY <1>1 DEF Number, BitOf
<1>10. BitOf(n, 1) = b[1]
  BY <1>1 DEF Number, BitOf
<1>11. \A p \in Weights : BitOf(n, p) = b[p]
  BY <1>3, <1>4, <1>5, <1>6, <1>7, <1>8, <1>9, <1>10 DEF Weights
<1>12. BitsOf(n) = b
  BY <1>11 DEF BitsOf
<1> QED BY <1>2, <1>11, <1>12

\* What ^ does to the bits.
SumBits(x, y) == [p \in Weights |-> (x[p] + y[p]) % 2]

LEMMA XorByBits ==
  ASSUME NEW a \in Bytes, NEW b \in Bytes
  PROVE  /\ XorByte(a, b) \in Bytes
         /\ XorByte(a, b) = Number(SumBits(BitsOf(a), BitsOf(b)))
         /\ BitsOf(XorByte(a, b)) = SumBits(BitsOf(a), BitsOf(b))
<1> DEFINE x == SumBits(BitsOf(a), BitsOf(b))
<1>1. x \in [Weights -> Bits]
  <2>1. \A s, t \in Bits : (s + t) % 2 \in Bits
    BY DEF Bits
  <2> QED BY <2>1, ByteIsBits DEF SumBits, BitsOf
<1>2. XorByte(a, b) = Number(x)
  <2>1. \A p \in Weights : XorBit(a, b, p) = p * x[p]
    BY DEF XorBit, SumBits, BitsOf
  <2> HIDE DEF x
  <2>2. /\ XorBit(a, b, 128) = 128 * x[128] /\ XorBit(a, b, 64) = 64 * x[64]
        /\ XorBit(a, b, 32) = 32 * x[32] /\ XorBit(a, b, 16) = 16 * x[16]
        /\ XorBit(a, b, 8) = 8 * x[8] /\ XorBit(a, b, 4) = 4 * x[4]
        /\ XorBit(a, b, 2) = 2 * x[2] /\ XorBit(a, b, 1) = 1 * x[1]
    BY <2>1 DEF Weights
  <2>3. 1 \in Weights /\ x[1] \in Int
    BY <1>1 DEF Weights, Bits
  <2>4. 1 * x[1] = x[1]
    BY <2>3
  <2> QED BY <2>2, <2>4 DEF XorByte, Number
<1> QED BY <1>1, <1>2, NumberBits

\* ^ is associative and commutative, and a byte is its own inverse.
LEMMA XorByteLaws ==
  ASSUME NEW a \in Bytes, NEW b \in Bytes, NEW c \in Bytes
  PROVE  /\ XorByte(a, b) = XorByte(b, a)
         /\ XorByte(XorByte(a, b), c) = XorByte(a, XorByte(b, c))
         /\ XorByte(a, 0) = a /\ XorByte(a, a) = 0
<1>1. \A x, y \in [Weights -> Bits] : SumBits(x, y) = SumBits(y, x)
  BY DEF SumBits, Bits
<1>2. \A x, y, z \in [Weights -> Bits] :
        SumBits(SumBits(x, y), z) = SumBits(x, SumBits(y, z))
  <2>1. \A s, t, u \in Bits : (((s + t) % 2) + u) % 2 = (s + ((t + u) % 2)) % 2
    BY DEF Bits
  <2> QED BY <2>1 DEF SumBits
<1>3. 0 \in Bytes /\ BitsOf(0) = [p \in Weights |-> 0]
  BY DEF Bytes, BitsOf, BitOf, Weights
<1>4. \A x \in [Weights -> Bits] :
        SumBits(x, BitsOf(0)) = x /\ SumBits(x, x) = BitsOf(0)
  <2>1. \A s \in Bits : (s + 0) % 2 = s /\ (s + s) % 2 = 0
    BY DEF Bits
  <2> QED BY <2>1, <1>3 DEF SumBits
<1>5. /\ BitsOf(a) \in [Weights -> Bits] /\ BitsOf(b) \in [Weights -> Bits]
      /\ BitsOf(c) \in [Weights -> Bits]
  BY ByteIsBits
<1>6. XorByte(a, b) = XorByte(b, a)
  BY <1>1, <1>5, XorByBits
<1>7. XorByte(XorByte(a, b), c) = XorByte(a, XorByte(b, c))
  BY <1>2, <1>5, XorByBits
<1>8. XorByte(a, 0) = a /\ XorByte(a, a) = 0
  BY <1>3, <1>4, <1>5, XorByBits, ByteIsBits
<1> QED BY <1>6, <1>7, <1>8

\* Numbers of 16 bits, and their two bytes.
Halves == {h \in Nat : h < 65536}

LEMMA InBytes ==
  ASSUME NEW n \in Nat
  PROVE  n = 256 * (n \div 256) + (n % 256)
OBVIOUS

LEMMA HalfIsBytes ==
  ASSUME NEW h \in Halves
  PROVE  /\ h \div 256 \in Bytes /\ h % 256 \in Bytes
         /\ h = 256 * (h \div 256) + (h % 256)
<1>1. h \in Nat /\ h < 65536
  BY DEF Halves
<1>2. h \div 256 \in Bytes
  BY <1>1 DEF Bytes
<1>3. h % 256 \in Bytes
  BY <1>1 DEF Bytes
<1>4. h = 256 * (h \div 256) + (h % 256)
  BY <1>1, InBytes
<1> QED BY <1>2, <1>3, <1>4

LEMMA HalfOfBytes ==
  ASSUME NEW a \in Bytes, NEW b \in Bytes
  PROVE  /\ a * 256 + b \in Halves
         /\ (a * 256 + b) \div 256 = a /\ (a * 256 + b) % 256 = b
BY DEF Halves, Bytes

\* ^ acts on the two bytes of a half, and obeys the same laws.
LEMMA XorHalfBytes ==
  ASSUME NEW a \in Halves, NEW b \in Halves
  PROVE  /\ XorHalf(a, b) \in Halves
         /\ XorHalf(a, b) \div 256 = XorByte(a \div 256, b \div 256)
         /\ XorHalf(a, b) % 256 = XorByte(a % 256, b % 256)
<1>1. /\ XorByte(a \div 256, b \div 256) \in Bytes
      /\ XorByte(a % 256, b % 256) \in Bytes
  BY HalfIsBytes, XorByBits
<1> QED BY <1>1, HalfOfBytes DEF XorHalf

LEMMA SameHalf ==
  ASSUME NEW a \in Halves, NEW b \in Halves,
         a \div 256 = b \div 256, a % 256 = b % 256
  PROVE  a = b
BY DEF Halves

LEMMA XorHalfLaws ==
  ASSUME NEW a \in Halves, NEW b \in Halves, NEW c \in Halves
  PROVE  /\ XorHalf(a, b) = XorHalf(b, a)
         /\ XorHalf(XorHalf(a, b), c) = XorHalf(a, XorHalf(b, c))
         /\ XorHalf(a, 0) = a /\ XorHalf(a, a) = 0
<1>1. /\ a \div 256 \in Bytes /\ a % 256 \in Bytes
      /\ b \div 256 \in Bytes /\ b % 256 \in Bytes
      /\ c \div 256 \in Bytes /\ c % 256 \in Bytes
  BY HalfIsBytes
<1>2. 0 \in Halves /\ 0 \div 256 = 0 /\ 0 % 256 = 0
  BY DEF Halves
<1>3. XorHalf(a, b) = XorHalf(b, a)
  BY <1>1, XorByteLaws DEF XorHalf
<1>4. XorHalf(XorHalf(a, b), c) = XorHalf(a, XorHalf(b, c))
  <2>1. /\ XorHalf(a, b) \in Halves /\ XorHalf(b, c) \in Halves
        /\ XorHalf(XorHalf(a, b), c) \in Halves
        /\ XorHalf(a, XorHalf(b, c)) \in Halves
    BY XorHalfBytes
  <2>2. XorHalf(XorHalf(a, b), c) \div 256 = XorHalf(a, XorHalf(b, c)) \div 256
    BY <1>1, <2>1, XorHalfBytes, XorByteLaws
  <2>3. XorHalf(XorHalf(a, b), c) % 256 = XorHalf(a, XorHalf(b, c)) % 256
    BY <1>1, <2>1, XorHalfBytes, XorByteLaws
  <2> QED BY <2>1, <2>2, <2>3, SameHalf
<1>5. XorHalf(a, 0) = a /\ XorHalf(a, a) = 0
  <2>1. XorHalf(a, 0) \in Halves /\ XorHalf(a, a) \in Halves
    BY <1>2, XorHalfBytes
  <2>2. /\ XorHalf(a, 0) \div 256 = a \div 256 /\ XorHalf(a, 0) % 256 = a % 256
        /\ XorHalf(a, a) \div 256 = 0 /\ XorHalf(a, a) % 256 = 0
    BY <1>1, <1>2, XorHalfBytes, XorByteLaws
  <2> QED BY <1>2, <2>1, <2>2, SameHalf
<1> QED BY <1>3, <1>4, <1>5

\* A byte shifted down by one bit, with the bit c coming in.
Down(c, a) == 128 * c + (a \div 2)

LEMMA DownBits ==
  ASSUME NEW c \in Bits, NEW a \in Bytes
  PROVE  /\ Down(c, a) \in Bytes
         /\ BitsOf(Down(c, a)) =
              [p \in Weights |-> IF p = 128 THEN c ELSE BitOf(a, 2 * p)]
<1> DEFINE n == Down(c, a)
<1>1. n \in Bytes
  BY DEF Down, Bits, Bytes
<1>2. BitOf(n, 128) = c
  BY DEF Down, Bits, Bytes, BitOf
<1>3. BitOf(n, 64) = BitOf(a, 128)
  BY DEF Down, Bits, Bytes, BitOf
<1>4. BitOf(n, 32) = BitOf(a, 64)
  BY DEF Down, Bits, Bytes, BitOf
<1>5. BitOf(n, 16) = BitOf(a, 32)
  BY DEF Down, Bits, Bytes, BitOf
<1>6. BitOf(n, 8) = BitOf(a, 16)
  BY DEF Down, Bits, Bytes, BitOf
<1>7. BitOf(n, 4) = BitOf(a, 8)
  BY DEF Down, Bits, Bytes, BitOf
<1>8. BitOf(n, 2) = BitOf(a, 4)
  BY DEF Down, Bits, Bytes, BitOf
<1>9. BitOf(n, 1) = BitOf(a, 2)
  BY DEF Down, Bits, Bytes, BitOf
<1>10. \A p \in Weights : BitOf(n, p) = IF p = 128 THEN c ELSE BitOf(a, 2 * p)
  <2> HIDE DEF n
  <2> QED BY <1>2, <1>3, <1>4, <1>5, <1>6, <1>7, <1>8, <1>9 DEF Weights
<1> QED BY <1>1, <1>10 DEF BitsOf

\* The lowest bits add up, and so does what is shifted.
LEMMA XorLowBit ==
  ASSUME NEW a \in Bytes, NEW b \in Bytes
  PROVE  XorByte(a, b) % 2 = ((a % 2) + (b % 2)) % 2
<1>1. 1 \in Weights
  BY DEF Weights
<1>2. BitOf(XorByte(a, b), 1) = (BitOf(a, 1) + BitOf(b, 1)) % 2
  <2>1. BitsOf(XorByte(a, b))[1] = SumBits(BitsOf(a), BitsOf(b))[1]
    BY XorByBits
  <2> QED BY <1>1, <2>1 DEF BitsOf, SumBits
<1>3. \A n \in Bytes : BitOf(n, 1) = n % 2
  BY DEF BitOf, Bytes
<1> QED BY <1>2, <1>3, XorByBits

LEMMA XorDown ==
  ASSUME NEW c \in Bits, NEW a \in Bytes, NEW d \in Bits, NEW b \in Bytes
  PROVE  XorByte(Down(c, a), Down(d, b)) = Down((c + d) % 2, XorByte(a, b))
<1>1. (c + d) % 2 \in Bits
  BY DEF Bits
<1>2. Down(c, a) \in Bytes /\ Down(d, b) \in Bytes /\ XorByte(a, b) \in Bytes
  BY DownBits, XorByBits
<1>3. Down((c + d) % 2, XorByte(a, b)) \in Bytes
  BY <1>1, <1>2, DownBits
<1>4. \A p \in Weights : p # 128 => 2 * p \in Weights
  BY DEF Weights
<1>5. \A p \in Weights :
        BitOf(XorByte(a, b), p) = (BitOf(a, p) + BitOf(b, p)) % 2
  <2>1. BitsOf(XorByte(a, b)) = SumBits(BitsOf(a), BitsOf(b))
    BY XorByBits
  <2> QED BY <2>1 DEF BitsOf, SumBits
<1>6. SumBits(BitsOf(Down(c, a)), BitsOf(Down(d, b)))
        = BitsOf(Down((c + d) % 2, XorByte(a, b)))
  BY <1>1, <1>2, <1>4, <1>5, DownBits DEF SumBits
<1> QED BY <1>2, <1>3, <1>6, XorByBits, ByteIsBits

\* The same of a half.
HalfDown(c, h) == 32768 * c + (h \div 2)

LEMMA HalfDownBytes ==
  ASSUME NEW c \in Bits, NEW h \in Halves
  PROVE  /\ HalfDown(c, h) \in Halves
         /\ HalfDown(c, h) \div 256 = Down(c, h \div 256)
         /\ HalfDown(c, h) % 256 = Down((h \div 256) % 2, h % 256)
         /\ (h \div 256) % 2 \in Bits /\ (h % 256) % 2 = h % 2
<1>1. h \in Nat /\ h < 65536 /\ c \in Nat /\ c < 2
  BY DEF Halves, Bits
<1>2. HalfDown(c, h) \in Halves
  BY <1>1 DEF Halves, HalfDown
<1>3. HalfDown(c, h) \div 256 = Down(c, h \div 256)
  BY <1>1 DEF HalfDown, Down
<1>4. HalfDown(c, h) % 256 = Down((h \div 256) % 2, h % 256)
  BY <1>1 DEF HalfDown, Down
<1>5. (h \div 256) % 2 \in Bits /\ (h % 256) % 2 = h % 2
  BY <1>1 DEF Bits
<1> QED BY <1>2, <1>3, <1>4, <1>5

LEMMA XorHalfDown ==
  ASSUME NEW c \in Bits, NEW g \in Halves, NEW d \in Bits, NEW h \in Halves
  PROVE  /\ XorHalf(HalfDown(c, g), HalfDown(d, h))
              = HalfDown((c + d) % 2, XorHalf(g, h))
         /\ XorHalf(g, h) % 2 = ((g % 2) + (h % 2)) % 2
<1>1. (c + d) % 2 \in Bits
  BY DEF Bits
<1>2. /\ HalfDown(c, g) \in Halves /\ HalfDown(d, h) \in Halves
      /\ XorHalf(g, h) \in Halves
  BY HalfDownBytes, XorHalfBytes
<1>3. /\ HalfDown((c + d) % 2, XorHalf(g, h)) \in Halves
      /\ XorHalf(HalfDown(c, g), HalfDown(d, h)) \in Halves
  BY <1>1, <1>2, HalfDownBytes, XorHalfBytes
<1>4. /\ g \div 256 \in Bytes /\ g % 256 \in Bytes
      /\ h \div 256 \in Bytes /\ h % 256 \in Bytes
      /\ (g \div 256) % 2 \in Bits /\ (h \div 256) % 2 \in Bits
  BY HalfIsBytes, HalfDownBytes
<1>5. XorHalf(HalfDown(c, g), HalfDown(d, h)) \div 256
        = HalfDown((c + d) % 2, XorHalf(g, h)) \div 256
  <2>1. XorHalf(HalfDown(c, g), HalfDown(d, h)) \div 256
          = XorByte(Down(c, g \div 256), Down(d, h \div 256))
    BY <1>2, XorHalfBytes, HalfDownBytes
  <2>2. HalfDown((c + d) % 2, XorHalf(g, h)) \div 256
          = Down((c + d) % 2, XorByte(g \div 256, h \div 256))
    BY <1>1, <1>2, XorHalfBytes, HalfDownBytes
  <2> QED BY <1>4, <2>1, <2>2, XorDown
<1>6. XorHalf(HalfDown(c, g), HalfDown(d, h)) % 256
        = HalfDown((c + d) % 2, XorHalf(g, h)) % 256
  <2>1. XorHalf(HalfDown(c, g), HalfDown(d, h)) % 256
          = XorByte(Down((g \div 256) % 2, g % 256),
                    Down((h \div 256) % 2, h % 256))
    BY <1>2, XorHalfBytes, HalfDownBytes
  <2>2. HalfDown((c + d) % 2, XorHalf(g, h)) % 256
          = Down(XorByte(g \div 256, h \div 256) % 2, XorByte(g % 256, h % 256))
    BY <1>1, <1>2, XorHalfBytes, HalfDownBytes
  <2> QED BY <1>4, <2>1, <2>2, XorDown, XorLowBit
<1>7. XorHalf(g, h) % 2 = ((g % 2) + (h % 2)) % 2
  <2>1. XorHalf(g, h) % 2 = XorByte(g % 256, h % 256) % 2
    BY <1>2, HalfDownBytes, XorHalfBytes
  <2> QED BY <1>4, <2>1, XorLowBit, HalfDownBytes
<1> QED BY <1>3, <1>5, <1>6, <1>7, SameHalf

-----------------------------------------------------------------------------
(* Words: the 32-bit register as two halves.                               *)

Words == Halves \X Halves

\* A word is the pair of its halves.
LEMMA WordShape ==
  /\ \A x \in Words : x[1] \in Halves /\ x[2] \in Halves /\ x = <<x[1], x[2]>>
  /\ \A g, h \in Halves :
       <<g, h>> \in Words /\ <<g, h>>[1] = g /\ <<g, h>>[2] = h
BY DEF Words

Zero == <<0, 0>>

\* ^ on words.
LEMMA XorWordLaws ==
  ASSUME NEW x \in Words, NEW y \in Words, NEW z \in Words
  PROVE  /\ XorWord(x, y) \in Words
         /\ XorWord(x, y) = XorWord(y, x)
         /\ XorWord(XorWord(x, y), z) = XorWord(x, XorWord(y, z))
         /\ XorWord(x, Zero) = x /\ XorWord(x, x) = Zero /\ Zero \in Words
<1>1. /\ x[1] \in Halves /\ x[2] \in Halves /\ y[1] \in Halves
      /\ y[2] \in Halves /\ z[1] \in Halves /\ z[2] \in Halves
      /\ x = <<x[1], x[2]>>
  BY WordShape
<1>2. 0 \in Halves
  BY DEF Halves
<1>3. XorWord(x, y) \in Words /\ XorWord(y, z) \in Words /\ Zero \in Words
  BY <1>1, <1>2, WordShape, XorHalfBytes DEF XorWord, Zero
<1>4. XorWord(x, y) = XorWord(y, x)
  BY <1>1, XorHalfLaws DEF XorWord
<1>5. XorWord(XorWord(x, y), z) = XorWord(x, XorWord(y, z))
  BY <1>1, XorHalfLaws DEF XorWord
<1>6. XorWord(x, Zero) = x /\ XorWord(x, x) = Zero
  BY <1>1, XorHalfLaws DEF XorWord, Zero
<1> QED BY <1>3, <1>4, <1>5, <1>6

\* What is combined with the same word differs as before.
LEMMA XorWordTells ==
  ASSUME NEW x \in Words, NEW y \in Words, NEW z \in Words,
         XorWord(x, z) = XorWord(y, z)
  PROVE  x = y
<1>1. XorWord(XorWord(x, z), z) = x /\ XorWord(XorWord(y, z), z) = y
  BY XorWordLaws
<1> QED BY <1>1

\* >> 1 is a shift of both halves, and adds up.
LEMMA Shift1Parts ==
  ASSUME NEW x \in Words
  PROVE  /\ Shift1(x) = <<HalfDown(0, x[1]), HalfDown(x[1] % 2, x[2])>>
         /\ Shift1(x) \in Words
         /\ 0 \in Bits /\ x[1] % 2 \in Bits /\ x[2] % 2 \in Bits
<1>1. x[1] \in Halves /\ x[2] \in Halves /\ x[1] \in Nat /\ x[2] \in Nat
  BY WordShape DEF Halves
<1>2. 0 \in Bits /\ x[1] % 2 \in Bits /\ x[2] % 2 \in Bits
  BY <1>1 DEF Bits
<1>3. Shift1(x) = <<HalfDown(0, x[1]), HalfDown(x[1] % 2, x[2])>>
  <2>1. /\ HalfDown(0, x[1]) = x[1] \div 2
        /\ HalfDown(x[1] % 2, x[2]) = (x[1] % 2) * 32768 + (x[2] \div 2)
    BY <1>1 DEF HalfDown
  <2> QED BY <2>1 DEF Shift1
<1> QED BY <1>1, <1>2, <1>3, WordShape, HalfDownBytes

LEMMA XorShift1 ==
  ASSUME NEW x \in Words, NEW y \in Words
  PROVE  /\ Shift1(XorWord(x, y)) = XorWord(Shift1(x), Shift1(y))
         /\ XorWord(x, y)[2] % 2 = ((x[2] % 2) + (y[2] % 2)) % 2
<1>1. /\ x[1] \in Halves /\ x[2] \in Halves /\ y[1] \in Halves
      /\ y[2] \in Halves /\ XorWord(x, y) \in Words
  BY WordShape, XorWordLaws
<1>2. /\ XorWord(x, y)[1] = XorHalf(x[1], y[1])
      /\ XorWord(x, y)[2] = XorHalf(x[2], y[2])
  BY DEF XorWord
<1>3. /\ 0 \in Bits /\ (0 + 0) % 2 = 0
      /\ x[1] % 2 \in Bits /\ y[1] % 2 \in Bits
  BY Shift1Parts
<1>4. XorHalf(HalfDown(0, x[1]), HalfDown(0, y[1]))
        = HalfDown(0, XorHalf(x[1], y[1]))
  <2>1. PICK z \in Bits : z = 0 /\ (z + z) % 2 = z
    BY <1>3
  <2>2. XorHalf(HalfDown(z, x[1]), HalfDown(z, y[1]))
          = HalfDown((z + z) % 2, XorHalf(x[1], y[1]))
    BY ONLY <1>1, z \in Bits, XorHalfDown
  <2> QED BY <2>1, <2>2
<1>5. XorHalf(HalfDown(x[1] % 2, x[2]), HalfDown(y[1] % 2, y[2]))
        = HalfDown(XorHalf(x[1], y[1]) % 2, XorHalf(x[2], y[2]))
  <2>1. PICK c \in Bits, d \in Bits : c = x[1] % 2 /\ d = y[1] % 2
    BY <1>3
  <2>2. XorHalf(HalfDown(c, x[2]), HalfDown(d, y[2]))
          = HalfDown((c + d) % 2, XorHalf(x[2], y[2]))
    BY ONLY <1>1, c \in Bits, d \in Bits, XorHalfDown
  <2>3. XorHalf(x[1], y[1]) % 2 = ((x[1] % 2) + (y[1] % 2)) % 2
    BY ONLY <1>1, <1>3, XorHalfDown
  <2> QED BY <2>1, <2>2, <2>3
<1>6. Shift1(XorWord(x, y))
        = <<HalfDown(0, XorHalf(x[1], y[1])),
            HalfDown(XorHalf(x[1], y[1]) % 2, XorHalf(x[2], y[2]))>>
  BY <1>1, <1>2, Shift1Parts
<1>7. Shift1(XorWord(x, y)) = XorWord(Shift1(x), Shift1(y))
  BY <1>4, <1>5, <1>6, Shift1Parts DEF XorWord
<1>8. XorHalf(x[2], y[2]) % 2 = ((x[2] % 2) + (y[2] % 2)) % 2
  BY ONLY <1>1, <1>3, XorHalfDown
<1> QED BY <1>2, <1>7, <1>8

\* One division step adds up.
LEMMA BitAddsUp ==
  ASSUME NEW p \in Words, NEW x \in Words, NEW y \in Words
  PROVE  /\ Bit(p, x) \in Words
         /\ Bit(p, XorWord(x, y)) = XorWord(Bit(p, x), Bit(p, y))
<1> DEFINE s == Shift1(x)
           t == Shift1(y)
<1>1. /\ s \in Words /\ t \in Words /\ XorWord(s, t) \in Words
      /\ XorWord(s, p) \in Words /\ XorWord(t, p) \in Words
  BY Shift1Parts, XorWordLaws
<1>2. /\ Shift1(XorWord(x, y)) = XorWord(s, t)
      /\ XorWord(x, y)[2] % 2 = ((x[2] % 2) + (y[2] % 2)) % 2
      /\ x[2] % 2 \in Bits /\ y[2] % 2 \in Bits
  BY XorShift1, Shift1Parts
<1>3. XorWord(XorWord(s, p), t) = XorWord(XorWord(s, t), p)
  BY <1>1, XorWordLaws
<1>4. XorWord(s, XorWord(t, p)) = XorWord(XorWord(s, t), p)
  BY <1>1, XorWordLaws
<1>5. XorWord(XorWord(s, p), XorWord(t, p)) = XorWord(s, t)
  <2>1. XorWord(XorWord(s, p), XorWord(t, p))
          = XorWord(XorWord(XorWord(s, p), t), p)
    BY <1>1, XorWordLaws
  <2>2. XorWord(XorWord(XorWord(s, t), p), p) = XorWord(s, t)
    BY <1>1, XorWordLaws
  <2> QED BY <1>3, <2>1, <2>2
<1> HIDE DEF s, t
<1>6. /\ Bit(p, x) = IF x[2] % 2 = 1 THEN XorWord(s, p) ELSE s
      /\ Bit(p, y) = IF y[2] % 2 = 1 THEN XorWord(t, p) ELSE t
      /\ Bit(p, XorWord(x, y)) = IF XorWord(x, y)[2] % 2 = 1
                                 THEN XorWord(XorWord(s, t), p)
                                 ELSE XorWord(s, t)
  BY <1>2 DEF Bit, s, t
<1>7. \A i, j \in Bits :
        ((i + j) % 2 = 1) <=> ((i = 1) # (j = 1))
  BY DEF Bits
<1>8. (XorWord(x, y)[2] % 2 = 1) <=> ((x[2] % 2 = 1) # (y[2] % 2 = 1))
  BY <1>2, <1>7
<1> QED BY <1>1, <1>3, <1>4, <1>5, <1>6, <1>8

-----------------------------------------------------------------------------
(* The division: eight steps at once.                                      *)

\* The polynomial and the empty register are registers.
LEMMA StandardIsWord == Standard \in Words
<1>1. 60856 \in Halves /\ 33568 \in Halves
  BY DEF Halves
<1> QED BY <1>1, WordShape DEF Standard

LEMMA ZeroIsWord == Zero \in Words
<1>1. 0 \in Halves
  BY DEF Halves
<1> QED BY <1>1, WordShape DEF Zero

\* A word as one number.
Num(x) == 65536 * x[1] + x[2]

\* Shifting a word divides its number, and the number tells the word.
LEMMA NumTells ==
  ASSUME NEW x \in Words
  PROVE  /\ Num(x) \in Nat
         /\ Num(Shift1(x)) = Num(x) \div 2 /\ Num(x) % 2 = x[2] % 2
         /\ Num(Shift8(x)) = Num(x) \div 256 /\ Shift8(x) \in Words
         /\ \A y \in Words : Num(x) = Num(y) => x = y
<1>1. /\ x[1] \in Nat /\ x[1] < 65536 /\ x[2] \in Nat /\ x[2] < 65536
      /\ x = <<x[1], x[2]>>
  BY WordShape DEF Halves
<1> DEFINE h == x[1]
           l == x[2]
<1>2. PICK g \in Nat, k \in Nat : g = x[1] /\ k = x[2]
  BY <1>1
<1>3. g < 65536 /\ k < 65536
  BY <1>1, <1>2
<1>4. Num(x) = 65536 * g + k
  BY <1>2 DEF Num
<1>5. Num(Shift1(x)) = 65536 * (g \div 2) + ((g % 2) * 32768 + (k \div 2))
  BY <1>2 DEF Num, Shift1
<1>6. Num(Shift8(x)) = 65536 * (g \div 256) + ((g % 256) * 256 + (k \div 256))
  BY <1>2 DEF Num, Shift8
<1>7. 65536 * (g \div 2) + ((g % 2) * 32768 + (k \div 2))
        = (65536 * g + k) \div 2
  BY <1>3
<1>8. 65536 * (g \div 256) + ((g % 256) * 256 + (k \div 256))
        = (65536 * g + k) \div 256
  BY <1>3
<1>9. (65536 * g + k) % 2 = k % 2 /\ 65536 * g + k \in Nat
  BY <1>3
<1>10. Shift8(x) \in Words
  <2>1. /\ g \div 256 \in Nat /\ g \div 256 < 65536
        /\ (g % 256) * 256 + (k \div 256) \in Nat
        /\ (g % 256) * 256 + (k \div 256) < 65536
    BY <1>3
  <2>2. Shift8(x) = <<g \div 256, (g % 256) * 256 + (k \div 256)>>
    BY <1>2 DEF Shift8
  <2> QED BY <2>1, <2>2, WordShape DEF Halves
<1>11. ASSUME NEW y \in Words, Num(x) = Num(y) PROVE x = y
  <2>1. /\ y[1] \in Nat /\ y[1] < 65536 /\ y[2] \in Nat /\ y[2] < 65536
        /\ y = <<y[1], y[2]>>
    BY WordShape DEF Halves
  <2>2. x[1] = y[1] /\ x[2] = y[2]
    BY <1>1, <1>11, <2>1 DEF Num
  <2> QED BY <1>1, <2>1, <2>2
<1> QED BY <1>2, <1>4, <1>5, <1>6, <1>7, <1>8, <1>9, <1>10, <1>11

\* A step of the division halves an even number.
LEMMA EvenBit ==
  ASSUME NEW p \in Words, NEW x \in Words, NEW k \in Nat, Num(x) = 2 * k
  PROVE  Num(Bit(p, x)) = k /\ Bit(p, x) \in Words
<1>1. x[2] % 2 = 0 /\ Num(x) \div 2 = k
  <2>1. (2 * k) % 2 = 0 /\ (2 * k) \div 2 = k
    OBVIOUS
  <2> QED BY <2>1, NumTells
<1>2. Bit(p, x) = Shift1(x)
  BY <1>1 DEF Bit
<1> QED BY <1>1, <1>2, NumTells, Shift1Parts

\* What EightBits computes on the way.
Steps(p, c) == {f \in [0 .. 8 -> Words] :
                  f[0] = c /\ \A n \in 1 .. 8 : f[n] = Bit(p, f[n - 1])}

\* There are such steps, and EightBits is the last of them.
LEMMA EightBitsSteps ==
  ASSUME NEW p \in Words, NEW c \in Words
  PROVE  \E f \in Steps(p, c) : EightBits(p, c) = f[8]
<1> DEFINE pass == [n \in 1 .. 8 |-> [w \in Words |-> Bit(p, w)]]
           Def(g) == [n \in 0 .. 8 |-> IF n = 0 THEN c ELSE Bit(p, g[n - 1])]
           after == CHOOSE g : g = Def(g)
<1>1. \A w \in Words : Bit(p, w) \in Words
  BY BitAddsUp
<1>2. \E g : g = Def(g)
  <2>1. pass \in [1 .. 8 -> [Words -> Words]]
    BY <1>1
  <2> HIDE DEF pass
  <2>2. 8 \in Nat
    OBVIOUS
  <2>2a. Loops(8, Words, c, pass) # {}
    BY <2>1, <2>2, Recursion, Zenon
  <2>3. PICK f \in [0 .. 8 -> Words] :
          f[0] = c /\ \A n \in 1 .. 8 : f[n] = pass[n][f[n - 1]]
    BY <2>2a DEF Loops
  <2>4. \A n \in 1 .. 8 : f[n - 1] \in Words
    OBVIOUS
  <2>5. \A n \in 1 .. 8 : f[n] = Bit(p, f[n - 1])
    BY <2>3, <2>4 DEF pass
  <2>6. f = Def(f)
    BY <2>3, <2>5
  <2> QED BY <2>6
<1>3. after = Def(after)
  <2> HIDE DEF Def
  <2> QED BY <1>2
<1>4. EightBits(p, c) = after[8]
  BY DEF EightBits
<1> HIDE DEF after
<1>5. after[0] = c /\ \A n \in 1 .. 8 : after[n] = Bit(p, after[n - 1])
  BY <1>3
<1>6. \A n \in 0 .. 8 : after[n] \in Words
  <2> DEFINE T == {n \in 0 .. 8 : after[n] \in Words}
  <2>1. 0 \in T /\ \A n \in 1 .. 8 : n - 1 \in T => n \in T
    BY <1>1, <1>5
  <2> HIDE DEF T
  <2>2. \A n \in 0 .. 8 : n \in T
    BY <2>1, Induction
  <2> QED BY <2>2 DEF T
<1>7. after \in [0 .. 8 -> Words]
  BY <1>3, <1>6
<1> QED BY <1>4, <1>5, <1>7 DEF Steps

\* The steps are determined by their start.
LEMMA StepsFromStart ==
  ASSUME NEW p \in Words, NEW c \in Words, NEW f \in Steps(p, c)
  PROVE  f[8] = EightBits(p, c)
<1>1. PICK g \in Steps(p, c) : EightBits(p, c) = g[8]
  BY EightBitsSteps
<1> DEFINE T == {n \in 0 .. 8 : f[n] = g[n]}
<1>2. 0 \in T /\ \A n \in 1 .. 8 : n - 1 \in T => n \in T
  BY DEF Steps
<1> HIDE DEF T
<1>3. \A n \in 0 .. 8 : n \in T
  BY <1>2, Induction
<1>4. f[8] = g[8]
  BY <1>3 DEF T
<1> QED BY <1>1, <1>4

\* Eight steps add up.
LEMMA EightBitsAddsUp ==
  ASSUME NEW p \in Words, NEW x \in Words, NEW y \in Words
  PROVE  /\ EightBits(p, x) \in Words
         /\ EightBits(p, XorWord(x, y))
              = XorWord(EightBits(p, x), EightBits(p, y))
<1>1. PICK f \in Steps(p, x) : EightBits(p, x) = f[8]
  BY EightBitsSteps
<1>2. PICK g \in Steps(p, y) : EightBits(p, y) = g[8]
  BY EightBitsSteps
<1>3. /\ f \in [0 .. 8 -> Words] /\ f[0] = x
      /\ \A n \in 1 .. 8 : f[n] = Bit(p, f[n - 1])
      /\ g \in [0 .. 8 -> Words] /\ g[0] = y
      /\ \A n \in 1 .. 8 : g[n] = Bit(p, g[n - 1])
  BY DEF Steps
<1> DEFINE h == [n \in 0 .. 8 |-> XorWord(f[n], g[n])]
<1>4. h \in [0 .. 8 -> Words] /\ XorWord(x, y) \in Words
  BY <1>3, XorWordLaws
<1>5. h[0] = XorWord(x, y)
  BY <1>3
<1>6. \A n \in 1 .. 8 : h[n] = Bit(p, h[n - 1])
  <2> TAKE n \in 1 .. 8
  <2>1. n - 1 \in 0 .. 8 /\ n \in 0 .. 8
    OBVIOUS
  <2>2. f[n - 1] \in Words /\ g[n - 1] \in Words
    BY <1>3, <2>1
  <2>3. Bit(p, XorWord(f[n - 1], g[n - 1]))
          = XorWord(Bit(p, f[n - 1]), Bit(p, g[n - 1]))
    BY <2>2, BitAddsUp
  <2> QED BY <1>3, <2>1, <2>3
<1>7. h \in Steps(p, XorWord(x, y))
  BY <1>4, <1>5, <1>6 DEF Steps
<1>8. EightBits(p, XorWord(x, y)) = h[8]
  BY <1>4, <1>7, StepsFromStart
<1> QED BY <1>1, <1>2, <1>3, <1>8

\* A word whose low byte is zero goes through unchanged, eight places down.
LEMMA EightBitsShifts ==
  ASSUME NEW p \in Words, NEW x \in Words, x[2] % 256 = 0
  PROVE  EightBits(p, x) = Shift8(x)
<1>1. PICK f \in Steps(p, x) : EightBits(p, x) = f[8]
  BY EightBitsSteps
<1>2. /\ f \in [0 .. 8 -> Words] /\ f[0] = x
      /\ \A n \in 1 .. 8 : f[n] = Bit(p, f[n - 1])
  BY DEF Steps
<1>3. PICK k \in Nat : Num(x) = 256 * k
  <2>1. x[1] \in Nat /\ x[2] \in Nat
    BY WordShape DEF Halves
  <2>2. x[2] = 256 * (x[2] \div 256)
    BY <2>1, InBytes
  <2>3. x[2] \div 256 \in Nat
    BY <2>1
  <2>4. PICK g \in Nat, m \in Nat : g = x[1] /\ m = x[2] \div 256
    BY <2>1, <2>3
  <2>5. Num(x) = 256 * (256 * g + m) /\ 256 * g + m \in Nat
    BY <2>2, <2>4 DEF Num
  <2> QED BY <2>5
<1>4. /\ f[1] = Bit(p, f[0]) /\ f[2] = Bit(p, f[1]) /\ f[3] = Bit(p, f[2])
      /\ f[4] = Bit(p, f[3]) /\ f[5] = Bit(p, f[4]) /\ f[6] = Bit(p, f[5])
      /\ f[7] = Bit(p, f[6]) /\ f[8] = Bit(p, f[7])
  BY <1>2
<1>5. \A n \in 0 .. 8 : f[n] \in Words
  BY <1>2
<1>6. \A n \in 0 .. 7 : \A m \in Nat :
        Num(f[n]) = 2 * m => Num(Bit(p, f[n])) = m
  BY <1>5, EvenBit
<1>7. Num(f[1]) = 128 * k
  BY <1>2, <1>3, <1>4, <1>6
<1>8. Num(f[2]) = 64 * k
  BY <1>4, <1>6, <1>7
<1>9. Num(f[3]) = 32 * k
  BY <1>4, <1>6, <1>8
<1>10. Num(f[4]) = 16 * k
  BY <1>4, <1>6, <1>9
<1>11. Num(f[5]) = 8 * k
  BY <1>4, <1>6, <1>10
<1>12. Num(f[6]) = 4 * k
  BY <1>4, <1>6, <1>11
<1>13. Num(f[7]) = 2 * k
  BY <1>4, <1>6, <1>12
<1>14. Num(f[8]) = k
  BY <1>4, <1>6, <1>13
<1>15. Num(Shift8(x)) = k /\ Shift8(x) \in Words
  <2>1. (256 * k) \div 256 = k
    OBVIOUS
  <2> QED BY <1>3, <2>1, NumTells
<1> QED BY <1>1, <1>5, <1>14, <1>15, NumTells

\* Only the empty register is divided down to nothing.
LEMMA BitOfZero ==
  ASSUME NEW z \in Words, Bit(Standard, z) = Zero
  PROVE  z = Zero
<1>1. Standard \in Words /\ Zero \in Words /\ Shift1(z) \in Words
  BY StandardIsWord, ZeroIsWord, Shift1Parts
<1>2. z[1] \in Nat /\ z[2] \in Nat /\ z[1] < 65536
  BY WordShape DEF Halves
<1>3. CASE z[2] % 2 = 1
  <2>1. XorWord(Shift1(z), Standard) = Zero
    BY <1>3 DEF Bit
  <2>2. XorWord(Standard, Standard) = Zero
    BY <1>1, XorWordLaws
  <2>3. Shift1(z) = Standard
    BY <1>1, <2>1, <2>2, XorWordTells
  <2>4. z[1] \div 2 = 60856
    BY <2>3 DEF Shift1, Standard
  <2> QED BY <1>2, <2>4
<1>4. CASE z[2] % 2 # 1
  <2>1. Shift1(z) = Zero
    BY <1>4 DEF Bit
  <2>2. Num(Zero) = 0
    BY DEF Num, Zero
  <2>3. Num(z) \in Nat /\ Num(z) \div 2 = 0 /\ Num(z) % 2 # 1
    BY <1>4, <2>1, <2>2, NumTells
  <2>4. Num(z) = 0
    BY <2>3
  <2> QED BY <1>1, <2>2, <2>4, NumTells
<1> QED BY <1>3, <1>4

\* And so eight steps lose nothing.
LEMMA EightBitsOfZero ==
  ASSUME NEW z \in Words, EightBits(Standard, z) = Zero
  PROVE  z = Zero
<1>1. Standard \in Words
  BY StandardIsWord
<1>2. PICK f \in Steps(Standard, z) : EightBits(Standard, z) = f[8]
  BY <1>1, EightBitsSteps
<1> DEFINE T == {n \in 0 .. 8 : f[8 - n] = Zero}
<1>3. 0 \in T
  BY <1>2
<1>4. ASSUME NEW n \in 1 .. 8, n - 1 \in T PROVE n \in T
  <2>1. 8 - (n - 1) \in 1 .. 8 /\ (8 - (n - 1)) - 1 = 8 - n /\ 8 - n \in 0 .. 8
    OBVIOUS
  <2>2. f[8 - (n - 1)] = Zero
    BY <1>4
  <2>3. f[8 - (n - 1)] = Bit(Standard, f[8 - n]) /\ f[8 - n] \in Words
    BY <2>1 DEF Steps
  <2>4. f[8 - n] = Zero
    BY <2>2, <2>3, BitOfZero
  <2> QED BY <2>4
<1> HIDE DEF T
<1>5. \A n \in 0 .. 8 : n \in T
  BY <1>3, <1>4, Induction
<1>6. f[0] = Zero
  BY <1>5 DEF T
<1> QED BY <1>6 DEF Steps

-----------------------------------------------------------------------------
(* What the table ought to hold.                                           *)

\* The entry the standard has for a byte.
Entry(i) == EightBits(Standard, <<0, i>>)

\* A byte in the register.
LEMMA ByteIsWord ==
  ASSUME NEW i \in Bytes
  PROVE  <<0, i>> \in Words /\ Num(<<0, i>>) = i /\ Entry(i) \in Words
<1>1. i \in Halves /\ 0 \in Halves /\ i \in Nat
  BY DEF Bytes, Halves
<1>2. <<0, i>> \in Words
  BY <1>1, WordShape
<1>3. Num(<<0, i>>) = i
  BY <1>1 DEF Num
<1> QED BY <1>2, <1>3, StandardIsWord, EightBitsAddsUp DEF Entry

\* One division step more than for twice the byte.
LEMMA EntryOfHalf ==
  ASSUME NEW i \in Bytes, NEW k \in Nat, i = 2 * k
  PROVE  Bit(Standard, Entry(i)) = Entry(k)
<1>1. k \in Bytes
  BY DEF Bytes
<1>2. /\ <<0, i>> \in Words /\ Num(<<0, i>>) = 2 * k
      /\ <<0, k>> \in Words /\ Num(<<0, k>>) = k
  BY <1>1, ByteIsWord
<1>3. Bit(Standard, <<0, i>>) = <<0, k>>
  BY <1>2, StandardIsWord, EvenBit, NumTells
<1>4. PICK f \in Steps(Standard, <<0, i>>) : Entry(i) = f[8]
  BY <1>2, StandardIsWord, EightBitsSteps DEF Entry
<1>5. PICK g \in Steps(Standard, <<0, k>>) : Entry(k) = g[8]
  BY <1>2, StandardIsWord, EightBitsSteps DEF Entry
<1>6. /\ f[0] = <<0, i>> /\ \A n \in 1 .. 8 : f[n] = Bit(Standard, f[n - 1])
      /\ g[0] = <<0, k>> /\ \A n \in 1 .. 8 : g[n] = Bit(Standard, g[n - 1])
  BY DEF Steps
<1> DEFINE T == {n \in 0 .. 7 : g[n] = f[n + 1]}
<1>7. 0 \in T
  <2>1. 1 \in 1 .. 8 /\ 1 - 1 = 0 /\ 0 + 1 = 1
    OBVIOUS
  <2>2. f[1] = Bit(Standard, f[0])
    BY <1>6, <2>1
  <2> QED BY <1>3, <1>6, <2>2
<1>8. ASSUME NEW n \in 1 .. 7, n - 1 \in T PROVE n \in T
  <2>1. n \in 1 .. 8 /\ n + 1 \in 1 .. 8 /\ (n + 1) - 1 = n /\ (n - 1) + 1 = n
    OBVIOUS
  <2>2. g[n - 1] = f[n]
    BY <1>8, <2>1
  <2>3. g[n] = Bit(Standard, g[n - 1]) /\ f[n + 1] = Bit(Standard, f[n])
    BY <1>6, <2>1
  <2> QED BY <2>2, <2>3
<1> HIDE DEF T
<1>9. 7 \in Nat /\ 7 \in 0 .. 7
  OBVIOUS
<1>10. 7 \in T
  BY <1>7, <1>8, <1>9, Induction
<1>11. g[7] = f[8]
  BY <1>10 DEF T
<1>12. g[8] = Bit(Standard, g[7])
  BY <1>6
<1> QED BY <1>4, <1>5, <1>11, <1>12

\* Seven steps bring the one bit of 128 to the end, the last one divides.
LEMMA EntryOf128 == Entry(128) = Standard
<1>1. <<0, 128>> \in Words /\ Num(<<0, 128>>) = 128
  <2>1. 128 \in Bytes
    BY DEF Bytes
  <2> QED BY <2>1, ByteIsWord
<1>2. PICK f \in Steps(Standard, <<0, 128>>) : Entry(128) = f[8]
  BY <1>1, StandardIsWord, EightBitsSteps DEF Entry
<1>3. /\ f[0] = <<0, 128>> /\ \A n \in 0 .. 8 : f[n] \in Words
      /\ \A n \in 1 .. 8 : f[n] = Bit(Standard, f[n - 1])
  BY DEF Steps
<1>4. /\ f[1] = Bit(Standard, f[0]) /\ f[2] = Bit(Standard, f[1])
      /\ f[3] = Bit(Standard, f[2]) /\ f[4] = Bit(Standard, f[3])
      /\ f[5] = Bit(Standard, f[4]) /\ f[6] = Bit(Standard, f[5])
      /\ f[7] = Bit(Standard, f[6]) /\ f[8] = Bit(Standard, f[7])
  BY <1>3
<1>5. \A n \in 0 .. 7 : \A m \in Nat :
        Num(f[n]) = 2 * m => Num(Bit(Standard, f[n])) = m
  BY <1>3, StandardIsWord, EvenBit
<1>6. Num(f[1]) = 64
  BY <1>1, <1>3, <1>4, <1>5
<1>7. Num(f[2]) = 32
  BY <1>4, <1>5, <1>6
<1>8. Num(f[3]) = 16
  BY <1>4, <1>5, <1>7
<1>9. Num(f[4]) = 8
  BY <1>4, <1>5, <1>8
<1>10. Num(f[5]) = 4
  BY <1>4, <1>5, <1>9
<1>11. Num(f[6]) = 2
  BY <1>4, <1>5, <1>10
<1>12. Num(f[7]) = 1
  BY <1>4, <1>5, <1>11
<1>13. f[7] = <<0, 1>>
  <2>1. <<0, 1>> \in Words /\ Num(<<0, 1>>) = 1
    <3>1. 1 \in Bytes
      BY DEF Bytes
    <3> QED BY <3>1, ByteIsWord
  <2> QED BY <1>3, <1>12, <2>1, NumTells
<1>14. Bit(Standard, <<0, 1>>) = Standard
  <2>1. Shift1(<<0, 1>>) = Zero
    BY DEF Shift1, Zero
  <2>2. Bit(Standard, <<0, 1>>) = XorWord(Zero, Standard)
    BY <2>1 DEF Bit
  <2> QED BY <2>2, StandardIsWord, XorWordLaws
<1> QED BY <1>2, <1>4, <1>13, <1>14

\* Bytes as registers.
LEMMA BytesAsWords ==
  ASSUME NEW a \in Bytes, NEW b \in Bytes
  PROVE  /\ XorWord(<<0, a>>, <<0, b>>) = <<0, XorByte(a, b)>>
         /\ XorByte(a, b) = 0 <=> a = b
<1>1. a % 256 = a /\ b % 256 = b /\ a \div 256 = 0 /\ b \div 256 = 0
  BY DEF Bytes
<1>2. 0 \in Bytes /\ 0 \div 256 = 0 /\ 0 % 256 = 0 /\ Bytes \subseteq Nat
  BY DEF Bytes
<1>3. XorByte(a, b) \in Nat /\ XorByte(0, 0) = 0
  <2>1. XorByte(a, b) \in Bytes
    BY XorByBits
  <2>2. XorByte(0, 0) = 0
    BY <1>2, XorByteLaws
  <2> QED BY <1>2, <2>1, <2>2
<1>4. XorHalf(0, 0) = 0 /\ XorHalf(a, b) = XorByte(a, b)
  BY <1>1, <1>2, <1>3 DEF XorHalf
<1>5. ASSUME XorByte(a, b) = 0 PROVE a = b
  <2>1. XorByte(XorByte(a, b), b) = XorByte(a, XorByte(b, b))
    BY XorByteLaws
  <2>2. XorByte(b, b) = 0 /\ XorByte(a, 0) = a /\ XorByte(0, b) = b
    BY <1>2, XorByteLaws
  <2> QED BY <1>5, <2>1, <2>2
<1> QED BY <1>4, <1>5, XorByteLaws DEF XorWord

\* Bytes with no bit in common.
LEMMA EntryAddsUp ==
  ASSUME NEW i \in Bytes, NEW j \in Bytes, NEW k, k = XorByte(i, j)
  PROVE  Entry(k) = XorWord(Entry(i), Entry(j))
<1>1. <<0, i>> \in Words /\ <<0, j>> \in Words
  BY ByteIsWord
<1>2. XorWord(<<0, i>>, <<0, j>>) = <<0, k>>
  BY BytesAsWords
<1> QED BY <1>1, <1>2, StandardIsWord, EightBitsAddsUp DEF Entry

\* ^ of two numbers of four bits, one of them four places up.
LEMMA Disjoint ==
  ASSUME NEW k \in 0 .. 15, NEW j \in 0 .. 15
  PROVE  XorByte(16 * k, j) = (16 * k) + j
<1>1. /\ BitOf(j, 128) = 0 /\ BitOf(j, 64) = 0 /\ BitOf(j, 32) = 0
      /\ BitOf(j, 16) = 0
  BY DEF BitOf
<1>2. /\ BitOf(16 * k, 8) = 0 /\ BitOf(16 * k, 4) = 0 /\ BitOf(16 * k, 2) = 0
      /\ BitOf(16 * k, 1) = 0
  BY DEF BitOf
<1>3. /\ XorBit(16 * k, j, 128) = 128 * BitOf(16 * k, 128)
      /\ XorBit(16 * k, j, 64) = 64 * BitOf(16 * k, 64)
      /\ XorBit(16 * k, j, 32) = 32 * BitOf(16 * k, 32)
      /\ XorBit(16 * k, j, 16) = 16 * BitOf(16 * k, 16)
  BY <1>1 DEF XorBit, BitOf
<1>4. /\ XorBit(16 * k, j, 8) = 8 * BitOf(j, 8)
      /\ XorBit(16 * k, j, 4) = 4 * BitOf(j, 4)
      /\ XorBit(16 * k, j, 2) = 2 * BitOf(j, 2)
      /\ XorBit(16 * k, j, 1) = BitOf(j, 1)
  BY <1>2 DEF XorBit, BitOf
<1>5. /\ 128 * BitOf(16 * k, 128) + 64 * BitOf(16 * k, 64)
           + 32 * BitOf(16 * k, 32) + 16 * BitOf(16 * k, 16) = 16 * k
      /\ 8 * BitOf(j, 8) + 4 * BitOf(j, 4) + 2 * BitOf(j, 2) + BitOf(j, 1) = j
  BY DEF BitOf
<1>6. /\ BitOf(16 * k, 128) \in Int /\ BitOf(16 * k, 64) \in Int
      /\ BitOf(16 * k, 32) \in Int /\ BitOf(16 * k, 16) \in Int
      /\ BitOf(j, 8) \in Int /\ BitOf(j, 4) \in Int /\ BitOf(j, 2) \in Int
      /\ BitOf(j, 1) \in Int
  BY DEF BitOf
<1> QED BY <1>3, <1>4, <1>5, <1>6 DEF XorByte

-----------------------------------------------------------------------------
(* The table, row by row: the entries of a row are the first of the row    *)
(* ^ the entries of the first row.                                         *)

\* What a row of 16 entries amounts to, from that of k on.
RowAddsUp(k) ==
  \A j \in 1 .. 15 :
    Crc32Lookup[k + j + 1] = XorWord(Crc32Lookup[k + 1], Crc32Lookup[j + 1])

\* The first row of the table: the entries of 0 to 15.
LEMMA FirstRow ==
  ASSUME NEW T, T = Crc32Lookup
  PROVE  /\ T[1] = <<0,0>> /\ T[2] = <<30471,12438>>
         /\ T[3] = <<60942,24876>> /\ T[4] = <<39177,20922>>
         /\ T[5] = <<1901,50201>> /\ T[6] = <<28778,62607>>
         /\ T[7] = <<59747,42293>> /\ T[8] = <<40548,38307>>
         /\ T[9] = <<3803,34866>> /\ T[10] = <<31196,47268>>
         /\ T[11] = <<57557,59678>> /\ T[12] = <<38866,55688>>
         /\ T[13] = <<2486,19499>> /\ T[14] = <<32433,31933>>
         /\ T[15] = <<59320,11527>> /\ T[16] = <<37055,7569>>
<1>1. /\ T[1] = <<0,0>> /\ T[2] = <<30471,12438>>
      /\ T[3] = <<60942,24876>> /\ T[4] = <<39177,20922>>
      /\ T[5] = <<1901,50201>> /\ T[6] = <<28778,62607>>
      /\ T[7] = <<59747,42293>> /\ T[8] = <<40548,38307>>
  BY DEF Crc32Lookup
<1>2. /\ T[9] = <<3803,34866>> /\ T[10] = <<31196,47268>>
      /\ T[11] = <<57557,59678>> /\ T[12] = <<38866,55688>>
      /\ T[13] = <<2486,19499>> /\ T[14] = <<32433,31933>>
      /\ T[15] = <<59320,11527>> /\ T[16] = <<37055,7569>>
  BY DEF Crc32Lookup
<1> QED BY <1>1, <1>2

\* The first entry of every row.
LEMMA RowStarts ==
  ASSUME NEW T, T = Crc32Lookup
  PROVE  /\ T[1] = <<0,0>> /\ T[17] = <<7607,4196>>
         /\ T[33] = <<15214,8392>> /\ T[49] = <<9945,12460>>
         /\ T[65] = <<30428,16784>> /\ T[81] = <<27499,20980>>
         /\ T[97] = <<19890,24920>> /\ T[113] = <<20485,28988>>
         /\ T[129] = <<60856,33568>> /\ T[145] = <<61455,37700>>
         /\ T[161] = <<54998,41960>> /\ T[177] = <<52065,45964>>
         /\ T[193] = <<39780,49840>> /\ T[209] = <<34515,53972>>
         /\ T[225] = <<40970,57976>> /\ T[241] = <<48573,61980>>
<1>1. /\ T[1] = <<0,0>> /\ T[17] = <<7607,4196>>
      /\ T[33] = <<15214,8392>> /\ T[49] = <<9945,12460>>
      /\ T[65] = <<30428,16784>> /\ T[81] = <<27499,20980>>
      /\ T[97] = <<19890,24920>> /\ T[113] = <<20485,28988>>
  BY DEF Crc32Lookup
<1>2. /\ T[129] = <<60856,33568>> /\ T[145] = <<61455,37700>>
      /\ T[161] = <<54998,41960>> /\ T[177] = <<52065,45964>>
      /\ T[193] = <<39780,49840>> /\ T[209] = <<34515,53972>>
      /\ T[225] = <<40970,57976>> /\ T[241] = <<48573,61980>>
  BY DEF Crc32Lookup
<1> QED BY <1>1, <1>2

\* The entries of the first row are made of those of 1, 2, 4 and 8.
LEMMA FirstRowAddsUp ==
  ASSUME NEW T, T = Crc32Lookup
  PROVE  /\ T[4] = XorWord(T[3], T[2]) /\ T[6] = XorWord(T[5], T[2])
         /\ T[7] = XorWord(T[5], T[3]) /\ T[8] = XorWord(T[5], T[4])
         /\ T[10] = XorWord(T[9], T[2]) /\ T[11] = XorWord(T[9], T[3])
         /\ T[12] = XorWord(T[9], T[4]) /\ T[13] = XorWord(T[9], T[5])
         /\ T[14] = XorWord(T[9], T[6]) /\ T[15] = XorWord(T[9], T[7])
         /\ T[16] = XorWord(T[9], T[8])
<1>1. /\ XorHalf(60942, 30471) = 39177 /\ XorHalf(24876, 12438) = 20922
      /\ XorHalf(1901, 30471) = 28778 /\ XorHalf(50201, 12438) = 62607
      /\ XorHalf(1901, 60942) = 59747 /\ XorHalf(50201, 24876) = 42293
      /\ XorHalf(1901, 39177) = 40548 /\ XorHalf(50201, 20922) = 38307
      /\ XorHalf(3803, 30471) = 31196 /\ XorHalf(34866, 12438) = 47268
      /\ XorHalf(3803, 60942) = 57557 /\ XorHalf(34866, 24876) = 59678
      /\ XorHalf(3803, 39177) = 38866 /\ XorHalf(34866, 20922) = 55688
      /\ XorHalf(3803, 1901) = 2486 /\ XorHalf(34866, 50201) = 19499
      /\ XorHalf(3803, 28778) = 32433 /\ XorHalf(34866, 62607) = 31933
      /\ XorHalf(3803, 59747) = 59320 /\ XorHalf(34866, 42293) = 11527
      /\ XorHalf(3803, 40548) = 37055 /\ XorHalf(34866, 38307) = 7569
  BY SMTT(60) DEF XorHalf, XorByte, XorBit, BitOf
<1> QED BY <1>1, FirstRow, SMTT(60) DEF XorWord

\* The first entries are made of those of 16, 32, 64 and 128.
LEMMA RowStartsAddUp ==
  ASSUME NEW T, T = Crc32Lookup
  PROVE  /\ T[49] = XorWord(T[33], T[17]) /\ T[81] = XorWord(T[65], T[17])
         /\ T[97] = XorWord(T[65], T[33]) /\ T[113] = XorWord(T[65], T[49])
         /\ T[145] = XorWord(T[129], T[17]) /\ T[161] = XorWord(T[129], T[33])
         /\ T[177] = XorWord(T[129], T[49]) /\ T[193] = XorWord(T[129], T[65])
         /\ T[209] = XorWord(T[129], T[81]) /\ T[225] = XorWord(T[129], T[97])
         /\ T[241] = XorWord(T[129], T[113])
<1>1. /\ XorHalf(15214, 7607) = 9945 /\ XorHalf(8392, 4196) = 12460
      /\ XorHalf(30428, 7607) = 27499 /\ XorHalf(16784, 4196) = 20980
      /\ XorHalf(30428, 15214) = 19890 /\ XorHalf(16784, 8392) = 24920
      /\ XorHalf(30428, 9945) = 20485 /\ XorHalf(16784, 12460) = 28988
      /\ XorHalf(60856, 7607) = 61455 /\ XorHalf(33568, 4196) = 37700
      /\ XorHalf(60856, 15214) = 54998 /\ XorHalf(33568, 8392) = 41960
      /\ XorHalf(60856, 9945) = 52065 /\ XorHalf(33568, 12460) = 45964
      /\ XorHalf(60856, 30428) = 39780 /\ XorHalf(33568, 16784) = 49840
      /\ XorHalf(60856, 27499) = 34515 /\ XorHalf(33568, 20980) = 53972
      /\ XorHalf(60856, 19890) = 40970 /\ XorHalf(33568, 24920) = 57976
      /\ XorHalf(60856, 20485) = 48573 /\ XorHalf(33568, 28988) = 61980
  BY SMTT(60) DEF XorHalf, XorByte, XorBit, BitOf
<1> QED BY <1>1, RowStarts, SMTT(60) DEF XorWord

\* The other rows.
LEMMA Row1 == RowAddsUp(16)
<1>1. PICK T : T = Crc32Lookup
  OBVIOUS
<1>2. /\ T[18] = <<27312,8434>> /\ T[19] = <<62393,29000>>
      /\ T[20] = <<33982,16862>> /\ T[21] = <<6874,54397>>
      /\ T[22] = <<28125,58603>> /\ T[23] = <<62676,46417>>
      /\ T[24] = <<33747,34247>>
  BY <1>1 DEF Crc32Lookup
<1>3. /\ T[25] = <<4972,38998>> /\ T[26] = <<25707,43200>>
      /\ T[27] = <<64866,63866>> /\ T[28] = <<35429,51692>>
      /\ T[29] = <<5121,23631>> /\ T[30] = <<25350,27865>>
      /\ T[31] = <<64015,15715>> /\ T[32] = <<36104,3573>>
  BY <1>1 DEF Crc32Lookup
<1>4. /\ XorHalf(7607, 30471) = 27312 /\ XorHalf(4196, 12438) = 8434
      /\ XorHalf(7607, 60942) = 62393 /\ XorHalf(4196, 24876) = 29000
      /\ XorHalf(7607, 39177) = 33982 /\ XorHalf(4196, 20922) = 16862
      /\ XorHalf(7607, 1901) = 6874 /\ XorHalf(4196, 50201) = 54397
      /\ XorHalf(7607, 28778) = 28125 /\ XorHalf(4196, 62607) = 58603
      /\ XorHalf(7607, 59747) = 62676 /\ XorHalf(4196, 42293) = 46417
      /\ XorHalf(7607, 40548) = 33747 /\ XorHalf(4196, 38307) = 34247
      /\ XorHalf(7607, 3803) = 4972 /\ XorHalf(4196, 34866) = 38998
      /\ XorHalf(7607, 31196) = 25707 /\ XorHalf(4196, 47268) = 43200
      /\ XorHalf(7607, 57557) = 64866 /\ XorHalf(4196, 59678) = 63866
      /\ XorHalf(7607, 38866) = 35429 /\ XorHalf(4196, 55688) = 51692
      /\ XorHalf(7607, 2486) = 5121 /\ XorHalf(4196, 19499) = 23631
      /\ XorHalf(7607, 32433) = 25350 /\ XorHalf(4196, 31933) = 27865
      /\ XorHalf(7607, 59320) = 64015 /\ XorHalf(4196, 11527) = 15715
      /\ XorHalf(7607, 37055) = 36104 /\ XorHalf(4196, 7569) = 3573
  BY SMTT(60) DEF XorHalf, XorByte, XorBit, BitOf
<1>5. /\ T[18] = XorWord(T[17], T[2]) /\ T[19] = XorWord(T[17], T[3])
      /\ T[20] = XorWord(T[17], T[4]) /\ T[21] = XorWord(T[17], T[5])
      /\ T[22] = XorWord(T[17], T[6]) /\ T[23] = XorWord(T[17], T[7])
      /\ T[24] = XorWord(T[17], T[8]) /\ T[25] = XorWord(T[17], T[9])
      /\ T[26] = XorWord(T[17], T[10]) /\ T[27] = XorWord(T[17], T[11])
      /\ T[28] = XorWord(T[17], T[12]) /\ T[29] = XorWord(T[17], T[13])
      /\ T[30] = XorWord(T[17], T[14]) /\ T[31] = XorWord(T[17], T[15])
      /\ T[32] = XorWord(T[17], T[16])
  BY <1>1, <1>2, <1>3, <1>4, FirstRow, RowStarts, SMTT(60) DEF XorWord
<1> QED BY <1>1, <1>5 DEF RowAddsUp

LEMMA Row2 == RowAddsUp(32)
<1>1. PICK T : T = Crc32Lookup
  OBVIOUS
<1>2. /\ T[34] = <<19561,4190>> /\ T[35] = <<54624,16868>>
      /\ T[36] = <<41575,29042>> /\ T[37] = <<15363,58577>>
      /\ T[38] = <<19204,54343>> /\ T[39] = <<53773,34301>>
      /\ T[40] = <<42250,46443>>
  BY <1>1 DEF Crc32Lookup
<1>3. /\ T[41] = <<13749,43258>> /\ T[42] = <<17074,39020>>
      /\ T[43] = <<56251,51670>> /\ T[44] = <<44220,63808>>
      /\ T[45] = <<13016,27875>> /\ T[46] = <<17887,23669>>
      /\ T[47] = <<56534,3535>> /\ T[48] = <<43985,15705>>
  BY <1>1 DEF Crc32Lookup
<1>4. /\ XorHalf(15214, 30471) = 19561 /\ XorHalf(8392, 12438) = 4190
      /\ XorHalf(15214, 60942) = 54624 /\ XorHalf(8392, 24876) = 16868
      /\ XorHalf(15214, 39177) = 41575 /\ XorHalf(8392, 20922) = 29042
      /\ XorHalf(15214, 1901) = 15363 /\ XorHalf(8392, 50201) = 58577
      /\ XorHalf(15214, 28778) = 19204 /\ XorHalf(8392, 62607) = 54343
      /\ XorHalf(15214, 59747) = 53773 /\ XorHalf(8392, 42293) = 34301
      /\ XorHalf(15214, 40548) = 42250 /\ XorHalf(8392, 38307) = 46443
      /\ XorHalf(15214, 3803) = 13749 /\ XorHalf(8392, 34866) = 43258
      /\ XorHalf(15214, 31196) = 17074 /\ XorHalf(8392, 47268) = 39020
      /\ XorHalf(15214, 57557) = 56251 /\ XorHalf(8392, 59678) = 51670
      /\ XorHalf(15214, 38866) = 44220 /\ XorHalf(8392, 55688) = 63808
      /\ XorHalf(15214, 2486) = 13016 /\ XorHalf(8392, 19499) = 27875
      /\ XorHalf(15214, 32433) = 17887 /\ XorHalf(8392, 31933) = 23669
      /\ XorHalf(15214, 59320) = 56534 /\ XorHalf(8392, 11527) = 3535
      /\ XorHalf(15214, 37055) = 43985 /\ XorHalf(8392, 7569) = 15705
  BY SMTT(60) DEF XorHalf, XorByte, XorBit, BitOf
<1>5. /\ T[34] = XorWord(T[33], T[2]) /\ T[35] = XorWord(T[33], T[3])
      /\ T[36] = XorWord(T[33], T[4]) /\ T[37] = XorWord(T[33], T[5])
      /\ T[38] = XorWord(T[33], T[6]) /\ T[39] = XorWord(T[33], T[7])
      /\ T[40] = XorWord(T[33], T[8]) /\ T[41] = XorWord(T[33], T[9])
      /\ T[42] = XorWord(T[33], T[10]) /\ T[43] = XorWord(T[33], T[11])
      /\ T[44] = XorWord(T[33], T[12]) /\ T[45] = XorWord(T[33], T[13])
      /\ T[46] = XorWord(T[33], T[14]) /\ T[47] = XorWord(T[33], T[15])
      /\ T[48] = XorWord(T[33], T[16])
  BY <1>1, <1>2, <1>3, <1>4, FirstRow, RowStarts, SMTT(60) DEF XorWord
<1> QED BY <1>1, <1>5 DEF RowAddsUp

LEMMA Row3 == RowAddsUp(48)
<1>1. PICK T : T = Crc32Lookup
  OBVIOUS
<1>2. /\ T[50] = <<20958,58>> /\ T[51] = <<51415,20864>>
      /\ T[52] = <<49104,24854>> /\ T[53] = <<8628,62645>>
      /\ T[54] = <<22195,50211>> /\ T[55] = <<53178,38297>>
      /\ T[56] = <<47293,42255>>
  BY <1>1 DEF Crc32Lookup
<1>3. /\ T[57] = <<10242,47262>> /\ T[58] = <<24325,34824>>
      /\ T[59] = <<50700,55730>> /\ T[60] = <<45323,59684>>
      /\ T[61] = <<12143,31879>> /\ T[62] = <<22632,19473>>
      /\ T[63] = <<49505,7595>> /\ T[64] = <<46694,11581>>
  BY <1>1 DEF Crc32Lookup
<1>4. /\ XorHalf(9945, 30471) = 20958 /\ XorHalf(12460, 12438) = 58
      /\ XorHalf(9945, 60942) = 51415 /\ XorHalf(12460, 24876) = 20864
      /\ XorHalf(9945, 39177) = 49104 /\ XorHalf(12460, 20922) = 24854
      /\ XorHalf(9945, 1901) = 8628 /\ XorHalf(12460, 50201) = 62645
      /\ XorHalf(9945, 28778) = 22195 /\ XorHalf(12460, 62607) = 50211
      /\ XorHalf(9945, 59747) = 53178 /\ XorHalf(12460, 42293) = 38297
      /\ XorHalf(9945, 40548) = 47293 /\ XorHalf(12460, 38307) = 42255
      /\ XorHalf(9945, 3803) = 10242 /\ XorHalf(12460, 34866) = 47262
      /\ XorHalf(9945, 31196) = 24325 /\ XorHalf(12460, 47268) = 34824
      /\ XorHalf(9945, 57557) = 50700 /\ XorHalf(12460, 59678) = 55730
      /\ XorHalf(9945, 38866) = 45323 /\ XorHalf(12460, 55688) = 59684
      /\ XorHalf(9945, 2486) = 12143 /\ XorHalf(12460, 19499) = 31879
      /\ XorHalf(9945, 32433) = 22632 /\ XorHalf(12460, 31933) = 19473
      /\ XorHalf(9945, 59320) = 49505 /\ XorHalf(12460, 11527) = 7595
      /\ XorHalf(9945, 37055) = 46694 /\ XorHalf(12460, 7569) = 11581
  BY SMTT(60) DEF XorHalf, XorByte, XorBit, BitOf
<1>5. /\ T[50] = XorWord(T[49], T[2]) /\ T[51] = XorWord(T[49], T[3])
      /\ T[52] = XorWord(T[49], T[4]) /\ T[53] = XorWord(T[49], T[5])
      /\ T[54] = XorWord(T[49], T[6]) /\ T[55] = XorWord(T[49], T[7])
      /\ T[56] = XorWord(T[49], T[8]) /\ T[57] = XorWord(T[49], T[9])
      /\ T[58] = XorWord(T[49], T[10]) /\ T[59] = XorWord(T[49], T[11])
      /\ T[60] = XorWord(T[49], T[12]) /\ T[61] = XorWord(T[49], T[13])
      /\ T[62] = XorWord(T[49], T[14]) /\ T[63] = XorWord(T[49], T[15])
      /\ T[64] = XorWord(T[49], T[16])
  BY <1>1, <1>2, <1>3, <1>4, FirstRow, RowStarts, SMTT(60) DEF XorWord
<1> QED BY <1>1, <1>5 DEF RowAddsUp

LEMMA Row4 == RowAddsUp(64)
<1>1. PICK T : T = Crc32Lookup
  OBVIOUS
<1>2. /\ T[66] = <<475,28934>> /\ T[67] = <<39122,8380>>
      /\ T[68] = <<61397,4138>> /\ T[69] = <<29105,34185>>
      /\ T[70] = <<1718,46367>> /\ T[71] = <<40895,58533>>
      /\ T[72] = <<59576,54323>>
  BY <1>1 DEF Crc32Lookup
<1>3. /\ T[73] = <<30727,51618>> /\ T[74] = <<3840,63796>>
      /\ T[75] = <<38409,43150>> /\ T[76] = <<57614,38936>>
      /\ T[77] = <<32618,3515>> /\ T[78] = <<2157,15661>>
      /\ T[79] = <<37220,27799>> /\ T[80] = <<58979,23553>>
  BY <1>1 DEF Crc32Lookup
<1>4. /\ XorHalf(30428, 30471) = 475 /\ XorHalf(16784, 12438) = 28934
      /\ XorHalf(30428, 60942) = 39122 /\ XorHalf(16784, 24876) = 8380
      /\ XorHalf(30428, 39177) = 61397 /\ XorHalf(16784, 20922) = 4138
      /\ XorHalf(30428, 1901) = 29105 /\ XorHalf(16784, 50201) = 34185
      /\ XorHalf(30428, 28778) = 1718 /\ XorHalf(16784, 62607) = 46367
      /\ XorHalf(30428, 59747) = 40895 /\ XorHalf(16784, 42293) = 58533
      /\ XorHalf(30428, 40548) = 59576 /\ XorHalf(16784, 38307) = 54323
      /\ XorHalf(30428, 3803) = 30727 /\ XorHalf(16784, 34866) = 51618
      /\ XorHalf(30428, 31196) = 3840 /\ XorHalf(16784, 47268) = 63796
      /\ XorHalf(30428, 57557) = 38409 /\ XorHalf(16784, 59678) = 43150
      /\ XorHalf(30428, 38866) = 57614 /\ XorHalf(16784, 55688) = 38936
      /\ XorHalf(30428, 2486) = 32618 /\ XorHalf(16784, 19499) = 3515
      /\ XorHalf(30428, 32433) = 2157 /\ XorHalf(16784, 31933) = 15661
      /\ XorHalf(30428, 59320) = 37220 /\ XorHalf(16784, 11527) = 27799
      /\ XorHalf(30428, 37055) = 58979 /\ XorHalf(16784, 7569) = 23553
  BY SMTT(60) DEF XorHalf, XorByte, XorBit, BitOf
<1>5. /\ T[66] = XorWord(T[65], T[2]) /\ T[67] = XorWord(T[65], T[3])
      /\ T[68] = XorWord(T[65], T[4]) /\ T[69] = XorWord(T[65], T[5])
      /\ T[70] = XorWord(T[65], T[6]) /\ T[71] = XorWord(T[65], T[7])
      /\ T[72] = XorWord(T[65], T[8]) /\ T[73] = XorWord(T[65], T[9])
      /\ T[74] = XorWord(T[65], T[10]) /\ T[75] = XorWord(T[65], T[11])
      /\ T[76] = XorWord(T[65], T[12]) /\ T[77] = XorWord(T[65], T[13])
      /\ T[78] = XorWord(T[65], T[14]) /\ T[79] = XorWord(T[65], T[15])
      /\ T[80] = XorWord(T[65], T[16])
  BY <1>1, <1>2, <1>3, <1>4, FirstRow, RowStarts, SMTT(60) DEF XorWord
<1> QED BY <1>1, <1>5 DEF RowAddsUp

LEMMA Row5 == RowAddsUp(80)
<1>1. PICK T : T = Crc32Lookup
  OBVIOUS
<1>2. /\ T[82] = <<7276,24930>> /\ T[83] = <<34149,12504>>
      /\ T[84] = <<62050,78>> /\ T[85] = <<27654,38381>>
      /\ T[86] = <<6913,42363>> /\ T[87] = <<33288,62657>>
      /\ T[88] = <<62735,50263>>
  BY <1>1 DEF Crc32Lookup
<1>3. /\ T[89] = <<26032,55750>> /\ T[90] = <<4791,59728>>
      /\ T[91] = <<35774,47338>> /\ T[92] = <<64697,34940>>
      /\ T[93] = <<25309,7647>> /\ T[94] = <<5594,11593>>
      /\ T[95] = <<36051,31987>> /\ T[96] = <<64468,19557>>
  BY <1>1 DEF Crc32Lookup
<1>4. /\ XorHalf(27499, 30471) = 7276 /\ XorHalf(20980, 12438) = 24930
      /\ XorHalf(27499, 60942) = 34149 /\ XorHalf(20980, 24876) = 12504
      /\ XorHalf(27499, 39177) = 62050 /\ XorHalf(20980, 20922) = 78
      /\ XorHalf(27499, 1901) = 27654 /\ XorHalf(20980, 50201) = 38381
      /\ XorHalf(27499, 28778) = 6913 /\ XorHalf(20980, 62607) = 42363
      /\ XorHalf(27499, 59747) = 33288 /\ XorHalf(20980, 42293) = 62657
      /\ XorHalf(27499, 40548) = 62735 /\ XorHalf(20980, 38307) = 50263
      /\ XorHalf(27499, 3803) = 26032 /\ XorHalf(20980, 34866) = 55750
      /\ XorHalf(27499, 31196) = 4791 /\ XorHalf(20980, 47268) = 59728
      /\ XorHalf(27499, 57557) = 35774 /\ XorHalf(20980, 59678) = 47338
      /\ XorHalf(27499, 38866) = 64697 /\ XorHalf(20980, 55688) = 34940
      /\ XorHalf(27499, 2486) = 25309 /\ XorHalf(20980, 19499) = 7647
      /\ XorHalf(27499, 32433) = 5594 /\ XorHalf(20980, 31933) = 11593
      /\ XorHalf(27499, 59320) = 36051 /\ XorHalf(20980, 11527) = 31987
      /\ XorHalf(27499, 37055) = 64468 /\ XorHalf(20980, 7569) = 19557
  BY SMTT(60) DEF XorHalf, XorByte, XorBit, BitOf
<1>5. /\ T[82] = XorWord(T[81], T[2]) /\ T[83] = XorWord(T[81], T[3])
      /\ T[84] = XorWord(T[81], T[4]) /\ T[85] = XorWord(T[81], T[5])
      /\ T[86] = XorWord(T[81], T[6]) /\ T[87] = XorWord(T[81], T[7])
      /\ T[88] = XorWord(T[81], T[8]) /\ T[89] = XorWord(T[81], T[9])
      /\ T[90] = XorWord(T[81], T[10]) /\ T[91] = XorWord(T[81], T[11])
      /\ T[92] = XorWord(T[81], T[12]) /\ T[93] = XorWord(T[81], T[13])
      /\ T[94] = XorWord(T[81], T[14]) /\ T[95] = XorWord(T[81], T[15])
      /\ T[96] = XorWord(T[81], T[16])
  BY <1>1, <1>2, <1>3, <1>4, FirstRow, RowStarts, SMTT(60) DEF XorWord
<1> QED BY <1>1, <1>5 DEF RowAddsUp

LEMMA Row6 == RowAddsUp(96)
<1>1. PICK T : T = Crc32Lookup
  OBVIOUS
<1>2. /\ T[98] = <<15029,20942>> /\ T[99] = <<41916,116>>
      /\ T[100] = <<54459,12514>> /\ T[101] = <<19167,42305>>
      /\ T[102] = <<15832,38359>> /\ T[103] = <<42193,50285>>
      /\ T[104] = <<54230,62715>>
  BY <1>1 DEF Crc32Lookup
<1>3. /\ T[105] = <<17257,59754>> /\ T[106] = <<13422,55804>>
      /\ T[107] = <<44391,34886>> /\ T[108] = <<55904,47312>>
      /\ T[109] = <<17412,11635>> /\ T[110] = <<13059,7653>>
      /\ T[111] = <<43530,19551>> /\ T[112] = <<56589,31945>>
  BY <1>1 DEF Crc32Lookup
<1>4. /\ XorHalf(19890, 30471) = 15029 /\ XorHalf(24920, 12438) = 20942
      /\ XorHalf(19890, 60942) = 41916 /\ XorHalf(24920, 24876) = 116
      /\ XorHalf(19890, 39177) = 54459 /\ XorHalf(24920, 20922) = 12514
      /\ XorHalf(19890, 1901) = 19167 /\ XorHalf(24920, 50201) = 42305
      /\ XorHalf(19890, 28778) = 15832 /\ XorHalf(24920, 62607) = 38359
      /\ XorHalf(19890, 59747) = 42193 /\ XorHalf(24920, 42293) = 50285
      /\ XorHalf(19890, 40548) = 54230 /\ XorHalf(24920, 38307) = 62715
      /\ XorHalf(19890, 3803) = 17257 /\ XorHalf(24920, 34866) = 59754
      /\ XorHalf(19890, 31196) = 13422 /\ XorHalf(24920, 47268) = 55804
      /\ XorHalf(19890, 57557) = 44391 /\ XorHalf(24920, 59678) = 34886
      /\ XorHalf(19890, 38866) = 55904 /\ XorHalf(24920, 55688) = 47312
      /\ XorHalf(19890, 2486) = 17412 /\ XorHalf(24920, 19499) = 11635
      /\ XorHalf(19890, 32433) = 13059 /\ XorHalf(24920, 31933) = 7653
      /\ XorHalf(19890, 59320) = 43530 /\ XorHalf(24920, 11527) = 19551
      /\ XorHalf(19890, 37055) = 56589 /\ XorHalf(24920, 7569) = 31945
  BY SMTT(60) DEF XorHalf, XorByte, XorBit, BitOf
<1>5. /\ T[98] = XorWord(T[97], T[2]) /\ T[99] = XorWord(T[97], T[3])
      /\ T[100] = XorWord(T[97], T[4]) /\ T[101] = XorWord(T[97], T[5])
      /\ T[102] = XorWord(T[97], T[6]) /\ T[103] = XorWord(T[97], T[7])
      /\ T[104] = XorWord(T[97], T[8]) /\ T[105] = XorWord(T[97], T[9])
      /\ T[106] = XorWord(T[97], T[10]) /\ T[107] = XorWord(T[97], T[11])
      /\ T[108] = XorWord(T[97], T[12]) /\ T[109] = XorWord(T[97], T[13])
      /\ T[110] = XorWord(T[97], T[14]) /\ T[111] = XorWord(T[97], T[15])
      /\ T[112] = XorWord(T[97], T[16])
  BY <1>1, <1>2, <1>3, <1>4, FirstRow, RowStarts, SMTT(60) DEF XorWord
<1> QED BY <1>1, <1>5 DEF RowAddsUp

LEMMA Row7 == RowAddsUp(112)
<1>1. PICK T : T = Crc32Lookup
  OBVIOUS
<1>2. /\ T[114] = <<9986,16810>> /\ T[115] = <<48651,4112>>
      /\ T[116] = <<51468,8326>> /\ T[117] = <<22376,46373>>
      /\ T[118] = <<8303,34227>> /\ T[119] = <<47462,54281>>
      /\ T[120] = <<52833,58527>>
  BY <1>1 DEF Crc32Lookup
<1>3. /\ T[121] = <<24286,63758>> /\ T[122] = <<10713,51608>>
      /\ T[123] = <<45264,38946>> /\ T[124] = <<51159,43188>>
      /\ T[125] = <<22963,15639>> /\ T[126] = <<11956,3457>>
      /\ T[127] = <<47037,23611>> /\ T[128] = <<49338,27821>>
  BY <1>1 DEF Crc32Lookup
<1>4. /\ XorHalf(20485, 30471) = 9986 /\ XorHalf(28988, 12438) = 16810
      /\ XorHalf(20485, 60942) = 48651 /\ XorHalf(28988, 24876) = 4112
      /\ XorHalf(20485, 39177) = 51468 /\ XorHalf(28988, 20922) = 8326
      /\ XorHalf(20485, 1901) = 22376 /\ XorHalf(28988, 50201) = 46373
      /\ XorHalf(20485, 28778) = 8303 /\ XorHalf(28988, 62607) = 34227
      /\ XorHalf(20485, 59747) = 47462 /\ XorHalf(28988, 42293) = 54281
      /\ XorHalf(20485, 40548) = 52833 /\ XorHalf(28988, 38307) = 58527
      /\ XorHalf(20485, 3803) = 24286 /\ XorHalf(28988, 34866) = 63758
      /\ XorHalf(20485, 31196) = 10713 /\ XorHalf(28988, 47268) = 51608
      /\ XorHalf(20485, 57557) = 45264 /\ XorHalf(28988, 59678) = 38946
      /\ XorHalf(20485, 38866) = 51159 /\ XorHalf(28988, 55688) = 43188
      /\ XorHalf(20485, 2486) = 22963 /\ XorHalf(28988, 19499) = 15639
      /\ XorHalf(20485, 32433) = 11956 /\ XorHalf(28988, 31933) = 3457
      /\ XorHalf(20485, 59320) = 47037 /\ XorHalf(28988, 11527) = 23611
      /\ XorHalf(20485, 37055) = 49338 /\ XorHalf(28988, 7569) = 27821
  BY SMTT(60) DEF XorHalf, XorByte, XorBit, BitOf
<1>5. /\ T[114] = XorWord(T[113], T[2]) /\ T[115] = XorWord(T[113], T[3])
      /\ T[116] = XorWord(T[113], T[4]) /\ T[117] = XorWord(T[113], T[5])
      /\ T[118] = XorWord(T[113], T[6]) /\ T[119] = XorWord(T[113], T[7])
      /\ T[120] = XorWord(T[113], T[8]) /\ T[121] = XorWord(T[113], T[9])
      /\ T[122] = XorWord(T[113], T[10]) /\ T[123] = XorWord(T[113], T[11])
      /\ T[124] = XorWord(T[113], T[12]) /\ T[125] = XorWord(T[113], T[13])
      /\ T[126] = XorWord(T[113], T[14]) /\ T[127] = XorWord(T[113], T[15])
      /\ T[128] = XorWord(T[113], T[16])
  BY <1>1, <1>2, <1>3, <1>4, FirstRow, RowStarts, SMTT(60) DEF XorWord
<1> QED BY <1>1, <1>5 DEF RowAddsUp

LEMMA Row8 == RowAddsUp(128)
<1>1. PICK T : T = Crc32Lookup
  OBVIOUS
<1>2. /\ T[130] = <<39615,46006>> /\ T[131] = <<950,57868>>
      /\ T[132] = <<29873,53914>> /\ T[133] = <<60117,18233>>
      /\ T[134] = <<40402,30639>> /\ T[135] = <<1243,9749>>
      /\ T[136] = <<29660,5763>>
  BY <1>1 DEF Crc32Lookup
<1>3. /\ T[137] = <<58211,2834>> /\ T[138] = <<37988,15236>>
      /\ T[139] = <<3437,27198>> /\ T[140] = <<31338,23208>>
      /\ T[141] = <<58382,53003>> /\ T[142] = <<37641,65437>>
      /\ T[143] = <<2560,44583>> /\ T[144] = <<32007,40625>>
  BY <1>1 DEF Crc32Lookup
<1>4. /\ XorHalf(60856, 30471) = 39615 /\ XorHalf(33568, 12438) = 46006
      /\ XorHalf(60856, 60942) = 950 /\ XorHalf(33568, 24876) = 57868
      /\ XorHalf(60856, 39177) = 29873 /\ XorHalf(33568, 20922) = 53914
      /\ XorHalf(60856, 1901) = 60117 /\ XorHalf(33568, 50201) = 18233
      /\ XorHalf(60856, 28778) = 40402 /\ XorHalf(33568, 62607) = 30639
      /\ XorHalf(60856, 59747) = 1243 /\ XorHalf(33568, 42293) = 9749
      /\ XorHalf(60856, 40548) = 29660 /\ XorHalf(33568, 38307) = 5763
      /\ XorHalf(60856, 3803) = 58211 /\ XorHalf(33568, 34866) = 2834
      /\ XorHalf(60856, 31196) = 37988 /\ XorHalf(33568, 47268) = 15236
      /\ XorHalf(60856, 57557) = 3437 /\ XorHalf(33568, 59678) = 27198
      /\ XorHalf(60856, 38866) = 31338 /\ XorHalf(33568, 55688) = 23208
      /\ XorHalf(60856, 2486) = 58382 /\ XorHalf(33568, 19499) = 53003
      /\ XorHalf(60856, 32433) = 37641 /\ XorHalf(33568, 31933) = 65437
      /\ XorHalf(60856, 59320) = 2560 /\ XorHalf(33568, 11527) = 44583
      /\ XorHalf(60856, 37055) = 32007 /\ XorHalf(33568, 7569) = 40625
  BY SMTT(60) DEF XorHalf, XorByte, XorBit, BitOf
<1>5. /\ T[130] = XorWord(T[129], T[2]) /\ T[131] = XorWord(T[129], T[3])
      /\ T[132] = XorWord(T[129], T[4]) /\ T[133] = XorWord(T[129], T[5])
      /\ T[134] = XorWord(T[129], T[6]) /\ T[135] = XorWord(T[129], T[7])
      /\ T[136] = XorWord(T[129], T[8]) /\ T[137] = XorWord(T[129], T[9])
      /\ T[138] = XorWord(T[129], T[10]) /\ T[139] = XorWord(T[129], T[11])
      /\ T[140] = XorWord(T[129], T[12]) /\ T[141] = XorWord(T[129], T[13])
      /\ T[142] = XorWord(T[129], T[14]) /\ T[143] = XorWord(T[129], T[15])
      /\ T[144] = XorWord(T[129], T[16])
  BY <1>1, <1>2, <1>3, <1>4, FirstRow, RowStarts, SMTT(60) DEF XorWord
<1> QED BY <1>1, <1>5 DEF RowAddsUp

LEMMA Row9 == RowAddsUp(144)
<1>1. PICK T : T = Crc32Lookup
  OBVIOUS
<1>2. /\ T[146] = <<34568,41938>> /\ T[147] = <<7681,62056>>
      /\ T[148] = <<26886,49918>> /\ T[149] = <<63330,22365>>
      /\ T[150] = <<32869,26571>> /\ T[151] = <<6508,13937>>
      /\ T[152] = <<28267,1767>>
  BY <1>1 DEF Crc32Lookup
<1>3. /\ T[153] = <<65236,7030>> /\ T[154] = <<35283,11232>>
      /\ T[155] = <<4314,31322>> /\ T[156] = <<26589,19148>>
      /\ T[157] = <<63929,57199>> /\ T[158] = <<36542,61433>>
      /\ T[159] = <<6071,48707>> /\ T[160] = <<24752,36565>>
  BY <1>1 DEF Crc32Lookup
<1>4. /\ XorHalf(61455, 30471) = 34568 /\ XorHalf(37700, 12438) = 41938
      /\ XorHalf(61455, 60942) = 7681 /\ XorHalf(37700, 24876) = 62056
      /\ XorHalf(61455, 39177) = 26886 /\ XorHalf(37700, 20922) = 49918
      /\ XorHalf(61455, 1901) = 63330 /\ XorHalf(37700, 50201) = 22365
      /\ XorHalf(61455, 28778) = 32869 /\ XorHalf(37700, 62607) = 26571
      /\ XorHalf(61455, 59747) = 6508 /\ XorHalf(37700, 42293) = 13937
      /\ XorHalf(61455, 40548) = 28267 /\ XorHalf(37700, 38307) = 1767
      /\ XorHalf(61455, 3803) = 65236 /\ XorHalf(37700, 34866) = 7030
      /\ XorHalf(61455, 31196) = 35283 /\ XorHalf(37700, 47268) = 11232
      /\ XorHalf(61455, 57557) = 4314 /\ XorHalf(37700, 59678) = 31322
      /\ XorHalf(61455, 38866) = 26589 /\ XorHalf(37700, 55688) = 19148
      /\ XorHalf(61455, 2486) = 63929 /\ XorHalf(37700, 19499) = 57199
      /\ XorHalf(61455, 32433) = 36542 /\ XorHalf(37700, 31933) = 61433
      /\ XorHalf(61455, 59320) = 6071 /\ XorHalf(37700, 11527) = 48707
      /\ XorHalf(61455, 37055) = 24752 /\ XorHalf(37700, 7569) = 36565
  BY SMTT(60) DEF XorHalf, XorByte, XorBit, BitOf
<1>5. /\ T[146] = XorWord(T[145], T[2]) /\ T[147] = XorWord(T[145], T[3])
      /\ T[148] = XorWord(T[145], T[4]) /\ T[149] = XorWord(T[145], T[5])
      /\ T[150] = XorWord(T[145], T[6]) /\ T[151] = XorWord(T[145], T[7])
      /\ T[152] = XorWord(T[145], T[8]) /\ T[153] = XorWord(T[145], T[9])
      /\ T[154] = XorWord(T[145], T[10]) /\ T[155] = XorWord(T[145], T[11])
      /\ T[156] = XorWord(T[145], T[12]) /\ T[157] = XorWord(T[145], T[13])
      /\ T[158] = XorWord(T[145], T[14]) /\ T[159] = XorWord(T[145], T[15])
      /\ T[160] = XorWord(T[145], T[16])
  BY <1>1, <1>2, <1>3, <1>4, FirstRow, RowStarts, SMTT(60) DEF XorWord
<1> QED BY <1>1, <1>5 DEF RowAddsUp

LEMMA Row10 == RowAddsUp(160)
<1>1. PICK T : T = Crc32Lookup
  OBVIOUS
<1>2. /\ T[162] = <<41425,37758>> /\ T[163] = <<14552,49860>>
      /\ T[164] = <<20447,62034>> /\ T[165] = <<53691,26609>>
      /\ T[166] = <<42684,22375>> /\ T[167] = <<16309,1757>>
      /\ T[168] = <<18610,13899>>
  BY <1>1 DEF Crc32Lookup
<1>3. /\ T[169] = <<55309,11226>> /\ T[170] = <<44810,6988>>
      /\ T[171] = <<13827,19190>> /\ T[172] = <<16644,31328>>
      /\ T[173] = <<57184,61379>> /\ T[174] = <<43111,57173>>
      /\ T[175] = <<12654,36591>> /\ T[176] = <<18025,48761>>
  BY <1>1 DEF Crc32Lookup
<1>4. /\ XorHalf(54998, 30471) = 41425 /\ XorHalf(41960, 12438) = 37758
      /\ XorHalf(54998, 60942) = 14552 /\ XorHalf(41960, 24876) = 49860
      /\ XorHalf(54998, 39177) = 20447 /\ XorHalf(41960, 20922) = 62034
      /\ XorHalf(54998, 1901) = 53691 /\ XorHalf(41960, 50201) = 26609
      /\ XorHalf(54998, 28778) = 42684 /\ XorHalf(41960, 62607) = 22375
      /\ XorHalf(54998, 59747) = 16309 /\ XorHalf(41960, 42293) = 1757
      /\ XorHalf(54998, 40548) = 18610 /\ XorHalf(41960, 38307) = 13899
      /\ XorHalf(54998, 3803) = 55309 /\ XorHalf(41960, 34866) = 11226
      /\ XorHalf(54998, 31196) = 44810 /\ XorHalf(41960, 47268) = 6988
      /\ XorHalf(54998, 57557) = 13827 /\ XorHalf(41960, 59678) = 19190
      /\ XorHalf(54998, 38866) = 16644 /\ XorHalf(41960, 55688) = 31328
      /\ XorHalf(54998, 2486) = 57184 /\ XorHalf(41960, 19499) = 61379
      /\ XorHalf(54998, 32433) = 43111 /\ XorHalf(41960, 31933) = 57173
      /\ XorHalf(54998, 59320) = 12654 /\ XorHalf(41960, 11527) = 36591
      /\ XorHalf(54998, 37055) = 18025 /\ XorHalf(41960, 7569) = 48761
  BY SMTT(60) DEF XorHalf, XorByte, XorBit, BitOf
<1>5. /\ T[162] = XorWord(T[161], T[2]) /\ T[163] = XorWord(T[161], T[3])
      /\ T[164] = XorWord(T[161], T[4]) /\ T[165] = XorWord(T[161], T[5])
      /\ T[166] = XorWord(T[161], T[6]) /\ T[167] = XorWord(T[161], T[7])
      /\ T[168] = XorWord(T[161], T[8]) /\ T[169] = XorWord(T[161], T[9])
      /\ T[170] = XorWord(T[161], T[10]) /\ T[171] = XorWord(T[161], T[11])
      /\ T[172] = XorWord(T[161], T[12]) /\ T[173] = XorWord(T[161], T[13])
      /\ T[174] = XorWord(T[161], T[14]) /\ T[175] = XorWord(T[161], T[15])
      /\ T[176] = XorWord(T[161], T[16])
  BY <1>1, <1>2, <1>3, <1>4, FirstRow, RowStarts, SMTT(60) DEF XorWord
<1> QED BY <1>1, <1>5 DEF RowAddsUp

LEMMA Row11 == RowAddsUp(176)
<1>1. PICK T : T = Crc32Lookup
  OBVIOUS
<1>2. /\ T[178] = <<48230,33562>> /\ T[179] = <<9583,53920>>
      /\ T[180] = <<21096,57910>> /\ T[181] = <<52236,30613>>
      /\ T[182] = <<47883,18179>> /\ T[183] = <<8706,5817>>
      /\ T[184] = <<21765,9775>>
  BY <1>1 DEF Crc32Lookup
<1>3. /\ T[185] = <<50618,15294>> /\ T[186] = <<45757,2856>>
      /\ T[187] = <<11188,23186>> /\ T[188] = <<23731,27140>>
      /\ T[189] = <<49879,65447>> /\ T[190] = <<46544,53041>>
      /\ T[191] = <<11481,40587>> /\ T[192] = <<23518,44573>>
  BY <1>1 DEF Crc32Lookup
<1>4. /\ XorHalf(52065, 30471) = 48230 /\ XorHalf(45964, 12438) = 33562
      /\ XorHalf(52065, 60942) = 9583 /\ XorHalf(45964, 24876) = 53920
      /\ XorHalf(52065, 39177) = 21096 /\ XorHalf(45964, 20922) = 57910
      /\ XorHalf(52065, 1901) = 52236 /\ XorHalf(45964, 50201) = 30613
      /\ XorHalf(52065, 28778) = 47883 /\ XorHalf(45964, 62607) = 18179
      /\ XorHalf(52065, 59747) = 8706 /\ XorHalf(45964, 42293) = 5817
      /\ XorHalf(52065, 40548) = 21765 /\ XorHalf(45964, 38307) = 9775
      /\ XorHalf(52065, 3803) = 50618 /\ XorHalf(45964, 34866) = 15294
      /\ XorHalf(52065, 31196) = 45757 /\ XorHalf(45964, 47268) = 2856
      /\ XorHalf(52065, 57557) = 11188 /\ XorHalf(45964, 59678) = 23186
      /\ XorHalf(52065, 38866) = 23731 /\ XorHalf(45964, 55688) = 27140
      /\ XorHalf(52065, 2486) = 49879 /\ XorHalf(45964, 19499) = 65447
      /\ XorHalf(52065, 32433) = 46544 /\ XorHalf(45964, 31933) = 53041
      /\ XorHalf(52065, 59320) = 11481 /\ XorHalf(45964, 11527) = 40587
      /\ XorHalf(52065, 37055) = 23518 /\ XorHalf(45964, 7569) = 44573
  BY SMTT(60) DEF XorHalf, XorByte, XorBit, BitOf
<1>5. /\ T[178] = XorWord(T[177], T[2]) /\ T[179] = XorWord(T[177], T[3])
      /\ T[180] = XorWord(T[177], T[4]) /\ T[181] = XorWord(T[177], T[5])
      /\ T[182] = XorWord(T[177], T[6]) /\ T[183] = XorWord(T[177], T[7])
      /\ T[184] = XorWord(T[177], T[8]) /\ T[185] = XorWord(T[177], T[9])
      /\ T[186] = XorWord(T[177], T[10]) /\ T[187] = XorWord(T[177], T[11])
      /\ T[188] = XorWord(T[177], T[12]) /\ T[189] = XorWord(T[177], T[13])
      /\ T[190] = XorWord(T[177], T[14]) /\ T[191] = XorWord(T[177], T[15])
      /\ T[192] = XorWord(T[177], T[16])
  BY <1>1, <1>2, <1>3, <1>4, FirstRow, RowStarts, SMTT(60) DEF XorWord
<1> QED BY <1>1, <1>5 DEF RowAddsUp

LEMMA Row12 == RowAddsUp(192)
<1>1. PICK T : T = Crc32Lookup
  OBVIOUS
<1>2. /\ T[194] = <<60515,61990>> /\ T[195] = <<30058,41884>>
      /\ T[196] = <<621,37642>> /\ T[197] = <<39945,1705>>
      /\ T[198] = <<60174,13887>> /\ T[199] = <<29191,26501>>
      /\ T[200] = <<1280,22291>>
  BY <1>1 DEF Crc32Lookup
<1>3. /\ T[201] = <<38335,19074>> /\ T[202] = <<58040,31252>>
      /\ T[203] = <<31665,11182>> /\ T[204] = <<3254,6968>>
      /\ T[205] = <<37586,36507>> /\ T[206] = <<58837,48653>>
      /\ T[207] = <<31964,61367>> /\ T[208] = <<3035,57121>>
  BY <1>1 DEF Crc32Lookup
<1>4. /\ XorHalf(39780, 30471) = 60515 /\ XorHalf(49840, 12438) = 61990
      /\ XorHalf(39780, 60942) = 30058 /\ XorHalf(49840, 24876) = 41884
      /\ XorHalf(39780, 39177) = 621 /\ XorHalf(49840, 20922) = 37642
      /\ XorHalf(39780, 1901) = 39945 /\ XorHalf(49840, 50201) = 1705
      /\ XorHalf(39780, 28778) = 60174 /\ XorHalf(49840, 62607) = 13887
      /\ XorHalf(39780, 59747) = 29191 /\ XorHalf(49840, 42293) = 26501
      /\ XorHalf(39780, 40548) = 1280 /\ XorHalf(49840, 38307) = 22291
      /\ XorHalf(39780, 3803) = 38335 /\ XorHalf(49840, 34866) = 19074
      /\ XorHalf(39780, 31196) = 58040 /\ XorHalf(49840, 47268) = 31252
      /\ XorHalf(39780, 57557) = 31665 /\ XorHalf(49840, 59678) = 11182
      /\ XorHalf(39780, 38866) = 3254 /\ XorHalf(49840, 55688) = 6968
      /\ XorHalf(39780, 2486) = 37586 /\ XorHalf(49840, 19499) = 36507
      /\ XorHalf(39780, 32433) = 58837 /\ XorHalf(49840, 31933) = 48653
      /\ XorHalf(39780, 59320) = 31964 /\ XorHalf(49840, 11527) = 61367
      /\ XorHalf(39780, 37055) = 3035 /\ XorHalf(49840, 7569) = 57121
  BY SMTT(60) DEF XorHalf, XorByte, XorBit, BitOf
<1>5. /\ T[194] = XorWord(T[193], T[2]) /\ T[195] = XorWord(T[193], T[3])
      /\ T[196] = XorWord(T[193], T[4]) /\ T[197] = XorWord(T[193], T[5])
      /\ T[198] = XorWord(T[193], T[6]) /\ T[199] = XorWord(T[193], T[7])
      /\ T[200] = XorWord(T[193], T[8]) /\ T[201] = XorWord(T[193], T[9])
      /\ T[202] = XorWord(T[193], T[10]) /\ T[203] = XorWord(T[193], T[11])
      /\ T[204] = XorWord(T[193], T[12]) /\ T[205] = XorWord(T[193], T[13])
      /\ T[206] = XorWord(T[193], T[14]) /\ T[207] = XorWord(T[193], T[15])
      /\ T[208] = XorWord(T[193], T[16])
  BY <1>1, <1>2, <1>3, <1>4, FirstRow, RowStarts, SMTT(60) DEF XorWord
<1> QED BY <1>1, <1>5 DEF RowAddsUp

LEMMA Row13 == RowAddsUp(208)
<1>1. PICK T : T = Crc32Lookup
  OBVIOUS
<1>2. /\ T[210] = <<61908,57922>> /\ T[211] = <<26845,46072>>
      /\ T[212] = <<8154,33646>> /\ T[213] = <<33214,5837>>
      /\ T[214] = <<63161,9819>> /\ T[215] = <<28592,30689>>
      /\ T[216] = <<6327,18295>>
  BY <1>1 DEF Crc32Lookup
<1>3. /\ T[217] = <<34824,23270>> /\ T[218] = <<65295,27248>>
      /\ T[219] = <<26118,15306>> /\ T[220] = <<4353,2908>>
      /\ T[221] = <<36709,40703>> /\ T[222] = <<63586,44649>>
      /\ T[223] = <<24939,65491>> /\ T[224] = <<5740,53061>>
  BY <1>1 DEF Crc32Lookup
<1>4. /\ XorHalf(34515, 30471) = 61908 /\ XorHalf(53972, 12438) = 57922
      /\ XorHalf(34515, 60942) = 26845 /\ XorHalf(53972, 24876) = 46072
      /\ XorHalf(34515, 39177) = 8154 /\ XorHalf(53972, 20922) = 33646
      /\ XorHalf(34515, 1901) = 33214 /\ XorHalf(53972, 50201) = 5837
      /\ XorHalf(34515, 28778) = 63161 /\ XorHalf(53972, 62607) = 9819
      /\ XorHalf(34515, 59747) = 28592 /\ XorHalf(53972, 42293) = 30689
      /\ XorHalf(34515, 40548) = 6327 /\ XorHalf(53972, 38307) = 18295
      /\ XorHalf(34515, 3803) = 34824 /\ XorHalf(53972, 34866) = 23270
      /\ XorHalf(34515, 31196) = 65295 /\ XorHalf(53972, 47268) = 27248
      /\ XorHalf(34515, 57557) = 26118 /\ XorHalf(53972, 59678) = 15306
      /\ XorHalf(34515, 38866) = 4353 /\ XorHalf(53972, 55688) = 2908
      /\ XorHalf(34515, 2486) = 36709 /\ XorHalf(53972, 19499) = 40703
      /\ XorHalf(34515, 32433) = 63586 /\ XorHalf(53972, 31933) = 44649
      /\ XorHalf(34515, 59320) = 24939 /\ XorHalf(53972, 11527) = 65491
      /\ XorHalf(34515, 37055) = 5740 /\ XorHalf(53972, 7569) = 53061
  BY SMTT(60) DEF XorHalf, XorByte, XorBit, BitOf
<1>5. /\ T[210] = XorWord(T[209], T[2]) /\ T[211] = XorWord(T[209], T[3])
      /\ T[212] = XorWord(T[209], T[4]) /\ T[213] = XorWord(T[209], T[5])
      /\ T[214] = XorWord(T[209], T[6]) /\ T[215] = XorWord(T[209], T[7])
      /\ T[216] = XorWord(T[209], T[8]) /\ T[217] = XorWord(T[209], T[9])
      /\ T[218] = XorWord(T[209], T[10]) /\ T[219] = XorWord(T[209], T[11])
      /\ T[220] = XorWord(T[209], T[12]) /\ T[221] = XorWord(T[209], T[13])
      /\ T[222] = XorWord(T[209], T[14]) /\ T[223] = XorWord(T[209], T[15])
      /\ T[224] = XorWord(T[209], T[16])
  BY <1>1, <1>2, <1>3, <1>4, FirstRow, RowStarts, SMTT(60) DEF XorWord
<1> QED BY <1>1, <1>5 DEF RowAddsUp

LEMMA Row14 == RowAddsUp(224)
<1>1. PICK T : T = Crc32Lookup
  OBVIOUS
<1>2. /\ T[226] = <<55053,53998>> /\ T[227] = <<19972,33620>>
      /\ T[228] = <<14595,46018>> /\ T[229] = <<42855,9825>>
      /\ T[230] = <<53344,5879>> /\ T[231] = <<18793,18253>>
      /\ T[232] = <<15982,30683>>
  BY <1>1 DEF Crc32Lookup
<1>3. /\ T[233] = <<44753,27210>> /\ T[234] = <<55766,23260>>
      /\ T[235] = <<16607,2918>> /\ T[236] = <<14296,15344>>
      /\ T[237] = <<43452,44627>> /\ T[238] = <<57019,40645>>
      /\ T[239] = <<18354,53119>> /\ T[240] = <<12469,65513>>
  BY <1>1 DEF Crc32Lookup
<1>4. /\ XorHalf(40970, 30471) = 55053 /\ XorHalf(57976, 12438) = 53998
      /\ XorHalf(40970, 60942) = 19972 /\ XorHalf(57976, 24876) = 33620
      /\ XorHalf(40970, 39177) = 14595 /\ XorHalf(57976, 20922) = 46018
      /\ XorHalf(40970, 1901) = 42855 /\ XorHalf(57976, 50201) = 9825
      /\ XorHalf(40970, 28778) = 53344 /\ XorHalf(57976, 62607) = 5879
      /\ XorHalf(40970, 59747) = 18793 /\ XorHalf(57976, 42293) = 18253
      /\ XorHalf(40970, 40548) = 15982 /\ XorHalf(57976, 38307) = 30683
      /\ XorHalf(40970, 3803) = 44753 /\ XorHalf(57976, 34866) = 27210
      /\ XorHalf(40970, 31196) = 55766 /\ XorHalf(57976, 47268) = 23260
      /\ XorHalf(40970, 57557) = 16607 /\ XorHalf(57976, 59678) = 2918
      /\ XorHalf(40970, 38866) = 14296 /\ XorHalf(57976, 55688) = 15344
      /\ XorHalf(40970, 2486) = 43452 /\ XorHalf(57976, 19499) = 44627
      /\ XorHalf(40970, 32433) = 57019 /\ XorHalf(57976, 31933) = 40645
      /\ XorHalf(40970, 59320) = 18354 /\ XorHalf(57976, 11527) = 53119
      /\ XorHalf(40970, 37055) = 12469 /\ XorHalf(57976, 7569) = 65513
  BY SMTT(60) DEF XorHalf, XorByte, XorBit, BitOf
<1>5. /\ T[226] = XorWord(T[225], T[2]) /\ T[227] = XorWord(T[225], T[3])
      /\ T[228] = XorWord(T[225], T[4]) /\ T[229] = XorWord(T[225], T[5])
      /\ T[230] = XorWord(T[225], T[6]) /\ T[231] = XorWord(T[225], T[7])
      /\ T[232] = XorWord(T[225], T[8]) /\ T[233] = XorWord(T[225], T[9])
      /\ T[234] = XorWord(T[225], T[10]) /\ T[235] = XorWord(T[225], T[11])
      /\ T[236] = XorWord(T[225], T[12]) /\ T[237] = XorWord(T[225], T[13])
      /\ T[238] = XorWord(T[225], T[14]) /\ T[239] = XorWord(T[225], T[15])
      /\ T[240] = XorWord(T[225], T[16])
  BY <1>1, <1>2, <1>3, <1>4, FirstRow, RowStarts, SMTT(60) DEF XorWord
<1> QED BY <1>1, <1>5 DEF RowAddsUp

LEMMA Row15 == RowAddsUp(240)
<1>1. PICK T : T = Crc32Lookup
  OBVIOUS
<1>2. /\ T[242] = <<51898,49802>> /\ T[243] = <<21427,37680>>
      /\ T[244] = <<9396,41894>> /\ T[245] = <<47824,13829>>
      /\ T[246] = <<52695,1683>> /\ T[247] = <<21726,22313>>
      /\ T[248] = <<9177,26559>>
  BY <1>1 DEF Crc32Lookup
<1>3. /\ T[249] = <<45926,31278>> /\ T[250] = <<50273,19128>>
      /\ T[251] = <<23912,6914>> /\ T[252] = <<10863,11156>>
      /\ T[253] = <<46091,48695>> /\ T[254] = <<49932,36513>>
      /\ T[255] = <<23045,57115>> /\ T[256] = <<11522,61325>>
  BY <1>1 DEF Crc32Lookup
<1>4. /\ XorHalf(48573, 30471) = 51898 /\ XorHalf(61980, 12438) = 49802
      /\ XorHalf(48573, 60942) = 21427 /\ XorHalf(61980, 24876) = 37680
      /\ XorHalf(48573, 39177) = 9396 /\ XorHalf(61980, 20922) = 41894
      /\ XorHalf(48573, 1901) = 47824 /\ XorHalf(61980, 50201) = 13829
      /\ XorHalf(48573, 28778) = 52695 /\ XorHalf(61980, 62607) = 1683
      /\ XorHalf(48573, 59747) = 21726 /\ XorHalf(61980, 42293) = 22313
      /\ XorHalf(48573, 40548) = 9177 /\ XorHalf(61980, 38307) = 26559
      /\ XorHalf(48573, 3803) = 45926 /\ XorHalf(61980, 34866) = 31278
      /\ XorHalf(48573, 31196) = 50273 /\ XorHalf(61980, 47268) = 19128
      /\ XorHalf(48573, 57557) = 23912 /\ XorHalf(61980, 59678) = 6914
      /\ XorHalf(48573, 38866) = 10863 /\ XorHalf(61980, 55688) = 11156
      /\ XorHalf(48573, 2486) = 46091 /\ XorHalf(61980, 19499) = 48695
      /\ XorHalf(48573, 32433) = 49932 /\ XorHalf(61980, 31933) = 36513
      /\ XorHalf(48573, 59320) = 23045 /\ XorHalf(61980, 11527) = 57115
      /\ XorHalf(48573, 37055) = 11522 /\ XorHalf(61980, 7569) = 61325
  BY SMTT(60) DEF XorHalf, XorByte, XorBit, BitOf
<1>5. /\ T[242] = XorWord(T[241], T[2]) /\ T[243] = XorWord(T[241], T[3])
      /\ T[244] = XorWord(T[241], T[4]) /\ T[245] = XorWord(T[241], T[5])
      /\ T[246] = XorWord(T[241], T[6]) /\ T[247] = XorWord(T[241], T[7])
      /\ T[248] = XorWord(T[241], T[8]) /\ T[249] = XorWord(T[241], T[9])
      /\ T[250] = XorWord(T[241], T[10]) /\ T[251] = XorWord(T[241], T[11])
      /\ T[252] = XorWord(T[241], T[12]) /\ T[253] = XorWord(T[241], T[13])
      /\ T[254] = XorWord(T[241], T[14]) /\ T[255] = XorWord(T[241], T[15])
      /\ T[256] = XorWord(T[241], T[16])
  BY <1>1, <1>2, <1>3, <1>4, FirstRow, RowStarts, SMTT(60) DEF XorWord
<1> QED BY <1>1, <1>5 DEF RowAddsUp

-----------------------------------------------------------------------------
(* The table holds what it ought to.                                       *)

\* The entries of 128, 64, ..., 1, each one division step after the other.
LEMMA EntriesOfBits ==
  \A p \in Weights : Crc32Lookup[p + 1] = Entry(p)
<1>1. PICK T : T = Crc32Lookup
  OBVIOUS
<1>2. T[129] = Standard
  BY <1>1, RowStarts DEF Standard
<1>3. /\ T[65] = Bit(Standard, T[129])
      /\ T[33] = Bit(Standard, T[65])
      /\ T[17] = Bit(Standard, T[33])
      /\ T[9] = Bit(Standard, T[17])
      /\ T[5] = Bit(Standard, T[9])
      /\ T[3] = Bit(Standard, T[5])
      /\ T[2] = Bit(Standard, T[3])
  <2>1. Bit(Standard, <<60856,33568>>) = <<30428,16784>>
    BY SMTT(60)
    DEF Bit, Shift1, Standard, XorWord, XorHalf, XorByte, XorBit, BitOf
  <2>2. Bit(Standard, <<30428,16784>>) = <<15214,8392>>
    BY SMTT(60)
    DEF Bit, Shift1, Standard, XorWord, XorHalf, XorByte, XorBit, BitOf
  <2>3. Bit(Standard, <<15214,8392>>) = <<7607,4196>>
    BY SMTT(60)
    DEF Bit, Shift1, Standard, XorWord, XorHalf, XorByte, XorBit, BitOf
  <2>4. Bit(Standard, <<7607,4196>>) = <<3803,34866>>
    BY SMTT(60)
    DEF Bit, Shift1, Standard, XorWord, XorHalf, XorByte, XorBit, BitOf
  <2>5. Bit(Standard, <<3803,34866>>) = <<1901,50201>>
    BY SMTT(60)
    DEF Bit, Shift1, Standard, XorWord, XorHalf, XorByte, XorBit, BitOf
  <2>6. Bit(Standard, <<1901,50201>>) = <<60942,24876>>
    BY SMTT(60)
    DEF Bit, Shift1, Standard, XorWord, XorHalf, XorByte, XorBit, BitOf
  <2>7. Bit(Standard, <<60942,24876>>) = <<30471,12438>>
    BY SMTT(60)
    DEF Bit, Shift1, Standard, XorWord, XorHalf, XorByte, XorBit, BitOf
  <2>8. /\ T[129] = <<60856,33568>> /\ T[65] = <<30428,16784>>
        /\ T[33] = <<15214,8392>> /\ T[17] = <<7607,4196>>
        /\ T[9] = <<3803,34866>> /\ T[5] = <<1901,50201>>
        /\ T[3] = <<60942,24876>> /\ T[2] = <<30471,12438>>
    BY <1>1, FirstRow, RowStarts
  <2> QED BY <2>1, <2>2, <2>3, <2>4, <2>5, <2>6, <2>7, <2>8
<1>4. /\ Entry(64) = Bit(Standard, Entry(128))
      /\ Entry(32) = Bit(Standard, Entry(64))
      /\ Entry(16) = Bit(Standard, Entry(32))
      /\ Entry(8) = Bit(Standard, Entry(16))
      /\ Entry(4) = Bit(Standard, Entry(8))
      /\ Entry(2) = Bit(Standard, Entry(4))
      /\ Entry(1) = Bit(Standard, Entry(2))
  BY EntryOfHalf DEF Bytes
<1>5. /\ T[129] = Entry(128) /\ T[65] = Entry(64) /\ T[33] = Entry(32)
      /\ T[17] = Entry(16) /\ T[9] = Entry(8) /\ T[5] = Entry(4)
      /\ T[3] = Entry(2) /\ T[2] = Entry(1)
  BY <1>2, <1>3, <1>4, EntryOf128
<1>6. /\ T[128 + 1] = Entry(128) /\ T[64 + 1] = Entry(64)
      /\ T[32 + 1] = Entry(32) /\ T[16 + 1] = Entry(16)
      /\ T[8 + 1] = Entry(8) /\ T[4 + 1] = Entry(4)
      /\ T[2 + 1] = Entry(2) /\ T[1 + 1] = Entry(1)
  BY <1>5
<1> QED BY <1>1, <1>6 DEF Weights

\* The entry of 0, those of the first row and of the first column.
LEMMA EntryOfZero == Entry(0) = Zero /\ Crc32Lookup[1] = Zero
<1>1. 0 \in Bytes
  BY DEF Bytes
<1>2. <<0, 0>> \in Words
  BY <1>1, ByteIsWord
<1>3. Shift8(<<0, 0>>) = Zero /\ <<0, 0>>[2] % 256 = 0
  BY DEF Shift8, Zero
<1> QED BY <1>2, <1>3, StandardIsWord, EightBitsShifts, FirstRow DEF Entry, Zero

LEMMA FirstRowIsStandard ==
  \A j \in 0 .. 15 : Crc32Lookup[j + 1] = Entry(j)
<1>1. PICK T : T = Crc32Lookup
  OBVIOUS
<1>2. /\ XorByte(2, 1) = 3
      /\ XorByte(4, 1) = 5
      /\ XorByte(4, 2) = 6
      /\ XorByte(4, 3) = 7
      /\ XorByte(8, 1) = 9
      /\ XorByte(8, 2) = 10
      /\ XorByte(8, 3) = 11
      /\ XorByte(8, 4) = 12
      /\ XorByte(8, 5) = 13
      /\ XorByte(8, 6) = 14
      /\ XorByte(8, 7) = 15
  BY DEF XorByte, XorBit, BitOf
<1>3. /\ Entry(3) = XorWord(Entry(2), Entry(1))
      /\ Entry(5) = XorWord(Entry(4), Entry(1))
      /\ Entry(6) = XorWord(Entry(4), Entry(2))
      /\ Entry(7) = XorWord(Entry(4), Entry(3))
      /\ Entry(9) = XorWord(Entry(8), Entry(1))
      /\ Entry(10) = XorWord(Entry(8), Entry(2))
      /\ Entry(11) = XorWord(Entry(8), Entry(3))
      /\ Entry(12) = XorWord(Entry(8), Entry(4))
      /\ Entry(13) = XorWord(Entry(8), Entry(5))
      /\ Entry(14) = XorWord(Entry(8), Entry(6))
      /\ Entry(15) = XorWord(Entry(8), Entry(7))
  <2>1. \A n \in 0 .. 15 : n \in Bytes
    BY DEF Bytes
  <2> QED BY <1>2, <2>1, EntryAddsUp
<1>4. T[9] = Entry(8) /\ T[5] = Entry(4) /\ T[3] = Entry(2) /\ T[2] = Entry(1)
  BY <1>1, EntriesOfBits DEF Weights
<1>5. /\ T[1] = Entry(0) /\ T[2] = Entry(1)
      /\ T[3] = Entry(2) /\ T[4] = Entry(3)
      /\ T[5] = Entry(4) /\ T[6] = Entry(5)
      /\ T[7] = Entry(6) /\ T[8] = Entry(7)
      /\ T[9] = Entry(8) /\ T[10] = Entry(9)
      /\ T[11] = Entry(10) /\ T[12] = Entry(11)
      /\ T[13] = Entry(12) /\ T[14] = Entry(13)
      /\ T[15] = Entry(14) /\ T[16] = Entry(15)
  BY <1>1, <1>3, <1>4, EntryOfZero, FirstRowAddsUp
<1> QED BY <1>1, <1>5

LEMMA RowStartsAreStandard ==
  \A k \in 0 .. 15 : Crc32Lookup[16 * k + 1] = Entry(16 * k)
<1>1. PICK T : T = Crc32Lookup
  OBVIOUS
<1>2. /\ XorByte(32, 16) = 48
      /\ XorByte(64, 16) = 80
      /\ XorByte(64, 32) = 96
      /\ XorByte(64, 48) = 112
      /\ XorByte(128, 16) = 144
      /\ XorByte(128, 32) = 160
      /\ XorByte(128, 48) = 176
      /\ XorByte(128, 64) = 192
      /\ XorByte(128, 80) = 208
      /\ XorByte(128, 96) = 224
      /\ XorByte(128, 112) = 240
  BY DEF XorByte, XorBit, BitOf
<1>3. /\ Entry(48) = XorWord(Entry(32), Entry(16))
      /\ Entry(80) = XorWord(Entry(64), Entry(16))
      /\ Entry(96) = XorWord(Entry(64), Entry(32))
      /\ Entry(112) = XorWord(Entry(64), Entry(48))
      /\ Entry(144) = XorWord(Entry(128), Entry(16))
      /\ Entry(160) = XorWord(Entry(128), Entry(32))
      /\ Entry(176) = XorWord(Entry(128), Entry(48))
      /\ Entry(192) = XorWord(Entry(128), Entry(64))
      /\ Entry(208) = XorWord(Entry(128), Entry(80))
      /\ Entry(224) = XorWord(Entry(128), Entry(96))
      /\ Entry(240) = XorWord(Entry(128), Entry(112))
  <2>1. \A n \in 0 .. 255 : n \in Bytes
    BY DEF Bytes
  <2> QED BY <1>2, <2>1, EntryAddsUp, SMTT(30)
<1>4. /\ T[129] = Entry(128) /\ T[65] = Entry(64)
      /\ T[33] = Entry(32) /\ T[17] = Entry(16)
  BY <1>1, EntriesOfBits DEF Weights
<1>5. /\ T[1] = Entry(0) /\ T[17] = Entry(16)
      /\ T[33] = Entry(32) /\ T[49] = Entry(48)
      /\ T[65] = Entry(64) /\ T[81] = Entry(80)
      /\ T[97] = Entry(96) /\ T[113] = Entry(112)
      /\ T[129] = Entry(128) /\ T[145] = Entry(144)
      /\ T[161] = Entry(160) /\ T[177] = Entry(176)
      /\ T[193] = Entry(192) /\ T[209] = Entry(208)
      /\ T[225] = Entry(224) /\ T[241] = Entry(240)
  BY <1>1, <1>3, <1>4, EntryOfZero, RowStartsAddUp
<1> QED BY <1>1, <1>5

LEMMA EveryRowAddsUp == \A k \in 1 .. 15 : RowAddsUp(16 * k)
BY Row1, Row2, Row3, Row4, Row5, Row6, Row7, Row8, Row9, Row10, Row11, Row12,
   Row13, Row14, Row15

\* The table holds the eight steps of division of every byte.
LEMMA TableIsStandard == \A i \in Bytes : Crc32Lookup[i + 1] = Entry(i)
<1> TAKE i \in Bytes
<1>1. PICK k \in 0 .. 15, j \in 0 .. 15 : i = (16 * k) + j
  <2>1. /\ i \div 16 \in 0 .. 15 /\ i % 16 \in 0 .. 15
        /\ i = (16 * (i \div 16)) + (i % 16)
    BY DEF Bytes
  <2> QED BY <2>1
<1>2. CASE k = 0
  <2>1. i = j
    BY <1>1, <1>2
  <2> QED BY <2>1, FirstRowIsStandard
<1>3. CASE j = 0
  <2>1. i = 16 * k
    BY <1>1, <1>3
  <2> QED BY <2>1, RowStartsAreStandard
<1>4. CASE k # 0 /\ j # 0
  <2>1. k \in 1 .. 15 /\ j \in 1 .. 15
    BY <1>4
  <2>2. Crc32Lookup[16 * k + j + 1]
          = XorWord(Crc32Lookup[16 * k + 1], Crc32Lookup[j + 1])
    BY <2>1, EveryRowAddsUp DEF RowAddsUp
  <2>3. Crc32Lookup[16 * k + 1] = Entry(16 * k) /\ Crc32Lookup[j + 1] = Entry(j)
    BY FirstRowIsStandard, RowStartsAreStandard
  <2>4. 16 * k \in Bytes /\ j \in Bytes
    BY DEF Bytes
  <2>5. Entry(i) = XorWord(Entry(16 * k), Entry(j))
    BY <1>1, <2>4, Disjoint, EntryAddsUp
  <2>6. Crc32Lookup[i + 1] = Crc32Lookup[16 * k + j + 1]
    BY <1>1
  <2> QED BY <2>2, <2>3, <2>5, <2>6
<1> QED BY <1>2, <1>3, <1>4

-----------------------------------------------------------------------------
(* The loop of crc32_1byte().                                              *)

\* One pass of the loop is eight steps of the division.
LEMMA PassIsStandard ==
  ASSUME NEW c \in Words, NEW b \in Bytes
  PROVE  /\ NextCrc(c, b) = NextStandard(c, b)
         /\ NextCrc(c, b) \in Words
<1> DEFINE low == c[2] % 256
           rest == <<c[1], (c[2] \div 256) * 256>>
<1>1. /\ c[1] \in Halves /\ c[2] \in Halves /\ c = <<c[1], c[2]>>
      /\ c[2] \div 256 \in Bytes /\ low \in Bytes
      /\ c[2] = 256 * (c[2] \div 256) + low
  BY WordShape, HalfIsBytes
<1>2. PICK g \in Nat, h \in Bytes, l \in Bytes :
        g = c[1] /\ h = c[2] \div 256 /\ l = low
  BY <1>1 DEF Halves
<1>3. /\ h * 256 \in Halves /\ (h * 256) \div 256 = h /\ (h * 256) % 256 = 0
      /\ l \div 256 = 0 /\ l % 256 = l /\ c[2] = h * 256 + l
      /\ 0 \in Bytes /\ 0 \div 256 = 0 /\ 0 % 256 = 0
  <2>1. h * 256 \in Halves /\ (h * 256) \div 256 = h /\ (h * 256) % 256 = 0
    BY DEF Halves, Bytes
  <2>2. l \div 256 = 0 /\ l % 256 = l
    BY DEF Bytes
  <2>3. c[2] = h * 256 + l
    <3> HIDE DEF low
    <3>1. c[2] = 256 * h + l
      BY <1>1, <1>2
    <3> QED BY <3>1 DEF Bytes
  <2>4. 0 \in Bytes /\ 0 \div 256 = 0 /\ 0 % 256 = 0
    BY DEF Bytes
  <2> QED BY <2>1, <2>2, <2>3, <2>4
<1>4. rest \in Words /\ rest = <<c[1], h * 256>> /\ <<0, l>> \in Words
  BY <1>1, <1>2, <1>3, WordShape, ByteIsWord
<1> HIDE DEF low, rest
<1>5. c = XorWord(rest, <<0, l>>)
  <2>1. XorHalf(c[1], 0) = c[1]
    BY <1>1, XorHalfLaws
  <2>2. XorHalf(h * 256, l) = c[2]
    <3>1. XorByte(h, 0) = h /\ XorByte(0, l) = l
      BY <1>3, XorByteLaws
    <3> QED BY <1>3, <3>1 DEF XorHalf
  <2>3. XorWord(rest, <<0, l>>) = <<c[1], c[2]>>
    BY <1>4, <2>1, <2>2 DEF XorWord
  <2> QED BY <1>1, <2>3
<1>6. PICK k \in Bytes : k = Index(c, b) /\ k = XorByte(l, b)
  <2>1. XorByte(l, b) \in Bytes
    BY XorByBits
  <2>2. Index(c, b) = XorByte(l, b)
    BY <1>2 DEF Index, low
  <2> QED BY <2>1, <2>2
<1>7. XorWord(<<0, l>>, <<0, b>>) = <<0, k>>
  BY <1>6, BytesAsWords
<1>8. <<0, b>> \in Words /\ <<0, k>> \in Words /\ Entry(k) \in Words
  BY ByteIsWord
<1>9. XorWord(c, <<0, b>>) = XorWord(rest, <<0, k>>)
  BY <1>4, <1>5, <1>7, <1>8, XorWordLaws
<1>10. EightBits(Standard, rest) = Shift8(rest) /\ Shift8(rest) \in Words
  <2>1. rest[2] % 256 = 0
    BY <1>3, <1>4
  <2> QED BY <1>4, <2>1, StandardIsWord, EightBitsShifts, NumTells
<1>11. Shift8(rest) = Shift8(c)
  <2>1. /\ rest[1] = c[1] /\ rest[2] = h * 256
        /\ rest[2] \div 256 = c[2] \div 256
    BY <1>2, <1>3, <1>4
  <2> QED BY <2>1 DEF Shift8
<1>12. EightBits(Standard, XorWord(rest, <<0, k>>))
         = XorWord(Shift8(c), Entry(k))
  BY <1>4, <1>8, <1>10, <1>11, StandardIsWord, EightBitsAddsUp DEF Entry
<1>13. NextCrc(c, b) = XorWord(Shift8(c), Entry(k))
  BY <1>6, TableIsStandard DEF NextCrc
<1> QED BY <1>8, <1>9, <1>10, <1>11, <1>12, <1>13, XorWordLaws DEF NextStandard

\* The registers the standard's division of a file leaves, byte by byte.
Divisions(data) ==
  {f \in [0 .. Len(data) -> Words] :
     /\ f[0] = AllOnes
     /\ \A n \in 1 .. Len(data) : f[n] = NextStandard(f[n - 1], data[n])}

\* Every file has a division.
LEMMA DivisionExists ==
  ASSUME NEW data \in Seq(Bytes)
  PROVE  /\ Divisions(data) # {}
         /\ Len(data) \in Nat /\ \A n \in 1 .. Len(data) : data[n] \in Bytes
         /\ AllOnes \in Words
<1> DEFINE N == Len(data)
           start == AllOnes
           pass == [n \in 1 .. N |-> [w \in Words |-> NextStandard(w, data[n])]]
<1>1. N \in Nat /\ \A n \in 1 .. N : data[n] \in Bytes
  OBVIOUS
<1>2. start \in Words
  <2>1. 65535 \in Halves
    BY DEF Halves
  <2> QED BY <2>1, WordShape DEF AllOnes
<1>3. \A w \in Words : \A b \in Bytes : NextStandard(w, b) \in Words
  BY PassIsStandard
<1>4. pass \in [1 .. N -> [Words -> Words]]
  BY <1>1, <1>3
<1>5. Loops(N, Words, start, pass) # {}
  <2> HIDE DEF pass, start, N
  <2> QED BY <1>1, <1>2, <1>4, Recursion
<1>6. PICK f \in Loops(N, Words, start, pass) : TRUE
  <2> HIDE DEF pass, start, N
  <2> QED BY <1>5
<1>7. /\ f \in [0 .. N -> Words] /\ f[0] = start
      /\ \A n \in 1 .. N : f[n] = pass[n][f[n - 1]]
  <2> HIDE DEF pass, start, N
  <2> QED BY <1>6 DEF Loops
<1>8. \A n \in 1 .. N : \A w \in Words : pass[n][w] = NextStandard(w, data[n])
  OBVIOUS
<1> HIDE DEF pass
<1>9. \A n \in 1 .. N : f[n - 1] \in Words
  BY <1>1, <1>7
<1>10. \A n \in 1 .. N : f[n] = NextStandard(f[n - 1], data[n])
  BY <1>7, <1>8, <1>9
<1>11. f \in Divisions(data)
  BY <1>7, <1>10 DEF Divisions
<1> QED BY <1>1, <1>2, <1>11

\* A file has one division, and so has whatever goes on in the same way.
LEMMA DivisionIsOne ==
  ASSUME NEW data \in Seq(Bytes), NEW f \in Divisions(data), NEW g,
         g[0] = AllOnes,
         \A n \in 1 .. Len(data) : g[n] = NextStandard(g[n - 1], data[n])
  PROVE  g[Len(data)] = f[Len(data)]
<1>1. PICK N \in Nat : N = Len(data)
  BY DivisionExists
<1>2. f[0] = g[0] /\ \A n \in 1 .. N : f[n] = NextStandard(f[n - 1], data[n])
  BY <1>1 DEF Divisions
<1>3. \A n \in 1 .. N : g[n] = NextStandard(g[n - 1], data[n])
  BY <1>1
<1> DEFINE T == {n \in 0 .. N : g[n] = f[n]}
<1>4. 0 \in T
  BY <1>2
<1>5. ASSUME NEW n \in 1 .. N, n - 1 \in T PROVE n \in T
  <2>1. g[n - 1] = f[n - 1] /\ n \in 0 .. N
    BY <1>5
  <2>2. g[n] = f[n]
    BY <1>2, <1>3, <2>1
  <2> QED BY <2>1, <2>2
<1> HIDE DEF T
<1>6. \A n \in 0 .. N : n \in T
  BY <1>4, <1>5, Induction
<1>7. N \in T
  BY <1>6
<1> QED BY <1>1, <1>7 DEF T

\* crc32_1byte() computes it, and so does the standard.
LEMMA CrcDivides ==
  ASSUME NEW data \in Seq(Bytes), NEW f \in Divisions(data)
  PROVE  Crc(data) = Complement(f[Len(data)])
<1> DEFINE N == Len(data)
           Def(g) == [n \in 0 .. N |-> IF n = 0 THEN Complement(<<0, 0>>)
                                       ELSE NextCrc(g[n - 1], data[n])]
           crc == CHOOSE g : g = Def(g)
<1>1. N \in Nat /\ \A n \in 1 .. N : data[n] \in Bytes
  BY DivisionExists
<1>2. Complement(<<0, 0>>) = AllOnes
  BY DEF Complement, AllOnes
<1>3. /\ f \in [0 .. N -> Words] /\ f[0] = AllOnes
      /\ \A n \in 1 .. N : f[n] = NextStandard(f[n - 1], data[n])
  BY DEF Divisions
<1>4. \A n \in 1 .. N : f[n] = NextCrc(f[n - 1], data[n])
  <2> TAKE n \in 1 .. N
  <2>1. f[n - 1] \in Words /\ data[n] \in Bytes
    BY <1>1, <1>3
  <2> QED BY <1>3, <2>1, PassIsStandard
<1>5. f = Def(f)
  <2>1. f = [n \in 0 .. N |-> f[n]]
    BY <1>3
  <2>2. \A n \in 0 .. N : f[n] = IF n = 0 THEN Complement(<<0, 0>>)
                                 ELSE NextCrc(f[n - 1], data[n])
    <3> HIDE DEF N
    <3> QED BY <1>1, <1>2, <1>3, <1>4
  <2> QED BY <2>1, <2>2
<1>6. crc = Def(crc)
  <2> HIDE DEF Def
  <2> QED BY <1>5
<1>7. Crc(data) = Complement(crc[N])
  BY DEF Crc
<1> HIDE DEF crc
<1>8. crc[0] = AllOnes
  BY <1>1, <1>2, <1>6
<1>9. \A n \in 1 .. N : crc[n] = NextCrc(crc[n - 1], data[n])
  BY <1>1, <1>6
<1>10. \A n \in 0 .. N : crc[n] \in Words
  <2> DEFINE T == {n \in 0 .. N : crc[n] \in Words}
  <2>1. 0 \in T
    BY <1>1, <1>8, DivisionExists
  <2>2. ASSUME NEW n \in 1 .. N, n - 1 \in T PROVE n \in T
    <3>1. crc[n - 1] \in Words /\ data[n] \in Bytes /\ n \in 0 .. N
      BY <1>1, <2>2
    <3>2. crc[n] \in Words
      BY <1>9, <3>1, PassIsStandard
    <3> QED BY <3>1, <3>2
  <2> HIDE DEF T, N
  <2>3. \A n \in 0 .. N : n \in T
    BY <1>1, <2>1, <2>2, Induction
  <2> QED BY <2>3 DEF T
<1>11. \A n \in 1 .. N : crc[n] = NextStandard(crc[n - 1], data[n])
  <2> TAKE n \in 1 .. N
  <2>1. n - 1 \in 0 .. N
    BY <1>1
  <2>2. crc[n - 1] \in Words /\ data[n] \in Bytes
    BY <1>1, <1>10, <2>1
  <2> QED BY <1>9, <2>2, PassIsStandard
<1>12. crc[N] = f[N]
  BY <1>8, <1>11, DivisionIsOne
<1> QED BY <1>7, <1>12

LEMMA StandardDivides ==
  ASSUME NEW data \in Seq(Bytes), NEW f \in Divisions(data)
  PROVE  StandardCrc(data) = Complement(f[Len(data)])
<1> DEFINE N == Len(data)
           Def(g) == [n \in 0 .. N |-> IF n = 0 THEN AllOnes
                                       ELSE NextStandard(g[n - 1], data[n])]
           register == CHOOSE g : g = Def(g)
<1>1. N \in Nat
  OBVIOUS
<1>2. /\ f \in [0 .. N -> Words] /\ f[0] = AllOnes
      /\ \A n \in 1 .. N : f[n] = NextStandard(f[n - 1], data[n])
  BY DEF Divisions
<1>3. f = Def(f)
  <2>1. f = [n \in 0 .. N |-> f[n]]
    BY <1>2
  <2>2. \A n \in 0 .. N : f[n] = IF n = 0 THEN AllOnes
                                 ELSE NextStandard(f[n - 1], data[n])
    <3> HIDE DEF N
    <3> QED BY <1>1, <1>2
  <2> QED BY <2>1, <2>2
<1>4. register = Def(register)
  <2> HIDE DEF Def
  <2> QED BY <1>3
<1>5. StandardCrc(data) = Complement(register[N])
  BY DEF StandardCrc
<1> HIDE DEF register
<1>6. \A n \in 0 .. N :
        register[n] = IF n = 0 THEN AllOnes
                      ELSE NextStandard(register[n - 1], data[n])
  BY <1>4
<1>7. /\ register[0] = AllOnes
      /\ \A n \in 1 .. N : register[n] = NextStandard(register[n - 1], data[n])
  <2> HIDE DEF N
  <2> QED BY <1>1, <1>6
<1>8. register[N] = f[N]
  BY <1>7, DivisionIsOne
<1> QED BY <1>5, <1>8

\* crc32_1byte() computes the CRC-32 of the standard, of bytes of any number.
THEOREM CrcIsTheStandards ==
  \A data \in Seq(Bytes) : Crc(data) = StandardCrc(data)
<1> TAKE data \in Seq(Bytes)
<1>1. PICK f \in Divisions(data) : TRUE
  BY DivisionExists
<1> QED BY <1>1, CrcDivides, StandardDivides

-----------------------------------------------------------------------------
(* What the checksum tells.                                                *)

\* A pass of the loop adds up.
LEMMA NextAddsUp ==
  ASSUME NEW v \in Words, NEW w \in Words, NEW a \in Bytes, NEW b \in Bytes
  PROVE  NextStandard(XorWord(v, w), XorByte(a, b))
           = XorWord(NextStandard(v, a), NextStandard(w, b))
<1> DEFINE s == <<0, a>>
           t == <<0, b>>
<1>1. s \in Words /\ t \in Words /\ XorWord(s, t) = <<0, XorByte(a, b)>>
  BY ByteIsWord, BytesAsWords
<1> HIDE DEF s, t
<1>2. XorWord(XorWord(v, w), XorWord(s, t))
        = XorWord(XorWord(v, s), XorWord(w, t))
  <2>1. /\ XorWord(v, w) \in Words /\ XorWord(v, s) \in Words
        /\ XorWord(w, s) \in Words
    BY <1>1, XorWordLaws
  <2>2. XorWord(XorWord(v, w), XorWord(s, t))
          = XorWord(XorWord(XorWord(v, w), s), t)
    BY <1>1, <2>1, XorWordLaws
  <2>3. XorWord(XorWord(v, w), s) = XorWord(XorWord(v, s), w)
    BY <1>1, <2>1, XorWordLaws
  <2>4. XorWord(XorWord(XorWord(v, s), w), t)
          = XorWord(XorWord(v, s), XorWord(w, t))
    BY <1>1, <2>1, XorWordLaws
  <2> QED BY <2>2, <2>3, <2>4
<1>3. XorWord(v, s) \in Words /\ XorWord(w, t) \in Words
  BY <1>1, XorWordLaws
<1> QED
  BY <1>1, <1>2, <1>3, StandardIsWord, EightBitsAddsUp DEF NextStandard, s, t

\* A register that becomes zero was the byte that came in.
LEMMA NextOfZero ==
  ASSUME NEW w \in Words, NEW b \in Bytes
  PROVE  /\ NextStandard(w, b) \in Words
         /\ NextStandard(w, b) = Zero => w = <<0, b>>
         /\ NextStandard(Zero, 0) = Zero
<1>1. <<0, b>> \in Words /\ XorWord(w, <<0, b>>) \in Words
  BY ByteIsWord, XorWordLaws
<1>2. NextStandard(w, b) \in Words
  BY <1>1, StandardIsWord, EightBitsAddsUp DEF NextStandard
<1>3. ASSUME NextStandard(w, b) = Zero PROVE w = <<0, b>>
  <2>1. XorWord(w, <<0, b>>) = Zero
    BY <1>1, <1>3, EightBitsOfZero DEF NextStandard
  <2>2. XorWord(<<0, b>>, <<0, b>>) = Zero
    BY <1>1, XorWordLaws
  <2> QED BY <1>1, <2>1, <2>2, XorWordTells
<1>4. NextStandard(Zero, 0) = Zero
  <2>1. XorWord(Zero, <<0, 0>>) = <<0, 0>>
    BY XorWordLaws DEF Zero
  <2> QED BY <2>1, EntryOfZero DEF NextStandard, Entry
<1> QED BY <1>2, <1>3, <1>4

\* How two files of one length get apart in the register.
Differences(d, e) ==
  {h \in [0 .. Len(d) -> Words] :
     /\ h[0] = Zero
     /\ \A n \in 1 .. Len(d) :
          h[n] = NextStandard(h[n - 1], XorByte(d[n], e[n]))}

\* Files of one checksum have no difference left at their end.
LEMMA DifferenceTells ==
  ASSUME NEW d \in Seq(Bytes), NEW e \in Seq(Bytes), Len(d) = Len(e),
         Crc(d) = Crc(e)
  PROVE  \E h \in Differences(d, e) : h[Len(d)] = Zero
<1>1. PICK N \in Nat : N = Len(d)
  BY DivisionExists
<1>2. PICK f \in Divisions(d) : TRUE
  BY DivisionExists
<1>3. PICK g \in Divisions(e) : TRUE
  BY DivisionExists
<1>4. /\ f \in [0 .. N -> Words] /\ f[0] = AllOnes
      /\ \A n \in 1 .. N : f[n] = NextStandard(f[n - 1], d[n])
  BY <1>1, <1>2 DEF Divisions
<1>5. /\ g \in [0 .. N -> Words] /\ g[0] = AllOnes
      /\ \A n \in 1 .. N : g[n] = NextStandard(g[n - 1], e[n])
  BY <1>1, <1>3 DEF Divisions
<1>6. /\ \A n \in 1 .. N : d[n] \in Bytes /\ e[n] \in Bytes
      /\ AllOnes \in Words
  BY <1>1, DivisionExists
<1> DEFINE h == [n \in 0 .. N |-> XorWord(f[n], g[n])]
<1>7. h \in [0 .. N -> Words]
  BY <1>4, <1>5, XorWordLaws
<1>8. h[0] = Zero
  BY <1>4, <1>5, <1>6, XorWordLaws
<1>9. \A n \in 1 .. N : h[n] = NextStandard(h[n - 1], XorByte(d[n], e[n]))
  <2> TAKE n \in 1 .. N
  <2>1. n - 1 \in 0 .. N /\ n \in 0 .. N
    OBVIOUS
  <2>2. /\ f[n - 1] \in Words /\ g[n - 1] \in Words
        /\ d[n] \in Bytes /\ e[n] \in Bytes
    BY <1>4, <1>5, <1>6, <2>1
  <2>3. h[n - 1] = XorWord(f[n - 1], g[n - 1]) /\ h[n] = XorWord(f[n], g[n])
    BY <2>1
  <2> HIDE DEF h
  <2>4. NextStandard(h[n - 1], XorByte(d[n], e[n]))
          = XorWord(NextStandard(f[n - 1], d[n]), NextStandard(g[n - 1], e[n]))
    BY <2>2, <2>3, NextAddsUp
  <2> QED BY <1>4, <1>5, <2>3, <2>4
<1>10. h[N] = Zero
  <2>1. Complement(f[N]) = Complement(g[N])
    BY <1>1, <1>2, <1>3, CrcDivides
  <2>2. f[N] \in Words /\ g[N] \in Words
    BY <1>4, <1>5
  <2>3. \A x, y \in Words : Complement(x) = Complement(y) => x = y
    <3> TAKE x, y \in Words
    <3> HAVE Complement(x) = Complement(y)
    <3>1. /\ x[1] \in Nat /\ x[2] \in Nat /\ y[1] \in Nat /\ y[2] \in Nat
          /\ x = <<x[1], x[2]>> /\ y = <<y[1], y[2]>>
      BY WordShape DEF Halves
    <3>2. x[1] = y[1] /\ x[2] = y[2]
      BY <3>1 DEF Complement
    <3> QED BY <3>1, <3>2
  <2>4. f[N] = g[N]
    BY <2>1, <2>2, <2>3
  <2> QED BY <2>2, <2>4, XorWordLaws
<1> HIDE DEF h
<1>11. h \in Differences(d, e)
  BY <1>1, <1>7, <1>8, <1>9 DEF Differences
<1> QED BY <1>1, <1>10, <1>11

\* Files that agree up to byte k have the same register there, and
\* registers that are the same at the end, of files that agree after byte k,
\* were so at byte k.
LEMMA DifferenceSpreads ==
  ASSUME NEW d \in Seq(Bytes), NEW e \in Seq(Bytes), Len(d) = Len(e),
         NEW h \in Differences(d, e), NEW k \in 0 .. Len(d)
  PROVE  /\ (\A n \in 1 .. k : d[n] = e[n]) => h[k] = Zero
         /\ (\A n \in k + 1 .. Len(d) : d[n] = e[n]) /\ h[Len(d)] = Zero
              => h[k] = Zero
<1>1. PICK N \in Nat : N = Len(d)
  BY DivisionExists
<1>2. /\ h \in [0 .. N -> Words] /\ h[0] = Zero
      /\ \A n \in 1 .. N : h[n] = NextStandard(h[n - 1], XorByte(d[n], e[n]))
  BY <1>1 DEF Differences
<1>3. \A n \in 1 .. N : d[n] \in Bytes /\ e[n] \in Bytes
  BY <1>1, DivisionExists
<1>4. \A n \in 1 .. N : d[n] = e[n] => h[n] = NextStandard(h[n - 1], 0)
  BY <1>2, <1>3, BytesAsWords
<1>5. 0 \in Bytes /\ k \in 0 .. N
  BY <1>1 DEF Bytes
<1>6. ASSUME \A n \in 1 .. k : d[n] = e[n] PROVE h[k] = Zero
  <2> DEFINE T == {n \in 0 .. k : h[n] = Zero}
  <2>1. 0 \in T
    BY <1>2, <1>5
  <2>2. ASSUME NEW n \in 1 .. k, n - 1 \in T PROVE n \in T
    <3>1. h[n] = NextStandard(h[n - 1], 0) /\ h[n - 1] = Zero
      BY <1>4, <1>5, <1>6, <2>2
    <3>2. h[n] = Zero
      BY <1>5, <3>1, NextOfZero, ZeroIsWord
    <3> QED BY <3>2
  <2> HIDE DEF T
  <2>3. k \in Nat
    BY <1>5
  <2>4. \A n \in 0 .. k : n \in T
    BY <2>1, <2>2, <2>3, Induction
  <2>5. k \in T
    BY <2>3, <2>4
  <2> QED BY <2>5 DEF T
<1>7. ASSUME \A n \in k + 1 .. N : d[n] = e[n], h[N] = Zero PROVE h[k] = Zero
  <2> DEFINE T == {n \in 0 .. N - k : h[N - n] = Zero}
  <2>1. 0 \in T
    BY <1>5, <1>7
  <2>2. ASSUME NEW n \in 1 .. N - k, n - 1 \in T PROVE n \in T
    <3>1. PICK j \in 1 .. N : j = N - (n - 1)
      BY <1>5
    <3>2. j - 1 = N - n /\ j \in k + 1 .. N /\ j - 1 \in 0 .. N
      BY <1>5, <3>1
    <3>3. h[j] = Zero /\ h[j] = NextStandard(h[j - 1], 0) /\ h[j - 1] \in Words
      BY <1>2, <1>4, <1>7, <2>2, <3>1, <3>2
    <3>4. h[j - 1] = Zero
      BY <1>5, <3>3, NextOfZero DEF Zero
    <3> QED BY <3>2, <3>4
  <2> HIDE DEF T
  <2>3. N - k \in Nat
    BY <1>5
  <2>4. \A n \in 0 .. N - k : n \in T
    BY <2>1, <2>2, <2>3, Induction
  <2>5. N - k \in T
    BY <2>3, <2>4
  <2>6. N - (N - k) = k
    BY <1>5
  <2> QED BY <2>5, <2>6 DEF T
<1> QED BY <1>1, <1>6, <1>7

\* Two files that differ in one byte have different checksums.
THEOREM OneByteTells ==
  ASSUME NEW d \in Seq(Bytes), NEW e \in Seq(Bytes), Len(d) = Len(e),
         NEW k \in 1 .. Len(d), d[k] # e[k],
         \A n \in 1 .. Len(d) : n # k => d[n] = e[n]
  PROVE  Crc(d) # Crc(e)
<1> SUFFICES ASSUME Crc(d) = Crc(e) PROVE FALSE
  OBVIOUS
<1>1. PICK h \in Differences(d, e) : h[Len(d)] = Zero
  BY DifferenceTells
<1>2. /\ Len(d) \in Nat /\ k \in 0 .. Len(d) /\ k - 1 \in 0 .. Len(d)
      /\ d[k] \in Bytes /\ e[k] \in Bytes
  BY DivisionExists
<1>3. h[k - 1] = Zero
  <2>1. \A n \in 1 .. k - 1 : d[n] = e[n]
    BY <1>2
  <2> QED BY <1>2, <2>1, DifferenceSpreads
<1>4. h[k] = Zero
  <2>1. \A n \in k + 1 .. Len(d) : d[n] = e[n]
    BY <1>2
  <2> QED BY <1>1, <1>2, <2>1, DifferenceSpreads
<1>5. h[k] = NextStandard(Zero, XorByte(d[k], e[k]))
  BY <1>3 DEF Differences
<1>6. XorByte(d[k], e[k]) \in Bytes /\ Zero \in Words
  BY <1>2, XorByBits, ZeroIsWord
<1>7. Zero = <<0, XorByte(d[k], e[k])>>
  BY <1>4, <1>5, <1>6, NextOfZero
<1>8. XorByte(d[k], e[k]) = 0
  BY <1>7 DEF Zero
<1> QED BY <1>2, <1>8, BytesAsWords

\* A byte comes in while the register holds what is still to come of a word:
\* the byte is used up and the rest of the word moves down.
LEMMA Feed ==
  ASSUME NEW w \in Words, NEW g \in Halves, NEW p \in Bytes, NEW q \in Bytes
  PROVE  /\ <<g, p * 256 + q>> \in Words
         /\ NextStandard(XorWord(w, <<g, p * 256 + q>>), q)
              = XorWord(EightBits(Standard, w),
                        <<g \div 256, (g % 256) * 256 + p>>)
<1> DEFINE s == <<g, p * 256 + q>>
           r == <<g, p * 256>>
           t == <<0, q>>
<1>1. /\ p * 256 + q \in Halves /\ p * 256 \in Halves
      /\ (p * 256) \div 256 = p /\ (p * 256) % 256 = 0
      /\ q \div 256 = 0 /\ q % 256 = q
      /\ (p * 256 + q) \div 256 = p /\ (p * 256 + q) % 256 = q
  BY DEF Halves, Bytes
<1>2. s \in Words /\ r \in Words /\ t \in Words
  BY <1>1, WordShape, ByteIsWord
<1>3. XorWord(s, t) = r
  <2>1. 0 \in Bytes /\ 0 \div 256 = 0 /\ 0 % 256 = 0
    BY DEF Bytes
  <2>2. XorByte(p, 0) = p /\ XorByte(q, q) = 0
    BY <2>1, XorByteLaws
  <2>3. XorHalf(p * 256 + q, q) = p * 256
    BY <1>1, <2>2 DEF XorHalf, Bytes
  <2>4. XorHalf(g, 0) = g
    BY XorHalfLaws
  <2> QED BY <2>3, <2>4 DEF XorWord
<1>4. EightBits(Standard, r) = <<g \div 256, (g % 256) * 256 + p>>
  <2>1. EightBits(Standard, r) = Shift8(r)
    BY <1>1, <1>2, StandardIsWord, EightBitsShifts
  <2> QED BY <1>1, <2>1 DEF Shift8
<1> HIDE DEF s, r, t
<1>5. XorWord(XorWord(w, s), t) = XorWord(w, r)
  BY <1>2, <1>3, XorWordLaws
<1>6. EightBits(Standard, XorWord(w, r))
        = XorWord(EightBits(Standard, w), EightBits(Standard, r))
  BY <1>2, StandardIsWord, EightBitsAddsUp
<1> QED BY <1>2, <1>4, <1>5, <1>6 DEF NextStandard, s, t

\* Four bytes in a row fill the register, so none of them is lost in it.
LEMMA FourBytes ==
  ASSUME NEW a \in Bytes, NEW b \in Bytes, NEW c \in Bytes, NEW d \in Bytes,
         NextStandard(NextStandard(NextStandard(NextStandard(
           Zero, a), b), c), d) = Zero
  PROVE  a = 0 /\ b = 0 /\ c = 0 /\ d = 0
<1> DEFINE W0 == <<d * 256 + c, b * 256 + a>>
           W1 == EightBits(Standard, W0)
           W2 == EightBits(Standard, W1)
           W3 == EightBits(Standard, W2)
           W4 == EightBits(Standard, W3)
<1>1. /\ d * 256 + c \in Halves /\ b * 256 + a \in Halves
      /\ (d * 256 + c) \div 256 = d /\ (d * 256 + c) % 256 = c
      /\ d \div 256 = 0 /\ d % 256 = d /\ 0 * 256 + d = d
      /\ 0 \div 256 = 0 /\ 0 % 256 = 0 /\ 0 * 256 + 0 = 0
      /\ 0 \in Bytes /\ 0 \in Halves /\ d \in Halves
  BY DEF Halves, Bytes
<1>2. W0 \in Words
  BY <1>1, WordShape
<1> HIDE DEF W0
<1>3. W1 \in Words /\ W2 \in Words /\ W3 \in Words /\ W4 \in Words
  BY <1>2, StandardIsWord, EightBitsAddsUp
<1> HIDE DEF W1, W2, W3, W4
<1>4. XorWord(W0, W0) = Zero
  BY <1>2, XorWordLaws
<1>5. NextStandard(Zero, a) = XorWord(W1, <<d, c * 256 + b>>)
  <2>1. NextStandard(XorWord(W0, <<d * 256 + c, b * 256 + a>>), a)
          = XorWord(EightBits(Standard, W0),
                    <<(d * 256 + c) \div 256, ((d * 256 + c) % 256) * 256 + b>>)
    BY <1>1, <1>2, Feed
  <2> QED BY <1>1, <1>4, <2>1 DEF W0, W1
<1>6. NextStandard(XorWord(W1, <<d, c * 256 + b>>), b)
        = XorWord(W2, <<0, d * 256 + c>>)
  <2>1. NextStandard(XorWord(W1, <<d, c * 256 + b>>), b)
          = XorWord(EightBits(Standard, W1),
                    <<d \div 256, (d % 256) * 256 + c>>)
    BY <1>1, <1>3, Feed
  <2> QED BY <1>1, <2>1 DEF W2
<1>7. NextStandard(XorWord(W2, <<0, d * 256 + c>>), c) = XorWord(W3, <<0, d>>)
  <2>1. NextStandard(XorWord(W2, <<0, d * 256 + c>>), c)
          = XorWord(EightBits(Standard, W2),
                    <<0 \div 256, (0 % 256) * 256 + d>>)
    BY <1>1, <1>3, Feed
  <2> QED BY <1>1, <2>1 DEF W3
<1>8. NextStandard(XorWord(W3, <<0, d>>), d) = W4
  <2>1. NextStandard(XorWord(W3, <<0, 0 * 256 + d>>), d)
          = XorWord(EightBits(Standard, W3),
                    <<0 \div 256, (0 % 256) * 256 + 0>>)
    BY <1>1, <1>3, Feed
  <2>2. XorWord(W4, Zero) = W4
    BY <1>3, XorWordLaws
  <2> QED BY <1>1, <2>1, <2>2 DEF W4, Zero
<1>9. W4 = Zero
  BY <1>5, <1>6, <1>7, <1>8
<1>10. W0 = Zero
  <2>1. W3 = Zero
    BY <1>3, <1>9, EightBitsOfZero DEF W4
  <2>2. W2 = Zero
    BY <1>3, <2>1, EightBitsOfZero DEF W3
  <2>3. W1 = Zero
    BY <1>3, <2>2, EightBitsOfZero DEF W2
  <2> QED BY <1>2, <2>3, EightBitsOfZero DEF W1
<1>11. d * 256 + c = 0 /\ b * 256 + a = 0
  BY <1>10 DEF W0, Zero
<1> QED BY <1>11 DEF Bytes

\* Two files that differ, and only within four bytes in a row, have
\* different checksums.
THEOREM FourBytesTell ==
  ASSUME NEW d \in Seq(Bytes), NEW e \in Seq(Bytes), Len(d) = Len(e), d # e,
         NEW m \in Nat, m + 4 <= Len(d),
         \A n \in 1 .. Len(d) : n \notin m + 1 .. m + 4 => d[n] = e[n]
  PROVE  Crc(d) # Crc(e)
<1> SUFFICES ASSUME Crc(d) = Crc(e) PROVE FALSE
  OBVIOUS
<1>1. PICK h \in Differences(d, e) : h[Len(d)] = Zero
  BY DifferenceTells
<1>2. PICK N \in Nat : N = Len(d)
  BY DivisionExists
<1>3. /\ \A n \in 1 .. N : d[n] \in Bytes /\ e[n] \in Bytes
      /\ \A n \in 1 .. N : h[n] = NextStandard(h[n - 1], XorByte(d[n], e[n]))
  BY <1>2, DivisionExists DEF Differences
<1>4. h[m] = Zero
  <2>1. m \in 0 .. Len(d) /\ \A n \in 1 .. m : d[n] = e[n]
    BY <1>2
  <2> QED BY <2>1, DifferenceSpreads
<1>5. h[m + 4] = Zero
  <2>1. m + 4 \in 0 .. Len(d) /\ \A n \in (m + 4) + 1 .. Len(d) : d[n] = e[n]
    BY <1>2
  <2> QED BY <1>1, <2>1, DifferenceSpreads
<1> DEFINE x(n) == XorByte(d[m + n], e[m + n])
<1>6. /\ m + 1 \in 1 .. N /\ m + 2 \in 1 .. N
      /\ m + 3 \in 1 .. N /\ m + 4 \in 1 .. N
      /\ (m + 1) - 1 = m /\ (m + 2) - 1 = m + 1 /\ (m + 3) - 1 = m + 2
      /\ (m + 4) - 1 = m + 3
  BY <1>2
<1>7. /\ h[m + 1] = NextStandard(h[m], x(1))
      /\ h[m + 2] = NextStandard(h[m + 1], x(2))
      /\ h[m + 3] = NextStandard(h[m + 2], x(3))
      /\ h[m + 4] = NextStandard(h[m + 3], x(4))
  BY <1>3, <1>6
<1>8. x(1) \in Bytes /\ x(2) \in Bytes /\ x(3) \in Bytes /\ x(4) \in Bytes
  BY <1>3, <1>6, XorByBits
<1>9. x(1) = 0 /\ x(2) = 0 /\ x(3) = 0 /\ x(4) = 0
  <2> HIDE DEF x
  <2>1. NextStandard(NextStandard(NextStandard(NextStandard(
          Zero, x(1)), x(2)), x(3)), x(4)) = Zero
    BY <1>4, <1>5, <1>7
  <2> QED BY <1>8, <2>1, FourBytes
<1>10. /\ d[m + 1] = e[m + 1] /\ d[m + 2] = e[m + 2]
       /\ d[m + 3] = e[m + 3] /\ d[m + 4] = e[m + 4]
  <2>1. \A n \in 1 .. N : XorByte(d[n], e[n]) = 0 => d[n] = e[n]
    BY <1>3, BytesAsWords
  <2> QED BY <1>6, <1>9, <2>1
<1>11. \A n \in 1 .. N : d[n] = e[n]
  <2> TAKE n \in 1 .. N
  <2>1. CASE n \in m + 1 .. m + 4
    <3>1. n = m + 1 \/ n = m + 2 \/ n = m + 3 \/ n = m + 4
      BY <2>1
    <3> QED BY <1>10, <3>1
  <2>2. CASE n \notin m + 1 .. m + 4
    BY <1>2, <2>2
  <2> QED BY <2>1, <2>2
<1>12. d = e
  BY <1>2, <1>11
<1> QED BY <1>12
=============================================================================
