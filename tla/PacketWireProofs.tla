-------------------------- MODULE PacketWireProofs --------------------------
(***************************************************************************)
(* Proofs about Base64 and PacketWire, for any header fields, payloads,    *)
(* files and damage: base64_decode inverts base64_encode, an undamaged     *)
(* packet arrives as it was built, a packet with one header byte changed   *)
(* is rejected, and the checksum of a file, which is the standard's, tells *)
(* a changed payload.                                                      *)
(***************************************************************************)
EXTENDS PacketWire, Crc32Proofs, FiniteSetTheorems, SequenceTheorems

-----------------------------------------------------------------------------
(* Base64, group by group.                                                 *)

\* One whole group.
LEMMA GroupRoundTrip ==
  ASSUME NEW a \in Bytes, NEW b \in Bytes, NEW c \in Bytes
  PROVE  LET q == GroupChars(a, b, c)
         IN  /\ \A j \in 1 .. 4 : q[j] \in 0 .. 63
             /\ GroupBytes(q[1], q[2], q[3], q[4]) = <<a, b, c>>
<1> DEFINE q == GroupChars(a, b, c)
<1>1. /\ q[1] = a \div 4
      /\ q[2] = (a % 4) * 16 + b \div 16
      /\ q[3] = (b % 16) * 4 + c \div 64
      /\ q[4] = c % 64
  BY DEF GroupChars
<1>2. /\ a \div 4 \in 0 .. 63 /\ a % 4 \in 0 .. 3
      /\ a = 4 * (a \div 4) + (a % 4)
  BY DEF Bytes
<1>3. /\ b \div 16 \in 0 .. 15 /\ b % 16 \in 0 .. 15
      /\ b = 16 * (b \div 16) + (b % 16)
  BY DEF Bytes
<1>4. /\ c \div 64 \in 0 .. 3 /\ c % 64 \in 0 .. 63
      /\ c = 64 * (c \div 64) + (c % 64)
  BY DEF Bytes
<1>5. \A j \in 1 .. 4 : q[j] \in 0 .. 63
  BY <1>1, <1>2, <1>3, <1>4
<1>6. GroupBytes(q[1], q[2], q[3], q[4])[1] = a
  BY <1>1, <1>2, <1>3, <1>4 DEF GroupBytes, LowByte
<1>7. GroupBytes(q[1], q[2], q[3], q[4])[2] = b
  BY <1>1, <1>2, <1>3, <1>4 DEF GroupBytes, LowByte
<1>8. GroupBytes(q[1], q[2], q[3], q[4])[3] = c
  BY <1>1, <1>2, <1>3, <1>4 DEF GroupBytes, LowByte
<1> QED BY <1>5, <1>6, <1>7, <1>8 DEF GroupBytes

-----------------------------------------------------------------------------
(* The encoded text: how long it is, and where its padding begins.         *)

\* The characters that carry data when n bytes are encoded.
Meaningful(n) == 4 * (n \div 3) + (IF n % 3 = 0 THEN 0 ELSE (n % 3) + 1)

LEMMA Division ==
  ASSUME NEW n \in Nat
  PROVE  /\ n \div 3 \in Nat /\ n % 3 \in 0 .. 2
         /\ n = 3 * (n \div 3) + (n % 3)
         /\ n \div 4 \in Nat /\ n % 4 \in 0 .. 3
         /\ n = 4 * (n \div 4) + (n % 4)
OBVIOUS

\* A position k is place j of group g.
LEMMA Place ==
  ASSUME NEW g \in Nat, NEW j \in Nat
  PROVE  /\ j \in 1 .. 4
            => (4 * g + j - 1) \div 4 = g /\ (4 * g + j - 1) % 4 = j - 1
         /\ j \in 1 .. 3
            => (3 * g + j - 1) \div 3 = g /\ (3 * g + j - 1) % 3 = j - 1
OBVIOUS

LEMMA MeaningfulBounds ==
  ASSUME NEW n \in Nat
  PROVE  /\ Meaningful(n) \in 0 .. 4 * ((n + 2) \div 3)
         /\ DecodedLength(Meaningful(n)) = n
<1> DEFINE a == n \div 3
           r == n % 3
<1>1. /\ a \in Nat /\ r \in 0 .. 2 /\ n = 3 * a + r
  BY Division
<1>2. CASE r = 0
  <2>1. Meaningful(n) = 4 * a /\ (n + 2) \div 3 = a
    BY <1>1, <1>2 DEF Meaningful
  <2>2. (4 * a) \div 4 = a /\ (4 * a) % 4 = 0
    BY <1>1
  <2> HIDE DEF a, r
  <2> QED BY <1>1, <1>2, <2>1, <2>2 DEF DecodedLength
<1>3. CASE r # 0
  <2>1. Meaningful(n) = 4 * a + r + 1
    BY <1>1, <1>3 DEF Meaningful
  <2>2. (n + 2) \div 3 = a + 1
    BY <1>1, <1>3
  <2> HIDE DEF a, r
  <2>3. (4 * a + r + 1) \div 4 = a /\ (4 * a + r + 1) % 4 = r + 1
    BY <1>1, <1>3
  <2> QED BY <1>1, <1>3, <2>1, <2>2, <2>3 DEF DecodedLength
<1> QED BY <1>2, <1>3

\* Place j of group g is within the meaningful characters if it is kept.
LEMMA KeptIsMeaningful ==
  ASSUME NEW n \in Nat, NEW g \in Nat, NEW j \in 1 .. 4,
         4 * g + j <= 4 * ((n + 2) \div 3)
  PROVE  j <= CharsKept(n - 3 * g) <=> 4 * g + j <= Meaningful(n)
<1> DEFINE a == n \div 3
           r == n % 3
<1>1. /\ a \in Nat /\ r \in 0 .. 2 /\ n = 3 * a + r
  BY Division
<1>2. CASE r = 0
  <2>1. Meaningful(n) = 4 * a /\ (n + 2) \div 3 = a
    BY <1>1, <1>2 DEF Meaningful
  <2> HIDE DEF a, r
  <2>2. g < a
    BY <1>1, <2>1
  <2> QED BY <1>1, <1>2, <2>1, <2>2 DEF CharsKept
<1>3. CASE r # 0
  <2>1. Meaningful(n) = 4 * a + r + 1
    BY <1>1, <1>3 DEF Meaningful
  <2>2. (n + 2) \div 3 = a + 1
    BY <1>1, <1>3
  <2> HIDE DEF a, r
  <2>3. g <= a
    BY <1>1, <2>2
  <2>4. CASE g = a
    BY <1>1, <1>3, <2>1, <2>4 DEF CharsKept
  <2>5. CASE g < a
    BY <1>1, <1>3, <2>1, <2>5 DEF CharsKept
  <2> QED BY <1>1, <2>3, <2>4, <2>5
<1> QED BY <1>2, <1>3

LEMMA ByteAtType ==
  ASSUME NEW data \in Seq(Int), NEW m \in Nat \ {0}
  PROVE  ByteAt(data, m) \in Bytes
<1>1. m <= Len(data) => data[m] \in Int
  OBVIOUS
<1>2. \A x \in Int : x % 256 \in 0 .. 255
  OBVIOUS
<1>3. CASE m <= Len(data)
  <2>1. LowByte(data[m]) \in 0 .. 255
    BY <1>1, <1>2, <1>3 DEF LowByte
  <2> QED BY <1>3, <2>1 DEF ByteAt, Bytes
<1>4. CASE ~(m <= Len(data))
  BY <1>4 DEF ByteAt, Bytes
<1> QED BY <1>3, <1>4

\* The characters of the text, group by group.
LEMMA EncodedChars ==
  ASSUME NEW data \in Seq(Int), NEW g \in Nat, NEW j \in 1 .. 4,
         4 * g + j <= 4 * ((Len(data) + 2) \div 3)
  PROVE  Encode(data)[4 * g + j] =
           IF 4 * g + j <= Meaningful(Len(data))
           THEN GroupChars(ByteAt(data, 3 * g + 1), ByteAt(data, 3 * g + 2),
                           ByteAt(data, 3 * g + 3))[j]
           ELSE PAD
<1>1. Len(data) \in Nat
  OBVIOUS
<1>2. (4 * g + j - 1) \div 4 = g /\ ((4 * g + j - 1) % 4) + 1 = j
  BY Place
<1>3. Encode(data)[4 * g + j] = CharAt(data, g, j)
  BY <1>1, <1>2 DEF Encode
<1> QED BY <1>1, <1>3, KeptIsMeaningful DEF CharAt

\* The decoder stops where the padding begins.
LEMMA EncodedAccepted ==
  ASSUME NEW data \in Seq(Int)
  PROVE  Accepted(Encode(data)) = Meaningful(Len(data))
<1> DEFINE n == Len(data)
           E == Encode(data)
           L == 4 * ((n + 2) \div 3)
           A == Meaningful(n)
<1>0. n \in Nat
  OBVIOUS
<1>1. n \in Nat /\ L \in Nat /\ A \in 0 .. L
  <2>1. (n + 2) \div 3 \in Nat
    BY <1>0
  <2>2. Meaningful(n) \in 0 .. 4 * ((n + 2) \div 3)
    <3> HIDE DEF n
    <3> QED BY <1>0, MeaningfulBounds
  <2> QED BY <1>0, <2>1, <2>2
<1>2. Len(E) = L
  BY <1>1 DEF Encode
<1>3. ASSUME NEW k \in 1 .. L
      PROVE  /\ k <= A => E[k] \in 0 .. 63
             /\ k > A => E[k] \notin 0 .. 63
  <2> DEFINE g == (k - 1) \div 4
             j == ((k - 1) % 4) + 1
  <2>1. /\ g \in Nat /\ j \in 1 .. 4 /\ k = 4 * g + j
    BY <1>1, Division
  <2> HIDE DEF g, j
  <2>2. /\ ByteAt(data, 3 * g + 1) \in Bytes
        /\ ByteAt(data, 3 * g + 2) \in Bytes
        /\ ByteAt(data, 3 * g + 3) \in Bytes
    BY <2>1, ByteAtType
  <2>3. GroupChars(ByteAt(data, 3 * g + 1), ByteAt(data, 3 * g + 2),
                   ByteAt(data, 3 * g + 3))[j] \in 0 .. 63
    BY <2>1, <2>2, GroupRoundTrip
  <2>4. E[4 * g + j] = IF 4 * g + j <= A
                       THEN GroupChars(ByteAt(data, 3 * g + 1),
                                       ByteAt(data, 3 * g + 2),
                                       ByteAt(data, 3 * g + 3))[j]
                       ELSE PAD
    <3>1. 4 * g + j <= 4 * ((Len(data) + 2) \div 3)
      BY <1>1, <1>3, <2>1
    <3> QED BY ONLY <2>1, <3>1, EncodedChars
  <2> HIDE DEF n, E, L, A
  <2>5. 4 * g + j > A => E[4 * g + j] = 64
    BY <1>1, <2>1, <2>4 DEF PAD
  <2>6. k <= A => E[4 * g + j] \in 0 .. 63
    BY <2>1, <2>3, <2>4
  <2>7. 64 \notin 0 .. 63
    OBVIOUS
  <2> QED BY <2>1, <2>5, <2>6, <2>7
<1> HIDE DEF n, E, L, A
<1>4. ASSUME NEW x \in 0 .. L
      PROVE  (/\ \A k \in 1 .. x : E[k] \in 0 .. 63
              /\ x < L => E[x + 1] \notin 0 .. 63) <=> x = A
  <2>1. CASE x = A
    <3>1. \A k \in 1 .. x : k \in 1 .. L /\ k <= A
      BY <1>1, <2>1
    <3>2. x < L => x + 1 \in 1 .. L /\ x + 1 > A
      BY <1>1, <2>1
    <3>3. \A k \in 1 .. x : E[k] \in 0 .. 63
      BY <1>1, <1>3, <3>1
    <3>4. x < L => E[x + 1] \notin 0 .. 63
      BY <1>1, <1>3, <3>2
    <3> QED BY <2>1, <3>3, <3>4
  <2>2. CASE x < A
    <3>1. x < L /\ x + 1 \in 1 .. L /\ x + 1 <= A /\ x # A
      BY <1>1, <2>2
    <3>2. E[x + 1] \in 0 .. 63
      BY <1>1, <1>3, <3>1
    <3> QED BY <3>1, <3>2
  <2>3. CASE x > A
    <3>1. A + 1 \in 1 .. L /\ A + 1 \in 1 .. x /\ A + 1 > A /\ x # A
      BY <1>1, <2>3
    <3>2. E[A + 1] \notin 0 .. 63
      BY <1>1, <1>3, <3>1
    <3> QED BY <3>1, <3>2
  <2> QED BY <1>1, <2>1, <2>2, <2>3
<1> QED BY <1>1, <1>2, <1>4 DEF Accepted, n, E, A

\* What is sent is what arrives, for every packet.
THEOREM RoundTrip ==
  \A data \in Seq(Int) : Decode(Encode(data)) = LowBytes(data)
<1> SUFFICES ASSUME NEW data \in Seq(Int)
             PROVE  Decode(Encode(data)) = LowBytes(data)
  OBVIOUS
<1> DEFINE n == Len(data)
           E == Encode(data)
           A == Meaningful(n)
           D == Decode(E)
<1>0. n \in Nat
  OBVIOUS
<1>1. /\ n \in Nat /\ A \in 0 .. 4 * ((n + 2) \div 3)
      /\ DecodedLength(A) = n
  <2> HIDE DEF n
  <2> QED BY <1>0, MeaningfulBounds
<1>2. Accepted(E) = A /\ DecodedLength(A) = n
  BY <1>1, EncodedAccepted
<1>3. D = [m \in 1 .. n |->
             LET g == (m - 1) \div 3
             IN  GroupBytes(DecodedChar(E, A, 4 * g + 1),
                            DecodedChar(E, A, 4 * g + 2),
                            DecodedChar(E, A, 4 * g + 3),
                            DecodedChar(E, A, 4 * g + 4))[((m - 1) % 3) + 1]]
  BY <1>2 DEF Decode
<1>4. ASSUME NEW m \in 1 .. n PROVE D[m] = LowByte(data[m])
  <2> DEFINE g == (m - 1) \div 3
             j == ((m - 1) % 3) + 1
             b == [i \in 1 .. 3 |-> ByteAt(data, 3 * g + i)]
             q == GroupChars(b[1], b[2], b[3])
             c == [i \in 1 .. 4 |-> DecodedChar(E, A, 4 * g + i)]
  <2>1. g \in Nat /\ j \in 1 .. 3 /\ m = 3 * g + j /\ m - 1 = 3 * g + j - 1
    <3>1. m - 1 \in Nat
      BY <1>1
    <3>2. /\ (m - 1) \div 3 \in Nat /\ (m - 1) % 3 \in 0 .. 2
          /\ m - 1 = 3 * ((m - 1) \div 3) + ((m - 1) % 3)
      BY ONLY <3>1, Division
    <3> QED BY <1>1, <3>2
  <2> HIDE DEF g, j
  <2>2. D[m] = GroupBytes(c[1], c[2], c[3], c[4])[j]
    BY <1>3 DEF g, j
  <2>3. b[1] \in Bytes /\ b[2] \in Bytes /\ b[3] \in Bytes
    BY <2>1, ByteAtType
  <2>4. b[j] = LowByte(data[m])
    BY <1>1, <2>1 DEF ByteAt
  <2>5. GroupBytes(q[1], q[2], q[3], q[4]) = <<b[1], b[2], b[3]>>
    <3> HIDE DEF b
    <3> QED BY <2>3, GroupRoundTrip
  <2>6. ASSUME NEW i \in 1 .. 4, i <= j + 1 PROVE c[i] = q[i]
    <3>1. 4 * g + i <= 4 * ((n + 2) \div 3) /\ i <= CharsKept(n - 3 * g)
      <4>1. n >= 3 * g + j /\ (n + 2) \div 3 >= g + 1
        BY <1>1, <2>1
      <4> QED BY <1>1, <2>1, <2>6, <4>1 DEF CharsKept
    <3>2. 4 * g + i <= A
      BY <1>1, <2>1, <3>1, KeptIsMeaningful
    <3>3. E[4 * g + i] = q[i]
      <4>1. E[4 * g + i] =
              IF 4 * g + i <= A
              THEN GroupChars(ByteAt(data, 3 * g + 1),
                              ByteAt(data, 3 * g + 2),
                              ByteAt(data, 3 * g + 3))[i]
              ELSE PAD
        BY ONLY <2>1, <3>1, EncodedChars
      <4> QED BY <3>2, <4>1
    <3> HIDE DEF n, E, A, q
    <3> QED BY <3>2, <3>3 DEF DecodedChar
  <2> HIDE DEF b, q, c
  <2>7. GroupBytes(c[1], c[2], c[3], c[4])[j]
          = GroupBytes(q[1], q[2], q[3], q[4])[j]
    <3>1. CASE j = 1
      BY <2>6, <3>1 DEF GroupBytes
    <3>2. CASE j = 2
      BY <2>6, <3>2 DEF GroupBytes
    <3>3. CASE j = 3
      BY <2>6, <3>3 DEF GroupBytes
    <3> QED BY <2>1, <3>1, <3>2, <3>3
  <2>8. <<b[1], b[2], b[3]>>[j] = b[j]
    BY <2>1
  <2> QED BY <2>2, <2>4, <2>5, <2>7, <2>8
<1> HIDE DEF E, A, D
<1>5. DOMAIN D = 1 .. n /\ D = [m \in 1 .. n |-> D[m]]
  BY <1>3
<1>6. D = LowBytes(data)
  BY <1>4, <1>5 DEF LowBytes
<1> QED BY <1>6 DEF D, E

-----------------------------------------------------------------------------
(* The XOR of two bytes.                                                   *)

LEMMA XorIsByte ==
  ASSUME NEW a \in Bytes, NEW b \in Bytes
  PROVE  XorByte(a, b) \in Bytes /\ XorByte(a, b) = XorByte(b, a)
BY XorByBits, XorByteLaws

\* A byte changed changes the XOR.
LEMMA XorTells ==
  ASSUME NEW a \in Bytes, NEW b \in Bytes, NEW c \in Bytes,
         XorByte(a, c) = XorByte(b, c)
  PROVE  a = b
<1>1. /\ XorByte(XorByte(a, c), c) = XorByte(a, XorByte(c, c))
      /\ XorByte(XorByte(b, c), c) = XorByte(b, XorByte(c, c))
      /\ XorByte(c, c) = 0 /\ XorByte(a, 0) = a /\ XorByte(b, 0) = b
  BY XorByteLaws
<1> QED BY <1>1

-----------------------------------------------------------------------------
(* The header.                                                             *)

\* Any one of the four bytes of the fields, or the XOR byte itself.
LEMMA HeaderTells ==
  ASSUME NEW p \in Seq(Bytes), NEW d \in Seq(Bytes),
         Len(p) >= HEADER, Len(d) = Len(p), NEW k \in 2 .. HEADER,
         d[k] # p[k], \A j \in 1 .. HEADER : j # k => d[j] = p[j],
         p[6] = XorOf(p)
  PROVE  d[6] # XorOf(d)
<1> USE DEF HEADER
<1>1. \A j \in 1 .. 6 : p[j] \in Bytes /\ d[j] \in Bytes
  OBVIOUS
<1>2. /\ p[2] \in Bytes /\ p[3] \in Bytes /\ p[4] \in Bytes /\ p[5] \in Bytes
      /\ d[2] \in Bytes /\ d[3] \in Bytes /\ d[4] \in Bytes /\ d[5] \in Bytes
  BY <1>1
<1>3. CASE k = 6
  <2>1. d[2] = p[2] /\ d[3] = p[3] /\ d[4] = p[4] /\ d[5] = p[5]
    BY <1>3
  <2> QED BY <1>3, <2>1 DEF XorOf
<1>4. CASE k \in 2 .. 5
  <2>1. d[6] = p[6]
    BY <1>4
  <2> SUFFICES ASSUME XorOf(d) = XorOf(p) PROVE FALSE
    BY <2>1
  <2>2. /\ XorByte(p[2], p[3]) \in Bytes /\ XorByte(d[2], d[3]) \in Bytes
    BY <1>2, XorIsByte
  <2>3. /\ XorByte(XorByte(p[2], p[3]), p[4]) \in Bytes
        /\ XorByte(XorByte(d[2], d[3]), d[4]) \in Bytes
    BY <1>2, <2>2, XorIsByte
  <2>4. CASE k = 5
    <3>1. d[2] = p[2] /\ d[3] = p[3] /\ d[4] = p[4]
      BY <2>4
    <3>2. XorByte(d[5], XorByte(XorByte(p[2], p[3]), p[4]))
            = XorByte(p[5], XorByte(XorByte(p[2], p[3]), p[4]))
      BY <1>2, <2>3, <3>1, XorIsByte DEF XorOf
    <3> QED BY <1>2, <2>3, <2>4, <3>2, XorTells
  <2>5. CASE k # 5
    <3>1. d[5] = p[5]
      BY <2>5
    <3>2. XorByte(XorByte(d[2], d[3]), d[4])
            = XorByte(XorByte(p[2], p[3]), p[4])
      BY <1>2, <2>3, <3>1, XorTells DEF XorOf
    <3>3. CASE k = 4
      <4>1. d[2] = p[2] /\ d[3] = p[3]
        BY <3>3
      <4>2. XorByte(d[4], XorByte(p[2], p[3]))
              = XorByte(p[4], XorByte(p[2], p[3]))
        BY <1>2, <2>2, <3>2, <4>1, XorIsByte
      <4> QED BY <1>2, <2>2, <3>3, <4>2, XorTells
    <3>4. CASE k # 4
      <4>1. d[4] = p[4]
        BY <3>4
      <4>2. XorByte(d[2], d[3]) = XorByte(p[2], p[3])
        BY <1>2, <2>2, <3>2, <4>1, XorTells
      <4>3. CASE k = 3
        <5>1. d[2] = p[2]
          BY <4>3
        <5>2. XorByte(d[3], p[2]) = XorByte(p[3], p[2])
          BY <1>2, <4>2, <5>1, XorIsByte
        <5> QED BY <1>2, <4>3, <5>2, XorTells
      <4>4. CASE k = 2
        <5>1. d[3] = p[3]
          BY <4>4
        <5> QED BY <1>2, <4>2, <4>4, <5>1, XorTells
      <4> QED BY <1>4, <2>5, <3>4, <4>3, <4>4
    <3> QED BY <3>3, <3>4
  <2> QED BY <2>4, <2>5
<1> QED BY <1>3, <1>4

LEMMA BytesKept ==
  ASSUME NEW d \in Seq(Bytes)
  PROVE  LowBytes(d) = d /\ Decode(Encode(d)) = d
<1>1. d \in Seq(Int)
  <2>1. Bytes \subseteq Int
    BY DEF Bytes
  <2> QED BY <2>1, SeqMonotonic
<1>2. \A n \in Bytes : LowByte(n) = n
  BY DEF Bytes, LowByte
<1>3. LowBytes(d) = d
  BY <1>2 DEF LowBytes
<1> QED BY <1>1, <1>3, RoundTrip

LEMMA LowBytesType ==
  ASSUME NEW d \in Seq(Int)
  PROVE  LowBytes(d) \in Seq(Bytes) /\ Len(LowBytes(d)) = Len(d)
<1>1. \A n \in Int : LowByte(n) \in Bytes
  BY DEF Bytes, LowByte
<1> QED BY <1>1 DEF LowBytes

\* A packet as buildDataPacket() and buildAckPacket() make it, from what it
\* was built from.
PacketOf(b) == Header(b.type, b.a, b.b) \o LowBytes(b.payload)

IsBuilt(b) ==
  /\ b.type \in {TYPE_DATA, TYPE_ACK}
  /\ b.a \in Int /\ b.b \in Int /\ b.payload \in Seq(Int)

IsHeader(h, type, a, b) ==
  /\ h \in Seq(Bytes) /\ Len(h) = 6
  /\ h[1] = type /\ h[6] = XorOf(h)
  /\ h[2] * 256 + h[3] = a % FieldValues
  /\ h[4] * 256 + h[5] = b % FieldValues

LEMMA HeaderShape ==
  ASSUME NEW type \in {TYPE_DATA, TYPE_ACK}, NEW a \in Int, NEW b \in Int
  PROVE  IsHeader(Header(type, a, b), type, a, b)
<1> DEFINE bare == <<type, HighByte(a), LowByte(a), HighByte(b), LowByte(b)>>
           h == Header(type, a, b)
<1>1. /\ \A n \in Int : HighByte(n) \in Bytes /\ LowByte(n) \in Bytes
      /\ \A n \in Int : HighByte(n) * 256 + LowByte(n) = n % FieldValues
      /\ type \in Bytes
  BY DEF FieldValues, Bytes, HighByte, LowByte, TYPE_DATA, TYPE_ACK
<1>2. /\ bare \in Seq(Bytes) /\ Len(bare) = 5
      /\ bare[1] = type /\ bare[2] = HighByte(a) /\ bare[3] = LowByte(a)
      /\ bare[4] = HighByte(b) /\ bare[5] = LowByte(b)
  BY <1>1
<1>3. XorOf(bare) \in Bytes
  <2>1. /\ bare[2] \in Bytes /\ bare[3] \in Bytes /\ bare[4] \in Bytes
        /\ bare[5] \in Bytes
    BY <1>1, <1>2
  <2>2. XorByte(bare[2], bare[3]) \in Bytes
    BY <2>1, XorIsByte
  <2>3. XorByte(XorByte(bare[2], bare[3]), bare[4]) \in Bytes
    BY <2>1, <2>2, XorIsByte
  <2> QED BY <2>1, <2>3, XorIsByte DEF XorOf
<1> HIDE DEF bare
<1>4. /\ h \in Seq(Bytes) /\ Len(h) = 6 /\ h[6] = XorOf(bare)
      /\ \A j \in 1 .. 5 : h[j] = bare[j]
  BY <1>2, <1>3 DEF Header, bare
<1> HIDE DEF h
<1>5. /\ h[1] = type /\ h[2] = HighByte(a) /\ h[3] = LowByte(a)
      /\ h[4] = HighByte(b) /\ h[5] = LowByte(b)
  BY <1>2, <1>4
<1>6. h[6] = XorOf(h)
  BY <1>2, <1>4, <1>5 DEF XorOf
<1>7. IsHeader(h, type, a, b)
  BY <1>1, <1>4, <1>5, <1>6 DEF IsHeader
<1> QED BY <1>7 DEF h

LEMMA PacketShape ==
  ASSUME NEW b, IsBuilt(b)
  PROVE  LET p == PacketOf(b)
         IN  /\ p \in Seq(Bytes) /\ Len(p) = HEADER + Len(b.payload)
             /\ p[1] = b.type /\ p[6] = XorOf(p)
             /\ Field(p, 2) = b.a % FieldValues
             /\ Field(p, 4) = b.b % FieldValues
             /\ SubSeq(p, HEADER + 1, Len(p)) = LowBytes(b.payload)
<1> DEFINE load == LowBytes(b.payload)
           head == Header(b.type, b.a, b.b)
           p == PacketOf(b)
<1>1. /\ load \in Seq(Bytes) /\ Len(load) = Len(b.payload)
      /\ Len(b.payload) \in Nat
  BY LowBytesType DEF IsBuilt
<1>2. /\ head \in Seq(Bytes) /\ Len(head) = 6
      /\ head[1] = b.type /\ head[6] = XorOf(head)
      /\ head[2] * 256 + head[3] = b.a % FieldValues
      /\ head[4] * 256 + head[5] = b.b % FieldValues
  <2>1. b.type \in {TYPE_DATA, TYPE_ACK} /\ b.a \in Int /\ b.b \in Int
    BY DEF IsBuilt
  <2>2. IsHeader(head, b.type, b.a, b.b)
    <3> HIDE DEF p, load
    <3> QED BY <2>1, HeaderShape
  <2> QED BY <2>2 DEF IsHeader
<1> HIDE DEF head, load
<1>3. p = head \o load
  BY DEF PacketOf, head, load
<1> HIDE DEF p
<1>4. /\ p \in Seq(Bytes) /\ Len(p) = 6 + Len(load)
      /\ \A j \in 1 .. 6 : p[j] = head[j]
      /\ \A j \in 1 .. Len(load) : p[6 + j] = load[j]
  <2>1. /\ p \in Seq(Bytes) /\ Len(p) = 6 + Len(load)
        /\ \A j \in 1 .. 6 + Len(load) :
             p[j] = IF j <= 6 THEN head[j] ELSE load[j - 6]
    <3>1. /\ head \o load \in Seq(Bytes)
          /\ Len(head \o load) = Len(head) + Len(load)
          /\ \A j \in 1 .. Len(head) + Len(load) :
               (head \o load)[j] = IF j <= Len(head) THEN head[j]
                                  ELSE load[j - Len(head)]
      <4>1. head \in Seq(Bytes) /\ load \in Seq(Bytes)
        BY <1>1, <1>2
      <4> QED BY <4>1, ConcatProperties
    <3> QED BY <1>2, <1>3, <3>1, Zenon
  <2>2. ASSUME NEW j \in 1 .. Len(load) PROVE p[6 + j] = load[j]
    <3>1. 6 + j \in 1 .. 6 + Len(load) /\ ~ 6 + j <= 6 /\ (6 + j) - 6 = j
      BY <1>1
    <3> QED BY <2>1, <3>1
  <2> QED BY <1>1, <2>1, <2>2
<1>5. /\ p[1] = head[1] /\ p[2] = head[2] /\ p[3] = head[3]
      /\ p[4] = head[4] /\ p[5] = head[5] /\ p[6] = head[6]
  BY <1>4
<1>6. p[6] = XorOf(p)
  BY <1>2, <1>5 DEF XorOf
<1>7. Field(p, 2) = b.a % FieldValues /\ Field(p, 4) = b.b % FieldValues
  <2>1. Field(p, 2) = p[2] * 256 + p[3] /\ Field(p, 4) = p[4] * 256 + p[5]
    BY DEF Field
  <2> QED BY <1>2, <1>5, <2>1
<1>8. SubSeq(p, HEADER + 1, Len(p)) = load
  BY <1>1, <1>4 DEF HEADER
<1> QED BY <1>1, <1>2, <1>4, <1>5, <1>6, <1>7, <1>8 DEF HEADER, p, load

-----------------------------------------------------------------------------
(* The invariant: where the packet is, and how it differs from what was    *)
(* built.                                                                  *)

\* The packet with its damage.
Altered ==
  {d \in Seq(Bytes) :
     /\ Len(d) = Len(packet)
     /\ damaged = {k \in 1 .. Len(packet) : d[k] # packet[k]}}

Places == {"builder", "outputBuffer", "socket", "inputBuffer", "judged"}

WireInv ==
  /\ at \in Places
  /\ at \in {"builder", "outputBuffer"} \/ built.type = CHECKSUM
     => damaged = {}
  /\ built.type = CHECKSUM => at = "judged"
  /\ at = "builder" => built = None
  /\ built.type = CHECKSUM
     => built.file \in Files /\ verdict.crc = Crc(built.file)
  /\ at # "builder" /\ built.type # CHECKSUM
     => IsBuilt(built) /\ packet = PacketOf(built)
  /\ at = "socket" => Decode(text) \in Altered
  /\ at = "inputBuffer" \/ (at = "judged" /\ built.type # CHECKSUM)
     => got \in Altered
  /\ at = "judged" /\ built.type # CHECKSUM
     => verdict = IF Passes(got, built.type) THEN Parse(got) ELSE Rejected

LEMMA WireStep == WireInv /\ [Next]_vars => WireInv'
<1> SUFFICES ASSUME WireInv, [Next]_vars PROVE WireInv'
  OBVIOUS
<1> USE DEF CHECKSUM, TYPE_DATA, TYPE_ACK
<1>1. ASSUME NEW seq \in Fields, NEW total \in Fields,
             NEW payload \in Payloads, SendData(seq, total, payload)
      PROVE  WireInv'
  <2>1. /\ seq \in Int /\ total \in Int /\ payload \in Seq(Int)
    BY WireAssumption
  <2>2. /\ at' = "outputBuffer" /\ damaged' = {}
        /\ built' = [type |-> 0, a |-> seq, b |-> total, payload |-> payload]
        /\ packet' = BuildData(seq, total, payload)
    BY <1>1 DEF SendData, WireInv
  <2>3. IsBuilt(built') /\ packet' = PacketOf(built')
    BY <2>1, <2>2 DEF IsBuilt, PacketOf, BuildData
  <2> QED BY <2>2, <2>3 DEF WireInv, Places
<1>2. ASSUME NEW base \in Fields, NEW mask \in Fields, SendAck(base, mask)
      PROVE  WireInv'
  <2>1. base \in Int /\ mask \in Int
    BY WireAssumption
  <2>2. /\ at' = "outputBuffer" /\ damaged' = {}
        /\ built' = [type |-> 1, a |-> base, b |-> mask, payload |-> <<>>]
        /\ packet' = BuildAck(base, mask)
    BY <1>2 DEF SendAck, WireInv
  <2>3. IsBuilt(built')
    BY <2>1, <2>2 DEF IsBuilt
  <2>4. packet' = PacketOf(built')
    <3>1. LowBytes(<<>>) = <<>>
      BY DEF LowBytes
    <3>2. Header(1, base, mask) \in Seq(Bytes)
      BY <2>1, HeaderShape DEF IsHeader
    <3>3. Header(1, base, mask) \o <<>> = Header(1, base, mask)
      BY <3>2
    <3> QED BY <2>2, <3>1, <3>3 DEF PacketOf, BuildAck
  <2> QED BY <2>2, <2>3, <2>4 DEF WireInv, Places
<1>3. ASSUME NEW file \in Files, SendChecksum(file) PROVE WireInv'
  <2>1. /\ at' = "judged" /\ damaged' = {} /\ built'.type = CHECKSUM
        /\ built'.file = file /\ verdict'.crc = Crc(file)
    BY <1>3 DEF SendChecksum, WireInv
  <2> QED BY <2>1 DEF WireInv, Places
<1>4. CASE Transmit
  <2>1. /\ at = "outputBuffer" /\ at' = "socket" /\ text' = Encode(packet)
        /\ UNCHANGED <<built, packet, damaged>> /\ damaged = {}
        /\ built.type # CHECKSUM
    BY <1>4 DEF Transmit, WireInv
  <2>2. packet \in Seq(Bytes)
    BY <2>1, PacketShape DEF WireInv
  <2>3. Decode(text') = packet
    BY <2>1, <2>2, BytesKept
  <2>4. Decode(text') \in Altered'
    BY <2>1, <2>2, <2>3 DEF Altered
  <2> QED BY <2>1, <2>4 DEF WireInv, Places
<1>5. ASSUME NEW k \in 1 .. Len(Decode(text)), NEW value \in Damages,
             Damage(k, value)
      PROVE  WireInv'
  <2> DEFINE d == Decode(text)
             e == [d EXCEPT ![k] = value]
  <2>1. /\ at = "socket" /\ k \notin damaged /\ d[k] # value
        /\ text' = Encode(e) /\ damaged' = damaged \cup {k}
        /\ UNCHANGED <<at, built, packet>> /\ d \in Altered
        /\ built.type # CHECKSUM
    BY <1>5 DEF Damage, WireInv
  <2> HIDE DEF d
  <2>2. /\ d \in Seq(Bytes) /\ Len(d) = Len(packet) /\ value \in Bytes
        /\ k \in 1 .. Len(d)
        /\ damaged = {j \in 1 .. Len(packet) : d[j] # packet[j]}
    BY <2>1, WireAssumption DEF Altered, d
  <2>3. /\ e \in Seq(Bytes) /\ Len(e) = Len(packet) /\ e[k] = value
        /\ \A j \in 1 .. Len(packet) : j # k => e[j] = d[j]
    BY <2>2
  <2> HIDE DEF e
  <2>4. packet[k] = d[k]
    BY <2>1, <2>2
  <2>5. damaged' = {j \in 1 .. Len(packet) : e[j] # packet[j]}
    <3>1. \A j \in 1 .. Len(packet) :
            e[j] # packet[j] <=> j = k \/ d[j] # packet[j]
      BY <2>1, <2>3, <2>4
    <3>2. k \in 1 .. Len(packet)
      BY <2>2
    <3> QED BY <2>1, <2>2, <3>1, <3>2
  <2>6. Decode(text') \in Altered'
    BY <2>1, <2>3, <2>5, BytesKept DEF Altered
  <2> QED BY <2>1, <2>6 DEF WireInv, Places
<1>6. CASE HandlePacket
  <2>1. /\ at = "socket" /\ at' = "inputBuffer"
        /\ got' = LowBytes(Decode(text)) /\ Decode(text) \in Altered
        /\ UNCHANGED <<built, packet, damaged>> /\ built.type # CHECKSUM
    BY <1>6 DEF HandlePacket, WireInv
  <2>2. got' \in Altered'
    BY <2>1, BytesKept DEF Altered
  <2> QED BY <2>1, <2>2 DEF WireInv, Places
<1>7. CASE Judge
  <2>1. /\ at = "inputBuffer" /\ at' = "judged"
        /\ verdict' = IF Passes(got, built.type) THEN Parse(got) ELSE Rejected
        /\ UNCHANGED <<built, packet, damaged, got>> /\ got \in Altered
        /\ built.type # CHECKSUM
    BY <1>7 DEF Judge, WireInv
  <2>2. got' \in Altered'
    BY <2>1 DEF Altered
  <2> QED BY <2>1, <2>2 DEF WireInv, Places
<1>8. CASE UNCHANGED vars
  BY <1>8 DEF vars, WireInv, Altered
<1> QED BY <1>1, <1>2, <1>3, <1>4, <1>5, <1>6, <1>7, <1>8 DEF Next, Judged

-----------------------------------------------------------------------------
(* The theorems.                                                           *)

\* The inductive invariant: at each place the packet is the one that was
\* built, but for the bytes the relay has damaged.
THEOREM WireInvHolds == Spec => []WireInv
<1>1. Init => WireInv
  BY DEF Init, WireInv, None, CHECKSUM, Places
<1> QED BY <1>1, WireStep, PTL DEF Spec

\* An undamaged packet says at the other end what it was built from: numbers
\* modulo 2^16, the bytes of the file without their sign, for any 32-bit
\* numbers and payloads of any length.
THEOREM DeliveredAsBuiltHolds == Spec => []DeliveredAsBuilt
<1>1. ASSUME WireInv PROVE DeliveredAsBuilt
  <2> SUFFICES ASSUME at = "judged", damaged = {}, built.type # CHECKSUM
               PROVE  verdict = [type |-> built.type,
                                 a |-> built.a % FieldValues,
                                 b |-> built.b % FieldValues,
                                 payload |-> LowBytes(built.payload)]
    BY DEF DeliveredAsBuilt
  <2>1. /\ IsBuilt(built) /\ packet = PacketOf(built) /\ got \in Altered
        /\ verdict = IF Passes(got, built.type) THEN Parse(got) ELSE Rejected
    BY <1>1 DEF WireInv
  <2>2. /\ packet \in Seq(Bytes) /\ Len(packet) = HEADER + Len(built.payload)
        /\ packet[1] = built.type /\ packet[6] = XorOf(packet)
        /\ Field(packet, 2) = built.a % FieldValues
        /\ Field(packet, 4) = built.b % FieldValues
        /\ SubSeq(packet, HEADER + 1, Len(packet)) = LowBytes(built.payload)
    BY <2>1, PacketShape
  <2>3. got = packet
    <3>1. got \in Seq(Bytes) /\ Len(got) = Len(packet)
      BY <2>1 DEF Altered
    <3>2. \A j \in 1 .. Len(packet) : got[j] = packet[j]
      BY <2>1 DEF Altered
    <3> QED BY <2>2, <3>1, <3>2
  <2>4. Passes(got, built.type)
    <3>1. Len(built.payload) \in Nat
      BY <2>1 DEF IsBuilt
    <3> QED BY <2>2, <2>3, <3>1 DEF Passes, HEADER
  <2>5. verdict = Parse(packet)
    BY <2>1, <2>3, <2>4, Zenon
  <2>6. /\ packet[1] = built.type
        /\ Field(packet, 2) = built.a % FieldValues
        /\ Field(packet, 4) = built.b % FieldValues
        /\ SubSeq(packet, HEADER + 1, Len(packet)) = LowBytes(built.payload)
    BY <2>2
  <2> QED BY <2>5, <2>6 DEF Parse
<1> QED BY <1>1, WireInvHolds, PTL

\* One changed byte of the header, whichever it is and whatever it becomes,
\* makes the other end reject the packet.
THEOREM HeaderDamageIsRejected == Spec => []HeaderDamageRejected
<1>1. ASSUME WireInv PROVE HeaderDamageRejected
  <2> SUFFICES ASSUME at = "judged", Cardinality(damaged) = 1,
                      damaged \subseteq 1 .. HEADER
               PROVE  verdict = Rejected
    BY DEF HeaderDamageRejected
  <2>1. PICK k \in 1 .. HEADER : damaged = {k}
    <3>1. IsFiniteSet(1 .. HEADER)
      <4>1. HEADER \in Int /\ 1 \in Int
        BY DEF HEADER
      <4> QED BY <4>1, FS_Interval
    <3>2. IsFiniteSet(damaged)
      BY <3>1, FS_Subset
    <3>3. PICK k : damaged = {k}
      BY <3>2, FS_Singleton
    <3> QED BY <3>3
  <2>2. built.type # CHECKSUM
    BY <1>1, <2>1 DEF WireInv
  <2>3. /\ IsBuilt(built) /\ packet = PacketOf(built) /\ got \in Altered
        /\ verdict = IF Passes(got, built.type) THEN Parse(got) ELSE Rejected
    BY <1>1, <2>2 DEF WireInv
  <2>4. /\ packet \in Seq(Bytes) /\ Len(packet) = HEADER + Len(built.payload)
        /\ packet[1] = built.type /\ packet[6] = XorOf(packet)
        /\ Len(built.payload) \in Nat
    BY <2>3, PacketShape DEF IsBuilt
  <2>5. /\ got \in Seq(Bytes) /\ Len(got) = Len(packet)
        /\ damaged = {j \in 1 .. Len(packet) : got[j] # packet[j]}
    BY <2>3 DEF Altered
  <2>6. \A j \in 1 .. HEADER : j \in 1 .. Len(packet)
    BY <2>4 DEF HEADER
  <2>7. got[k] # packet[k]
    BY <2>1, <2>5
  <2>8. \A j \in 1 .. HEADER : j # k => got[j] = packet[j]
    BY <2>1, <2>5, <2>6
  <2>9. ~ Passes(got, built.type)
    <3>1. CASE k = 1
      BY <2>4, <2>7, <3>1 DEF Passes
    <3>2. CASE k \in 2 .. HEADER
      <4>1. Len(packet) >= HEADER
        BY <2>4 DEF HEADER
      <4>2. got[6] # XorOf(got)
        BY <2>4, <2>5, <2>7, <2>8, <3>2, <4>1, HeaderTells
      <4> QED BY <4>2 DEF Passes
    <3> QED BY <3>1, <3>2 DEF HEADER
  <2> QED BY <2>3, <2>9
<1> QED BY <1>1, WireInvHolds, PTL

\* Two payloads that differ where the relay damaged the packet, when that is
\* near: in one byte of the payload, or within four in a row.
LEMMA DamagedPayloadTells ==
  ASSUME NEW p \in Seq(Bytes), NEW d \in Seq(Bytes), Len(d) = Len(p),
         NEW D, D = {j \in 1 .. Len(p) : d[j] # p[j]},
         \/ \E k \in HEADER + 1 .. Len(p) : D = {k}
         \/ /\ D # {}
            /\ \E m \in HEADER .. Len(p) - 4 : D \subseteq m + 1 .. m + 4
  PROVE  Crc(SubSeq(d, HEADER + 1, Len(d)))
           # Crc(SubSeq(p, HEADER + 1, Len(p)))
<1> DEFINE x == SubSeq(p, HEADER + 1, Len(p))
           y == SubSeq(d, HEADER + 1, Len(d))
<1>1. PICK N \in Nat : N = Len(p) /\ N >= HEADER + 1
  <2>1. Len(p) \in Nat
    OBVIOUS
  <2>2. Len(p) >= HEADER + 1
    <3>1. CASE \E k \in HEADER + 1 .. Len(p) : D = {k}
      BY <2>1, <3>1 DEF HEADER
    <3>2. CASE \E m \in HEADER .. Len(p) - 4 : D \subseteq m + 1 .. m + 4
      BY <2>1, <3>2 DEF HEADER
    <3> QED BY <3>1, <3>2
  <2> QED BY <2>1, <2>2
<1>2. /\ x \in Seq(Bytes) /\ y \in Seq(Bytes)
      /\ Len(x) = N - 6 /\ Len(y) = N - 6
      /\ \A n \in 1 .. N - 6 : x[n] = p[6 + n] /\ y[n] = d[6 + n]
  BY <1>1 DEF HEADER
<1> HIDE DEF x, y
<1>3. \A n \in 1 .. N - 6 : x[n] # y[n] <=> 6 + n \in D
  BY <1>1, <1>2
<1>4. ASSUME NEW k \in HEADER + 1 .. Len(p), D = {k}
      PROVE  Crc(y) # Crc(x)
  <2>1. PICK n \in 1 .. N - 6 : k = 6 + n
    <3>1. k - 6 \in 1 .. N - 6 /\ k = 6 + (k - 6)
      BY <1>1 DEF HEADER
    <3> QED BY <3>1
  <2>2. n \in 1 .. Len(y) /\ y[n] # x[n]
    BY <1>2, <1>3, <1>4, <2>1
  <2>3. \A j \in 1 .. Len(y) : j # n => y[j] = x[j]
    <3>1. \A j \in 1 .. N - 6 : j # n => 6 + j # k
      BY <2>1
    <3>2. \A j \in 1 .. N - 6 : j # n => 6 + j \notin D
      BY <1>4, <3>1
    <3> QED BY <1>2, <1>3, <3>2
  <2> QED BY <1>2, <2>2, <2>3, OneByteTells
<1>5. ASSUME NEW m \in HEADER .. Len(p) - 4, D \subseteq m + 1 .. m + 4, D # {}
      PROVE  Crc(y) # Crc(x)
  <2>1. PICK k \in D : k \in m + 1 .. m + 4
    BY <1>5
  <2>2. k - 6 \in 1 .. N - 6 /\ 6 + (k - 6) = k
    BY <1>1, <2>1 DEF HEADER
  <2>3. y # x
    BY <1>3, <2>1, <2>2
  <2>4. PICK w \in Nat : w = m - 6 /\ w + 4 <= N - 6
    BY <1>1 DEF HEADER
  <2>5. \A n \in 1 .. Len(y) : n \notin w + 1 .. w + 4 => y[n] = x[n]
    <3>1. ASSUME NEW n \in 1 .. N - 6, n \notin w + 1 .. w + 4
          PROVE  6 + n \notin D
      <4>1. 6 + n \notin m + 1 .. m + 4
        BY <1>1, <2>4, <3>1 DEF HEADER
      <4> QED BY <1>5, <4>1
    <3> QED BY <1>2, <1>3, <3>1
  <2>6. w + 4 <= Len(y) /\ Len(y) = Len(x)
    BY <1>2, <2>4
  <2> QED BY <1>2, <2>3, <2>4, <2>5, <2>6, FourBytesTell
<1>6. Crc(y) # Crc(x)
  BY <1>4, <1>5
<1> QED BY <1>6 DEF x, y

\* Damage to one byte, or within four payload bytes in a row, is rejected by
\* the header's test or changes the checksum of the payload, whatever the
\* payload and whatever the bytes become.
THEOREM DamageIsCaughtHolds == Spec => []DamageIsCaught
<1>1. ASSUME WireInv, HeaderDamageRejected PROVE DamageIsCaught
  <2> SUFFICES ASSUME at = "judged", damaged # {}, verdict # Rejected,
                      \/ Cardinality(damaged) = 1
                      \/ \E m \in HEADER .. Len(packet) - 4 :
                           damaged \subseteq m + 1 .. m + 4
               PROVE  Crc(verdict.payload) # Crc(LowBytes(built.payload))
    BY DEF DamageIsCaught
  <2>1. built.type # CHECKSUM
    BY <1>1 DEF WireInv
  <2>2. /\ IsBuilt(built) /\ packet = PacketOf(built) /\ got \in Altered
        /\ verdict = IF Passes(got, built.type) THEN Parse(got) ELSE Rejected
    BY <1>1, <2>1 DEF WireInv
  <2>3. /\ packet \in Seq(Bytes)
        /\ SubSeq(packet, HEADER + 1, Len(packet)) = LowBytes(built.payload)
    BY <2>2, PacketShape
  <2>4. /\ got \in Seq(Bytes) /\ Len(got) = Len(packet)
        /\ damaged = {j \in 1 .. Len(packet) : got[j] # packet[j]}
    BY <2>2 DEF Altered
  <2>5. verdict.payload = SubSeq(got, HEADER + 1, Len(got))
    BY <2>2 DEF Parse
  <2>6. \/ \E k \in HEADER + 1 .. Len(packet) : damaged = {k}
        \/ \E m \in HEADER .. Len(packet) - 4 : damaged \subseteq m + 1 .. m + 4
    <3> SUFFICES ASSUME Cardinality(damaged) = 1
                 PROVE  \E k \in HEADER + 1 .. Len(packet) : damaged = {k}
      OBVIOUS
    <3>1. Len(packet) \in Nat /\ HEADER \in Nat
      BY <2>3 DEF HEADER
    <3>2. IsFiniteSet(damaged)
      <4>1. IsFiniteSet(1 .. Len(packet))
        BY <3>1, FS_Interval
      <4>2. damaged \subseteq 1 .. Len(packet)
        BY <2>4
      <4> QED BY <4>1, <4>2, FS_Subset
    <3>3. PICK k : damaged = {k}
      BY <3>2, FS_Singleton
    <3>4. k \in 1 .. Len(packet)
      BY <2>4, <3>3
    <3>5. ~ damaged \subseteq 1 .. HEADER
      BY <1>1 DEF HeaderDamageRejected
    <3>6. k \in HEADER + 1 .. Len(packet)
      BY <3>1, <3>3, <3>4, <3>5
    <3> QED BY <3>3, <3>6
  <2>7. Crc(SubSeq(got, HEADER + 1, Len(got)))
          # Crc(SubSeq(packet, HEADER + 1, Len(packet)))
    BY <2>3, <2>4, <2>6, DamagedPayloadTells
  <2> QED BY <2>3, <2>5, <2>7
<1> QED BY <1>1, WireInvHolds, HeaderDamageIsRejected, PTL

\* sendChecksum() sends the CRC-32 of the standard, for any file.
THEOREM CrcIsStandardHolds == Spec => []CrcIsStandard
<1>1. ASSUME WireInv PROVE CrcIsStandard
  <2> SUFFICES ASSUME built.type = CHECKSUM
               PROVE  verdict.crc = StandardCrc(built.file)
    BY DEF CrcIsStandard
  <2>1. built.file \in Seq(Bytes) /\ verdict.crc = Crc(built.file)
    BY <1>1, WireAssumption DEF WireInv
  <2> QED BY <2>1, CrcIsTheStandards
<1> QED BY <1>1, WireInvHolds, PTL
=============================================================================
