------------------------------- MODULE Base64 -------------------------------
(***************************************************************************)
(* framework/base64: the text form a packet has on the socket.  A          *)
(* character is the value 0..63 it has in base64_chars, or PAD, or         *)
(* FOREIGN, which stands for every other character.  The loops that fill   *)
(* groups of three bytes and of four characters are written as functions   *)
(* of the position, so that they can be proved about.                      *)
(***************************************************************************)
EXTENDS Integers, Sequences

PAD     == 64
FOREIGN == 65
Chars   == 0 .. 65
Bytes   == 0 .. 255

\* Only the low eight bits of an int32_t are used.
LowByte(n) == n % 256

\* Three bytes as four characters.
GroupChars(a, b, c) ==
  << a \div 4, (a % 4) * 16 + b \div 16, (b % 16) * 4 + c \div 64, c % 64 >>

\* Four characters as three bytes; each is stored in an unsigned char.
GroupBytes(p, q, r, s) ==
  << LowByte(p * 4 + (q % 64) \div 16),
     LowByte((q % 16) * 16 + (r % 64) \div 4),
     LowByte((r % 4) * 64 + s) >>

-----------------------------------------------------------------------------
(* base64_encode: whole groups, then a group filled up with zero bytes of  *)
(* which only the characters that carry data are kept.                     *)

ByteAt(data, m) == IF m <= Len(data) THEN LowByte(data[m]) ELSE 0

\* The characters of a group that has n bytes: one more than that, and PAD.
CharsKept(n) == IF n >= 3 THEN 4 ELSE n + 1

CharAt(data, g, j) ==
  IF j <= CharsKept(Len(data) - 3 * g)
  THEN GroupChars(ByteAt(data, 3 * g + 1), ByteAt(data, 3 * g + 2),
                  ByteAt(data, 3 * g + 3))[j]
  ELSE PAD

Encode(data) ==
  [k \in 1 .. 4 * ((Len(data) + 2) \div 3) |->
     CharAt(data, (k - 1) \div 4, ((k - 1) % 4) + 1)]

-----------------------------------------------------------------------------
(* base64_decode: the characters in front of the first that is not one of  *)
(* the alphabet.                                                           *)

\* How many characters are decoded.
Accepted(chars) ==
  CHOOSE n \in 0 .. Len(chars) :
    /\ \A k \in 1 .. n : chars[k] \in 0 .. 63
    /\ n < Len(chars) => chars[n + 1] \notin 0 .. 63

\* Bytes that n characters stand for; a single character left over is none.
DecodedLength(n) == 3 * (n \div 4) + (IF n % 4 > 1 THEN (n % 4) - 1 ELSE 0)

\* Missing characters of the last group are '\0', of which find() returns
\* npos, 255 as an unsigned char.
DecodedChar(chars, n, k) == IF k <= n THEN chars[k] ELSE 255

Decode(chars) ==
  LET n == Accepted(chars)
  IN  [m \in 1 .. DecodedLength(n) |->
         LET g == (m - 1) \div 3
         IN  GroupBytes(DecodedChar(chars, n, 4 * g + 1),
                        DecodedChar(chars, n, 4 * g + 2),
                        DecodedChar(chars, n, 4 * g + 3),
                        DecodedChar(chars, n, 4 * g + 4))[((m - 1) % 3) + 1]]

-----------------------------------------------------------------------------
\* What receivePacket() hands over for what sendPacket() was given.
LowBytes(data) == [m \in 1 .. Len(data) |-> LowByte(data[m])]
=============================================================================
