---------------------------- MODULE ExclusiveOr ----------------------------
(***************************************************************************)
(* The operator ^ of C++ on a byte and on the halves of a 32-bit number,   *)
(* with the eight bits written out, so that it can be proved about.        *)
(***************************************************************************)
EXTENDS Integers

\* The bit of a with the weight p.
BitOf(a, p) == (a \div p) % 2

XorBit(a, b, p) == p * ((BitOf(a, p) + BitOf(b, p)) % 2)

XorByte(a, b) ==
  XorBit(a, b, 128) + XorBit(a, b, 64) + XorBit(a, b, 32) + XorBit(a, b, 16)
  + XorBit(a, b, 8) + XorBit(a, b, 4) + XorBit(a, b, 2) + XorBit(a, b, 1)

XorHalf(a, b) ==
  XorByte(a \div 256, b \div 256) * 256 + XorByte(a % 256, b % 256)
=============================================================================
