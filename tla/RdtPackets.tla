----------------------------- MODULE RdtPackets -----------------------------
(***************************************************************************)
(* The packets of my_protocol::MyProtocol and how a file is cut into them. *)
(*                                                                         *)
(* A data packet carries its sequence number, the number of packets of the *)
(* file and one chunk of the file; an acknowledgement carries the first    *)
(* sequence number the receiver misses and a mask of later packets it      *)
(* holds.  Both numbers travel in two header bytes, so they are reduced    *)
(* modulo HeaderMod (2^16 in the code).  The packet type byte and the XOR  *)
(* byte are left out: a packet the header check rejects changes no state,  *)
(* so it is a lost packet.                                                 *)
(***************************************************************************)
EXTENDS Integers, Sequences, FiniteSets

CONSTANTS
  FileContents,  \* the bytes framework::getFileContents returns, a sequence
  DATASIZE,      \* bytes of the file per data packet
  SACK_BITS,     \* width of the acknowledgement's mask
  HeaderMod      \* number of values of a two-byte header field

ASSUME PacketAssumption ==
  /\ FileContents \in Seq(Nat)
  /\ DATASIZE \in Nat \ {0}
  /\ SACK_BITS \in Nat \ {0}
  /\ HeaderMod \in Nat \ {0}

MinOf(a, b) == IF a < b THEN a ELSE b
MaxOf(a, b) == IF a < b THEN b ELSE a

-----------------------------------------------------------------------------
(* Cutting the file into chunks.                                           *)

FileSize == Len(FileContents)

\* Rounded up, and one (empty) packet for an empty file.
TotalPkts ==
  LET wanted == (FileSize + DATASIZE - 1) \div DATASIZE
  IN  IF wanted = 0 THEN 1 ELSE wanted

PktSeqs == 0 .. TotalPkts - 1

\* Number of bytes of the file in front of chunk i; the file's size once i
\* has reached the end.
OffsetOf(i) == MinOf(i * DATASIZE, FileSize)

Chunk(i) == SubSeq(FileContents, OffsetOf(i) + 1, OffsetOf(i + 1))

-----------------------------------------------------------------------------
(* Headers.                                                                *)

Hdr(n) == n % HeaderMod

\* The number of packets fits the header field.  The six test files need at
\* most 1158 packets, the field holds 65535.
HeaderFits == TotalPkts < HeaderMod

DataPacket(i) ==
  [seq |-> Hdr(i), total |-> Hdr(TotalPkts), payload |-> Chunk(i)]

\* Mask of the packets at and above base that the receiver holds.  (Mutant:
\* bit i stands for packet base + i + 1.)
SackBitsShifted(base, got, total) ==
  {i \in 0 .. SACK_BITS - 1 : base + i + 1 < total /\ base + i + 1 \in got}
SackBits(base, got, total) ==
  {i \in 0 .. SACK_BITS - 1 : base + i < total /\ base + i \in got}

\* (Mutant: acknowledges one packet more than the receiver has in order.)
AckPacketAhead(base, got, total) ==
  [base |-> Hdr(base + 1), sack |-> SackBits(base, got, total)]
AckPacket(base, got, total) ==
  [base |-> Hdr(base), sack |-> SackBits(base, got, total)]

DataPackets == {DataPacket(i) : i \in PktSeqs}
AckPackets  == [base : 0 .. HeaderMod - 1, sack : SUBSET (0 .. SACK_BITS - 1)]

\* The packets an acknowledgement's mask names.
SackedBy(a) == {a.base + i : i \in a.sack}
=============================================================================
