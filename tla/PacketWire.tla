----------------------------- MODULE PacketWire -----------------------------
(***************************************************************************)
(* One message of a client.  Either a packet, from buildDataPacket() or    *)
(* buildAckPacket() to the tests that accept or reject it at the other     *)
(* end: its bytes, the base64 text of the TRANSMIT and PACKET messages,    *)
(* and damage done by the relay.  Or the checksum of a file, which is what *)
(* stands between damage those tests cannot see and a wrong file.          *)
(* A packet is a sequence of int32_t; index 1 here is index 0 in the code. *)
(***************************************************************************)
EXTENDS Base64, Crc32, FiniteSets

CONSTANTS
  Fields,      \* values of the 32-bit numbers put into the two header fields
  Payloads,    \* payloads of data packets, sequences of signed bytes
  Files,       \* challenge and file as one sequence of bytes
  Damages,     \* values a damaged byte may take
  MaxDamaged   \* bound on the bytes the relay damages

ASSUME WireAssumption ==
  /\ Fields \subseteq Int /\ Payloads \subseteq Seq(Int)
  /\ Files \subseteq Seq(Bytes) /\ Damages \subseteq Bytes

VARIABLES
  at,       \* "builder", "outputBuffer", "socket", "inputBuffer", "judged"
  built,    \* what the packet was built from
  packet,   \* the packet as given to sendPacket()
  text,     \* its text on the socket
  damaged,  \* positions the relay has damaged
  got,      \* the packet as receivePacket() returns it
  verdict   \* what the other end makes of it

vars == <<at, built, packet, text, damaged, got, verdict>>

TYPE_DATA == 0
TYPE_ACK  == 1
CHECKSUM  == 4   \* the message is no packet
HEADER    == 6   \* DATA_HEADER and ACK_HEADER

-----------------------------------------------------------------------------
(* The formats.                                                            *)

FieldValues == 65536   \* of two bytes

HighByte(n) == (n \div 256) % 256

\* A plausible bug: the last of the four bytes is left out.
XorOfThree(p) == XorByte(XorByte(p[2], p[3]), p[4])

XorOf(p) == XorByte(XorByte(XorByte(p[2], p[3]), p[4]), p[5])

Header(type, a, b) ==
  LET bare == <<type, HighByte(a), LowByte(a), HighByte(b), LowByte(b)>>
  IN  Append(bare, XorOf(bare))

BuildData(seq, total, payload) ==
  Header(TYPE_DATA, seq, total) \o LowBytes(payload)

BuildAck(base, mask) == Header(TYPE_ACK, base, mask)

\* A plausible bug: the bytes of a field are swapped.
FieldSwapped(p, k) == p[k + 1] * 256 + p[k]

\* The field in bytes k and k+1; parseSeq() and an ack's base have k = 2,
\* parseTotalPkts() and an ack's mask k = 4.
Field(p, k) == p[k] * 256 + p[k + 1]

\* The receiver's tests of a data packet and the sender's of an ack.
Passes(p, type) ==
  /\ Len(p) >= HEADER
  /\ p[1] = type
  /\ p[6] = XorOf(p)

\* The payload is what follows the header.
Parse(p) ==
  [type |-> p[1], a |-> Field(p, 2), b |-> Field(p, 4),
   payload |-> SubSeq(p, HEADER + 1, Len(p))]

-----------------------------------------------------------------------------

None == [type |-> 2]
Rejected == [type |-> 3]

Init ==
  /\ at = "builder" /\ built = None /\ verdict = None
  /\ packet = <<>> /\ text = <<>> /\ got = <<>> /\ damaged = {}

SendData(seq, total, payload) ==
  /\ at = "builder" /\ at' = "outputBuffer"
  /\ built' = [type |-> TYPE_DATA, a |-> seq, b |-> total,
               payload |-> payload]
  /\ packet' = BuildData(seq, total, payload)
  /\ UNCHANGED <<text, damaged, got, verdict>>

SendAck(base, mask) ==
  /\ at = "builder" /\ at' = "outputBuffer"
  /\ built' = [type |-> TYPE_ACK, a |-> base, b |-> mask, payload |-> <<>>]
  /\ packet' = BuildAck(base, mask)
  /\ UNCHANGED <<text, damaged, got, verdict>>

\* sendChecksum(): the server has the number at once.
SendChecksum(file) ==
  /\ at = "builder" /\ at' = "judged"
  /\ built' = [type |-> CHECKSUM, file |-> file]
  /\ verdict' = [type |-> CHECKSUM, crc |-> Crc(file)]
  /\ UNCHANGED <<packet, text, damaged, got>>

\* The event loop writes TRANSMIT.
Transmit ==
  /\ at = "outputBuffer" /\ at' = "socket"
  /\ text' = Encode(packet)
  /\ UNCHANGED <<built, packet, damaged, got, verdict>>

\* The relay changes one byte of the packet.
Damage(k, value) ==
  /\ at = "socket"
  /\ k \notin damaged /\ Cardinality(damaged) < MaxDamaged
  /\ Decode(text)[k] # value
  /\ text' = Encode([Decode(text) EXCEPT ![k] = value])
  /\ damaged' = damaged \cup {k}
  /\ UNCHANGED <<at, built, packet, got, verdict>>

\* The other client's event loop reads PACKET.
HandlePacket ==
  /\ at = "socket" /\ at' = "inputBuffer"
  /\ got' = LowBytes(Decode(text))
  /\ UNCHANGED <<built, packet, text, damaged, verdict>>

\* receiver() or sender() looks at it.
Judge ==
  /\ at = "inputBuffer" /\ at' = "judged"
  /\ verdict' = IF Passes(got, built.type) THEN Parse(got) ELSE Rejected
  /\ UNCHANGED <<built, packet, text, damaged, got>>

Judged == at = "judged" /\ UNCHANGED vars

Next ==
  \/ \E seq, total \in Fields, payload \in Payloads :
       SendData(seq, total, payload)
  \/ \E base, mask \in Fields : SendAck(base, mask)
  \/ \E file \in Files : SendChecksum(file)
  \/ Transmit
  \/ \E k \in 1 .. Len(Decode(text)), value \in Damages : Damage(k, value)
  \/ HandlePacket \/ Judge
  \/ Judged

Spec == Init /\ [][Next]_vars

-----------------------------------------------------------------------------
(* Properties.                                                             *)

\* What an undamaged packet says at the other end: numbers modulo 2^16, file
\* bytes as they were, signs lost.  The encoders take `& 0xFF` three times on
\* the way; none of them may take away a bit of the value.
DeliveredAsBuilt ==
  at = "judged" /\ damaged = {} /\ built.type # CHECKSUM =>
    verdict = [type |-> built.type, a |-> built.a % FieldValues,
               b |-> built.b % FieldValues,
               payload |-> LowBytes(built.payload)]

\* One damaged byte of the header never gets through, be it a byte of a
\* field, the XOR of them or the type.
HeaderDamageRejected ==
  at = "judged" /\ Cardinality(damaged) = 1 /\ damaged \subseteq 1 .. HEADER
    => verdict = Rejected

\* A damaged byte of the payload passes the header test and goes into the
\* file.  The checksum of the file then differs from the sender's, so the
\* server does not take the transfer for correct.  So it is for damage to any
\* of four payload bytes in a row, as many as the checksum has.
DamageIsCaught ==
  LET Near ==
        \/ Cardinality(damaged) = 1
        \/ \E m \in HEADER .. Len(packet) - 4 : damaged \subseteq m + 1 .. m + 4
  IN  at = "judged" /\ Near /\ damaged # {} /\ verdict # Rejected =>
        Crc(verdict.payload) # Crc(LowBytes(built.payload))

\* The checksum is the standard's CRC-32 of the bytes, so it equals what the
\* server computes of the same challenge and file.
CrcIsStandard ==
  built.type = CHECKSUM => verdict.crc = StandardCrc(built.file)
=============================================================================
