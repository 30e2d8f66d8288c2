------------------------- MODULE RdtTransferProofs --------------------------
(***************************************************************************)
(* Proofs about RdtTransfer, for every file, chunk size, window and mask   *)
(* width.                                                                  *)
(***************************************************************************)
EXTENDS RdtInvariant, SequenceTheorems, FiniteSetTheorems, TLAPS

-----------------------------------------------------------------------------
(* Arithmetic of the file's cut into chunks.                               *)

\* A file has at least one packet, and the packets cover the file.
LEMMA TotalPktsCovers ==
  /\ TotalPkts \in Nat \ {0}
  /\ TotalPkts * DATASIZE >= FileSize
<1>1. FileSize \in Nat /\ DATASIZE \in Nat \ {0}
  BY PacketAssumption DEF FileSize
<1>2. \A n, d \in Nat : d # 0 =>
         /\ (n + d - 1) \div d \in Nat
         /\ ((n + d - 1) \div d) * d >= n
  OBVIOUS
<1> QED BY <1>1, <1>2 DEF TotalPkts

\* Chunks lie one after the other, from the file's first byte to its last.
LEMMA OffsetsAreOrdered ==
  /\ OffsetOf(0) = 0
  /\ OffsetOf(TotalPkts) = FileSize
  /\ \A i \in Nat : /\ OffsetOf(i) \in 0 .. FileSize
                    /\ OffsetOf(i) <= OffsetOf(i + 1)
<1>1. FileSize \in Nat /\ DATASIZE \in Nat \ {0}
  BY PacketAssumption DEF FileSize
<1>2. \A i, d \in Nat : i * d \in Nat /\ (i + 1) * d = i * d + d
  OBVIOUS
<1>3. OffsetOf(0) = 0
  BY <1>1 DEF OffsetOf, MinOf
<1>4. OffsetOf(TotalPkts) = FileSize
  BY <1>1, TotalPktsCovers DEF OffsetOf, MinOf
<1>5. ASSUME NEW i \in Nat
      PROVE OffsetOf(i) \in 0 .. FileSize /\ OffsetOf(i) <= OffsetOf(i + 1)
  BY <1>1, <1>2 DEF OffsetOf, MinOf
<1> QED BY <1>3, <1>4, <1>5

LEMMA ChunkType == \A i \in Nat : Chunk(i) \in Seq(Nat)
<1> SUFFICES ASSUME NEW i \in Nat PROVE Chunk(i) \in Seq(Nat)
  OBVIOUS
<1>1. OffsetOf(i) \in 0 .. FileSize /\ OffsetOf(i + 1) \in 0 .. FileSize
  BY OffsetsAreOrdered
<1> QED BY <1>1, PacketAssumption DEF Chunk, FileSize

\* Appending the next chunk to a prefix of the file gives the prefix that
\* ends with that chunk.
LEMMA ChunkExtendsPrefix ==
  \A i \in Nat : SubSeq(FileContents, 1, OffsetOf(i)) \o Chunk(i)
                   = SubSeq(FileContents, 1, OffsetOf(i + 1))
<1> SUFFICES ASSUME NEW i \in Nat
             PROVE  SubSeq(FileContents, 1, OffsetOf(i)) \o Chunk(i)
                      = SubSeq(FileContents, 1, OffsetOf(i + 1))
  OBVIOUS
<1>1. /\ OffsetOf(i) \in 0 .. FileSize
      /\ OffsetOf(i + 1) \in 0 .. FileSize
      /\ OffsetOf(i) <= OffsetOf(i + 1)
  BY OffsetsAreOrdered
<1>2. \A j \in 0 .. FileSize, k \in 0 .. FileSize : j <= k
         => SubSeq(FileContents, 1, j) \o SubSeq(FileContents, j + 1, k)
              = SubSeq(FileContents, 1, k)
  BY ConcatAdjacentSubSeq, PacketAssumption DEF FileSize
<1> QED BY <1>1, <1>2 DEF Chunk

\* A number that fits a header field is not changed by it.
LEMMA HdrFits == \A n \in Nat : /\ Hdr(n) \in 0 .. HeaderMod - 1
                                /\ n < HeaderMod => Hdr(n) = n
BY PacketAssumption DEF Hdr

-----------------------------------------------------------------------------
(* Type correctness.                                                       *)

LEMMA TotalsAreNat ==
  /\ TotalPkts \in Nat \ {0}
  /\ Hdr(TotalPkts) \in Nat
  /\ HeaderMod \in Nat \ {0}
  /\ WINDOW \in Nat \ {0}
  /\ SACK_BITS \in Nat \ {0}
BY TotalPktsCovers, HdrFits, PacketAssumption, WindowAssumption

LEMMA DataPacketType ==
  \A i \in PktSeqs : /\ DataPacket(i) \in DataPackets
                     /\ DataPacket(i).seq = Hdr(i)
                     /\ DataPacket(i).seq \in Nat
                     /\ DataPacket(i).total = Hdr(TotalPkts)
                     /\ DataPacket(i).payload = Chunk(i)
                     /\ DataPacket(i).payload \in Seq(Nat)
<1> SUFFICES ASSUME NEW i \in PktSeqs
             PROVE  /\ DataPacket(i) \in DataPackets
                    /\ DataPacket(i).seq = Hdr(i)
                    /\ DataPacket(i).seq \in Nat
                    /\ DataPacket(i).total = Hdr(TotalPkts)
                    /\ DataPacket(i).payload = Chunk(i)
                    /\ DataPacket(i).payload \in Seq(Nat)
  OBVIOUS
<1>1. i \in Nat
  BY TotalsAreNat DEF PktSeqs
<1>2. DataPacket(i) = [seq |-> Hdr(i), total |-> Hdr(TotalPkts),
                       payload |-> Chunk(i)]
  BY DEF DataPacket
<1>3. Hdr(i) \in Nat /\ Chunk(i) \in Seq(Nat)
  BY <1>1, HdrFits, ChunkType, PacketAssumption
<1>4. DataPacket(i) \in DataPackets
  BY DEF DataPackets
<1> QED BY <1>2, <1>3, <1>4

LEMMA AckPacketType ==
  \A n \in Nat : \A got, total : AckPacket(n, got, total) \in AckPackets
BY HdrFits DEF AckPacket, AckPackets, SackBits

\* How many packets are in flight, and how far the next pass sends.
LEMMA FillToBounds ==
  ASSUME TypeOK
  PROVE  /\ IsFiniteSet(InFlight)
         /\ Cardinality(InFlight) \in Nat
         /\ FillTo \in nextSeq .. TotalPkts
         /\ FillTo <= nextSeq + MaxOf(0, WINDOW - Cardinality(InFlight))
<1>1. /\ sendBase \in Nat /\ nextSeq \in Nat /\ nextSeq <= TotalPkts
      /\ TotalPkts \in Nat /\ WINDOW \in Nat
  BY TotalsAreNat DEF TypeOK
<1>2. IsFiniteSet(sendBase .. nextSeq - 1)
  BY <1>1, FS_Interval
<1>3. IsFiniteSet(InFlight) /\ Cardinality(InFlight) \in Nat
  BY <1>2, FS_Subset, FS_CardinalityType DEF InFlight
<1> QED BY <1>1, <1>3 DEF FillTo, MinOf, MaxOf

LEMMA TypeInit == Init => TypeOK
<1>1. <<>> \in [0 .. 0 - 1 -> Seq(Nat)]
  <2>1. <<>> \in [1 .. 0 -> Seq(Nat)]
    OBVIOUS
  <2>2. 1 .. 0 = 0 .. 0 - 1
    OBVIOUS
  <2> QED BY <2>1, <2>2
<1>2. ASSUME Init PROVE TypeOK
  <2>1. recvBuffer \in [0 .. expectedTotal - 1 -> Seq(Nat)]
    BY <1>1, <1>2 DEF Init
  <2>2. fileContents \in Seq(Nat)
    BY <1>2 DEF Init
  <2>3. /\ sendBase \in 0 .. TotalPkts /\ nextSeq \in 0 .. TotalPkts
        /\ recvExpected \in 0 .. expectedTotal
        /\ assembled \in 0 .. expectedTotal
    BY <1>2, TotalsAreNat DEF Init
  <2> QED BY <1>2, <2>1, <2>2, <2>3 DEF Init, TypeOK
<1> QED BY <1>2

LEMMA TypeStep == TypeOK /\ [Next]_vars => TypeOK'
<1> SUFFICES ASSUME TypeOK, [Next]_vars PROVE TypeOK'
  OBVIOUS
<1> USE TotalsAreNat
<1>1. CASE SenderTop
  BY <1>1 DEF SenderTop, TypeOK, receiverVars, netVars
<1>2. ASSUME NEW a \in ackNet, SenderAck(a) PROVE TypeOK'
  <2>1. a \in AckPackets /\ a.base \in Nat /\ a.base <= TotalPkts
    BY <1>2 DEF SenderAck, TypeOK, AckPackets, Plausible
  <2>2. sendBase' \in 0 .. TotalPkts
    BY <1>2, <2>1 DEF SenderAck, TypeOK, BaseAfter, MaxOf
  <2>3. acked' \in SUBSET PktSeqs
    <3>1. \A s \in SackedBy(a) : s \in Nat
      BY <2>1 DEF SackedBy, AckPackets
    <3>2. sendBase \in Nat /\ acked \subseteq 0 .. TotalPkts - 1
      BY DEF TypeOK, PktSeqs
    <3>3. AckedAfter(a) \subseteq 0 .. TotalPkts - 1
      <4>1. sendBase .. a.base - 1 \subseteq 0 .. TotalPkts - 1
        BY <2>1, <3>2
      <4>2. {s \in SackedBy(a) : s < nextSeq /\ s < TotalPkts}
              \subseteq 0 .. TotalPkts - 1
        BY <3>1
      <4> QED BY <3>2, <4>1, <4>2 DEF AckedAfter
    <3> QED BY <1>2, <3>3 DEF SenderAck, PktSeqs
  <2> QED BY <1>2, <2>2, <2>3 DEF SenderAck, TypeOK, receiverVars
<1>3. CASE SenderFinish
  BY <1>3 DEF SenderFinish, TypeOK, receiverVars, netVars
<1>4. ASSUME NEW expired \in SUBSET InFlight, SenderTransmit(expired)
      PROVE  TypeOK'
  <2>1. Burst(expired) \subseteq DataPackets
    <3>1. expired \subseteq PktSeqs
      BY <1>4, FillToBounds DEF TypeOK, InFlight, PktSeqs
    <3>2. nextSeq .. FillTo - 1 \subseteq PktSeqs
      <4>1. /\ nextSeq \in Nat /\ TotalPkts \in Nat
            /\ FillTo \in nextSeq .. TotalPkts
        BY FillToBounds, TotalsAreNat DEF TypeOK
      <4> QED BY <4>1 DEF PktSeqs
    <3> QED BY <3>1, <3>2 DEF Burst, DataPackets
  <2>2. nextSeq' \in 0 .. TotalPkts
    BY <1>4, FillToBounds DEF SenderTransmit, TypeOK
  <2> QED BY <1>4, <2>1, <2>2 DEF SenderTransmit, TypeOK, receiverVars
<1>5. CASE SetStop
  BY <1>5 DEF SetStop, TypeOK, senderVars, receiverVars, netVars
<1>6. ASSUME NEW p \in dataNet, ReceiveData(p) PROVE TypeOK'
  <2> DEFINE total == IF expectedTotal = 0 THEN p.total ELSE expectedTotal
             got   == ReceivedAfter(p, total)
  <2>1. PICK i \in PktSeqs : p = DataPacket(i)
    BY DEF TypeOK, DataPackets
  <2>2. /\ p.seq \in Nat /\ p.total = Hdr(TotalPkts)
        /\ p.payload \in Seq(Nat)
    BY <2>1, DataPacketType
  <2>3. /\ total = Hdr(TotalPkts) /\ expectedTotal' = total
        /\ total \in Nat /\ expectedTotal \in Nat
    BY <1>6, <2>2 DEF ReceiveData, TypeOK
  <2>4. Resized(total) \in [0 .. total - 1 -> Seq(Nat)]
    BY <2>3 DEF Resized, TypeOK
  <2>5. BufferAfter(p, total) \in [0 .. total - 1 -> Seq(Nat)]
    BY <2>2, <2>3, <2>4 DEF BufferAfter
  <2>6. got \in SUBSET (0 .. total - 1)
    <3>1. received \subseteq 0 .. total - 1
      BY <2>3 DEF TypeOK
    <3>2. p.seq < total => p.seq \in 0 .. total - 1
      BY <2>2, <2>3
    <3> HIDE DEF total
    <3> QED BY <3>1, <3>2 DEF ReceivedAfter
  <2>7. PICK n \in recvExpected .. total :
          /\ recvExpected' = n
          /\ lastAck' = {AckPacket(n, got, total)}
          /\ rPc' = IF n >= total THEN "assemble" ELSE "loop"
    BY <1>6 DEF ReceiveData
  <2>8. recvExpected \in Nat /\ n \in 0 .. total
    BY <2>3, <2>7 DEF TypeOK
  <2>9. lastAck' \in SUBSET AckPackets
    BY <2>7, <2>8, <2>3, AckPacketType
  <2>10. assembled' \in 0 .. expectedTotal'
    BY <1>6, <2>3 DEF ReceiveData, TypeOK
  <2>11. /\ recvBuffer' = BufferAfter(p, total) /\ received' = got
         /\ ackNet' = ackNet \cup lastAck' /\ dataNet' \subseteq dataNet
         /\ UNCHANGED <<senderVars, stop, fileContents>>
    BY <1>6 DEF ReceiveData
  <2> HIDE DEF total, got
  <2>12. ackNet' \in SUBSET AckPackets /\ dataNet' \in SUBSET DataPackets
    BY <2>9, <2>11 DEF TypeOK
  <2>13. /\ expectedTotal' \in {0, Hdr(TotalPkts)}
         /\ recvExpected' \in 0 .. expectedTotal'
         /\ recvBuffer' \in [0 .. expectedTotal' - 1 -> Seq(Nat)]
         /\ received' \in SUBSET (0 .. expectedTotal' - 1)
         /\ rPc' \in {"loop", "assemble", "done"}
    BY <2>3, <2>5, <2>6, <2>7, <2>8, <2>11
  <2> QED BY <2>9, <2>10, <2>11, <2>12, <2>13 DEF TypeOK, senderVars
<1>7. CASE KeepAlive
  BY <1>7 DEF KeepAlive, TypeOK, senderVars, receiverVars
<1>8. CASE Assemble
  <2>1. /\ recvBuffer[assembled] \in Seq(Nat)
        /\ assembled + 1 \in 0 .. expectedTotal
    BY <1>8 DEF Assemble, TypeOK
  <2> QED BY <1>8, <2>1 DEF Assemble, TypeOK, senderVars, netVars
<1>9. CASE ReceiverReturn
  BY <1>9 DEF ReceiverReturn, TypeOK, senderVars, netVars
<1>10. CASE Lose
  BY <1>10 DEF Lose, TypeOK, senderVars, receiverVars
<1>11. CASE UNCHANGED vars
  BY <1>11 DEF vars, senderVars, receiverVars, netVars, TypeOK
<1> QED BY <1>1, <1>2, <1>3, <1>4, <1>5, <1>6, <1>7, <1>8, <1>9, <1>10, <1>11
        DEF Next, Sender, Receiver, ReceiverIdle, Returned

\* Every variable of sender() and receiver() keeps its type: no index runs
\* out of acked, sentTime, packetBuffer, recvBuffer or received.
THEOREM TypeCorrect == Spec => []TypeOK
BY TypeInit, TypeStep, PTL DEF Spec

-----------------------------------------------------------------------------
(* What packets and acknowledgements say, when the header can say it.      *)

LEMMA HeadersAreFaithful ==
  ASSUME HeaderFits
  PROVE  /\ \A i \in 0 .. TotalPkts : Hdr(i) = i
         /\ \A i \in PktSeqs : /\ DataPacket(i).seq = i
                               /\ DataPacket(i).total = TotalPkts
                               /\ DataPacket(i).payload = Chunk(i)
<1>1. \A i \in 0 .. TotalPkts : Hdr(i) = i
  BY TotalsAreNat, HdrFits DEF HeaderFits
<1>2. \A i \in PktSeqs : i \in 0 .. TotalPkts
  BY TotalsAreNat DEF PktSeqs
<1> QED BY <1>1, <1>2, DataPacketType, TotalsAreNat

\* A mask names packets from the base of its acknowledgement upwards, no
\* more than SACK_BITS of them.
LEMMA MaskRange ==
  \A a \in AckPackets :
    /\ a.base \in Nat
    /\ \A s \in SackedBy(a) : /\ s \in Nat
                              /\ a.base <= s /\ s < a.base + SACK_BITS
BY TotalsAreNat DEF AckPackets, SackedBy

\* The acknowledgement the receiver builds when it misses packet n names
\* only packets it holds, and not n.
LEMMA AckMeaning ==
  ASSUME HeaderFits, NEW n \in 0 .. TotalPkts, NEW got
  PROVE  LET a == AckPacket(n, got, TotalPkts)
         IN  /\ a \in AckPackets
             /\ a.base = n
             /\ SackedBy(a) \subseteq got
             /\ n >= TotalPkts \/ n \notin got => n \notin SackedBy(a)
<1> DEFINE a == AckPacket(n, got, TotalPkts)
<1>1. a = [base |-> n, sack |-> SackBits(n, got, TotalPkts)]
  BY HeadersAreFaithful DEF AckPacket
<1>2. a \in AckPackets
  BY AckPacketType, TotalsAreNat
<1>3. SackedBy(a) = {n + i : i \in SackBits(n, got, TotalPkts)}
  BY <1>1 DEF SackedBy
<1>4. \A i \in SackBits(n, got, TotalPkts) :
         /\ i \in Nat /\ n + i < TotalPkts /\ n + i \in got
  BY DEF SackBits
<1>5. n >= TotalPkts \/ n \notin got => n \notin SackedBy(a)
  <2> SUFFICES ASSUME n >= TotalPkts \/ n \notin got, n \in SackedBy(a)
               PROVE  FALSE
    OBVIOUS
  <2>1. PICK i \in SackBits(n, got, TotalPkts) : n = n + i
    BY <1>3
  <2>2. n \in Nat /\ n + i < TotalPkts /\ n + i \in got
    BY <1>4
  <2> QED BY <2>1, <2>2, TotalsAreNat
<1>6. SackedBy(a) \subseteq got
  BY <1>3, <1>4
<1> QED BY <1>1, <1>2, <1>5, <1>6

-----------------------------------------------------------------------------
(* The invariant: initially.                                               *)

LEMMA InitIInv == Init => IInv
<1> SUFFICES ASSUME Init PROVE IInv
  OBVIOUS
<1> USE TotalsAreNat
<1>1. TypeOK
  BY TypeInit
<1>2. Acks = {} /\ InFlight = {}
  BY DEF Init, Acks, InFlight
<1>3. SentBounds
  BY DEF Init, SentBounds
<1>4. FirstGapKept
  BY <1>2 DEF Init, FirstGapKept
<1>5. AcksAreSound /\ BasesAreGaps
  BY <1>2 DEF Init, AcksAreSound, BasesAreGaps
<1>6. WindowKept
  BY <1>2, FS_EmptySet DEF Init, WindowKept
<1>7. CopyIsFaithful
  <2>1. <<>> = SubSeq(FileContents, 1, 0)
    BY PacketAssumption
  <2> QED BY <2>1, OffsetsAreOrdered DEF Init, CopyIsFaithful
<1> QED BY <1>1, <1>3, <1>4, <1>5, <1>6, <1>7 DEF Init, IInv, EndIsJustified

-----------------------------------------------------------------------------
(* The invariant: an acknowledgement is read.                              *)

LEMMA SenderAckKeepsIInv ==
  ASSUME IInv, TypeOK', NEW a \in ackNet, SenderAck(a)
  PROVE  IInv'
<1> USE TotalsAreNat
<1>1. /\ UNCHANGED <<nextSeq, stop, dataNet, rPc, expectedTotal,
                     recvExpected, recvBuffer, received, lastAck,
                     fileContents, assembled>>
      /\ sendBase' = BaseAfter(a) /\ acked' = AckedAfter(a)
      /\ ackNet' \subseteq ackNet
      /\ a.base <= nextSeq /\ a.base <= TotalPkts
      /\ sPc' = "drain"
  BY DEF SenderAck, receiverVars, Plausible
<1>2. /\ sendBase \in Nat /\ nextSeq \in Nat /\ recvExpected \in Nat
      /\ expectedTotal \in Nat
      /\ received \subseteq Nat /\ acked \subseteq PktSeqs /\ acked \subseteq Nat
      /\ Acks \subseteq AckPackets
  BY DEF IInv, TypeOK, Acks, PktSeqs
<1>3. a \in Acks /\ Acks' \subseteq Acks
  BY <1>1 DEF Acks
<1>4. /\ a.base \in Nat
      /\ \A s \in SackedBy(a) : s \in Nat /\ a.base <= s /\ s < a.base + SACK_BITS
  BY <1>2, <1>3, MaskRange
<1>5. /\ sendBase' \in Nat /\ sendBase' >= sendBase /\ sendBase' >= a.base
      /\ sendBase' = sendBase \/ sendBase' = a.base
  BY <1>1, <1>2, <1>4 DEF BaseAfter, MaxOf
<1>6. \A i \in acked' : \/ i \in acked
                        \/ i \in sendBase .. a.base - 1
                        \/ i \in SackedBy(a)
  BY <1>1 DEF AckedAfter
<1>7. acked \subseteq acked' /\ sendBase .. a.base - 1 \subseteq acked'
  BY <1>1 DEF AckedAfter
<1>8. a.base <= recvExpected /\ SackedBy(a) \subseteq received
  BY <1>3 DEF IInv, AcksAreSound
<1>9. SentBounds'
  <2>1. sendBase' <= nextSeq'
    BY <1>1, <1>5 DEF IInv, SentBounds
  <2>2. \A i \in 0 .. sendBase' - 1 : i \in acked'
    <3>1. \A i \in 0 .. sendBase - 1 : i \in acked
      BY DEF IInv, SentBounds
    <3>2. \A i \in 0 .. sendBase' - 1 :
             i \in 0 .. sendBase - 1 \/ i \in sendBase .. a.base - 1
      BY <1>1, <1>2, <1>4, <1>5
    <3> QED BY <1>7, <3>1, <3>2
  <2>3. acked' \subseteq received'
    <3>1. \A i \in sendBase .. a.base - 1 : i \in received
      BY <1>2, <1>4, <1>8 DEF IInv, FirstGapKept
    <3> QED BY <1>1, <1>6, <1>8, <3>1 DEF IInv, SentBounds
  <2> QED BY <1>1, <2>1, <2>2, <2>3 DEF IInv, SentBounds
<1>10. FirstGapKept'
  BY <1>1, <1>3 DEF IInv, FirstGapKept
<1>11. AcksAreSound'
  BY <1>1, <1>3 DEF IInv, AcksAreSound, SackedBy
<1>12. BasesAreGaps'
  <2>1. sendBase' <= recvExpected'
    BY <1>1, <1>5, <1>8 DEF IInv, BasesAreGaps
  <2>2. a.base \in acked => a.base < sendBase
    BY <1>3 DEF IInv, BasesAreGaps
  <2>3. \A b, c \in Acks : b.base \notin SackedBy(c)
    BY DEF IInv, BasesAreGaps
  <2>4. sendBase' \notin acked'
    <3>1. CASE sendBase' = sendBase
      <4>1. sendBase \notin acked /\ sendBase \notin SackedBy(a)
        BY <1>3 DEF IInv, BasesAreGaps
      <4>2. sendBase \notin sendBase .. a.base - 1
        BY <1>2, <1>4, <1>5, <3>1
      <4> QED BY <1>6, <3>1, <4>1, <4>2
    <3>2. CASE sendBase' = a.base /\ sendBase' # sendBase
      <4>1. a.base \notin acked /\ a.base \notin sendBase .. a.base - 1
        BY <1>2, <1>4, <1>5, <2>2, <3>2
      <4> QED BY <1>3, <1>6, <2>3, <3>2, <4>1
    <3> QED BY <1>5, <3>1, <3>2
  <2>5. \A b \in Acks' : sendBase' \notin SackedBy(b)
    BY <1>3, <1>5, <2>3 DEF IInv, BasesAreGaps
  <2>6. \A b \in Acks' : b.base \in acked' => b.base < sendBase'
    <3> SUFFICES ASSUME NEW b \in Acks', b.base \in acked'
                 PROVE  b.base < sendBase'
      OBVIOUS
    <3>1. b \in Acks /\ b.base \in Nat
      BY <1>2, <1>3, MaskRange
    <3>2. CASE b.base \in acked
      BY <1>2, <1>5, <3>1, <3>2 DEF IInv, BasesAreGaps
    <3>3. CASE b.base \in sendBase .. a.base - 1
      BY <1>2, <1>4, <1>5, <3>1, <3>3
    <3> QED BY <1>3, <1>6, <2>3, <3>1, <3>2, <3>3
  <2>7. \A b, c \in Acks' : b.base \notin SackedBy(c)
    BY <1>3, <2>3
  <2> QED BY <2>1, <2>4, <2>5, <2>6, <2>7 DEF BasesAreGaps, SackedBy
<1>13. WindowKept'
  <2>1. InFlight' \subseteq InFlight
    <3>1. \A i \in sendBase' .. nextSeq - 1 : i \in sendBase .. nextSeq - 1
      BY <1>2, <1>5
    <3> QED BY <1>1, <1>7, <3>1 DEF InFlight
  <2>2. Cardinality(InFlight') <= WINDOW
    <3>1. /\ IsFiniteSet(InFlight) /\ Cardinality(InFlight) \in Nat
          /\ Cardinality(InFlight) <= WINDOW
      BY FillToBounds DEF IInv, WindowKept
    <3> QED BY <2>1, <3>1, FS_Subset, FS_CardinalityType
  <2>3. \A i \in acked' : i < sendBase' + SACK_BITS
    <3> SUFFICES ASSUME NEW i \in acked' PROVE i < sendBase' + SACK_BITS
      OBVIOUS
    <3>1. CASE i \in acked
      <4>1. i \in Nat /\ i < sendBase + SACK_BITS
        BY <1>2, <3>1 DEF IInv, WindowKept
      <4> QED BY <1>1, <1>2, <1>5, <4>1
    <3>2. CASE i \in sendBase .. a.base - 1
      BY <1>1, <1>2, <1>4, <1>5, <3>2
    <3>3. CASE i \in SackedBy(a)
      BY <1>1, <1>2, <1>4, <1>5, <3>3
    <3> QED BY <1>6, <3>1, <3>2, <3>3
  <2> QED BY <2>2, <2>3 DEF WindowKept
<1>14. CopyIsFaithful'
  BY <1>1 DEF IInv, CopyIsFaithful
<1>15. EndIsJustified'
  BY <1>1 DEF EndIsJustified
<1> QED BY <1>9, <1>10, <1>11, <1>12, <1>13, <1>14, <1>15 DEF IInv

-----------------------------------------------------------------------------
(* The invariant: packets are sent.                                        *)

LEMMA TransmitKeepsIInv ==
  ASSUME IInv, TypeOK', NEW expired \in SUBSET InFlight,
         SenderTransmit(expired)
  PROVE  IInv'
<1> USE TotalsAreNat
<1>1. /\ UNCHANGED <<sendBase, acked, stop, ackNet, rPc, expectedTotal,
                     recvExpected, recvBuffer, received, lastAck,
                     fileContents, assembled>>
      /\ dataNet' = dataNet \cup Burst(expired)
      /\ nextSeq' = FillTo
      /\ sPc' = "top"
  BY DEF SenderTransmit, receiverVars
<1>2. /\ sendBase \in Nat /\ nextSeq \in Nat /\ received \subseteq Nat
      /\ expectedTotal \in Nat
  BY DEF IInv, TypeOK
<1>3. /\ nextSeq' \in Nat /\ nextSeq' >= nextSeq
      /\ IsFiniteSet(InFlight) /\ Cardinality(InFlight) \in Nat
      /\ Cardinality(InFlight) <= WINDOW
      /\ nextSeq' <= nextSeq + MaxOf(0, WINDOW - Cardinality(InFlight))
  BY <1>1, <1>2, FillToBounds DEF IInv, WindowKept
<1>4. Acks' = Acks
  BY <1>1 DEF Acks
<1>5. SentBounds'
  <2>1. \A p \in Burst(expired) : \E i \in 0 .. nextSeq' - 1 : p = DataPacket(i)
    <3> SUFFICES ASSUME NEW p \in Burst(expired)
                 PROVE  \E i \in 0 .. nextSeq' - 1 : p = DataPacket(i)
      OBVIOUS
    <3>1. PICK i \in expired \cup (nextSeq .. FillTo - 1) : p = DataPacket(i)
      BY DEF Burst
    <3>2. i \in expired => i \in sendBase .. nextSeq - 1
      BY DEF InFlight
    <3>3. i \in 0 .. nextSeq' - 1
      BY <1>1, <1>2, <1>3, <3>2
    <3> QED BY <3>1, <3>3
  <2>2. \A p \in dataNet : \E i \in 0 .. nextSeq' - 1 : p = DataPacket(i)
    <3>1. \A i \in 0 .. nextSeq - 1 : i \in 0 .. nextSeq' - 1
      BY <1>1, <1>2, <1>3
    <3> QED BY <3>1 DEF IInv, SentBounds
  <2> QED BY <1>1, <1>2, <1>3, <2>1, <2>2 DEF IInv, SentBounds, DataPacket
<1>6. FirstGapKept' /\ AcksAreSound' /\ BasesAreGaps'
  BY <1>1, <1>4 DEF IInv, FirstGapKept, AcksAreSound, BasesAreGaps, SackedBy
<1>7. WindowKept'
  <2> DEFINE new == nextSeq .. nextSeq' - 1
  <2>1. InFlight' \subseteq InFlight \cup new
    BY <1>1, <1>2, <1>3 DEF InFlight
  <2>2. IsFiniteSet(new) /\ Cardinality(new) = nextSeq' - nextSeq
    <3>1. nextSeq \in Int /\ nextSeq' - 1 \in Int
      BY <1>2, <1>3
    <3>2. /\ IsFiniteSet(new)
          /\ Cardinality(new) = IF nextSeq > nextSeq' - 1 THEN 0
                               ELSE (nextSeq' - 1) - nextSeq + 1
      BY <3>1, FS_Interval
    <3> QED BY <1>1, <1>2, <1>3, <3>2
  <2>3. /\ IsFiniteSet(InFlight \cup new)
        /\ Cardinality(InFlight \cup new)
             <= Cardinality(InFlight) + Cardinality(new)
    <3>1. /\ IsFiniteSet(InFlight \cup new) /\ IsFiniteSet(InFlight \cap new)
          /\ Cardinality(InFlight \cup new)
               = Cardinality(InFlight) + Cardinality(new)
                 - Cardinality(InFlight \cap new)
      BY <1>3, <2>2, FS_Union, FS_Intersection
    <3>2. Cardinality(InFlight \cap new) \in Nat
      BY <3>1, FS_CardinalityType
    <3> QED BY <1>2, <1>3, <2>2, <3>1, <3>2
  <2>4. /\ Cardinality(InFlight') <= Cardinality(InFlight \cup new)
        /\ Cardinality(InFlight') \in Nat
        /\ Cardinality(InFlight \cup new) \in Nat
    BY <2>1, <2>3, FS_Subset, FS_CardinalityType
  <2>5. Cardinality(InFlight) + (nextSeq' - nextSeq) <= WINDOW
    BY <1>2, <1>3 DEF MaxOf
  <2> HIDE DEF new
  <2>6. Cardinality(InFlight') <= WINDOW
    BY <1>2, <1>3, <2>2, <2>3, <2>4, <2>5
  <2> QED BY <1>1, <2>6 DEF IInv, WindowKept
<1>8. CopyIsFaithful' /\ EndIsJustified'
  BY <1>1 DEF IInv, CopyIsFaithful, EndIsJustified
<1> QED BY <1>5, <1>6, <1>7, <1>8 DEF IInv

-----------------------------------------------------------------------------
(* The invariant: a data packet arrives.                                   *)

LEMMA ReceiveDataKeepsIInv ==
  ASSUME HeaderFits, IInv, TypeOK', NEW p \in dataNet, ReceiveData(p)
  PROVE  IInv'
<1> USE TotalsAreNat
<1> DEFINE got == ReceivedAfter(p, TotalPkts)
<1>1. PICK i \in PktSeqs : i \in 0 .. nextSeq - 1 /\ p = DataPacket(i)
  <2>1. PICK i \in 0 .. nextSeq - 1 : p = DataPacket(i)
    BY DEF IInv, SentBounds
  <2>2. i \in PktSeqs
    BY DEF IInv, TypeOK, PktSeqs
  <2> QED BY <2>1, <2>2
<1>2. i \in Nat /\ i < TotalPkts /\ i < nextSeq
  BY <1>1 DEF PktSeqs, IInv, TypeOK
<1>3. p.seq = i /\ p.total = TotalPkts /\ p.payload = Chunk(i)
  BY <1>1, HeadersAreFaithful
<1>4. expectedTotal \in {0, TotalPkts}
  BY HeadersAreFaithful DEF IInv, TypeOK
<1>5. (IF expectedTotal = 0 THEN p.total ELSE expectedTotal) = TotalPkts
  BY <1>3, <1>4
<1>6. PICK n \in recvExpected .. TotalPkts :
        /\ FirstGap(n, got, TotalPkts)
        /\ recvExpected' = n
        /\ lastAck' = {AckPacket(n, got, TotalPkts)}
        /\ rPc' = IF n >= TotalPkts THEN "assemble" ELSE "loop"
  BY <1>5 DEF ReceiveData
<1>7. /\ UNCHANGED <<sPc, sendBase, nextSeq, acked, stop, fileContents, assembled>>
      /\ rPc = "loop"
      /\ expectedTotal' = TotalPkts
      /\ recvBuffer' = BufferAfter(p, TotalPkts)
      /\ received' = got
      /\ ackNet' = ackNet \cup lastAck'
      /\ dataNet' \subseteq dataNet
  BY <1>5 DEF ReceiveData, senderVars
<1>8. got = received \cup {i}
  BY <1>2, <1>3 DEF ReceivedAfter
<1>9. /\ recvExpected \in Nat /\ sendBase \in Nat /\ n \in Nat
      /\ n \in 0 .. TotalPkts /\ recvExpected <= n
      /\ acked \subseteq PktSeqs /\ received \subseteq 0 .. TotalPkts - 1
      /\ Acks \subseteq AckPackets
  BY <1>4 DEF IInv, TypeOK, Acks
<1>10. got \subseteq 0 .. TotalPkts - 1
  BY <1>2, <1>8, <1>9
<1> DEFINE c == AckPacket(n, got, TotalPkts)
<1>11. /\ n >= TotalPkts \/ n \notin got
       /\ \A k \in recvExpected .. n - 1 : k \in got
  BY <1>6 DEF FirstGap
<1>12. n \notin got
  BY <1>9, <1>10, <1>11
<1>13. /\ c \in AckPackets /\ c.base = n
       /\ SackedBy(c) \subseteq got /\ n \notin SackedBy(c)
       /\ \A s \in SackedBy(c) : s \in Nat /\ n <= s
  BY <1>9, <1>11, AckMeaning, MaskRange
<1>14. \A b \in Acks' : b \in Acks \/ b = c
  BY <1>6, <1>7 DEF Acks
<1> HIDE DEF got, c
<1>15. SentBounds'
  <2>1. \A k \in got : k < nextSeq
    BY <1>2, <1>8 DEF IInv, SentBounds
  <2> QED BY <1>7, <1>8, <2>1 DEF IInv, SentBounds, DataPacket
<1>16. FirstGapKept'
  <2>1. \A k \in 0 .. recvExpected - 1 : k \in got
    BY <1>8 DEF IInv, FirstGapKept
  <2>2. \A k \in 0 .. n - 1 : k \in got
    BY <1>9, <1>11, <2>1
  <2> QED BY <1>6, <1>7, <1>9, <1>12, <2>2 DEF FirstGapKept
<1>17. AcksAreSound'
  <2> SUFFICES ASSUME NEW b \in Acks'
               PROVE  b.base <= n /\ SackedBy(b) \subseteq got
    BY <1>6, <1>7 DEF AcksAreSound, SackedBy
  <2>1. CASE b \in Acks
    <3>1. b.base \in Nat
      BY <1>9, <2>1, MaskRange
    <3> QED BY <1>8, <1>9, <2>1, <3>1 DEF IInv, AcksAreSound
  <2>2. CASE b = c
    BY <1>9, <1>13, <2>2
  <2> QED BY <1>14, <2>1, <2>2
<1>18. BasesAreGaps'
  <2>1. sendBase <= n
    BY <1>9 DEF IInv, BasesAreGaps
  <2>2. ASSUME NEW b \in Acks' PROVE sendBase \notin SackedBy(b)
    <3>1. CASE b \in Acks
      BY <3>1 DEF IInv, BasesAreGaps
    <3>2. CASE b = c
      BY <1>9, <1>13, <2>1, <3>2
    <3> QED BY <1>14, <3>1, <3>2
  <2>3. n \notin acked
    BY <1>8, <1>12 DEF IInv, SentBounds
  <2>4. ASSUME NEW b \in Acks', b.base \in acked PROVE b.base < sendBase
    BY <1>13, <1>14, <2>3, <2>4 DEF IInv, BasesAreGaps
  <2>5. ASSUME NEW a \in Acks', NEW b \in Acks' PROVE a.base \notin SackedBy(b)
    <3>1. CASE a \in Acks /\ b \in Acks
      BY <3>1 DEF IInv, BasesAreGaps
    <3>2. CASE a = c /\ b \in Acks
      BY <1>8, <1>12, <1>13, <3>2 DEF IInv, AcksAreSound
    <3>3. CASE a \in Acks /\ b = c
      <4>1. a.base \in Nat /\ a.base <= recvExpected
        BY <1>9, <3>3, MaskRange DEF IInv, AcksAreSound
      <4>2. a.base <= n
        BY <1>9, <4>1
      <4> QED BY <1>9, <1>13, <3>3, <4>1, <4>2
    <3>4. CASE a = c /\ b = c
      BY <1>13, <3>4
    <3> QED BY <1>14, <3>1, <3>2, <3>3, <3>4
  <2>6. sendBase \notin acked
    BY DEF IInv, BasesAreGaps
  <2> QED BY <1>6, <1>7, <2>1, <2>2, <2>4, <2>5, <2>6 DEF BasesAreGaps, SackedBy
<1>19. WindowKept'
  BY <1>7 DEF IInv, WindowKept, InFlight
<1>20. CopyIsFaithful'
  <2>1. \A k \in got : recvBuffer'[k] = Chunk(k)
    <3>1. Resized(TotalPkts) \in [0 .. TotalPkts - 1 -> Seq(Nat)]
      BY <1>4 DEF Resized, IInv, TypeOK
    <3>2. \A k \in received : Resized(TotalPkts)[k] = Chunk(k)
      BY DEF Resized, IInv, CopyIsFaithful, FirstGapKept
    <3>3. CASE i \in received
      <4>1. recvBuffer' = Resized(TotalPkts)
        BY <1>3, <1>7, <3>3 DEF BufferAfter
      <4> QED BY <1>8, <3>2, <3>3, <4>1
    <3>4. CASE i \notin received
      <4>1. recvBuffer' = [Resized(TotalPkts) EXCEPT ![i] = Chunk(i)]
        BY <1>2, <1>3, <1>7, <3>4 DEF BufferAfter
      <4> QED BY <1>8, <1>10, <3>1, <3>2, <4>1
    <3> QED BY <3>3, <3>4
  <2>2. rPc' # "done"
    BY <1>6
  <2> QED BY <1>7, <2>1, <2>2 DEF IInv, CopyIsFaithful
<1>21. EndIsJustified'
  BY <1>7 DEF IInv, EndIsJustified
<1> QED BY <1>15, <1>16, <1>17, <1>18, <1>19, <1>20, <1>21 DEF IInv

-----------------------------------------------------------------------------
(* The invariant: the other steps, and the theorem.                        *)

LEMMA IInvStep == ASSUME HeaderFits, IInv, [Next]_vars PROVE IInv'
<1> USE TotalsAreNat
<1>1. TypeOK'
  BY TypeStep DEF IInv
<1>2. CASE SenderTop
  <2>1. /\ UNCHANGED <<sendBase, nextSeq, acked, stop, receiverVars, netVars>>
        /\ sPc' = "done" => stop \/ sendBase >= TotalPkts
    BY <1>2 DEF SenderTop, LoopCondition, AllAcked
  <2>2. EndIsJustified'
    BY <2>1 DEF EndIsJustified, IInv, TypeOK
  <2> QED BY <1>1, <2>1, <2>2
          DEF IInv, SentBounds, FirstGapKept, AcksAreSound, BasesAreGaps,
              WindowKept, CopyIsFaithful, Acks, SackedBy, InFlight,
              DataPacket, receiverVars, netVars
<1>3. ASSUME NEW a \in ackNet, SenderAck(a) PROVE IInv'
  BY <1>1, <1>3, SenderAckKeepsIInv
<1>4. CASE SenderFinish
  <2>1. /\ UNCHANGED <<sendBase, nextSeq, acked, stop, receiverVars, netVars>>
        /\ sendBase >= TotalPkts
    BY <1>4 DEF SenderFinish, AllAcked
  <2>2. EndIsJustified'
    BY <2>1 DEF EndIsJustified, IInv, TypeOK
  <2> QED BY <1>1, <2>1, <2>2
          DEF IInv, SentBounds, FirstGapKept, AcksAreSound, BasesAreGaps,
              WindowKept, CopyIsFaithful, Acks, SackedBy, InFlight,
              DataPacket, receiverVars, netVars
<1>5. ASSUME NEW expired \in SUBSET InFlight, SenderTransmit(expired)
      PROVE  IInv'
  BY <1>1, <1>5, TransmitKeepsIInv
<1>6. CASE SetStop
  BY <1>1, <1>6
     DEF SetStop, IInv, SentBounds, FirstGapKept, AcksAreSound, BasesAreGaps,
         WindowKept, CopyIsFaithful, EndIsJustified, Acks, SackedBy, InFlight,
         DataPacket, senderVars, receiverVars, netVars
<1>7. ASSUME NEW p \in dataNet, ReceiveData(p) PROVE IInv'
  BY <1>1, <1>7, ReceiveDataKeepsIInv
<1>8. CASE KeepAlive
  <2>1. Acks' = Acks
    BY <1>8 DEF KeepAlive, Acks, receiverVars
  <2> QED BY <1>1, <1>8, <2>1
          DEF KeepAlive, IInv, SentBounds, FirstGapKept, AcksAreSound,
              BasesAreGaps, WindowKept, CopyIsFaithful, EndIsJustified,
              SackedBy, InFlight, DataPacket, senderVars, receiverVars
<1>9. CASE Assemble
  <2>1. /\ UNCHANGED <<senderVars, stop, rPc, expectedTotal, recvExpected,
                       recvBuffer, received, lastAck, netVars>>
        /\ rPc = "assemble" /\ assembled < expectedTotal
        /\ fileContents' = fileContents \o recvBuffer[assembled]
        /\ assembled' = assembled + 1
    BY <1>9 DEF Assemble
  <2>2. assembled \in Nat /\ assembled \in received
    BY <2>1 DEF IInv, TypeOK, FirstGapKept
  <2>3. fileContents' = SubSeq(FileContents, 1, OffsetOf(assembled'))
    BY <2>1, <2>2, ChunkExtendsPrefix DEF IInv, CopyIsFaithful
  <2>4. CopyIsFaithful'
    BY <2>1, <2>3 DEF IInv, CopyIsFaithful
  <2> QED BY <1>1, <2>1, <2>4
          DEF IInv, SentBounds, FirstGapKept, AcksAreSound, BasesAreGaps,
              WindowKept, EndIsJustified, Acks, SackedBy, InFlight,
              DataPacket, senderVars, netVars
<1>10. CASE ReceiverReturn
  <2>1. /\ UNCHANGED <<senderVars, stop, expectedTotal, recvExpected,
                       recvBuffer, received, lastAck, fileContents,
                       assembled, netVars>>
        /\ rPc = "assemble" /\ assembled >= expectedTotal /\ rPc' = "done"
    BY <1>10 DEF ReceiverReturn
  <2>2. CopyIsFaithful'
    BY <2>1 DEF IInv, CopyIsFaithful, TypeOK
  <2> QED BY <1>1, <2>1, <2>2
          DEF IInv, SentBounds, FirstGapKept, AcksAreSound, BasesAreGaps,
              WindowKept, EndIsJustified, Acks, SackedBy, InFlight,
              DataPacket, senderVars, netVars
<1>11. CASE Lose
  <2>1. /\ UNCHANGED <<senderVars, stop, receiverVars>>
        /\ dataNet' \subseteq dataNet /\ Acks' \subseteq Acks
    BY <1>11 DEF Lose, Acks, receiverVars
  <2> QED BY <1>1, <2>1
          DEF IInv, SentBounds, FirstGapKept, AcksAreSound, BasesAreGaps,
              WindowKept, CopyIsFaithful, EndIsJustified, SackedBy, InFlight,
              DataPacket, senderVars, receiverVars
<1>12. CASE UNCHANGED vars
  BY <1>1, <1>12
     DEF vars, IInv, SentBounds, FirstGapKept, AcksAreSound, BasesAreGaps,
         WindowKept, CopyIsFaithful, EndIsJustified, Acks, SackedBy, InFlight,
         DataPacket, senderVars, receiverVars, netVars
<1> QED BY <1>2, <1>3, <1>4, <1>5, <1>6, <1>7, <1>8, <1>9, <1>10, <1>11, <1>12
        DEF Next, Sender, Receiver, ReceiverIdle, Returned

\* The inductive invariant holds in every reachable state when the packet
\* count fits the header field.
THEOREM InvariantHolds == HeaderFits => (Spec => []IInv)
<1> SUFFICES ASSUME HeaderFits PROVE Spec => []IInv
  OBVIOUS
<1>1. Init => IInv
  BY InitIInv
<1>2. IInv /\ [Next]_vars => IInv'
  BY IInvStep
<1> QED BY <1>1, <1>2, PTL DEF Spec

-----------------------------------------------------------------------------
(* What the invariant means for the program.                               *)

\* sender() never takes a packet for delivered that receiver() does not
\* hold, whatever old acknowledgements arrive and in whatever order.
THEOREM AckedIsReceivedAlways == HeaderFits => (Spec => []AckedIsReceived)
<1> SUFFICES ASSUME HeaderFits PROVE Spec => []AckedIsReceived
  OBVIOUS
<1>1. IInv => AckedIsReceived
  BY DEF IInv, SentBounds, AckedIsReceived
<1> QED BY <1>1, InvariantHolds, PTL

\* The packet at sendBase is never marked by a mask, so sender() can always
\* send it again.
THEOREM BaseIsUnackedAlways == HeaderFits => (Spec => []BaseIsUnacked)
<1> SUFFICES ASSUME HeaderFits PROVE Spec => []BaseIsUnacked
  OBVIOUS
<1>1. IInv => BaseIsUnacked
  BY DEF IInv, BasesAreGaps, BaseIsUnacked
<1> QED BY <1>1, InvariantHolds, PTL

\* sender() has at most WINDOW packets unacknowledged, and runs at most
\* WINDOW + SACK_BITS - 1 packets ahead of sendBase.
THEOREM WindowSpanAlways == HeaderFits => (Spec => []WindowSpan)
<1> SUFFICES ASSUME HeaderFits PROVE Spec => []WindowSpan
  OBVIOUS
<1>1. IInv => WindowSpan
  <2> SUFFICES ASSUME IInv PROVE WindowSpan
    OBVIOUS
  <2> USE TotalsAreNat
  <2> DEFINE span   == sendBase .. nextSeq - 1
             masked == sendBase + 1 .. sendBase + SACK_BITS - 1
  <2>1. /\ sendBase \in Nat /\ nextSeq \in Nat /\ sendBase <= nextSeq
        /\ IsFiniteSet(InFlight) /\ Cardinality(InFlight) \in Nat
        /\ Cardinality(InFlight) <= WINDOW
    BY FillToBounds DEF IInv, TypeOK, SentBounds, WindowKept
  <2>2. span \subseteq InFlight \cup masked
    <3> SUFFICES ASSUME NEW i \in span, i \notin InFlight PROVE i \in masked
      OBVIOUS
    <3>1. i \in Nat /\ sendBase <= i /\ i \in acked
      BY <2>1 DEF InFlight
    <3>2. i < sendBase + SACK_BITS /\ i # sendBase
      BY <3>1 DEF IInv, WindowKept, BasesAreGaps
    <3> QED BY <2>1, <3>1, <3>2
  <2>3. IsFiniteSet(span) /\ Cardinality(span) = nextSeq - sendBase
    <3>1. sendBase \in Int /\ nextSeq - 1 \in Int
      BY <2>1
    <3>2. /\ IsFiniteSet(span)
          /\ Cardinality(span) = IF sendBase > nextSeq - 1 THEN 0
                                ELSE (nextSeq - 1) - sendBase + 1
      BY <3>1, FS_Interval
    <3> QED BY <2>1, <3>2
  <2>4. IsFiniteSet(masked) /\ Cardinality(masked) = SACK_BITS - 1
    <3>1. sendBase + 1 \in Int /\ sendBase + SACK_BITS - 1 \in Int
      BY <2>1
    <3>2. /\ IsFiniteSet(masked)
          /\ Cardinality(masked)
               = IF sendBase + 1 > sendBase + SACK_BITS - 1 THEN 0
                 ELSE (sendBase + SACK_BITS - 1) - (sendBase + 1) + 1
      BY <3>1, FS_Interval
    <3> QED BY <2>1, <3>2
  <2> HIDE DEF span, masked
  <2>5. /\ IsFiniteSet(InFlight \cup masked)
        /\ IsFiniteSet(InFlight \cap masked)
        /\ Cardinality(InFlight \cup masked)
             = Cardinality(InFlight) + Cardinality(masked)
               - Cardinality(InFlight \cap masked)
    BY <2>1, <2>4, FS_Union, FS_Intersection
  <2>6. /\ Cardinality(InFlight \cap masked) \in Nat
        /\ Cardinality(InFlight \cup masked) \in Nat
        /\ Cardinality(span) <= Cardinality(InFlight \cup masked)
    BY <2>2, <2>5, FS_Subset, FS_CardinalityType
  <2> QED BY <2>1, <2>3, <2>4, <2>5, <2>6 DEF WindowSpan
<1> QED BY <1>1, InvariantHolds, PTL

\* No acknowledgement of receiver() is ever refused by sender()'s test of
\* its base.
THEOREM AcksArePlausibleAlways == HeaderFits => (Spec => []AcksArePlausible)
<1> SUFFICES ASSUME HeaderFits PROVE Spec => []AcksArePlausible
  OBVIOUS
<1>1. IInv => AcksArePlausible
  <2> SUFFICES ASSUME IInv, NEW a \in ackNet PROVE Plausible(a)
    BY DEF AcksArePlausible
  <2>1. /\ recvExpected \in Nat /\ nextSeq \in Nat
        /\ recvExpected <= TotalPkts
    BY HeadersAreFaithful, TotalsAreNat DEF IInv, TypeOK
  <2>2. recvExpected <= nextSeq
    <3>1. recvExpected = 0 \/ recvExpected - 1 \in received
      BY <2>1 DEF IInv, FirstGapKept
    <3> QED BY <2>1, <3>1 DEF IInv, SentBounds
  <2>3. a \in AckPackets /\ a.base \in Nat
    BY MaskRange DEF IInv, TypeOK
  <2>4. a.base <= recvExpected
    BY DEF IInv, AcksAreSound, Acks
  <2> QED BY <2>1, <2>2, <2>3, <2>4, TotalsAreNat DEF Plausible
<1> QED BY <1>1, InvariantHolds, PTL

\* receiver() returns the bytes of sender()'s file, all of them and in
\* order.
THEOREM FileIntactAlways == HeaderFits => (Spec => []FileIntact)
<1> SUFFICES ASSUME HeaderFits PROVE Spec => []FileIntact
  OBVIOUS
<1>1. IInv => FileIntact
  <2> SUFFICES ASSUME IInv, rPc = "done" PROVE fileContents = FileContents
    BY DEF FileIntact
  <2>1. assembled = TotalPkts
    BY DEF IInv, CopyIsFaithful, FirstGapKept
  <2>2. fileContents = SubSeq(FileContents, 1, Len(FileContents))
    BY <2>1, OffsetsAreOrdered DEF IInv, CopyIsFaithful, FileSize
  <2> QED BY <2>2, SubSeqFull, PacketAssumption
<1> QED BY <1>1, InvariantHolds, PTL

\* When sender() returns without having been told to stop, receiver() holds
\* every packet and has left its loop.
THEOREM FinishedIsDeliveredAlways ==
  HeaderFits => (Spec => []FinishedIsDelivered)
<1> SUFFICES ASSUME HeaderFits PROVE Spec => []FinishedIsDelivered
  OBVIOUS
<1>1. IInv => FinishedIsDelivered
  <2> SUFFICES ASSUME IInv, sPc = "done", ~ stop
               PROVE  received = PktSeqs /\ rPc # "loop"
    BY DEF FinishedIsDelivered
  <2> USE TotalsAreNat
  <2>1. sendBase = TotalPkts
    BY DEF IInv, EndIsJustified
  <2>2. PktSeqs \subseteq received
    BY <2>1 DEF IInv, SentBounds, PktSeqs
  <2>3. /\ expectedTotal \in {0, TotalPkts} /\ recvExpected \in Nat
        /\ received \subseteq 0 .. expectedTotal - 1
    BY HeadersAreFaithful DEF IInv, TypeOK
  <2>4. 0 \in received
    BY <2>2 DEF PktSeqs
  <2>5. expectedTotal = TotalPkts
    BY <2>3, <2>4
  <2>6. received = PktSeqs
    BY <2>2, <2>3, <2>5 DEF PktSeqs
  <2>7. recvExpected >= TotalPkts
    BY <2>1, <2>3 DEF IInv, BasesAreGaps
  <2>8. rPc # "loop"
    BY <2>3, <2>5, <2>7 DEF IInv, FirstGapKept
  <2> QED BY <2>6, <2>8
<1> QED BY <1>1, InvariantHolds, PTL

-----------------------------------------------------------------------------
(* A file too long for the header.                                         *)

\* The base sender() holds never exceeds what a header field can say.
BaseFitsHeader == TypeOK /\ sendBase < HeaderMod /\ EndIsJustified

\* A file whose packet count does not fit the header field is never taken
\* for delivered: no acknowledgement can name a packet so far ahead.
THEOREM OversizedNeverDelivered == Spec => []OversizedNotDelivered
<1> USE TotalsAreNat
<1>1. Init => BaseFitsHeader
  BY TypeInit DEF Init, BaseFitsHeader, EndIsJustified
<1>2. BaseFitsHeader /\ [Next]_vars => BaseFitsHeader'
  <2> SUFFICES ASSUME BaseFitsHeader, [Next]_vars PROVE BaseFitsHeader'
    OBVIOUS
  <2>1. TypeOK'
    BY TypeStep DEF BaseFitsHeader
  <2>2. CASE SenderTop
    <3>1. UNCHANGED <<sendBase, stop>> /\ sendBase \in 0 .. TotalPkts
      BY <2>2 DEF SenderTop, BaseFitsHeader, TypeOK
    <3>2. sPc' = "done" => stop \/ sendBase = TotalPkts
      BY <2>2, <3>1 DEF SenderTop, LoopCondition, AllAcked
    <3> QED BY <2>1, <3>1, <3>2 DEF BaseFitsHeader, EndIsJustified
  <2>3. ASSUME NEW a \in ackNet, SenderAck(a) PROVE BaseFitsHeader'
    <3>1. a.base \in 0 .. HeaderMod - 1
      BY DEF BaseFitsHeader, TypeOK, AckPackets
    <3>2. sendBase \in Nat
      BY DEF BaseFitsHeader, TypeOK
    <3> QED BY <2>1, <2>3, <3>1, <3>2
            DEF SenderAck, BaseAfter, MaxOf, BaseFitsHeader, EndIsJustified
  <2>4. CASE SenderFinish
    <3>1. UNCHANGED <<sendBase, stop>> /\ sendBase \in 0 .. TotalPkts
      BY <2>4 DEF SenderFinish, BaseFitsHeader, TypeOK
    <3>2. sendBase = TotalPkts
      BY <2>4, <3>1 DEF SenderFinish, AllAcked
    <3> QED BY <2>1, <3>1, <3>2 DEF BaseFitsHeader, EndIsJustified
  <2>5. ASSUME NEW expired \in SUBSET InFlight, SenderTransmit(expired)
        PROVE  BaseFitsHeader'
    BY <2>1, <2>5 DEF SenderTransmit, BaseFitsHeader, EndIsJustified
  <2>6. CASE SetStop
    BY <2>1, <2>6 DEF SetStop, senderVars, BaseFitsHeader, EndIsJustified
  <2>7. CASE UNCHANGED <<senderVars, stop>>
    BY <2>1, <2>7 DEF senderVars, BaseFitsHeader, EndIsJustified
  <2> QED BY <2>2, <2>3, <2>4, <2>5, <2>6, <2>7
          DEF Next, Sender, Receiver, ReceiveData, KeepAlive, ReceiverIdle,
              Assemble, ReceiverReturn, Lose, Returned, vars
<1>3. BaseFitsHeader => OversizedNotDelivered
  BY DEF BaseFitsHeader, OversizedNotDelivered, EndIsJustified, HeaderFits,
         TypeOK
<1> QED BY <1>1, <1>2, <1>3, PTL DEF Spec

-----------------------------------------------------------------------------
(* sender() and receiver() implement ReliableFile.                         *)

\* Both modules cut the file the same way.
LEMMA SameChunks ==
  Promise!PktSeqs = PktSeqs /\ \A i : Promise!Chunk(i) = Chunk(i)
BY DEF Promise!PktSeqs, Promise!TotalPkts, Promise!FileSize, Promise!Chunk,
       Promise!OffsetOf, Promise!MinOf, PktSeqs, TotalPkts, FileSize, Chunk,
       OffsetOf, MinOf

LEMMA PromiseInit == Init => Promise!Init
BY DEF Init, Promise!Init, Outcome, Output

LEMMA PromiseStep ==
  ASSUME HeaderFits, IInv, IInv', [Next]_vars
  PROVE  [Promise!Next]_(Promise!rvars)
<1> USE TotalsAreNat
<1>1. CASE SenderTop \/ SenderFinish
  <2>1. /\ UNCHANGED <<sendBase, acked, received, rPc, recvBuffer>>
        /\ sPc \in {"top", "drain"} /\ sPc' \in {"drain", "done"}
    BY <1>1 DEF SenderTop, SenderFinish, receiverVars
  <2>2. Output' = Output /\ Outcome = "sending"
    BY <2>1 DEF Output, Outcome
  <2>3. CASE sPc' = "drain"
    BY <2>1, <2>2, <2>3 DEF Outcome, Promise!rvars
  <2>4. CASE sPc' = "done" /\ sendBase = TotalPkts
    <3>1. acked = PktSeqs
      BY <2>4 DEF IInv, SentBounds, TypeOK, PktSeqs
    <3>2. Outcome' = "delivered"
      BY <2>1, <2>4 DEF Outcome
    <3> QED BY <2>1, <2>2, <3>1, <3>2, SameChunks
            DEF Promise!Next, Promise!Deliver
  <2>5. CASE sPc' = "done" /\ sendBase # TotalPkts
    <3>1. Outcome' = "stopped"
      BY <2>1, <2>5 DEF Outcome
    <3> QED BY <2>1, <2>2, <3>1 DEF Promise!Next, Promise!GiveUp
  <2> QED BY <2>1, <2>3, <2>4, <2>5
<1>2. ASSUME NEW a \in ackNet, SenderAck(a)
      PROVE  [Promise!Next]_(Promise!rvars)
  <2>1. /\ UNCHANGED <<received, rPc, recvBuffer>>
        /\ sPc # "done" /\ sPc' = "drain"
        /\ acked' = acked \cup acked'
    BY <1>2 DEF SenderAck, InPass, receiverVars, AckedAfter
  <2>2. Output' = Output /\ Outcome = "sending" /\ Outcome' = "sending"
    BY <2>1 DEF Output, Outcome
  <2>3. acked' \in SUBSET received
    BY <2>1 DEF IInv, SentBounds
  <2>4. Promise!Learn(acked')
    BY <2>1, <2>2 DEF Promise!Learn
  <2> QED BY <2>3, <2>4 DEF Promise!Next
<1>3. ASSUME NEW p \in dataNet, ReceiveData(p)
      PROVE  [Promise!Next]_(Promise!rvars)
  <2>1. PICK i \in PktSeqs : p = DataPacket(i)
    BY DEF IInv, TypeOK, DataPackets
  <2>2. p.seq = i
    BY <2>1, HeadersAreFaithful
  <2>3. /\ UNCHANGED <<sPc, sendBase, acked>>
        /\ rPc = "loop" /\ rPc' # "done"
        /\ received' = received \/ received' = received \cup {i}
    BY <1>3, <2>2 DEF ReceiveData, senderVars, ReceivedAfter
  <2>4. Output' = Output /\ Outcome' = Outcome
    BY <2>3 DEF Output, Outcome
  <2>5. CASE received' = received
    BY <2>3, <2>4, <2>5 DEF Promise!rvars
  <2>6. CASE received' # received
    BY <2>1, <2>3, <2>4, <2>6, SameChunks DEF Promise!Next, Promise!Accept
  <2> QED BY <2>5, <2>6
<1>4. CASE ReceiverReturn
  <2>1. /\ UNCHANGED <<sPc, sendBase, acked, received, recvBuffer>>
        /\ rPc = "assemble" /\ rPc' = "done"
    BY <1>4 DEF ReceiverReturn, senderVars
  <2>2. expectedTotal = TotalPkts /\ recvExpected = TotalPkts
    BY <2>1 DEF IInv, FirstGapKept
  <2>3. received = PktSeqs
    BY <2>2 DEF IInv, FirstGapKept, TypeOK, PktSeqs
  <2>4. recvBuffer \in [PktSeqs -> Seq(Nat)]
    BY <2>2 DEF IInv, TypeOK, PktSeqs
  <2>5. recvBuffer = [i \in PktSeqs |-> Chunk(i)]
    BY <2>3, <2>4 DEF IInv, CopyIsFaithful
  <2>6. /\ Output = <<"none">> /\ Outcome' = Outcome
        /\ Output' = <<"file", [i \in PktSeqs |-> Chunk(i)]>>
    BY <2>1, <2>5 DEF Output, Outcome
  <2>7. Promise!Return
    BY <2>1, <2>3, <2>6, SameChunks DEF Promise!Return
  <2> QED BY <2>7 DEF Promise!Next
<1>5. ASSUME UNCHANGED <<sendBase, acked, received, recvBuffer, rPc>>,
             (sPc' # "done" /\ sPc # "done") \/ sPc' = sPc
      PROVE  UNCHANGED Promise!rvars
  <2>1. Output' = Output /\ Outcome' = Outcome
    BY <1>5 DEF Output, Outcome
  <2> QED BY <1>5, <2>1 DEF Promise!rvars
<1>6. ASSUME NEW expired \in SUBSET InFlight, SenderTransmit(expired)
      PROVE  UNCHANGED Promise!rvars
  BY <1>5, <1>6 DEF SenderTransmit, InPass, receiverVars
<1>7. CASE SetStop \/ KeepAlive \/ Assemble \/ Lose \/ UNCHANGED vars
  BY <1>5, <1>7 DEF SetStop, KeepAlive, Assemble, Lose, vars, senderVars,
                    receiverVars
<1> QED
  BY <1>1, <1>2, <1>3, <1>4, <1>6, <1>7
     DEF Next, Sender, Receiver, ReceiverIdle, Returned

\* Whatever the channels do, sender() and receiver() together are the
\* reliable transfer the program asked IRDTProtocol for.
THEOREM PromiseKept == HeaderFits => (Spec => KeepsPromise)
<1> SUFFICES ASSUME HeaderFits PROVE Spec => Promise!Spec
  BY DEF KeepsPromise
<1>1. Init => Promise!Init
  BY PromiseInit
<1>2. IInv /\ IInv' /\ [Next]_vars => [Promise!Next]_(Promise!rvars)
  BY PromiseStep
<1> QED BY <1>1, <1>2, InvariantHolds, PTL DEF Spec, Promise!Spec
=============================================================================
