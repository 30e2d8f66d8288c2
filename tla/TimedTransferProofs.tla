------------------------ MODULE TimedTransferProofs ------------------------
(***************************************************************************)
(* Proofs about TimedTransfer, for any file whose packet count fits the    *)
(* header and any window, mask, delays and timeouts: its steps are steps   *)
(* of RdtTransfer; a packet in flight is repeated in time; and if          *)
(* TIMEOUT_MS leaves room for the acknowledgements, only what is missing   *)
(* is repeated.                                                            *)
(***************************************************************************)
EXTENDS TimedTransfer, FiniteSetTheorems, TLAPS

-----------------------------------------------------------------------------
(* The invariant of the clocks.                                            *)

DataInAir == [pkt : DataPackets, age : 0 .. MaxDelay]
AcksInAir == [pkt : AckPackets, age : 0 .. MaxDelay]

ClocksOK ==
  /\ lag \in 0 .. MaxPause
  /\ sentAge \in [PktSeqs -> 0 .. Old]
  /\ quiet \in 0 .. Old
  /\ dataAir \in SUBSET DataInAir
  /\ ackAir \in SUBSET AcksInAir
  /\ inAcks \in SUBSET AckPackets
  /\ lost \in [data : Nat, acks : 0 .. MaxLostAcks]

\* How old a packet in flight gets between two passes and within one.
RepeatsSoon ==
  /\ sPc = "top" =>
       \A i \in InFlight : sentAge[i] <= TIMEOUT_MS + MaxPause + lag
  /\ sPc = "drain" =>
       \A i \in InFlight : sentAge[i] <= TIMEOUT_MS + 2 * MaxPause + lag
  /\ sPc = "done" => InFlight = {}

\* What the receiver knows is what its last acknowledgement says, and that
\* is repeated by the keepalive.
LastAckIsNewest ==
  rPc = "loop" =>
    /\ received # {} => lastAck # {}
    /\ lastAck # {} =>
         /\ lastAck = {AckPacket(recvExpected, received, expectedTotal)}
         /\ expectedTotal = TotalPkts
         /\ quiet <= ACK_KEEPALIVE_MS + MaxPause + 1

\* A packet under way was stamped a pass before it was sent, or sent again
\* since.
StampsAreFresh ==
  \A m \in dataAir : \A i \in InFlight :
    m.pkt = DataPacket(i) => sentAge[i] <= m.age + MaxPause

Names(a, i) == i < a.base \/ i \in SackedBy(a)

\* The age of a packet the receiver holds, once its acknowledgement has been
\* lost k times and just been sent again.
Round == MaxOf(ACK_KEEPALIVE_MS + MaxPause + 1, MaxDelay)
AgeWhenNamed(k) == MaxDelay + MaxPause + k * Round

LastInAir == \E l \in ackAir : l.pkt \in lastAck /\ l.age = quiet

\* The receiver's acknowledgement of i is in the sender's input buffer, or on
\* its way, or lost and the keepalive not due yet.
AckOnItsWay(i) ==
  \/ \E a \in inAcks : Names(a, i)
  \/ \E w \in ackAir :
       /\ Names(w.pkt, i)
       /\ sentAge[i] <= AgeWhenNamed(lost.acks) + w.age
       /\ \/ LastInAir
          \/ /\ lost.acks >= 1
             /\ sentAge[i] <= AgeWhenNamed(lost.acks - 1) + w.age
  \/ lost.acks >= 1 /\ sentAge[i] <= AgeWhenNamed(lost.acks - 1) + quiet

\* Above what the masks reach when i arrived; one that reaches it names it.
OutOfReach(i) ==
  /\ i >= sendBase + SACK_BITS
  /\ \A a \in PacketsOf(ackAir) \cup inAcks :
       i < a.base + SACK_BITS => Names(a, i)

ReceivedIsNamed ==
  rPc = "loop" =>
    \A i \in InFlight \cap received :
      \/ OutOfReach(i)
      \/ i < recvExpected + SACK_BITS /\ AckOnItsWay(i)

TimedInv ==
  /\ Untimed!IInv /\ ClocksOK /\ RepeatsSoon
  /\ LastAckIsNewest /\ StampsAreFresh /\ ReceivedIsNamed

\* TIMEOUT_MS is as long as a packet and its acknowledgement can take, with
\* MaxLostAcks rounds of the keepalive in between.
TimersSuffice ==
  TIMEOUT_MS >= 2 * MaxDelay + MaxPause + MaxLostAcks * Round

-----------------------------------------------------------------------------
(* The constants, and packets without their ages.                          *)

\* TimedTransfer and the instance of RdtTransfer cut the file the same way.
LEMMA SameConstants ==
  /\ Untimed!TotalPkts = TotalPkts /\ Untimed!PktSeqs = PktSeqs
  /\ \A n : /\ Untimed!Hdr(n) = Hdr(n) /\ Untimed!Chunk(n) = Chunk(n)
            /\ Untimed!DataPacket(n) = DataPacket(n)
  /\ \A n, got, total :
       Untimed!AckPacket(n, got, total) = AckPacket(n, got, total)
  /\ Untimed!DataPackets = DataPackets /\ Untimed!AckPackets = AckPackets
  /\ \A a : Untimed!SackedBy(a) = SackedBy(a)
  /\ Untimed!HeaderFits <=> HeaderFits
BY DEF Untimed!TotalPkts, TotalPkts, Untimed!PktSeqs, PktSeqs, Untimed!Hdr,
       Hdr, Untimed!Chunk, Chunk, Untimed!DataPacket, DataPacket,
       Untimed!AckPacket, AckPacket, Untimed!DataPackets, DataPackets,
       Untimed!AckPackets, AckPackets, Untimed!SackedBy, SackedBy,
       Untimed!HeaderFits, HeaderFits, Untimed!SackBits, SackBits,
       Untimed!OffsetOf, OffsetOf, Untimed!FileSize, FileSize,
       Untimed!MinOf, MinOf

LEMMA WindowFits == WINDOW \in Nat \ {0}
BY TimeAssumption

LEMMA Sizes ==
  /\ TotalPkts \in Nat \ {0}
  /\ WINDOW \in Nat \ {0} /\ SACK_BITS \in Nat \ {0}
  /\ TIMEOUT_MS \in Nat /\ ACK_KEEPALIVE_MS \in Nat
  /\ MaxPause \in Nat \ {0} /\ MaxDelay \in Nat /\ MaxLostAcks \in Nat
  /\ Old \in Nat /\ Old = TIMEOUT_MS + 3 * MaxPause + 1
BY SameConstants, PacketAssumption, WindowFits, TimeAssumption,
   Untimed!TotalsAreNat DEF Old

LEMMA PacketsOfMembers ==
  /\ \A air, m : m \in air => m.pkt \in PacketsOf(air)
  /\ \A air : \A p \in PacketsOf(air) : \E m \in air : m.pkt = p
BY DEF PacketsOf

LEMMA PacketsOfMore ==
  ASSUME NEW air, NEW acks
  PROVE  PacketsOf(air \cup {[pkt |-> a, age |-> 0] : a \in acks})
           = PacketsOf(air) \cup acks
<1> DEFINE new == {[pkt |-> a, age |-> 0] : a \in acks}
<1>1. \A m \in new : m.pkt \in acks
  OBVIOUS
<1>2. \A a \in acks : [pkt |-> a, age |-> 0] \in new
                     /\ [pkt |-> a, age |-> 0].pkt = a
  OBVIOUS
<1> HIDE DEF new
<1>3. \A p \in PacketsOf(air \cup new) : p \in PacketsOf(air) \cup acks
  BY <1>1, PacketsOfMembers
<1>4. \A p \in PacketsOf(air) \cup acks : p \in PacketsOf(air \cup new)
  <2>1. \A p \in acks : \E m \in air \cup new : m.pkt = p
    BY <1>2
  <2>2. \A p \in PacketsOf(air) : \E m \in air \cup new : m.pkt = p
    BY PacketsOfMembers
  <2> QED BY <2>1, <2>2, PacketsOfMembers
<1>5. PacketsOf(air \cup new) = PacketsOf(air) \cup acks
  BY <1>3, <1>4
<1> QED BY <1>5 DEF new

LEMMA PacketsOfLess ==
  ASSUME NEW air, NEW m \in air
  PROVE  /\ PacketsOf(air \ {m})
              \in {PacketsOf(air), PacketsOf(air) \ {m.pkt}}
         /\ PacketsOf(air) = PacketsOf(air \ {m}) \cup {m.pkt}
<1>1. \A p : p \in PacketsOf(air \ {m}) => p \in PacketsOf(air)
  BY DEF PacketsOf
<1>2. \A p : p \in PacketsOf(air) /\ p # m.pkt => p \in PacketsOf(air \ {m})
  BY DEF PacketsOf
<1>3. m.pkt \in PacketsOf(air)
  BY DEF PacketsOf
<1>4. CASE m.pkt \in PacketsOf(air \ {m})
  BY <1>1, <1>2, <1>3, <1>4
<1>5. CASE m.pkt \notin PacketsOf(air \ {m})
  BY <1>1, <1>2, <1>3, <1>5
<1> QED BY <1>4, <1>5

LEMMA PacketsOfAged ==
  ASSUME NEW P, NEW air \in SUBSET [pkt : P, age : Nat]
  PROVE  /\ PacketsOf(Aged(air)) = PacketsOf(air)
         /\ \A m \in Aged(air) : \E w \in air : /\ m.pkt = w.pkt
                                              /\ m.age = w.age + 1
         /\ \A w \in air : \E m \in Aged(air) : /\ m.pkt = w.pkt
                                              /\ m.age = w.age + 1
         /\ \A m \in Aged(air) : m \in [pkt : P, age : Nat]
<1>1. \A w \in air : /\ [w EXCEPT !.age = @ + 1].pkt = w.pkt
                     /\ [w EXCEPT !.age = @ + 1].age = w.age + 1
                     /\ [w EXCEPT !.age = @ + 1] \in [pkt : P, age : Nat]
  OBVIOUS
<1>2. /\ \A m \in Aged(air) : \E w \in air : m = [w EXCEPT !.age = @ + 1]
      /\ \A w \in air : [w EXCEPT !.age = @ + 1] \in Aged(air)
  BY DEF Aged
<1>3. /\ \A m \in Aged(air) : \E w \in air : /\ m.pkt = w.pkt
                                           /\ m.age = w.age + 1
      /\ \A w \in air : \E m \in Aged(air) : /\ m.pkt = w.pkt
                                           /\ m.age = w.age + 1
  BY <1>1, <1>2
<1>4. PacketsOf(Aged(air)) = PacketsOf(air)
  <2>1. \A p \in PacketsOf(Aged(air)) : p \in PacketsOf(air)
    BY <1>3, PacketsOfMembers
  <2>2. \A p \in PacketsOf(air) : p \in PacketsOf(Aged(air))
    BY <1>3, PacketsOfMembers
  <2> QED BY <2>1, <2>2
<1> QED BY <1>1, <1>2, <1>3, <1>4

-----------------------------------------------------------------------------
(* Every step is a step of RdtTransfer, or none.                           *)

UntimedStep == [Untimed!Next]_(Untimed!vars)

LEMMA TimedInit == Init => TimedInv /\ Untimed!Init
<1> SUFFICES ASSUME Init PROVE TimedInv /\ Untimed!Init
  OBVIOUS
<1> USE Sizes
<1>1. PacketsOf(dataAir) = {} /\ PacketsOf(ackAir) = {}
  BY DEF Init, PacketsOf
<1>2. [i \in 0 .. expectedTotal - 1 |->
         IF i \in received THEN Chunk(i) ELSE <<>>] = <<>>
  BY DEF Init
<1>3. Untimed!Init
  BY <1>1, <1>2 DEF Init, Untimed!Init
<1>4. Untimed!IInv
  BY <1>3, PacketAssumption, WindowFits, Untimed!InitIInv
<1>5. ClocksOK
  BY DEF Init, ClocksOK
<1>6. InFlight = {}
  BY DEF Init, InFlight, Untimed!InFlight
<1>7. RepeatsSoon /\ LastAckIsNewest
  BY <1>6 DEF Init, RepeatsSoon, LastAckIsNewest
<1>8. StampsAreFresh /\ ReceivedIsNamed
  BY <1>6 DEF Init, StampsAreFresh, ReceivedIsNamed
<1> QED BY <1>3, <1>4, <1>5, <1>7, <1>8 DEF TimedInv

\* What is under way is what the instance takes for it.
LEMMA SenderSteps ==
  ASSUME Untimed!IInv, ClocksOK,
         SenderTop \/ SenderFinish \/ SenderTransmit
           \/ \E a \in inAcks : SenderAck(a)
  PROVE  UntimedStep /\ ClocksOK'
<1> USE Sizes
<1>1. CASE SenderTop
  <2>1. Untimed!SenderTop
    BY <1>1 DEF SenderTop, receiverVars, Untimed!SenderTop,
                Untimed!receiverVars, Untimed!netVars
  <2>2. ClocksOK'
    BY <1>1 DEF SenderTop, ClocksOK
  <2> QED BY <2>1, <2>2 DEF UntimedStep, Untimed!Next, Untimed!Sender
<1>2. CASE SenderFinish
  <2>1. Untimed!SenderFinish
    BY <1>2 DEF SenderFinish, receiverVars, Untimed!SenderFinish,
                Untimed!receiverVars, Untimed!netVars
  <2>2. ClocksOK'
    BY <1>2 DEF SenderFinish, ClocksOK
  <2> QED BY <2>1, <2>2 DEF UntimedStep, Untimed!Next, Untimed!Sender
<1>3. ASSUME NEW a \in inAcks, SenderAck(a)
      PROVE  UntimedStep /\ ClocksOK'
  <2> DEFINE net == PacketsOf(ackAir) \cup inAcks
  <2>1. a \in net /\ net' \in {net, net \ {a}}
    BY <1>3 DEF SenderAck
  <2>2. Untimed!SenderAck(a)
    BY <1>3, <2>1 DEF SenderAck, receiverVars, Untimed!SenderAck,
                      Untimed!InPass, Untimed!receiverVars
  <2>3. ClocksOK'
    BY <1>3 DEF SenderAck, ClocksOK
  <2> QED BY <2>1, <2>2, <2>3 DEF UntimedStep, Untimed!Next, Untimed!Sender
<1>4. CASE SenderTransmit
  <2> DEFINE seqs == Resent \cup (nextSeq .. Untimed!FillTo - 1)
             new == {[pkt |-> DataPacket(i), age |-> 0] : i \in seqs}
  <2>1. /\ sendBase \in 0 .. TotalPkts /\ nextSeq \in 0 .. TotalPkts
        /\ Untimed!FillTo \in nextSeq .. TotalPkts
    <3>1. Untimed!TypeOK
      BY DEF Untimed!IInv
    <3>2. Untimed!FillTo \in nextSeq .. Untimed!TotalPkts
      BY <3>1, PacketAssumption, WindowFits, Untimed!FillToBounds
    <3>3. sendBase \in 0 .. TotalPkts /\ nextSeq \in 0 .. TotalPkts
      BY <3>1, SameConstants DEF Untimed!TypeOK
    <3> QED BY <3>2, <3>3, SameConstants
  <2>2. seqs \subseteq PktSeqs /\ Resent \in SUBSET Untimed!InFlight
    BY <2>1 DEF PktSeqs, Resent, InFlight, Untimed!InFlight
  <2>3. PacketsOf(dataAir') = PacketsOf(dataAir) \cup Untimed!Burst(Resent)
    <3>1. Untimed!Burst(Resent) = {DataPacket(i) : i \in seqs}
      BY SameConstants DEF Untimed!Burst
    <3>2. new = {[pkt |-> p, age |-> 0] : p \in {DataPacket(i) : i \in seqs}}
      OBVIOUS
    <3>3. dataAir' = dataAir \cup new
      BY <1>4 DEF SenderTransmit
    <3> HIDE DEF seqs, new
    <3> QED BY <3>1, <3>2, <3>3, PacketsOfMore
  <2>4. Untimed!SenderTransmit(Resent)
    BY <1>4, <2>2, <2>3 DEF SenderTransmit, receiverVars,
       Untimed!SenderTransmit, Untimed!InPass, Untimed!receiverVars
  <2>5. ClocksOK'
    <3>1. new \in SUBSET DataInAir
      BY <2>2 DEF DataInAir, DataPackets
    <3>2. sentAge' \in [PktSeqs -> 0 .. Old]
      BY <1>4 DEF SenderTransmit, ClocksOK
    <3>3. dataAir' \in SUBSET DataInAir
      BY <1>4, <3>1 DEF SenderTransmit, ClocksOK
    <3> QED BY <1>4, <3>2, <3>3 DEF SenderTransmit, ClocksOK
  <2> QED BY <2>2, <2>4, <2>5 DEF UntimedStep, Untimed!Next, Untimed!Sender
<1> QED BY <1>1, <1>2, <1>3, <1>4

\* What the receiver makes of a data packet.
LEMMA DataReceived ==
  ASSUME HeaderFits, Untimed!IInv, ClocksOK, NEW m \in dataAir, ReceiveData(m)
  PROVE  \E i \in PktSeqs, n \in recvExpected .. TotalPkts :
           /\ m.pkt = DataPacket(i) /\ m.pkt.seq = i
           /\ received' = received \cup {i}
           /\ expectedTotal \in {0, TotalPkts} /\ expectedTotal' = TotalPkts
           /\ received \subseteq PktSeqs /\ recvExpected \in 0 .. TotalPkts
           /\ Untimed!FirstGap(n, received', TotalPkts)
           /\ recvExpected' = n
           /\ lastAck' = {AckPacket(n, received', TotalPkts)}
           /\ AckPacket(n, received', TotalPkts) \in AckPackets
           /\ rPc = "loop"
           /\ rPc' = IF n >= TotalPkts THEN "assemble" ELSE "loop"
<1> USE Sizes
<1>1. m.pkt \in PacketsOf(dataAir)
  BY PacketsOfMembers
<1>2. PICK i \in PktSeqs : m.pkt = DataPacket(i)
  BY <1>1, SameConstants DEF Untimed!IInv, Untimed!TypeOK, DataPackets
<1>3. m.pkt.seq = i /\ m.pkt.total = TotalPkts /\ i \in 0 .. TotalPkts - 1
  BY <1>2, SameConstants, PacketAssumption, WindowFits,
     Untimed!HeadersAreFaithful DEF PktSeqs
<1>4. /\ expectedTotal \in {0, TotalPkts}
      /\ received \in SUBSET (0 .. expectedTotal - 1)
      /\ recvExpected \in 0 .. expectedTotal
  BY SameConstants, PacketAssumption, WindowFits, Untimed!HeadersAreFaithful
     DEF Untimed!IInv, Untimed!TypeOK
<1>5. received' = received \cup {i}
  BY <1>3 DEF ReceiveData, Untimed!ReceivedAfter
<1>6. PICK n \in recvExpected .. TotalPkts :
        /\ Untimed!FirstGap(n, received', TotalPkts)
        /\ recvExpected' = n
        /\ lastAck' = {AckPacket(n, received', TotalPkts)}
        /\ rPc' = IF n >= TotalPkts THEN "assemble" ELSE "loop"
  BY <1>3 DEF ReceiveData
<1>7. AckPacket(n, received', TotalPkts) \in AckPackets
  BY <1>4, <1>6, SameConstants, PacketAssumption, WindowFits,
     Untimed!AckPacketType
<1>8. received \subseteq PktSeqs /\ recvExpected \in 0 .. TotalPkts
  BY <1>4 DEF PktSeqs
<1>9. expectedTotal' = TotalPkts /\ rPc = "loop"
  BY <1>3 DEF ReceiveData
<1> QED BY <1>2, <1>3, <1>4, <1>5, <1>6, <1>7, <1>8, <1>9

LEMMA ReceiverSteps ==
  ASSUME HeaderFits, Untimed!IInv, ClocksOK,
         KeepAlive \/ \E m \in dataAir : ReceiveData(m)
  PROVE  UntimedStep /\ ClocksOK'
<1> USE Sizes
<1>1. CASE KeepAlive
  <2>1. PacketsOf(ackAir') = PacketsOf(ackAir) \cup lastAck
    BY <1>1, PacketsOfMore DEF KeepAlive, SendsAck
  <2>2. Untimed!KeepAlive
    BY <1>1, <2>1 DEF KeepAlive, senderVars, receiverVars, Untimed!KeepAlive,
                      Untimed!senderVars, Untimed!receiverVars
  <2>3. lastAck \in SUBSET AckPackets
    BY SameConstants DEF Untimed!IInv, Untimed!TypeOK
  <2>4. ClocksOK'
    BY <1>1, <2>3 DEF KeepAlive, SendsAck, ClocksOK, AcksInAir
  <2> QED BY <2>2, <2>4 DEF UntimedStep, Untimed!Next, Untimed!Receiver
<1>2. ASSUME NEW m \in dataAir, ReceiveData(m)
      PROVE  UntimedStep /\ ClocksOK'
  <2>1. PICK i \in PktSeqs, n \in recvExpected .. TotalPkts :
           /\ m.pkt = DataPacket(i) /\ m.pkt.seq = i
           /\ received' = received \cup {i}
           /\ expectedTotal \in {0, TotalPkts} /\ expectedTotal' = TotalPkts
           /\ received \subseteq PktSeqs /\ recvExpected \in 0 .. TotalPkts
           /\ Untimed!FirstGap(n, received', TotalPkts)
           /\ recvExpected' = n
           /\ lastAck' = {AckPacket(n, received', TotalPkts)}
           /\ AckPacket(n, received', TotalPkts) \in AckPackets
           /\ rPc = "loop"
           /\ rPc' = IF n >= TotalPkts THEN "assemble" ELSE "loop"
    BY <1>2, DataReceived
  <2> PICK p : p = m.pkt
    OBVIOUS
  <2>2. /\ p \in PacketsOf(dataAir)
        /\ PacketsOf(dataAir')
              \in {PacketsOf(dataAir), PacketsOf(dataAir) \ {p}}
    BY <1>2, PacketsOfMembers, PacketsOfLess DEF ReceiveData
  <2>3. PacketsOf(ackAir') = PacketsOf(ackAir) \cup lastAck'
    BY <1>2, PacketsOfMore DEF ReceiveData, SendsAck
  <2>4. /\ p.seq = i /\ p.total = TotalPkts /\ p.payload = Chunk(i)
        /\ i \in 0 .. TotalPkts - 1
    BY <2>1, SameConstants, PacketAssumption, WindowFits,
       Untimed!HeadersAreFaithful DEF PktSeqs
  <2> DEFINE buffer == [j \in 0 .. expectedTotal - 1 |->
                          IF j \in received THEN Chunk(j) ELSE <<>>]
  <2>5. buffer' = Untimed!BufferAfter(p, TotalPkts)
    <3>0. expectedTotal = 0 => received = {}
      BY DEF Untimed!IInv, Untimed!TypeOK
    <3>1. buffer' = [j \in 0 .. TotalPkts - 1 |->
                       IF j \in received \cup {i} THEN Chunk(j) ELSE <<>>]
      BY <2>1
    <3>2. Untimed!Resized(TotalPkts) =
            [j \in 0 .. TotalPkts - 1 |->
               IF j \in received THEN Chunk(j) ELSE <<>>]
      BY <2>1, <3>0 DEF Untimed!Resized
    <3>3. CASE i \in received
      <4>1. Untimed!BufferAfter(p, TotalPkts) = Untimed!Resized(TotalPkts)
        BY <2>4, <3>3 DEF Untimed!BufferAfter
      <4>2. received \cup {i} = received
        BY <3>3
      <4> QED BY <3>1, <3>2, <4>1, <4>2
    <3>4. CASE i \notin received
      <4>1. Untimed!BufferAfter(p, TotalPkts)
              = [Untimed!Resized(TotalPkts) EXCEPT ![i] = Chunk(i)]
        BY <2>4, <3>4 DEF Untimed!BufferAfter
      <4> HIDE DEF buffer
      <4> QED BY <2>4, <3>1, <3>2, <4>1
    <3> QED BY <3>3, <3>4
  <2>6. Untimed!ReceiveData(p)
    <3>1. (IF expectedTotal = 0 THEN p.total ELSE expectedTotal) = TotalPkts
      BY <2>1, <2>4
    <3>2. UNCHANGED <<Untimed!senderVars, inAcks>>
      BY <1>2 DEF ReceiveData, senderVars, Untimed!senderVars
    <3>3. received' = Untimed!ReceivedAfter(p, TotalPkts)
      BY <2>1, <2>4 DEF Untimed!ReceivedAfter
    <3> HIDE DEF buffer
    <3>4. \E k \in recvExpected .. TotalPkts :
            /\ Untimed!FirstGap(k, Untimed!ReceivedAfter(p, TotalPkts),
                                TotalPkts)
            /\ recvExpected' = k
            /\ lastAck' = {Untimed!AckPacket(k,
                              Untimed!ReceivedAfter(p, TotalPkts), TotalPkts)}
            /\ rPc' = IF k >= TotalPkts THEN "assemble" ELSE "loop"
      BY <2>1, <3>3, SameConstants
    <3> QED BY <2>1, <2>2, <2>3, <2>4, <2>5, <3>1, <3>2, <3>3, <3>4
            DEF Untimed!ReceiveData, buffer
  <2>7. ClocksOK'
    BY <1>2, <2>1 DEF ReceiveData, SendsAck, ClocksOK, AcksInAir
  <2> QED BY <2>2, <2>6, <2>7 DEF UntimedStep, Untimed!Next, Untimed!Receiver
<1> QED BY <1>1, <1>2

\* A packet that only moves on, or gets older, is no step of RdtTransfer.
LEMMA MovesOnly ==
  ASSUME UNCHANGED <<senderVars, receiverVars>>,
         PacketsOf(dataAir') = PacketsOf(dataAir),
         PacketsOf(ackAir') \cup inAcks' = PacketsOf(ackAir) \cup inAcks
  PROVE  UntimedStep
BY DEF senderVars, receiverVars, UntimedStep, Untimed!vars,
       Untimed!senderVars, Untimed!receiverVars, Untimed!netVars

LEMMA RelaySteps ==
  ASSUME ClocksOK,
         \/ \E m \in dataAir : LoseData(m)
         \/ \E m \in ackAir : AckArrives(m) \/ LoseAck(m)
         \/ Tick
  PROVE  UntimedStep /\ ClocksOK'
<1> USE Sizes
<1>1. ASSUME NEW m \in dataAir, LoseData(m)
      PROVE  UntimedStep /\ ClocksOK'
  <2>1. /\ m.pkt \in PacketsOf(dataAir)
        /\ PacketsOf(dataAir')
              \in {PacketsOf(dataAir), PacketsOf(dataAir) \ {m.pkt}}
    BY <1>1, PacketsOfMembers, PacketsOfLess DEF LoseData
  <2>2. UNCHANGED <<senderVars, receiverVars, ackAir, inAcks>>
    BY <1>1 DEF LoseData
  <2>3. ASSUME PacketsOf(dataAir') = PacketsOf(dataAir)
        PROVE  UntimedStep
    BY <2>2, <2>3, MovesOnly
  <2>4. ASSUME PacketsOf(dataAir') = PacketsOf(dataAir) \ {m.pkt}
        PROVE  UntimedStep
    <3>1. Untimed!Lose
      BY <2>1, <2>2, <2>4
         DEF senderVars, receiverVars, Untimed!Lose, Untimed!senderVars,
             Untimed!receiverVars
    <3> QED BY <3>1 DEF UntimedStep, Untimed!Next
  <2>5. ClocksOK'
    BY <1>1 DEF LoseData, ClocksOK
  <2> QED BY <2>1, <2>3, <2>4, <2>5
<1>2. ASSUME NEW m \in ackAir, LoseAck(m)
      PROVE  UntimedStep /\ ClocksOK'
  <2> DEFINE net == PacketsOf(ackAir) \cup inAcks
  <2>1. m.pkt \in net /\ net' \in {net, net \ {m.pkt}}
    <3>1. /\ m.pkt \in PacketsOf(ackAir)
          /\ PacketsOf(ackAir')
               \in {PacketsOf(ackAir), PacketsOf(ackAir) \ {m.pkt}}
      BY <1>2, PacketsOfMembers, PacketsOfLess DEF LoseAck
    <3>2. inAcks' = inAcks
      BY <1>2 DEF LoseAck
    <3>3. CASE m.pkt \in inAcks
      BY <3>1, <3>2, <3>3
    <3>4. CASE m.pkt \notin inAcks
      BY <3>1, <3>2, <3>4
    <3> QED BY <3>3, <3>4
  <2>2. UNCHANGED <<senderVars, receiverVars, dataAir>>
    BY <1>2 DEF LoseAck
  <2>3. ASSUME net' = net
        PROVE  UntimedStep
    BY <2>2, <2>3, MovesOnly
  <2>4. ASSUME net' = net \ {m.pkt}
        PROVE  UntimedStep
    <3>1. Untimed!Lose
      BY <2>1, <2>2, <2>4
         DEF senderVars, receiverVars, Untimed!Lose, Untimed!senderVars,
             Untimed!receiverVars
    <3> QED BY <3>1 DEF UntimedStep, Untimed!Next
  <2>5. ClocksOK'
    BY <1>2 DEF LoseAck, ClocksOK
  <2> QED BY <2>1, <2>3, <2>4, <2>5
<1>3. ASSUME NEW m \in ackAir, AckArrives(m)
      PROVE  UntimedStep /\ ClocksOK'
  <2>1. PacketsOf(ackAir') \cup inAcks' = PacketsOf(ackAir) \cup inAcks
    BY <1>3, PacketsOfLess DEF AckArrives
  <2>2. UntimedStep
    BY <1>3, <2>1, MovesOnly DEF AckArrives
  <2>3. m.pkt \in AckPackets
    BY DEF ClocksOK, AcksInAir
  <2>4. ClocksOK'
    BY <1>3, <2>3 DEF AckArrives, ClocksOK
  <2> QED BY <2>2, <2>4
<1>4. CASE Tick
  <2>1. /\ dataAir' = Aged(dataAir) /\ ackAir' = Aged(ackAir)
        /\ dataAir \in SUBSET [pkt : DataPackets, age : Nat]
        /\ ackAir \in SUBSET [pkt : AckPackets, age : Nat]
        /\ UNCHANGED <<senderVars, receiverVars, inAcks>>
    BY <1>4 DEF Tick, ClocksOK, DataInAir, AcksInAir
  <2>2. PacketsOf(dataAir') = PacketsOf(dataAir)
        /\ PacketsOf(ackAir') = PacketsOf(ackAir)
    BY <2>1, PacketsOfAged
  <2>3. UntimedStep
    BY <2>1, <2>2, MovesOnly
  <2>4. \A m \in dataAir \cup ackAir :
          m.age \in Nat /\ m.age + 1 \in 0 .. MaxDelay
    BY <1>4 DEF Tick, ClocksOK, DataInAir, AcksInAir
  <2>5. /\ \A m \in dataAir' : m \in [pkt : DataPackets, age : Nat]
                              /\ m.age \in 0 .. MaxDelay
        /\ \A m \in ackAir' : m \in [pkt : AckPackets, age : Nat]
                             /\ m.age \in 0 .. MaxDelay
    <3>1. /\ \A m \in Aged(dataAir) :
               /\ m \in [pkt : DataPackets, age : Nat]
               /\ \E w \in dataAir : m.age = w.age + 1
          /\ \A m \in Aged(ackAir) :
               /\ m \in [pkt : AckPackets, age : Nat]
               /\ \E w \in ackAir : m.age = w.age + 1
      BY <2>1, PacketsOfAged
    <3> QED BY <2>1, <2>4, <3>1
  <2>6. dataAir' \in SUBSET DataInAir /\ ackAir' \in SUBSET AcksInAir
    BY <2>5 DEF DataInAir, AcksInAir
  <2>7. /\ lag' \in 0 .. MaxPause /\ quiet' \in 0 .. Old
        /\ sentAge' \in [PktSeqs -> 0 .. Old]
        /\ UNCHANGED <<inAcks, lost>>
    BY <1>4 DEF Tick, ClocksOK, MinOf
  <2> QED BY <2>3, <2>6, <2>7 DEF ClocksOK
<1> QED BY <1>1, <1>2, <1>3, <1>4

LEMMA TimedStepIsUntimed ==
  ASSUME HeaderFits, Untimed!IInv, ClocksOK, [Next]_vars
  PROVE  UntimedStep /\ ClocksOK' /\ Untimed!IInv'
<1>1. UntimedStep /\ ClocksOK'
  <2>1. CASE UNCHANGED vars
    <3>1. UntimedStep
      BY <2>1, MovesOnly DEF vars
    <3>2. ClocksOK'
      BY <2>1 DEF vars, ClocksOK
    <3> QED BY <3>1, <3>2
  <2> QED BY <2>1, SenderSteps, ReceiverSteps, RelaySteps DEF Next, Done
<1>2. Untimed!IInv'
  BY <1>1, SameConstants, PacketAssumption, WindowFits, Untimed!IInvStep
     DEF UntimedStep
<1> QED BY <1>1, <1>2

-----------------------------------------------------------------------------
(* The timer of a packet in flight.                                        *)

LEMMA InFlightMembers ==
  ASSUME Untimed!IInv
  PROVE  /\ sendBase \in 0 .. TotalPkts /\ nextSeq \in 0 .. TotalPkts
         /\ InFlight \subseteq PktSeqs
         /\ \A i : i \in InFlight <=> /\ i \in sendBase .. nextSeq - 1
                                     /\ i \notin acked
         /\ sendBase >= TotalPkts => InFlight = {}
         /\ Untimed!AllAcked <=> sendBase >= TotalPkts
<1> USE Sizes
<1>1. sendBase \in 0 .. TotalPkts /\ nextSeq \in 0 .. TotalPkts
  BY SameConstants DEF Untimed!IInv, Untimed!TypeOK
<1>2. \A i : i \in InFlight <=> i \in sendBase .. nextSeq - 1 /\ i \notin acked
  BY DEF InFlight, Untimed!InFlight
<1>3. Untimed!AllAcked <=> sendBase >= TotalPkts
  BY SameConstants DEF Untimed!AllAcked
<1> QED BY <1>1, <1>2, <1>3 DEF PktSeqs

\* An acknowledgement read: what it names is not in flight any more.
LEMMA AckRead ==
  ASSUME Untimed!IInv, Untimed!IInv', ClocksOK, NEW a \in inAcks, SenderAck(a)
  PROVE  /\ InFlight' \subseteq InFlight
         /\ \A i \in InFlight' : ~ Names(a, i)
         /\ sendBase' \in {sendBase, a.base} /\ a.base \in Nat
<1> USE Sizes
<1>1. a.base \in Nat /\ sendBase' = Untimed!MaxOf(sendBase, a.base)
  BY DEF SenderAck, ClocksOK, AckPackets, Untimed!BaseAfter
<1>2. /\ sendBase \in 0 .. TotalPkts /\ sendBase' \in 0 .. TotalPkts
      /\ nextSeq \in 0 .. TotalPkts
  BY SameConstants DEF Untimed!IInv, Untimed!TypeOK
<1>3. /\ sendBase <= sendBase' /\ a.base <= sendBase'
      /\ sendBase' \in {sendBase, a.base}
  BY <1>1, <1>2 DEF Untimed!MaxOf
<1>4. /\ nextSeq' = nextSeq /\ acked \subseteq acked'
      /\ \A s \in SackedBy(a) : s < nextSeq => s \in acked'
  <2>1. nextSeq' = nextSeq /\ acked' = Untimed!AckedAfter(a)
    BY DEF SenderAck
  <2>2. \A s \in SackedBy(a) : s \in Nat
    BY DEF ClocksOK, AckPackets, SackedBy
  <2>3. \A s \in Untimed!SackedBy(a) :
          s < nextSeq /\ s < Untimed!TotalPkts => s \in acked'
    BY <2>1 DEF Untimed!AckedAfter
  <2>4. acked \subseteq acked'
    BY <2>1 DEF Untimed!AckedAfter
  <2> QED BY <1>2, <2>1, <2>2, <2>3, <2>4, SameConstants
<1>5. InFlight' \subseteq InFlight
  BY <1>2, <1>3, <1>4 DEF InFlight, Untimed!InFlight
<1>6. \A i \in InFlight' : ~ Names(a, i)
  BY <1>1, <1>2, <1>3, <1>4 DEF Names, InFlight, Untimed!InFlight
<1> QED BY <1>1, <1>3, <1>5, <1>6

LEMMA RepeatsSoonKept ==
  ASSUME HeaderFits, Untimed!IInv, Untimed!IInv', ClocksOK, RepeatsSoon,
         [Next]_vars
  PROVE  RepeatsSoon'
<1> USE Sizes, InFlightMembers
<1>1. /\ lag \in 0 .. MaxPause
      /\ \A i \in PktSeqs : sentAge[i] \in Nat
      /\ sentAge \in [PktSeqs -> 0 .. Old]
  BY DEF ClocksOK
<1>2. CASE SenderTop
  <2>1. InFlight' = InFlight
    BY <1>2 DEF SenderTop, InFlight, Untimed!InFlight
  <2>2. sPc' = "done" => InFlight = {}
    BY <1>2 DEF SenderTop, Untimed!LoopCondition
  <2> QED BY <1>1, <1>2, <2>1, <2>2 DEF SenderTop, RepeatsSoon
<1>3. CASE SenderFinish
  <2>1. InFlight' = {}
    BY <1>3 DEF SenderFinish, InFlight, Untimed!InFlight
  <2> QED BY <1>3, <2>1 DEF SenderFinish, RepeatsSoon
<1>4. ASSUME NEW a \in inAcks, SenderAck(a) PROVE RepeatsSoon'
  <2>1. InFlight' \subseteq InFlight
    BY <1>4, AckRead
  <2> QED BY <1>4, <2>1 DEF SenderAck, RepeatsSoon
<1>5. CASE SenderTransmit
  <2> DEFINE sent == Resent \cup (nextSeq .. Untimed!FillTo - 1)
  <2>1. /\ sPc' = "top" /\ lag' = 0
        /\ sentAge' = [i \in PktSeqs |-> IF i \in sent THEN lag
                                         ELSE sentAge[i]]
        /\ UNCHANGED <<sendBase, acked>> /\ nextSeq' = Untimed!FillTo
    BY <1>5 DEF SenderTransmit, Stamped
  <2>2. \A i \in InFlight' : i \in PktSeqs /\ (i \in InFlight \/ i \in sent)
    <3>1. nextSeq' \in 0 .. TotalPkts
      BY SameConstants DEF Untimed!IInv, Untimed!TypeOK
    <3> QED BY <2>1, <3>1 DEF InFlight, Untimed!InFlight, PktSeqs
  <2>3. \A i \in InFlight \ sent : sentAge[i] <= TIMEOUT_MS + lag
    BY <1>1 DEF Resent, Expired
  <2>4. \A i \in InFlight' : sentAge'[i] <= TIMEOUT_MS + MaxPause
    <3> HIDE DEF sent
    <3> QED BY <1>1, <2>1, <2>2, <2>3
  <2> QED BY <2>1, <2>4 DEF RepeatsSoon
<1>6. CASE Tick
  <2>1. InFlight' = InFlight
    BY <1>6 DEF Tick, senderVars, InFlight, Untimed!InFlight
  <2>2. \A i \in InFlight :
          sentAge'[i] <= sentAge[i] + 1 /\ sentAge'[i] \in Nat
    BY <1>1, <1>6 DEF Tick, MinOf
  <2> QED BY <1>1, <1>6, <2>1, <2>2 DEF Tick, senderVars, RepeatsSoon
<1>7. ASSUME UNCHANGED <<senderVars, lag, sentAge>> PROVE RepeatsSoon'
  <2>1. InFlight' = InFlight
    BY <1>7 DEF senderVars, InFlight, Untimed!InFlight
  <2> QED BY <1>7, <2>1 DEF senderVars, RepeatsSoon
<1>8. ASSUME \/ \E m \in dataAir : ReceiveData(m) \/ LoseData(m)
             \/ KeepAlive
             \/ \E m \in ackAir : AckArrives(m) \/ LoseAck(m)
             \/ Done \/ UNCHANGED vars
      PROVE  UNCHANGED <<senderVars, lag, sentAge>>
  BY <1>8 DEF ReceiveData, LoseData, KeepAlive, AckArrives, LoseAck, Done, vars
<1> QED BY <1>2, <1>3, <1>4, <1>5, <1>6, <1>7, <1>8 DEF Next

-----------------------------------------------------------------------------
(* The stamps, and the receiver's last acknowledgement.                    *)

LEMMA LastAckKept ==
  ASSUME HeaderFits, Untimed!IInv, ClocksOK, LastAckIsNewest, [Next]_vars
  PROVE  LastAckIsNewest'
<1> USE Sizes
<1>1. ASSUME NEW m \in dataAir, ReceiveData(m) PROVE LastAckIsNewest'
  <2>1. quiet' = 0
    BY <1>1 DEF ReceiveData, SendsAck
  <2> QED BY <1>1, <2>1, DataReceived DEF LastAckIsNewest
<1>2. CASE KeepAlive
  BY <1>2 DEF KeepAlive, SendsAck, receiverVars, LastAckIsNewest
<1>3. CASE Tick
  <2>1. quiet' <= quiet + 1 /\ quiet \in Nat /\ quiet' \in Nat
    BY <1>3 DEF Tick, ClocksOK, MinOf
  <2> QED BY <1>3, <2>1 DEF Tick, receiverVars, LastAckIsNewest
<1>4. ASSUME UNCHANGED <<receiverVars, quiet>> PROVE LastAckIsNewest'
  BY <1>4 DEF receiverVars, LastAckIsNewest
<1>5. ASSUME \/ SenderTop \/ SenderFinish \/ SenderTransmit
             \/ \E a \in inAcks : SenderAck(a)
             \/ \E m \in dataAir : LoseData(m)
             \/ \E m \in ackAir : AckArrives(m) \/ LoseAck(m)
             \/ Done \/ UNCHANGED vars
      PROVE  UNCHANGED <<receiverVars, quiet>>
  BY <1>5 DEF SenderTop, SenderFinish, SenderTransmit, SenderAck, LoseData,
              AckArrives, LoseAck, Done, vars
<1> QED BY <1>1, <1>2, <1>3, <1>4, <1>5 DEF Next

LEMMA StampsKept ==
  ASSUME HeaderFits, Untimed!IInv, Untimed!IInv', ClocksOK, StampsAreFresh,
         [Next]_vars
  PROVE  StampsAreFresh'
<1> USE Sizes, InFlightMembers
<1>1. /\ lag \in 0 .. MaxPause
      /\ \A i \in PktSeqs : sentAge[i] \in Nat
      /\ sentAge \in [PktSeqs -> 0 .. Old]
      /\ \A m \in dataAir : m.age \in Nat
  BY DEF ClocksOK, DataInAir
<1>2. ASSUME InFlight' \subseteq InFlight, dataAir' \subseteq dataAir,
             sentAge' = sentAge
      PROVE  StampsAreFresh'
  BY <1>2 DEF StampsAreFresh
<1>3. ASSUME NEW a \in inAcks, SenderAck(a) PROVE StampsAreFresh'
  BY <1>2, <1>3, AckRead DEF SenderAck
<1>4. CASE SenderTransmit
  <2> DEFINE sent == Resent \cup (nextSeq .. Untimed!FillTo - 1)
             new == {[pkt |-> DataPacket(i), age |-> 0] : i \in sent}
  <2>1. /\ dataAir' = dataAir \cup new
        /\ sentAge' = [i \in PktSeqs |-> IF i \in sent THEN lag
                                         ELSE sentAge[i]]
        /\ UNCHANGED <<sendBase, acked>> /\ nextSeq' = Untimed!FillTo
    BY <1>4 DEF SenderTransmit, Stamped
  <2>2. /\ nextSeq' \in 0 .. TotalPkts /\ sent \subseteq PktSeqs
        /\ \A i \in InFlight' : i \in PktSeqs /\ (i \in InFlight \/ i \in sent)
    <3>1. nextSeq' \in 0 .. TotalPkts
      BY SameConstants DEF Untimed!IInv, Untimed!TypeOK
    <3>2. sent \subseteq PktSeqs
      BY <2>1, <3>1 DEF PktSeqs, Resent
    <3> QED BY <2>1, <3>1, <3>2 DEF InFlight, Untimed!InFlight, PktSeqs
  <2>3. ASSUME NEW m \in dataAir', NEW i \in InFlight', m.pkt = DataPacket(i)
        PROVE  sentAge'[i] <= m.age + MaxPause
    <3>1. CASE i \in sent
      <4>1. m.age \in Nat
        BY <1>1, <2>1, <2>3
      <4> QED BY <1>1, <2>1, <2>2, <3>1, <4>1
    <3>2. CASE i \notin sent /\ m \in dataAir
      <4>1. i \in InFlight /\ sentAge'[i] = sentAge[i]
        BY <2>1, <2>2, <3>2
      <4> QED BY <2>3, <3>2, <4>1 DEF StampsAreFresh
    <3>3. CASE m \in new
      <4>1. PICK j \in sent : m = [pkt |-> DataPacket(j), age |-> 0]
        BY <3>3
      <4>2. DataPacket(i) = DataPacket(j) /\ i \in PktSeqs /\ j \in PktSeqs
        BY <2>2, <2>3, <4>1
      <4>3. i = j
        BY <4>2, SameConstants, PacketAssumption, WindowFits,
           Untimed!HeadersAreFaithful
      <4> HIDE DEF sent
      <4> QED BY <3>1, <4>3
    <3> QED BY <2>1, <3>1, <3>2, <3>3
  <2> QED BY <2>3 DEF StampsAreFresh
<1>5. CASE Tick
  <2>1. InFlight' = InFlight
    BY <1>5 DEF Tick, senderVars, InFlight, Untimed!InFlight
  <2>2. \A i \in InFlight :
          sentAge'[i] <= sentAge[i] + 1 /\ sentAge'[i] \in Nat
    BY <1>1, <1>5 DEF Tick, MinOf
  <2>3. \A m \in dataAir' : \E w \in dataAir : /\ m.pkt = w.pkt
                                            /\ m.age = w.age + 1
    <3>1. dataAir \in SUBSET [pkt : DataPackets, age : Nat]
      BY DEF ClocksOK, DataInAir
    <3>2. dataAir' = Aged(dataAir)
      BY <1>5 DEF Tick
    <3>3. \A m \in Aged(dataAir) : \E w \in dataAir : /\ m.pkt = w.pkt
                                                   /\ m.age = w.age + 1
      BY <3>1, PacketsOfAged
    <3> QED BY <3>2, <3>3
  <2>4. ASSUME NEW m \in dataAir', NEW i \in InFlight', m.pkt = DataPacket(i)
        PROVE  sentAge'[i] <= m.age + MaxPause
    <3>1. PICK w \in dataAir : m.pkt = w.pkt /\ m.age = w.age + 1
      BY <2>3
    <3>2. sentAge[i] <= w.age + MaxPause
      BY <2>1, <2>4, <3>1 DEF StampsAreFresh
    <3> QED BY <1>1, <2>1, <2>2, <3>1, <3>2
  <2> QED BY <2>4 DEF StampsAreFresh
<1>6. ASSUME \/ SenderTop \/ SenderFinish
             \/ \E m \in dataAir : ReceiveData(m) \/ LoseData(m)
             \/ KeepAlive
             \/ \E m \in ackAir : AckArrives(m) \/ LoseAck(m)
             \/ Done \/ UNCHANGED vars
      PROVE  /\ UNCHANGED <<sendBase, nextSeq, acked, sentAge>>
             /\ dataAir' \subseteq dataAir
  BY <1>6 DEF SenderTop, SenderFinish, ReceiveData, LoseData, KeepAlive,
              AckArrives, LoseAck, Done, vars, senderVars
<1>7. UNCHANGED <<sendBase, nextSeq, acked>> => InFlight' = InFlight
  BY DEF InFlight, Untimed!InFlight
<1> QED BY <1>2, <1>3, <1>4, <1>5, <1>6, <1>7 DEF Next

-----------------------------------------------------------------------------
(* The acknowledgement of a packet the receiver holds.                     *)

LEMMA Rounds ==
  /\ Round \in Nat
  /\ Round >= ACK_KEEPALIVE_MS + MaxPause + 1 /\ Round >= MaxDelay
  /\ \A k \in Nat : /\ AgeWhenNamed(k) \in Nat
                    /\ AgeWhenNamed(k) >= MaxDelay + MaxPause
                    /\ AgeWhenNamed(k + 1) = AgeWhenNamed(k) + Round
  /\ \A k \in 0 .. MaxLostAcks :
       AgeWhenNamed(k) <= AgeWhenNamed(MaxLostAcks)
<1> USE Sizes
<1>1. /\ Round \in Nat
      /\ Round >= ACK_KEEPALIVE_MS + MaxPause + 1 /\ Round >= MaxDelay
  BY DEF Round, MaxOf
<1>2. \A r, k \in Nat : k * r \in Nat /\ (k + 1) * r = k * r + r
  OBVIOUS
<1>3. \A r, j, k \in Nat : (j + k) * r = j * r + k * r
  OBVIOUS
<1> HIDE DEF Round
<1>4. \A k \in Nat : /\ AgeWhenNamed(k) \in Nat
                    /\ AgeWhenNamed(k) >= MaxDelay + MaxPause
                    /\ AgeWhenNamed(k + 1) = AgeWhenNamed(k) + Round
  BY <1>1, <1>2 DEF AgeWhenNamed
<1>5. ASSUME NEW k \in 0 .. MaxLostAcks
      PROVE  AgeWhenNamed(k) <= AgeWhenNamed(MaxLostAcks)
  <2>1. MaxLostAcks - k \in Nat /\ k + (MaxLostAcks - k) = MaxLostAcks
    OBVIOUS
  <2>2. /\ MaxLostAcks * Round = k * Round + (MaxLostAcks - k) * Round
        /\ (MaxLostAcks - k) * Round \in Nat /\ k * Round \in Nat
    BY <1>1, <1>2, <1>3, <2>1
  <2> QED BY <2>2 DEF AgeWhenNamed
<1> QED BY <1>1, <1>4, <1>5

\* The receiver's newest acknowledgement names all that any acknowledgement
\* names, and all it holds below the reach of its mask.
LEMMA NewestNames ==
  ASSUME HeaderFits, NEW n \in 0 .. TotalPkts, NEW got
  PROVE  LET a == AckPacket(n, got, TotalPkts)
         IN  /\ a.base = n
             /\ \A i \in got \cap PktSeqs : i < n + SACK_BITS => Names(a, i)
<1> DEFINE a == AckPacket(n, got, TotalPkts)
<1> USE Sizes
<1>1. Hdr(n) = n
  BY SameConstants, PacketAssumption, WindowFits, Untimed!HeadersAreFaithful
<1>2. a.base = n /\ a.sack = SackBits(n, got, TotalPkts)
  BY <1>1 DEF AckPacket
<1>3. ASSUME NEW i \in got \cap PktSeqs, i < n + SACK_BITS PROVE Names(a, i)
  <2>1. CASE i < n
    BY <1>2, <2>1 DEF Names
  <2>2. CASE i >= n
    <3>1. i - n \in SackBits(n, got, TotalPkts) /\ i = n + (i - n)
      BY <1>3, <2>2 DEF SackBits, PktSeqs
    <3> QED BY <1>2, <3>1 DEF Names, SackedBy
  <2> QED BY <2>1, <2>2 DEF PktSeqs
<1> QED BY <1>2, <1>3

LEMMA NamedIsNear ==
  ASSUME HeaderFits, Untimed!IInv,
         NEW a \in PacketsOf(ackAir) \cup inAcks \cup lastAck
  PROVE  /\ a.base \in Nat /\ a.base <= recvExpected
         /\ \A i \in Int : Names(a, i) => i < recvExpected + SACK_BITS
<1> USE Sizes
<1>1. /\ a \in Untimed!Acks /\ a \in AckPackets
      /\ recvExpected \in Nat
  BY SameConstants DEF Untimed!IInv, Untimed!TypeOK, Untimed!Acks
<1>2. a.base <= recvExpected
  BY <1>1 DEF Untimed!IInv, Untimed!AcksAreSound
<1>3. a.base \in Nat /\ \A s \in SackedBy(a) : s < a.base + SACK_BITS
  BY <1>1 DEF AckPackets, SackedBy
<1>4. \A s \in SackedBy(a) : s \in Nat
  BY <1>1 DEF AckPackets, SackedBy
<1>5. ASSUME NEW i \in Int, Names(a, i) PROVE i < recvExpected + SACK_BITS
  BY <1>1, <1>2, <1>3, <1>4, <1>5 DEF Names
<1> QED BY <1>2, <1>3, <1>5

LEMMA Ages ==
  ASSUME ClocksOK
  PROVE  /\ \A i \in PktSeqs : sentAge[i] \in Nat /\ sentAge[i] <= Old
         /\ \A w \in ackAir : w.age \in Nat /\ w.age <= MaxDelay
         /\ quiet \in Nat /\ quiet <= Old /\ lag \in Nat
         /\ lost.acks \in Nat /\ lost.acks <= MaxLostAcks
         /\ AgeWhenNamed(lost.acks) \in Nat
         /\ lost.acks >= 1 =>
              /\ AgeWhenNamed(lost.acks - 1) \in Nat
              /\ AgeWhenNamed(lost.acks)
                   = AgeWhenNamed(lost.acks - 1) + Round
<1> USE Sizes, Rounds
<1>1. /\ \A i \in PktSeqs : sentAge[i] \in Nat /\ sentAge[i] <= Old
      /\ quiet \in Nat /\ quiet <= Old /\ lag \in Nat
      /\ lost.acks \in Nat /\ lost.acks <= MaxLostAcks
  BY DEF ClocksOK
<1>2. \A w \in ackAir : w.age \in Nat /\ w.age <= MaxDelay
  BY DEF ClocksOK, AcksInAir
<1>3. ASSUME lost.acks >= 1
      PROVE  /\ AgeWhenNamed(lost.acks - 1) \in Nat
             /\ AgeWhenNamed(lost.acks)
                  = AgeWhenNamed(lost.acks - 1) + Round
  <2>1. lost.acks - 1 \in Nat /\ (lost.acks - 1) + 1 = lost.acks
    BY <1>1, <1>3
  <2> QED BY <2>1
<1> QED BY <1>1, <1>2, <1>3

\* What a mask reaches, one with a higher base reaches, if it reaches as far.
LEMMA Reach ==
  \A i, b, n \in Nat :
    /\ i < n + SACK_BITS \/ i >= n + SACK_BITS
    /\ b <= n => /\ i < b + SACK_BITS => i < n + SACK_BITS
                 /\ i >= n + SACK_BITS =>
                      i >= b + SACK_BITS /\ ~ (i < b + SACK_BITS)
<1>1. SACK_BITS \in Nat
  BY Sizes
<1>2. \A i, b, k, n \in Nat :
        /\ i < n + k \/ i >= n + k
        /\ b <= n => /\ i < b + k => i < n + k
                     /\ i >= n + k => i >= b + k /\ ~ (i < b + k)
  OBVIOUS
<1> QED BY <1>1, <1>2

\* Nothing happens to the acknowledgements, and stamps are renewed at most.
LEMMA NamedFrame ==
  ASSUME ClocksOK, ClocksOK', ReceivedIsNamed,
         UNCHANGED <<receiverVars, sendBase, quiet, ackAir, inAcks>>,
         lost'.acks = lost.acks,
         \A i \in InFlight' \cap received :
           i \in InFlight /\ i \in PktSeqs /\ sentAge'[i] <= sentAge[i]
  PROVE  ReceivedIsNamed'
<1> SUFFICES ASSUME rPc = "loop", NEW i \in InFlight' \cap received
             PROVE  \/ OutOfReach(i)'
                    \/ i < recvExpected' + SACK_BITS /\ AckOnItsWay(i)'
  BY DEF ReceivedIsNamed, receiverVars
<1>1. /\ i \in InFlight \cap received /\ sentAge'[i] <= sentAge[i]
      /\ sentAge[i] \in Nat /\ sentAge'[i] \in Nat
  BY Ages DEF ClocksOK
<1>2. /\ UNCHANGED <<sendBase, ackAir, inAcks, quiet, lastAck, recvExpected>>
      /\ lost'.acks = lost.acks
  BY DEF receiverVars
<1>3. ASSUME AckOnItsWay(i) PROVE AckOnItsWay(i)'
  <2>1. LastInAir' <=> LastInAir
    BY <1>2 DEF LastInAir
  <2>2. ASSUME NEW w \in ackAir, Names(w.pkt, i),
               sentAge[i] <= AgeWhenNamed(lost.acks) + w.age,
               \/ LastInAir
               \/ /\ lost.acks >= 1
                  /\ sentAge[i] <= AgeWhenNamed(lost.acks - 1) + w.age
        PROVE  AckOnItsWay(i)'
    <3>1. w \in ackAir' /\ w.age \in Nat
      BY <1>2, Ages
    <3>2. sentAge'[i] <= AgeWhenNamed(lost'.acks) + w.age
      BY <1>1, <1>2, <2>2, <3>1, Ages
    <3>3. \/ LastInAir'
          \/ /\ lost'.acks >= 1
             /\ sentAge'[i] <= AgeWhenNamed(lost'.acks - 1) + w.age
      BY <1>1, <1>2, <2>1, <2>2, <3>1, Ages
    <3> QED BY <2>2, <3>1, <3>2, <3>3 DEF AckOnItsWay
  <2>3. ASSUME lost.acks >= 1,
               sentAge[i] <= AgeWhenNamed(lost.acks - 1) + quiet
        PROVE  AckOnItsWay(i)'
    <3>1. lost'.acks >= 1
          /\ sentAge'[i] <= AgeWhenNamed(lost'.acks - 1) + quiet'
      BY <1>1, <1>2, <2>3, Ages
    <3> QED BY <3>1 DEF AckOnItsWay
  <2>4. (\E a \in inAcks : Names(a, i)) => AckOnItsWay(i)'
    BY <1>2 DEF AckOnItsWay
  <2> QED BY <1>3, <2>2, <2>3, <2>4 DEF AckOnItsWay
<1>4. OutOfReach(i) => OutOfReach(i)'
  BY <1>2 DEF OutOfReach
<1> QED BY <1>1, <1>2, <1>3, <1>4 DEF ReceivedIsNamed

\* An acknowledgement read leaves in flight what it does not name.
LEMMA NamedRead ==
  ASSUME Untimed!IInv, Untimed!IInv', ClocksOK, ReceivedIsNamed,
         NEW a \in inAcks, SenderAck(a)
  PROVE  ReceivedIsNamed'
<1> USE Sizes
<1> SUFFICES ASSUME rPc' = "loop", NEW i \in InFlight' \cap received'
             PROVE  \/ OutOfReach(i)'
                    \/ i < recvExpected' + SACK_BITS /\ AckOnItsWay(i)'
  BY DEF ReceivedIsNamed
<1>1. /\ UNCHANGED <<receiverVars, sentAge, quiet, ackAir, lost>>
      /\ inAcks' = inAcks \ {a}
  BY DEF SenderAck
<1>2. /\ UNCHANGED <<rPc, received, recvExpected, lastAck>>
      /\ PacketsOf(ackAir') = PacketsOf(ackAir)
  BY <1>1 DEF receiverVars
<1>3. /\ i \in InFlight \cap received /\ ~ Names(a, i) /\ i \in Nat
      /\ sendBase' \in {sendBase, a.base} /\ a.base \in Nat
  BY <1>2, AckRead, InFlightMembers DEF PktSeqs
<1>4. ASSUME OutOfReach(i) PROVE OutOfReach(i)'
  <2>1. i >= a.base + SACK_BITS
    BY <1>3, <1>4 DEF OutOfReach
  <2>2. i >= sendBase' + SACK_BITS
    BY <1>3, <1>4, <2>1 DEF OutOfReach
  <2> QED BY <1>1, <1>2, <1>4, <2>2 DEF OutOfReach
<1>5. ASSUME AckOnItsWay(i) PROVE AckOnItsWay(i)'
  <2>1. (\E b \in inAcks : Names(b, i)) => \E b \in inAcks' : Names(b, i)
    BY <1>1, <1>3
  <2>2. LastInAir' <=> LastInAir
    BY <1>1, <1>2 DEF LastInAir
  <2> QED BY <1>1, <1>5, <2>1, <2>2 DEF AckOnItsWay
<1> QED BY <1>2, <1>3, <1>4, <1>5 DEF ReceivedIsNamed

\* The receiver sends its newest acknowledgement.
LEMMA NamedSent ==
  ASSUME HeaderFits, Untimed!IInv, Untimed!IInv', ClocksOK, LastAckIsNewest,
         ReceivedIsNamed, rPc = "loop",
         UNCHANGED <<senderVars, sentAge, inAcks, lost>>,
         NEW a, a = AckPacket(recvExpected', received', TotalPkts),
         lastAck' = {a}, SendsAck(lastAck'),
         recvExpected <= recvExpected',
         \A j \in received' \ received : j \in InFlight =>
           sentAge[j] <= AgeWhenNamed(lost.acks)
  PROVE  ReceivedIsNamed'
<1> USE Sizes
<1> SUFFICES ASSUME NEW i \in InFlight' \cap received'
             PROVE  \/ OutOfReach(i)'
                    \/ i < recvExpected' + SACK_BITS /\ AckOnItsWay(i)'
  BY DEF ReceivedIsNamed
<1> DEFINE new == [pkt |-> a, age |-> 0]
<1>1. /\ ackAir' = ackAir \cup {new} /\ quiet' = 0
      /\ new.pkt = a /\ new.age = 0
      /\ UNCHANGED <<sendBase, sentAge, inAcks, lost>>
  BY DEF SendsAck, senderVars
<1> HIDE DEF new
<1>2. PacketsOf(ackAir') = PacketsOf(ackAir) \cup {a}
  BY PacketsOfMore DEF SendsAck
<1>3. InFlight' = InFlight
  BY DEF senderVars, InFlight, Untimed!InFlight
<1>4. /\ i \in PktSeqs /\ i \in Nat /\ sendBase \in Nat
      /\ sentAge[i] \in Nat
  BY <1>3, InFlightMembers, Ages DEF PktSeqs
<1>5. /\ recvExpected \in 0 .. TotalPkts /\ recvExpected' \in 0 .. TotalPkts
      /\ recvExpected \in Nat /\ recvExpected' \in Nat
  <2>1. recvExpected \in 0 .. expectedTotal /\ expectedTotal \in {0, TotalPkts}
    BY SameConstants, PacketAssumption, WindowFits,
       Untimed!HeadersAreFaithful DEF Untimed!IInv, Untimed!TypeOK
  <2>2. /\ recvExpected' \in 0 .. expectedTotal'
        /\ expectedTotal' \in {0, TotalPkts}
    BY SameConstants, PacketAssumption, WindowFits,
       Untimed!HeadersAreFaithful DEF Untimed!IInv, Untimed!TypeOK
  <2> QED BY <2>1, <2>2
<1>6. a.base = recvExpected' /\ (i < recvExpected' + SACK_BITS => Names(a, i))
  BY <1>4, <1>5, NewestNames
<1>7. LastInAir'
  BY <1>1 DEF LastInAir
<1>8. ASSUME i < recvExpected' + SACK_BITS,
             sentAge[i] <= AgeWhenNamed(lost.acks)
      PROVE  AckOnItsWay(i)'
  <2>1. new \in ackAir' /\ Names(new.pkt, i)
    BY <1>1, <1>6, <1>8
  <2>2. sentAge'[i] <= AgeWhenNamed(lost'.acks) + new.age
    BY <1>1, <1>4, <1>8, Ages
  <2> QED BY <1>7, <2>1, <2>2 DEF AckOnItsWay
<1>9. CASE i \notin received
  <2>1. sentAge[i] <= AgeWhenNamed(lost.acks)
    BY <1>3, <1>9
  <2>2. ASSUME i >= recvExpected' + SACK_BITS PROVE OutOfReach(i)'
    <3>1. sendBase' <= recvExpected'
      BY <1>4, <1>5 DEF Untimed!IInv, Untimed!BasesAreGaps
    <3>2. \A b \in PacketsOf(ackAir) \cup inAcks :
            b.base \in Nat /\ b.base <= recvExpected
      BY NamedIsNear
    <3>3. ASSUME NEW b \in PacketsOf(ackAir') \cup inAcks'
          PROVE  ~ (i < b.base + SACK_BITS)
      <4>1. b.base \in Nat /\ b.base <= recvExpected'
        <5>1. CASE b = a
          BY <1>5, <1>6, <5>1
        <5>2. CASE b \in PacketsOf(ackAir) \cup inAcks
          <6>1. b.base \in Nat /\ b.base <= recvExpected
            BY <3>2, <5>2
          <6> QED BY <1>5, <6>1
        <5> QED BY <1>1, <1>2, <5>1, <5>2
      <4>2. i \in Nat /\ i >= recvExpected' + SACK_BITS
        BY <1>4, <2>2
      <4> QED BY <1>5, <4>1, <4>2, Reach
    <3>4. i >= sendBase' + SACK_BITS
      <4>1. sendBase' \in Nat /\ sendBase' <= recvExpected'
        BY <1>1, <1>4, <3>1
      <4>2. i \in Nat /\ i >= recvExpected' + SACK_BITS
        BY <1>4, <2>2
      <4> QED BY <1>5, <4>1, <4>2, Reach
    <3> QED BY <3>3, <3>4 DEF OutOfReach
  <2>3. i < recvExpected' + SACK_BITS \/ i >= recvExpected' + SACK_BITS
    BY <1>4, <1>5, Reach
  <2>4. i < recvExpected' + SACK_BITS => AckOnItsWay(i)'
    BY <1>8, <2>1
  <2> QED BY <2>2, <2>3, <2>4
<1>10. CASE i \in received
  <2>1. lastAck # {} /\ quiet <= Round
    BY <1>10, Rounds, Ages DEF LastAckIsNewest
  <2>2. ASSUME OutOfReach(i) PROVE OutOfReach(i)'
    BY <1>1, <1>2, <1>6, <2>2 DEF OutOfReach
  <2>3. ASSUME i < recvExpected + SACK_BITS, AckOnItsWay(i)
        PROVE  i < recvExpected' + SACK_BITS /\ AckOnItsWay(i)'
    <3>1. i < recvExpected' + SACK_BITS
      <4>1. /\ i \in Nat /\ recvExpected \in Nat /\ recvExpected' \in Nat
            /\ recvExpected <= recvExpected'
        BY <1>4, <1>5
      <4> QED BY <2>3, <4>1, Reach
    <3>2. (\E b \in inAcks : Names(b, i)) => AckOnItsWay(i)'
      BY <1>1 DEF AckOnItsWay
    <3>3. ASSUME NEW w \in ackAir, Names(w.pkt, i),
                 sentAge[i] <= AgeWhenNamed(lost.acks) + w.age
          PROVE  AckOnItsWay(i)'
      <4>1. w \in ackAir'
            /\ sentAge'[i] <= AgeWhenNamed(lost'.acks) + w.age
        BY <1>1, <3>3
      <4> QED BY <1>7, <3>3, <4>1 DEF AckOnItsWay
    <3>4. ASSUME lost.acks >= 1,
                 sentAge[i] <= AgeWhenNamed(lost.acks - 1) + quiet
          PROVE  AckOnItsWay(i)'
      <4>1. sentAge[i] <= AgeWhenNamed(lost.acks)
        BY <1>4, <2>1, <3>4, Rounds, Ages
      <4> QED BY <1>8, <3>1, <4>1
    <3> QED BY <2>3, <3>1, <3>2, <3>3, <3>4 DEF AckOnItsWay
  <2> QED BY <1>3, <1>10, <2>2, <2>3 DEF ReceivedIsNamed
<1> QED BY <1>9, <1>10

\* An acknowledgement reaches the sender's input buffer, or is lost.
LEMMA NamedMoved ==
  ASSUME HeaderFits, Untimed!IInv, ClocksOK, LastAckIsNewest,
         ReceivedIsNamed, NEW x \in ackAir, AckArrives(x) \/ LoseAck(x)
  PROVE  ReceivedIsNamed'
<1> USE Sizes
<1> SUFFICES ASSUME rPc = "loop", NEW i \in InFlight \cap received
             PROVE  \/ OutOfReach(i)'
                    \/ i < recvExpected + SACK_BITS /\ AckOnItsWay(i)'
  <2>1. UNCHANGED <<sendBase, nextSeq, acked, rPc, received, recvExpected>>
    BY DEF AckArrives, LoseAck, senderVars, receiverVars
  <2>2. InFlight' = InFlight
    BY <2>1 DEF InFlight, Untimed!InFlight
  <2> QED BY <2>1, <2>2 DEF ReceivedIsNamed
<1>1. /\ UNCHANGED <<sendBase, sentAge, quiet, lastAck>>
      /\ ackAir' = ackAir \ {x}
      /\ sentAge[i] \in Nat /\ i \in PktSeqs
  BY InFlightMembers, Ages DEF AckArrives, LoseAck, senderVars, receiverVars
<1>2. ASSUME OutOfReach(i) PROVE OutOfReach(i)'
  <2>1. PacketsOf(ackAir') \cup inAcks' \subseteq PacketsOf(ackAir) \cup inAcks
    <3>1. PacketsOf(ackAir') \subseteq PacketsOf(ackAir)
      BY <1>1, PacketsOfLess
    <3>2. inAcks' \subseteq inAcks \cup {x.pkt}
      BY DEF AckArrives, LoseAck
    <3>3. x.pkt \in PacketsOf(ackAir)
      BY PacketsOfMembers
    <3> QED BY <3>1, <3>2, <3>3
  <2> QED BY <1>1, <1>2, <2>1 DEF OutOfReach
<1>3. ASSUME i < recvExpected + SACK_BITS, AckOnItsWay(i), AckArrives(x)
      PROVE  AckOnItsWay(i)'
  <2>1. inAcks' = inAcks \cup {x.pkt} /\ lost' = lost
    BY <1>3 DEF AckArrives
  <2>2. (\E a \in inAcks : Names(a, i)) => AckOnItsWay(i)'
    BY <2>1 DEF AckOnItsWay
  <2>3. Names(x.pkt, i) => AckOnItsWay(i)'
    BY <2>1 DEF AckOnItsWay
  <2>4. ASSUME LastInAir, ~ Names(x.pkt, i) PROVE LastInAir'
    <3>1. PICK l \in ackAir : l.pkt \in lastAck /\ l.age = quiet
      BY <2>4 DEF LastInAir
    <3>2. l.pkt = AckPacket(recvExpected, received, TotalPkts)
          /\ recvExpected \in 0 .. TotalPkts
      BY <3>1, SameConstants DEF LastAckIsNewest, Untimed!IInv, Untimed!TypeOK
    <3>3. Names(l.pkt, i)
      BY <1>1, <1>3, <3>2, NewestNames
    <3>4. l # x
      BY <2>4, <3>3
    <3> QED BY <1>1, <3>1, <3>4 DEF LastInAir
  <2>5. ASSUME NEW w \in ackAir, Names(w.pkt, i),
               sentAge[i] <= AgeWhenNamed(lost.acks) + w.age,
               \/ LastInAir
               \/ /\ lost.acks >= 1
                  /\ sentAge[i] <= AgeWhenNamed(lost.acks - 1) + w.age,
               ~ Names(x.pkt, i)
        PROVE  AckOnItsWay(i)'
    <3>1. w \in ackAir'
      BY <1>1, <2>5
    <3> QED BY <1>1, <2>1, <2>4, <2>5, <3>1 DEF AckOnItsWay
  <2>6. lost.acks >= 1 /\ sentAge[i] <= AgeWhenNamed(lost.acks - 1) + quiet
          => AckOnItsWay(i)'
    BY <1>1, <2>1 DEF AckOnItsWay
  <2> QED BY <1>3, <2>2, <2>3, <2>5, <2>6 DEF AckOnItsWay
<1>4. ASSUME i < recvExpected + SACK_BITS, AckOnItsWay(i), LoseAck(x)
      PROVE  AckOnItsWay(i)'
  <2>1. /\ inAcks' = inAcks /\ lost'.acks = lost.acks + 1
        /\ lost'.acks >= 1 /\ lost'.acks - 1 = lost.acks
        /\ AgeWhenNamed(lost'.acks) = AgeWhenNamed(lost.acks) + Round
    <3>1. inAcks' = inAcks /\ lost'.acks = lost.acks + 1
      BY <1>4 DEF LoseAck, ClocksOK
    <3>2. lost'.acks >= 1 /\ lost'.acks - 1 = lost.acks
      BY <3>1, Ages
    <3> QED BY <3>1, <3>2, Ages, Rounds
  <2>2. (\E a \in inAcks : Names(a, i)) => AckOnItsWay(i)'
    BY <2>1 DEF AckOnItsWay
  <2>3. ASSUME sentAge[i] <= AgeWhenNamed(lost.acks) + quiet
        PROVE  AckOnItsWay(i)'
    BY <1>1, <2>1, <2>3 DEF AckOnItsWay
  <2>4. ASSUME NEW w \in ackAir, Names(w.pkt, i), w # x,
               sentAge[i] <= AgeWhenNamed(lost.acks) + w.age
        PROVE  AckOnItsWay(i)'
    <3>1. w \in ackAir' /\ w.age \in Nat
      BY <1>1, <2>4, Ages
    <3>2. sentAge'[i] <= AgeWhenNamed(lost'.acks) + w.age
      BY <1>1, <2>1, <2>4, <3>1, Rounds, Ages
    <3>3. sentAge'[i] <= AgeWhenNamed(lost'.acks - 1) + w.age
      BY <1>1, <2>1, <2>4, Rounds, Ages
    <3> QED BY <2>1, <2>4, <3>1, <3>2, <3>3 DEF AckOnItsWay
  <2>5. ASSUME Names(x.pkt, i), LastInAir,
               i < recvExpected + SACK_BITS,
               sentAge[i] <= AgeWhenNamed(lost.acks) + x.age
        PROVE  AckOnItsWay(i)'
    <3>1. PICK l \in ackAir : l.pkt \in lastAck /\ l.age = quiet
      BY <2>5 DEF LastInAir
    <3>2. l.pkt = AckPacket(recvExpected, received, TotalPkts)
          /\ recvExpected \in 0 .. TotalPkts
      BY <3>1, SameConstants DEF LastAckIsNewest, Untimed!IInv, Untimed!TypeOK
    <3>3. Names(l.pkt, i)
      BY <1>1, <2>5, <3>2, NewestNames
    <3>4. CASE l = x
      BY <2>3, <2>5, <3>1, <3>4
    <3>5. CASE l # x
      <4>1. l \in ackAir' /\ LastInAir'
        BY <1>1, <3>1, <3>5 DEF LastInAir
      <4>2. sentAge'[i] <= AgeWhenNamed(lost'.acks) + l.age
        BY <1>1, <2>1, <2>5, Rounds, Ages
      <4> QED BY <3>3, <4>1, <4>2 DEF AckOnItsWay
    <3> QED BY <3>4, <3>5
  <2>6. ASSUME lost.acks >= 1,
               \/ sentAge[i] <= AgeWhenNamed(lost.acks - 1) + x.age
               \/ sentAge[i] <= AgeWhenNamed(lost.acks - 1) + quiet
        PROVE  AckOnItsWay(i)'
    <3>1. sentAge[i] <= AgeWhenNamed(lost.acks) + quiet
      BY <1>1, <2>6, Rounds, Ages
    <3> QED BY <2>3, <3>1
  <2> QED BY <1>4, <2>2, <2>4, <2>5, <2>6 DEF AckOnItsWay
<1> QED BY <1>2, <1>3, <1>4 DEF ReceivedIsNamed

\* Everything gets older together.
LEMMA NamedOlder ==
  ASSUME HeaderFits, TimersSuffice, Untimed!IInv, ClocksOK, ClocksOK',
         ReceivedIsNamed, Tick
  PROVE  ReceivedIsNamed'
<1> USE Sizes
<1> SUFFICES ASSUME rPc = "loop", NEW i \in InFlight \cap received
             PROVE  \/ OutOfReach(i)'
                    \/ i < recvExpected + SACK_BITS /\ AckOnItsWay(i)'
  <2>1. UNCHANGED <<sendBase, nextSeq, acked, rPc, received, recvExpected>>
    BY DEF Tick, senderVars, receiverVars
  <2>2. InFlight' = InFlight
    BY <2>1 DEF InFlight, Untimed!InFlight
  <2> QED BY <2>1, <2>2 DEF ReceivedIsNamed
<1>1. /\ UNCHANGED <<sendBase, lastAck, inAcks, lost>>
      /\ ackAir' = Aged(ackAir)
      /\ ackAir \in SUBSET [pkt : AckPackets, age : Nat]
  BY DEF Tick, senderVars, receiverVars, ClocksOK, AcksInAir
<1>2. /\ PacketsOf(ackAir') = PacketsOf(ackAir)
      /\ \A w \in ackAir : \E m \in ackAir' : /\ m.pkt = w.pkt
                                            /\ m.age = w.age + 1
  BY <1>1, PacketsOfAged
<1>3. /\ sentAge[i] \in Nat /\ sentAge'[i] \in Nat
      /\ sentAge'[i] <= sentAge[i] + 1 /\ sentAge'[i] <= Old
  <2>1. i \in PktSeqs
    BY InFlightMembers
  <2> QED BY <2>1, Ages DEF Tick, MinOf
<1>4. /\ quiet \in Nat /\ quiet' \in {quiet + 1, Old}
      /\ quiet < Old => quiet' = quiet + 1
  BY Ages DEF Tick, MinOf
<1>5. LastInAir => LastInAir'
  <2> SUFFICES ASSUME LastInAir PROVE LastInAir'
    OBVIOUS
  <2>1. PICK l \in ackAir : l.pkt \in lastAck /\ l.age = quiet
    BY DEF LastInAir
  <2>2. l.age \in Nat /\ l.age < MaxDelay
    BY Ages DEF Tick
  <2>3. MaxDelay < Old
    <3>1. MaxLostAcks * Round \in Nat
      BY Rounds
    <3> QED BY <3>1 DEF TimersSuffice
  <2>4. quiet' = l.age + 1
    BY <1>4, <2>1, <2>2, <2>3
  <2>5. \E m \in ackAir' : m.pkt = l.pkt /\ m.age = l.age + 1
    BY <1>2
  <2> QED BY <1>1, <2>1, <2>4, <2>5 DEF LastInAir
<1>6. ASSUME OutOfReach(i) PROVE OutOfReach(i)'
  BY <1>1, <1>2, <1>6 DEF OutOfReach
<1>7. ASSUME AckOnItsWay(i) PROVE AckOnItsWay(i)'
  <2>1. (\E a \in inAcks : Names(a, i)) => AckOnItsWay(i)'
    BY <1>1 DEF AckOnItsWay
  <2>2. ASSUME NEW w \in ackAir, Names(w.pkt, i),
               sentAge[i] <= AgeWhenNamed(lost.acks) + w.age,
               \/ LastInAir
               \/ /\ lost.acks >= 1
                  /\ sentAge[i] <= AgeWhenNamed(lost.acks - 1) + w.age
        PROVE  AckOnItsWay(i)'
    <3>1. PICK m \in ackAir' : m.pkt = w.pkt /\ m.age = w.age + 1
      BY <1>2
    <3>2. sentAge'[i] <= AgeWhenNamed(lost'.acks) + m.age
      BY <1>1, <1>3, <2>2, <3>1, Ages
    <3>3. \/ LastInAir'
          \/ /\ lost'.acks >= 1
             /\ sentAge'[i] <= AgeWhenNamed(lost'.acks - 1) + m.age
      BY <1>1, <1>3, <1>5, <2>2, <3>1, Ages
    <3> QED BY <2>2, <3>1, <3>2, <3>3 DEF AckOnItsWay
  <2>3. ASSUME lost.acks >= 1,
               sentAge[i] <= AgeWhenNamed(lost.acks - 1) + quiet
        PROVE  AckOnItsWay(i)'
    <3>1. sentAge'[i] <= AgeWhenNamed(lost'.acks - 1) + quiet'
      BY <1>1, <1>3, <1>4, <2>3, Ages
    <3> QED BY <1>1, <2>3, <3>1 DEF AckOnItsWay
  <2> QED BY <1>7, <2>1, <2>2, <2>3 DEF AckOnItsWay
<1> QED BY <1>6, <1>7 DEF ReceivedIsNamed

LEMMA NamedKept ==
  ASSUME HeaderFits, TimersSuffice, TimedInv, Untimed!IInv', ClocksOK',
         LastAckIsNewest', [Next]_vars
  PROVE  ReceivedIsNamed'
<1> USE Sizes DEF TimedInv
<1>1. CASE SenderTransmit
  <2> DEFINE sent == Stamped(Resent \cup (nextSeq .. Untimed!FillTo - 1))
  <2>1. /\ UNCHANGED <<receiverVars, sendBase, acked, quiet, ackAir, inAcks,
                       lost>>
        /\ sentAge' = [i \in PktSeqs |-> IF i \in sent THEN lag
                                         ELSE sentAge[i]]
    BY <1>1 DEF SenderTransmit
  <2>2. ASSUME NEW i \in InFlight' \cap received
        PROVE  i \in InFlight /\ i \in PktSeqs /\ sentAge'[i] <= sentAge[i]
    <3>1. i \in InFlight /\ i \in PktSeqs /\ i < nextSeq
      <4>1. i \in sendBase' .. nextSeq' - 1 /\ i \notin acked'
        BY <2>2 DEF InFlight, Untimed!InFlight
      <4>2. i < nextSeq
        BY <2>2 DEF Untimed!IInv, Untimed!SentBounds
      <4>3. i \in Int /\ i >= sendBase /\ i \notin acked
        BY <2>1, <4>1
      <4>4. i \in sendBase .. nextSeq - 1
        BY <4>2, <4>3, InFlightMembers
      <4> QED BY <4>2, <4>3, <4>4, InFlightMembers
    <3>2. /\ lag \in Nat /\ sentAge[i] \in Nat /\ nextSeq \in Nat
          /\ Untimed!FillTo \in Int
      <4>1. Untimed!TypeOK
        BY DEF Untimed!IInv
      <4>2. Untimed!FillTo \in nextSeq .. Untimed!TotalPkts
        BY <4>1, PacketAssumption, WindowFits, Untimed!FillToBounds
      <4>3. nextSeq \in Nat /\ Untimed!TotalPkts \in Nat
        BY InFlightMembers, SameConstants
      <4> QED BY <3>1, <4>2, <4>3, Ages
    <3>3. i \in sent => Expired(i)
      BY <3>1, <3>2 DEF Stamped, Resent, PktSeqs
    <3>4. i \in sent => lag <= sentAge[i]
      BY <3>2, <3>3 DEF Expired
    <3> HIDE DEF sent
    <3> QED BY <2>1, <3>1, <3>2, <3>4
  <2> QED BY <2>1, <2>2, NamedFrame
<1>2. ASSUME NEW a \in inAcks, SenderAck(a) PROVE ReceivedIsNamed'
  BY <1>2, NamedRead
<1>3. ASSUME NEW m \in dataAir, ReceiveData(m) PROVE ReceivedIsNamed'
  <2>1. PICK i \in PktSeqs, n \in recvExpected .. TotalPkts :
          /\ m.pkt = DataPacket(i)
          /\ received' = received \cup {i}
          /\ recvExpected \in 0 .. TotalPkts
          /\ recvExpected' = n
          /\ lastAck' = {AckPacket(n, received', TotalPkts)}
          /\ rPc = "loop"
    BY <1>3, DataReceived
  <2>2. /\ UNCHANGED <<senderVars, sentAge, inAcks, lost>>
        /\ SendsAck(lastAck')
    BY <1>3 DEF ReceiveData
  <2>3. i \in InFlight => sentAge[i] <= AgeWhenNamed(lost.acks)
    <3>1. i \in InFlight => sentAge[i] <= m.age + MaxPause
      BY <2>1 DEF StampsAreFresh
    <3>2. m.age \in Nat /\ m.age <= MaxDelay
      BY DEF ClocksOK, DataInAir
    <3>3. AgeWhenNamed(lost.acks) \in Nat
          /\ AgeWhenNamed(lost.acks) >= MaxDelay + MaxPause
      BY Ages, Rounds
    <3>4. sentAge[i] \in Nat
      BY <2>1, Ages
    <3> QED BY <3>1, <3>2, <3>3, <3>4
  <2>4. recvExpected <= recvExpected'
    BY <2>1
  <2> QED BY <2>1, <2>2, <2>3, <2>4, NamedSent
<1>4. CASE KeepAlive
  <2>1. /\ UNCHANGED <<senderVars, receiverVars, sentAge, inAcks, lost>>
        /\ SendsAck(lastAck) /\ rPc = "loop" /\ lastAck # {}
    BY <1>4 DEF KeepAlive
  <2>2. /\ UNCHANGED <<recvExpected, received, lastAck>>
        /\ lastAck = {AckPacket(recvExpected, received, TotalPkts)}
    BY <2>1 DEF receiverVars, LastAckIsNewest
  <2>3. /\ lastAck' = {AckPacket(recvExpected', received', TotalPkts)}
        /\ SendsAck(lastAck')
    BY <2>1, <2>2 DEF SendsAck
  <2>4. recvExpected <= recvExpected' /\ received' \ received = {}
    <3>1. recvExpected \in Nat
      BY DEF Untimed!IInv, Untimed!TypeOK
    <3> QED BY <2>2, <3>1
  <2> QED BY <2>1, <2>3, <2>4, NamedSent
<1>5. ASSUME NEW m \in ackAir, AckArrives(m) \/ LoseAck(m)
      PROVE  ReceivedIsNamed'
  BY <1>5, NamedMoved
<1>6. CASE Tick
  BY <1>6, NamedOlder
<1>7. ASSUME \/ SenderTop \/ SenderFinish
             \/ \E m \in dataAir : LoseData(m)
             \/ Done \/ UNCHANGED vars
      PROVE  ReceivedIsNamed'
  <2>1. /\ UNCHANGED <<receiverVars, sendBase, nextSeq, acked, quiet, ackAir,
                       inAcks, sentAge>>
        /\ lost'.acks = lost.acks
    BY <1>7 DEF SenderTop, SenderFinish, LoseData, Done, vars, senderVars,
                ClocksOK
  <2>2. InFlight' = InFlight
    BY <2>1 DEF InFlight, Untimed!InFlight
  <2>3. \A i \in InFlight : i \in PktSeqs /\ sentAge'[i] <= sentAge[i]
    BY <2>1, InFlightMembers, Ages
  <2> QED BY <2>1, <2>2, <2>3, NamedFrame
<1> QED BY <1>1, <1>2, <1>3, <1>4, <1>5, <1>6, <1>7 DEF Next

-----------------------------------------------------------------------------
(* The theorems.                                                           *)

\* The clocks decide nothing that RdtTransfer's timers could not: a run of
\* sender() and receiver() with their time-outs, their keepalive and the
\* relay's delays is a run of the transfer without clocks, for any delays and
\* any time-outs, so all that is proved of RdtTransfer holds here.
THEOREM UntimedImplemented ==
  HeaderFits => (Spec => ImplementsUntimed)
<1> SUFFICES ASSUME HeaderFits PROVE Spec => ImplementsUntimed
  OBVIOUS
<1>1. Init => Untimed!Init /\ Untimed!IInv /\ ClocksOK
  BY TimedInit DEF TimedInv
<1>2. (Untimed!IInv /\ ClocksOK) /\ [Next]_vars
        => (Untimed!IInv /\ ClocksOK)' /\ [Untimed!Next]_(Untimed!vars)
  BY TimedStepIsUntimed DEF UntimedStep
<1> QED BY <1>1, <1>2, PTL DEF Spec, ImplementsUntimed, Untimed!Spec

\* So the clocks cannot break the promise of IRDTProtocol either: what
\* receiver() returns is the file, and sender() takes nothing for delivered
\* that is not.
THEOREM PromiseKeptInTime == HeaderFits => (Spec => Untimed!KeepsPromise)
<1> SUFFICES ASSUME HeaderFits PROVE Spec => Untimed!KeepsPromise
  OBVIOUS
<1>1. Untimed!Spec => Untimed!KeepsPromise
  BY SameConstants, Sizes, PacketAssumption, Untimed!PromiseKept
<1> QED BY <1>1, UntimedImplemented, PTL DEF ImplementsUntimed

\* The inductive invariant: that of RdtTransfer, with the ages of the stamps
\* and of the packets under way.
THEOREM TimedInvHolds ==
  HeaderFits /\ TimersSuffice => (Spec => []TimedInv)
<1> SUFFICES ASSUME HeaderFits, TimersSuffice PROVE Spec => []TimedInv
  OBVIOUS
<1>1. Init => TimedInv
  BY TimedInit
<1>2. ASSUME TimedInv, [Next]_vars PROVE TimedInv'
  <2> USE DEF TimedInv
  <2>1. ClocksOK' /\ Untimed!IInv'
    BY <1>2, TimedStepIsUntimed
  <2>2. RepeatsSoon' /\ StampsAreFresh' /\ LastAckIsNewest'
    BY <1>2, <2>1, RepeatsSoonKept, StampsKept, LastAckKept
  <2>3. ReceivedIsNamed'
    BY <1>2, <2>1, <2>2, NamedKept
  <2> QED BY <2>1, <2>2, <2>3
<1> QED BY <1>1, <1>2, PTL DEF Spec

\* However long sender()'s passes take, and however stale the `now` is that it
\* compares and stamps with, a packet in flight is sent again, or acknowledged,
\* before it is TIMEOUT_MS and three pauses old.
THEOREM RepeatedInTimeHolds ==
  HeaderFits => (Spec => []RepeatedInTime)
<1> SUFFICES ASSUME HeaderFits PROVE Spec => []RepeatedInTime
  OBVIOUS
<1> DEFINE Inv == Untimed!IInv /\ ClocksOK /\ RepeatsSoon
<1>1. Init => Inv
  BY TimedInit DEF TimedInv
<1>2. ASSUME Inv, [Next]_vars PROVE Inv'
  <2>1. ClocksOK' /\ Untimed!IInv'
    BY <1>2, TimedStepIsUntimed
  <2>2. RepeatsSoon'
    BY <1>2, <2>1, RepeatsSoonKept
  <2> QED BY <2>1, <2>2
<1>3. ASSUME Inv PROVE RepeatedInTime
  <2> SUFFICES ASSUME NEW i \in InFlight
               PROVE  sentAge[i] <= TIMEOUT_MS + 3 * MaxPause
    BY DEF RepeatedInTime
  <2>1. sPc \in {"top", "drain", "done"}
    BY <1>3 DEF Untimed!IInv, Untimed!TypeOK
  <2>2. /\ sentAge[i] \in Nat /\ lag \in 0 .. MaxPause
        /\ TIMEOUT_MS \in Nat /\ MaxPause \in Nat
    BY <1>3, InFlightMembers, Ages, Sizes DEF ClocksOK
  <2> QED BY <1>3, <2>1, <2>2 DEF RepeatsSoon
<1> QED BY <1>1, <1>2, <1>3, PTL DEF Spec

\* If TIMEOUT_MS is as long as a packet and its acknowledgement take and the
\* keepalive needs to repeat each acknowledgement that is lost, sender() sends
\* nothing again that has arrived, unless it lies above what a mask reaches:
\* its stale clock, and acknowledgements late or lost, are no reason to.
THEOREM ResendsOnlyMissingHolds ==
  HeaderFits /\ TimersSuffice => (Spec => []ResendsOnlyMissing)
<1> SUFFICES ASSUME HeaderFits, TimersSuffice
             PROVE  Spec => []ResendsOnlyMissing
  OBVIOUS
<1>1. Spec => []TimedInv
  BY TimedInvHolds
<1>2. ASSUME TimedInv PROVE ResendsOnlyMissing
  <2> USE Sizes DEF TimedInv
  <2> SUFFICES ASSUME inAcks = {}, rPc = "loop", NEW i \in Resent,
                      i \in received
               PROVE  i >= sendBase + SACK_BITS
    BY DEF ResendsOnlyMissing
  <2>1. i \in InFlight /\ Expired(i)
    BY DEF Resent
  <2>2. /\ sentAge[i] \in Nat /\ lag \in Nat
    BY <1>2, <2>1, InFlightMembers, Ages
  <2>3. sentAge[i] > TIMEOUT_MS
    BY <2>1, <2>2 DEF Expired
  <2>4. TIMEOUT_MS >= AgeWhenNamed(lost.acks) + MaxDelay
    <3>1. AgeWhenNamed(lost.acks) <= AgeWhenNamed(MaxLostAcks)
      BY <1>2, Rounds, Ages
    <3>2. MaxLostAcks * Round \in Nat
      BY Rounds
    <3>3. TIMEOUT_MS >= AgeWhenNamed(MaxLostAcks) + MaxDelay
      BY <3>2 DEF TimersSuffice, AgeWhenNamed
    <3>4. AgeWhenNamed(lost.acks) \in Nat /\ AgeWhenNamed(MaxLostAcks) \in Nat
      BY <1>2, Rounds, Ages
    <3> QED BY <3>1, <3>3, <3>4
  <2>5. ~ AckOnItsWay(i)
    <3>1. ASSUME NEW w \in ackAir
          PROVE  ~ (sentAge[i] <= AgeWhenNamed(lost.acks) + w.age)
      <4>1. w.age \in Nat /\ w.age <= MaxDelay
            /\ AgeWhenNamed(lost.acks) \in Nat
        BY <1>2, Ages
      <4> QED BY <2>2, <2>3, <2>4, <4>1
    <3>2. ASSUME lost.acks >= 1
          PROVE  ~ (sentAge[i] <= AgeWhenNamed(lost.acks - 1) + quiet)
      <4>1. lastAck # {}
        BY <1>2 DEF LastAckIsNewest
      <4>2. quiet \in Nat /\ quiet <= Round /\ Round \in Nat
        BY <1>2, <4>1, Ages, Rounds DEF LastAckIsNewest
      <4>3. /\ AgeWhenNamed(lost.acks - 1) \in Nat
            /\ AgeWhenNamed(lost.acks)
                 = AgeWhenNamed(lost.acks - 1) + Round
        BY <1>2, <3>2, Ages
      <4> QED BY <2>2, <2>3, <2>4, <4>2, <4>3
    <3> QED BY <3>1, <3>2 DEF AckOnItsWay
  <2>6. OutOfReach(i)
    BY <1>2, <2>1, <2>5 DEF ReceivedIsNamed
  <2> QED BY <2>6 DEF OutOfReach
<1> QED BY <1>1, <1>2, PTL
=============================================================================
