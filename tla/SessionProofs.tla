---------------------------- MODULE SessionProofs ----------------------------
(***************************************************************************)
(* Proofs about Session, for any file whose packet count fits the header,  *)
(* any window and any mask: its steps are steps of RdtTransfer, and so the *)
(* inductive invariant of RdtTransfer holds of the two clients.            *)
(***************************************************************************)
EXTENDS Session, FiniteSetTheorems, TLAPS

-----------------------------------------------------------------------------
(* Sequences as buffers.                                                   *)

LEMMA RangeMembers ==
  ASSUME NEW s
  PROVE  /\ \A i \in DOMAIN s : s[i] \in Range(s)
         /\ \A x \in Range(s) : \E i \in DOMAIN s : s[i] = x
BY DEF Range

LEMMA RangeOfTail ==
  ASSUME NEW T, NEW s \in Seq(T), s # <<>>
  PROVE  /\ Head(s) \in T /\ Tail(s) \in Seq(T)
         /\ Range(s) = {Head(s)} \cup Range(Tail(s))
<1>1. Head(s) \in T /\ Tail(s) \in Seq(T) /\ Len(s) \in Nat \ {0}
  OBVIOUS
<1>2. \A i \in 2 .. Len(s) : i - 1 \in DOMAIN Tail(s) /\ s[i] = Tail(s)[i - 1]
  OBVIOUS
<1>3. \A i \in DOMAIN Tail(s) : i + 1 \in DOMAIN s /\ s[i + 1] = Tail(s)[i]
  OBVIOUS
<1>4. Head(s) = s[1] /\ 1 \in DOMAIN s /\ DOMAIN s = 1 .. Len(s)
  OBVIOUS
<1>5. \A i \in DOMAIN s : i = 1 \/ i \in 2 .. Len(s)
  BY <1>4
<1>6. ASSUME NEW x \in Range(s) PROVE x \in {Head(s)} \cup Range(Tail(s))
  <2>1. PICK i \in DOMAIN s : s[i] = x
    BY RangeMembers
  <2>2. CASE i = 1
    BY <1>4, <2>1, <2>2
  <2>3. CASE i \in 2 .. Len(s)
    BY <1>2, <2>1, <2>3, RangeMembers
  <2> QED BY <1>5, <2>2, <2>3
<1>7. ASSUME NEW x \in Range(Tail(s)) PROVE x \in Range(s)
  <2>1. PICK i \in DOMAIN Tail(s) : Tail(s)[i] = x
    BY RangeMembers
  <2> QED BY <1>3, <2>1, RangeMembers
<1>8. Head(s) \in Range(s)
  BY <1>4, RangeMembers
<1> QED BY <1>1, <1>6, <1>7, <1>8

LEMMA RangeOfConcat ==
  ASSUME NEW T, NEW s \in Seq(T), NEW t \in Seq(T)
  PROVE  /\ s \o t \in Seq(T)
         /\ Range(s \o t) = Range(s) \cup Range(t)
<1>1. s \o t \in Seq(T) /\ Len(s) \in Nat /\ Len(t) \in Nat
  OBVIOUS
<1>2. \A i \in DOMAIN s : i \in DOMAIN (s \o t) /\ (s \o t)[i] = s[i]
  OBVIOUS
<1>3. \A i \in DOMAIN t : /\ i + Len(s) \in DOMAIN (s \o t)
                          /\ (s \o t)[i + Len(s)] = t[i]
  OBVIOUS
<1>4. \A i \in DOMAIN (s \o t) :
        \/ i \in DOMAIN s /\ (s \o t)[i] = s[i]
        \/ i - Len(s) \in DOMAIN t /\ (s \o t)[i] = t[i - Len(s)]
  OBVIOUS
<1>5. ASSUME NEW x \in Range(s \o t) PROVE x \in Range(s) \cup Range(t)
  <2>1. PICK i \in DOMAIN (s \o t) : (s \o t)[i] = x
    BY RangeMembers
  <2>2. CASE i \in DOMAIN s /\ (s \o t)[i] = s[i]
    BY <2>1, <2>2, RangeMembers
  <2>3. CASE i - Len(s) \in DOMAIN t /\ (s \o t)[i] = t[i - Len(s)]
    BY <2>1, <2>3, RangeMembers
  <2> QED BY <1>4, <2>2, <2>3
<1>6. ASSUME NEW x \in Range(s) \cup Range(t) PROVE x \in Range(s \o t)
  <2>1. CASE x \in Range(s)
    <3>1. PICK i \in DOMAIN s : s[i] = x
      BY <2>1, RangeMembers
    <3> QED BY <1>2, <3>1, RangeMembers
  <2>2. CASE x \in Range(t)
    <3>1. PICK i \in DOMAIN t : t[i] = x
      BY <2>2, RangeMembers
    <3> QED BY <1>3, <3>1, RangeMembers
  <2> QED BY <2>1, <2>2
<1> QED BY <1>1, <1>5, <1>6

LEMMA RangeOfAppend ==
  ASSUME NEW T, NEW s \in Seq(T), NEW x \in T
  PROVE  /\ Append(s, x) \in Seq(T)
         /\ Range(Append(s, x)) = Range(s) \cup {x}
<1>1. Append(s, x) = s \o <<x>> /\ <<x>> \in Seq(T)
  OBVIOUS
<1>2. Range(<<x>>) = {x}
  BY DEF Range
<1>3. /\ s \o <<x>> \in Seq(T)
      /\ Range(s \o <<x>>) = Range(s) \cup Range(<<x>>)
  BY <1>1, RangeOfConcat
<1> QED BY <1>1, <1>2, <1>3

\* The queue of one packet.
LEMMA QueueOfOne ==
  ASSUME NEW T, NEW x \in T
  PROVE  SetToSeq({x}) \in Seq(T) /\ Range(SetToSeq({x})) = {x}
<1>1. Cardinality({x}) = 1
  BY FS_Singleton
<1> DEFINE f == [k \in 1 .. 1 |-> x]
<1>2. f \in [1 .. 1 -> {x}] /\ IsInjective(f)
  BY DEF IsInjective
<1>3. SetToSeq({x}) \in [1 .. 1 -> {x}]
  BY <1>1, <1>2 DEF SetToSeq
<1>4. ASSUME NEW g \in [1 .. 1 -> {x}] PROVE g \in Seq(T) /\ Range(g) = {x}
  <2>1. DOMAIN g = {1} /\ g[1] = x
    OBVIOUS
  <2>2. g \in [1 .. 1 -> T]
    OBVIOUS
  <2>3. \A n \in Nat : \A h \in [1 .. n -> T] : h \in Seq(T)
    OBVIOUS
  <2>4. g \in Seq(T)
    BY <2>2, <2>3
  <2> QED BY <2>1, <2>4 DEF Range
<1> QED BY <1>3, <1>4

\* InOrder queues every packet asked for and no other.
LEMMA RanksAreUsed ==
  ASSUME NEW seqs \in SUBSET Nat, IsFiniteSet(seqs)
  PROVE  /\ Cardinality(seqs) \in Nat
         /\ \A k \in 1 .. Cardinality(seqs) : Ranked(seqs, k) \in seqs
         /\ \A i \in seqs : \E k \in 1 .. Cardinality(seqs) :
              Ranked(seqs, k) = i
<1> DEFINE upTo(i) == {j \in seqs : j <= i}
           rank == [i \in seqs |-> Cardinality(upTo(i))]
           n == Cardinality(seqs)
<1>1. n \in Nat
  BY FS_CardinalityType
<1>2. \A i \in seqs : IsFiniteSet(upTo(i)) /\ rank[i] \in 1 .. n
  <2> SUFFICES ASSUME NEW i \in seqs
               PROVE  IsFiniteSet(upTo(i)) /\ rank[i] \in 1 .. n
    OBVIOUS
  <2>1. upTo(i) \in SUBSET seqs /\ i \in upTo(i)
    OBVIOUS
  <2>2. IsFiniteSet(upTo(i)) /\ Cardinality(upTo(i)) <= n
    BY <2>1, FS_Subset
  <2>3. Cardinality(upTo(i)) \in Nat /\ Cardinality(upTo(i)) # 0
    BY <2>1, <2>2, FS_CardinalityType, FS_EmptySet
  <2> QED BY <1>1, <2>2, <2>3
<1>3. \A i, j \in seqs : i < j => rank[i] # rank[j]
  <2> SUFFICES ASSUME NEW i \in seqs, NEW j \in seqs, i < j
               PROVE  rank[i] # rank[j]
    OBVIOUS
  <2>1. i \in Nat /\ j \in Nat /\ j <= j /\ ~ j <= i
        /\ \A k \in seqs : k \in Nat /\ (k <= i => k <= j)
    OBVIOUS
  <2>2. upTo(i) \in SUBSET upTo(j) /\ j \in upTo(j) /\ j \notin upTo(i)
    BY <2>1
  <2>3. Cardinality(upTo(j)) # Cardinality(upTo(i))
    BY <1>2, <2>2, FS_Subset
  <2> QED BY <2>3
<1>4. rank \in Injection(seqs, 1 .. n)
  <2>1. rank \in [seqs -> 1 .. n]
    BY <1>2
  <2>2. \A i, j \in seqs : rank[i] = rank[j] => i = j
    BY <1>3
  <2> QED BY <2>1, <2>2, Zenon DEF Injection, IsInjective
<1>5. IsFiniteSet(1 .. n) /\ Cardinality(1 .. n) = n
  BY <1>1, FS_Interval
<1>6. rank \in Surjection(seqs, 1 .. n)
  BY <1>4, <1>5, FS_Injection
<1>7. \A k \in 1 .. n : \E i \in seqs : rank[i] = k
  BY <1>6 DEF Surjection
<1>8. \A k \in 1 .. n : Ranked(seqs, k) \in seqs /\ rank[Ranked(seqs, k)] = k
  BY <1>7 DEF Ranked
<1>9. \A i \in seqs : Ranked(seqs, rank[i]) = i
  <2>1. \A i, j \in seqs : rank[i] = rank[j] => i = j
    BY <1>3
  <2> HIDE DEF rank
  <2> QED BY <1>2, <1>8, <2>1
<1> QED BY <1>1, <1>2, <1>8, <1>9

LEMMA QueueInOrder ==
  ASSUME NEW seqs \in SUBSET Nat, IsFiniteSet(seqs), NEW T,
         \A i \in seqs : DataPacket(i) \in T
  PROVE  /\ InOrder(seqs) \in Seq(T)
         /\ Range(InOrder(seqs)) = {DataPacket(i) : i \in seqs}
<1> DEFINE n == Cardinality(seqs)
           q == [k \in 1 .. n |-> DataPacket(Ranked(seqs, k))]
<1>1. n \in Nat /\ \A k \in 1 .. n : Ranked(seqs, k) \in seqs
  BY RanksAreUsed
<1>2. q \in [1 .. n -> T]
  BY <1>1
<1>3. q \in Seq(T)
  BY <1>1, <1>2
<1>4. \A x \in Range(q) : \E i \in seqs : x = DataPacket(i)
  BY <1>1 DEF Range
<1>5. \A i \in seqs : DataPacket(i) \in Range(q)
  BY RanksAreUsed DEF Range
<1> QED BY <1>3, <1>4, <1>5 DEF InOrder

-----------------------------------------------------------------------------
(* The invariant.                                                          *)

\* Session and the instance of RdtTransfer cut the file the same way.
LEMMA SameConstants ==
  /\ Rdt!TotalPkts = TotalPkts /\ Rdt!PktSeqs = PktSeqs
  /\ \A n : /\ Rdt!Hdr(n) = Hdr(n) /\ Rdt!Chunk(n) = Chunk(n)
            /\ Rdt!DataPacket(n) = DataPacket(n)
  /\ \A n, got, total : Rdt!AckPacket(n, got, total) = AckPacket(n, got, total)
  /\ Rdt!DataPackets = DataPackets /\ Rdt!AckPackets = AckPackets
  /\ Rdt!HeaderFits <=> HeaderFits
BY DEF Rdt!TotalPkts, TotalPkts, Rdt!PktSeqs, PktSeqs, Rdt!Hdr, Hdr,
       Rdt!Chunk, Chunk, Rdt!DataPacket, DataPacket, Rdt!AckPacket, AckPacket,
       Rdt!DataPackets, DataPackets, Rdt!AckPackets, AckPackets,
       Rdt!HeaderFits, HeaderFits, Rdt!SackBits, SackBits, Rdt!OffsetOf,
       OffsetOf, Rdt!FileSize, FileSize, Rdt!MinOf, MinOf

LEMMA Sizes ==
  /\ TotalPkts \in Nat \ {0}
  /\ WINDOW \in Nat \ {0} /\ SACK_BITS \in Nat \ {0}
BY SameConstants, PacketAssumption, SessionAssumption, Rdt!TotalsAreNat

Packets == DataPackets \cup AckPackets

\* The variables RdtTransfer does not have.
BuffersOK ==
  /\ out \in [Clients -> Seq(Packets)]
  /\ inp \in [Clients -> Seq(Packets)]
  /\ air \in [Clients -> SUBSET Packets]
  /\ started \in [Clients -> BOOLEAN]
  /\ mPc \in [Clients -> {"run", "join", "stop", "gone"}]
  /\ server \in {"running", "finished", "aborted"}
  /\ \A a, b \in lastAck : a = b

\* What has happened before sender() is told to stop, backwards through two
\* sockets: its event loop has ended, because the server ended the session,
\* and if it did not give it up, it has the checksum of a main() whose
\* receiver() has returned.
ClosesInOrder ==
  /\ stop => ~ started["S"]
  /\ ~ started["S"] => server # "running"
  /\ server = "finished" => mPc["R"] # "run"
  /\ mPc["R"] # "run" => rPc = "done"

SessionInv == BuffersOK /\ ClosesInOrder /\ Rdt!IInv

LEMMA SessionInit == Init => SessionInv /\ Rdt!Init
<1> SUFFICES ASSUME Init PROVE SessionInv /\ Rdt!Init
  OBVIOUS
<1>1. BuffersOK /\ ClosesInOrder
  BY DEF Init, BuffersOK, ClosesInOrder, Clients
<1>2. Way("S") = {} /\ Way("R") = {}
  BY DEF Init, Way, Range, Clients, Other
<1>3. Rdt!Init
  BY <1>2 DEF Init, Rdt!Init
<1>4. Rdt!IInv
  BY <1>3, Sizes, PacketAssumption, SessionAssumption, Rdt!InitIInv
<1> QED BY <1>1, <1>3, <1>4 DEF SessionInv

-----------------------------------------------------------------------------
(* Every step is a step of RdtTransfer, or none.                           *)

RdtStep == [Rdt!Next]_(Rdt!vars)

\* A packet that moves on along its way is no step of RdtTransfer.
LEMMA MovesOnly ==
  ASSUME ProtocolSame, UNCHANGED <<Way("S"), Way("R")>>
  PROVE  UNCHANGED Rdt!vars
BY DEF ProtocolSame, senderVars, receiverVars, Rdt!vars, Rdt!senderVars,
       Rdt!receiverVars, Rdt!netVars

\* The ways, place by place.
LEMMA Ways ==
  /\ Way("S") = Range(out["S"]) \cup air["S"] \cup Range(inp["R"])
  /\ Way("R") = Range(out["R"]) \cup air["R"] \cup Range(inp["S"])
BY DEF Way, Other

LEMMA SenderReadsStep ==
  ASSUME SessionInv, SenderReads
  PROVE  RdtStep /\ BuffersOK' /\ ClosesInOrder'
<1>0. PICK a : a = Head(inp["S"])
  OBVIOUS
<1>1. /\ inp["S"] \in Seq(Packets) /\ inp["S"] # <<>>
      /\ inp' = [inp EXCEPT !["S"] = Tail(@)]
      /\ UNCHANGED <<out, air>>
  BY DEF SenderReads, Take, SessionInv, BuffersOK, Clients
<1>2. /\ a \in Packets /\ Tail(inp["S"]) \in Seq(Packets)
      /\ Range(inp["S"]) = {a} \cup Range(Tail(inp["S"]))
  BY <1>0, <1>1, RangeOfTail
<1>3. inp'["S"] = Tail(inp["S"]) /\ inp'["R"] = inp["R"]
  BY <1>1 DEF SessionInv, BuffersOK, Clients
<1>4. /\ UNCHANGED Way("S") /\ a \in Way("R")
      /\ Way("R")' \in {Way("R"), Way("R") \ {a}}
  <2>1. /\ Way("S")' = Range(out["S"]) \cup air["S"] \cup Range(inp["R"])
        /\ Way("R")' = Range(out["R"]) \cup air["R"]
                           \cup Range(Tail(inp["S"]))
    BY <1>1, <1>3 DEF Way, Other
  <2> QED BY <1>2, <2>1, Ways
<1>5. Rdt!SenderAck(a)
  BY <1>0, <1>4 DEF SenderReads, receiverVars, Rdt!SenderAck, Rdt!receiverVars
<1>6. BuffersOK' /\ ClosesInOrder'
  BY <1>1, <1>2
     DEF SenderReads, clientVars, receiverVars, SessionInv, BuffersOK,
         ClosesInOrder, Clients
<1> QED BY <1>4, <1>5, <1>6 DEF RdtStep, Rdt!Next, Rdt!Sender

LEMMA SenderTransmitsStep ==
  ASSUME SessionInv, NEW expired \in SUBSET Rdt!InFlight,
         SenderTransmits(expired)
  PROVE  RdtStep /\ BuffersOK' /\ ClosesInOrder'
<1> DEFINE seqs == expired \cup (nextSeq .. Rdt!FillTo - 1)
<1> USE Sizes
<1>1. /\ sendBase \in 0 .. TotalPkts /\ nextSeq \in 0 .. TotalPkts
      /\ Rdt!FillTo \in nextSeq .. TotalPkts
  <2>1. Rdt!TypeOK
    BY DEF SessionInv, Rdt!IInv
  <2>2. Rdt!FillTo \in nextSeq .. Rdt!TotalPkts
    BY <2>1, PacketAssumption, SessionAssumption, Rdt!FillToBounds
  <2>3. sendBase \in 0 .. TotalPkts /\ nextSeq \in 0 .. TotalPkts
    BY <2>1, SameConstants DEF Rdt!TypeOK
  <2> QED BY <2>2, <2>3, SameConstants
<1>2. seqs \subseteq PktSeqs
  BY <1>1 DEF PktSeqs, Rdt!InFlight
<1>3. seqs \in SUBSET Nat /\ IsFiniteSet(seqs)
  <2>1. IsFiniteSet(0 .. TotalPkts - 1)
    BY FS_Interval
  <2> QED BY <1>2, <2>1, FS_Subset DEF PktSeqs
<1>4. \A i \in seqs : DataPacket(i) \in Packets
  BY <1>2 DEF Packets, DataPackets
<1>5. /\ InOrder(seqs) \in Seq(Packets)
      /\ Range(InOrder(seqs)) = Rdt!Burst(expired)
  <2>1. Range(InOrder(seqs)) = {DataPacket(i) : i \in seqs}
    BY <1>3, <1>4, QueueInOrder
  <2>2. Rdt!Burst(expired) = {DataPacket(i) : i \in seqs}
    BY SameConstants DEF Rdt!Burst
  <2> QED BY <1>3, <1>4, <2>1, <2>2, QueueInOrder
<1>6. /\ out["S"] \in Seq(Packets)
      /\ out' = [out EXCEPT !["S"] = @ \o InOrder(seqs)]
      /\ UNCHANGED <<inp, air>>
  BY DEF SenderTransmits, Send, SessionInv, BuffersOK, Clients
<1>7. /\ out["S"] \o InOrder(seqs) \in Seq(Packets)
      /\ Range(out["S"] \o InOrder(seqs))
           = Range(out["S"]) \cup Rdt!Burst(expired)
  <2> HIDE DEF seqs
  <2>1. /\ out["S"] \o InOrder(seqs) \in Seq(Packets)
        /\ Range(out["S"] \o InOrder(seqs))
             = Range(out["S"]) \cup Range(InOrder(seqs))
    BY <1>5, <1>6, RangeOfConcat
  <2> QED BY <1>5, <2>1
<1>8. /\ out'["S"] = out["S"] \o InOrder(seqs)
      /\ out'["R"] = out["R"]
  BY <1>6 DEF SessionInv, BuffersOK, Clients
<1>9. /\ Way("S")' = Way("S") \cup Rdt!Burst(expired)
      /\ UNCHANGED Way("R")
  <2>1. /\ Way("S")' = Range(out["S"] \o InOrder(seqs)) \cup air["S"]
                          \cup Range(inp["R"])
        /\ Way("R")' = Range(out["R"]) \cup air["R"] \cup Range(inp["S"])
    BY <1>6, <1>8 DEF Way, Other
  <2> QED BY <1>7, <2>1, Ways
<1>10. Rdt!SenderTransmit(expired)
  BY <1>9 DEF SenderTransmits, receiverVars, Rdt!SenderTransmit,
              Rdt!receiverVars
<1>11. BuffersOK' /\ ClosesInOrder'
  BY <1>6, <1>7
     DEF SenderTransmits, clientVars, receiverVars, SessionInv, BuffersOK,
         ClosesInOrder, Clients
<1> QED BY <1>10, <1>11 DEF RdtStep, Rdt!Next, Rdt!Sender

LEMMA SenderReturnsStep ==
  ASSUME SessionInv, SenderReturns
  PROVE  RdtStep /\ BuffersOK' /\ ClosesInOrder'
<1>1. UNCHANGED <<Way("S"), Way("R")>>
  BY DEF SenderReturns, Way
<1>2. Rdt!SenderTop \/ Rdt!SenderFinish
  BY <1>1 DEF SenderReturns, LoopOver, receiverVars, Rdt!SenderTop,
              Rdt!SenderFinish, Rdt!receiverVars, Rdt!netVars
<1>3. BuffersOK' /\ ClosesInOrder'
  BY DEF SenderReturns, clientVars, receiverVars, SessionInv, BuffersOK,
         ClosesInOrder
<1> QED BY <1>2, <1>3 DEF RdtStep, Rdt!Next, Rdt!Sender

LEMMA ReceiverReadsStep ==
  ASSUME HeaderFits, SessionInv, ReceiverReads
  PROVE  RdtStep /\ BuffersOK' /\ ClosesInOrder'
<1> USE Sizes
<1>0. PICK p : p = Head(inp["R"])
  OBVIOUS
<1> DEFINE got == Rdt!ReceivedAfter(p, p.total)
<1>1. /\ inp["R"] \in Seq(Packets) /\ inp["R"] # <<>>
      /\ inp' = [inp EXCEPT !["R"] = Tail(@)]
      /\ UNCHANGED air
  BY DEF ReceiverReads, Take, SessionInv, BuffersOK, Clients
<1>2. /\ p \in Packets /\ Tail(inp["R"]) \in Seq(Packets)
      /\ Range(inp["R"]) = {p} \cup Range(Tail(inp["R"]))
  BY <1>0, <1>1, RangeOfTail
<1>3. p \in Way("S")
  BY <1>2, Ways
<1>4. PICK i \in PktSeqs : p = DataPacket(i)
  BY <1>3, SameConstants DEF SessionInv, Rdt!IInv, Rdt!TypeOK, DataPackets
<1>5. /\ p.seq = i /\ p.total = TotalPkts /\ p.payload = Chunk(i)
      /\ i \in 0 .. TotalPkts - 1
  BY <1>4, SameConstants, PacketAssumption, SessionAssumption,
     Rdt!HeadersAreFaithful DEF PktSeqs
<1>6. /\ expectedTotal \in {0, TotalPkts}
      /\ received \in SUBSET (0 .. expectedTotal - 1)
      /\ recvExpected \in 0 .. expectedTotal
  BY SameConstants, PacketAssumption, SessionAssumption,
     Rdt!HeadersAreFaithful DEF SessionInv, Rdt!IInv, Rdt!TypeOK
<1>7. got = received \cup {i}
  BY <1>5 DEF Rdt!ReceivedAfter
<1>8. PICK n \in recvExpected .. TotalPkts :
        /\ Rdt!FirstGap(n, got, TotalPkts)
        /\ recvExpected' = n
        /\ lastAck' = {AckPacket(n, got, TotalPkts)}
        /\ rPc' = IF n >= TotalPkts THEN "assemble" ELSE "loop"
  BY <1>0, <1>5 DEF ReceiverReads
<1> DEFINE ack == AckPacket(n, got, TotalPkts)
<1>9. ack \in Packets
  BY <1>6, <1>8, SameConstants, PacketAssumption, SessionAssumption,
     Rdt!AckPacketType DEF Packets
<1>10. /\ SetToSeq(lastAck') \in Seq(Packets)
       /\ Range(SetToSeq(lastAck')) = {ack}
  BY <1>8, <1>9, QueueOfOne
<1>11. /\ out["R"] \in Seq(Packets)
       /\ out' = [out EXCEPT !["R"] = @ \o SetToSeq(lastAck')]
  BY DEF ReceiverReads, Send, SessionInv, BuffersOK, Clients
<1>12. /\ out["R"] \o SetToSeq(lastAck') \in Seq(Packets)
       /\ Range(out["R"] \o SetToSeq(lastAck')) = Range(out["R"]) \cup {ack}
  BY <1>10, <1>11, RangeOfConcat
<1>13. /\ inp'["R"] = Tail(inp["R"]) /\ inp'["S"] = inp["S"]
       /\ out'["R"] = out["R"] \o SetToSeq(lastAck') /\ out'["S"] = out["S"]
  BY <1>1, <1>11 DEF SessionInv, BuffersOK, Clients
<1>14. /\ Way("S")' \in {Way("S"), Way("S") \ {p}}
       /\ Way("R")' = Way("R") \cup lastAck'
  <2>1. /\ Way("S")' = Range(out["S"]) \cup air["S"]
                          \cup Range(Tail(inp["R"]))
        /\ Way("R")' = Range(out["R"] \o SetToSeq(lastAck')) \cup air["R"]
                          \cup Range(inp["S"])
    BY <1>1, <1>13 DEF Way, Other
  <2>0. lastAck' = {ack}
    BY <1>8
  <2> HIDE DEF ack
  <2>2. Way("S")' \in {Way("S"), Way("S") \ {p}}
    BY <1>2, <2>1, Ways
  <2>3. Way("R")' = Way("R") \cup lastAck'
    BY <1>12, <2>0, <2>1, Ways
  <2> QED BY <2>2, <2>3
<1>15. /\ expectedTotal' = TotalPkts /\ received' = got /\ rPc = "loop"
       /\ recvBuffer' = Rdt!BufferAfter(p, TotalPkts)
  BY <1>0, <1>5 DEF ReceiverReads
<1>16. Rdt!ReceiveData(p)
  <2>1. (IF expectedTotal = 0 THEN p.total ELSE expectedTotal) = TotalPkts
    BY <1>5, <1>6
  <2>2. UNCHANGED <<Rdt!senderVars, stop, fileContents, assembled>>
    BY DEF ReceiverReads, senderVars, Rdt!senderVars
  <2> HIDE DEF got
  <2>3. \E m \in recvExpected .. TotalPkts :
          /\ Rdt!FirstGap(m, got, TotalPkts)
          /\ recvExpected' = m
          /\ lastAck' = {Rdt!AckPacket(m, got, TotalPkts)}
          /\ rPc' = IF m >= TotalPkts THEN "assemble" ELSE "loop"
    BY <1>8, SameConstants
  <2> QED BY <1>3, <1>5, <1>14, <1>15, <2>1, <2>2, <2>3
          DEF Rdt!ReceiveData, got
<1>17. ClosesInOrder'
  BY <1>15 DEF ReceiverReads, clientVars, SessionInv, ClosesInOrder
<1>18. BuffersOK'
  BY <1>1, <1>2, <1>8, <1>11, <1>12
     DEF ReceiverReads, clientVars, SessionInv, BuffersOK, Clients
<1>19. RdtStep
  BY <1>3, <1>16 DEF RdtStep, Rdt!Next, Rdt!Receiver
<1> QED BY <1>17, <1>18, <1>19

LEMMA ReceiverEndsStep ==
  ASSUME SessionInv, ReceiverEnds
  PROVE  RdtStep /\ BuffersOK' /\ ClosesInOrder'
<1>1. /\ UNCHANGED <<out, inp, air, clientVars, stop, lastAck>>
      /\ rPc' \in {rPc, "done"} /\ rPc = "assemble"
  BY DEF ReceiverEnds, Rdt!Assemble, Rdt!ReceiverReturn
<1>2. BuffersOK' /\ ClosesInOrder'
  BY <1>1 DEF clientVars, SessionInv, BuffersOK, ClosesInOrder
<1> QED BY <1>2 DEF ReceiverEnds, RdtStep, Rdt!Next, Rdt!Receiver

LEMMA ReceiverRepeatsStep ==
  ASSUME SessionInv, ReceiverRepeats
  PROVE  RdtStep /\ BuffersOK' /\ ClosesInOrder'
<1>1. PICK a : lastAck = {a}
  <2>1. PICK a : a \in lastAck
    BY DEF ReceiverRepeats
  <2>2. lastAck = {a}
    BY <2>1 DEF SessionInv, BuffersOK
  <2> QED BY <2>2
<1>2. a \in Packets
  BY <1>1, SameConstants DEF SessionInv, Rdt!IInv, Rdt!TypeOK, Packets
<1>3. /\ SetToSeq(lastAck) \in Seq(Packets)
      /\ Range(SetToSeq(lastAck)) = lastAck
  BY <1>1, <1>2, QueueOfOne
<1>4. /\ out["R"] \in Seq(Packets)
      /\ out' = [out EXCEPT !["R"] = @ \o SetToSeq(lastAck)]
      /\ UNCHANGED <<inp, air>>
  BY DEF ReceiverRepeats, Send, SessionInv, BuffersOK, Clients
<1>5. /\ out["R"] \o SetToSeq(lastAck) \in Seq(Packets)
      /\ Range(out["R"] \o SetToSeq(lastAck)) = Range(out["R"]) \cup lastAck
  BY <1>3, <1>4, RangeOfConcat
<1>6. /\ out'["R"] = out["R"] \o SetToSeq(lastAck)
      /\ out'["S"] = out["S"]
  BY <1>4 DEF SessionInv, BuffersOK, Clients
<1>7. UNCHANGED Way("S") /\ Way("R")' = Way("R") \cup lastAck
  <2>1. /\ Way("S")' = Range(out["S"]) \cup air["S"] \cup Range(inp["R"])
        /\ Way("R")' = Range(out["R"] \o SetToSeq(lastAck)) \cup air["R"]
                          \cup Range(inp["S"])
    BY <1>4, <1>6 DEF Way, Other
  <2> QED BY <1>5, <2>1, Ways
<1>8. Rdt!KeepAlive
  BY <1>7 DEF ReceiverRepeats, senderVars, receiverVars, Rdt!KeepAlive,
              Rdt!senderVars, Rdt!receiverVars
<1>9. BuffersOK' /\ ClosesInOrder'
  BY <1>4, <1>5
     DEF ReceiverRepeats, clientVars, receiverVars, SessionInv, BuffersOK,
         ClosesInOrder, Clients
<1> QED BY <1>8, <1>9 DEF RdtStep, Rdt!Next, Rdt!Receiver

LEMMA TransmitStep ==
  ASSUME SessionInv, NEW c \in Clients, Transmit(c)
  PROVE  RdtStep /\ BuffersOK' /\ ClosesInOrder'
<1>1. /\ out[c] \in Seq(Packets) /\ out[c] # <<>>
      /\ out' = [out EXCEPT ![c] = Tail(@)]
      /\ air' = [air EXCEPT ![c] = @ \cup {Head(out[c])}]
      /\ UNCHANGED inp
  BY DEF Transmit, SessionInv, BuffersOK
<1>2. /\ Head(out[c]) \in Packets /\ Tail(out[c]) \in Seq(Packets)
      /\ Range(out[c]) = {Head(out[c])} \cup Range(Tail(out[c]))
  BY <1>1, RangeOfTail
<1>3. /\ out'[c] = Tail(out[c]) /\ air'[c] = air[c] \cup {Head(out[c])}
      /\ \A d \in Clients \ {c} : out'[d] = out[d] /\ air'[d] = air[d]
  BY <1>1 DEF SessionInv, BuffersOK
<1>4. \A d \in Clients : Way(d)' = Way(d)
  BY <1>1, <1>2, <1>3 DEF Way
<1>5. RdtStep
  BY <1>4, MovesOnly DEF Transmit, RdtStep, Clients
<1>6. BuffersOK' /\ ClosesInOrder'
  BY <1>1, <1>2
     DEF Transmit, clientVars, ProtocolSame, receiverVars, SessionInv,
         BuffersOK, ClosesInOrder
<1> QED BY <1>5, <1>6

LEMMA DeliverStep ==
  ASSUME SessionInv, NEW c \in Clients, NEW p \in air[c], Deliver(c, p)
  PROVE  RdtStep /\ BuffersOK' /\ ClosesInOrder'
<1>1. /\ Other(c) \in Clients /\ p \in Packets
      /\ inp[Other(c)] \in Seq(Packets)
      /\ air' = [air EXCEPT ![c] = @ \ {p}]
      /\ inp' = [inp EXCEPT ![Other(c)] = Append(@, p)]
      /\ UNCHANGED out
  BY DEF Deliver, SessionInv, BuffersOK, Clients, Other
<1>2. /\ Append(inp[Other(c)], p) \in Seq(Packets)
      /\ Range(Append(inp[Other(c)], p)) = Range(inp[Other(c)]) \cup {p}
  BY <1>1, RangeOfAppend
<1>3. /\ inp'[Other(c)] = Append(inp[Other(c)], p)
      /\ air'[c] = air[c] \ {p}
      /\ \A d \in Clients \ {c} : /\ inp'[Other(d)] = inp[Other(d)]
                                 /\ air'[d] = air[d]
  BY <1>1 DEF SessionInv, BuffersOK, Clients, Other
<1>4. \A d \in Clients : Way(d)' = Way(d)
  <2>1. Way(c)' = Way(c)
    BY <1>1, <1>2, <1>3 DEF Way
  <2>2. \A d \in Clients \ {c} : Way(d)' = Way(d)
    BY <1>1, <1>3 DEF Way
  <2> QED BY <2>1, <2>2
<1>5. RdtStep
  BY <1>4, MovesOnly DEF Deliver, RdtStep, Clients
<1>6. BuffersOK' /\ ClosesInOrder'
  BY <1>1, <1>2
     DEF Deliver, clientVars, ProtocolSame, receiverVars, SessionInv,
         BuffersOK, ClosesInOrder
<1> QED BY <1>5, <1>6

LEMMA LoseStep ==
  ASSUME SessionInv, NEW c \in Clients, NEW p \in air[c], Lose(c, p)
  PROVE  RdtStep /\ BuffersOK' /\ ClosesInOrder'
<1>1. air' = [air EXCEPT ![c] = @ \ {p}] /\ UNCHANGED <<out, inp>>
  BY DEF Lose
<1>2. /\ air'[c] = air[c] \ {p}
      /\ \A d \in Clients \ {c} : air'[d] = air[d]
  BY <1>1 DEF SessionInv, BuffersOK
<1>3. /\ p \in Way(c) /\ Way(c)' \in {Way(c), Way(c) \ {p}}
      /\ \A d \in Clients \ {c} : Way(d)' = Way(d)
  BY <1>1, <1>2 DEF Way
<1>4. UNCHANGED <<Rdt!senderVars, stop, Rdt!receiverVars>>
  BY DEF Lose, ProtocolSame, senderVars, receiverVars, Rdt!senderVars,
         Rdt!receiverVars
<1>5. ASSUME Way(c)' = Way(c) PROVE RdtStep
  BY <1>3, <1>5, MovesOnly DEF Lose, RdtStep, Clients
<1>6. ASSUME Way(c)' = Way(c) \ {p} PROVE RdtStep
  <2>1. Rdt!Lose
    BY <1>3, <1>4, <1>6 DEF Rdt!Lose, Clients
  <2> QED BY <2>1 DEF RdtStep, Rdt!Next
<1>7. BuffersOK' /\ ClosesInOrder'
  BY <1>1 DEF Lose, clientVars, ProtocolSame, receiverVars, SessionInv,
              BuffersOK, ClosesInOrder
<1> QED BY <1>3, <1>5, <1>6, <1>7

\* main() of the two clients, the server, and the event loops' ends.
LEMMA ClosingStep ==
  ASSUME SessionInv,
         \/ \E c \in Clients : LoopEnds(c)
         \/ MainStops \/ MainJoins \/ Upload \/ Stop
         \/ ServerEnds \/ ServerAborts
  PROVE  RdtStep /\ BuffersOK' /\ ClosesInOrder'
<1>1. UNCHANGED <<out, inp, air>> /\ UNCHANGED <<Way("S"), Way("R")>>
  BY DEF LoopEnds, MainStops, MainJoins, Upload, Stop, ServerEnds,
         ServerAborts, ServerSays, Main, Way
<1>2. CASE MainStops
  <2>1. /\ mPc' = [mPc EXCEPT !["S"] = "join"] /\ ~ started["S"]
        /\ UNCHANGED <<senderVars, receiverVars, started, server>>
        /\ stop' = TRUE
    BY <1>2 DEF MainStops, LoopJoined, Main
  <2>2. RdtStep
    BY <1>1, <2>1
       DEF RdtStep, Rdt!Next, Rdt!SetStop, senderVars, receiverVars, Rdt!vars,
           Rdt!senderVars, Rdt!receiverVars, Rdt!netVars
  <2>3. BuffersOK' /\ ClosesInOrder'
    BY <1>1, <2>1
       DEF receiverVars, SessionInv, BuffersOK, ClosesInOrder, Clients
  <2> QED BY <2>2, <2>3
<1>3. ASSUME ProtocolSame PROVE RdtStep
  BY <1>1, <1>3, MovesOnly DEF RdtStep
<1>4. ASSUME NEW c \in Clients, LoopEnds(c)
      PROVE  RdtStep /\ BuffersOK' /\ ClosesInOrder'
  <2>1. BuffersOK' /\ ClosesInOrder'
    BY <1>1, <1>4 DEF LoopEnds, ProtocolSame, receiverVars, SessionInv,
                      BuffersOK, ClosesInOrder, Clients
  <2> QED BY <1>3, <1>4, <2>1 DEF LoopEnds
<1>5. CASE MainJoins \/ Upload \/ Stop
  <2>1. BuffersOK'
    BY <1>1, <1>5 DEF MainJoins, Upload, Stop, Main, ProtocolSame,
                      receiverVars, SessionInv, BuffersOK, Clients
  <2>2. ClosesInOrder'
    <3>1. /\ UNCHANGED <<stop, rPc, server>>
          /\ started'["S"] = started["S"]
      BY <1>5 DEF MainJoins, Upload, Stop, ProtocolSame, receiverVars,
                  SessionInv, BuffersOK, Clients
    <3>2. CASE MainJoins
      BY <3>1, <3>2 DEF MainJoins, Main, SessionInv, BuffersOK,
                        ClosesInOrder, Clients
    <3>3. CASE Upload \/ Stop
      BY <3>1, <3>3 DEF Upload, Stop, Main, SessionInv,
                        BuffersOK, ClosesInOrder, Clients
    <3> QED BY <1>5, <3>2, <3>3
  <2> QED BY <1>3, <1>5, <2>1, <2>2 DEF MainJoins, Upload, Stop
<1>6. CASE ServerEnds \/ ServerAborts
  <2>1. BuffersOK' /\ ClosesInOrder'
    BY <1>1, <1>6 DEF ServerEnds, ServerAborts, ServerSays, ProtocolSame,
                      receiverVars, SessionInv, BuffersOK, ClosesInOrder
  <2> QED BY <1>3, <1>6, <2>1 DEF ServerEnds, ServerAborts, ServerSays
<1> QED BY <1>2, <1>4, <1>5, <1>6

LEMMA SessionStep ==
  ASSUME HeaderFits, SessionInv, [Next]_vars
  PROVE  RdtStep /\ SessionInv'
<1>1. RdtStep /\ BuffersOK' /\ ClosesInOrder'
  <2>1. CASE UNCHANGED vars
    <3>1. UNCHANGED <<Way("S"), Way("R")>> /\ ProtocolSame
      BY <2>1 DEF vars, Way, ProtocolSame
    <3>2. BuffersOK' /\ ClosesInOrder'
      BY <2>1 DEF vars, clientVars, receiverVars, SessionInv, BuffersOK,
                  ClosesInOrder
    <3> QED BY <3>1, <3>2, MovesOnly DEF RdtStep
  <2> QED
    BY <2>1, SenderReadsStep, SenderTransmitsStep, SenderReturnsStep,
       ReceiverReadsStep, ReceiverRepeatsStep, ReceiverEndsStep, TransmitStep,
       DeliverStep, LoseStep, ClosingStep DEF Next, Over
<1>2. Rdt!IInv'
  BY <1>1, SameConstants, PacketAssumption, SessionAssumption, Rdt!IInvStep
     DEF SessionInv, RdtStep
<1> QED BY <1>1, <1>2 DEF SessionInv

-----------------------------------------------------------------------------
(* The theorems.                                                           *)

\* Between two clients that move packets through two buffers, a socket and a
\* relay the inductive invariant of RdtTransfer holds, and the session closes
\* in order.
THEOREM SessionInvHolds == HeaderFits => (Spec => []SessionInv)
<1> SUFFICES ASSUME HeaderFits PROVE Spec => []SessionInv
  OBVIOUS
<1>1. Init => SessionInv
  BY SessionInit
<1>2. SessionInv /\ [Next]_vars => SessionInv'
  BY SessionStep
<1> QED BY <1>1, <1>2, PTL DEF Spec

\* What the clients, their event loops and the relay do with the packets of
\* sender() and receiver() is what the channels of RdtTransfer do.
THEOREM TransferImplemented == HeaderFits => (Spec => ImplementsTransfer)
<1> SUFFICES ASSUME HeaderFits PROVE Spec => Rdt!Spec
  BY DEF ImplementsTransfer
<1>1. Init => Rdt!Init
  BY SessionInit
<1>2. SessionInv /\ [Next]_vars => [Rdt!Next]_(Rdt!vars)
  BY SessionStep DEF RdtStep
<1> QED BY <1>1, <1>2, SessionInvHolds, PTL DEF Spec, Rdt!Spec

\* sender() returns with a part of the file undelivered only when the server
\* gave the session up, its own event loop ended on that and main() told it to
\* stop; and what the receiver's main() uploads is the sender's file.
THEOREM NeverBeforeDelivered == HeaderFits => (Spec => []NotBeforeDelivered)
<1> SUFFICES ASSUME HeaderFits PROVE Spec => []NotBeforeDelivered
  OBVIOUS
<1>1. SessionInv /\ Rdt!FileIntact => NotBeforeDelivered
  <2> SUFFICES ASSUME SessionInv, Rdt!FileIntact PROVE NotBeforeDelivered
    OBVIOUS
  <2> USE Sizes
  <2>1. ASSUME rPc # "loop" PROVE received = PktSeqs
    BY <2>1, SameConstants
       DEF SessionInv, Rdt!IInv, Rdt!FirstGapKept, Rdt!TypeOK, PktSeqs
  <2>2. ASSUME sPc = "done", received # PktSeqs
        PROVE  stop /\ ~ started["S"] /\ server = "aborted"
    <3>1. CASE stop
      <4>1. rPc = "loop"
        BY <2>1, <2>2
      <4>2. ~ started["S"] /\ server # "running" /\ server # "finished"
        BY <3>1, <4>1 DEF SessionInv, ClosesInOrder
      <4> QED BY <3>1, <4>2 DEF SessionInv, BuffersOK
    <3>2. CASE ~ stop
      <4>1. sendBase = TotalPkts
        BY <2>2, <3>2, SameConstants
           DEF SessionInv, Rdt!IInv, Rdt!EndIsJustified
      <4>2. PktSeqs \subseteq received
        BY <4>1 DEF SessionInv, Rdt!IInv, Rdt!SentBounds, PktSeqs
      <4>3. received \subseteq PktSeqs
        BY SameConstants, PacketAssumption, SessionAssumption,
           Rdt!HeadersAreFaithful
           DEF SessionInv, Rdt!IInv, Rdt!TypeOK, PktSeqs
      <4> QED BY <2>2, <4>2, <4>3
    <3> QED BY <3>1, <3>2
  <2>3. ASSUME mPc["R"] # "run" PROVE fileContents = FileContents
    BY <2>3 DEF SessionInv, ClosesInOrder, Rdt!FileIntact
  <2> QED BY <2>2, <2>3 DEF NotBeforeDelivered
<1>2. Rdt!Spec => []Rdt!FileIntact
  BY SameConstants, PacketAssumption, SessionAssumption, Rdt!FileIntactAlways
<1> QED BY <1>1, <1>2, SessionInvHolds, TransferImplemented, PTL
        DEF ImplementsTransfer

\* Between two whole clients the two functions still keep the promise of
\* IRDTProtocol, also in a session that is given up: sender() takes nothing
\* for delivered that is not, and what receiver() has concatenated when it
\* returns is the file.
THEOREM PromiseKeptInSession ==
  HeaderFits => (Spec => Rdt!KeepsPromise /\ []Rdt!FileIntact)
<1> SUFFICES ASSUME HeaderFits
             PROVE  Spec => Rdt!KeepsPromise /\ []Rdt!FileIntact
  OBVIOUS
<1>1. Rdt!Spec => Rdt!KeepsPromise
  BY SameConstants, PacketAssumption, SessionAssumption, Rdt!PromiseKept
<1>2. Rdt!Spec => []Rdt!FileIntact
  BY SameConstants, PacketAssumption, SessionAssumption, Rdt!FileIntactAlways
<1> QED BY <1>1, <1>2, TransferImplemented, PTL DEF ImplementsTransfer
=============================================================================
