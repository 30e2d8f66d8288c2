----------------------------- MODULE RdtTransfer ----------------------------
(***************************************************************************)
(* my_protocol::MyProtocol: sender() in one process, receiver() in another *)
(* one, and between them everything a packet crosses (the framework's      *)
(* packet buffers, both event loops and the challenge server) taken as one *)
(* channel in each direction that loses, delays, duplicates and reorders.  *)
(*                                                                         *)
(* Time is abstracted: whether sentTime[i] is more than TIMEOUT_MS old, or *)
(* the last acknowledgement more than ACK_KEEPALIVE_MS, is a free choice.  *)
(***************************************************************************)
EXTENDS RdtPackets

CONSTANT WINDOW     \* bound on the unacknowledged packets in flight

ASSUME WindowAssumption == WINDOW \in Nat \ {0}

VARIABLES
  \* sender()
  sPc,           \* "top": loop condition, "drain": reading acks, "done"
  sendBase,      \* every packet below it is acknowledged
  nextSeq,       \* next packet never sent so far
  acked,         \* the set of i with acked[i]
  stop,          \* set by the main thread once the event loop has ended
  \* receiver()
  rPc,           \* "loop", "assemble": concatenating recvBuffer, "done"
  expectedTotal, \* 0 until the first data packet
  recvExpected,  \* every packet below it is received
  recvBuffer,    \* payloads, indexed by sequence number
  received,      \* the set of i with received[i]
  lastAck,       \* {} or the singleton of the last acknowledgement sent
  fileContents,  \* the file as concatenated so far
  assembled,     \* chunks already concatenated
  \* the channels
  dataNet,       \* data packets under way to the receiver
  ackNet         \* acknowledgements under way to the sender

senderVars   == <<sPc, sendBase, nextSeq, acked>>
receiverVars == <<rPc, expectedTotal, recvExpected, recvBuffer, received,
                  lastAck, fileContents, assembled>>
netVars      == <<dataNet, ackNet>>
vars         == <<senderVars, stop, receiverVars, netVars>>

TypeOK ==
  /\ sPc \in {"top", "drain", "done"}
  /\ sendBase \in 0 .. TotalPkts
  /\ nextSeq \in 0 .. TotalPkts
  /\ acked \in SUBSET PktSeqs
  /\ stop \in BOOLEAN
  /\ rPc \in {"loop", "assemble", "done"}
  /\ expectedTotal \in {0, Hdr(TotalPkts)}
  /\ recvExpected \in 0 .. expectedTotal
  /\ recvBuffer \in [0 .. expectedTotal - 1 -> Seq(Nat)]
  /\ received \in SUBSET (0 .. expectedTotal - 1)
  /\ lastAck \in SUBSET AckPackets
  /\ fileContents \in Seq(Nat)
  /\ assembled \in 0 .. expectedTotal
  /\ dataNet \in SUBSET DataPackets
  /\ ackNet \in SUBSET AckPackets

Init ==
  /\ sPc = "top" /\ sendBase = 0 /\ nextSeq = 0 /\ acked = {}
  /\ stop = FALSE
  /\ rPc = "loop" /\ expectedTotal = 0 /\ recvExpected = 0
  /\ recvBuffer = <<>> /\ received = {} /\ lastAck = {}
  /\ fileContents = <<>> /\ assembled = 0
  /\ dataNet = {} /\ ackNet = {}

-----------------------------------------------------------------------------
(* sender()                                                                *)

\* Packets sent and not acknowledged: what the loop counts as inFlight.
InFlight == {i \in sendBase .. nextSeq - 1 : i \notin acked}

\* How far nextSeq gets in one iteration: the window counts packets that
\* are not acknowledged, not the distance from sendBase.  (Mutants: without
\* the bound on the file's end; with a window that ignores InFlight.)
FillToPastEnd == nextSeq + MaxOf(0, WINDOW - Cardinality(InFlight))
FillToFullWindow == MinOf(TotalPkts, nextSeq + WINDOW)
FillTo ==
  LET room == WINDOW - Cardinality(InFlight)
  IN  MinOf(TotalPkts, nextSeq + MaxOf(0, room))

\* An acknowledgement ahead of what was sent is not believed.
Plausible(a) == a.base <= nextSeq /\ a.base <= TotalPkts

\* while (sendBase < ab).  (Mutant: an assignment in place of the loop.)
BaseAfterAssigned(a) == a.base
BaseAfter(a) == MaxOf(sendBase, a.base)

\* The packets marked once a is read.  (Mutant: the packet at the base of
\* the acknowledgement is marked too.)
AckedAfterInclusive(a) ==
  acked \cup (sendBase .. MinOf(a.base, TotalPkts - 1))
        \cup {s \in SackedBy(a) : s < nextSeq /\ s < TotalPkts}
AckedAfter(a) ==
  acked \cup (sendBase .. a.base - 1)
        \cup {s \in SackedBy(a) : s < nextSeq /\ s < TotalPkts}

\* sendBase >= totalPkts, the sender's test for the end.  (Mutants: every
\* packet sent, acknowledged or not; totalPkts kept in sixteen bits.)
AllSent == nextSeq >= TotalPkts
AllAckedTruncated == sendBase >= Hdr(TotalPkts)
AllAcked == sendBase >= TotalPkts

\* The condition of the outer loop.  (Mutant: the stop flag is not read.)
LoopConditionNoStop == ~ AllAcked
LoopCondition == ~ stop /\ ~ AllAcked

\* The packets one pass hands to the network layer.  (Mutant: no packet is
\* ever sent a second time.)
BurstNewOnly(expired) == {DataPacket(i) : i \in nextSeq .. FillTo - 1}
Burst(expired) == {DataPacket(i) : i \in expired \cup (nextSeq .. FillTo - 1)}

SenderTop ==
  /\ sPc = "top"
  /\ sPc' = IF LoopCondition THEN "drain" ELSE "done"
  /\ UNCHANGED <<sendBase, nextSeq, acked, stop, receiverVars, netVars>>

\* Within a pass of the loop.  The loop condition is either evaluated in a
\* step of its own (SenderTop) or together with the first step of the pass.
InPass == sPc = "drain" \/ (sPc = "top" /\ LoopCondition)

\* One acknowledgement read off the input buffer; the channel may keep a
\* duplicate of it.
SenderAck(a) ==
  /\ InPass
  /\ a \in ackNet
  /\ Plausible(a)
  /\ sendBase' = BaseAfter(a)
  /\ acked' = AckedAfter(a)
  /\ ackNet' \in {ackNet, ackNet \ {a}}
  /\ sPc' = "drain"
  /\ UNCHANGED <<nextSeq, stop, receiverVars, dataNet>>

\* No acknowledgement left to read and the whole file acknowledged.
SenderFinish ==
  /\ sPc = "drain"
  /\ AllAcked
  /\ sPc' = "done"
  /\ UNCHANGED <<sendBase, nextSeq, acked, stop, receiverVars, netVars>>

\* No acknowledgement left to read: the packets in expired, whose timer ran
\* out, are sent again, then new ones as far as the window allows.
SenderTransmit(expired) ==
  /\ InPass
  /\ ~ AllAcked
  /\ expired \subseteq InFlight
  /\ dataNet' = dataNet \cup Burst(expired)
  /\ nextSeq' = FillTo
  /\ sPc' = "top"
  /\ UNCHANGED <<sendBase, acked, stop, receiverVars, ackNet>>

\* setStop(), called by the main thread when the event loop has ended.
SetStop ==
  /\ ~ stop
  /\ stop' = TRUE
  /\ UNCHANGED <<senderVars, receiverVars, netVars>>

-----------------------------------------------------------------------------
(* receiver()                                                              *)

\* recvBuffer once resized for the first packet's total.
Resized(total) ==
  IF expectedTotal = 0 THEN [i \in 0 .. total - 1 |-> <<>>] ELSE recvBuffer

\* recvBuffer once p is stored.  (Mutant: stored in order of arrival.)
BufferAfterInOrder(p, total) ==
  IF p.seq < total /\ p.seq \notin received
  THEN [Resized(total) EXCEPT ![recvExpected] = p.payload]
  ELSE Resized(total)
BufferAfter(p, total) ==
  IF p.seq < total /\ p.seq \notin received
  THEN [Resized(total) EXCEPT ![p.seq] = p.payload]
  ELSE Resized(total)

ReceivedAfter(p, total) ==
  IF p.seq < total THEN received \cup {p.seq} ELSE received

\* n is where the loop that advances recvExpected stops.  (Mutant: it goes
\* on past a gap to the last packet held.)
FirstGapSkipped(n, got, total) ==
  /\ n \in recvExpected .. total
  /\ \A k \in n .. total - 1 : k \notin got
  /\ n = 0 \/ n = recvExpected \/ n - 1 \in got
FirstGap(n, got, total) ==
  /\ n \in recvExpected .. total
  /\ \A k \in recvExpected .. n - 1 : k \in got
  /\ n >= total \/ n \notin got

\* A data packet: stored if it is new, acknowledged in any case.  A packet
\* with another total is discarded, as if it were lost.
ReceiveData(p) ==
  LET total == IF expectedTotal = 0 THEN p.total ELSE expectedTotal
      got   == ReceivedAfter(p, total)
  IN  /\ rPc = "loop"
      /\ p \in dataNet
      /\ p.total = total
      /\ expectedTotal' = total
      /\ recvBuffer' = BufferAfter(p, total)
      /\ received' = got
      /\ \E n \in recvExpected .. total :
           /\ FirstGap(n, got, total)
           /\ recvExpected' = n
           /\ lastAck' = {AckPacket(n, got, total)}
           /\ rPc' = IF n >= total THEN "assemble" ELSE "loop"
      /\ ackNet' = ackNet \cup lastAck'
      /\ dataNet' \in {dataNet, dataNet \ {p}}
      /\ UNCHANGED <<senderVars, stop, fileContents, assembled>>

\* No packet has arrived for ACK_KEEPALIVE_MS.
KeepAlive ==
  /\ rPc = "loop"
  /\ lastAck # {}
  /\ ackNet' = ackNet \cup lastAck
  /\ UNCHANGED <<senderVars, stop, receiverVars, dataNet>>

\* No packet has arrived, and the keepalive is not due.
ReceiverIdle == rPc = "loop" /\ UNCHANGED vars

\* One pass of the loop that concatenates the chunks, then the return.
Assemble ==
  /\ rPc = "assemble"
  /\ assembled < expectedTotal
  /\ fileContents' = fileContents \o recvBuffer[assembled]
  /\ assembled' = assembled + 1
  /\ UNCHANGED <<senderVars, stop, rPc, expectedTotal, recvExpected,
                 recvBuffer, received, lastAck, netVars>>

ReceiverReturn ==
  /\ rPc = "assemble"
  /\ assembled >= expectedTotal
  /\ rPc' = "done"
  /\ UNCHANGED <<senderVars, stop, expectedTotal, recvExpected, recvBuffer,
                 received, lastAck, fileContents, assembled, netVars>>

-----------------------------------------------------------------------------
(* The channels, and the specification.                                    *)

\* A packet lost on the way, or discarded on arrival by the header check.
Lose ==
  /\ \/ \E p \in dataNet : dataNet' = dataNet \ {p} /\ UNCHANGED ackNet
     \/ \E a \in ackNet  : ackNet' = ackNet \ {a} /\ UNCHANGED dataNet
  /\ UNCHANGED <<senderVars, stop, receiverVars>>

\* Both functions have returned.
Returned == sPc = "done" /\ rPc = "done" /\ UNCHANGED vars

Sender ==
  \/ SenderTop
  \/ \E a \in ackNet : SenderAck(a)
  \/ SenderFinish
  \/ \E expired \in SUBSET InFlight : SenderTransmit(expired)

Receiver ==
  \/ \E p \in dataNet : ReceiveData(p)
  \/ KeepAlive
  \/ ReceiverIdle
  \/ Assemble
  \/ ReceiverReturn

Next == Sender \/ SetStop \/ Receiver \/ Lose \/ Returned

Spec == Init /\ [][Next]_vars

(***************************************************************************)
(* The fairness the code justifies.  Each function is a polling loop of    *)
(* its thread, so each takes its next step.  A packet in flight that stays *)
(* unacknowledged grows older than TIMEOUT_MS and is sent again by a later *)
(* pass.  The relay does not for ever lose a packet that is sent again and *)
(* again (SF).  The server ends the simulation once it has the receiver's  *)
(* checksum, and the main thread then calls setStop.                       *)
(***************************************************************************)
SendAgain(i) ==
  \E expired \in SUBSET InFlight : i \in expired /\ SenderTransmit(expired)

DeliverLastAck == \E a \in lastAck \cap ackNet : SenderAck(a)

StopWhenReceived == rPc = "done" /\ SetStop

Fairness ==
  /\ WF_vars(SenderTop)
  /\ WF_vars(SenderFinish)
  /\ WF_vars(\E expired \in SUBSET InFlight : SenderTransmit(expired))
  /\ WF_vars(KeepAlive)
  /\ WF_vars(Assemble)
  /\ WF_vars(ReceiverReturn)
  /\ WF_vars(StopWhenReceived)
  /\ \A i \in PktSeqs : WF_vars(SendAgain(i))
  /\ \A i \in PktSeqs : SF_vars(ReceiveData(DataPacket(i)))
  /\ SF_vars(DeliverLastAck)

FairSpec == Spec /\ Fairness

-----------------------------------------------------------------------------
(* Properties.                                                             *)

\* The sender never takes a packet for delivered that the receiver does not
\* hold: whatever old acknowledgements arrive, in whatever order.
AckedIsReceived == acked \subseteq received

\* The oldest packet of the window is never marked acknowledged by a mask.
\* sender() moves sendBase on cumulative acknowledgements only and sends
\* only unmarked packets again, so a marked sendBase would be a packet it
\* can neither pass nor repeat.
BaseIsUnacked == sendBase < TotalPkts => sendBase \notin acked

\* The window bounds the unacknowledged packets; how far the sender runs
\* ahead of sendBase follows from it and from the width of the mask.
WindowSpan ==
  /\ Cardinality(InFlight) <= WINDOW
  /\ nextSeq - sendBase <= WINDOW + SACK_BITS - 1

\* A file whose packet count does not fit the header is never reported as
\* delivered: the receiver cannot acknowledge more than it was told to
\* expect, so only setStop() ends the sender.
OversizedNotDelivered == ~ HeaderFits => (sPc = "done" => stop)

\* Every acknowledgement the receiver sends passes the sender's test
\* (ab > nextSeq || ab > totalPkts is never true of one).
AcksArePlausible == \A a \in ackNet : Plausible(a)

\* receiver() returns exactly the bytes of the sender's file.
FileIntact == rPc = "done" => fileContents = FileContents

\* A sender that returns without having been stopped leaves a receiver that
\* holds the whole file.
FinishedIsDelivered ==
  sPc = "done" /\ ~ stop => received = PktSeqs /\ rPc # "loop"

\* The file arrives, unless the framework stops the sender first.
EventuallyDelivered == <>(rPc = "done" \/ stop)

\* How sender() ended, if it has, and what receiver() returned.
Outcome ==
  CASE sPc # "done" -> "sending"
    [] sPc = "done" /\ sendBase = TotalPkts -> "delivered"
    [] sPc = "done" /\ sendBase # TotalPkts -> "stopped"

Output == IF rPc = "done" THEN <<"file", recvBuffer>> ELSE <<"none">>

Promise == INSTANCE ReliableFile
             WITH held <- received, known <- acked,
                  outcome <- Outcome, output <- Output

\* sender() and receiver() together do what the protocol interface promises
\* the program, whatever the channels do.
KeepsPromise == Promise!Spec
=============================================================================
