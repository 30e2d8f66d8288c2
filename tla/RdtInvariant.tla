---------------------------- MODULE RdtInvariant ----------------------------
(***************************************************************************)
(* The inductive invariant of RdtTransfer, in named parts.  TLC checks it  *)
(* as an invariant of the runs; RdtTransferProofs proves that the actions  *)
(* preserve it when the packet count fits the header field.                *)
(***************************************************************************)
EXTENDS RdtTransfer

\* Acknowledgements the sender may still be handed: those under way, and
\* the one the receiver keeps for its keepalive.
Acks == ackNet \cup lastAck

\* The window is well formed: acked is full below sendBase, and nothing
\* beyond nextSeq has been sent, acknowledged or received.
SentBounds ==
  /\ sendBase <= nextSeq
  /\ \A i \in 0 .. sendBase - 1 : i \in acked
  /\ acked \subseteq received
  /\ \A i \in received : i < nextSeq
  /\ \A p \in dataNet : \E i \in 0 .. nextSeq - 1 : p = DataPacket(i)

\* recvExpected is the first gap of received, and receiver() leaves its
\* loop exactly when there is none.
FirstGapKept ==
  /\ \A i \in 0 .. recvExpected - 1 : i \in received
  /\ recvExpected \notin received
  /\ expectedTotal = 0 => received = {} /\ Acks = {}
  /\ rPc = "loop" => expectedTotal = 0 \/ recvExpected < expectedTotal
  /\ rPc # "loop" => expectedTotal = TotalPkts /\ recvExpected = TotalPkts

\* What an acknowledgement says was true when it was sent, and stays true.
AcksAreSound ==
  \A a \in Acks :
    /\ a.base <= recvExpected
    /\ SackedBy(a) \subseteq received

\* The base of an acknowledgement was missing when it was sent, so no mask
\* sent before names it, and a mask sent later starts above it.  The
\* sender's base is an acknowledgement's base, or 0.
BasesAreGaps ==
  /\ sendBase <= recvExpected
  /\ sendBase \notin acked
  /\ \A a \in Acks : sendBase \notin SackedBy(a)
  /\ \A a \in Acks : a.base \in acked => a.base < sendBase
  /\ \A a, b \in Acks : a.base \notin SackedBy(b)

\* The sender's window.
WindowKept ==
  /\ Cardinality(InFlight) <= WINDOW
  /\ \A i \in acked : i < sendBase + SACK_BITS

\* The receiver's copy of the file, in the buffer and as concatenated.
CopyIsFaithful ==
  /\ \A i \in received : recvBuffer[i] = Chunk(i)
  /\ fileContents = SubSeq(FileContents, 1, OffsetOf(assembled))
  /\ rPc = "loop" => assembled = 0
  /\ rPc = "done" => assembled = expectedTotal

\* sender() returns for one of its two reasons.
EndIsJustified == sPc = "done" => stop \/ sendBase = TotalPkts

IInv ==
  /\ TypeOK
  /\ SentBounds
  /\ FirstGapKept
  /\ AcksAreSound
  /\ BasesAreGaps
  /\ WindowKept
  /\ CopyIsFaithful
  /\ EndIsJustified
=============================================================================
