--------------------------- MODULE TimedTransfer ---------------------------
(***************************************************************************)
(* RdtTransfer with its clocks: when sender() takes a packet for lost and  *)
(* when receiver() repeats its acknowledgement.  There is no clock to read *)
(* here, only ages: the time since something happened, in ticks.           *)
(*                                                                         *)
(* sender() reads the clock once in a pass, before it drains the           *)
(* acknowledgements, and compares and stamps with that `now` afterwards:   *)
(* lag is how stale it is.                                                 *)
(***************************************************************************)
EXTENDS RdtPackets

CONSTANTS
  WINDOW,
  TIMEOUT_MS, ACK_KEEPALIVE_MS,
  MaxPause,     \* longest time a loop takes to its next step, and sleeps
  MaxDelay,     \* longest way from one side's buffer to the other's
  MaxLostData, MaxLostAcks   \* bounds on the packets the relay loses

ASSUME TimeAssumption ==
  /\ WINDOW \in Nat \ {0}
  /\ TIMEOUT_MS \in Nat /\ ACK_KEEPALIVE_MS \in Nat
  /\ MaxPause \in Nat \ {0} /\ MaxDelay \in Nat
  /\ MaxLostData \in Nat /\ MaxLostAcks \in Nat

VARIABLES
  sPc, sendBase, nextSeq, acked,                         \* sender()
  rPc, expectedTotal, recvExpected, received, lastAck,   \* receiver()
  lag,       \* in a pass the age of `now`, between passes the time slept
  sentAge,   \* age of sentTime[i]
  quiet,     \* age of lastRecvTime
  dataAir,   \* data packets under way: [pkt, age]
  ackAir,    \* acknowledgements under way
  inAcks,    \* acknowledgements in the sender's input buffer
  lost       \* how many packets the relay has lost: [data, acks]

senderVars   == <<sPc, sendBase, nextSeq, acked>>
receiverVars == <<rPc, expectedTotal, recvExpected, received, lastAck>>
vars == <<senderVars, receiverVars, lag, sentAge, quiet, dataAir, ackAir,
          inAcks, lost>>

PacketsOf(air) == {m.pkt : m \in air}

\* The transfer without its clocks: a timer may run out at any time.
\* (RdtTransferProofs is RdtTransfer with its theorems, which
\* TimedTransferProofs uses of this instance.)
Untimed == INSTANCE RdtTransferProofs WITH
  stop <- FALSE,
  recvBuffer <- [i \in 0 .. expectedTotal - 1 |->
                   IF i \in received THEN Chunk(i) ELSE <<>>],
  fileContents <- <<>>, assembled <- 0,
  dataNet <- PacketsOf(dataAir),
  ackNet <- PacketsOf(ackAir) \cup inAcks

InFlight == Untimed!InFlight

\* Ages from here on are not told apart.
Old == TIMEOUT_MS + 3 * MaxPause + 1

Init ==
  /\ sPc = "top" /\ sendBase = 0 /\ nextSeq = 0 /\ acked = {}
  /\ rPc = "loop" /\ expectedTotal = 0 /\ recvExpected = 0
  /\ received = {} /\ lastAck = {}
  /\ lag = 1 /\ sentAge = [i \in PktSeqs |-> 0] /\ quiet = 0
  /\ dataAir = {} /\ ackAir = {} /\ inAcks = {}
  /\ lost = [data |-> 0, acks |-> 0]

-----------------------------------------------------------------------------
(* sender()                                                                *)

\* A pass begins, the millisecond slept: now = nowMs().
SenderTop ==
  /\ sPc = "top" /\ lag >= 1
  /\ sPc' = IF Untimed!LoopCondition THEN "drain" ELSE "done"
  /\ lag' = 0
  /\ UNCHANGED <<sendBase, nextSeq, acked, receiverVars, sentAge, quiet,
                 dataAir, ackAir, inAcks, lost>>

SenderAck(a) ==
  /\ sPc = "drain"
  /\ a \in inAcks /\ Untimed!Plausible(a)
  /\ inAcks' = inAcks \ {a}
  /\ sendBase' = Untimed!BaseAfter(a)
  /\ acked' = Untimed!AckedAfter(a)
  /\ UNCHANGED <<sPc, nextSeq, receiverVars, lag, sentAge, quiet, dataAir,
                 ackAir, lost>>

SenderFinish ==
  /\ sPc = "drain" /\ inAcks = {} /\ Untimed!AllAcked
  /\ sPc' = "done"
  /\ UNCHANGED <<sendBase, nextSeq, acked, receiverVars, lag, sentAge, quiet,
                 dataAir, ackAir, inAcks, lost>>

\* (now - sentTime[i]) > TIMEOUT_MS.  (Mutants: as if every acknowledgement
\* of the last round were in; never.)
ExpiredEarly(i) == sentAge[i] - lag + ACK_KEEPALIVE_MS >= TIMEOUT_MS
ExpiredNever(i) == FALSE
Expired(i) == sentAge[i] - lag > TIMEOUT_MS

\* The packets that get a new stamp.  (Mutant: all that are in flight.)
StampedAll(sent) == sent \cup InFlight
Stamped(sent) == sent

\* What has expired.  (Mutant: acknowledged or not.)
ResentAcked == {i \in sendBase .. nextSeq - 1 : Expired(i)}
Resent == {i \in InFlight : Expired(i)}

\* The buffer is empty: what has expired is sent again, the window filled,
\* and all of it stamped with the stale `now`.
SenderTransmit ==
  LET sent == Resent \cup (nextSeq .. Untimed!FillTo - 1)
  IN  /\ sPc = "drain" /\ inAcks = {} /\ ~ Untimed!AllAcked
      /\ dataAir' = dataAir \cup
                      {[pkt |-> DataPacket(i), age |-> 0] : i \in sent}
      /\ sentAge' = [i \in PktSeqs |->
                       IF i \in Stamped(sent) THEN lag ELSE sentAge[i]]
      /\ nextSeq' = Untimed!FillTo
      /\ sPc' = "top" /\ lag' = 0
      /\ UNCHANGED <<sendBase, acked, receiverVars, quiet, ackAir, inAcks,
                     lost>>

-----------------------------------------------------------------------------
(* receiver()                                                              *)

SendsAck(acks) ==
  /\ ackAir' = ackAir \cup {[pkt |-> a, age |-> 0] : a \in acks}
  /\ quiet' = 0

ReceiveData(m) ==
  LET total == m.pkt.total
      got   == Untimed!ReceivedAfter(m.pkt, total)
  IN  /\ rPc = "loop"
      /\ m \in dataAir /\ dataAir' = dataAir \ {m}
      /\ expectedTotal' = total
      /\ received' = got
      /\ \E n \in recvExpected .. total :
           /\ Untimed!FirstGap(n, got, total)
           /\ recvExpected' = n
           /\ lastAck' = {AckPacket(n, got, total)}
           /\ rPc' = IF n >= total THEN "assemble" ELSE "loop"
      /\ SendsAck(lastAck')
      /\ UNCHANGED <<senderVars, lag, sentAge, inAcks, lost>>

\* (now - lastRecvTime) > ACK_KEEPALIVE_MS
KeepAlive ==
  /\ rPc = "loop" /\ lastAck # {} /\ quiet > ACK_KEEPALIVE_MS
  /\ SendsAck(lastAck)
  /\ UNCHANGED <<senderVars, receiverVars, lag, sentAge, dataAir, inAcks,
                 lost>>

-----------------------------------------------------------------------------
(* The relay and the time.                                                 *)

AckArrives(m) ==
  /\ m \in ackAir /\ ackAir' = ackAir \ {m}
  /\ inAcks' = inAcks \cup {m.pkt}
  /\ UNCHANGED <<senderVars, receiverVars, lag, sentAge, quiet, dataAir, lost>>

\* A loss, or a packet that reaches a receiver that has returned.
LoseData(m) ==
  /\ m \in dataAir /\ dataAir' = dataAir \ {m}
  /\ IF rPc = "loop"
     THEN lost.data < MaxLostData /\ lost' = [lost EXCEPT !.data = @ + 1]
     ELSE UNCHANGED lost
  /\ UNCHANGED <<senderVars, receiverVars, lag, sentAge, quiet, ackAir,
                 inAcks>>

LoseAck(m) ==
  /\ m \in ackAir /\ ackAir' = ackAir \ {m}
  /\ lost.acks < MaxLostAcks /\ lost' = [lost EXCEPT !.acks = @ + 1]
  /\ UNCHANGED <<senderVars, receiverVars, lag, sentAge, quiet, dataAir,
                 inAcks>>

Aged(air) == {[m EXCEPT !.age = @ + 1] : m \in air}

\* Time passes unless something is due: a loop's next step, a packet's
\* arrival, the keepalive.
Tick ==
  /\ sPc # "done" /\ lag < MaxPause
  /\ \A m \in dataAir \cup ackAir : m.age < MaxDelay
  /\ rPc = "loop" /\ lastAck # {} => quiet <= ACK_KEEPALIVE_MS + MaxPause
  /\ lag' = lag + 1
  /\ sentAge' = [i \in PktSeqs |-> MinOf(sentAge[i] + 1, Old)]
  /\ quiet' = MinOf(quiet + 1, Old)
  /\ dataAir' = Aged(dataAir) /\ ackAir' = Aged(ackAir)
  /\ UNCHANGED <<senderVars, receiverVars, inAcks, lost>>

Done == sPc = "done" /\ UNCHANGED vars

Next ==
  \/ SenderTop \/ SenderFinish \/ SenderTransmit
  \/ \E a \in inAcks : SenderAck(a)
  \/ \E m \in dataAir : ReceiveData(m) \/ LoseData(m)
  \/ KeepAlive
  \/ \E m \in ackAir : AckArrives(m) \/ LoseAck(m)
  \/ Tick
  \/ Done

Spec == Init /\ [][Next]_vars

\* Some thread runs or time passes: nothing stops for ever.
FairSpec == Spec /\ WF_vars(Next)

-----------------------------------------------------------------------------
(* Properties.                                                             *)

\* What sender() is about to send again is missing at the other side, or
\* too far above the first gap for a mask to name it: the stale clock, an
\* acknowledgement under way or a lost one that the keepalive repeats are no
\* reason to repeat a packet.  Once receiver() has left its loop nothing
\* repeats its last acknowledgement, and packets it holds may be sent again.
ResendsOnlyMissing ==
  sPc = "drain" /\ inAcks = {} /\ rPc = "loop" =>
    \A i \in Resent : i \notin received \/ i >= sendBase + SACK_BITS

\* However long a pass takes, a packet in flight is sent again, or
\* acknowledged, before it is this old.
RepeatedInTime ==
  \A i \in InFlight : sentAge[i] <= TIMEOUT_MS + 3 * MaxPause

\* A relay that loses a bounded number of packets cannot keep the file from
\* arriving: the two timers are enough.
TimersDeliver == <>(rPc = "assemble")

\* The choices of RdtTransfer cover every clock.
ImplementsUntimed == Untimed!Spec
=============================================================================
