------------------------------ MODULE Session -------------------------------
(***************************************************************************)
(* A session of two clients, with what lies between sender() and           *)
(* receiver(): the packet buffers of both clients, their event loops, the  *)
(* relay, and the way a session closes.  receiver() returns, main()        *)
(* uploads the checksum and calls stop(), the server sends FINISH to both, *)
(* the event loops end, and the sender's main() calls setStop().  Or the   *)
(* server gives the session up before that and sends CLOSED, and the same  *)
(* happens with half a file delivered.                                     *)
(*                                                                         *)
(* It implements RdtTransfer, whose channels are here all places a packet  *)
(* can be in on its way.                                                   *)
(***************************************************************************)
EXTENDS RdtPackets, SequencesExt

CONSTANT WINDOW

ASSUME SessionAssumption == WINDOW \in Nat \ {0}

\* The client that runs sender(), and the one that runs receiver().
Clients == {"S", "R"}
Other(c) == IF c = "S" THEN "R" ELSE "S"

VARIABLES
  \* the two functions
  sPc, sendBase, nextSeq, acked, stop,
  rPc, expectedTotal, recvExpected, recvBuffer, received, lastAck,
  fileContents, assembled,
  \* the clients
  out,       \* outputPacketBuffer, first in first out
  inp,       \* inputPacketBuffer
  started,   \* simulationStarted; lowered, the event loop only ends
  mPc,       \* main(): "run", "join": sendThread, "stop", "gone"
  \* the server (external)
  air,       \* packets of a client on the way to the other client
  server     \* "running", "finished", "aborted"

senderVars   == <<sPc, sendBase, nextSeq, acked>>
receiverVars == <<rPc, expectedTotal, recvExpected, recvBuffer, received,
                  lastAck, fileContents, assembled>>
clientVars   == <<started, mPc, server>>
vars == <<senderVars, stop, receiverVars, out, inp, air, clientVars>>

Way(c) == Range(out[c]) \cup air[c] \cup Range(inp[Other(c)])

\* (RdtTransferProofs is RdtTransfer with its theorems, which SessionProofs
\* uses of this instance.)
Rdt == INSTANCE RdtTransferProofs WITH dataNet <- Way("S"), ackNet <- Way("R")

Init ==
  /\ sPc = "top" /\ sendBase = 0 /\ nextSeq = 0 /\ acked = {}
  /\ stop = FALSE
  /\ rPc = "loop" /\ expectedTotal = 0 /\ recvExpected = 0
  /\ recvBuffer = <<>> /\ received = {} /\ lastAck = {}
  /\ fileContents = <<>> /\ assembled = 0
  /\ out = [c \in Clients |-> <<>>] /\ inp = [c \in Clients |-> <<>>]
  /\ started = [c \in Clients |-> TRUE] /\ mPc = [c \in Clients |-> "run"]
  /\ air = [c \in Clients |-> {}] /\ server = "running"

-----------------------------------------------------------------------------
(* sender() and receiver() at the buffers of their clients.                *)

\* NetworkLayer::sendPacket(), once for each packet.
Send(c, packets) == out' = [out EXCEPT ![c] = @ \o packets]

\* NetworkLayer::receivePacket() with true.
Take(c) == inp[c] # <<>> /\ inp' = [inp EXCEPT ![c] = Tail(@)]

\* TIMEOUT_MS and ACK_KEEPALIVE_MS are longer than a packet's way: none is
\* repeated while the one before it, or a data packet while the newest
\* acknowledgement, is under way.  (RdtTransfer repeats at any time.)
UnderWay(c, p) == p \in Way(c)
AckUnderWay == \E a \in lastAck : UnderWay("R", a)

\* The packets of seqs, lowest sequence number first.
Ranked(seqs, k) == CHOOSE i \in seqs : Cardinality({j \in seqs : j <= i}) = k
InOrder(seqs) ==
  [k \in 1 .. Cardinality(seqs) |-> DataPacket(Ranked(seqs, k))]

\* A pass of the loop begins with its first step.
SenderReads ==
  LET a == Head(inp["S"])
  IN  /\ Rdt!InPass /\ sPc' = "drain"
      /\ Take("S") /\ Rdt!Plausible(a)
      /\ sendBase' = Rdt!BaseAfter(a)
      /\ acked' = Rdt!AckedAfter(a)
      /\ UNCHANGED <<nextSeq, stop, receiverVars, out, air, clientVars>>

SenderTransmits(expired) ==
  /\ Rdt!InPass /\ sPc' = "top"
  /\ inp["S"] = <<>> /\ ~ Rdt!AllAcked
  /\ \A i \in expired : ~ UnderWay("S", DataPacket(i)) /\ ~ AckUnderWay
  /\ Send("S", InOrder(expired \cup (nextSeq .. Rdt!FillTo - 1)))
  /\ nextSeq' = Rdt!FillTo
  /\ UNCHANGED <<sendBase, acked, stop, receiverVars, inp, air, clientVars>>

\* The outer loop ends.  (Mutant: also when the event loop has ended.)
LoopOverEarly == ~ Rdt!LoopCondition \/ ~ started["S"]
LoopOver == ~ Rdt!LoopCondition

SenderReturns ==
  /\ \/ sPc = "top" /\ LoopOver
     \/ sPc = "drain" /\ inp["S"] = <<>> /\ Rdt!AllAcked
  /\ sPc' = "done"
  /\ UNCHANGED <<sendBase, nextSeq, acked, stop, receiverVars, out, inp, air,
                 clientVars>>

ReceiverReads ==
  LET p   == Head(inp["R"])
      got == Rdt!ReceivedAfter(p, p.total)
  IN  /\ rPc = "loop" /\ Take("R")
      /\ expectedTotal' = p.total /\ received' = got
      /\ recvBuffer' = Rdt!BufferAfter(p, p.total)
      /\ \E n \in recvExpected .. p.total :
           /\ Rdt!FirstGap(n, got, p.total)
           /\ recvExpected' = n
           /\ lastAck' = {AckPacket(n, got, p.total)}
           /\ rPc' = IF n >= p.total THEN "assemble" ELSE "loop"
      /\ Send("R", SetToSeq(lastAck'))
      /\ UNCHANGED <<senderVars, stop, fileContents, assembled, air,
                     clientVars>>

ReceiverRepeats ==
  /\ rPc = "loop" /\ inp["R"] = <<>>
  /\ lastAck # {} /\ ~ AckUnderWay
  /\ Send("R", SetToSeq(lastAck))
  /\ UNCHANGED <<senderVars, stop, receiverVars, inp, air, clientVars>>

\* With all packets there, receiver() concatenates them and returns.
ReceiverEnds ==
  /\ UNCHANGED <<out, inp, air, clientVars>>
  /\ Rdt!Assemble \/ Rdt!ReceiverReturn

-----------------------------------------------------------------------------
(* The event loops and the relay.                                          *)

ProtocolSame == UNCHANGED <<senderVars, stop, receiverVars>>

\* One packet of the output buffer per pass.
Transmit(c) ==
  /\ started[c] /\ out[c] # <<>>
  /\ out' = [out EXCEPT ![c] = Tail(@)]
  /\ air' = [air EXCEPT ![c] = @ \cup {Head(out[c])}]
  /\ UNCHANGED <<inp, clientVars>> /\ ProtocolSame

\* The relay's PACKET, handled by the other client's event loop.
Deliver(c, p) ==
  /\ p \in air[c] /\ started[Other(c)]
  /\ air' = [air EXCEPT ![c] = @ \ {p}]
  /\ inp' = [inp EXCEPT ![Other(c)] = Append(@, p)]
  /\ UNCHANGED <<out, clientVars>> /\ ProtocolSame

Lose(c, p) ==
  /\ p \in air[c]
  /\ air' = [air EXCEPT ![c] = @ \ {p}]
  /\ UNCHANGED <<out, inp, clientVars>> /\ ProtocolSame

\* FINISH is handled, or the CLOSED or FAIL of a session given up: the flags
\* are the same.
LoopEnds(c) ==
  /\ started[c] /\ server # "running"
  /\ started' = [started EXCEPT ![c] = FALSE]
  /\ UNCHANGED <<out, inp, air, mPc, server>> /\ ProtocolSame

-----------------------------------------------------------------------------
(* main() of the two clients, and the server's part in closing.            *)

Main(c, from, to) ==
  /\ mPc[c] = from /\ mPc' = [mPc EXCEPT ![c] = to]
  /\ UNCHANGED <<out, inp, air>>

\* getEventLoop()->join(), setStop().  (Mutant: without the join.)
LoopJoinedNever == TRUE
LoopJoined == ~ started["S"]

MainStops ==
  /\ Main("S", "run", "join") /\ LoopJoined
  /\ stop' = TRUE
  /\ UNCHANGED <<senderVars, receiverVars, started, server>>

\* sendThread.join(), stop().
MainJoins ==
  /\ Main("S", "join", "gone") /\ sPc = "done"
  /\ UNCHANGED <<started, server>> /\ ProtocolSame

\* receiver() has returned: setFileContents(), and the checksum is sent past
\* the packets that wait in the output buffer.
Upload ==
  /\ Main("R", "run", "stop") /\ rPc = "done"
  /\ UNCHANGED <<started, server>> /\ ProtocolSame

\* stop(): what is left in the output buffer stays there.
Stop ==
  /\ Main("R", "stop", "gone")
  /\ started' = [started EXCEPT !["R"] = FALSE]
  /\ UNCHANGED server /\ ProtocolSame

ServerSays(verdict) ==
  /\ server = "running" /\ server' = verdict
  /\ UNCHANGED <<out, inp, air, started, mPc>> /\ ProtocolSame

\* FINISH: the transfer is scored once the receiver's checksum is there.
ServerEnds == mPc["R"] # "run" /\ ServerSays("finished")

\* CLOSED ("Simulation aborted!"), at any time.
ServerAborts == ServerSays("aborted")

-----------------------------------------------------------------------------

\* A receiver() that misses a packet does not notice that the session was given
\* up: it polls its empty buffer for ever.
Stranded == server = "aborted" /\ rPc = "loop" /\ inp["R"] = <<>>

BothOver == mPc["S"] = "gone" /\ (mPc["R"] = "gone" \/ Stranded)
Over == BothOver /\ UNCHANGED vars

Next ==
  \/ SenderReads \/ SenderReturns
  \/ \E expired \in SUBSET Rdt!InFlight : SenderTransmits(expired)
  \/ ReceiverReads \/ ReceiverRepeats \/ ReceiverEnds
  \/ \E c \in Clients :
       \/ Transmit(c) \/ LoopEnds(c)
       \/ \E p \in air[c] : Deliver(c, p) \/ Lose(c, p)
  \/ MainStops \/ MainJoins \/ Upload \/ Stop
  \/ ServerEnds \/ ServerAborts
  \/ Over

\* sender() repeats packet i once its timer has run out.
Repeats(i) ==
  \E expired \in SUBSET Rdt!InFlight :
    i \in expired /\ SenderTransmits(expired)

Spec == Init /\ [][Next]_vars

\* The threads run, and pass their loops faster than packets arrive (SF of
\* what waits for an empty buffer); timers run out, the relay does not lose
\* for ever what is sent again and again, and the server ends a session whose
\* checksum it has.  It need not give one up.
FairSpec ==
  /\ Spec
  /\ WF_vars(SenderReads) /\ WF_vars(SenderReturns)
  /\ SF_vars(\E expired \in SUBSET Rdt!InFlight : SenderTransmits(expired))
  /\ \A i \in PktSeqs :
       SF_vars(Repeats(i)) /\ SF_vars(Deliver("S", DataPacket(i)))
  /\ WF_vars(ReceiverReads) /\ SF_vars(ReceiverRepeats)
  /\ WF_vars(ReceiverEnds)
  /\ SF_vars(\E a \in lastAck : Deliver("R", a))
  /\ \A c \in Clients : WF_vars(Transmit(c)) /\ WF_vars(LoopEnds(c))
  /\ WF_vars(MainStops) /\ WF_vars(MainJoins)
  /\ WF_vars(Upload) /\ WF_vars(Stop) /\ WF_vars(ServerEnds)

-----------------------------------------------------------------------------
(* Properties.                                                             *)

\* sender() returns before the whole file is at the other side only if the
\* server gave the session up: not even setStop() ends it early otherwise, for
\* what main() waits for is the receiver's checksum, three threads and two
\* sockets away (or CLOSED), and what is uploaded is then the sender's file.
NotBeforeDelivered ==
  /\ sPc = "done" /\ received # PktSeqs =>
       stop /\ ~ started["S"] /\ server = "aborted"
  /\ mPc["R"] # "run" => fileContents = FileContents

\* First-in-first-out buffers, of which one is left full at the end, event
\* loops that stop and the relay together are no worse than the channels of
\* RdtTransfer, and what ends sender() is what RdtTransfer allows to end it.
ImplementsTransfer == Rdt!Spec

\* Both clients get through to the end of main(), although stop() may leave
\* the receiver's last acknowledgement in its output buffer and nothing else
\* tells the sender that it is done.  When the server gives the session up the
\* sender still ends, and so does a receiver whose buffer holds all it misses.
SessionEnds == <>[]BothOver
=============================================================================
