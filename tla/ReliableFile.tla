---------------------------- MODULE ReliableFile ----------------------------
(***************************************************************************)
(* What IRDTProtocol promises the program: receiver() returns the contents *)
(* of the file sender() was given, and sender() returns of its own accord  *)
(* only once the other side holds the whole file.  There is no network     *)
(* here, no sequence number and no window: only which chunks the receiver  *)
(* holds and which of those the sender knows of.                           *)
(***************************************************************************)
EXTENDS RdtPackets

VARIABLES
  held,       \* chunks the receiver holds
  known,      \* chunks the sender knows the receiver holds
  outcome,    \* "sending", "delivered" or "stopped": how sender() ended
  output      \* "none", or the chunks receiver() returned

rvars == <<held, known, outcome, output>>

Init ==
  /\ held = {} /\ known = {}
  /\ outcome = "sending"
  /\ output = <<"none">>

\* The receiver gets one more chunk.
Accept(i) ==
  /\ i \notin held
  /\ held' = held \cup {i}
  /\ UNCHANGED <<known, outcome, output>>

\* Holding them all, it returns the file.
Return ==
  /\ output = <<"none">>
  /\ held = PktSeqs
  /\ output' = <<"file", [i \in PktSeqs |-> Chunk(i)]>>
  /\ UNCHANGED <<held, known, outcome>>

\* The sender learns of chunks the receiver does hold.
Learn(news) ==
  /\ outcome = "sending"
  /\ known' = known \cup news
  /\ UNCHANGED <<held, outcome, output>>

\* The sender returns because it knows everything is delivered, or because
\* it is told to stop.
Deliver ==
  /\ outcome = "sending"
  /\ known = PktSeqs
  /\ outcome' = "delivered"
  /\ UNCHANGED <<held, known, output>>

GiveUp ==
  /\ outcome = "sending"
  /\ outcome' = "stopped"
  /\ UNCHANGED <<held, known, output>>

Next ==
  \/ \E i \in PktSeqs : Accept(i)
  \/ Return
  \/ \E news \in SUBSET held : Learn(news)
  \/ Deliver
  \/ GiveUp

Spec == Init /\ [][Next]_rvars
=============================================================================
