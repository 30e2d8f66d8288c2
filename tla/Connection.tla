----------------------------- MODULE Connection -----------------------------
(***************************************************************************)
(* The connection of a client to the challenge server: clientConnect()     *)
(* finds an address that answers, registers, and hands the socket over to  *)
(* the event loop.  Both read it through getControlMessage(), which cuts   *)
(* the bytes that come into the lines of the server.                       *)
(*                                                                         *)
(* A line is a sequence of tokens and ends in NL; a line of the server     *)
(* begins with PROTOCOL, which stands for the characters of protocolString *)
(* that are compared, and one more character, which is cut off unseen.     *)
(***************************************************************************)
EXTENDS Integers, Sequences, SequencesExt

CONSTANTS
  NL,            \* the token that ends a line
  PROTOCOL,      \* the token a line of this protocol begins with
  NumAddresses,  \* addresses the name of the server resolves to
  BUF_SIZE,      \* most bytes one read() returns
  MaxLines       \* bound on the lines the server writes

\* What the server writes but PROTOCOL and NL.  " " and "." are a character
\* each: what may follow protocolString.
Words == {" ", ".", "REGISTER", "OK", "FAIL", "PACKET", "data", "CLOSED",
          "FINISH", "junk"}

ASSUME ConnectionAssumption ==
  /\ NumAddresses \in Nat /\ BUF_SIZE \in Nat \ {0} /\ MaxLines \in Nat
  /\ NL \notin Words \cup {PROTOCOL} /\ PROTOCOL \notin Words

VARIABLES
  pc,         \* "socket", "connect", "hello", "register", "reply": in
              \* clientConnect(); "top", "loop", "done": run()'s condition,
              \* body and end; "exited" here; "gone": exit() elsewhere
  address,    \* the address being tried
  finished,   \* simulationFinished
  socketBufferStr,        \* bytes read and not cut yet
  currentControlMessage,  \* the message being handled, <<>> if none
  handled,    \* history: the messages handled and cleared
  \* the server (external)
  stage,      \* what it will write next: "hello", "reply", "news", "no more"
  registered, \* it has the client's REGISTER
  written,    \* history: the lines it has written
  ends,       \* history: how many bytes it had written with each of them
  socket,     \* bytes of them the client has not read
  closed      \* it has closed the connection

clientVars == <<pc, address, finished>>
readVars   == <<socketBufferStr, currentControlMessage>>
serverVars == <<stage, registered, written, ends, closed>>
vars == <<clientVars, readVars, handled, serverVars, socket>>

Init ==
  /\ pc = "socket" /\ address = 1 /\ finished = FALSE
  /\ socketBufferStr = <<>> /\ currentControlMessage = <<>> /\ handled = <<>>
  /\ stage = "hello" /\ registered = FALSE /\ written = <<>> /\ ends = <<>>
  /\ socket = <<>> /\ closed = FALSE

-----------------------------------------------------------------------------
(* clientConnect(): an address that answers.                               *)

\* socket() fails for this address, or no address is left.
OpenSocket ==
  /\ pc = "socket"
  /\ \/ /\ address > NumAddresses
        /\ pc' = "exited" /\ UNCHANGED address
     \/ /\ address <= NumAddresses
        /\ address' = address + 1 /\ UNCHANGED pc
     \/ /\ address <= NumAddresses
        /\ pc' = "connect" /\ UNCHANGED address
  /\ UNCHANGED <<finished, readVars, handled, serverVars, socket>>

Connect ==
  /\ pc = "connect"
  /\ \/ pc' = "hello" /\ UNCHANGED address
     \/ pc' = "socket" /\ address' = address + 1
  /\ UNCHANGED <<finished, readVars, handled, serverVars, socket>>

-----------------------------------------------------------------------------
(* getControlMessage()                                                     *)

\* How many bytes read() may return: -1 (nothing there) and 0 (end of the
\* stream) both leave the buffer as it is and count as 0 here; otherwise as
\* many as it likes, at least one.
ReadSizes ==
  IF socket = <<>> THEN {0} ELSE {n \in 1 .. BUF_SIZE : n <= Len(socket)}

\* The first NL, as socketBufferStr.find('\n') but counted from 1; 0 if none.
Newline(str) == IF Contains(str, NL) THEN SelectInSeq(str, LAMBDA t : t = NL)
                ELSE 0

\* Whether the buffer is taken to hold a line after a read of n bytes.
\* `pos > 0` takes an empty line for no line, and leaves it where it is.
\* (Mutant: the buffer is looked at only after a read of some bytes.)
ReadyAfterRead(n, pos) == n > 0 /\ pos > 1
Ready(n, pos) == pos > 1

\* Whether the line is taken for one of this protocol: it begins with
\* protocolString and is longer by more than one character.  (Mutant: not
\* tested.)
IsMessageAlways(line) == TRUE
IsMessage(line) == Len(line) > 2 /\ Head(line) = PROTOCOL

\* What is behind the character that follows protocolString, whatever that is.
Message(line) == SubSeq(line, 3, Len(line))

\* A plausible bug: the rest of the buffer is forgotten.
RestForgotten(str, pos) == <<>>
RestOf(str, pos) == SubSeq(str, pos + 1, Len(str))

\* One call.  Without a line clientConnect() calls again, and run() goes back
\* to its condition.
GetControlMessage ==
  /\ pc \in {"hello", "reply", "loop"} /\ currentControlMessage = <<>>
  /\ \E n \in ReadSizes :
       LET str  == socketBufferStr \o SubSeq(socket, 1, n)
           pos  == Newline(str)
           line == SubSeq(str, 1, pos - 1)
       IN  /\ socket' = SubSeq(socket, n + 1, Len(socket))
           /\ \/ /\ ~ Ready(n, pos)
                 /\ socketBufferStr' = str
                 /\ pc' = IF pc = "loop" THEN "top" ELSE pc
                 /\ UNCHANGED currentControlMessage
              \/ /\ Ready(n, pos) /\ IsMessage(line)
                 /\ currentControlMessage' = Message(line)
                 /\ socketBufferStr' = RestOf(str, pos)
                 /\ UNCHANGED pc
              \/ /\ Ready(n, pos) /\ ~ IsMessage(line)
                 /\ pc' = "exited" /\ socketBufferStr' = str
                 /\ UNCHANGED currentControlMessage
  /\ UNCHANGED <<address, finished, handled, serverVars>>

\* clearControlMessage(), and what the caller does with the message m.
Handles(m, next) ==
  /\ currentControlMessage = m /\ m # <<>>
  /\ pc' = next
  /\ handled' = Append(handled, m)
  /\ UNCHANGED <<address, socketBufferStr, serverVars, socket>>

-----------------------------------------------------------------------------
(* clientConnect(): registration.  Then run().                             *)

\* (Mutant: the hello is not cleared, and taken for the reply.)
AfterHelloKept == currentControlMessage
AfterHello == <<>>

Hello ==
  /\ pc = "hello"
  /\ Handles(<<"REGISTER">>, "register")
  /\ currentControlMessage' = AfterHello
  /\ UNCHANGED finished

Register ==
  /\ pc = "register" /\ pc' = "reply"
  /\ registered' = TRUE
  /\ UNCHANGED <<address, finished, readVars, handled, stage, written, ends,
                 closed, socket>>

Reply ==
  /\ pc = "reply"
  /\ Handles(<<"OK">>, "top")
  /\ currentControlMessage' = <<>>
  /\ UNCHANGED finished

\* Another hello or reply than expected, or a write that fails.
Refused ==
  /\ \/ pc = "hello" /\ currentControlMessage \notin {<<>>, <<"REGISTER">>}
     \/ pc = "register" /\ closed
     \/ pc = "reply" /\ currentControlMessage \notin {<<>>, <<"OK">>}
  /\ pc' = "exited"
  /\ UNCHANGED <<address, finished, readVars, handled, serverVars, socket>>

\* while (!stopThread && !simulationFinished); FAIL sets both.
LoopTop ==
  /\ pc = "top"
  /\ pc' = IF finished THEN "done" ELSE "loop"
  /\ UNCHANGED <<address, finished, readVars, handled, serverVars, socket>>

\* The messages that end the session.
Endings == {<<"FAIL">>, <<"CLOSED">>, <<"FINISH">>}

\* The event loop handles a message.
Run ==
  /\ pc = "loop"
  /\ Handles(currentControlMessage, "top")
  /\ currentControlMessage' = <<>>
  /\ finished' = (finished \/ currentControlMessage \in Endings)

-----------------------------------------------------------------------------
(* The rest of the program, as far as it ends the event loop.              *)

\* The transfer is under way.
Started == \E k \in DOMAIN handled : Head(handled[k]) = "PACKET"

\* main() has come to stop(): the flag is raised under the event loop.
MainStops ==
  /\ pc \in {"top", "loop"} /\ Started
  /\ ~ finished /\ finished' = TRUE
  /\ UNCHANGED <<pc, address, readVars, handled, serverVars, socket>>

\* A write to the socket fails, in this thread or in main(), requestStart()
\* say: exit().
WriteFails ==
  /\ pc \in {"top", "loop"}
  /\ pc' = "gone"
  /\ UNCHANGED <<address, finished, readVars, handled, serverVars, socket>>

-----------------------------------------------------------------------------
(* The server (external).                                                  *)

Said(m) == <<PROTOCOL, " ">> \o m

\* Lines that are none of this protocol: empty, without the prefix, with
\* nothing behind the prefix and the character that follows it.
OddLines == {<<>>, <<"junk", " ", "OK">>, <<PROTOCOL, " ">>}

\* A line of another version, RDTCHALLENGE/5.0.1 say, begins with the same
\* characters: it is handled as a message.
OtherVersion == <<PROTOCOL, ".", "junk">>

Connected == pc \notin {"socket", "connect", "exited", "gone"}

\* The bytes up to the end of line k.
EndOf(k) == IF k = 0 THEN 0 ELSE ends[k]

WriteLine(line) ==
  /\ Connected
  /\ ~ closed /\ Len(written) < MaxLines
  /\ \/ stage = "hello" /\ line = Said(<<"REGISTER">>) /\ stage' = "reply"
     \/ /\ stage = "reply" /\ registered
        /\ \/ line = Said(<<"OK">>) /\ stage' = "news"
           \/ line = Said(<<"FAIL">>) /\ stage' = "no more"
     \/ /\ stage = "news"
        /\ \/ line = Said(<<"PACKET", "data">>) /\ stage' = "news"
           \/ line \in {Said(m) : m \in Endings} /\ stage' = "no more"
     \/ line \in OddLines \cup {OtherVersion} /\ UNCHANGED stage
  /\ written' = Append(written, line)
  /\ ends' = Append(ends, EndOf(Len(written)) + Len(line) + 1)
  /\ socket' = socket \o Append(line, NL)
  /\ UNCHANGED <<clientVars, readVars, handled, registered, closed>>

Close ==
  /\ Connected
  /\ ~ closed /\ closed' = TRUE
  /\ UNCHANGED <<clientVars, readVars, handled, stage, registered, written,
                 ends, socket>>

ServerLines ==
  OddLines \cup {OtherVersion}
    \cup {Said(m) : m \in Endings \cup {<<"REGISTER">>, <<"OK">>,
                                         <<"PACKET", "data">>}}

-----------------------------------------------------------------------------

\* The thread has ended.  One that reads on with nothing to come has not: the
\* end of the stream is not noticed.
Over == pc \in {"done", "exited", "gone"}
Ended == Over /\ UNCHANGED vars

Client ==
  \/ OpenSocket \/ Connect \/ GetControlMessage
  \/ Hello \/ Register \/ Reply \/ Refused \/ LoopTop \/ Run

Next ==
  \/ Client
  \/ MainStops \/ WriteFails
  \/ \E line \in ServerLines : WriteLine(line)
  \/ Close
  \/ Ended

\* The client is a loop of non-blocking calls.  Nothing is assumed of the
\* server and of the other threads.
Spec == Init /\ [][Next]_vars /\ WF_vars(Client)

-----------------------------------------------------------------------------
(* Properties.                                                             *)

\* No line up to line k is an odd one.
ReadableTo(k) == \A j \in 1 .. k : written[j] \notin OddLines

Taken == IF currentControlMessage = <<>> THEN handled
         ELSE Append(handled, currentControlMessage)

\* However read() cuts the stream, clientConnect() and after it the event
\* loop handle the lines of the server whole, once and in order, each without
\* protocolString and the character behind it; none is made up from a line
\* that does not begin with protocolString or has nothing behind it, and none
\* behind such a line is handled.
LinesInOrder ==
  \A k \in DOMAIN Taken :
    k \in DOMAIN written /\ ReadableTo(k) /\ Taken[k] = Message(written[k])

\* Nothing is lost, also not in the handover from clientConnect() to the
\* event loop: what the buffers hold are, byte for byte, the lines not taken
\* yet, one after the other.
NothingLost ==
  LET unread   == socketBufferStr \o socket
      before   == EndOf(Len(Taken))
      place(k) == SubSeq(unread, EndOf(k - 1) - before + 1, EndOf(k) - before)
  IN  /\ Len(unread) = EndOf(Len(written)) - before
      /\ \A k \in Len(Taken) + 1 .. Len(written) :
           place(k) = Append(written[k], NL)

\* The lines the client has to handle: those a registration begins with and
\* what follows, up to a line it cannot read or one that ends the session.
Registration == <<Said(<<"REGISTER">>), Said(<<"OK">>)>>
ToHandle ==
  {k \in DOMAIN written :
     /\ ReadableTo(k)
     /\ \A j \in 1 .. k : j <= 2 => written[j] = Registration[j]
     /\ \A j \in 1 .. k - 1 : Message(written[j]) \notin Endings}

\* Something else than a line has ended the event loop.
EndedElsewhere ==
  \/ pc = "gone"
  \/ finished /\ \A k \in DOMAIN handled : handled[k] \notin Endings

\* A server that says hello and OK gets a client whose event loop handles
\* every line it can read up to the one that ends the session, FINISH say,
\* also the second of two that came in one read and were followed by nothing.
\* The exception is a loop that main()'s stop() ends (a receiver() that has
\* returned does not wait for FINISH) or an exit() for a failed write.
AllHandled ==
  \A k \in 1 .. MaxLines :
    k \in ToHandle ~> Len(handled) >= k \/ EndedElsewhere

\* The first line that cannot be read, unless it is empty.
EndingLines ==
  {k \in DOMAIN written :
     ReadableTo(k - 1) /\ written[k] \in OddLines \ {<<>>}}

\* A line without protocolString, or with nothing behind it and the character
\* that follows, ends the client, unless it is empty: an empty line stops the
\* client reading for ever.  Not so a line of another version that begins with
\* the same characters: that one is taken for a message.
OddLineEnds == EndingLines # {} ~> Over
=============================================================================
