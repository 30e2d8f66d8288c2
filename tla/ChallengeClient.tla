-------------------------- MODULE ChallengeClient --------------------------
(***************************************************************************)
(* One client program: main() of my_protocol/Program.cpp, the event loop   *)
(* DRDTChallengeClient::run() in its thread, and the protocol, which runs  *)
(* in a thread of its own when it sends and inside main() when it          *)
(* receives.  The threads share the flags of DRDTChallengeClient, two      *)
(* packet buffers and the socket.                                          *)
(*                                                                         *)
(* One step reads or writes one shared flag, or does one thing under a     *)
(* lock, or writes one message to the socket.  The flags are plain bools;  *)
(* each is read in a loop of calls into another object file, built without *)
(* optimisation (Makefile:2), so every read is a load from memory.         *)
(*                                                                         *)
(* The challenge server is external: it is modelled from the messages      *)
(* run() handles.  Packets are counted, their contents are those of        *)
(* RdtTransfer.                                                            *)
(***************************************************************************)
EXTENDS Integers, Sequences

CONSTANT MaxPackets   \* bound on the packets handed over in each direction

ASSUME BoundAssumption == MaxPackets \in Nat \ {0}

VARIABLES
  process,       \* "running", or how the process ended
  exiting,       \* the threads that have called exit()
  \* main()
  mPc,           \* the statement main() is at
  startCommand,  \* Enter was seen
  role,          \* which half of the protocol main() runs
  joined,        \* eventLoopThread has been joined
  \* the event loop
  ePc,           \* the statement run() is at
  stopThread,    \* run()'s own flag
  \* the protocol object
  proto,         \* "idle", "running", "returned": sender() or receiver()
  heard,         \* receiver() has a lastAck to repeat
  stop,          \* MyProtocol::stop
  \* shared by the threads
  started,       \* simulationStarted
  finished,      \* simulationFinished
  isSender,
  fileID,        \* "none" until START names it
  inbuf,         \* packets in inputPacketBuffer
  outbuf,        \* packets in outputPacketBuffer
  wire,          \* messages written to the socket
  \* the server (external)
  inSock,        \* its messages not yet read by the client
  server,        \* "idle", "running", "over"
  relayed,       \* packets relayed to the client
  link           \* "up"; "dropped" by the server; "reset", and says so

processVars == <<process, exiting>>
mainVars   == <<mPc, startCommand, role, joined>>
loopVars   == <<ePc, stopThread>>
protoVars  == <<proto, heard, stop>>
flagVars   == <<started, finished, isSender, fileID>>
bufVars    == <<inbuf, outbuf>>
serverVars == <<inSock, server, relayed, link>>
vars == <<processVars, mainVars, loopVars, protoVars, flagVars, bufVars, wire,
          serverVars>>

\* "part" is the beginning of a message of which write() took no more.
ToServer   == {"START", "IN", "TRANSMIT", "OUT", "CLOSED", "part"}
FromServer == {"START", "FAIL", "PACKET", "CLOSED", "FINISH"}

\* How many of the messages written are m.
Count(m) == Len(SelectSeq(wire, LAMBDA w : w = m))
Written(m) == \E i \in DOMAIN wire : wire[i] = m

TypeOK ==
  /\ process \in {"running", "ended", "exited", "terminated"}
  /\ exiting \in SUBSET {"main", "loop"}
  /\ mPc \in {"poll", "poll2", "keys", "check", "mark", "ask", "wait",
              "wait2", "branch", "launch", "joinLoop", "setStop",
              "joinSender", "receive", "upload", "stop", "stop2", "join",
              "close", "exit"}
  /\ startCommand \in BOOLEAN
  /\ role \in {"none", "sender", "receiver"}
  /\ joined \in BOOLEAN
  /\ ePc \in {"cond", "read", "file", "go", "ifSender", "checksum", "packet",
              "fail", "over", "end", "xmit", "send", "done"}
  /\ stopThread \in BOOLEAN
  /\ proto \in {"idle", "running", "returned"}
  /\ heard \in BOOLEAN /\ stop \in BOOLEAN
  /\ started \in BOOLEAN /\ finished \in BOOLEAN /\ isSender \in BOOLEAN
  /\ fileID \in {"none", "given"}
  /\ inbuf \in 0 .. MaxPackets
  /\ outbuf \in 0 .. MaxPackets
  /\ wire \in Seq(ToServer)
  /\ inSock \in Seq(FromServer)
  /\ server \in {"idle", "running", "over"}
  /\ relayed \in 0 .. MaxPackets
  /\ link \in {"up", "dropped", "reset"}

\* clientConnect() has registered with the server and started the thread.
Init ==
  /\ process = "running" /\ exiting = {}
  /\ mPc = "poll" /\ startCommand = FALSE /\ role = "none" /\ joined = FALSE
  /\ ePc = "cond" /\ stopThread = FALSE
  /\ proto = "idle" /\ heard = FALSE /\ stop = FALSE
  /\ started = FALSE /\ finished = FALSE /\ isSender = FALSE
  /\ fileID = "none"
  /\ inbuf = 0 /\ outbuf = 0 /\ wire = <<>>
  /\ inSock = <<>> /\ server = "idle" /\ relayed = 0
  /\ link = "up"

\* A step of main(), of the event loop, of the protocol.
Alive(thread) == process = "running" /\ thread \notin exiting
Main(from, to) == Alive("main") /\ mPc = from /\ mPc' = to
Loop(from, to) == Alive("loop") /\ ePc = from /\ ePc' = to
Running == process = "running" /\ proto = "running"

\* What the server will not read is not kept; until its reset has come back
\* the client cannot tell.  (Mutant of Write: a failure is not noticed.)
OnWire(m) == wire' = IF link = "up" THEN Append(wire, m) ELSE wire
WriteUnchecked(m) == OnWire(m)
Write(m) == link # "reset" /\ OnWire(m)

\* A step that only reads and branches.
MainReads == UNCHANGED <<processVars, startCommand, role, joined, loopVars,
                         protoVars, flagVars, bufVars, wire, serverVars>>
LoopReads == UNCHANGED <<processVars, mainVars, stopThread, protoVars,
                         flagVars, bufVars, wire, serverVars>>

-----------------------------------------------------------------------------
(* main(): until the simulation starts.                                    *)

\* while (!isSimulationStarted() && !isSimulationFinished())
Poll ==
  /\ Main("poll", IF started THEN "branch" ELSE "poll2")
  /\ MainReads

Poll2 ==
  /\ Main("poll2", IF finished THEN "branch" ELSE "keys")
  /\ MainReads

\* select() on the keyboard: Enter counts once, and the end of the input or a
\* failing select(), whose -1 ends up in a size_t, counts as Enter.
Keys ==
  /\ \/ Main("keys", "poll")
     \/ ~ startCommand /\ Main("keys", "check")
  /\ MainReads

\* requestStart(): the flag is read here, and the request written two steps
\* later; main() takes the request for made in any case.
RequestCheck ==
  /\ Main("check", IF started THEN "wait" ELSE "mark")
  /\ startCommand' = TRUE
  /\ UNCHANGED <<processVars, role, joined, loopVars, protoVars, flagVars,
                 bufVars, wire, serverVars>>

RequestMark ==
  /\ Main("mark", "ask")
  /\ isSender' = TRUE
  /\ UNCHANGED <<processVars, startCommand, role, joined, loopVars, protoVars,
                 started, finished, fileID, bufVars, wire, serverVars>>

RequestWrite ==
  /\ Main("ask", "wait")
  /\ Write("START")
  /\ UNCHANGED <<processVars, startCommand, role, joined, loopVars, protoVars,
                 flagVars, bufVars, serverVars>>

\* The inner loop, with the same condition; the outer one follows.
Wait ==
  /\ Main("wait", IF started THEN "poll" ELSE "wait2")
  /\ MainReads

Wait2 ==
  /\ Main("wait2", IF finished THEN "poll" ELSE "wait")
  /\ MainReads

-----------------------------------------------------------------------------
(* main(): the simulation.                                                 *)

\* "Finished before actually started" goes straight to stop().
Branch ==
  /\ Main("branch", IF finished THEN "stop" ELSE "launch")
  /\ MainReads

Launch ==
  /\ Main("launch", IF startCommand THEN "joinLoop" ELSE "receive")
  /\ role' = IF startCommand THEN "sender" ELSE "receiver"
  /\ proto' = "running"
  /\ UNCHANGED <<processVars, startCommand, joined, loopVars, heard, stop,
                 flagVars, bufVars, wire, serverVars>>

\* What join() waits for.  (Mutant: nothing.)
LoopGoneAlways == TRUE
LoopGone == ePc = "done"

JoinLoop ==
  /\ Main("joinLoop", "setStop")
  /\ LoopGone
  /\ joined' = TRUE
  /\ UNCHANGED <<processVars, startCommand, role, loopVars, protoVars,
                 flagVars, bufVars, wire, serverVars>>

\* (Mutant: the sender is not told.)
StopValueUnset == stop
StopValue == TRUE

SetStop ==
  /\ Main("setStop", "joinSender")
  /\ stop' = StopValue
  /\ UNCHANGED <<processVars, startCommand, role, joined, loopVars, proto,
                 heard, flagVars, bufVars, wire, serverVars>>

\* sendThread.join().  (Mutant: it does not wait.)
SenderGoneAlways == TRUE
SenderGone == proto = "returned"

JoinSender ==
  /\ Main("joinSender", "stop")
  /\ SenderGone
  /\ MainReads

ReceiverReturned ==
  /\ Main("receive", "upload")
  /\ proto = "returned"
  /\ MainReads

Upload ==
  /\ Main("upload", "stop")
  /\ Write("OUT")
  /\ UNCHANGED <<processVars, startCommand, role, joined, loopVars, protoVars,
                 flagVars, bufVars, serverVars>>

-----------------------------------------------------------------------------
(* main(): stop(), and the return.                                         *)

StopStarted ==
  /\ Main("stop", "stop2")
  /\ started' = FALSE
  /\ UNCHANGED <<processVars, startCommand, role, joined, loopVars, protoVars,
                 finished, isSender, fileID, bufVars, wire, serverVars>>

StopFinished ==
  /\ Main("stop2", "join")
  /\ finished' = TRUE
  /\ UNCHANGED <<processVars, startCommand, role, joined, loopVars, protoVars,
                 started, isSender, fileID, bufVars, wire, serverVars>>

\* if(!isSender).  (Mutants: the event loop is never joined here; the
\* condition inverted.)
StopJoinsNever == FALSE
StopJoinsInverted == isSender
StopJoins == ~ isSender

\* A thread joined before is not joinable: std::system_error, uncaught.
StopJoin ==
  \/ /\ Main("join", "close")
     /\ StopJoins => LoopGone /\ ~ joined
     /\ joined' = (joined \/ StopJoins)
     /\ UNCHANGED <<processVars, startCommand, role, loopVars, protoVars,
                    flagVars, bufVars, wire, serverVars>>
  \/ /\ Main("join", "join")
     /\ StopJoins /\ joined
     /\ process' = "terminated"
     /\ UNCHANGED <<exiting, startCommand, role, joined, loopVars, protoVars,
                    flagVars, bufVars, wire, serverVars>>

StopClose ==
  /\ Main("close", "exit")
  /\ Write("CLOSED")
  /\ UNCHANGED <<processVars, startCommand, role, joined, loopVars, protoVars,
                 flagVars, bufVars, serverVars>>

\* main() returns and the client is destroyed; destroying a thread that was
\* not joined ends the process by std::terminate.
Return ==
  /\ Main("exit", "exit")
  /\ process' = IF joined THEN "ended" ELSE "terminated"
  /\ UNCHANGED <<exiting, startCommand, role, joined, loopVars, protoVars,
                 flagVars, bufVars, wire, serverVars>>

\* write() fails or takes only the beginning of a message, or the file to
\* check is missing: the thread calls exit(), and until that is through the
\* other threads go on.
WriteFails ==
  /\ \/ /\ Alive("main") /\ mPc \in {"ask", "upload", "close"}
        /\ exiting' = exiting \cup {"main"}
     \/ /\ Alive("loop")
        /\ ePc = "checksum" \/ (ePc = "send" /\ outbuf > 0)
        /\ exiting' = exiting \cup {"loop"}
  /\ UNCHANGED wire \/ OnWire("part")
  /\ UNCHANGED <<process, mainVars, loopVars, protoVars, flagVars, bufVars,
                 serverVars>>

Exit ==
  /\ process = "running" /\ exiting # {}
  /\ process' = "exited"
  /\ UNCHANGED <<exiting, mainVars, loopVars, protoVars, flagVars, bufVars,
                 wire, serverVars>>

-----------------------------------------------------------------------------
(* run(), the event loop.                                                  *)

\* while (!stopThread && !simulationFinished).  (Mutant: the flag main()
\* sets in stop() is not read.)
RunConditionOwn == ~ stopThread
RunCondition == ~ stopThread /\ ~ finished

LoopTop ==
  /\ Loop("cond", IF RunCondition THEN "read" ELSE "done")
  /\ LoopReads

\* Where the handling of a message begins.
HandlerOf(m) ==
  CASE m = "START"  -> "file"
    [] m = "PACKET" -> "packet"
    [] m = "FAIL"   -> "fail"
    [] m \in {"CLOSED", "FINISH"} -> "over"

ReadNothing ==
  /\ Loop("read", "xmit")
  /\ inSock = <<>>
  /\ LoopReads

ReadMessage ==
  /\ inSock # <<>>
  /\ Loop("read", HandlerOf(Head(inSock)))
  /\ inSock' = Tail(inSock)
  /\ UNCHANGED <<processVars, mainVars, stopThread, protoVars, flagVars,
                 bufVars, wire, server, relayed, link>>

\* START: the file's id and the challenge, then start(), then the checksum.
\* (Mutant: the id is not stored before the flag is set.)
StartFileLate ==
  /\ Loop("file", "go")
  /\ LoopReads
StartFile ==
  /\ Loop("file", "go")
  /\ fileID' = "given"
  /\ UNCHANGED <<processVars, mainVars, stopThread, protoVars, started,
                 finished, isSender, bufVars, wire, serverVars>>

StartSimulation ==
  /\ Loop("go", "ifSender")
  /\ started' = TRUE
  /\ UNCHANGED <<processVars, mainVars, stopThread, protoVars, finished,
                 isSender, fileID, bufVars, wire, serverVars>>

StartIfSender ==
  /\ Loop("ifSender", IF isSender THEN "checksum" ELSE "xmit")
  /\ LoopReads

StartChecksum ==
  /\ Loop("checksum", "xmit")
  /\ Write("IN")
  /\ UNCHANGED <<processVars, mainVars, stopThread, protoVars, flagVars,
                 bufVars, serverVars>>

\* PACKET: kept once the simulation has started, dropped before.
HandlePacket ==
  /\ Loop("packet", "xmit")
  /\ inbuf' = IF started THEN inbuf + 1 ELSE inbuf
  /\ UNCHANGED <<processVars, mainVars, stopThread, protoVars, flagVars,
                 outbuf, wire, serverVars>>

\* FAIL, and the two messages that end a simulation: one flag, then the
\* other.
HandleFail ==
  /\ Loop("fail", "end")
  /\ stopThread' = TRUE
  /\ started' = FALSE
  /\ UNCHANGED <<processVars, mainVars, protoVars, finished, isSender, fileID,
                 bufVars, wire, serverVars>>

HandleOver ==
  /\ Loop("over", "end")
  /\ started' = FALSE
  /\ UNCHANGED <<processVars, mainVars, stopThread, protoVars, finished,
                 isSender, fileID, bufVars, wire, serverVars>>

HandleEnd ==
  /\ Loop("end", "xmit")
  /\ finished' = TRUE
  /\ UNCHANGED <<processVars, mainVars, stopThread, protoVars, started,
                 isSender, fileID, bufVars, wire, serverVars>>

\* One packet of the output buffer per pass, while the flag is up.
IfStarted ==
  /\ Loop("xmit", IF started THEN "send" ELSE "cond")
  /\ LoopReads

\* (Mutant: front() of an empty buffer.)
HasOutputUnchecked == TRUE
HasOutput == outbuf > 0

Transmit ==
  /\ Loop("send", "cond")
  /\ HasOutput
  /\ outbuf' = outbuf - 1
  /\ Write("TRANSMIT")
  /\ UNCHANGED <<processVars, mainVars, stopThread, protoVars, flagVars, inbuf,
                 serverVars>>

NothingToTransmit ==
  /\ Loop("send", "cond")
  /\ ~ HasOutput
  /\ LoopReads

-----------------------------------------------------------------------------
(* The protocol, as far as the buffers and main() see it.                  *)

MaySend ==
  /\ outbuf < MaxPackets
  /\ link = "up" => Count("TRANSMIT") + outbuf < MaxPackets

\* sendPacket(): sender() always has a packet to repeat, receiver() repeats
\* its last acknowledgement.
ProtocolSends ==
  /\ Running
  /\ role = "sender" \/ heard
  /\ MaySend
  /\ outbuf' = outbuf + 1
  /\ UNCHANGED <<processVars, mainVars, loopVars, protoVars, flagVars, inbuf,
                 wire, serverVars>>

\* receivePacket() returned a packet; the receiver answers each of them
\* with an acknowledgement, and either half may be at its end.
ProtocolReceives ==
  /\ Running
  /\ inbuf > 0
  /\ inbuf' = inbuf - 1
  /\ \/ role = "sender" /\ UNCHANGED <<outbuf, heard>>
     \/ role = "receiver" /\ MaySend /\ outbuf' = outbuf + 1 /\ heard' = TRUE
  /\ proto' \in {"running", "returned"}
  /\ UNCHANGED <<processVars, mainVars, loopVars, stop, flagVars, wire,
                 serverVars>>

\* sender() reads its stop flag in every pass; receiver() never does.
SenderStops ==
  /\ Running
  /\ role = "sender" /\ stop
  /\ proto' = "returned"
  /\ UNCHANGED <<processVars, mainVars, loopVars, heard, stop, flagVars,
                 bufVars, wire, serverVars>>

\* A pass that finds nothing to do.
ProtocolIdles == Running /\ UNCHANGED vars

-----------------------------------------------------------------------------
(* The server (external).                                                  *)

Post(m) == inSock' = Append(inSock, m)

ServerFrame ==
  UNCHANGED <<processVars, mainVars, loopVars, protoVars, flagVars, bufVars,
              wire>>

\* This client asked, or the other client of the group did.
ServerStarts ==
  /\ server = "idle" /\ server' = "running"
  /\ Post("START")
  /\ UNCHANGED <<relayed, link>>
  /\ ServerFrame

ServerFails ==
  /\ Written("START")
  /\ server # "over" /\ server' = "over"
  /\ Post("FAIL")
  /\ UNCHANGED <<relayed, link>>
  /\ ServerFrame

ServerRelays ==
  /\ server = "running"
  /\ relayed < MaxPackets
  /\ relayed' = relayed + 1
  /\ Post("PACKET")
  /\ UNCHANGED <<server, link>>
  /\ ServerFrame

\* The transfer is scored once this client's checksum is in.
ServerFinishes ==
  /\ server = "running" /\ server' = "over"
  /\ Written("IN") \/ Written("OUT")
  /\ Post("FINISH")
  /\ UNCHANGED <<relayed, link>>
  /\ ServerFrame

ServerAborts ==
  /\ server # "over" /\ server' = "over"
  /\ Post("CLOSED")
  /\ UNCHANGED <<relayed, link>>
  /\ ServerFrame

\* The connection goes down without a word, and the client is told when it
\* writes: getControlMessage() takes the end of the stream for no news.
ServerDrops ==
  /\ server # "over" /\ server' = "over"
  /\ link' = "dropped"
  /\ UNCHANGED <<inSock, relayed>>
  /\ ServerFrame

Reset ==
  /\ link = "dropped" /\ link' = "reset"
  /\ UNCHANGED <<inSock, server, relayed>>
  /\ ServerFrame

-----------------------------------------------------------------------------

MainStep ==
  \/ Poll \/ Poll2 \/ Keys \/ RequestCheck \/ RequestMark \/ RequestWrite
  \/ Wait \/ Wait2 \/ Branch \/ Launch \/ JoinLoop \/ SetStop \/ JoinSender
  \/ ReceiverReturned \/ Upload \/ StopStarted \/ StopFinished \/ StopJoin
  \/ StopClose \/ Return

LoopStep ==
  \/ LoopTop \/ ReadNothing \/ ReadMessage
  \/ StartFile \/ StartSimulation \/ StartIfSender \/ StartChecksum
  \/ HandlePacket \/ HandleFail \/ HandleOver \/ HandleEnd
  \/ IfStarted \/ Transmit \/ NothingToTransmit

ProtocolStep ==
  ProtocolSends \/ ProtocolReceives \/ SenderStops \/ ProtocolIdles

ServerStep ==
  \/ ServerStarts \/ ServerFails \/ ServerRelays \/ ServerFinishes
  \/ ServerAborts \/ ServerDrops \/ Reset

\* The process has ended, in one way or another.
Gone == process # "running" /\ UNCHANGED vars

Next ==
  \/ MainStep \/ LoopStep \/ WriteFails \/ Exit \/ ProtocolStep
  \/ process = "running" /\ ServerStep
  \/ Gone

Spec == Init /\ [][Next]_vars

\* main() and the event loop are never blocked but in a join, the sender's
\* loop comes round to its stop flag and to packets to repeat, the receiver's
\* to its keepalive; a connection that is gone is reset, and then a write
\* fails.  Nothing is assumed of the server, of the keyboard or of the
\* packets that come.
FairSpec ==
  /\ Spec
  /\ WF_vars(MainStep) /\ WF_vars(LoopStep) /\ WF_vars(Exit)
  /\ WF_vars(SenderStops) /\ WF_vars(ProtocolSends)
  /\ WF_vars(Reset) /\ WF_vars(link = "reset" /\ WriteFails)

-----------------------------------------------------------------------------
(* Properties.                                                             *)

\* How far a message belongs into a session.
Phase(m) == CASE m \in {"START", "IN"} -> 1
              [] m \in {"TRANSMIT", "OUT"} -> 2
              [] m = "CLOSED" -> 3

\* Two threads write to one socket without a lock between them: the request
\* and the input checksum still come before all packets, CLOSED comes after
\* everything, and but for packets nothing is said twice.
WireOrder ==
  \A i, j \in DOMAIN wire :
    i < j /\ "part" \notin {wire[i], wire[j]} =>
      /\ Phase(wire[i]) <= Phase(wire[j])
      /\ wire[i] = wire[j] => wire[i] = "TRANSMIT"

\* A process that ends in order has written whole messages only: a thread
\* that left one half written cannot be overtaken by a main() that returns
\* as if nothing had happened.
OrderlyEndIsWhole == process = "ended" => ~ Written("part")

\* The flag that releases main() is raised after the file's id is stored:
\* setFileID(getFileID()) never passes on an empty id.
FileIDIsSet == role # "none" => fileID = "given"

\* When main() deletes the protocol object no thread runs sender() any
\* more, and when it returns from a simulation the event loop has ended.
NoThreadLeft ==
  role # "none" =>
    /\ mPc \in {"stop", "stop2", "join", "close", "exit"} => proto = "returned"
    /\ mPc = "exit" => ePc = "done" /\ joined

\* The process is aborted by the C++ runtime (a thread joined twice, or
\* destroyed unjoined) only if its user pressed Enter: a client left to be
\* the receiver always shuts down in order.
AbortNeedsEnter == process = "terminated" => startCommand

\* Once the server has said that the session is over the process ends, unless
\* it runs receiver(): that loop has no way out but the last packet.
SenderEnds ==
  server = "over" /\ link = "up" ~> process # "running" \/ role = "receiver"

\* A client whose receiver() returned ends, whatever the server does.
ReceiverEnds ==
  role = "receiver" /\ proto = "returned" ~> process # "running"

\* A connection that goes down without a word ends the process, or the
\* session was over, if the protocol is running and has something to repeat.
\* Only its retransmissions and keepalives find out: a client still waiting
\* for START, a receiver before its first packet and a sender() that has
\* returned wait for ever.
DropEndsProcess ==
  link # "up" /\ proto = "running" /\ (role = "sender" \/ heard)
    ~> process # "running" \/ proto = "returned" \/ finished

\* Program.cpp:82-84 and README.md:42: the simulation is started as
\* receiver when it is the other client that issued the start command.
RunsAsSenderOnlyIfAsked == role = "sender" => Written("START")

\* DRDTChallengeClient.cpp:187: "For the sender this is already joined".
SenderLoopAlreadyJoined == mPc = "close" /\ isSender => joined
=============================================================================
