---------------------------- MODULE ClientProofs ----------------------------
(***************************************************************************)
(* Proofs about ChallengeClient, for any number of packets: the order of   *)
(* what two threads write to one socket, and how the process comes to its  *)
(* end.                                                                    *)
(***************************************************************************)
EXTENDS ChallengeClient, FiniteSetTheorems, TLAPS

-----------------------------------------------------------------------------
(* The inductive invariant.                                                *)

\* Where a message of the server waits for run().
Places(s, m) == {i \in DOMAIN s : s[i] = m}

\* No packet is made up between the server and the input buffer.
PacketsCounted ==
  inbuf + Cardinality(Places(inSock, "PACKET"))
        + (IF ePc = "packet" THEN 1 ELSE 0) <= relayed

Closing == {"stop", "stop2", "join", "close", "exit"}
BeforeLaunch == {"poll", "poll2", "keys", "check", "mark", "ask", "wait",
                 "wait2", "branch", "launch"}

\* What main() does is settled by Enter, and nothing is sent before that.
RoleSettled ==
  /\ mPc \in BeforeLaunch => role = "none"
  /\ mPc \in {"joinLoop", "setStop", "joinSender"} => role = "sender"
  /\ mPc \in {"receive", "upload"} => role = "receiver"
  /\ role = "none" => proto = "idle" /\ outbuf = 0
  /\ role = "sender" => startCommand
  /\ role = "receiver" => ~ startCommand
  /\ isSender \/ mPc \in {"mark", "ask"} => startCommand
  /\ mPc = "check" => ~ startCommand

\* The server says START once; until run() has handled it nothing that
\* belongs to a simulation exists.
Handling == {"file", "go", "ifSender", "checksum"}
StartAwaited ==
  \/ server = "idle"
  \/ Places(inSock, "START") # {}
  \/ ePc \in {"file", "go"}

StartsOnce ==
  /\ \A i, j \in Places(inSock, "START") : i = j
  /\ server = "idle" => Places(inSock, "START") = {} /\ ePc \notin Handling
  /\ ePc \in Handling => Places(inSock, "START") = {}

NothingBeforeStart ==
  /\ ePc = "go" => fileID = "given"
  /\ \/ started
     \/ mPc = "launch" \/ (mPc = "branch" /\ ~ finished)
     \/ role # "none"
     \/ ePc \in {"ifSender", "checksum", "send"}
     => ~ StartAwaited /\ fileID = "given"
  /\ StartAwaited \/ ePc \in {"ifSender", "checksum"} =>
       /\ inbuf = 0 /\ proto # "returned"
       /\ ~ Written("IN") /\ ~ Written("TRANSMIT") /\ ~ Written("OUT")

\* How the threads end, and who waits for whom.
ThreadsEnd ==
  /\ finished /\ (role = "none" \/ mPc \notin {"join", "close", "exit"})
     => ePc \in {"xmit", "send", "cond", "done"}
  /\ role = "none" /\ mPc \in Closing => finished
  /\ joined => ePc = "done" /\ (role = "sender" \/ mPc \in {"close", "exit"})
  /\ stop => joined
  /\ mPc \in {"setStop", "joinSender"} => joined
  /\ role = "sender" /\ mPc \in Closing => joined
  /\ mPc \in {"close", "exit"} => joined \/ isSender
  /\ mPc = "upload" => proto = "returned"
  /\ role # "none" /\ mPc \in Closing => proto = "returned"

\* Who has written a message is past the place where it is written.
SaidAndPast ==
  /\ Written("START") => startCommand /\ mPc \notin {"mark", "ask"}
  /\ Written("TRANSMIT") => role # "none"
  /\ Written("OUT") => role # "none" /\ mPc \in Closing
  /\ Written("CLOSED") => mPc = "exit"

\* A thread that is in exit() stays where its write() failed.
Failing ==
  /\ Written("part") => exiting # {}
  /\ "loop" \in exiting => ePc \in {"checksum", "send"}
  /\ process = "ended" => joined /\ "main" \notin exiting

ClientInv ==
  /\ TypeOK /\ PacketsCounted /\ RoleSettled /\ StartsOnce
  /\ NothingBeforeStart /\ ThreadsEnd /\ SaidAndPast /\ Failing
  /\ WireOrder /\ AbortNeedsEnter

-----------------------------------------------------------------------------
(* What is under way from the server, and what has been written to it.     *)

LEMMA PlacesArePlaces ==
  ASSUME NEW T, NEW s \in Seq(T), NEW m
  PROVE  /\ Places(s, m) \subseteq 1 .. Len(s)
         /\ IsFiniteSet(Places(s, m)) /\ Cardinality(Places(s, m)) \in Nat
<1>1. Len(s) \in Nat /\ Places(s, m) \subseteq 1 .. Len(s)
  BY DEF Places
<1>2. IsFiniteSet(1 .. Len(s))
  BY <1>1, FS_Interval
<1> QED BY <1>1, <1>2, FS_Subset, FS_CardinalityType

\* A message more.
LEMMA PlacesOfAppend ==
  ASSUME NEW T, NEW s \in Seq(T), NEW x \in T, NEW m
  PROVE  /\ Places(Append(s, x), m)
              = Places(s, m) \cup (IF x = m THEN {Len(s) + 1} ELSE {})
         /\ Cardinality(Places(Append(s, x), m))
              = Cardinality(Places(s, m)) + (IF x = m THEN 1 ELSE 0)
<1>1. Places(Append(s, x), m)
        = Places(s, m) \cup (IF x = m THEN {Len(s) + 1} ELSE {})
  <2>1. /\ DOMAIN Append(s, x) = (1 .. Len(s)) \cup {Len(s) + 1}
        /\ Append(s, x)[Len(s) + 1] = x
        /\ \A i \in 1 .. Len(s) : Append(s, x)[i] = s[i]
        /\ DOMAIN s = 1 .. Len(s)
    OBVIOUS
  <2> QED BY <2>1 DEF Places
<1>2. Len(s) + 1 \notin Places(s, m) /\ IsFiniteSet(Places(s, m))
  BY PlacesArePlaces
<1>3. CASE x = m
  <2>1. /\ Cardinality(Places(s, m) \cup {Len(s) + 1})
              = Cardinality(Places(s, m)) + 1
    BY <1>2, FS_AddElement
  <2> QED BY <1>1, <1>3, <2>1
<1>4. CASE x # m
  <2>1. Cardinality(Places(s, m)) \in Nat
    BY PlacesArePlaces
  <2> QED BY <1>1, <1>4, <2>1
<1> QED BY <1>3, <1>4

\* The first message taken away.
LEMMA PlacesOfTail ==
  ASSUME NEW T, NEW s \in Seq(T), s # <<>>, NEW m
  PROVE  /\ \A i : i \in Places(Tail(s), m)
                   <=> i # 0 /\ i + 1 \in Places(s, m) /\ i \in Nat
         /\ 1 \in Places(s, m) <=> Head(s) = m
         /\ Cardinality(Places(s, m))
              = Cardinality(Places(Tail(s), m))
                  + (IF Head(s) = m THEN 1 ELSE 0)
<1>1. /\ Tail(s) \in Seq(T) /\ Len(s) \in Nat \ {0} /\ Head(s) = s[1]
      /\ DOMAIN s = 1 .. Len(s) /\ DOMAIN Tail(s) = 1 .. Len(s) - 1
      /\ \A i \in 1 .. Len(s) - 1 : Tail(s)[i] = s[i + 1]
  OBVIOUS
<1>2. \A i : i \in Places(Tail(s), m)
             <=> i # 0 /\ i + 1 \in Places(s, m) /\ i \in Nat
  BY <1>1 DEF Places
<1>3. 1 \in Places(s, m) <=> Head(s) = m
  BY <1>1 DEF Places
<1> DEFINE rest == Places(s, m) \ {1}
           up == [i \in Places(Tail(s), m) |-> i + 1]
<1>4. up \in Bijection(Places(Tail(s), m), rest)
  <2>1. /\ Places(Tail(s), m) \subseteq Nat \ {0}
        /\ rest \subseteq Nat \ {0, 1}
    BY <1>1 DEF Places
  <2>2. up \in Injection(Places(Tail(s), m), rest)
    BY <1>2, <2>1 DEF Injection, IsInjective
  <2>3. \A k \in rest : k - 1 \in Places(Tail(s), m) /\ up[k - 1] = k
    BY <1>2, <2>1
  <2>4. up \in Surjection(Places(Tail(s), m), rest)
    BY <2>2, <2>3 DEF Injection, Surjection
  <2> QED BY <2>2, <2>4 DEF Bijection
<1>5. /\ IsFiniteSet(Places(s, m)) /\ Cardinality(Places(s, m)) \in Nat
      /\ IsFiniteSet(Places(Tail(s), m))
  BY <1>1, PlacesArePlaces
<1>6. Cardinality(rest) = Cardinality(Places(Tail(s), m))
  <2> HIDE DEF rest, up
  <2> QED BY <1>4, <1>5, FS_Bijection DEF ExistsBijection
<1>7. Cardinality(Places(s, m))
        = Cardinality(rest) + (IF 1 \in Places(s, m) THEN 1 ELSE 0)
  <2>1. CASE 1 \in Places(s, m)
    <3>1. Cardinality(rest) = Cardinality(Places(s, m)) - 1
      BY <1>5, <2>1, FS_RemoveElement
    <3> HIDE DEF rest
    <3> QED BY <1>5, <2>1, <3>1
  <2>2. CASE 1 \notin Places(s, m)
    <3>1. rest = Places(s, m)
      BY <2>2
    <3> HIDE DEF rest
    <3> QED BY <1>5, <2>2, <3>1
  <2> QED BY <2>1, <2>2
<1> HIDE DEF rest
<1> QED BY <1>2, <1>3, <1>6, <1>7

\* A message written: the order is kept if it belongs behind the others.
LEMMA WroteOne ==
  ASSUME wire \in Seq(ToServer), NEW m \in ToServer, OnWire(m)
  PROVE  /\ wire' \in Seq(ToServer)
         /\ \A w : Written(w)' => Written(w) \/ w = m
         /\ \A w : Written(w) => Written(w)'
         /\ WireOrder /\ (m = "part" \/ \A w \in ToServer \ {"part"} :
                            Written(w) => /\ Phase(w) <= Phase(m)
                                          /\ w = m => w = "TRANSMIT")
            => WireOrder'
<1>1. CASE wire' = wire
  BY <1>1 DEF Written, WireOrder
<1>2. CASE wire' = Append(wire, m)
  <2>1. /\ wire' \in Seq(ToServer) /\ Len(wire) \in Nat
        /\ DOMAIN wire = 1 .. Len(wire) /\ DOMAIN wire' = 1 .. Len(wire) + 1
        /\ \A i \in 1 .. Len(wire) : wire[i] \in ToServer /\ wire'[i] = wire[i]
        /\ wire'[Len(wire) + 1] = m
    BY <1>2
  <2>2. \A w : Written(w)' => Written(w) \/ w = m
    BY <2>1 DEF Written
  <2>3. \A w : Written(w) => Written(w)'
    BY <2>1 DEF Written
  <2>4. ASSUME WireOrder,
               m = "part" \/ \A w \in ToServer \ {"part"} :
                  Written(w) => /\ Phase(w) <= Phase(m)
                                /\ w = m => w = "TRANSMIT",
               NEW i \in DOMAIN wire', NEW j \in DOMAIN wire',
               i < j, "part" \notin {wire'[i], wire'[j]}
        PROVE  /\ Phase(wire'[i]) <= Phase(wire'[j])
               /\ wire'[i] = wire'[j] => wire'[i] = "TRANSMIT"
    <3>1. i \in DOMAIN wire /\ wire'[i] = wire[i] /\ wire[i] \in ToServer
      BY <2>1, <2>4
    <3>2. CASE j \in DOMAIN wire
      <4>1. wire'[j] = wire[j]
        BY <2>1, <3>2
      <4> QED BY <2>4, <3>1, <3>2, <4>1 DEF WireOrder
    <3>3. CASE j = Len(wire) + 1
      <4>1. wire'[j] = m /\ Written(wire[i])
        BY <2>1, <3>1, <3>3 DEF Written
      <4> QED BY <2>4, <3>1, <4>1
    <3> QED BY <2>1, <3>2, <3>3
  <2> QED BY <2>1, <2>2, <2>3, <2>4 DEF WireOrder
<1> QED BY <1>1, <1>2 DEF OnWire

LEMMA WroteNothing ==
  ASSUME UNCHANGED wire
  PROVE  (\A w : Written(w)' <=> Written(w)) /\ (WireOrder => WireOrder')
BY DEF Written, WireOrder

-----------------------------------------------------------------------------
(* The steps.                                                              *)

\* The type invariant in two parts: the flags, and the others.
FlagsOK ==
  /\ startCommand \in BOOLEAN /\ joined \in BOOLEAN /\ stopThread \in BOOLEAN
  /\ heard \in BOOLEAN /\ stop \in BOOLEAN /\ started \in BOOLEAN
  /\ finished \in BOOLEAN /\ isSender \in BOOLEAN

OthersOK ==
  /\ process \in {"running", "ended", "exited", "terminated"}
  /\ exiting \in SUBSET {"main", "loop"}
  /\ mPc \in BeforeLaunch \cup Closing
              \cup {"joinLoop", "setStop", "joinSender", "receive", "upload"}
  /\ role \in {"none", "sender", "receiver"}
  /\ ePc \in {"cond", "read", "file", "go", "ifSender", "checksum", "packet",
              "fail", "over", "end", "xmit", "send", "done"}
  /\ proto \in {"idle", "running", "returned"}
  /\ fileID \in {"none", "given"}
  /\ inbuf \in 0 .. MaxPackets /\ outbuf \in 0 .. MaxPackets
  /\ wire \in Seq(ToServer) /\ inSock \in Seq(FromServer)
  /\ server \in {"idle", "running", "over"}
  /\ relayed \in 0 .. MaxPackets
  /\ link \in {"up", "dropped", "reset"}

LEMMA TypeInParts ==
  (TypeOK <=> FlagsOK /\ OthersOK) /\ (TypeOK' <=> FlagsOK' /\ OthersOK')
<1>1. BeforeLaunch \cup Closing
        \cup {"joinLoop", "setStop", "joinSender", "receive", "upload"}
      = {"poll", "poll2", "keys", "check", "mark", "ask", "wait",
         "wait2", "branch", "launch", "joinLoop", "setStop",
         "joinSender", "receive", "upload", "stop", "stop2", "join",
         "close", "exit"}
  BY DEF BeforeLaunch, Closing
<1>2. TypeOK <=> FlagsOK /\ OthersOK
  BY <1>1 DEF TypeOK, FlagsOK, OthersOK
<1>3. TypeOK' <=> FlagsOK' /\ OthersOK'
  BY <1>1 DEF TypeOK, FlagsOK, OthersOK
<1> QED BY <1>2, <1>3

LEMMA InitInv == Init => ClientInv
<1> SUFFICES ASSUME Init PROVE ClientInv
  OBVIOUS
<1>1. wire = <<>> /\ (\A w : ~ Written(w)) /\ WireOrder
  BY DEF Init, Written, WireOrder
<1>2. (\A m : Places(inSock, m) = {}) /\ Cardinality({}) = 0
  BY FS_EmptySet DEF Init, Places
<1>3. TypeOK /\ PacketsCounted
  <2>1. TypeOK
    <3>1. FlagsOK
      BY DEF Init, FlagsOK
    <3>2. OthersOK
      BY BoundAssumption DEF Init, OthersOK, BeforeLaunch
    <3> QED BY <3>1, <3>2, TypeInParts
  <2>2. Cardinality(Places(inSock, "PACKET")) = 0
    BY <1>2
  <2> QED BY <2>1, <2>2 DEF Init, PacketsCounted
<1>4. RoleSettled /\ StartsOnce /\ NothingBeforeStart
  BY <1>1, <1>2 DEF Init, RoleSettled, StartsOnce, NothingBeforeStart,
                    BeforeLaunch, Handling
<1>5. ThreadsEnd /\ SaidAndPast /\ Failing /\ AbortNeedsEnter
  BY <1>1 DEF Init, ThreadsEnd, SaidAndPast, Failing, AbortNeedsEnter, Closing
<1> QED BY <1>1, <1>3, <1>4, <1>5 DEF ClientInv

\* The parts of the invariant that speak of the threads.
ThreadInv ==
  /\ RoleSettled /\ NothingBeforeStart /\ ThreadsEnd /\ SaidAndPast /\ Failing
  /\ AbortNeedsEnter

LEMMA MainStepKeeps == ASSUME ClientInv, MainStep PROVE ClientInv'
<1> DEFINE Kept == TypeOK' /\ ThreadInv' /\ WireOrder'
<1> USE DEF ClientInv, ThreadInv, RoleSettled, NothingBeforeStart, ThreadsEnd,
            SaidAndPast, Failing, AbortNeedsEnter, StartAwaited, BeforeLaunch,
            Closing, Alive, TypeOK, processVars, mainVars, loopVars,
            protoVars, flagVars, bufVars, serverVars
<1> USE DEF Main, MainReads
<1>1. ASSUME Poll PROVE Kept
  BY <1>1, WroteNothing DEF Poll
<1>2. ASSUME Poll2 PROVE Kept
  BY <1>2, WroteNothing DEF Poll2
<1>3. ASSUME Keys PROVE Kept
  BY <1>3, WroteNothing DEF Keys
<1>4. ASSUME RequestCheck PROVE Kept
  BY <1>4, WroteNothing DEF RequestCheck
<1>5. ASSUME RequestMark PROVE Kept
  BY <1>5, WroteNothing DEF RequestMark
<1>6. ASSUME RequestWrite PROVE Kept
  BY <1>6, WroteOne DEF RequestWrite, Write, ToServer, Phase
<1>7. ASSUME Wait PROVE Kept
  BY <1>7, WroteNothing DEF Wait
<1>8. ASSUME Wait2 PROVE Kept
  BY <1>8, WroteNothing DEF Wait2
<1>9. ASSUME Branch PROVE Kept
  BY <1>9, WroteNothing DEF Branch
<1>10. ASSUME Launch PROVE Kept
  BY <1>10, WroteNothing DEF Launch
<1>11. ASSUME JoinLoop PROVE Kept
  BY <1>11, WroteNothing DEF JoinLoop, LoopGone
<1>12. ASSUME SetStop PROVE Kept
  BY <1>12, WroteNothing DEF SetStop, StopValue
<1>13. ASSUME JoinSender PROVE Kept
  BY <1>13, WroteNothing DEF JoinSender, SenderGone
<1>14. ASSUME ReceiverReturned PROVE Kept
  BY <1>14, WroteNothing DEF ReceiverReturned
<1>15. ASSUME Upload PROVE Kept
  BY <1>15, WroteOne DEF Upload, Write, ToServer, Phase
<1>16. ASSUME StopStarted PROVE Kept
  <2>1. TypeOK' /\ WireOrder'
    <3>1. FlagsOK'
      BY <1>16 DEF FlagsOK, StopStarted
    <3>2. OthersOK'
      BY <1>16 DEF OthersOK, StopStarted
    <3> QED BY <1>16, <3>1, <3>2, TypeInParts, WroteNothing DEF StopStarted
  <2>2. RoleSettled'
    BY <1>16, WroteNothing DEF StopStarted
  <2>3. NothingBeforeStart'
    BY <1>16, WroteNothing DEF StopStarted
  <2>4. ThreadsEnd'
    BY <1>16, WroteNothing DEF StopStarted
  <2>5. SaidAndPast'
    BY <1>16, WroteNothing DEF StopStarted
  <2>6. Failing' /\ AbortNeedsEnter'
    BY <1>16, WroteNothing DEF StopStarted
  <2> QED BY <2>1, <2>2, <2>3, <2>4, <2>5, <2>6
<1>17. ASSUME StopFinished PROVE Kept
  BY <1>17, WroteNothing DEF StopFinished
<1>18. ASSUME StopJoin PROVE Kept
  <2>1. TypeOK' /\ WireOrder'
    <3>1. FlagsOK'
      BY <1>18 DEF FlagsOK, StopJoin, StopJoins, LoopGone
    <3>2. OthersOK'
      BY <1>18 DEF OthersOK, StopJoin, StopJoins, LoopGone
    <3> QED
      BY <1>18, <3>1, <3>2, TypeInParts, WroteNothing
         DEF StopJoin, StopJoins, LoopGone
  <2>2. RoleSettled'
    BY <1>18, WroteNothing DEF StopJoin, StopJoins, LoopGone
  <2>3. NothingBeforeStart'
    BY <1>18, WroteNothing DEF StopJoin, StopJoins, LoopGone
  <2>4. ThreadsEnd'
    <3>0. UNCHANGED <<finished, role, ePc, stop, isSender, proto>>
      BY <1>18 DEF StopJoin
    <3>1. CASE mPc' = "close" /\ joined' /\ ePc = "done"
      BY <1>18, <3>0, <3>1 DEF StopJoin
    <3>2. CASE mPc' = "close" /\ joined' = joined /\ isSender
      BY <1>18, <3>0, <3>2 DEF StopJoin
    <3>3. CASE mPc' = "join" /\ joined' = joined
      BY <1>18, <3>0, <3>3 DEF StopJoin
    <3> QED BY <1>18, <3>1, <3>2, <3>3 DEF StopJoin, StopJoins, LoopGone
  <2>5. SaidAndPast'
    BY <1>18, WroteNothing DEF StopJoin, StopJoins, LoopGone
  <2>6. Failing' /\ AbortNeedsEnter'
    BY <1>18, WroteNothing DEF StopJoin, StopJoins, LoopGone
  <2> QED BY <2>1, <2>2, <2>3, <2>4, <2>5, <2>6
<1>19. ASSUME StopClose PROVE Kept
  BY <1>19, WroteOne DEF StopClose, Write, ToServer, Phase
<1>20. ASSUME Return PROVE Kept
  BY <1>20, WroteNothing DEF Return
<1>21. UNCHANGED <<inSock, ePc, inbuf, relayed, server>>
  BY DEF MainStep, Poll, Poll2, Keys, RequestCheck, RequestMark,
         RequestWrite, Wait, Wait2, Branch, Launch, JoinLoop, SetStop,
         JoinSender, ReceiverReturned, Upload, StopStarted, StopFinished,
         StopJoin, StopClose, Return
<1>22. PacketsCounted' /\ StartsOnce'
  BY <1>21 DEF PacketsCounted, StartsOnce, Handling
<1> QED
  BY <1>1, <1>2, <1>3, <1>4, <1>5, <1>6, <1>7, <1>8, <1>9, <1>10, <1>11,
     <1>12, <1>13, <1>14, <1>15, <1>16, <1>17, <1>18, <1>19, <1>20, <1>22
     DEF MainStep

LEMMA LoopStepKeeps == ASSUME ClientInv, LoopStep PROVE ClientInv'
<1> DEFINE Kept == /\ TypeOK' /\ ThreadInv' /\ WireOrder'
                   /\ PacketsCounted' /\ StartsOnce'
<1> USE DEF ClientInv, ThreadInv, RoleSettled, NothingBeforeStart, ThreadsEnd,
            SaidAndPast, Failing, AbortNeedsEnter, StartAwaited, BeforeLaunch,
            Closing, Handling, Alive, TypeOK, processVars, mainVars, loopVars,
            protoVars, flagVars, bufVars, serverVars
<1> USE DEF Loop, LoopReads
<1>0. Cardinality(Places(inSock, "PACKET")) \in Nat
  BY PlacesArePlaces
<1>1. ASSUME LoopTop PROVE Kept
  BY <1>0, <1>1, WroteNothing
     DEF LoopTop, RunCondition, PacketsCounted, StartsOnce
<1>2. ASSUME ReadNothing PROVE Kept
  BY <1>0, <1>2, WroteNothing DEF ReadNothing, PacketsCounted, StartsOnce
<1>3. ASSUME StartFile PROVE Kept
  BY <1>0, <1>3, WroteNothing DEF StartFile, PacketsCounted, StartsOnce
<1>4. ASSUME StartSimulation PROVE Kept
  BY <1>0, <1>4, WroteNothing DEF StartSimulation, PacketsCounted, StartsOnce
<1>5. ASSUME StartIfSender PROVE Kept
  BY <1>0, <1>5, WroteNothing DEF StartIfSender, PacketsCounted, StartsOnce
<1>6. ASSUME StartChecksum PROVE Kept
  BY <1>0, <1>6, WroteOne
     DEF StartChecksum, Write, ToServer, Phase, PacketsCounted, StartsOnce
<1>7. ASSUME HandlePacket PROVE Kept
  <2>1. TypeOK'
    <3>1. FlagsOK'
      BY <1>7 DEF FlagsOK, HandlePacket
    <3>2. OthersOK'
      BY <1>0, <1>7, BoundAssumption DEF OthersOK, HandlePacket, PacketsCounted
    <3> QED BY <3>1, <3>2, TypeInParts
  <2>2. WireOrder'
    BY <1>7, WroteNothing DEF HandlePacket
  <2>3. RoleSettled'
    BY <1>7, WroteNothing DEF HandlePacket
  <2>4. NothingBeforeStart'
    BY <1>7, WroteNothing DEF HandlePacket
  <2>5. ThreadsEnd'
    BY <1>7, WroteNothing DEF HandlePacket
  <2>6. SaidAndPast'
    BY <1>7, WroteNothing DEF HandlePacket
  <2>7. Failing' /\ AbortNeedsEnter'
    BY <1>7, WroteNothing DEF HandlePacket
  <2>8. PacketsCounted' /\ StartsOnce'
    BY <1>0, <1>7 DEF HandlePacket, PacketsCounted, StartsOnce
  <2> QED BY <2>1, <2>2, <2>3, <2>4, <2>5, <2>6, <2>7, <2>8
<1>8. ASSUME HandleFail PROVE Kept
  <2>1. TypeOK'
    <3>1. FlagsOK'
      BY <1>8 DEF FlagsOK, HandleFail
    <3>2. OthersOK'
      BY <1>8, WroteNothing DEF OthersOK, HandleFail
    <3> QED BY <3>1, <3>2, TypeInParts
  <2>2. WireOrder'
    BY <1>8, WroteNothing DEF HandleFail
  <2>3. RoleSettled'
    BY <1>8, WroteNothing DEF HandleFail
  <2>4. NothingBeforeStart'
    BY <1>8, WroteNothing DEF HandleFail
  <2>5. ThreadsEnd'
    BY <1>8, WroteNothing DEF HandleFail
  <2>6. SaidAndPast'
    BY <1>8, WroteNothing DEF HandleFail
  <2>7. Failing' /\ AbortNeedsEnter'
    BY <1>8, WroteNothing DEF HandleFail
  <2>8. PacketsCounted' /\ StartsOnce'
    BY <1>0, <1>8 DEF HandleFail, PacketsCounted, StartsOnce
  <2> QED BY <2>1, <2>2, <2>3, <2>4, <2>5, <2>6, <2>7, <2>8
<1>9. ASSUME HandleOver PROVE Kept
  <2>1. TypeOK'
    <3>1. FlagsOK'
      BY <1>9 DEF FlagsOK, HandleOver
    <3>2. OthersOK'
      BY <1>9, WroteNothing DEF OthersOK, HandleOver
    <3> QED BY <3>1, <3>2, TypeInParts
  <2>2. WireOrder'
    BY <1>9, WroteNothing DEF HandleOver
  <2>3. RoleSettled'
    BY <1>9, WroteNothing DEF HandleOver
  <2>4. NothingBeforeStart'
    BY <1>9, WroteNothing DEF HandleOver
  <2>5. ThreadsEnd'
    BY <1>9, WroteNothing DEF HandleOver
  <2>6. SaidAndPast'
    BY <1>9, WroteNothing DEF HandleOver
  <2>7. Failing' /\ AbortNeedsEnter'
    BY <1>9, WroteNothing DEF HandleOver
  <2>8. PacketsCounted' /\ StartsOnce'
    BY <1>0, <1>9 DEF HandleOver, PacketsCounted, StartsOnce
  <2> QED BY <2>1, <2>2, <2>3, <2>4, <2>5, <2>6, <2>7, <2>8
<1>10. ASSUME HandleEnd PROVE Kept
  BY <1>0, <1>10, WroteNothing DEF HandleEnd, PacketsCounted, StartsOnce
<1>11. ASSUME IfStarted PROVE Kept
  BY <1>0, <1>11, WroteNothing DEF IfStarted, PacketsCounted, StartsOnce
<1>12. ASSUME Transmit PROVE Kept
  <2>1. TypeOK'
    <3>1. FlagsOK'
      BY <1>12 DEF FlagsOK, Transmit, HasOutput, Write, ToServer, Phase
    <3>2. OthersOK'
      BY <1>12, BoundAssumption, WroteOne
         DEF OthersOK, Transmit, HasOutput, Write, ToServer, Phase
    <3> QED BY <3>1, <3>2, TypeInParts
  <2>2. WireOrder'
    BY <1>12, WroteOne DEF Transmit, HasOutput, Write, ToServer, Phase
  <2>3. RoleSettled'
    BY <1>12, WroteOne DEF Transmit, HasOutput, Write, ToServer, Phase
  <2>4. NothingBeforeStart'
    BY <1>12, WroteOne DEF Transmit, HasOutput, Write, ToServer, Phase
  <2>5. ThreadsEnd'
    BY <1>12, WroteOne DEF Transmit, HasOutput, Write, ToServer, Phase
  <2>6. SaidAndPast'
    BY <1>12, WroteOne DEF Transmit, HasOutput, Write, ToServer, Phase
  <2>7. Failing' /\ AbortNeedsEnter'
    BY <1>12, WroteOne DEF Transmit, HasOutput, Write, ToServer, Phase
  <2>8. PacketsCounted' /\ StartsOnce'
    BY <1>0, <1>12
       DEF Transmit, HasOutput, Write, ToServer, Phase, PacketsCounted,
           StartsOnce
  <2> QED BY <2>1, <2>2, <2>3, <2>4, <2>5, <2>6, <2>7, <2>8
<1>13. ASSUME NothingToTransmit PROVE Kept
  BY <1>0, <1>13, WroteNothing
     DEF NothingToTransmit, HasOutput, PacketsCounted, StartsOnce
<1>14. ASSUME ReadMessage PROVE Kept
  <2> PICK m : m = Head(inSock)
    OBVIOUS
  <2>1. /\ inSock \in Seq(FromServer) /\ inSock # <<>>
        /\ inSock' = Tail(inSock) /\ inSock' \in Seq(FromServer)
        /\ m \in FromServer /\ ePc = "read" /\ ePc' = HandlerOf(m)
    BY <1>14 DEF ReadMessage
  <2>2. /\ m = "START"  => ePc' = "file"
        /\ m = "PACKET" => ePc' = "packet"
        /\ m \notin {"START", "PACKET"} => ePc' \in {"fail", "over"}
    BY <2>1 DEF HandlerOf, FromServer
  <2>3. /\ \A i : i \in Places(inSock', "START")
                  <=> i # 0 /\ i + 1 \in Places(inSock, "START") /\ i \in Nat
        /\ 1 \in Places(inSock, "START") <=> m = "START"
        /\ Cardinality(Places(inSock, "PACKET"))
             = Cardinality(Places(inSock', "PACKET"))
                 + (IF m = "PACKET" THEN 1 ELSE 0)
    BY <2>1, PlacesOfTail
  <2>4. Cardinality(Places(inSock', "PACKET")) \in Nat
    BY <2>1, PlacesArePlaces
  <2>5. PacketsCounted'
    BY <1>0, <1>14, <2>1, <2>2, <2>3, <2>4, BoundAssumption
       DEF ReadMessage, PacketsCounted
  <2>6. StartsOnce'
    <3>1. Places(inSock, "START") = {} => Places(inSock', "START") = {}
      BY <2>3
    <3>2. m = "START" => Places(inSock', "START") = {}
      <4>1. \A i \in Places(inSock', "START") : m = "START" => i + 1 = 1
        BY <2>3 DEF StartsOnce
      <4> QED BY <2>3, <4>1
    <3>3. \A i, j \in Places(inSock', "START") : i = j
      <4>1. \A i, j \in Places(inSock', "START") : i + 1 = j + 1
        BY <2>3 DEF StartsOnce
      <4> QED BY <2>3, <4>1
    <3>4. m # "START" => ePc' \notin Handling
      BY <2>2
    <3>5. m = "START" => Places(inSock, "START") # {}
      BY <2>3
    <3> QED BY <1>14, <3>1, <3>2, <3>3, <3>4, <3>5 DEF ReadMessage, StartsOnce
  <2>7. TypeOK'
    <3>1. FlagsOK'
      BY <1>14 DEF FlagsOK, ReadMessage
    <3>2. OthersOK'
      BY <1>14, <2>1, <2>2 DEF OthersOK, ReadMessage
    <3> QED BY <3>1, <3>2, TypeInParts
  <2>8. NothingBeforeStart'
    <3>1. StartAwaited' => StartAwaited
      BY <1>14, <2>2, <2>3 DEF ReadMessage
    <3>2. ePc' \notin {"go", "ifSender", "checksum", "send"}
      BY <2>2
    <3> HIDE DEF StartAwaited
    <3> QED BY <1>14, <3>1, <3>2, WroteNothing DEF ReadMessage
  <2>9. WireOrder' /\ RoleSettled' /\ SaidAndPast'
    BY <1>14, WroteNothing DEF ReadMessage
  <2>10. ThreadsEnd'
    BY <1>14, WroteNothing DEF ReadMessage
  <2>11. Failing' /\ AbortNeedsEnter'
    BY <1>14, WroteNothing DEF ReadMessage
  <2> QED BY <2>5, <2>6, <2>7, <2>8, <2>9, <2>10, <2>11
<1> QED
  BY <1>1, <1>2, <1>3, <1>4, <1>5, <1>6, <1>7, <1>8, <1>9, <1>10, <1>11,
     <1>12, <1>13, <1>14 DEF LoopStep

\* The protocol's steps, and a thread that comes to its end in exit().
LEMMA OtherStepKeeps ==
  ASSUME ClientInv, WriteFails \/ Exit \/ ProtocolStep
  PROVE  ClientInv'
<1> DEFINE Kept == /\ TypeOK' /\ ThreadInv' /\ WireOrder'
                   /\ PacketsCounted' /\ StartsOnce'
<1> USE DEF ClientInv, ThreadInv, RoleSettled, NothingBeforeStart, ThreadsEnd,
            SaidAndPast, Failing, AbortNeedsEnter, StartAwaited, BeforeLaunch,
            Closing, Handling, Alive, TypeOK, processVars, mainVars, loopVars,
            protoVars, flagVars, bufVars, serverVars
<1> USE DEF Running
<1>0. Cardinality(Places(inSock, "PACKET")) \in Nat
  BY PlacesArePlaces
<1>1. ASSUME WriteFails PROVE Kept
  <2>1. TypeOK'
    <3>1. FlagsOK'
      BY <1>1 DEF FlagsOK, WriteFails, ToServer
    <3>2. wire' \in Seq(ToServer)
      BY <1>1, WroteOne, WroteNothing DEF WriteFails, ToServer
    <3>3. OthersOK'
      BY <1>1, <3>2 DEF OthersOK, WriteFails
    <3> QED BY <3>1, <3>3, TypeInParts
  <2>2. WireOrder'
    BY <1>1, WroteOne, WroteNothing DEF WriteFails, ToServer
  <2>3. RoleSettled'
    BY <1>1, WroteOne, WroteNothing DEF WriteFails, ToServer
  <2>4. NothingBeforeStart'
    BY <1>1, WroteOne, WroteNothing DEF WriteFails, ToServer
  <2>5. ThreadsEnd'
    BY <1>1, WroteOne, WroteNothing DEF WriteFails, ToServer
  <2>6. SaidAndPast'
    BY <1>1, WroteOne, WroteNothing DEF WriteFails, ToServer
  <2>7. Failing' /\ AbortNeedsEnter'
    BY <1>1, WroteOne, WroteNothing DEF WriteFails, ToServer
  <2>8. PacketsCounted' /\ StartsOnce'
    BY <1>0, <1>1 DEF WriteFails, ToServer, PacketsCounted, StartsOnce
  <2> QED BY <2>1, <2>2, <2>3, <2>4, <2>5, <2>6, <2>7, <2>8
<1>2. ASSUME Exit PROVE Kept
  BY <1>0, <1>2, WroteNothing DEF Exit, PacketsCounted, StartsOnce
<1>3. ASSUME ProtocolSends PROVE Kept
  <2>1. TypeOK'
    <3>1. FlagsOK'
      BY <1>3 DEF FlagsOK, ProtocolSends, MaySend
    <3>2. OthersOK'
      BY <1>3, BoundAssumption DEF OthersOK, ProtocolSends, MaySend
    <3> QED BY <3>1, <3>2, TypeInParts
  <2>2. WireOrder'
    BY <1>3, WroteNothing DEF ProtocolSends, MaySend
  <2>3. RoleSettled'
    BY <1>3, WroteNothing DEF ProtocolSends, MaySend
  <2>4. NothingBeforeStart'
    BY <1>3, WroteNothing DEF ProtocolSends, MaySend
  <2>5. ThreadsEnd'
    BY <1>3, WroteNothing DEF ProtocolSends, MaySend
  <2>6. SaidAndPast'
    BY <1>3, WroteNothing DEF ProtocolSends, MaySend
  <2>7. Failing' /\ AbortNeedsEnter'
    BY <1>3, WroteNothing DEF ProtocolSends, MaySend
  <2>8. PacketsCounted' /\ StartsOnce'
    BY <1>0, <1>3 DEF ProtocolSends, MaySend, PacketsCounted, StartsOnce
  <2> QED BY <2>1, <2>2, <2>3, <2>4, <2>5, <2>6, <2>7, <2>8
<1>4. ASSUME ProtocolReceives PROVE Kept
  <2>1. TypeOK'
    <3>1. FlagsOK'
      BY <1>4 DEF FlagsOK, ProtocolReceives, MaySend
    <3>2. OthersOK'
      BY <1>4, BoundAssumption DEF OthersOK, ProtocolReceives, MaySend
    <3> QED BY <3>1, <3>2, TypeInParts
  <2>2. WireOrder'
    BY <1>4, WroteNothing DEF ProtocolReceives, MaySend
  <2>3. RoleSettled'
    BY <1>4, WroteNothing DEF ProtocolReceives, MaySend
  <2>4. NothingBeforeStart'
    BY <1>4, WroteNothing DEF ProtocolReceives, MaySend
  <2>5. ThreadsEnd'
    BY <1>4, WroteNothing DEF ProtocolReceives, MaySend
  <2>6. SaidAndPast'
    BY <1>4, WroteNothing DEF ProtocolReceives, MaySend
  <2>7. Failing' /\ AbortNeedsEnter'
    BY <1>4, WroteNothing DEF ProtocolReceives, MaySend
  <2>8. PacketsCounted' /\ StartsOnce'
    BY <1>0, <1>4 DEF ProtocolReceives, MaySend, PacketsCounted, StartsOnce
  <2> QED BY <2>1, <2>2, <2>3, <2>4, <2>5, <2>6, <2>7, <2>8
<1>5. ASSUME SenderStops PROVE Kept
  BY <1>0, <1>5, WroteNothing DEF SenderStops, PacketsCounted, StartsOnce
<1>6. ASSUME ProtocolIdles PROVE Kept
  BY <1>0, <1>6, WroteNothing
     DEF ProtocolIdles, PacketsCounted, StartsOnce, vars
<1> QED BY <1>1, <1>2, <1>3, <1>4, <1>5, <1>6 DEF ProtocolStep

LEMMA ServerStepKeeps == ASSUME ClientInv, ServerStep PROVE ClientInv'
<1> DEFINE ServerOK ==
             /\ inSock \in Seq(FromServer)
             /\ server \in {"idle", "running", "over"}
             /\ relayed \in 0 .. MaxPackets
             /\ link \in {"up", "dropped", "reset"}
           Kept == /\ ServerOK' /\ PacketsCounted' /\ StartsOnce'
                   /\ StartAwaited' => StartAwaited
           starts(s) == Places(s, "START")
           packets(s) == Cardinality(Places(s, "PACKET"))
<1>0. ServerFrame
  BY DEF ServerStep, ServerStarts, ServerFails, ServerRelays, ServerFinishes,
         ServerAborts, ServerDrops, Reset
<1>1. /\ ServerOK /\ PacketsCounted /\ StartsOnce
      /\ inbuf \in Nat /\ relayed \in Nat /\ MaxPackets \in Nat
  BY BoundAssumption DEF ClientInv, TypeOK
<1>2. packets(inSock) \in Nat /\ starts(inSock) \subseteq 1 .. Len(inSock)
      /\ Len(inSock) \in Nat
  BY <1>1, PlacesArePlaces
<1>3. /\ UNCHANGED <<inbuf, ePc>>
      /\ UNCHANGED Handling
  BY <1>0 DEF ServerFrame, bufVars, loopVars, Handling
<1>4. \A m \in FromServer : Post(m) =>
        /\ inSock' \in Seq(FromServer)
        /\ m = "START" =>
             starts(inSock') = starts(inSock) \cup {Len(inSock) + 1}
        /\ m # "START" => starts(inSock') = starts(inSock)
        /\ m = "PACKET" => packets(inSock') = packets(inSock) + 1
        /\ m # "PACKET" => packets(inSock') = packets(inSock)
  <2> SUFFICES ASSUME NEW m \in FromServer, Post(m)
               PROVE  /\ inSock' \in Seq(FromServer)
                      /\ m = "START" =>
                           starts(inSock')
                             = starts(inSock) \cup {Len(inSock) + 1}
                      /\ m # "START" => starts(inSock') = starts(inSock)
                      /\ m = "PACKET" => packets(inSock') = packets(inSock) + 1
                      /\ m # "PACKET" => packets(inSock') = packets(inSock)
    OBVIOUS
  <2>1. inSock' = Append(inSock, m) /\ inSock' \in Seq(FromServer)
    BY <1>1 DEF Post
  <2>2. /\ starts(inSock') = starts(inSock)
              \cup (IF m = "START" THEN {Len(inSock) + 1} ELSE {})
        /\ packets(inSock')
              = packets(inSock) + (IF m = "PACKET" THEN 1 ELSE 0)
    BY <1>1, <2>1, PlacesOfAppend
  <2> HIDE DEF starts, packets
  <2> QED BY <1>2, <2>1, <2>2
<1> HIDE DEF starts, packets
<1> USE <1>1, <1>2, <1>3 DEF PacketsCounted, StartsOnce, StartAwaited
<1>5. ASSUME ServerStarts PROVE Kept
  <2>1. Post("START") /\ "START" \in FromServer
    BY <1>5 DEF ServerStarts, FromServer
  <2>2. /\ inSock' \in Seq(FromServer)
        /\ starts(inSock') = starts(inSock) \cup {Len(inSock) + 1}
        /\ packets(inSock') = packets(inSock)
    BY <1>4, <2>1
  <2> QED BY <1>5, <2>2 DEF ServerStarts, starts, packets
<1>6. ASSUME ServerFails PROVE Kept
  <2>1. Post("FAIL") /\ "FAIL" \in FromServer
    BY <1>6 DEF ServerFails, FromServer
  <2>2. /\ inSock' \in Seq(FromServer) /\ starts(inSock') = starts(inSock)
        /\ packets(inSock') = packets(inSock)
    BY <1>4, <2>1
  <2> QED BY <1>6, <2>2 DEF ServerFails, starts, packets
<1>7. ASSUME ServerRelays PROVE Kept
  <2>1. Post("PACKET") /\ "PACKET" \in FromServer
    BY <1>7 DEF ServerRelays, FromServer
  <2>2. /\ inSock' \in Seq(FromServer) /\ starts(inSock') = starts(inSock)
        /\ packets(inSock') = packets(inSock) + 1
    BY <1>4, <2>1
  <2> QED BY <1>7, <2>2 DEF ServerRelays, starts, packets
<1>8. ASSUME ServerFinishes PROVE Kept
  <2>1. Post("FINISH") /\ "FINISH" \in FromServer
    BY <1>8 DEF ServerFinishes, FromServer
  <2>2. /\ inSock' \in Seq(FromServer) /\ starts(inSock') = starts(inSock)
        /\ packets(inSock') = packets(inSock)
    BY <1>4, <2>1
  <2> QED BY <1>8, <2>2 DEF ServerFinishes, starts, packets
<1>9. ASSUME ServerAborts PROVE Kept
  <2>1. Post("CLOSED") /\ "CLOSED" \in FromServer
    BY <1>9 DEF ServerAborts, FromServer
  <2>2. /\ inSock' \in Seq(FromServer) /\ starts(inSock') = starts(inSock)
        /\ packets(inSock') = packets(inSock)
    BY <1>4, <2>1
  <2> QED BY <1>9, <2>2 DEF ServerAborts, starts, packets
<1>10. ASSUME ServerDrops \/ Reset PROVE Kept
  BY <1>10 DEF ServerDrops, Reset
<1>11. Kept
  BY <1>5, <1>6, <1>7, <1>8, <1>9, <1>10 DEF ServerStep
<1>12. TypeOK' /\ WireOrder'
  <2>1. UNCHANGED <<process, exiting, mPc, startCommand, role, joined, ePc,
                    stopThread, proto, heard, stop, started, finished,
                    isSender, fileID, inbuf, outbuf, wire>>
    BY <1>0 DEF ServerFrame, processVars, mainVars, loopVars, protoVars,
                flagVars, bufVars
  <2> QED BY <1>11, <2>1, WroteNothing DEF ClientInv, TypeOK
<1>13. /\ RoleSettled' /\ ThreadsEnd' /\ SaidAndPast'
       /\ Failing' /\ AbortNeedsEnter'
  BY <1>0, WroteNothing
     DEF ServerFrame, processVars, mainVars, loopVars, protoVars, flagVars,
         bufVars, ClientInv, RoleSettled, ThreadsEnd, SaidAndPast, Failing,
         AbortNeedsEnter, BeforeLaunch, Closing
<1>14. NothingBeforeStart'
  <2> HIDE DEF StartAwaited
  <2> QED
    BY <1>0, <1>11, WroteNothing
       DEF ServerFrame, mainVars, loopVars, protoVars, flagVars, bufVars,
           ClientInv, NothingBeforeStart
<1> QED BY <1>11, <1>12, <1>13, <1>14 DEF ClientInv

-----------------------------------------------------------------------------
(* The theorems.                                                           *)

LEMMA ClientStep == ClientInv /\ [Next]_vars => ClientInv'
<1> SUFFICES ASSUME ClientInv, [Next]_vars PROVE ClientInv'
  OBVIOUS
<1>1. ASSUME UNCHANGED vars PROVE ClientInv'
  BY <1>1, WroteNothing
     DEF vars, processVars, mainVars, loopVars, protoVars, flagVars, bufVars,
         serverVars, ClientInv, TypeOK, PacketsCounted, RoleSettled, StartsOnce,
         NothingBeforeStart, StartAwaited, ThreadsEnd, SaidAndPast, Failing,
         AbortNeedsEnter, BeforeLaunch, Closing, Handling
<1>2. ASSUME ProtocolStep \/ WriteFails \/ Exit PROVE ClientInv'
  BY <1>2, OtherStepKeeps
<1> QED
  BY <1>1, <1>2, MainStepKeeps, LoopStepKeeps, ServerStepKeeps DEF Next, Gone

\* The inductive invariant: main(), the event loop and the protocol pass each
\* other only at the places it allows.
THEOREM ClientInvHolds == Spec => []ClientInv
BY InitInv, ClientStep, PTL DEF Spec

\* The flags and the statements the threads are at keep their types, and the
\* two buffers their bounds: a packet the server relays gets into the input
\* buffer once at most.
THEOREM ClientTypes == Spec => []TypeOK
<1>1. ClientInv => TypeOK
  BY DEF ClientInv
<1> QED BY <1>1, ClientInvHolds, PTL

\* main() and the event loop write to the socket in order: the request and the
\* input checksum before all packets, CLOSED last, and nothing but packets
\* twice, however many packets there are.
THEOREM WireOrderHolds == Spec => []WireOrder
<1>1. ClientInv => WireOrder
  BY DEF ClientInv
<1> QED BY <1>1, ClientInvHolds, PTL

\* setFileID(getFileID()) never passes on an empty id.
THEOREM FileIDBeforeRole == Spec => []FileIDIsSet
<1>1. ClientInv => FileIDIsSet
  BY DEF ClientInv, NothingBeforeStart, FileIDIsSet
<1> QED BY <1>1, ClientInvHolds, PTL

\* When main() deletes the protocol object sender() or receiver() has
\* returned, and when it returns itself the event loop is gone.
THEOREM NoThreadLeftHolds == Spec => []NoThreadLeft
<1>1. ClientInv => NoThreadLeft
  BY DEF ClientInv, TypeOK, RoleSettled, ThreadsEnd, NoThreadLeft, Closing
<1> QED BY <1>1, ClientInvHolds, PTL

\* The C++ runtime aborts the process only if its user pressed Enter.
THEOREM AbortNeedsEnterHolds == Spec => []AbortNeedsEnter
<1>1. ClientInv => AbortNeedsEnter
  BY DEF ClientInv
<1> QED BY <1>1, ClientInvHolds, PTL

\* A process that ends in order has written whole messages only.
THEOREM OrderlyEndHolds == Spec => []OrderlyEndIsWhole
<1>1. ClientInv => OrderlyEndIsWhole
  BY DEF ClientInv, TypeOK, ThreadsEnd, Failing, OrderlyEndIsWhole
<1> QED BY <1>1, ClientInvHolds, PTL
=============================================================================
