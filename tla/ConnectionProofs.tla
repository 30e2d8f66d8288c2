-------------------------- MODULE ConnectionProofs --------------------------
(***************************************************************************)
(* Proofs about Connection, for any number of addresses and lines and any  *)
(* size of the read buffer: clientConnect() and the event loop handle the  *)
(* server's lines whole, once and in order, and no byte is lost.           *)
(***************************************************************************)
EXTENDS Connection, SequenceTheorems, TLAPS

-----------------------------------------------------------------------------
(* The inductive invariant.                                                *)

Text == Words \cup {PROTOCOL}
Token == Text \cup {NL}

TypeOK ==
  /\ socketBufferStr \in Seq(Token) /\ socket \in Seq(Token)
  /\ currentControlMessage \in Seq(Text) /\ handled \in Seq(Seq(Text))
  /\ written \in Seq(Seq(Text))
  /\ ends \in Seq(Nat) /\ Len(ends) = Len(written)

\* The lines lie one behind the other in the stream.
LinesFollow ==
  \A k \in 1 .. Len(written) :
    /\ ends[k] = EndOf(k - 1) + Len(written[k]) + 1
    /\ \A j \in 0 .. k - 1 : EndOf(j) < ends[k]

Unread == socketBufferStr \o socket

\* Where in Unread line k begins: behind so many bytes.
OffsetOf(k) == EndOf(k - 1) - EndOf(Len(Taken))

\* What is in the buffers, byte by byte.
BytesInPlace ==
  /\ Len(Unread) = EndOf(Len(written)) - EndOf(Len(Taken))
  /\ \A k \in Len(Taken) + 1 .. Len(written) :
       /\ \A j \in 1 .. Len(written[k]) :
            Unread[OffsetOf(k) + j] = written[k][j]
       /\ Unread[OffsetOf(k) + Len(written[k]) + 1] = NL

ConnInv ==
  /\ TypeOK /\ LinesFollow
  /\ Len(Taken) <= Len(written)
  /\ BytesInPlace /\ LinesInOrder

-----------------------------------------------------------------------------
(* Sequences: what a read moves and what is cut off.                       *)

LEMMA ReadMoves ==
  ASSUME NEW S, NEW b \in Seq(S), NEW s \in Seq(S), NEW n \in 0 .. Len(s)
  PROVE  LET str  == b \o SubSeq(s, 1, n)
             rest == SubSeq(s, n + 1, Len(s))
         IN  str \in Seq(S) /\ rest \in Seq(S) /\ str \o rest = b \o s
<1> DEFINE got == SubSeq(s, 1, n)
           rest == SubSeq(s, n + 1, Len(s))
<1>1. got \in Seq(S) /\ rest \in Seq(S)
  BY SubSeqProperties
<1>2. got \o rest = s
  <2>1. got \o rest = SubSeq(s, 1, Len(s))
    <3>1. Len(s) \in Nat
      BY LenProperties
    <3>2. /\ 1 \in 1 .. Len(s) + 1 /\ n \in 1 - 1 .. Len(s)
          /\ Len(s) \in n .. Len(s)
      BY <3>1
    <3> QED BY <3>2, ConcatAdjacentSubSeq, Zenon
  <2> QED BY <2>1, SubSeqFull
<1> HIDE DEF got, rest
<1>3. (b \o got) \o rest = b \o (got \o rest)
  <2>1. \A x, y, z \in Seq(S) : (x \o y) \o z = x \o (y \o z)
    BY ConcatAssociative
  <2> QED BY <1>1, <2>1, Zenon
<1>4. b \o got \in Seq(S) /\ (b \o got) \o rest = b \o s
  BY <1>1, <1>2, <1>3, ConcatProperties
<1> QED BY <1>1, <1>4 DEF got, rest

LEMMA CutOff ==
  ASSUME NEW S, NEW str \in Seq(S), NEW rest \in Seq(S),
         NEW p \in 1 .. Len(str)
  PROVE  /\ SubSeq(str, 1, p - 1) \in Seq(S)
         /\ Len(SubSeq(str, 1, p - 1)) = p - 1
         /\ \A i \in 1 .. p - 1 :
              SubSeq(str, 1, p - 1)[i] = (str \o rest)[i]
         /\ SubSeq(str, p + 1, Len(str)) \in Seq(S)
         /\ Len(SubSeq(str, p + 1, Len(str)) \o rest) = Len(str \o rest) - p
         /\ \A i \in 1 .. Len(str \o rest) - p :
              (SubSeq(str, p + 1, Len(str)) \o rest)[i] = (str \o rest)[p + i]
<1> DEFINE line == SubSeq(str, 1, p - 1)
           tail == SubSeq(str, p + 1, Len(str))
<1>1. /\ line \in Seq(S) /\ Len(line) = p - 1
      /\ \A i \in 1 .. p - 1 : line[i] = str[i]
  BY SubSeqProperties
<1>2. /\ tail \in Seq(S) /\ Len(tail) = Len(str) - p
      /\ \A i \in 1 .. Len(str) - p : tail[i] = str[p + i]
  BY SubSeqProperties
<1> HIDE DEF line, tail
<1>3. \A i \in 1 .. p - 1 : line[i] = (str \o rest)[i]
  BY <1>1, ConcatProperties
<1>4. Len(tail \o rest) = Len(str \o rest) - p
  <2>1. Len(tail \o rest) = Len(tail) + Len(rest)
    BY <1>2, ConcatProperties
  <2>2. Len(str \o rest) = Len(str) + Len(rest)
    BY ConcatProperties
  <2>3. Len(str) \in Nat /\ Len(rest) \in Nat
    BY LenProperties
  <2> QED BY <1>2, <2>1, <2>2, <2>3
<1>5. ASSUME NEW i \in 1 .. Len(str \o rest) - p
      PROVE  (tail \o rest)[i] = (str \o rest)[p + i]
  <2>1. Len(str \o rest) = Len(str) + Len(rest)
    BY ConcatProperties
  <2>2. CASE i <= Len(tail)
    BY <1>2, <1>4, <2>1, <2>2, ConcatProperties
  <2>3. CASE i > Len(tail)
    BY <1>2, <1>4, <2>1, <2>3, ConcatProperties
  <2> QED BY <1>2, <2>2, <2>3
<1> QED BY <1>1, <1>2, <1>3, <1>4, <1>5 DEF line, tail

\* find('\n') gives the first one.
LEMMA FirstNewline ==
  ASSUME NEW str \in Seq(Token), NEW p \in 1 .. Len(str), str[p] = NL,
         \A i \in 1 .. p - 1 : str[i] # NL
  PROVE  Newline(str) = p
<1> DEFINE I == {i \in 1 .. Len(str) : str[i] = NL}
<1>1. p \in I /\ \A i \in I : i \in Int /\ p <= i
  OBVIOUS
<1>2. Contains(str, NL)
  BY DEF Contains
<1>3. SelectInSeq(str, LAMBDA t : t = NL) = IF I # {} THEN Min(I) ELSE 0
  BY DEF SelectInSeq
<1> HIDE DEF I
<1>4. Min(I) = p
  <2>1. \A x \in I : (\A y \in I : x <= y) => x = p
    BY <1>1
  <2> QED BY <1>1, <2>1 DEF Min
<1> QED BY <1>1, <1>2, <1>3, <1>4 DEF Newline

-----------------------------------------------------------------------------
(* The steps.                                                              *)

LEMMA Basics ==
  ASSUME ConnInv
  PROVE  /\ Taken \in Seq(Seq(Text)) /\ Len(Taken) \in 0 .. Len(written)
         /\ Len(written) \in Nat /\ Len(ends) = Len(written)
         /\ \A k \in 1 .. Len(written) : written[k] \in Seq(Text)
         /\ \A k \in 1 .. Len(written) : Len(written[k]) \in Nat
         /\ \A k \in 0 .. Len(written) : EndOf(k) \in Nat
         /\ \A j, k \in 0 .. Len(written) : j <= k => EndOf(j) <= EndOf(k)
         /\ \A k \in 1 .. Len(written) :
              EndOf(k) = EndOf(k - 1) + Len(written[k]) + 1
         /\ Unread \in Seq(Token) /\ Len(Unread) \in Nat
<1> USE DEF ConnInv, TypeOK
<1>1. Taken \in Seq(Seq(Text))
  BY AppendProperties DEF Taken
<1>2. Len(written) \in Nat /\ Len(Taken) \in Nat
  BY <1>1, LenProperties
<1>3. /\ \A k \in 1 .. Len(written) : written[k] \in Seq(Text)
      /\ \A k \in 1 .. Len(written) : Len(written[k]) \in Nat
  BY ElementOfSeq, LenProperties
<1>4. \A k \in 1 .. Len(written) : ends[k] \in Nat /\ EndOf(k) = ends[k]
  BY ElementOfSeq DEF EndOf
<1>5. \A k \in 0 .. Len(written) : EndOf(k) \in Nat
  BY <1>2, <1>4 DEF EndOf
<1>6. \A j, k \in 0 .. Len(written) : j <= k => EndOf(j) <= EndOf(k)
  <2> SUFFICES ASSUME NEW j \in 0 .. Len(written),
                      NEW k \in 0 .. Len(written), j <= k
               PROVE  EndOf(j) <= EndOf(k)
    OBVIOUS
  <2>1. CASE j = k
    BY <1>5, <2>1
  <2>2. CASE j < k
    <3>1. k \in 1 .. Len(written) /\ j \in 0 .. k - 1
      BY <1>2, <2>2
    <3>2. EndOf(j) < ends[k] /\ EndOf(k) = ends[k]
      BY <1>4, <3>1 DEF LinesFollow
    <3> QED BY <1>5, <3>2
  <2> QED BY <1>2, <2>1, <2>2
<1>7. \A k \in 1 .. Len(written) :
        EndOf(k) = EndOf(k - 1) + Len(written[k]) + 1
  BY <1>4 DEF LinesFollow
<1>8. Unread \in Seq(Token) /\ Len(Unread) \in Nat
  BY ConcatProperties, LenProperties DEF Unread
<1> QED BY <1>1, <1>2, <1>3, <1>5, <1>6, <1>7, <1>8

LEMMA NothingTaken ==
  ASSUME ConnInv, UNCHANGED <<written, ends>>, Taken' = Taken,
         Unread' = Unread,
         socketBufferStr' \in Seq(Token), socket' \in Seq(Token),
         currentControlMessage' \in Seq(Text), handled' \in Seq(Seq(Text))
  PROVE  ConnInv'
<1>1. TypeOK' /\ LinesFollow'
  BY DEF ConnInv, TypeOK, LinesFollow, EndOf
<1>2. BytesInPlace'
  BY DEF ConnInv, BytesInPlace, OffsetOf, EndOf
<1>3. LinesInOrder'
  BY DEF ConnInv, LinesInOrder, ReadableTo
<1> QED BY <1>1, <1>2, <1>3 DEF ConnInv

\* The connection, the registration, and a message that is cleared when it
\* has been handled.
LEMMA OtherSteps ==
  ASSUME ConnInv,
         \/ OpenSocket \/ Connect \/ Hello \/ Register \/ Reply \/ Refused
         \/ LoopTop \/ Run \/ MainStops \/ WriteFails
         \/ Close \/ Ended \/ UNCHANGED vars
  PROVE  ConnInv'
<1>1. UNCHANGED <<socketBufferStr, socket, written, ends>>
  BY DEF OpenSocket, Connect, Hello, Register, Reply, Refused, LoopTop, Run,
         MainStops, WriteFails, Close, Ended, Handles, vars, readVars,
         serverVars, clientVars
<1>2. /\ Taken' = Taken
      /\ currentControlMessage' \in Seq(Text) /\ handled' \in Seq(Seq(Text))
  <2>1. ASSUME UNCHANGED <<currentControlMessage, handled>>
        PROVE  /\ Taken' = Taken
               /\ currentControlMessage' \in Seq(Text)
               /\ handled' \in Seq(Seq(Text))
    BY <2>1 DEF Taken, ConnInv, TypeOK
  <2>2. ASSUME NEW m, NEW next, Handles(m, next), currentControlMessage' = <<>>
        PROVE  /\ Taken' = Taken
               /\ currentControlMessage' \in Seq(Text)
               /\ handled' \in Seq(Seq(Text))
    <3>1. /\ handled' = Append(handled, m)
          /\ m = currentControlMessage /\ m # <<>>
      BY <2>2 DEF Handles
    <3>2. m \in Seq(Text) /\ handled \in Seq(Seq(Text))
      BY <3>1 DEF ConnInv, TypeOK
    <3> QED BY <2>2, <3>1, <3>2, AppendProperties, EmptySeq DEF Taken
  <2>3. ASSUME \/ OpenSocket \/ Connect \/ Register \/ Refused \/ LoopTop
               \/ MainStops \/ WriteFails
               \/ Close \/ Ended \/ UNCHANGED vars
        PROVE  UNCHANGED <<currentControlMessage, handled>>
    BY <2>3 DEF OpenSocket, Connect, Register, Refused, LoopTop, MainStops,
                WriteFails, Close, Ended, vars, readVars
  <2> QED BY <2>1, <2>2, <2>3 DEF Hello, Reply, Run, AfterHello
<1>3. /\ Unread' = Unread
      /\ socketBufferStr' \in Seq(Token) /\ socket' \in Seq(Token)
  BY <1>1 DEF ConnInv, TypeOK, Unread
<1> QED BY <1>1, <1>2, <1>3, NothingTaken

LEMMA LinesAreText ==
  ASSUME NEW line, WriteLine(line) PROVE line \in Seq(Text)
<1>1. <<PROTOCOL, " ">> \in Seq(Text)
  BY DEF Text, Words
<1>2. /\ <<"REGISTER">> \in Seq(Text) /\ <<"OK">> \in Seq(Text)
      /\ <<"FAIL">> \in Seq(Text) /\ <<"CLOSED">> \in Seq(Text)
      /\ <<"FINISH">> \in Seq(Text) /\ <<"PACKET", "data">> \in Seq(Text)
  BY DEF Text, Words
<1>3. /\ <<"junk", " ", "OK">> \in Seq(Text) /\ <<>> \in Seq(Text)
      /\ OtherVersion \in Seq(Text)
  BY DEF Text, Words, OtherVersion
<1>4. \A m \in Seq(Text) : Said(m) \in Seq(Text)
  BY <1>1, ConcatProperties DEF Said
<1>5. \A m \in Endings : Said(m) \in Seq(Text)
  BY <1>2, <1>4 DEF Endings
<1> QED BY <1>1, <1>2, <1>3, <1>4, <1>5 DEF WriteLine, OddLines

LEMMA WriteStep ==
  ASSUME ConnInv, NEW line, WriteLine(line)
  PROVE  ConnInv'
<1>0. PICK n \in Nat, e \in Nat :
      n = Len(written) /\ e = EndOf(n) + Len(line) + 1
  <2>1. line \in Seq(Text) /\ Len(line) \in Nat
    BY LinesAreText, LenProperties
  <2>2. Len(written) \in Nat /\ EndOf(Len(written)) \in Nat
    BY Basics
  <2> QED BY <2>1, <2>2
<1>1. /\ written' = Append(written, line) /\ ends' = Append(ends, e)
      /\ socket' = socket \o Append(line, NL)
      /\ UNCHANGED <<socketBufferStr, currentControlMessage, handled>>
  BY <1>0 DEF WriteLine, readVars
<1>2. /\ line \in Seq(Text) /\ Len(line) \in Nat
      /\ n \in Nat /\ e \in Nat /\ Taken' = Taken
  <2>1. line \in Seq(Text) /\ Len(line) \in Nat
    BY LinesAreText, LenProperties
  <2>2. n \in Nat /\ EndOf(n) \in Nat
    BY <1>0, Basics
  <2> QED BY <1>1, <2>1, <2>2 DEF Taken
<1>3. /\ written' \in Seq(Seq(Text)) /\ Len(written') = n + 1
      /\ \A k \in 1 .. n : written'[k] = written[k]
      /\ written'[n + 1] = line
  BY <1>0, <1>1, <1>2, AppendProperties DEF ConnInv, TypeOK
<1>4. /\ ends' \in Seq(Nat) /\ Len(ends') = n + 1
      /\ \A k \in 1 .. n : ends'[k] = ends[k]
      /\ ends'[n + 1] = e
  <2>1. ends \in Seq(Nat) /\ Len(ends) = n /\ e \in Nat
    BY <1>0, <1>2 DEF ConnInv, TypeOK
  <2> QED BY <1>1, <2>1, AppendProperties
<1>5. /\ \A k \in 0 .. n : EndOf(k)' = EndOf(k)
      /\ EndOf(n + 1)' = e
  BY <1>2, <1>4 DEF EndOf
<1>6. /\ Append(line, NL) \in Seq(Token)
      /\ Len(Append(line, NL)) = Len(line) + 1
      /\ \A j \in 1 .. Len(line) : Append(line, NL)[j] = line[j]
      /\ Append(line, NL)[Len(line) + 1] = NL
  <2>1. line \in Seq(Token) /\ NL \in Token
    BY <1>2, SeqMonotonic DEF Token
  <2> QED BY <2>1, AppendProperties
<1>7. /\ socket' \in Seq(Token)
      /\ Unread' = Unread \o Append(line, NL)
  <2>1. socket \in Seq(Token) /\ socketBufferStr \in Seq(Token)
    BY DEF ConnInv, TypeOK
  <2>2. \A x, y, z \in Seq(Token) : (x \o y) \o z = x \o (y \o z)
    BY ConcatAssociative
  <2>3. Unread' = socketBufferStr \o (socket \o Append(line, NL))
    BY <1>1 DEF Unread
  <2>4. Unread' = Unread \o Append(line, NL)
    BY <1>6, <2>1, <2>2, <2>3, Zenon DEF Unread
  <2> QED BY <1>1, <1>6, <2>1, <2>4, ConcatProperties
<1>8. TypeOK'
  BY <1>1, <1>3, <1>4, <1>7 DEF ConnInv, TypeOK
<1>9. LinesFollow'
  <2> SUFFICES ASSUME NEW k \in 1 .. n + 1
               PROVE  /\ ends'[k] = EndOf(k - 1)' + Len(written'[k]) + 1
                      /\ \A j \in 0 .. k - 1 : EndOf(j)' < ends'[k]
    BY <1>3 DEF LinesFollow
  <2>1. CASE k <= n
    <3>1. /\ k \in 1 .. n /\ k - 1 \in 0 .. n
          /\ \A j \in 0 .. k - 1 : j \in 0 .. n
      BY <1>2, <2>1
    <3> QED BY <1>0, <1>3, <1>4, <1>5, <3>1 DEF ConnInv, LinesFollow
  <2>2. CASE k = n + 1
    <3>1. k - 1 = n
      BY <1>2, <2>2
    <3>2. \A j \in 0 .. n : EndOf(j)' <= EndOf(n) /\ EndOf(j)' \in Nat
      BY <1>0, <1>2, <1>5, Basics
    <3>3. EndOf(n)' = EndOf(n) /\ EndOf(n) \in Nat
      BY <1>0, <1>2, <1>5, Basics
    <3> QED BY <1>0, <1>2, <1>3, <1>4, <2>2, <3>1, <3>2, <3>3
  <2> QED BY <1>2, <2>1, <2>2
<1>10. BytesInPlace'
  <2>0. PICK t \in 0 .. n : t = Len(Taken)
    BY <1>0, Basics
  <2>1. /\ t \in 0 .. n /\ EndOf(t) \in Nat /\ EndOf(n) \in Nat
        /\ EndOf(t)' = EndOf(t) /\ Len(Unread) = EndOf(n) - EndOf(t)
        /\ Len(Unread) \in Nat /\ Unread \in Seq(Token)
    BY <1>0, <1>2, <1>5, <2>0, Basics DEF ConnInv, BytesInPlace
  <2>2. /\ Len(Unread') = Len(Unread) + Len(line) + 1
        /\ \A i \in 1 .. Len(Unread) : Unread'[i] = Unread[i]
        /\ \A j \in 1 .. Len(line) + 1 :
             Unread'[Len(Unread) + j] = Append(line, NL)[j]
    <3> PICK u \in Seq(Token), l \in Seq(Token) :
          u = Unread /\ l = Append(line, NL)
      BY <1>6, <2>1
    <3>1. /\ Len(u \o l) = Len(u) + Len(l) /\ Len(u) \in Nat /\ Len(l) \in Nat
          /\ \A i \in 1 .. Len(u) + Len(l) :
               (u \o l)[i] = IF i <= Len(u) THEN u[i] ELSE l[i - Len(u)]
      BY ConcatProperties, LenProperties
    <3>2. \A i \in 1 .. Len(u) : (u \o l)[i] = u[i]
      BY <3>1
    <3>3. \A j \in 1 .. Len(l) : (u \o l)[Len(u) + j] = l[j]
      BY <3>1
    <3> QED BY <1>2, <1>6, <1>7, <3>1, <3>2, <3>3
  <2>3. ASSUME NEW k \in t + 1 .. n + 1
        PROVE  /\ \A j \in 1 .. Len(written'[k]) :
                    Unread'[EndOf(k - 1)' - EndOf(t)' + j] = written'[k][j]
               /\ Unread'[EndOf(k - 1)' - EndOf(t)' + Len(written'[k]) + 1]
                    = NL
    <3>0. n \in Nat /\ t \in Nat /\ t <= n /\ k \in Nat
      BY <1>2, <2>1
    <3>1. CASE k <= n
      <4>1. /\ k \in t + 1 .. n /\ k \in 1 .. n /\ k - 1 \in 0 .. n
            /\ k - 1 >= t /\ k \in 0 .. n /\ t \in 0 .. n /\ n \in 0 .. n
        BY <3>0, <3>1
      <4>0. PICK o \in Int, len \in Nat, u \in Nat :
            /\ o = EndOf(k - 1) - EndOf(t)
            /\ len = Len(written[k]) /\ u = Len(Unread)
        <5>1. EndOf(t) \in Nat /\ EndOf(k - 1) \in Nat
          BY <1>0, <4>1, Basics
        <5>2. Len(written[k]) \in Nat /\ Len(Unread) \in Nat
          BY <1>0, <4>1, Basics
        <5> QED BY <5>1, <5>2
      <4>2. /\ o \in Nat /\ len \in Nat /\ u \in Nat /\ o + len + 1 <= u
        <5>1. EndOf(t) <= EndOf(k - 1) /\ EndOf(k) <= EndOf(n)
          BY <1>0, <3>1, <4>1, Basics
        <5>2. EndOf(k) = EndOf(k - 1) + len + 1 /\ len \in Nat
          BY <1>0, <4>0, <4>1, Basics
        <5>3. /\ EndOf(t) \in Nat /\ EndOf(k) \in Nat /\ EndOf(n) \in Nat
              /\ EndOf(k - 1) \in Nat
          BY <1>0, <4>1, Basics
        <5>4. u = EndOf(n) - EndOf(t)
          BY <2>1, <4>0
        <5>5. o \in Nat /\ o + len + 1 = EndOf(k) - EndOf(t)
          <6>1. o = EndOf(k - 1) - EndOf(t)
            BY <4>0
          <6>2. o \in Nat
            BY <5>1, <5>3, <6>1
          <6> QED BY <5>2, <5>3, <6>1, <6>2
        <5>6. EndOf(k) - EndOf(t) <= u /\ u \in Nat
          BY <5>1, <5>3, <5>4, <2>1
        <5> QED BY <5>2, <5>5, <5>6
      <4>3. /\ \A j \in 1 .. len : Unread[o + j] = written[k][j]
            /\ Unread[o + len + 1] = NL
        BY <1>0, <2>0, <4>0, <4>1 DEF ConnInv, BytesInPlace, OffsetOf
      <4>4. EndOf(k - 1)' - EndOf(t)' = o /\ written'[k] = written[k]
        BY <1>3, <1>5, <4>0, <4>1
      <4>5. ASSUME NEW j \in 1 .. len PROVE o + j \in 1 .. u
        BY <4>2
      <4>6. o + len + 1 \in 1 .. u
        BY <4>2
      <4> QED BY <2>2, <4>0, <4>3, <4>4, <4>5, <4>6
    <3>2. CASE k = n + 1
      <4>1. k - 1 = n /\ n \in 0 .. n
        BY <3>0, <3>2
      <4>2. EndOf(k - 1)' - EndOf(t)' = Len(Unread) /\ written'[k] = line
        BY <1>3, <1>5, <2>1, <3>2, <4>1
      <4>3. \A j \in 1 .. Len(line) :
              Unread'[Len(Unread) + j] = line[j]
        BY <1>2, <1>6, <2>2
      <4>4. Unread'[Len(Unread) + (Len(line) + 1)] = NL
        BY <1>2, <1>6, <2>2
      <4>5. Len(Unread) + (Len(line) + 1) = Len(Unread) + Len(line) + 1
        BY <1>2, <2>1
      <4> QED BY <4>2, <4>3, <4>4, <4>5
    <3> QED BY <3>0, <3>1, <3>2
  <2>4. Len(Unread') = EndOf(n + 1)' - EndOf(t)'
    BY <1>0, <1>2, <1>5, <2>1, <2>2
  <2> QED BY <1>2, <1>3, <2>0, <2>3, <2>4 DEF BytesInPlace, OffsetOf
<1>11. Len(Taken') <= Len(written')
  BY <1>0, <1>2, <1>3, Basics
<1>12. LinesInOrder'
  <2> SUFFICES ASSUME NEW k \in DOMAIN Taken
               PROVE  /\ k \in DOMAIN written' /\ ReadableTo(k)'
                      /\ Taken[k] = Message(written'[k])
    BY <1>2 DEF LinesInOrder
  <2>1. /\ k \in DOMAIN written /\ ReadableTo(k)
        /\ Taken[k] = Message(written[k])
    BY DEF ConnInv, LinesInOrder
  <2>2. k \in 1 .. n /\ DOMAIN written' = 1 .. n + 1
    BY <1>0, <1>3, <2>1, LenProperties DEF ConnInv, TypeOK
  <2>3. \A j \in 1 .. k : written'[j] = written[j]
    BY <1>2, <1>3, <2>2
  <2> QED BY <1>2, <2>1, <2>2, <2>3 DEF ReadableTo
<1> QED BY <1>8, <1>9, <1>10, <1>11, <1>12 DEF ConnInv

\* The first newline in the buffers ends the first line not taken yet.
LEMMA FirstLine ==
  ASSUME ConnInv, NEW str \in Seq(Token), NEW rest \in Seq(Token),
         str \o rest = Unread, Newline(str) # 0
  PROVE  LET t == Len(Taken)
         IN  /\ t + 1 \in 1 .. Len(written)
             /\ Newline(str) = Len(written[t + 1]) + 1
             /\ Newline(str) = EndOf(t + 1) - EndOf(t)
             /\ Newline(str) \in 1 .. Len(str)
             /\ SubSeq(str, 1, Newline(str) - 1) = written[t + 1]
<1>1. PICK i \in 1 .. Len(str) : str[i] = NL
  BY DEF Newline, Contains
<1>2. /\ Len(str) \in Nat /\ Len(str) <= Len(Unread) /\ Len(Unread) \in Nat
      /\ \A j \in 1 .. Len(str) : str[j] = Unread[j]
  <2>1. /\ Len(str \o rest) = Len(str) + Len(rest)
        /\ \A j \in 1 .. Len(str) + Len(rest) :
             (str \o rest)[j] = IF j <= Len(str) THEN str[j]
                                ELSE rest[j - Len(str)]
    BY ConcatProperties
  <2>2. Len(str) \in Nat /\ Len(rest) \in Nat
    BY LenProperties
  <2> QED BY <2>1, <2>2
<1>3. PICK t \in Nat, m \in Nat :
        t = Len(Taken) /\ m = Len(written) /\ t <= m
  BY Basics
<1>4. t < m
  <2>1. Len(Unread) = EndOf(m) - EndOf(t) /\ EndOf(m) \in Nat
    BY <1>3, Basics DEF ConnInv, BytesInPlace
  <2>2. Len(Unread) # 0
    BY <1>1, <1>2
  <2>3. EndOf(m) # EndOf(t)
    BY <2>1, <2>2
  <2> QED BY <1>3, <2>3
<1>5. t + 1 \in 1 .. m /\ t + 1 \in t + 1 .. m /\ (t + 1) - 1 = t
  BY <1>3, <1>4
<1>6. PICK len \in Nat : len = Len(written[t + 1])
  BY <1>3, <1>5, Basics
<1>7. /\ EndOf(t + 1) - EndOf(t) = len + 1
      /\ written[t + 1] \in Seq(Text)
  <2>1. /\ EndOf(t + 1) = EndOf(t) + len + 1
        /\ written[t + 1] \in Seq(Text)
    BY <1>3, <1>5, <1>6, Basics
  <2>2. EndOf(t) \in Nat
    BY <1>3, Basics
  <2> QED BY <2>1, <2>2
<1>8. /\ \A j \in 1 .. len : Unread[j] = written[t + 1][j]
      /\ Unread[len + 1] = NL
  <2>1. OffsetOf(t + 1) = 0
    <3>1. EndOf(t) \in Nat
      BY <1>3, Basics
    <3> QED BY <1>3, <1>5, <3>1 DEF OffsetOf
  <2>2. /\ \A j \in 1 .. len : Unread[0 + j] = written[t + 1][j]
        /\ Unread[0 + len + 1] = NL
    BY <1>3, <1>5, <1>6, <2>1 DEF ConnInv, BytesInPlace
  <2>3. \A j \in 1 .. len : 0 + j = j
    OBVIOUS
  <2>4. 0 + len + 1 = len + 1
    OBVIOUS
  <2> QED BY <2>2, <2>3, <2>4
<1>9. \A j \in 1 .. len : Unread[j] # NL
  <2>1. \A j \in 1 .. len : written[t + 1][j] \in Text
    BY <1>6, <1>7, ElementOfSeq
  <2>2. NL \notin Text
    BY ConnectionAssumption DEF Text
  <2> QED BY <1>8, <2>1, <2>2
<1>10. len + 1 \in 1 .. Len(str)
  <2>1. ~ (i <= len)
    BY <1>1, <1>2, <1>9
  <2> QED BY <1>1, <1>2, <2>1
<1>11. Newline(str) = len + 1
  <2>1. \A j \in 1 .. (len + 1) - 1 : j \in 1 .. len /\ j \in 1 .. Len(str)
    BY <1>2, <1>10
  <2>2. /\ str[len + 1] = NL
        /\ \A j \in 1 .. (len + 1) - 1 : str[j] # NL
    BY <1>2, <1>8, <1>9, <1>10, <2>1
  <2> QED BY <1>10, <2>2, FirstNewline
<1>12. SubSeq(str, 1, len) = written[t + 1]
  <2>1. (len + 1) - 1 = len
    OBVIOUS
  <2>2. /\ SubSeq(str, 1, len) \in Seq(Token)
        /\ Len(SubSeq(str, 1, len)) = len
        /\ \A j \in 1 .. len : SubSeq(str, 1, len)[j] = Unread[j]
    BY <1>10, <2>1, CutOff
  <2>3. written[t + 1] \in Seq(Token)
    BY <1>7, SeqMonotonic DEF Token
  <2> QED BY <1>6, <1>8, <2>2, <2>3, SeqEqual
<1>13. (len + 1) - 1 = len
  OBVIOUS
<1> QED BY <1>3, <1>5, <1>6, <1>7, <1>10, <1>11, <1>12, <1>13

\* A line long enough for a message has one.
LEMMA LongLine ==
  ASSUME NEW S, NEW line \in Seq(S), Len(line) > 2
  PROVE  Message(line) \in Seq(S) /\ Message(line) # <<>>
<1>1. PICK l \in Nat : l = Len(line) /\ l > 2
  BY LenProperties
<1>2. \A i \in 3 .. l : i \in 1 .. l
  OBVIOUS
<1>3. SubSeq(line, 3, l) \in Seq(S) /\ Len(SubSeq(line, 3, l)) = l - 2
  <2>1. \A i \in 3 .. l : line[i] \in S
    BY <1>1, <1>2, ElementOfSeq
  <2>2. l - 3 + 1 = l - 2 /\ 3 <= l
    BY <1>1
  <2> QED BY <1>1, <2>1, <2>2, SubSeqProperties
<1>4. l - 2 # 0
  BY <1>1
<1>5. SubSeq(line, 3, l) # <<>>
  BY <1>3, <1>4, EmptySeq
<1> QED BY <1>1, <1>3, <1>5 DEF Message

\* The line that ends at c, behind one that ends at e1, when the bytes up to
\* e1 are gone.
LEMMA LineBehind ==
  ASSUME NEW e0 \in Nat, NEW e1 \in Nat, NEW b \in Nat, NEW c \in Nat,
         NEW e \in Nat, NEW len \in Nat, NEW p \in Nat, NEW l \in Nat,
         e1 <= b, c <= e, c = b + len + 1, p = e1 - e0, l = e - e0
  PROVE  \E o \in Nat, u \in Nat :
           /\ o = b - e1 /\ u = l - p /\ b - e0 = p + o
           /\ o + len + 1 <= u
<1>1. b - e1 \in Nat /\ l - p = e - e1
  OBVIOUS
<1>2. l - p \in Nat /\ b - e0 = p + (b - e1) /\ (b - e1) + len + 1 <= l - p
  BY <1>1
<1> QED BY <1>1, <1>2

\* A line of this protocol leaves the buffers and becomes the message.
TakesLine(str, rest) ==
  /\ str \o rest = Unread /\ Newline(str) # 0
  /\ currentControlMessage = <<>>
  /\ IsMessage(SubSeq(str, 1, Newline(str) - 1))
  /\ currentControlMessage' = Message(SubSeq(str, 1, Newline(str) - 1))
  /\ socketBufferStr' = RestOf(str, Newline(str)) /\ socket' = rest
  /\ UNCHANGED <<handled, written, ends>>

LEMMA LineTaken ==
  ASSUME ConnInv, NEW str \in Seq(Token), NEW rest \in Seq(Token),
         TakesLine(str, rest)
  PROVE  ConnInv'
<1>0. /\ str \o rest = Unread /\ Newline(str) # 0
      /\ UNCHANGED <<handled, written, ends>>
  BY DEF TakesLine
<1>1. PICK t \in Nat, m \in Nat :
        t = Len(Taken) /\ m = Len(written) /\ t <= m
  BY Basics
<1>2. PICK p \in 1 .. Len(str) : p = Newline(str)
  BY <1>0, FirstLine
<1>3. /\ t + 1 \in 1 .. m /\ t + 1 <= m /\ t + 1 \in 0 .. m /\ t \in 0 .. m
      /\ p = EndOf(t + 1) - EndOf(t)
      /\ SubSeq(str, 1, p - 1) = written[t + 1]
  <2>1. /\ Len(Taken) + 1 \in 1 .. Len(written)
        /\ Newline(str) = EndOf(Len(Taken) + 1) - EndOf(Len(Taken))
        /\ SubSeq(str, 1, Newline(str) - 1) = written[Len(Taken) + 1]
    BY <1>0, FirstLine
  <2>2. /\ t + 1 \in 1 .. m /\ p = EndOf(t + 1) - EndOf(t)
        /\ SubSeq(str, 1, p - 1) = written[t + 1]
    BY <1>1, <1>2, <2>1, Zenon
  <2>3. t + 1 \in 1 .. m => t + 1 <= m /\ t + 1 \in 0 .. m /\ t \in 0 .. m
    OBVIOUS
  <2> QED BY <2>2, <2>3
<1>4. PICK line \in Seq(Text) : line = written[t + 1]
  BY <1>1, <1>3, Basics
<1>5. /\ Len(line) > 2 /\ Len(line) \in Nat /\ Head(line) = PROTOCOL
      /\ currentControlMessage' = Message(line)
  BY <1>2, <1>3, <1>4, LenProperties DEF TakesLine, IsMessage
<1>6. /\ Message(line) \in Seq(Text) /\ Message(line) # <<>>
      /\ line \notin OddLines
  <2>1. Message(line) \in Seq(Text) /\ Message(line) # <<>>
    BY <1>5, LongLine
  <2>2. Len(<<>>) = 0 /\ Len(<<PROTOCOL, " ">>) = 2
    OBVIOUS
  <2>3. Head(<<"junk", " ", "OK">>) = "junk"
    OBVIOUS
  <2>4. "junk" # PROTOCOL
    BY ConnectionAssumption DEF Words
  <2>5. line # <<>> /\ line # <<PROTOCOL, " ">>
    <3>1. ASSUME line = <<>> PROVE FALSE
      <4>1. Len(line) = 0
        BY ONLY <2>2, <3>1
      <4> QED BY <1>5, <4>1
    <3>2. ASSUME line = <<PROTOCOL, " ">> PROVE FALSE
      <4>1. Len(line) = 2
        BY ONLY <2>2, <3>2
      <4> QED BY <1>5, <4>1
    <3> QED BY <3>1, <3>2
  <2>6. line # <<"junk", " ", "OK">>
    BY <1>5, <2>3, <2>4
  <2> QED BY <2>1, <2>5, <2>6 DEF OddLines
<1>7. /\ Taken = handled /\ handled \in Seq(Seq(Text))
      /\ Taken' = Append(handled, Message(line))
  BY <1>0, <1>5, <1>6 DEF TakesLine, Taken, ConnInv, TypeOK
<1>8. /\ Len(Taken') = t + 1 /\ Taken' \in Seq(Seq(Text))
      /\ \A k \in 1 .. t : Taken'[k] = Taken[k]
      /\ Taken'[t + 1] = Message(line)
  BY <1>1, <1>6, <1>7, AppendProperties
<1>9. /\ socketBufferStr' \in Seq(Token)
      /\ Len(Unread') = Len(Unread) - p
      /\ \A i \in 1 .. Len(Unread) - p : Unread'[i] = Unread[p + i]
  <2>1. Unread' = SubSeq(str, p + 1, Len(str)) \o rest
    BY <1>2 DEF TakesLine, Unread, RestOf
  <2>2. socketBufferStr' = SubSeq(str, p + 1, Len(str))
    BY <1>2 DEF TakesLine, RestOf
  <2>3. /\ SubSeq(str, p + 1, Len(str)) \in Seq(Token)
        /\ Len(SubSeq(str, p + 1, Len(str)) \o rest) = Len(str \o rest) - p
        /\ \A i \in 1 .. Len(str \o rest) - p :
             (SubSeq(str, p + 1, Len(str)) \o rest)[i] = (str \o rest)[p + i]
    BY CutOff
  <2> QED BY <1>0, <2>1, <2>2, <2>3, Zenon
<1>10. \A k \in 0 .. m : EndOf(k)' = EndOf(k) /\ EndOf(k) \in Nat
  BY <1>0, <1>1, Basics DEF EndOf
<1>11. TypeOK'
  BY <1>0, <1>5, <1>6, <1>9 DEF TakesLine, ConnInv, TypeOK
<1>12. LinesFollow'
  BY <1>0 DEF ConnInv, LinesFollow, EndOf
<1>13. BytesInPlace'
  <2>1. Len(Unread) = EndOf(m) - EndOf(t) /\ m \in 0 .. m
    BY <1>1 DEF ConnInv, BytesInPlace
  <2>2. Len(Unread') = EndOf(m) - EndOf(t + 1)
    <3>1. EndOf(m) \in Nat /\ EndOf(t) \in Nat /\ EndOf(t + 1) \in Nat
      BY <1>3, <1>10, <2>1
    <3> QED BY <1>3, <1>9, <2>1, <3>1
  <2>3. ASSUME NEW k \in (t + 1) + 1 .. m
        PROVE  /\ \A j \in 1 .. Len(written[k]) :
                    Unread'[EndOf(k - 1) - EndOf(t + 1) + j] = written[k][j]
               /\ Unread'[EndOf(k - 1) - EndOf(t + 1) + Len(written[k]) + 1]
                    = NL
    <3>1. /\ k \in t + 1 .. m /\ k \in 1 .. m /\ k \in 0 .. m
          /\ k - 1 \in 0 .. m /\ t + 1 <= k - 1 /\ k <= m
      BY <1>1, <1>3
    <3>2. PICK len \in Nat : len = Len(written[k])
      BY <1>1, <3>1, Basics
    <3>3. PICK o \in Nat, u \in Nat :
            /\ o = EndOf(k - 1) - EndOf(t + 1) /\ u = Len(Unread) - p
            /\ EndOf(k - 1) - EndOf(t) = p + o /\ o + len + 1 <= u
      <4>1. /\ EndOf(t + 1) <= EndOf(k - 1) /\ EndOf(k) <= EndOf(m)
            /\ EndOf(k) = EndOf(k - 1) + len + 1
        BY <1>1, <1>3, <2>1, <3>1, <3>2, Basics
      <4>2. /\ EndOf(k) \in Nat /\ EndOf(k - 1) \in Nat /\ EndOf(m) \in Nat
            /\ EndOf(t) \in Nat /\ EndOf(t + 1) \in Nat
        BY <1>3, <1>10, <2>1, <3>1
      <4>3. p = EndOf(t + 1) - EndOf(t) /\ Len(Unread) = EndOf(m) - EndOf(t)
        BY <1>3, <2>1
      <4>4. p \in Nat /\ Len(Unread) \in Nat
        BY <1>2, Basics
      <4>5. PICK e0 \in Nat, e1 \in Nat, b \in Nat, c \in Nat, e \in Nat,
                 l \in Nat :
              /\ e0 = EndOf(t) /\ e1 = EndOf(t + 1) /\ b = EndOf(k - 1)
              /\ c = EndOf(k) /\ e = EndOf(m) /\ l = Len(Unread)
        BY <4>2, <4>4, Zenon
      <4>6. /\ e1 <= b /\ c <= e /\ c = b + len + 1 /\ p = e1 - e0
            /\ l = e - e0 /\ p \in Nat
        BY <4>1, <4>3, <4>4, <4>5, Zenon
      <4>7. PICK o \in Nat, u \in Nat :
              /\ o = b - e1 /\ u = l - p /\ b - e0 = p + o
              /\ o + len + 1 <= u
        BY <4>6, LineBehind
      <4> QED BY <4>5, <4>7, Zenon
    <3>7. /\ EndOf(k - 1) - EndOf(t) = p + o /\ o + len + 1 <= u
          /\ p \in Nat
      BY <1>2, <3>3
    <3>8. /\ \A j \in 1 .. len : Unread[(p + o) + j] = written[k][j]
          /\ Unread[(p + o) + len + 1] = NL
      BY <1>1, <3>1, <3>2, <3>7 DEF ConnInv, BytesInPlace, OffsetOf
    <3>9. ASSUME NEW i \in 1 .. u PROVE Unread'[i] = Unread[p + i]
      BY <1>9, <3>3
    <3>10. ASSUME NEW j \in 1 .. len
           PROVE  Unread'[o + j] = written[k][j]
      <4>1. o + j \in 1 .. u /\ p + (o + j) = (p + o) + j
        BY <1>2, <3>7
      <4> QED BY <3>8, <3>9, <4>1
    <3>11. Unread'[o + len + 1] = NL
      <4>1. o + len + 1 \in 1 .. u /\ p + (o + len + 1) = (p + o) + len + 1
        BY <1>2, <3>7
      <4> QED BY <3>8, <3>9, <4>1
    <3> QED BY <3>2, <3>3, <3>10, <3>11
  <2>4. /\ \A k \in (t + 1) + 1 .. m : EndOf(k - 1)' = EndOf(k - 1)
        /\ EndOf(t + 1)' = EndOf(t + 1) /\ EndOf(m)' = EndOf(m)
    <3>1. \A k \in (t + 1) + 1 .. m : k - 1 \in 0 .. m
      BY <1>1
    <3> QED BY <1>3, <1>10, <2>1, <3>1
  <2>5. Len(Unread') = EndOf(m)' - EndOf(t + 1)'
    BY <2>2, <2>4
  <2>6. ASSUME NEW k \in (t + 1) + 1 .. m
        PROVE  /\ \A j \in 1 .. Len(written'[k]) :
                    Unread'[EndOf(k - 1)' - EndOf(t + 1)' + j] = written'[k][j]
               /\ Unread'[EndOf(k - 1)' - EndOf(t + 1)'
                            + Len(written'[k]) + 1] = NL
    BY <1>0, <2>3, <2>4
  <2> QED BY <1>0, <1>1, <1>8, <2>5, <2>6 DEF BytesInPlace, OffsetOf
<1>14. LinesInOrder'
  <2>1. DOMAIN Taken' = 1 .. t + 1 /\ DOMAIN written = 1 .. m
        /\ DOMAIN Taken = 1 .. t
    BY <1>1, <1>8, Basics, LenProperties DEF ConnInv, TypeOK
  <2>2. \A j \in 1 .. t : written[j] \notin OddLines
    <3> SUFFICES ASSUME NEW j \in 1 .. t PROVE written[j] \notin OddLines
      OBVIOUS
    <3>1. ReadableTo(j)
      BY <2>1 DEF ConnInv, LinesInOrder
    <3>2. j \in 1 .. j
      OBVIOUS
    <3> QED BY <3>1, <3>2 DEF ReadableTo
  <2>3. \A j \in 1 .. t + 1 : written[j] \notin OddLines
    <3>1. \A j \in 1 .. t + 1 : j \in 1 .. t \/ j = t + 1
      BY <1>1
    <3> QED BY <1>4, <1>6, <2>2, <3>1
  <2>4. ASSUME NEW k \in 1 .. t + 1
        PROVE  k \in 1 .. m /\ ReadableTo(k) /\ Taken'[k] = Message(written[k])
    <3>1. k \in 1 .. m /\ \A j \in 1 .. k : j \in 1 .. t + 1
      BY <1>1, <1>3
    <3>2. CASE k = t + 1
      BY <1>4, <1>8, <2>3, <3>1, <3>2 DEF ReadableTo
    <3>3. CASE k \in 1 .. t
      <4>1. ReadableTo(k) /\ Taken[k] = Message(written[k])
        BY <2>1, <3>3 DEF ConnInv, LinesInOrder
      <4>2. Taken'[k] = Taken[k]
        BY <1>8, <3>3
      <4> QED BY <3>1, <4>1, <4>2
    <3>4. k = t + 1 \/ k \in 1 .. t
      OBVIOUS
    <3> QED BY <3>2, <3>3, <3>4, Zenon
  <2>5. \A k : ReadableTo(k)' <=> ReadableTo(k)
    BY <1>0 DEF ReadableTo
  <2> QED BY <1>0, <2>1, <2>4, <2>5 DEF LinesInOrder
<1>15. Len(Taken') <= Len(written')
  BY <1>0, <1>1, <1>3, <1>8
<1> QED BY <1>11, <1>12, <1>13, <1>14, <1>15 DEF ConnInv

LEMMA ReadStep ==
  ASSUME ConnInv, GetControlMessage PROVE ConnInv'
<1>1. socket \in Seq(Token) /\ socketBufferStr \in Seq(Token)
  BY DEF ConnInv, TypeOK
<1>2. \A n \in ReadSizes : n \in 0 .. Len(socket)
  BY <1>1, LenProperties DEF ReadSizes
<1>3. PICK n \in ReadSizes :
        LET str  == socketBufferStr \o SubSeq(socket, 1, n)
            pos  == Newline(str)
            line == SubSeq(str, 1, pos - 1)
        IN  /\ socket' = SubSeq(socket, n + 1, Len(socket))
            /\ \/ socketBufferStr' = str /\ UNCHANGED currentControlMessage
               \/ /\ Ready(n, pos) /\ IsMessage(line)
                  /\ currentControlMessage' = Message(line)
                  /\ socketBufferStr' = RestOf(str, pos)
  BY DEF GetControlMessage
<1>4. PICK str \in Seq(Token), rest \in Seq(Token) :
        /\ str = socketBufferStr \o SubSeq(socket, 1, n)
        /\ rest = SubSeq(socket, n + 1, Len(socket))
        /\ str \o rest = Unread
  <2>1. n \in 0 .. Len(socket)
    BY <1>2
  <2> DEFINE str == socketBufferStr \o SubSeq(socket, 1, n)
             rest == SubSeq(socket, n + 1, Len(socket))
  <2>2. /\ str \in Seq(Token) /\ rest \in Seq(Token)
        /\ str \o rest = socketBufferStr \o socket
    BY <1>1, <2>1, ReadMoves
  <2> QED BY <2>2 DEF Unread
<1>5. /\ UNCHANGED <<handled, written, ends>> /\ socket' = rest
      /\ currentControlMessage = <<>>
  BY <1>3, <1>4 DEF GetControlMessage, serverVars
<1>6. CASE socketBufferStr' = str /\ UNCHANGED currentControlMessage
  <2>1. Taken' = Taken /\ Unread' = Unread
    BY <1>4, <1>5, <1>6 DEF Taken, Unread
  <2>2. /\ currentControlMessage' \in Seq(Text)
        /\ handled' \in Seq(Seq(Text))
    BY <1>5, <1>6 DEF ConnInv, TypeOK
  <2> QED BY <1>5, <1>6, <2>1, <2>2, NothingTaken
<1>7. CASE /\ Ready(n, Newline(str))
           /\ IsMessage(SubSeq(str, 1, Newline(str) - 1))
           /\ currentControlMessage'
                = Message(SubSeq(str, 1, Newline(str) - 1))
           /\ socketBufferStr' = RestOf(str, Newline(str))
  <2>1. Newline(str) # 0
    BY <1>7 DEF Ready
  <2>2. TakesLine(str, rest)
    BY <1>4, <1>5, <1>7, <2>1 DEF TakesLine
  <2> QED BY <2>2, LineTaken
<1> QED BY <1>3, <1>4, <1>6, <1>7

-----------------------------------------------------------------------------
(* The theorems.                                                           *)

LEMMA ConnInit == Init => ConnInv
<1> SUFFICES ASSUME Init PROVE ConnInv
  OBVIOUS
<1>1. TypeOK
  BY EmptySeq DEF Init, TypeOK
<1>2. Taken = <<>> /\ Unread = <<>> /\ Len(<<>>) = 0
  BY <1>1, ConcatEmptySeq, EmptySeq DEF Init, Taken, Unread, TypeOK
<1>3. LinesFollow /\ BytesInPlace /\ LinesInOrder
  BY <1>2 DEF Init, LinesFollow, BytesInPlace, LinesInOrder, EndOf
<1> QED BY <1>1, <1>2, <1>3 DEF Init, ConnInv

\* The inductive invariant: the bytes in the socket and in socketBufferStr are
\* the lines that no message has been made of, in their places.
THEOREM ConnInvHolds == Spec => []ConnInv
<1>1. ConnInv /\ [Next]_vars => ConnInv'
  <2> SUFFICES ASSUME ConnInv, [Next]_vars PROVE ConnInv'
    OBVIOUS
  <2> QED BY OtherSteps, WriteStep, ReadStep DEF Next, Client
<1> QED BY <1>1, ConnInit, PTL DEF Spec

\* However read() cuts the stream, the messages handled are the server's
\* lines, whole, once and in order, each without protocolString and the
\* character behind it, up to the first line that does not begin with
\* protocolString or has nothing behind it.
THEOREM LinesInOrderHolds == Spec => []LinesInOrder
<1>1. ConnInv => LinesInOrder
  BY DEF ConnInv
<1> QED BY <1>1, ConnInvHolds, PTL

\* No byte is lost or repeated between the server and the handlers, also not
\* where clientConnect() leaves the socket to the event loop.
THEOREM NothingLostHolds == Spec => []NothingLost
<1>1. ASSUME ConnInv PROVE NothingLost
  <2>1. PICK t \in Nat, m \in Nat :
          t = Len(Taken) /\ m = Len(written) /\ t <= m
    BY <1>1, Basics
  <2>2. ASSUME NEW k \in t + 1 .. m
        PROVE  SubSeq(Unread, EndOf(k - 1) - EndOf(t) + 1,
                      EndOf(k) - EndOf(t)) = Append(written[k], NL)
    <3>1. /\ k \in 1 .. m /\ k \in 0 .. m /\ k - 1 \in 0 .. m
          /\ m \in 0 .. m /\ t \in 0 .. m /\ t <= k - 1 /\ k <= m
      BY <2>1
    <3>2. PICK len \in Nat : len = Len(written[k])
      BY <1>1, <2>1, <3>1, Basics
    <3>3. /\ EndOf(t) <= EndOf(k - 1) /\ EndOf(k) <= EndOf(m)
          /\ EndOf(k) = EndOf(k - 1) + len + 1
          /\ EndOf(k) \in Nat /\ EndOf(k - 1) \in Nat /\ EndOf(m) \in Nat
          /\ EndOf(t) \in Nat
      BY <1>1, <2>1, <3>1, <3>2, Basics
    <3>4. PICK o \in Nat : o = EndOf(k - 1) - EndOf(t)
      BY <3>3
    <3>5. EndOf(k) - EndOf(t) = o + len + 1
      BY <3>3, <3>4
    <3>6. Len(Unread) = EndOf(m) - EndOf(t) /\ o + len + 1 <= Len(Unread)
      BY <1>1, <2>1, <3>3, <3>5 DEF ConnInv, BytesInPlace
    <3>7. /\ \A j \in 1 .. len : Unread[o + j] = written[k][j]
          /\ Unread[o + len + 1] = NL
      BY <1>1, <2>1, <3>2, <3>4 DEF ConnInv, BytesInPlace, OffsetOf
    <3>8. PICK a \in Seq(Token) :
            /\ a = Append(written[k], NL) /\ Len(a) = len + 1
            /\ \A j \in 1 .. len : a[j] = written[k][j]
            /\ a[len + 1] = NL
      <4>1. written[k] \in Seq(Text)
        BY <1>1, <2>1, <3>1, Basics
      <4>2. written[k] \in Seq(Token) /\ NL \in Token
        BY <4>1, SeqMonotonic DEF Token
      <4> QED BY <3>2, <4>2, AppendProperties
    <3>9. \A i \in o + 1 .. o + len + 1 : Unread[i] \in Token
      <4>1. Unread \in Seq(Token)
        BY <1>1, Basics
      <4>2. \A i \in o + 1 .. o + len + 1 : i \in 1 .. Len(Unread)
        BY <1>1, <3>6, Basics
      <4> QED BY <4>1, <4>2, ElementOfSeq
    <3>10. PICK s \in Seq(Token) :
             /\ s = SubSeq(Unread, o + 1, o + len + 1) /\ Len(s) = len + 1
             /\ \A j \in 1 .. len + 1 : s[j] = Unread[o + j]
      <4>1. /\ o + 1 \in Int /\ o + len + 1 \in Int /\ o + 1 <= o + len + 1
            /\ (o + len + 1) - (o + 1) + 1 = len + 1
            /\ \A j \in 1 .. len + 1 : (o + 1) + j - 1 = o + j
        OBVIOUS
      <4>2. /\ SubSeq(Unread, o + 1, o + len + 1) \in Seq(Token)
            /\ Len(SubSeq(Unread, o + 1, o + len + 1)) = len + 1
            /\ \A j \in 1 .. len + 1 :
                 SubSeq(Unread, o + 1, o + len + 1)[j]
                   = Unread[(o + 1) + j - 1]
        BY <3>9, <4>1, SubSeqProperties
      <4> QED BY <4>1, <4>2
    <3>11. \A j \in 1 .. len + 1 : s[j] = a[j]
      <4>1. \A j \in 1 .. len + 1 : j \in 1 .. len \/ j = len + 1
        OBVIOUS
      <4>2. o + (len + 1) = o + len + 1 /\ len + 1 \in 1 .. len + 1
        OBVIOUS
      <4> QED BY <3>7, <3>8, <3>10, <4>1, <4>2
    <3>12. s = a
      BY <3>8, <3>10, <3>11, SeqEqual
    <3> QED BY <3>4, <3>5, <3>8, <3>10, <3>12
  <2>3. Len(Unread) = EndOf(m) - EndOf(t)
    BY <1>1, <2>1 DEF ConnInv, BytesInPlace
  <2> QED BY <2>1, <2>2, <2>3 DEF NothingLost, Unread
<1> QED BY <1>1, ConnInvHolds, PTL
=============================================================================
