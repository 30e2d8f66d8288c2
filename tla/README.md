# A TLA+ development of the RDT challenge client

`rdt_cpp` is a client of a data-transfer challenge. Two clients connect to a
server; one becomes the sender of a file, the other its receiver, and every
packet between them goes through the server, which loses, delays and reorders.
This directory holds models of the client, the TLC runs that check them and the
TLAPS proofs about them.

## 1. The system

| component | state it keeps | operations |
|---|---|---|
| `my_protocol/MyProtocol` | sender: `packetBuffer`, `acked`, `sentTime`, `sendBase`, `nextSeq`, `totalPkts`, `stop`; receiver: `expectedTotal`, `recvExpected`, `recvBuffer`, `received`, `lastAck` | `sender()`, `receiver()`, `setStop()` |
| `framework/DRDTChallengeClient` | `simulationStarted`, `simulationFinished`, `isSender`, `fileID`, `challenge`, the two packet buffers with their locks, the socket, `socketBufferStr`, `currentControlMessage`, the event-loop thread | `clientConnect()`, `getControlMessage()`, `run()`, `requestStart()`, `start()`, `sendChecksum()`, `stop()`, `sendPacket()`, `receivePacket()` |
| `my_protocol/Program.cpp` | `startCommand`, the sender thread | `main()` |
| `framework/NetworkLayer` | a pointer to the client | forwards `sendPacket()` and `receivePacket()` |
| the challenge server (external) | which session runs | REGISTER, START, FAIL, PACKET/TRANSMIT, CHECKSUM, FINISH, CLOSED |
| `framework/timer` | queue of timers, the running callback, one thread | `create()`, `destroy()`, `exists()` |
| `framework/Utils`, `base64`, `crc32` | none | files, encodings |
| `my_protocol/DummyProtocol` | none | the framework's example; lacks `setStop()`, so it is never instantiated |

How they interact. `main()` starts the client, whose constructor registers with
the server and starts the event loop in a thread. `main()` polls the flags the
event loop sets. A sender runs `MyProtocol::sender()` in a further thread while
`main()` waits for the event loop to end and then calls `setStop()`; a receiver
runs `MyProtocol::receiver()` in `main()` itself. The protocol and the event
loop exchange packets through two locked lists. The flags are shared without
locks, and two threads write to the socket.

What is hard here: acknowledgements that arrive late, twice and out of order;
a window that counts holes; a lost last acknowledgement; sixteen-bit header
fields; two threads writing one socket; flags read in one thread, changed in
another and acted on a step later; a shutdown that must know which threads were
joined; a write that fails halfway in one thread while the others go on; a clock
read before it is needed; a session that ends by a message over three hops, or is given up before. `PROJECT.json` lists these hazards at their lines, with the properties
that cover them.

What makes each component correct:

- the protocol: the file arrives byte for byte; the sender believes nothing the
  receiver does not hold; it ends by itself only when all is delivered; the
  window is bounded; every wait ends under a fair relay;
- the client: messages appear on the socket in the order the server expects;
  nothing is read before it is set; a shutdown leaves no thread behind, aborts
  nothing and happens once the session is over;
- the connection: the messages handled are the server's lines, in order and
  complete, wherever `read()` cuts the stream and whichever thread reads;
- the session of two clients: both get to the end of `main()`, the sender is not
  stopped before the file has arrived unless the server gives the session up, and
  nothing but the file is uploaded;
- the timer: no handler is called after `destroy()` returned, no reference
  outlives its timer, no wake-up is lost;
- the encodings: what arrives is what was sent, a damaged header byte is
  noticed, and the checksum is the CRC-32 the server computes.

## 2. Modules

| module | stands for |
|---|---|
| `RdtPackets` | the cut of a file into chunks (`MyProtocol.cpp:90-106`) and the two packet formats (`:34-79`) |
| `RdtTransfer` | `sender()` (`:87-166`), `receiver()` (`:168-247`), `setStop()`, and one lossy channel in each direction |
| `ReliableFile` | what `IRDTProtocol` promises: the abstract specification `RdtTransfer` implements |
| `RdtInvariant` | the inductive invariant `IInv` of `RdtTransfer`, in named parts |
| `RdtTransferProofs` | the TLAPS proofs about `RdtTransfer` |
| `MCRdtTransfer` | file contents for the runs |
| `TimedTransfer`, `MCTimedTransfer` | `sender()` and `receiver()` with their clocks; implements `RdtTransfer` |
| `TimedTransferProofs` | the proofs that it does, and when a packet is repeated |
| `Session`, `MCSession` | two clients from the first packet to the end of `main()`: protocol, buffers, event loops, relay, shutdown; implements `RdtTransfer` |
| `SessionProofs` | the proofs that it does, that a sender is stopped early only in a session given up, and what is uploaded |
| `Connection` | `clientConnect()`, `getControlMessage()` and `clearControlMessage()`: from the list of addresses to the messages of the event loop |
| `ConnectionProofs` | the proofs that these are the server's lines |
| `PacketWire`, `MCPacketWire` | the two packet formats byte by byte, TRANSMIT and PACKET, the tests of the other end, `sendChecksum()` |
| `PacketWireProofs` | the proofs about one packet on its way, and that base64 is inverted |
| `Base64` | `framework/base64` |
| `Crc32` | `crc32_1byte()` and its table, and the division by the standard's polynomial |
| `Crc32Proofs` | the proofs that these are the same, and what the checksum tells |
| `ExclusiveOr` | the operator `^` on bytes and half words |
| `Timer`, `TimerProofs` | `framework/timer` and the proofs about it |
| `ChallengeClient` | `main()`, `run()`, `stop()`, `requestStart()` and the buffers of one client, with the server as environment |
| `ClientProofs` | the proofs about it |

### RdtTransfer

Each variable is the C++ variable of the same name; the arrays of booleans
`acked` and `received` are the sets of their true indices, and `sentTime` is
gone with the clock. A pass of the sender's loop is cut where other processes
can make a difference: `SenderTop` evaluates the loop condition, `SenderAck`
reads one acknowledgement (type, size, plausibility, cumulative part, mask),
`SenderFinish` is the `break`, `SenderTransmit` is all the sending of a pass.
A pass is local computation on private variables but for the reads and writes
of the buffers and of `stop`, so nothing is lost by taking the rest of it in
one step. `ReceiveData` is the whole branch of `receiver()` for a packet: it
stores, moves `recvExpected`, builds and sends the acknowledgement and decides
the end. `KeepAlive` and `ReceiverIdle` are the other branch, `Assemble` one
pass of the concatenation.

Abstractions, and why they are sound for the properties stated:

- *Channels.* The two packet buffers, both event loops, both sockets and the
  server are one set of packets per direction. Receiving may leave the packet
  in the set (a duplicate), any packet may be taken next (reordering, delay)
  or vanish (`Lose`). A set forgets how often a packet was sent, which
  duplication makes immaterial. Every behaviour of FIFO buffers is included.
- *Header damage.* A packet the XOR check, the size or the type rejects
  changes no state: it is a lost packet. Damage the check does not notice
  (payload bytes, errors that cancel out) is outside the model; the properties
  assume the relay does not produce it.
- *Time.* Any subset of the packets in flight may have timed out, a keepalive
  may be due at any time. This covers every clock, the stale `now` included;
  `ImplementsUntimed` of `TimedTransfer` checks it.
- *Input.* `FileContents` is what `getFileContents` returns. A file that is
  missing ends the process before the protocol starts.
- *Header width.* `HeaderMod` stands for 2^16, so that TLC can reach the
  truncation with a file of a few bytes.

### ReliableFile

Only which chunks the receiver holds, which of them the sender knows of, how
`sender()` ended and what `receiver()` returned. The sender may learn only of
chunks that are held, may return "delivered" only when it knows of all, and the
receiver may return only the whole file. The refinement mapping is `received`,
`acked`, `Outcome` and `Output` of `RdtTransfer`.

### ChallengeClient

Three program counters: `mPc` for `main()` (with `requestStart()` and `stop()`
inlined), `ePc` for the event loop, `proto` for the protocol object. A step
reads or writes one shared flag, or does one thing under a lock, or writes one
message. The flags are plain `bool`s, so by the letter every concurrent access
is undefined behaviour. The model takes each access as one indivisible load or
store, in program order: the Makefile builds without optimisation, the accessor
functions are in another object file than the loops that call them, and a
`bool` is one byte. Packets are counted; their contents belong to
`RdtTransfer`. `inputPacketBuffer` has one consumer and `outputPacketBuffer`
has one consumer, and each tests the size again under the lock, so pop, test
and write form one step.

The process may end in three ways: `main()` returns ("ended"), a thread calls
`exit()` ("exited"), or the C++ runtime aborts because a thread is joined twice
or destroyed unjoined ("terminated"). `exit()` takes its time: between
`WriteFails`, which may leave the first part of a message on the socket, and
`Exit` the other threads go on, and both may be in `exit()` at once.

The server is external and known from the messages `run()` handles: it may
start the session on its own account (the other client asked), refuse a request
(FAIL), relay packets, finish once this client's checksum is in, and close at
any time. It starts a session once and sends well-formed messages. It may also
drop the connection without a word: `getControlMessage()` takes the end of the
stream for no news, so the client finds out when a write fails, which is after
the reset has come back (`link`). (By default such a write raises SIGPIPE and
the process is gone before it can say "Write failed"; for the other process it
is the same end.)
The protocol is reduced to what the client sees of it: a sender sends and
receives as it likes and returns on an acknowledgement or when stopped, a
receiver answers each packet, repeats its last answer once there is one, and
returns only upon a packet.

### TimedTransfer

The variables of `RdtTransfer` and, in place of clock readings, ages: `lag` is
the age of the sender's `now`, `sentAge[i]` that of `sentTime[i]`, `quiet` that of
`lastRecvTime`. Only differences of readings are ever compared, so ages are all
there is to know, and the state space is finite. A stamp with a stale `now`
gives a packet the age `lag`. `Tick` lets a unit pass unless a deadline of the
environment is reached: a loop pauses at most `MaxPause` (the millisecond it
sleeps and what the scheduler adds), a packet is under way at most `MaxDelay`.
The bodies of the two loops are those of `RdtTransfer`, used through `INSTANCE`.
`Untimed` is an instance of `RdtTransferProofs`, so that its theorems can be used
where `TimedTransfer` is proved to implement it; `Rdt` in `Session` likewise.

### Session

Both clients with everything between `sendPacket()` and `receivePacket()`:
`outputPacketBuffer` and `inputPacketBuffer` as queues, one packet transmitted per
pass of the event loop while `simulationStarted` is up, the relay as a set that
delivers in any order or loses. Then the end: `receiver()` returns, `main()` sends
the checksum and calls `stop()`, which may leave the last acknowledgement in the
output buffer; the server sends FINISH, the sender's event loop ends, `main()`
calls `setStop()` and joins. Or the server gives the session up at any time
(`ServerAborts`): for the flags CLOSED, FAIL and FINISH are the same, so one
`LoopEnds` handles all three, and `setStop()` then ends `sender()` with half a file
delivered. A `receiver()` that has all it misses in its buffer still returns, and
`main()` uploads; one that has not polls for ever (`Stranded`). That the server
sends FINISH only after the receiver's checksum is an assumption about the server
(the score depends on the checksum), and `NotBeforeDelivered` rests on it.

The channels of `RdtTransfer` are mapped to all the
places a packet can be in. Nothing is repeated while its predecessor, or for a
data packet the newest acknowledgement, is under way (`UnderWay`): that is what
`TIMEOUT_MS` and `ACK_KEEPALIVE_MS` are for, it bounds the queues, and repetitions
at other times are in `RdtTransfer`. The threads' single accesses to the flags are in
`ChallengeClient`.

### Connection

`clientConnect()` tries the addresses one by one, waits for the server's hello,
sends REGISTER and waits for OK; then the event loop reads the same socket
through the same buffer. One step of reading is one call of
`getControlMessage()`: it appends what `read()` returns, from nothing to
`BUF_SIZE` bytes, and cuts off the first line if there is one. The server is free
to write at any time, several lines ahead, and to close.

Bytes are tokens, and no word contains the newline. `getControlMessage()` compares
the sixteen characters of `RDTCHALLENGE/5.0` and cuts off one more without looking
at it. So `PROTOCOL` stands for the sixteen, and the character behind them is a
token of its own, a blank or not: a line of `RDTCHALLENGE/5.0.1` passes the test
(`OtherVersion`) and what is behind the dot is handled as a message, which the
event loop ignores and `clientConnect()` refuses. `OddLines` are the lines it does
notice: empty, without the sixteen characters, with nothing behind them and the
next.

The event loop's condition is a step of its own (`LoopTop`), because `stop()` in
`main()` raises `simulationFinished` under it (`MainStops`): a receiver that has
uploaded its checksum does not wait for FINISH. FAIL, CLOSED and FINISH raise it in
the loop, and a write that fails ends the process (`WriteFails`). START is not among
the messages: what it does is in `ChallengeClient`, and here a PACKET that has been
handled stands for the session having started. `written` and `ends`, the lines and
how many bytes had been written with each, and `handled` are history: the client
does not act on them, except that `MainStops` waits for that PACKET.

### PacketWire, Base64, Crc32

`PacketWire` follows one packet from its builder to the test at the other end;
its states are the places where the packet waits. `RdtTransfer` knows packets
as records; this module says why it may. Or it is the checksum of a file, which
is what stands between damage to a payload and a wrong file. `Base64` writes the two loops as
functions of the position. A character is its index in `base64_chars`, so that
`find()` needs no model but for the value 255 that a missing character gives.
`Crc32` has the table's first row as it stands in the source, in halves of 16
bits because TLC's integers have 32 bits with sign. `ExclusiveOr` writes the
eight bits of a byte out: the library's definition of `^` is recursive, and
nothing could be proved about it.

### Timer

Everything happens under one mutex, so each section between lock and unlock is
one action; a handler runs without the mutex, between `Call` and
`CallbackReturns`. Only after a handler has returned does the worker keep the
mutex into the next iteration (`wPc = "top"`), and nothing else can run then.
The map of timers is the set `active` of its keys, so a timer outside it is
freed memory; `queue` is a set because its order is that of `deadline`.
`create()` reads the clock before it takes the mutex, so the time it adds to
may lie in the past. Waits may return without a reason, and no fairness is
asked of that. Reading a freed timer is undefined: the model goes to
`wPc = "undefined"` and stops, and what follows is not examined.

## 3. Runs

| run | instance | states | what it asks |
|---|---|---|---|
| `rdt` | 7 bytes in chunks of 2 (4 packets), window 2, mask of 2, header field of 5 values | 77,281 | type invariant, inductive invariant, every safety property, refinement of `ReliableFile`; the file arrives |
| `rdt_oversized` | 9 bytes (5 packets), header field of 4 values | 881 | a file too long for the header is never taken for delivered |
| `timed` | 4 packets, window 2, mask of 2, timeout 6, keepalive 1, pauses and ways of 1, one data packet and one acknowledgement lost | 196,201 | what is repeated and when; refinement of `RdtTransfer` |
| `session` | 2 packets, window 2, mask of 2; the server may abort at any time | 46,879 | both clients end, not too early; what is uploaded; refinement of `RdtTransfer` |
| `client` | 2 packets in each direction | 35,861 | order on the socket, start-up, shutdown, failing writes; clients end |
| `connection` | 2 addresses, 4 lines of up to four tokens and NL, reads of up to 5 tokens | 47,358 | nothing lost, repeated or reordered; every line handled |
| `packet_wire` | 7 numbers at the edges of 8 and 16 bits, 4 payloads of up to 4 bytes, 2 damaged bytes; every byte and 64 triples for the checksum | 197,925 | what arrives of a packet; what damage gets through and what notices it |
| `timer` | 2 timers, delays 0, 1 and 3, periods 0 and 1, clock to 2 | 31,791 | freed and destroyed timers, lost wake-ups |
| `timer_destroy` | 2 timers, `DestroyTwice` | | expects a violation, see section 5 |
| `timer_queue` | 2 timers of equal deadline | | expects a violation, see section 5 |
| `client_role` | 1 packet | | expects a violation, see section 5 |
| `client_join` | 1 packet | | expects a violation, see section 5 |

The bounds. Four packets exceed the window of two, so the window closes, opens
by cumulative and by selective acknowledgement, and runs ahead of `sendBase` by
the maximum `WINDOW + SACK_BITS - 1 = 3`; the last packet is short; the header
field is the smallest that fits. Channels are sets, so there is no bound on
copies. Larger instances (five packets; windows and masks of 1 and 3) were
checked while the model was built and show nothing new, and the proofs cover
all of them. In `client` two packets per direction let one be under way
while another is queued, which is all that the order of messages can depend on;
`MaxPackets` bounds `relayed`, `inbuf`, `outbuf` and the TRANSMITs in `wire`.
In `timer` two timers let one be called while the other is due, created or
destroyed, with equal deadlines or not; period 1 makes a timer come back while
the clock runs, period 0 ends it. (The safety properties were also checked
with three timers, 410,377 states.) Delay 3 puts a deadline beyond the end of the clock (`MaxTime`): such a timer is
exempt from `TimersLeaveQueue`. In `connection` a read can hold half a line, or
end one and begin the next, and the buffer can hold several whole ones; four lines
(`MaxLines`) are hello, reply, a packet and then an ending, a second packet or a line
the server should not send, which may also come in any place before. `packet_wire`
uses payloads of 0, 1, 2 and 4 bytes, so that the text ends in every way a group
can, and up to two bytes of damage (`MaxDamaged`): two in the header can cancel out
in its XOR, two in the payload must not in the checksum.

In `timed` four packets and a window of two bring about the case of a packet
that is received and too far above the first gap to be named by a mask: the
sender repeats it. The timeout is as small as the property allows: two ways,
the keepalive (which fires one tick after `ACK_KEEPALIVE_MS`) and two pauses, so
2 + 1 + 1 + 2 = 6. With a timeout of 5, with a second lost acknowledgement or
with pauses of 2 TLC finds `ResendsOnlyMissing` violated. The program has 700 ms
for two ways, 150 ms of keepalive and two pauses. The losses (`MaxLostData`,
`MaxLostAcks`) are one of each kind. In `session` two packets are enough for both
queues to hold two elements, for data and acknowledgements to overtake each
other at the relay, and for any packet, the last acknowledgement in particular,
to be lost or left behind, and for the abort to come with any of them anywhere;
`NotBeforeDelivered` was also checked with three packets (1,312,038 states).

Properties of `RdtTransfer`:

- `AckedIsReceived`, `FinishedIsDelivered`: no acknowledgement, however old,
  makes the sender believe or report too much.
- `BaseIsUnacked`: the sender can always send the packet at `sendBase` again.
  It moves `sendBase` on cumulative acknowledgements only and repeats only
  unmarked packets, so a mask that marked `sendBase` would stall it.
- `WindowSpan`: the window as it is, holes counted, and the distance from
  `sendBase` it implies. With both constants 16 the sender runs at most 31
  packets ahead of the first missing one.
- `AcksArePlausible`: the test `ab > nextSeq || ab > totalPkts` refuses no
  genuine acknowledgement.
- `FileIntact`: the bytes returned are the file's.
- `OversizedNotDelivered`: the truncated total lets `receiver()` return a
  prefix, or nothing, but `sender()` then ends only by `setStop()`. That the
  truncated file is returned, and uploaded, does happen; only the server, which
  gets its checksum, can notice.
- `EventuallyDelivered`: progress. That `sender()` returns is part of `SessionEnds`.
- `KeepsPromise`: the refinement of `ReliableFile`.

Properties of `ChallengeClient`:

- `WireOrder`: request and input checksum before packets, CLOSED last, nothing
  but packets twice, although two threads write.
- `FileIDIsSet`: order of writes to shared flags.
- `NoThreadLeft`: the protocol object is deleted after its thread ended, and
  `main()` returns from a simulation with the event loop joined.
- `AbortNeedsEnter`: the aborts of section 5 happen only to a client whose
  user pressed Enter.
- `OrderlyEndIsWhole`: when a write of the event loop stops halfway, `main()` cannot
  get to its orderly return before the process has ended: it waits in a join.
- `SenderEnds`, `ReceiverEnds`: progress. The exception in `SenderEnds` is real:
  `receiver()` does not read `stop`, so a client that the server abandons in
  the middle of receiving stays in its loop.
- `DropEndsProcess`: a connection that goes down without a word ends the process
  if the protocol is running and has something to repeat. The end of the stream
  itself is never noticed: a client that waits for START, a receiver before its
  first packet and a `sender()` that has returned wait for ever.

Properties of `TimedTransfer`:

- `ResendsOnlyMissing`: what `sender()` repeats is missing at the other side, or
  cannot be named by a mask. The stale `now`, an acknowledgement under way or a
  lost one that the keepalive repeats are no reason to repeat a packet. It speaks
  of the time until `receiver()` has left its loop: then there is no keepalive any
  more, and if the last acknowledgement is lost, packets the receiver holds are
  repeated until `setStop()`.
- `RepeatedInTime`: a packet in flight is repeated or acknowledged before it is
  older than the timeout and three pauses.
- `TimersDeliver`: a relay that loses a bounded number of packets cannot keep the
  file from arriving. (Stamping every packet in flight when any is sent would.)
- `ImplementsUntimed`: `RdtTransfer` covers every clock.

Properties of `Session`:

- `NotBeforeDelivered`: when `sender()` returns, by itself or because it is stopped,
  the whole file is at the other side, unless the server gave the session up and
  the sender's event loop has ended. What stops it otherwise is the receiver's
  checksum, three threads and two sockets away, and `main()` waits for it in the join
  of the event loop. And whatever ends the session, the receiver's `main()` gets to
  the upload only with the sender's file.
- `SessionEnds`: both clients reach the end of `main()`, although `stop()` may leave
  the receiver's last acknowledgement in its output buffer. After an abort, too,
  but for a `receiver()` that misses a packet and does not notice.
- `ImplementsTransfer`: queues, event loops that stop and the relay together are no
  worse than the channels of `RdtTransfer`.

Properties of the others:

- `LinesInOrder`, `NothingLost` (`Connection`): whatever `read()` cuts, also in the
  handover from `clientConnect()` to the event loop.
- `AllHandled` (`Connection`): every line up to the one that ends the session, also
  the second of two that came in one read when nothing follows. The exception is
  real: when `main()` is in `stop()`, or a write has failed, the loop ends with lines
  it could read unhandled; for a receiver FINISH is usually one of them.
- `OddLineEnds` (`Connection`): a line without the protocol's sixteen characters, or
  with nothing behind them and the next, ends the client once it has handled what
  came before. The exception is an empty line: `pos > 0` takes it for no line, it
  stays at the front of the buffer and nothing behind it is handled any more.
- `DeliveredAsBuilt`, `HeaderDamageRejected` (`PacketWire`): the channels of
  `RdtTransfer` deliver what was sent; a changed header byte, the type and the
  XOR included, makes the packet a lost one.
- `DamageIsCaught`, `CrcIsStandard` (`PacketWire`): changed bytes of the payload
  get into the file, but change its checksum, which is the standard's CRC-32, if
  they are one, or lie within four in a row. Damage spread wider may go
  unnoticed, as with every checksum of 32 bits.
- `NoDanglingReference`, `NoCallAfterDestroy` and the invariant behind them,
  `TimerInv` (which includes the type invariant); `TimersLeaveQueue` and
  `DestructorEnds` (`Timer`).

Fairness. In `RdtTransfer` both functions are polling loops of threads of their
own, hence weak fairness of their steps. `SendAgain(i)`: a packet that stays in
flight grows older than `TIMEOUT_MS`, and a later pass repeats it. Strong
fairness of delivery says that the relay does not lose for ever a packet, or
the receiver's last acknowledgement, that is repeated for ever; without it no
protocol delivers anything. `StopWhenReceived`: the server ends the session
after the receiver's checksum, the event loop ends, `main()` calls `setStop()`.
In `ChallengeClient` weak fairness of `main()`, of the event loop, of an exit that
has begun, of the sender's return once stopped and of repetitions; a connection
that is gone is reset sooner or later, and then a write fails. Nothing is
assumed of the server, the user and the packets. In `TimedTransfer` only that
something happens or time passes; the rest follows from the ages. In `Session`
the threads run; what waits for an empty input buffer (`SenderTransmits`,
`ReceiverRepeats`) has strong fairness because a pass takes microseconds and
packets come milliseconds apart; the relay is as in `RdtTransfer`; the server
ends a session whose checksum it has, and need not give one up. In `Connection` the
client goes on; nothing is assumed of the server and of the other threads. In `Timer` the worker is scheduled, the clock advances
and handlers return.

Every property has a mutant in `PROJECT.json`: a plausible bug in one operator,
written beside the original, that makes TLC find the property violated.

## 4. Proofs

`RdtTransferProofs` proves, for every file, chunk size, window, mask width and
header width:

1. `TypeCorrect`: `Spec => []TypeOK`, inductive by itself.
2. `InvariantHolds`: `HeaderFits => (Spec => []IInv)`. `HeaderFits` says that
   the number of packets is below the number of values of a header field; the
   program's largest test file has 1158 packets, the field holds 65535.
3. From `IInv`: `AckedIsReceived`, `BaseIsUnacked`, `WindowSpan`,
   `AcksArePlausible`, `FileIntact`, `FinishedIsDelivered`.
4. `OversizedNeverDelivered`, without `HeaderFits`.
5. `PromiseKept`: `HeaderFits => (Spec => KeepsPromise)`; initial states map to
   initial states, each step to a step or a stutter of `ReliableFile`.

The argument. `acked \subseteq received` is not inductive: it needs that every
acknowledgement under way tells the truth (`AcksAreSound`), which holds because
`received` only grows and an acknowledgement was true when sent. `BaseIsUnacked`
needs more: the base of an acknowledgement was a gap when it was sent, so no
acknowledgement sent before names it in its mask; and one sent later has a base
at least as high and a mask strictly above its base. Hence no base of any
acknowledgement is named in the mask of any other (`BasesAreGaps`), and
`sendBase`, always some acknowledgement's base or 0, is named by none. The
keepalive repeats `lastAck`, so `Acks` includes it. `WindowKept` bounds the
cardinality of `InFlight`; the distance from `sendBase` follows because the
packets between are in flight or in the `SACK_BITS - 1` places a mask has above
the base. `CopyIsFaithful` carries the file: the assembled part is a prefix of
the file that ends at a chunk boundary.

The assumptions are `PacketAssumption` and `WindowAssumption`, which say that the
constants are positive naturals and the file a sequence of naturals; TLC
evaluates them in every run.

`TimerProofs` proves, for any number of timers, delays and periods:
`TimerTypeCorrect`, and under `~DestroyTwice` (`destroy()` is called at most once
for each timer) `TimerInvHolds`, `NeverDangling` and `NeverCalledAgain`. The
invariant says that ids are fresh, that no timer in the queue is destroyed or
has its handler running, and that between call and return
`Instance::running` says exactly that `destroy()` has not come: that is what the
worker relies on when it decides to schedule the timer again. The hypothesis is
needed, see `timer_destroy` below.

### One packet on the wire

`PacketWireProofs` proves `RoundTrip`: decoding inverts encoding on every sequence of
integers. One group of three bytes is arithmetic (`GroupRoundTrip`); the rest
places the padding (`EncodedAccepted`: the decoder stops exactly where it
begins) and shows that the bytes kept of a short last group depend only on the
characters kept.

It then proves all four invariants of the run `packet_wire`, for any header fields,
payloads, files and damage: `DeliveredAsBuiltHolds`, `HeaderDamageIsRejected`,
`DamageIsCaughtHolds` and `CrcIsStandardHolds`. The invariant, `WireInv`, says that
wherever the packet waits it is the packet that was built, in base64 where it is
text, but for the bytes in `damaged`. What carries it over the socket is
`RoundTrip`; that a changed byte of the header is noticed is `XorTells`: if two bytes
differ then so does their XOR with any third. Neither argument looks at the size
of a field, hence `WireAssumption` asks only that fields are integers, payloads
sequences of them, files sequences of bytes, and damage values bytes. The other
two rest on `Crc32Proofs`.

### The checksum

`Crc32Proofs` proves, for every sequence of bytes:

1. `CrcIsTheStandards`: the loop over the table computes the CRC-32 of the standard,
   which divides bit by bit.
2. `OneByteTells`, `FourBytesTell`: two files of one length that differ in a single
   byte, or only within four bytes in a row, have different checksums. Both speak
   of the whole file, so they cover a damaged payload wherever it stands in it.

The argument. `^` acts on each bit alone (`XorByBits`), so it is associative,
commutes and cancels, and shifting to the right and the step of the division
respect it: `BitAddsUp` says that a step applied to `x ^ y` is the step applied to `x` ^
that applied to `y`. Eight steps inherit this (`EightBitsAddsUp`), and applied to
a register they are therefore those of its low byte ^ the rest, which they only
shift (`EightBitsShifts`). So a pass of the loop is right if the table holds the
eight steps of each byte, and it does (`TableIsStandard`): this too adds up, so that
the entries 1, 2, 4, ..., 128 are computed and every other is compared with the ^ of
the first of its row and the one in its column (`Row1` to `Row15`); no entry is taken
on trust. For the second result the same law is applied to the difference of
the two registers: it starts as zero, each pass is the division of it ^ the
difference of the bytes, and the division loses nothing (`EightBitsOfZero`: the
polynomial has its highest bit, so only zero becomes zero). A difference of one
byte thus never vanishes. Four bytes fed into the empty register one by one come
to the same as the word they make divided by 32 steps (`Feed`), and that is zero
only if all four are.

The loops over bytes and bits are recursive functions, and what such a function
is, for every length, takes induction. The library's induction theorems have a
predicate as parameter and cannot be used here; `Least`, `Induction` and `Recursion`
replace them. That the order of the naturals is well-founded gives every set of
numbers a least element; the set of the passes at which something fails would
have one; and the set of functions that follow the loop so far (`Loops`) is not
empty at any pass. The assertions are sets, so the provers need no operators
as parameters.

### The connection

`ConnectionProofs` proves `LinesInOrderHolds` and `NothingLostHolds`, for any number of
addresses and lines and reads of any size; of a line it uses only that it contains
no newline. `LinesInOrder` alone says nothing of the bytes that are not yet cut into lines, so `ConnInv` adds
where each line lies: `LinesFollow` (the lines stand behind one another in the
stream) and `BytesInPlace` (`socketBufferStr` followed by the socket holds the
lines not taken yet, each byte in its place, and a newline behind each). The first
newline in the buffer is then the end of the first line not taken, which is what
`getControlMessage()` relies on when it cuts there. `ConnectionAssumption` says that
a read takes at least one byte, that no word contains the newline, and that no other
word is the protocol's name.

### One client

`ClientProofs` proves all six invariants of the run `client`, for any number of
packets: `ClientTypes`, `WireOrderHolds`, `FileIDBeforeRole`, `NoThreadLeftHolds`,
`AbortNeedsEnterHolds`, `OrderlyEndHolds`. They are proved together, because none is
inductive: what may be written next depends on where three threads are. `ClientInv`
says it in parts.

- `RoleSettled`: what `main()` does after the start is decided by Enter alone
  (`startCommand`), and nothing is sent before.
- `StartsOnce`, `NothingBeforeStart`: until `run()` has handled START, which comes
  once, there is no packet, no checksum and no role; afterwards `fileID` is set.
- `ThreadsEnd`: who has finished before whom. A sender is stopped only when the
  event loop is joined; `stop()` runs only when the protocol function has
  returned.
- `SaidAndPast`: whoever has written a message is past the statement that writes
  it, so it is not written twice.
- `Failing`: a thread in `exit()` stays where its `write()` failed, so the join that
  waits for it does not return. `OrderlyEndIsWhole` follows from this.

### Clocks

`TimedTransferProofs` proves, for any timeout, keepalive, delays, pauses and numbers
of losses (`TimeAssumption`: naturals, with a pause of at least one):

1. `UntimedImplemented`: `HeaderFits => (Spec => ImplementsUntimed)`, step by step;
   and `PromiseKeptInTime`, from this and `PromiseKept`: with its clocks, too, the
   transfer implements `ReliableFile`.
2. `RepeatedInTimeHolds`, from `HeaderFits` alone.
3. `ResendsOnlyMissingHolds`, from `HeaderFits` and `TimersSuffice`, which says how
   long the timeout has to be:
   `TIMEOUT_MS >= 2 * MaxDelay + MaxPause + MaxLostAcks * Round`, where `Round`, the
   time from one acknowledgement that is lost to the next that is sent, is the
   greater of `ACK_KEEPALIVE_MS + MaxPause + 1` and `MaxDelay`. The run `timed` meets
   it exactly (6 >= 6), and is violated with 5. The program has 700 ms and 150 ms:
   with a pause of 10 ms that leaves two lost acknowledgements and ways of 170 ms.

The invariant `TimedInv` is that of `RdtTransfer` and, in parts: `RepeatsSoon` (how old
a stamp gets between two passes and within one), `StampsAreFresh` (a packet
under way was stamped at most a pause before it was sent, or later),
`LastAckIsNewest` (the keepalive repeats all the receiver knows) and
`ReceivedIsNamed`. The last is the heart of it: for each packet in flight that has
arrived, an acknowledgement that names it is in the sender's buffer, or on its way
and not too old for the packet's stamp, or lost and the keepalive not due yet.
Nothing of the kind holds of a packet too far above the first gap for a mask to
name, which is why the property excepts it.

### Two clients

`SessionProofs` proves, for every file that fits the header, every window and mask:

1. `TransferImplemented`: buffers, event loops, relay and shutdown implement
   `RdtTransfer`, step by step: a packet that moves on along its way is a stutter,
   one left behind in a buffer stays in a channel that nobody reads.
   `PromiseKeptInSession` composes this with `PromiseKept` and `FileIntactAlways`: the
   two clients implement `ReliableFile`, and when `receiver()` has returned
   (`rPc = "done"`, the last of its steps in `Session`) the bytes it has put together
   are the sender's file, also in a session that is given up afterwards.
2. `NeverBeforeDelivered`. `ClosesInOrder` follows the end of the session backwards:
   `stop` is set only when the sender's event loop has ended; that ends only when the
   server has finished or aborted; the server finishes only when the receiver's
   `main()` is past `receiver()`; and `main()` is past it only when it has returned.
   Without an abort, therefore, a sender that is stopped has delivered the file; and
   what `main()` uploads is the file in any case.

Here, too, the first needs the invariant of `RdtTransfer` (`SessionInv` contains it):
the step of `receiver()` is a step of `RdtTransfer` only if the total in a data
packet is the file's. `SessionAssumption` says that the window is not empty.

### Only model-checked

The liveness properties, because fairness and ENABLED are out of the prover's reach:
`EventuallyDelivered`, `SenderEnds`, `ReceiverEnds`, `DropEndsProcess`, `TimersDeliver`,
`SessionEnds`, `AllHandled`, `OddLineEnds`, `TimersLeaveQueue`, `DestructorEnds`. Every
other property of a passing run is stated by a theorem.

## 5. Where the code differs from what it says

- `client_role`. `Program.cpp:82-84` and `README.md:42` say that a client is
  started as receiver when the other client gives the start command. `main()`
  reads `simulationStarted`, sees a key, and calls `requestStart()`, which
  reads the flag again. If the event loop handles the other client's START in
  between, `requestStart()` does nothing, but `startCommand` is set all the
  same and the client runs `sender()`: both clients send, none receives. As
  `isSender` is not set, `stop()` then joins the event loop a second time.
- `client_join`. The comment at `DRDTChallengeClient.cpp:187` says that for the
  sender the event loop is already joined. It is not if the server answers the
  request with FAIL, or ends the session before `main()` has looked: `main()`
  goes straight to `stop()`, which skips the join because `isSender` is set,
  and destroying the joinable thread calls `std::terminate`.

- `timer_destroy`. `timer.cpp:40` and `:133` say that a destroy that races with
  the handler is flagged for the worker. The flag is `running`, lowered; a
  second `destroy()` during the same call takes the timer for a waiting one and
  frees it, and the worker then reads it (`timer.cpp:52`).
- `timer_queue`. `destroy()` erases from the queue by value, and values compare
  by deadline (`timer.h:103`, `:113`): other timers with the same deadline go
  too and are never called. Nothing in the repository calls `destroy()`, so
  neither of these two shows in the program today.

Seen and not made a run: with `Polynomial` as `crc32.h:20` has it (0x04C11DB7)
the algorithm in the comment at `crc32.cpp:35` does not give the table, which
is the one of 0xEDB88320; the constant is used by nothing. `src/README.md` says the file number defaults to 1, the
code says 6, and describes a directory `TCP-prot` that does not exist.

## 6. Not modelled

- The name lookup of `clientConnect()`, which ends the process or yields the list
  of addresses `Connection` starts from, and the descriptors of the sockets.
- A START of two words, on which `run()` throws (`at(2)`); it ends the process, and
  nothing in the repository says what the server would send instead.
- In `RdtTransfer`, damage the header check does not notice (see section 2).
- In `Session`, writes that fail, connections that drop and users who press Enter on
  both sides: they are in `ChallengeClient`, where the other client is part of the
  server.
- `main()`'s parsing of the file number. `select()` on the keyboard is a free
  choice: its result is kept in a `size_t`, so an error counts as a key.
- `DummyProtocol` (never instantiated), the naming and writing of output files,
  the Windows branches of the conditionals.
- `Timer::exists()` and `destroy()` of an unknown timer, which change nothing;
  overflow of a deadline of centuries; what happens after a freed timer is read.
- Rows 1 to 15 of the CRC table, which nothing uses.

## 7. Plan

Done: `RdtPackets`, `RdtTransfer`, `ReliableFile`, `RdtInvariant` with their
proofs; `TimedTransfer`; `ChallengeClient`; `Connection`; `Session`; `PacketWire`,
`Base64` and `Crc32`; `Timer`. Proved: every invariant and action property the
passing runs check, every refinement, and that the checksum is the standard's.

Left, in this order:

1. `RdtTransfer` with a relay that damages packets past the XOR check, to say
   exactly which of its properties survive (the bookkeeping of the sender) and
   which do not (the bytes of the file). `DamageIsCaughtHolds` says what then
   notices it.
2. Action properties of the transfer for every value of the constants: what the
   receiver knows and the sender believes only grows, acknowledgements included.
