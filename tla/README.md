# A TLA+ model of overproto-go

overproto-go is a Go library that moves packets over TCP and UDP: it frames,
compresses, encrypts and fragments them, and offers a selective-repeat protocol
over UDP. This directory holds a TLA+ model of it: modules for its parts, TLC
configurations that check them on small instances, and proofs that TLAPS checks
for every instance. `PROJECT.json` lists runs, mutants, source lines, findings,
hazards and theorems.

## 1. The system

| part | source | state | operations |
|---|---|---|---|
| Reliable transport | `transport/reliable.go` | send ring, `sendBase`, `nextSeq`; receive bitmap, `recvBase`; `cwnd`, `ssthresh`, slow start; duplicate-ACK counter; RTT statistics; one mutex | `Send`, `Recv`, `ProcessACK`, `ProcessTimeouts` |
| Fragmentation | `core/fragment.go` | per packet: fragments received, their number, first header; one mutex | `FragmentPacket`, `AddFragment`, `Assemble`, `IsTimeout` |
| TCP transport | `transport/tcp.go` | receive state, buffer, bytes read; one mutex | `TCPSend`, `TCPRecv`, `TCPClose` |
| UDP transport | `transport/udp*.go`, `sockopt_*.go` | none | `UDPBind`, `UDPConnect`, `UDPSend`, `UDPRecv`, MTU query |
| Package API | `overproto.go` | `initialized`, `config`, `recvCallback`; `mu` | `Init`, `Shutdown`, `SetHandler`, `Send` |
| Encryption | `optimize/crypto.go` | `encryptionKey`; `keyMutex` | `SetEncryptionKey`, `ClearEncryptionKey`, `Encrypt`, `Decrypt` |
| Compression | `optimize/compress.go` | none | `Compress`, `Decompress` |
| Packet format, CRC32 | `core/packet.go`, `core/crc32.go` | lazily built CRC table and its flag, unprotected | `Serialize`, `Deserialize`, `ComputeCRC32` |
| Example programs | `examples/*/main.go` | client map and its mutex; a signal channel per program; goroutines | clients that send and receive, servers that echo |

How they interact: `overproto.Send` checks `initialized`, compresses, encrypts
with the global key, and calls `TCPSend` or `UDPSend`, which call `Serialize`.
`TCPRecv` and `UDPRecv` call `Deserialize`. A `ReliableContext` reads with
`UDPRecv` and writes to the socket itself. Nothing in the library starts a
goroutine: readers, senders and the ticker for `ProcessTimeouts` belong to the
application. The example programs are the only applications in the repository:
each client runs a sender and a receiver, the TCP server an accept loop and two
goroutines per client, the UDP server a heartbeat, and all of them wait on one
signal channel. No code in the repository calls the fragmentation or the reliable
transport yet, and `recvCallback` is stored but never called.

What is hard here: two rings indexed modulo the window size over sequence numbers
that overflow; data and ACKs that share one receive window; retransmissions that
race late ACKs; several goroutines in one context; a byte stream cut at arbitrary
places, with errors in between; a key that is replaced or cleared while messages
are being encrypted; a round-trip estimate in rounding uint32 arithmetic that
decides when packets are sent again; a table built by racing goroutines on
hardware that may reorder their stores; programs whose goroutines compete for one
signal and share a connection that may break.

What makes each part correct:

- reliable transport: a message is handed out at most once, is confirmed only
  after that, and is not thrown away; the ring is never written over; every
  packet is acknowledged or given up, and the window opens again;
- fragmentation: the packet comes back byte for byte, completion is reported to
  one goroutine only, and what was cut can be assembled;
- TCP: the packets come out in order and without gaps, whatever the Reads return;
- timers: the estimate stays within what was measured and is not moved by
  retransmitted packets, and the congestion window obeys its threshold;
- API and key: calls return, the flags describe the payload, lengths fit their
  field, a message is encrypted with a key that somebody set;
- CRC32: concurrent callers compute the same CRCs as a single one;
- programs: echoes arrive in order, a client that left leaves nothing behind, a
  signal ends the program.

## 2. Modules

| module | models |
|---|---|
| `SeqWindow` | uint32 arithmetic, `getWindowIndex`, `isInSendWindow`/`isInRecvWindow` |
| `Datagrams` | the UDP sockets and the network (external): loss, duplication, reordering |
| `ReliableSender` | sending half of `ReliableContext`; one action per method, since every method holds `ctx.mu` throughout |
| `SenderAlone` | one sending half; ACKs with any number at any time |
| `AckHistory` | `SenderAlone` with the history that the comments on congestion control speak of: repeated ACKs, ACKs without growth |
| `TimedSender` | `SenderAlone` with its clock: `updateRTT`, the sample taken in `ProcessACK`, and `ProcessTimeouts` deciding by age and RTO |
| `ReliableReceiver` | receiving half: `Recv` after `UDPRecv`, and `sendACK` |
| `ReliableLink` | two contexts, the network and the application's goroutines |
| `MessageChannel` | abstract specification: what a context promises its application |
| `MCReliableLink` | the bound of TLC's run of `ReliableLink` |
| `Fragmentation` | `FragmentPacket` and one shared `FragmentContext` |
| `TCPStream` | `TCPSend`, the byte stream, the state machine of `TCPRecv` |
| `KeyStore` | the global key: slices and the bytes behind them |
| `Library` | `Init`, `Shutdown`, `SetHandler`, `Send`, over `KeyStore`; calls wait for `mu` and for `keyMutex` in steps of their own |
| `CRCTable` | `initCRC32Table` and `ComputeCRC32` in several goroutines, each with its own view of memory |
| `SignalChannel` | the buffered channel `sigChan` and the goroutines that wait on it |
| `ExamplePrograms` | the five example programs over TCP connections or UDP sockets |
| `ReliableSender_proofs` | theorems and lemmas about `SeqWindow` and `ReliableSender` |
| `TimedSender_proofs` | theorems about `SenderAlone` and `TimedSender` |
| `ReliableLink_proofs` | theorems about `ReliableReceiver` and `ReliableLink` |
| `Fragmentation_proofs`, `TCPStream_proofs`, `Library_proofs`, `CRCTable_proofs`, `ExamplePrograms_proofs` | the theorems about the module of that name |

State variables have the names of the fields they model. Variables marked
"history" are not in the code: `sends` (sequence numbers taken, without overflow),
`acked`, `delivered`, `completions`, `assembled`, `received`, `torn`, `takenKey`,
`resent`, `built`, `signals`, `echoed`, `repeats`, `avoided`.

Abstractions. Payloads are numbers or byte positions, which keeps any two apart. In
`SenderAlone` and `ReliableLink` the clock is gone: `ProcessTimeouts` is told which
of the packets it scans are past their RTO. `TimedSender` has it: every slot in use
has an age in milliseconds, and the packets past the RTO are those whose age says
so. Its steps are steps of `SenderAlone`. A batch of retransmissions is one action,
as in the code, and a failing write ends it. `Recv`'s returns before it takes the
lock look like lost datagrams to the context. `Deserialize` accepts a whole packet
and nothing else; the CRC is trusted to tell them apart. When `TCPRecv` has lost its
place, the bytes where it expects a length may mean any length. Clearing the key
takes two steps, because `Encrypt` reads the bytes without the lock: before, in the
middle, after. The race on the CRC table is undefined by the language; `CRCTable`
gives it the two outcomes hardware produces, stores that reach other goroutines in
program order (amd64) or one by one (arm64). A store is its place in the table,
since all goroutines store the same values, and entry 0, whose value is the zero it
starts with, is left out. In `ExamplePrograms` the connection, the signal delivery
and the `select` statement are external; a message is its number, and the server's
own messages are 0. A reset connection loses what is in flight. When `main` returns,
its deferred `Shutdown` and `Close` calls, which other goroutines may still overlap,
and the end of the process are one step. `Fragmentation` follows one packet from
`FragmentPacket` to `Assemble`: the fragments that arrive are copies of those that
were cut, so a received `TotalFrags` is one that `FragmentPacket` produced.
`TimedSender` lets a first transmission be acknowledged at an age up to `MaxRTT`, or
at the age that is no uint32 and gives no sample, not in between: a bound on the
samples, which the theorems have for every `MaxRTT`.

The driver in `ReliableLink` (a reader calls `Recv` and gives every packet with
`OpACK` to `ProcessACK`) is not in the repository; it is the only one the API
allows, because ACKs arrive on the same socket and only `Recv` returns them. The
ACKs the reader holds between the two calls are in `ackInbox`. `SenderAlone`
assumes no driver at all.

## 3. Runs

Runs that pass:

| run | shows |
|---|---|
| `sender_alone` | (`TimedSender`) the ring under arbitrary ACKs: never more than half in flight, the base never rests on an acknowledged packet, slots hold the right packets, acknowledged slots only get cleared; slow start ends below its threshold; the round-trip estimate stays between the shortest and the longest sample and packets sent twice are never measured; every packet is resolved, and the window reopens unless an abandoned packet is at its base |
| `link` | data both ways over a faulty network: implements `MessageChannel`, with at-most-once delivery and confirmation only of delivered messages; `Recv` throws away only numbers that a delivered message used up; an ACK marks its waiting packet however often that was retransmitted, except packet 0 before any other ACK |
| `fragmentation` | the original comes back; completion is reported once; complete packets get assembled |
| `tcp_stream` | any split of the stream, failing Reads and Writes: no repetition or reordering, errors between packets are harmless, and all packets arrive unless an error tears one |
| `library` | `Send` against `Init`, `Shutdown` and key changes: flags and lengths are right, and replacing the key does not touch messages being encrypted; `Shutdown` waits for `keyMutex` while it holds `mu`, `Send` waits for either, and both always return |
| `crc_table` | three goroutines race to build the table: all CRCs are right if stores stay in order; otherwise wrong ones come only from goroutines that did not build it, and not for ever |
| `programs` | each pair of client and server: over TCP echoes come in order and without gaps, and every message is echoed on a live connection; the client map exact, handlers and tickers of clients that left end, and enough signals end every program |

Runs that TLC must refute, each a disagreement between the code and a comment or
document, quoted in `PROJECT.json`:

| run | what the code does |
|---|---|
| `ack_takes_slot` | ACKs carry `FlagReliable` and enter the receive window; the ACK for packet 0 moves the window past 0, and the peer's data with that number is then refused as out of the window, and lost. One message each way and a perfect network suffice |
| `ack_storm` | ACKs are acknowledged, without end |
| `seq_overflow` | `sendBase < nextSeq` stops the slide once `nextSeq` has overflowed |
| `key_cleared` | clearing the key zeroes the bytes a running `Encrypt` is about to use |
| `congestion` | congestion avoidance adds the integer `1 / cwnd`, which is 0, where a comment promises linear growth; ACKs of acknowledged packets are dropped before they are compared with `lastACKSeq`, so that the last ACK, repeated three times, starts no fast retransmit. The property asks for one of the two where both are due, and the last state of the trace refutes both |

Other disagreements, each visible in a single step or in the stated exception of a
property, have no run of their own:

- the first ACK of packet 0 counts as a duplicate and does not acknowledge it,
  because `lastACKSeq` starts with 0 (`reliable.go:296`, under the comment
  "check whether this is a duplicate ACK", `:295`); `AckMarksPacket` says that no
  other packet is affected;
- a packet given up after `MaxRetries` keeps its place at the base of the window,
  which never opens again (`reliable.go:419`; the comment at `:418` says "we remove
  it from the window"); `WindowReopensUnlessAbandoned` says that only packets given
  up, or whose `Serialize` failed, do this;
- a Read that fails inside a packet discards what was read, and the next `TCPRecv`
  starts in the middle (`tcp.go:140`; `REFERENCE.md:264` says "This function can be
  called multiple times to read a complete packet. The state machine handles partial
  reads automatically."); `CleanErrorsKeepFraming` and `EventuallyReceived` are
  about errors that tear no packet, `NeverOutOfOrder` holds after one that does;
- an MTU below 28 wraps around to a huge fragment size, and `FragmentPacket` answers
  that nothing needs cutting (`fragment.go:130`) instead of "MTU too small for
  fragmentation" (`:131`);
- 65508 to 65535 bytes that do not compress are refused once encryption has added 28
  (`overproto.go:158`; `REFERENCE.md:134` says "Payload data to send (maximum 65535
  bytes)."); `TooLargeMeansAboveLimit` says that nothing else is refused;
- where stores are reordered, a goroutine may see the flag of the CRC table before
  the table (`crc32.go:17`), although "Multiple goroutines can safely call `Send()`
  concurrently." (`REFERENCE.md:564`); `WrongOnlyOnForeignTable` and
  `WrongOnlyAtFirst` say which goroutines compute wrong CRCs, and when;
- a goroutine of a client or of the UDP server may take the only signal, and `main`
  waits for another (`tcp-client/main.go:76`, `udp-server/main.go:59`), although all
  examples shut down gracefully on SIGINT or SIGTERM (`examples/README.md:99`);
  `SignalsEndProgram` says that two signals always end a program;
- the UDP server answers with `Send` on a socket that has no peer, and no echo ever
  leaves it (`udp-server/main.go:96`; the comment at `:92` says "echo reply", and
  `REFERENCE.md:592` "complete working examples").

Oddities that contradict no document:

- the RTO has no lower bound and is 0 after samples of 0 ms (`reliable.go:360`);
  `EstimateWithinSamples` says that only such samples can do it;
- `Send` compares packets in flight with free slots, so only half of the window
  is used (`reliable.go:155`; this is what `HalfWindowInFlight` says);
- a payload above 65535 bytes is cut into fragments that `Assemble` refuses
  (`fragment.go:107`; `CompleteMeansAssemblable` and `EventuallyAssembled` are
  about payloads within the limit).

Bounds. The ring has 4 slots and sequence numbers wrap at 8 or 16, so that a window
is a small part of the space, as in the code. `InitialCwnd` 2 and `MaxCwnd` 4 let the
congestion window grow to its maximum and be reset. In `link`, A sends three
messages, more than the half window of 2, so windows fill and slide, while B sends
one (`OneMessageBack`), so that data and ACKs mix in both receive windows and ACKs
and data with the same number meet; the theorems have any number each way. One or two
retries let a packet be retried and given up. `sender_alone` sends 5 packets, more
than the ring holds, with round trips of 0 to 2 ms, so that estimates rise, fall and
reach 0; ages stop at 7, beyond the longest RTO of 6 ms and standing for every age
that is no uint32. `seq_overflow` sends 9, more than the sequence space of 8; the
passing runs stop before the overflow, which the theorems `HalfWindow` and
`SlotsSound` cover. `congestion` sends 6, enough for a window's worth of ACKs after
slow start. Fragmentation uses an overhead of 2, a "uint16" of 9, at most 5
fragments, and sizes and MTUs on both sides of each limit, an MTU below the overhead
included. The TCP header has 2 bytes, the CRC 1, payloads 0 or 2, with 3 packets and
up to two errors. The library has sizes on both sides of the compression threshold
and the limit, two keys and one call of `Send`: it holds no lock while it waits for
another, so that it meets `SetEncryptionKey`, and `Shutdown` and `ClearEncryptionKey`
again and again, but never another `Send`. The CRC table has two entries, so that a
goroutine can see one without the other, and three goroutines, so that one can see
the stores of two. The programs run one client, with two messages, one message of the
server's own and two signals in all: goroutines of different clients share nothing
but the map. `CHECK_DEADLOCK` is off where the bounded instance ends: all messages
are sent and settled.

Fairness. `TimedSender`: time passes and the application keeps calling
`ProcessTimeouts` (weak fairness of `Advance` and `TimedTick`; the API leaves that
call to the application). `ack_storm`: readers and tickers keep running.
Fragmentation: every fragment arrives once and the goroutine that was told so
assembles. TCP: the receiver keeps calling `TCPRecv` and written bytes arrive, which
TCP guarantees on a live connection. Library: goroutines inside a call run on; strong
fairness for taking a lock (`mu` and `keyMutex` in `Send`, `keyMutex` in `Shutdown`),
because `sync.RWMutex` lets waiting readers in when a writer leaves and holds new
readers back while a writer waits. CRC: stores become visible, and calls run on.
Programs: goroutines that can run do, timers fire, bytes arrive; users need not start
or interrupt anything, and connections need not break. No fairness is assumed for
calls of `Send` or `Shutdown`, or for loss.

Every property of a passing run has a mutant in `PROJECT.json`: a definition with
a plausible bug, under which TLC finds the property violated.

## 4. Proofs

Every invariant and every action property of a passing run is a theorem, for every
value of the constants that satisfies the assumptions; so is the refinement of
`MessageChannel`.

Assumptions on constants are named where the constants are declared:
`WindowAssumption` (the sequence space is a multiple of the ring), `SenderAssumption`
(2 <= InitialCwnd <= MaxCwnd <= WindowSize), `LinkAssumption`, `PeersDistinct`,
`TimeAssumption` (sums of eight round trips fit a uint32),
`FragmentationAssumption` (a uint16 fits the arithmetic, and so does the number of
fragments), `TCPAssumption` (the length is a byte of the header),
`KeyStoreAssumption`, `LibraryAssumption`, `TableAssumption`, `ProgramsAssumption`
(the server is no client). Some of them also say that the value standing for Go's
`nil` is not one of the values it is told apart from. Theorems marked NoWrap also
assume that fewer than `UintMod - WindowSize` sequence numbers are used;
`seq_overflow` shows that this cannot be dropped for `BaseUnacked`, and the
receiver cannot tell a packet from one a whole sequence space older, so that
delivery needs it too.

| theorem | states |
|---|---|
| `WindowTestIsDistance`, `WindowSlotsDistinct` | the window test is the distance test modulo 2^32; numbers of one window have distinct slots |
| `TypeCorrect`, `HalfWindow`, `SlotsSound` | `SenderTypeOK`, `HalfWindowInFlight`, `SlotsHoldTheirPackets`, across overflow too |
| `BaseUnacked` (NoWrap) | `BaseIsUnacked` |
| `AckedSlotsStay` | `AckedSlotsOnlyCleared` (action property) |
| `SlowStartStops` | `SlowStartStopsAtThreshold` |
| `TimedImplementsSender` | `TimedSpec => Spec`: the theorems above hold with the clock |
| `EstimateSound` | `EstimateWithinSamples` |
| `KarnRule` | `OnlyFirstTransmissionsMeasured` (action property) |
| `LinkTypes` | `TypeOK` of both contexts and the wire, across overflow too |
| `WaitingPacketsMarked` | `AckMarksPacket` (action property), across overflow too |
| `DeliverySafe` (NoWrap) | `DeliveredAtMostOnce`, traffic both ways |
| `ConfirmedWasDelivered` (NoWrap) | `AckedIsDelivered`, traffic both ways |
| `LinkImplementsChannel` (NoWrap) | `Spec => ImplementsChannel` |
| `RejectedNumbersUsed` (NoWrap) | `RejectedNumberIsUsed`, traffic both ways |
| `FragTypes`, `CompletionUnique`, `AssemblyFaithful`, `CompleteAssembles` | `FragTypeOK`, `CompletesOnce`, `AssembledIsOriginal`, `CompleteMeansAssemblable` |
| `TCPTypes`, `PacketsInOrder`, `FramingSafe` | `TCPTypeOK`, `NeverOutOfOrder`, `CleanErrorsKeepFraming` |
| `LibraryTypes`, `FlagsCorrect`, `TooLargeJustified`, `RotationSafe` | `LibraryTypeOK`, `FlagsDescribePayload`, `TooLargeMeansAboveLimit`, `HeldKeyNotReplaced` |
| `RaceHarmlessInOrder` | `WrongOnlyOnForeignTable`, any number of goroutines and entries |
| `ProgramsTypes`, `MapExact`, `EchoesOrdered` | `ProgramsTypeOK`, `MapHoldsServedClients`, `EchoesInOrder`, any number of clients |

The arguments:

- *Sender.* `SafeInv` joins the types, the half-window bound and the content of the
  slots. The bound is needed for the slots: only because at most half of the ring is
  in flight does `Send` write into a slot no live packet uses. `PrefixInv` adds
  that, before the overflow, `nextSeq` is the number of sends and the base is not
  acknowledged.
- *Acknowledged slots.* `SendKeepsSlots`, `TimeoutKeepsAcked`, `DuplicateACKSlots`
  and `NewACKClearsPassed` say what each method does to a slot marked ACKed; only
  the slide touches it, and what the slide passes it clears.
- *Duplicate ACKs.* `LastACKSettled`: once an ACK was taken, `lastACKSeq` is outside
  the window or its slot is ACKed, so that another ACK for it is ignored before it
  is compared with `lastACKSeq`; before that, `lastACKSeq` is 0. The invariant is
  kept by each method (`SettledAfterACK`) and carries `WaitingPacketsMarked`: the
  ACK of a waiting packet is in the window (`WaitingInWindow`), is not ignored, and
  can pass for a duplicate only as packet 0 before any other ACK.
- *Congestion window.* `SlowStartStopsAtThreshold` is inductive with `SafeInv`: an
  ACK that leaves slow start on has compared the grown window with the threshold,
  and a timeout resets the window whatever it makes of the threshold.
- *Estimate.* `EstimateInv` adds a bound on `RTTVar` and the value of `RTO`: the
  deviation is at most the longest sample, so no sum overflows; `MeanBetween` and
  `DeviationBelow` are the rounding divisions.
- *Karn's rule.* `ResentInv`: a slot in state Sent was never sent again.
  `NewACKSlots` shows that a new ACK takes only its own packet out of the waiting
  ones, since all the slide clears was acknowledged.
- *Link.* `LinkInv` adds what the receiver has received, as a set: all numbers below
  `recvBase` and those whose bit is set (`Covers`). Every datagram in flight and
  every ACK is in reach of the windows; a delivered message has been received; an
  ACK, in flight or in `ackInbox`, stands for a received number. `SlideCovers` and
  `AcceptAdds` show that sliding preserves the set and accepting adds one number to
  it. At-most-once delivery follows, because `isNew` rejects received numbers. That
  confirmed messages were delivered needs more: a number can enter the receiver's
  set through an ACK rather than through data, and the invariant shows that then no
  ACK for the data is ever taken as its confirmation without a delivery.
- *Rejected packets.* `NumbersUsed`: a number that either end has received is that
  of a message delivered at one of the two ends. Data brings in its own number, and
  an ACK only a number that the other end has received.
- *Types of the link.* `TypedLink` is `TypeOK` with `SafeInv`: what a timeout or a
  duplicate ACK writes to the wire is a packet because slots in use hold packets.
- *Fragmentation.* `FragInv`: the wire holds fragments of the packet only, a slot is
  empty or holds its slice of the payload, and `ReceivedFrags` is the number of
  filled slots, not of fragments received. Completion is then reported by the
  fragment that fills the last slot and by no copy of it. That the slices join up to
  the payload is about a recursive function, the concatenation: the prefixes of the
  payload satisfy its equations, and at the least index where it differed from them
  it would not (`LeastNumber`, from the well-foundedness of the naturals). This
  takes the place of an induction.
- *TCP.* The stream is described byte by byte: `OrderInv` says that the bytes
  returned, buffered and still in the stream are in the order written, with gaps
  where a failure lost some, and this alone forbids a packet to come twice or late.
  `FramingInv` says that, before a packet is torn, the stream starts with the byte
  at which the receiver stopped and has no gaps, and that the buffer is a prefix of
  the next packet; then `target` is its length.
- *API.* `SendInv` follows a call from its request, through the wait for `mu`, to
  its packet: which layers the payload has at each `pc`, how its size relates to the
  request's, and hence which of them the flags of a packet name and when the size
  check can fail.
- *CRC.* `TableInv`: a goroutine in `initCRC32Table` sees its own stores; in ordered
  memory every view is closed under program order, so that who sees the flag, which
  is stored last, sees the table.
- *Programs.* `MapInv`: a client that has not connected has left no trace, and the
  connection the accept loop holds is in state accepted, so the map changes together
  with the handler. `WaitersInv`: a goroutine that may come to a receive is not yet
  among the waiters. `EchoInv`: the echoes on their way follow those received,
  without gaps among them, and while the server can write, what the client has sent
  is echoed, held by the handler, or on its way to it. The last part is needed
  because the next echo continues the sequence only if no message was lost before.
- *Key.* `RotationInv`: buffers are numbered by allocation, and a held key has a
  number already used, so `SetEncryptionKey`, which takes a new one, cannot change
  it; only clearing writes to a buffer in use.

Only model-checked: the properties that need fairness, which the prover cannot
reason about (`EventuallyResolved`, `WindowReopensUnlessAbandoned`,
`EventuallyAssembled`, `EventuallyReceived`, `CallsReturn`, `WrongOnlyAtFirst`,
`EchoArrives`, `NothingLeftBehind`, `SignalsEndProgram`).

## 5. Not modelled

- `Decrypt` and `Decompress`: no code calls them. The encrypted example prints the
  ciphertext it receives, and each of its processes has a random key of its own.
- AES-GCM, zlib and the value of the CRC: fixed functions, left to unit tests.
- The byte layout of the header: pinned by the unit test of `Serialize`.
- `IsTimeout`, a pure function without a caller, and `backoffRTO`, a local variable
  that `ProcessTimeouts` computes and does not use (`reliable.go:428`).
- Socket options and MTU discovery: system calls; `UDPSend` ignores the MTU.
- `recvCallback`: stored by `SetHandler` and never called.
- Flags and logging of the example programs, and programs that end with
  `log.Fatal` before they serve anyone.
- A size error in `AddFragment` (`fragment.go:53`) leaves the slot taken; data that
  comes out of `Deserialize` is never that long.

## 6. Plan

Every component with state is modelled and every safety property that a passing run
checks is proved. What is left is to prove the safety part of the liveness properties:

1. `EventuallyResolved`: the retry count of a slot never falls and a timeout raises
   it or frees the slot, so each packet is retransmitted at most `MaxRetries` times.
2. `WindowReopensUnlessAbandoned`: with nothing waiting, a closed window has a slot
   at its base that was given up or never filled.
3. `CallsReturn`, `SignalsEndProgram`: the locks are free whenever nobody is inside
   them, and as many signals as a program has receivers reach its `main`.
