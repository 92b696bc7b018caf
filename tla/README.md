# go-mold in TLA+

go-mold is a client for MoldUDP64: a server multicasts numbered messages in
UDP packets, the client puts them in order, asks a request server for those it
missed, and hands them to an application through `Read`. This directory
specifies it, model-checks it with TLC and proves its safety properties with
TLAPS for every value of the constants. Modules are translated from the Go
source; the kernel, the request server and the network are external and modelled
from how the code uses them. `PROJECT.json` maps every definition to its lines.

## The system

| part | state | operations | module |
|---|---|---|---|
| `requestLoop`, `doMsgBuf`, `newReq`, `request` (client.go) | `seqNo`, `seqMax`, `seqEnd`, `endSession`, `bDone`, `cache`, `connReq`, `robinN`, `reqLast` | a packet off `c.ch`, a tick | `MoldOrder` |
| `Read` and the loop around it (client.go, main.go) | `ready`, `lastSeq`, `lastN`, `Running` | take `ready` under the lock, decide whether to stop | `MoldOrder` |
| `doMsgLoop` over `Recv`/`MRecv`, `gotBuff`, `Close` (client.go) | `session`, `reqSrv`, `conn`, the channel `ch` | receive, check, send on the channel, learn session and server, close | `MoldClient` |
| `doMsgLoop` inside a ring's `Listen` (client.go) | the ring, the channel | callback, `gotBuff`, back-pressure | `RingClient` |
| recovery (client.go with a request server) | as `MoldOrder`, and an answer in flight | ticks, requests, answers, EOS | `MoldRecovery` |
| the program (cmd/client/main.go) | whether the process runs | main's loop and timeout, signals, `ExitFunc`, return | `MoldProgram` |
| `msgCache` (msgCache.go) | pages of message slots | `Upset`, `IsNil`, `Merge` | `MsgCache`, promised by `MsgStore`, `MsgMap` |
| wire format (moldUDP.go) | the locals of the loops | `EncodeHead`, `DecodeHead`, `Marshal`, `Unmarshal` | `MoldCodec` |
| `McastConn` (mcast.go, sockif*.go, zsockif.go, winsock.go) | `fd`/`conn`/`zs`, `bRead` | `Open`, `OpenSend`, `Close`, `Recv`, `Send`, `MSend` | `McastIf` |
| batches and filters (rsocket.go) | the global arrays `dgrams`, `iovec`, `filter` | `Sendmmsg`, `Sendmmsg2`, `Recvmmsg`, `setBPF` | `RSocket` |
| transmit ring (zsocket.go, zsockif.go) | `txIndex`, `txWritten`, `txWrittenIndex`, frames | `MSend`, `CopyToBuffer`, `FlushFrames` | `TxRing` |
| receive ring (zsocket.go) | blocks or frames | `Listen` | `RxRing` |
| frames on the wire (zsockif.go, rsocket.go) | none | `copyFx`, `buildRawUDP`, the checks of `Listen` | `UdpFrame` |
| ring set-up (zsocket.go) | none | the sizes and offsets of `NewZSocket` | `RingLayout` |

Interactions: `doMsgLoop` feeds `requestLoop` through `c.ch`; `requestLoop` and
`Read` share `c.ready` under `c.readLock`, and `bDone`, `seqNo`, `Running`
without it; `doMsgLoop` and `requestLoop` share `c.reqSrv`; `Close` and main's
loop run against all of them; interfaces share the arrays of rsocket.go and the
process's descriptors; the rings are shared with the kernel.

What makes it hard: packets lost, repeated, reordered and from several
sessions; a stop that `Read`, an EOS packet and the last block each may have to
notice; values `Read` combines from before and after an update by `doMsgBuf`;
unsynchronised loads and stores; retries under a rate limit; failing system
calls half way through an operation; rings that wrap; arrays that keep what the
last call left in them. The list, line by line, is under "hazards" in
`PROJECT.json`. Three more, which the models show and no property is about, since
nothing in the repository says what should happen: the request server learnt is
the sender of a batch's first datagram, whichever of the batch was sound
(client.go:457); `robinN` advances with every request but counts only for the
first dial, so that a second configured server is never asked (client.go:493);
`Listen` compares the port but not the group (zsockif.go:196), so that foreign
packets get as far as `gotBuff`'s comparison of sessions.

## How the models correspond to the code

**MoldOrder.** A message is `<<session, number>>`. What arrives on `c.ch` is any
element of `Inputs(session)`, at any time and any number of times; this covers
loss, duplication, reordering and retransmission. Packets that contain fewer
messages than they announce are not among the inputs: `MoldClient` has them
(`ShortBufs`), and `short_block` is about them. `sent` is a request from the
moment it is written until the network takes it (`Depart`). The actions whose
names start with `P` are `requestLoop`'s: `PTop` and `PTick` its loop and
ticker, the others one branch of `doMsgBuf` each. `doMsgBuf` is split where
another goroutine can see the difference: `PInOrder` (up to `lastSeq`, `lastN`),
`PSeqNo` (`seqNo`, `bDone`), `PAppend` (under the lock). At an EOS packet
`bDone` is stored and `ready` loaded without synchronisation:
`PEosDone`/`PEosStop` is one order of the two, `PEosPeek`/`PEosLate` the other.
`ATop`, `ATake`, `ACheck` are `Read`. `append` to `c.reqSrv` is two steps,
`LearnServer` and `FillServer`, as a concurrent reader may see the new length
before the element. `Request` covers no server, a failing dial, and a write.
`DumpStats` counters are left out.

**MoldClient** extends it by the receiving goroutine and `Close`, and sends
`doMsgBuf` the head of a bounded channel instead of an arbitrary packet. The
datagrams include damaged ones, those of other sessions, and two kinds that
`gotBuff` should not pass on but does. A session whose name is blank or has one
character (`Nameless`) decodes to the empty name: the client stays without a
session, and the packet is queued all the same. And a packet with fewer messages
than it announces is filled up with empty ones (`ShortBufs`). The history
variable `misled` records that one of them was passed on. **The properties of
the client assume that this has not happened**: servers use session names of two
characters or more, and put as many messages into a packet as they announce. Up
to then `MoldClient` implements `OrderSpec` (checked and proved): the layer
below adds nothing `MoldOrder` does not allow, so what is proved of `MoldOrder`
holds of the whole client. `Close` closes `c.conn` and clears it in two steps; a
call on the nil interface in between or after is the state `rpc = "panic"`.

**MoldRecovery** adds the request server's answers. They come back over the
multicast socket: the client never reads the socket it writes its requests to
(`c.connReq`), so retransmitted messages that a server sends to the requester's
address are never seen. `RecoversAll` assumes a server that multicasts them.
**MoldProgram** adds the program around it: main's loop, which ends the process
once the client has stopped or nothing has come for too long, the signal
goroutine, `ExitFunc`, and an outage of the network. At most one of an outage
and a signal happens in a behaviour. When the process ends its memory is gone,
which is why `Exit` resets every variable.

**MsgCache** implements **MsgStore** (refinement mapping: the map of the slots
that are not nil). `MsgMap` holds the operators both `MsgStore` and `MoldOrder`
use, so that the cache inside `MoldOrder` is the one `MsgCache` implements.

**MoldCodec** gives the header's codec as operators and the loops of `Marshal`
and `Unmarshal` as actions, a round each, with the locals they keep (`msgCnt`,
`off`, `i`) as variables; what `Unmarshal` returns are slices of the packet, a
place and a length. `Base` is the number of values of a byte. A behaviour is one
call: on a name, on a list of messages and the bytes `Marshal` made of it, or on
bytes received. **UdpFrame** gives the frame `Send` writes and the packet
`Listen` passes on as operators on lengths (16 bits wide where the code's fields
are), ports and the bits of the group's address. **RingLayout** gives the
arguments `NewZSocket` accepts, the request it makes and the frames it cuts out
of the mapping, and where the kernel has them. These two have one variable each,
the packet's length and `NewZSocket`'s arguments.

**McastIf** runs one interface, of one of four kinds (`netIf`, `sockIf`, `sockIf`
over winsock.go, `zsockIf`), against a table of descriptors that the rest of the
process uses too. `Open` has one action per system call and per failure of one,
and others may open and close descriptors in between. `netIf`'s copy of the
descriptor is closed by the garbage collector (`Collect`), also early. On
Windows each `Close` takes back a `WSAStartup`.

**RSocket** has the callers of the batch calls and of `setBPF` go through the
shared arrays entry by entry. An address is a goroutine and a name, so that a
buffer of one in the batch of another shows. Packets have any length: `&buf[0]`
of an empty one is a panic (`SetUpPanics`), and so is cutting a slice beyond its
buffer (`CutPanics`), which overlapping calls reach.

**TxRing** has one action per access to an atomic, a frame's status or the
kernel. The kernel takes the requested frames from its own position on. It may
stop before the last one (`SendtoShort`: the code does not look at the count,
and takes `EAGAIN` for success), or refuse one, which it marks and stays at,
since `PACKET_LOSS` is off (`SendtoError`); `Poll` may fail. All three set
`failed`. **RxRing** covers both ring formats, a slot being a block (V3) or a
frame (V1). **RingClient** puts `gotBuff`, the channel and `requestLoop` behind
it: the callback waits while the channel is full, and with it `Listen` and the
ring.

Operators commented `Mutant` are plausible bugs of the definition that follows
them; no specification uses them. `PROJECT.json` says which property each breaks.

## Runs

Passing runs:

| run | bounds | shows |
|---|---|---|
| `order` | 1 session of 3 messages, packets of 1 and 2, window 2, server learnt | `NothingLost`, `NoStall`, `DoneMeansAll`, `RequestsMissing`, `StopsAtEnd`, `EosStopLosesNothing`, `Progress` |
| `client` | 2 sessions and a nameless one, of 1 message each, channel of 1, batches of up to 2 | `OneSession`, `ImplementsOrder` |
| `recovery` | 2 messages, window 1, 1 configured server; outage or signal at any point | `RecoversInOrder`, `RecoversAll`, `ProcessEnds` |
| `data` | cache: numbers 0..5, pages of 2, increment 1, 2 messages; codec: bytes 0..2, names up to 10 and payloads up to 6 bytes, up to 3 messages of up to 4 bytes and one of 9, which `uint16` (here 0..8) does not hold, buffers up to 12 bytes; frames: lengths around 0, the frame's size and 2^16; rings: arguments around each limit | `ImplementsStore`, `HeadRoundTrip`, `BlockRoundTrip`, `AcceptsOnlyBlocks`, `RefusesNoBlocks`, `FramesAgree`, `FramesInRing` |
| `tx` | 1 writer, ring of 3, batches up to 4, 8 writes, failing calls | `TakenInOrder`, `FlushComplete`, until a call fails or leaves frames over; `NoOverwrite` and `SendReturns` always, the latter with an exception for frames left behind |
| `rx` | 3 slots, blocks of 2, 8 packets of which 5 pass every check, channel of 1 | `RingLosesNothing`, `InOrderToLoop`, `DropsOnlyWhenFull`, `RingDelivers` |
| `sockets` | 2 goroutines, arrays of 2, batches up to 3, packets of 0 and 3 bytes against buffers of 2; 4 descriptors, all four kinds of interface, 2 `WSAStartup` calls | `BatchIsOwn`, `FilterIsOwn`, `HoldsItsOwn`, `OthersUntouched`, `OptionsOnOwn` |

The bounds let each interesting case happen: with 3 messages and packets of up
to 2 there are gaps, overlaps, repeats and cached runs, windows smaller than the
gap, and a last block that is shorter than the one before; a channel of 1 is
full or empty; batches exceed the ring and the arrays, and the rings wrap more
than twice; pages are crossed and added; an interface finds its number taken by
others; a second close on Windows takes the last `WSAStartup` back. The parts of
`data`, and those of `sockets`, have no state in common: each behaviour is about
one of them (`subject`). Sessions with a name of `client` and goroutines of
`sockets` are interchangeable and reduced by symmetry (safety only). `client`
does not go on from a state that is misled (`NotMisled`), of which its
properties say nothing. With one message per session it never meets a gap: what
`doMsgBuf` does about gaps is in `order`, and the theorem that the client
implements `OrderSpec` has no bound. Deadlock is not checked where the system
stops: the client ends with its session, a panic ends `McastIf` and `RSocket`,
and `MaxWrites`, `MaxPackets`, `MaxBytes` bound the other models.

Several properties have an exception for what the code does get wrong. The
excepted cases are reachable in the models, and the properties do not catch them:

- `HoldsItsOwn` and `OthersUntouched`: from a failed `Bind` to the next `Close`
  `sockIf` keeps the number of the descriptor it has closed (`stale`), and that
  `Close` closes whatever has the number by then. After the last `WSACleanup`
  nothing is said.
- `HoldsItsOwn` is about descriptors the interface knows of: a `NewZSocket` that
  fails after `Socket` leaves one behind that nobody knows of (`"lost"`).
- `OptionsOnOwn`: an early collection of `netIf`'s copy.
- `BatchIsOwn` and `FilterIsOwn`: overlapping calls, as the arrays have no lock.
- `TakenInOrder` and `FlushComplete`: once a call has failed or left frames over.
  Frames of a failed flush stay marked, and later flushes may send nothing until
  the ring comes round to the frame the kernel waits at.
- `SendReturns`: a writer that, after such a failure, claims a frame which the
  failed flush has left behind (`Stuck`): `Poll` waits for it, or `getFreeTx` spins.
- `OneSession` and `ImplementsOrder`: a client that is misled.

Violation runs state what a comment, a message or a test says and the code does
not do; the quotations are under "findings":

- `early_stop`: `doMsgBuf` raises `lastSeq`, `seqNo` and `bDone` before it appends
  the last block to `ready`. A `Read` that takes the block before it in between
  adds that block's length to the new `lastSeq`, believes it has read everything
  and stops the client; the last block is never returned.
- `gap_request`: `storeCache` always answers 0, so a packet behind a gap never
  leads to a request; the gap waits for the next heartbeat or EOS.
- `one_char_session`: `DecodeHead` loses a session name of one character.
- `short_block`: for a payload with fewer messages than announced `Unmarshal`
  returns as many as announced, the last of them empty, so that `doMsgBuf`'s
  comparison of the two numbers never refuses a packet.
- `tx_two_writers`: a frame can stay unflushed after both writers have returned.

Disagreements of the same kind that have no run of their own: `WrittenPackets`
is 0 after a failed `Sendto` (zsocket.go:395); `Stats.Polls` exceeds `Packets`
on a quiet network (zsocket.go:128); `sockIf.Open` answers "Already opened"
after a failed `Bind` (sockif.go:52); `NewZSocket` asks for "at least 16, and
... a multiple of 8" frames and refuses only 0 and 8 (zsocket.go:215).

Fairness.

- `MoldProgram`. Weak: goroutines run, time passes, main's ticker ticks
  (and an outage outlasts main's timeout), and packets of the session come while
  the network is up. Strong: Go's `select` chooses at random among ready
  channels, so ticks do not starve; the server repeats EOS, and of requests
  repeated for ever one is dialled, answered, and its answer received on the
  multicast socket. Nothing is assumed of multicast data, nor of signals.
- `TxRing`, weak: a writer in the middle of `MSend` goes on with its next
  successful step (`Sending`; no call has to fail), and the kernel sends what it
  took.
- `RingClient`, weak: `doMsgLoop` calls `Listen`, the goroutines go on, and the
  kernel retires a block in time, as the ring's block timeout makes it do. A
  `Poll` that fails and the end of `requestLoop` are not excluded; `RingDelivers`
  names them.

## Proofs

Every theorem is for all constants that satisfy the named assumptions of the
module it is about; TLC evaluates these assumptions in the runs.

**MoldOrderProofs** (from `OrderAssumption`: a session has a message, `NextSeq`
at most one past the last, `1 < MaxMessages <= 65535`, `0 < NakWindow < 65535`,
`nil` and the zero address are no server; `NilAssumption`: `nil` is no block)
proves the invariants of `order` and its action properties: `RequestsSound`,
`StopsOnlyAtEnd`, `EosStopSafe` and `OnlyForward`. The inductive invariant
`IInv` is the invariants and `RequestsAnnounced` (a request under way stays
within what was announced) together with `Shape`. They need each other: that
`popCache`'s run continues the stream needs `NoStall` (cached messages sit under
their own numbers), that `bDone` survives `PInOrder` needs that nothing is left
to take at `End`. `Shape` adds what the program counters know: before the
session is learnt nothing has happened; `seqEnd` is the end once `endSession` is
set; `res` is empty outside the in-order branch; in the middle of an EOS packet
everything is ordered; and after `ready` was seen nil it stays nil, since only
`requestLoop` itself makes it otherwise. The argument: lemmas about `Stream`
(type, concatenation, cutting off a prefix), `MergeStream` (what `Merge` returns
is a stream, and the number behind it is not cached), one lemma per kind of
step, then `NextIInv`. Lemmas about the parts of `TypeOK` keep its proof apart
from the others.

**MoldClientProofs** (from `ClientAssumption` too: the channel and batches have
room, and some sessions may be nameless) proves `ClientTypes`, `SessionsApart`
(`OneSession`) and `ClientImplementsOrder`: until the client is misled, every
step of it is a step of `MoldOrder` or leaves its variables alone.
`ClientReadsInOrder` draws the conclusion. `ClientInv` adds to `OneSession` that
a packet about to be sent on the channel has passed `gotBuff`'s checks.
`ProgramReadsInOrder` is `RecoversInOrder`: for the program around the client,
with its outages, signals and lost requests. `ProgramInv` says that `IInv` holds
as long as there is a process, and that an answer in flight is a packet of the
session learnt (`AnswerFits`); this makes its arrival a step of `MoldOrder`,
however old the request. It needs `IInv` itself, for `newReq` asks between
`seqNo` and `seqMax`, and only `IInv` knows that these are numbers of the
session.

**MsgCacheProofs** proves `CacheImplementsStore` for every page size and
increment: page and offset determine a number, `Upset` fills exactly its slot
and the pages grow to hold it, and the walk of `Merge` ends at the first gap.

**McastIfProofs** proves `HoldsOwn`, `OthersSafe` and `OptionsSafe` for any number
of descriptors. `IfInv` is types, `OpenShape` (what `Open` works on at each of its
steps), `HandleShape` (whose descriptor the interface has) and `ExactlyHeld`
(`HoldsItsOwn` descriptor by descriptor). The exceptions above are in the
statements.

**RSocketProofs** proves `OwnBatch` and `OwnFilter` for any number of goroutines,
any batch size and packets of any length. `Shape` holds with overlapping calls
too: an entry a call has set up has buffers. Without overlap one call at most is
at work on an array (`Alone`), so what it has written is still there (`FilterOwn`,
`BatchOwn`); the kernel then cuts what it receives to the call's own buffers
(`ReceivedFits`), which is why `Recvmmsg` does not panic.

**TxRingProofs** assumes one writer. `TxInv` (room between the check and the
count; a frame found ready stays so) gives `TxTypes` and `NeverOverwrites`, with
failed calls too. `OrderInv` gives `KernelTakesInOrder` and `FlushLeavesNothing`:
the write after `j` others is in frame `j % N`, the counters say at each step of
`MSend` how many writes the kernel has not taken, exactly the frames of a flush
are requested between `txSet` and `Sendto`, and marked frames are those of writes
not yet freed. It rests on arithmetic lemmas about `%` (writes less than `N` apart
are in different frames).

**RxRingProofs**: the slots that wait for `Listen` are those from its own round
the ring up to the kernel's (`HandedOver`); along them arrivals ascend
(`Ascending`). This gives `DropsWhenFull` and `RingPassesAll` for both formats
and every number of slots; `RingClientImplementsRing` carries them to the client
behind the ring, and `LoopTakesAll` is `InOrderToLoop`.

**MoldDataProofs** proves the properties of the wire format, of frames and of ring
layouts.

- `SenderAndListenerAgree` (`FramesAgree`; from `FrameAssumption`: a frame and the
  largest datagram are shorter than 2^16, and the smallest packet is no shorter
  than the network's minimum) and `RingsFit` (`FramesInRing`; from
  `LayoutAssumption`: pages and the smallest frame are powers of two, the largest
  frame is below 2^16) are arithmetic, case by case of the code's conditions.
- The codec (from `CodecAssumption`: a byte has two values or more, and the inputs
  are bytes). `HeadersSurvive` is `HeadRoundTrip`, from the place where
  `DecodeHead`'s loop ends. The loops need invariants of their own, over
  `CodecTyped` (types, and what is still untouched in each phase). `Found`: the
  messages found lie one behind the other up to `off`; it gives `OnlyBlocks`
  (`AcceptsOnlyBlocks`). `OnlyCut`: every way to cut the payload into messages
  agrees with the loop as far as it has come, since a length prefix
  determines the next cut; so there is none once the loop fails, which is
  `NoBlocksRefused` (`RefusesNoBlocks`). `Filled` and `RoundTrip`: the messages
  written lie in the buffer at places `e[0]`, `e[1]`, ..., and `Unmarshal` stops at
  exactly these; they give `BlocksSurvive` (`BlockRoundTrip`). The lemmas are about
  slices of concatenations (`CutOut`, `BytesBack`), and about `PutUint16` and
  `Uint16` being inverse below `Base * Base` (`LengthBack`).

Only model-checked: the liveness properties `RecoversAll`, `ProcessEnds`,
`SendReturns` and `RingDelivers`, since the prover does not reason about fairness.

## Not modelled

- Ring statistics, and the printing of frames and of the ring; the counters of
  `DumpStats`; options and the ticks main prints: nothing in the client reads
  them.
- `ExitMulticast`, `SetMulticastTTL`, `SetBroadcast` and `WriteToBuffer`, which
  nothing in the repository calls.
- Checksums and the sender's own addresses in frames. The BPF program itself,
  which the kernel runs: `RSocket` has the ports it is given.
- Sequence numbers are natural numbers: 64 bits do not overflow in a session.
- The conversion of addresses and error codes in winsock.go: the outcomes of its
  calls are those in `McastIf`.

## Plan

1. A run of `MoldOrder` with two configured servers, one of which never answers.
2. `TxRing` with several writers: what still holds of it, and a proof.
3. `RingClient` composed with `MoldClient`, so that `OrderSpec` is a property of
   the client on a ring too.
