# A TLA+ development of tentacle

Tentacle is a peer-to-peer networking library: a *service* dials and listens,
every connection is secured (`secio`), multiplexed (`yamux`) and becomes a
*session*, and each protocol that both sides support gets a *substream* of that
session. This directory keeps TLA+ models of that code, TLC configurations that
check them on small instances, and TLAPS proofs of the most important
invariants for every instance. `PROJECT.json` records, for every definition, the
lines it models; for every property, a mutant that breaks it; and the hazards
and findings.

## The parts of the system

Data travels down this list when it is sent, and up when it is received.

| Part | Source | Modules |
|---|---|---|
| protocols: ping, identify, discovery | `protocols/*` | `ProtocolNode`, `PingHandler`, `IdentifyProtocol`, `DiscoveryProtocol`, `Protocols` |
| messages and their generated code | `*_mol.rs`, `protocols/*/src/protocol.rs` and the encode/decode functions | `Molecule`, `Messages` |
| addresses | `multiaddr/*`, `tentacle/src/utils.rs`, `secio/src/peer_id.rs` | `Multiaddr` (binary form) |
| service, future tasks | `tentacle/src/service.rs`, `service/*` | `Service` |
| protocol handle streams (user callbacks) | `tentacle/src/protocol_handle_stream.rs` | `ProtocolHandle` |
| tentacle session | `tentacle/src/session.rs` | `TentacleSession` |
| tentacle substream | `tentacle/src/substream.rs` | `Substream` |
| priority channel and send buffers | `tentacle/src/channel/*`, `buffer.rs` | `PriorityChannel` |
| protocol selection | `tentacle/src/protocol_select/mod.rs` | `Connection` |
| yamux session | `yamux/src/session.rs`, `control.rs`, `config.rs` | `YamuxSession`, `OrderedStreams`, `YamuxKeepalive` |
| yamux stream handle | `yamux/src/stream.rs` | `YamuxStream` |
| yamux frames | `yamux/src/frame.rs` | `FrameCodec` |
| secio handshake and secure stream | `secio/src/handshake/*`, `codec/*` | `SecioHandshake`, `Connection` |
| listening side of the transports | `tentacle/src/transports/tcp_base_listen.rs`, `proxy_protocol.rs` | `InboundStream`, `InboundConnection`; binding in `Service` |
| quic, upnp, runtime adapters | `tentacle/src/quic/*`, `upnp/*`, `runtime/*` | the messages of quic only, see "Not modelled" |

Almost every part is an actor of its own: a yamux session is one task; each
`StreamHandle` is owned by another; a tentacle session, its inner socket, every
substream and every protocol handle are tasks, and so are the service and each
dial, bind and handshake it starts. They talk through bounded channels and a few
shared atomics. What is hard about the code is therefore the order in which these
tasks run, which the hazards of `PROJECT.json` list line by line. The rest is
formats: what a reader does with bytes.

In a module, a definition whose comment begins with "Mutant:" is a deliberately
wrong version of the definition after it. Nothing uses it; `PROJECT.json` says
which property fails when it takes the place of the right one.

## Modules

### YamuxStream: one stream, both ends

State. For each end: the `StreamHandle` (`state`, `recv_window`, `send_window`,
`buf` for the length of `read_buf`, the two wakers), the waker registered in
`frame_receiver` (`recv_task`), the tasks that sleep (`blocked`), the call in
progress (`pc`), the session's entry for the stream (`reg`), and `path`, the
frames under way to that end. The first `avail` of them are in the handle's
channel. `written`, `granted`, `taken` and `credited` are history: the totals of
bytes and of credit, which the invariant and the frames refer to.

Actions. `poll_read`, `poll_peek` and `poll_write` are each a start, any number
of `RecvFrame` (one turn of `recv_frames` or `try_recv_frames`) and an end,
because the session and the other end run in between. No second call on the same
handle does: all take `&mut self`. `Close` is `poll_shutdown`, `DropHandle` is
`Drop`. `OpenStream`, `AcceptStream`, `RefuseStream`, `Deliver`, `Discard`,
`HandleClosed` and `SessionDown` are what the two sessions do for this stream.
Subtraction in `send_window_update` is modulo 2^32 (`MaxU32`).

Wakers are modelled as they are: `wake()` consumes the waker, `poll_next` on the
channel registers one, `try_recv` registers none.

### YamuxSession: two sessions, many streams

State. Both sessions with their flags, stream table, backlog, the queues
`write_pending_frames` and `read_pending_frames`, the events of the handles, the
connection in both directions (`wire`), the channel of each handle. A handle is
here only what its session sees of it: it sends numbered frames, takes frames
and is dropped.

Actions. One per handler of the session's task. `distribute_to_substream` is a
loop whose receivers are other tasks, so each of its turns is a step. A session
that ends loses its queues; of what is on the wire the peer gets a prefix.

`OrderedStreams` is the abstract specification: per direction, an input sequence
and an output that is always a prefix of it. `YamuxSession` is shown to
implement it, with `in` the frames a handle has sent and `out` those put into
the peer's channel.

### YamuxKeepalive: pings

The map of outstanding pings with their ages, the interval, the wrap of the
`u32` id, a task that is polled up to `MaxLate` late, and a peer that answers
within `RoundTrip` until it hangs.

### PriorityChannel: senders and receiver, atomic by atomic

State. `is_open`, `num_messages`, `num_senders`, the two lock-free queues and the
queue of parked senders (a pushed node is visible only when it is linked, as in
`queue.rs`), each sender's `is_parked` flag and waker, the receiver's waker, and
the program counters of two senders and of the receiver. `kind` says whether the
channel is bounded, bounded with a `PriorityBuffer` in front, or unbounded.

Actions. One per access to a shared atomic or per section under a sender's mutex:
`PollReady`, `DoSendB`, `Park`, `QueuePushAndSignal` for a send, `PopAt`,
`UnparkOne`, `DecNumMessages`, `CheckState`, `Register` for a poll, and clone,
drop and both ways of closing.

### TentacleSession: one session

State. The four session states, `substreams` and `proto_streams`, the buffers and
the pending-data account, the shared flag `closed`, the channels to the streams
and to the service, the procedures in progress, the detached tasks that carry the
last events. One poll of `Session` is two or three steps (the module's comment
says where it is cut), and `wakers` says what will poll it again; a poll that is
not woken is not taken.

The faults are: the connection ends, the muxer, a codec or a write fails,
negotiation or the session times out, a stream or the session is closed from
either side, quick shutdown.

### Substream with ProtocolHandle: one protocol stream and its user

`Substream` in its two forms: one task that reads and writes, or, with `spawn`,
`SubstreamWritePart` as a task and `SubstreamReadPart` in the user's hands. The
sink of `Framed` is a short queue that may be full. `ProtocolHandle` is the task
that calls the user: it takes one event, and the flags `closed` and `shutdown`
may change between taking it and running the callback. `close_proto_stream` is
two steps because it reads `closed` twice. `SubstreamWritePart`'s events and the
handles' events are ordered as their channels order them, and the tasks that
`close_proto_stream` detaches run when they like.

### Service: the main loop

State. `State` with its counter, `sessions`, `dial_protocols`, `listens`, the
dials, handshakes and binds in flight (bags, since two may be equal), the
listeners, the modes (tcp, websocket, tls) that share a socket, what the user was
told last. A handler of the loop is one step. A service with secio and one without
are both set up. The counter of `State` is a number that may become negative, where
the code's `usize` wraps.

### Connection and InboundConnection: from accept to data

`SecioHandshake` is both ends of `handshake()`: Propose, the order by digests,
Exchange, verification, keys, and the nonce that each end sends back encrypted.
`Connection` puts on top of it the secure stream (`recv_buf`, reads of any size)
and the protocol selection, with the `Framed` reader that may have read data
together with the reply. `InboundStream` is what happens before: peeking, telling
TCP, TLS and websocket apart, the PROXY header of a trusted proxy, the forwarded
address. `InboundConnection` composes them: the server's handshake starts on the
stream as the listener handed it over. The network may cut the connection or
change a frame.

### Molecule, Messages, Multiaddr, FrameCodec: the formats

The generated readers of two molecule types of the same kind differ in names,
counts and item types only, so in `Molecule` a type is a piece of data and the
code is one operator per function. `Messages` has the types of the system and the
encode and decode functions of each. `Multiaddr` is the binary form of an address
with its components, and the helpers that look into one. `FrameCodec` is the
header of a yamux frame and a decoder that is fed portions. All four are
operators over real bytes, and RECURSIVE where the code recurses.

### ProtocolNode, the handlers and Protocols

`ProtocolNode` is the state that the three example protocols share: links, what a
peer sent and what the handler sent, timers, the handler's table of sessions.
Each handler module has one action per callback. `Protocols` composes them with
peers that send, disconnect, answer or garble one byte of a message.

## Runs

| Run | Instance | Checks |
|---|---|---|
| `stream_life` | the client writes four bytes, both read one byte at a time, the server also peeks; either closes or drops; the server's session may refuse the stream, either session may end | `NoProtocolError`, `ReaderNeverLost`, `EofAfterAllData` |
| `stream_duplex` | both ends write four bytes and read two at a time, the server drops, fair | `WindowConservation`, `DataArrives` |
| `session_order` | channels, backlog and connection of one; both ends open and the client sends two frames on each stream, or one while the server drops its handles; one stream of two frames that the server drops; both may go away and the server may hang | `NoProtocolErrorSent`, `ImplementsOrderedStreams` |
| `session_live` | three client streams at a server that takes two, one application is stuck; or both may go away and the server may hang; fair | `NoHeadOfLineBlocking`, `OpenAnswered`, `BothEnd` |
| `keepalive` | interval 1, timeout 3, ids modulo 7, one unit late | `NoFalseTimeout`, `HangIsNoticed` |
| `channel` | two senders with two messages and one, a buffer of 0, each of the three kinds, one sender and the receiver may close; fair | `CountIsExact`, `NoLostWakeUp`, `InOrderNothingLost`, `SendEnds` |
| `session` | one protocol that may be opened twice, one message, all channels of one, any two of eleven faults; fair | `StreamsKnownOncePerProtocol`, `PendingCoversQueued`, `IdleIsWaiting`, `ClosedSessionEnds` |
| `substream` | six set-ups of handles and `spawn`, all channels of one, one of nine faults and a close of the session; fair | `SentInOrder`, `HandleSeesStreamInOrder`, `IdleIsWaiting`, `EndIsTold` |
| `service` | two peers, three addresses to dial, two or three modes on one socket, five loads of requests; fair | `CountIsExact`, `OneSessionPerPeer`, `DialEntriesCovered`, `ListenersAreListed`, `CloseEnds` |
| `connect` | nine pairs of ends with two faults, and every arrival (header naming, nameless or wrong; TCP, TLS or websocket; trusted or not; also a listener that two or three modes share) with one pair; fair | `SecureEndsAgree`, `DataInOrder`, `HandedOverWhole`, `ServedAsItSpeaks`, `GoodConnectionWorks` |
| `protocols` | each protocol with up to three peers, and one message of every format with one byte changed | `MessagesHoldTogether`, `PortionsMakeNoDifference`, `PlainIsRecognised`, `EntriesMatchSessions`, `PeersAreContent`, `AddressesPassedOn` |
| `ping` | one peer that answers every ping | `PongKeepsPeer`, which is violated, see below |

All of them pass but `ping`. The type invariant of a module is the first conjunct of
one of its invariants.

Bounds. *Yamux.* Windows of two and four bytes with reads of one or two bytes
make a window fill, a window update be sent and one be omitted (it is omitted
while less than half of the window is to be granted); four bytes in writes of up
to three exceed the first window, so a writer waits for credit and goes on. A
channel of one frame is full after one frame, which is the only thing the
distribution loop can tell. Two streams are enough for one to overtake or block
the other. *Channel.* With a buffer of 0 and two senders the third message is
beyond the capacity, so a sender parks while the other one pushes. *Session and
substream.* One event fills each channel, so every send is met by a full one, and
two disturbances are enough for one to come while another is being dealt with.
*Service.* Three
addresses for two peers give two dials to one peer; two modes on one socket
give a bind that waits for another and a listener that breaks for both, and three
give websocket and TLS without TCP, on which the listener panics. *Connect.*
Nonces of two bytes read one at a time leave part of a frame in `recv_buf`, reads
of four take more than one message. *Protocols.* The code's limits on addresses
(`MAX_ADDR_TO_SEND`, `MAX_ADDRS`, the queue and the fan-out of announcements, the
2500 addresses asked of the manager, `GET_RANDOM`) are 1 to 3, so that they are
exceeded. `MaxWritten`, `MaxPath`, `MaxData`, `MaxId`,
`WireCap`, `MaxMsg`, `MaxSelect`, `MaxFaults` and `MaxBinds` are named in the
modules. Deadlock is not checked where applications have finite work and may all
be done.

Fairness. The runtime polls a woken task again: the steps of a call in progress,
of a task that was woken, and of time are weakly fair. A task that was *not*
woken has no fairness, so that a lost wake-up shows up as a task that sleeps for
ever. In `YamuxSession` some handlers are strongly fair: `poll_next` goes through
flush, control, frames and events in each turn of its loop, so a handler that a
distribution keeps interrupting still gets its turn. In `Substream` a handle is
strongly fair in taking the next event: its `select!` chooses at random between the
channel and the timers. In `Service` each dial, bind and handshake ends,
since it runs under a timeout, and a session that was told to close ends, which is
what `ClosedSessionEnds` of `session` shows. In `InboundConnection` what was sent
arrives and time-outs come. Nothing is assumed of an application that is stuck, a
peer that hangs, or a callback of the user that does not return.

### Where the code and its comments differ

Run `ping` is the one the code does not pass. `PingStatus.processing`, "Are we
currently pinging this peer?", is never set, so a peer is disconnected for its
first correct pong, as if its nonce were wrong, and a ping that is not answered
is never noticed.

Some properties carry an exception that the code makes necessary:

- `EofAfterAllData` excepts a handle whose own session was dropped: `recv_frames`
  finds the channel closed and sets `RemoteClosing` (`stream.rs:284`), so the reader
  gets what had reached the handle and then a clean end of file, although bytes may be
  missing. It also excepts the owner's own second `poll_shutdown`, or one after a reset,
  which leads to `Closed` whatever was taken.
- `NoFalseTimeout` is about answers that are handled within the timeout. `poll_next` runs
  `keep_alive` before it reads a frame, so an answer that lies unread for longer, because
  the task is not polled, does not count.
- `EndIsTold` excepts a stream whose flush fails at the head of a poll
  (`substream.rs:462`): `error_close` returns early for network errors, and the poll ends
  the stream without `close_proto_stream`, so neither the session nor a handle is told.
- `CountIsExact` of `Service` subtracts the Listens that were counted down twice
  (`seen.twice`): when a listener breaks while another mode's Listen of its socket is in
  flight, its error names that mode's address too, which is not in `listens` yet, so
  `ListenError` counts down (`service.rs:1061`), and the outcome of the Listen does so
  again. The `usize` then wraps, or the service stops while a request is in flight.
- `DialEntriesCovered` excepts a connection that was dropped at the connection limit: its
  address stays in `dial_protocols`.
- `ListenersAreListed` says that who listens is listed. The contrary fails: a bind that
  fails leaves its mode in the table of upgrade modes (`tcp_base_listen.rs:99`), and a later
  Listen of that socket joins a listener that does not exist.
- `CloseEnds` excepts a session or a listen that completes after the close was
  asked for (only the sessions of that moment are told) and a callback that waits
  for room in the task channel.
- `ClosedSessionEnds` has the close of a session reported once and last, but for an
  error of a protocol, which may still be reported after it.
- `ServedAsItSpeaks` excepts a connection behind a header that names nobody: the bytes
  that were peeked at before the header was read decide about TCP and TLS
  (`tcp_base_listen.rs:527`). It also excepts a listener for websocket and TLS without
  TCP: `UpgradeModeEnum::from` has no arm for the two together, and the first connection
  reaches its `unreachable!` (`tcp_base_listen.rs:233`).
- `HandedOverWhole` excepts, as to the address, a websocket request that came in pieces.

`CountIsExact` and `ListenersAreListed` of `Service` are about a user with at most one
outstanding `Listen` request per address (`MaxBinds` is 1). With two, the failure of
one of them finds the address in `listens` because of the other, removes it and does not
count down (`ListenError` in `service.rs`), so that the count is too high by one and a
listener is not listed.

The connection limit is an observation of the model of `Service` without a run of its own.
`max_connection_number` is documented as "The limit of max open connection(file
descriptors)" (`tentacle/src/builder.rs:195`), but `reached_max_connection_limit` compares
`max_connection_number < count` before the new session is added (`service.rs:606`), so
one session more than the limit is admitted.

Five observations about yamux come from the same models and have no run of their
own. A task that only writes is not woken by the window update it waits for:
`poll_write` takes the frames that are there and registers no waker
(`stream.rs:539`). After the peer's Fin no frame is taken any more, so a writer
to a peer that still reads runs out of window (`stream.rs:274`). A stream that
both ends closed tells its session nothing when it is dropped, and the entry stays
(`stream.rs:599`). The branch of `poll_read` marked unreachable is reached when the
Fin is taken together with data (`stream.rs:506`). A GoAway closes the connection,
by the peer's answer or by the timer (`session.rs:251`). `DataArrives` is stated with
them in mind.

## Proofs

The proofs are about every value of the constants that satisfies the named
assumptions of a module, and every behaviour of its `Spec`.

| Modules | Theorems | Assumed |
|---|---|---|
| `YamuxStreamProofs` | `StreamInvariant`, `StreamTypes`, `StreamNoProtocolError`, `StreamBufferBounded`, `StreamReaderNeverLost`, `StreamEofAfterAllData` | windows between `InitialWindow` and `MaxU32`, as `Session::new` asserts; a channel that holds a frame |
| `YamuxSessionPipes`, `YamuxSessionProofs` | `NoProtocolErrorSentHolds`, `ImplementsOrderedStreamsHolds` | channels and connection that hold a frame; natural numbers as limits |
| `YamuxKeepaliveProofs` | `NoFalseTimeoutHolds` | an interval that is not 0; a working peer answers within the timeout (`RoundTrip <= Timeout`); ids do not come round while outstanding |
| `PriorityChannelSteps`, `PriorityChannelProofs` | `CountIsExactHolds`, `NoLostWakeUpHolds`, `InOrderNothingLostHolds` | finitely many senders; any buffer size, any of the three kinds |
| `ConnectionSteps`, `ConnectionProofs` | `SecureEndsAgreeHolds` | reads that have a largest size; propositions whose digests are numbers, finitely many faults |

Each is `Spec => []P`, except `StreamEofAfterAllData`, which is about steps
(`[][A]_vars`), and `ImplementsOrderedStreamsHolds`, which is the refinement. `P` is a property that a run checks, but for `StreamInvariant` and
`StreamTypes` (the inductive invariant and the types of the stream) and
`StreamBufferBounded`. Where there are two
modules, the second extends the first. The pattern is the same
throughout: a lemma per action shows that it keeps the inductive invariant, one
lemma collects them over `Next`, and the theorem follows by temporal reasoning.
The invariants that are stated in the module itself (`InductiveInvariant`,
`EofInvariant`, `HandshakeInvariant`) were checked with TLC on the same instances
before they were proved.

**One stream.** That the receiver never sees more bytes than its window is not
inductive: it depends on bytes and credit still under way. `InductiveInvariant`
therefore adds

- `WindowsBalance`: an end's send window is what it was granted and has taken
  notice of, less what it wrote; its receive window is what it granted less the
  bytes it took;
- `FramesInOrder`: the frames under way carry the totals of their sender at the
  time they were sent, and these grow by exactly the length of each frame along
  the path;
- `HandleLife` and `ReaderWaits`: which states go with which table entries and
  channels, and where a sleeping reader is registered.

From the first two, the bytes under way never exceed the window of their
receiver (`HeadIsWelcome`), which is what `handle_data` checks; that is
`NoProtocolError`. `BufferBounded` says that receive window and buffered bytes
never exceed the configured window, so that the subtraction of
`send_window_update` does not wrap.

`EofAfterAllData` needs more: a Fin says that all was read only if no frame in
front of it is missing. `EofInvariant` says that the bytes of the frames under
way follow one another from those that were taken, and on a session that exists up
to those that were written (`NothingSkipped`, for an end that can still take them),
that a Fin stands behind the last byte of an end that writes no more (`FinIsLast`),
that an end in `RemoteClosing` has them all (`RemoteClosed`), and that the session
knows the stream until its handle is closed or gone (`SessionKnows`), so that a handle
finds its channel closed only when its session was dropped. Then each step that enters
`RemoteClosing` or `Closed` is looked at: a Fin (`RecvFrameEof`), the end of a call
that found its channel closed (`CallEndsWell`), a second shutdown (`CloseEndsWell`);
no other step enters them (`OthersEndNothing`).

**Two sessions.** Everything under way to an end is in one of several places: its
`read_pending_frames` and distribution loop, the connection, the queue of the
other session, the events of the handles there. `Pipe(e)` reads them as one
sequence, and `Lane(e, id)` says of stream `id` that its Syn comes once and first
and that its data goes on, without a gap, from the last frame delivered to the last
one sent. A step puts one item into a pipe, takes one out, moves the border
between two of its parts or cuts its end off; `YamuxSessionPipes` has a lemma for
each. Behind a GoAway nothing is claimed, because nothing there is looked at.
The remaining conjuncts are what the distribution loop needs so that putting the
frames of a blocked stream back does not let a later one overtake them (`Loop`).
With `InOrder`, what was delivered is a prefix of what was sent, so every step of
`YamuxSession` is a step of `OrderedStreams` or a stutter; `Queues` says that no
queue holds a GoAway for a protocol error.

**Keepalive.** Each entry of `pings` has its ping or its answer on the connection, of
the same age, while the peer works; none of these is older than the round trip.

**Channel.** The counter is tied to the two queues, the senders between their
increment and their push, and the receiver between pop and decrement (`Counts`).
For wake-ups, every waiting message will unpark one sender and each parked sender
is covered by one (`PopsCoverParked`), a sender is parked exactly while its handle is
in `parked_queue` (`Handles`), and what arrived after the receiver looked is still
to be signalled by whoever brought it (`Wakes`).

**Handshake.** `HandshakeInvariant` says what a frame under way proves of its
sender (`Genuine`): an Exchange bears a signature over both propositions as its
sender holds them and over the key of the exchange it chose, also when the network
changed the rest. An end that verifies it therefore knows what the other end holds,
the choices of `with_remote` mirror each other when both hold the same pair, and the
keys match (`Settled`). That the counters of the two ciphers agree with the frames
under way is counting: a direction that was never disturbed holds exactly the frames
sent and not yet taken (`NoneLost`). Cryptography is ideal in this model, and so the
theorem is about the protocol and not about the primitives.

Two things the proofs brought up concern the models. TLA+ does not say which arm
of a CASE is chosen when two guards hold; TLC takes the first one and a prover
takes none, so overlapping arms (in `ProcessFlags` and in `PriorityChannel`) were rewritten with the code's precedence. The counters in `SecureEndsAgree` were
compared with the encrypted frames under way only; the proof showed that once both
ends have keys there are no others, and the property now says so.

Only model-checked:

- the liveness properties: TLAPS does not prove statements about fairness here;
- `WindowConservation`, which adds up the lengths of the frames under way:
  that needs induction over a sequence, which is out of the prover's reach.
  `WindowsBalance` and `FramesInOrder`, which are proved, say the same with
  running totals;
- the formats (`Molecule`, `Messages`, `Multiaddr`, `FrameCodec`) and `Protocols`:
  recursive definitions, and RECURSIVE operators exclude a module from proofs;
- `DataInOrder`, `HandedOverWhole` and `ServedAsItSpeaks`: `select_version` walks
  recursively, and bytes are filtered and joined, again induction over sequences;
- `TentacleSession`, `Substream` and `Service`, whose properties count bags or
  filtered sequences for the larger part; `DialEntriesCovered` and
  `ListenersAreListed` do not, and would be the next to prove.

## What is abstracted

- Payloads are numbers: a length in `YamuxStream`, a position in `YamuxSession`,
  `TentacleSession`, `Substream` and `Connection`. Logging, metrics and error
  texts are left out.
- Two yamux sessions that meet are both of this code; a peer that does not follow
  the protocol is not modelled. The end of `poll_read` is one step, so a session
  cannot end between the copying of bytes and the window update; the hazards note
  it.
- Cryptography is ideal: a signature names its signer and what it covers, a frame
  decrypts only with its key and its counter.
- A service has secio for all of its connections or for none.
- `before_send` and `before_receive` are the identity.
- The lists of versions of a protocol are sorted, as the comment of `select_version`
  assumes.
- `AddrKnown` of discovery, a Bloom filter whose cells wear out, may find any address or
  none, but for one that alone was put in, which it finds. An address may therefore be
  announced again or not at all, and no property says otherwise.
- In `FrameCodec`, `max_frame_size` is 300. In `Molecule`, a number with a fourth
  byte is one value, since it is beyond the end of every slice.
- The limit of `httparse` on the number of headers is left out.

## Not modelled

- `upnp`: calls to a gateway, with no state but its answers.
- The runtime adapters: wrappers of tokio and async-std. The scheduler is the
  fairness of the models.
- The dialling side of the transports and the memory, browser and onion
  transports: each is a call into an external stack whose outcome `Service` leaves
  open. The QUIC stack and its certificates are external too; the identity
  extension is decoded in `Messages`.
- The text form of addresses (`Display`, `FromStr`), which puts strings together
  and takes them apart.
- The numeric part of the cryptography.
- `poll` of the protocol traits, which is the user's own loop, and a service
  handle that serves several sessions at once: `ProtocolHandle` has one session.
- `try_next` of the channel's receivers, which nothing but tests calls.
