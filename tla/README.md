# TLA+ models of xserver

This directory holds TLA+ models of the RTMFP server in `src/pkg/xserver`,
the TLC configurations that check them, and `PROJECT.json`, which records, for
every model definition, the source lines it translates, every run with the
properties it checks, the mutants that show each property can fail, the
findings, and the hazards of the code.

## 1. The system

The server accepts UDP datagrams and turns them into ordered message delivery
on *flows*, and it drives reliable retransmission back to the clients.

| Part | Source | State it owns | Operations that change state |
|---|---|---|---|
| handshake engine | `handshake/handshake.go` | none (uses cookies, registry) | Hello 0x0a (issue cookie), Hello 0x0f (rendezvous by pid), Assign (create session once per cookie) |
| handshake object pool | `handshake/handshakes.go` | LIFO free list | get, put, shrink task |
| cookie store | `cookies/cookies.go` | map value -> cookie (xid, pid, responder) | New (4 attempts), Find, Commit, 5-minute expiry loop |
| session registry | `session/sessions.go` | 256 shards of xid and pid maps, `lastxid`, 32 manage lists | Create, manage loop (Manage, then delete by xid and by pid) |
| session engine | `session/session.go` | per session: closed, keepalive counter, readers, writers, response list | HandlePacket (first packet: cookie commit, rpc.Join), handle (codes 0x01 0x41 0x4c 0x5e 0x51 0x10 0x11), Close, Manage, flush |
| flow reader | `session/flowreader.go` | stage, buffered fragments, ready fragments | AddFragments, accept, deliver, CommitAck |
| flow writer | `session/flowwriter.go` | stage, retransmission queue, back-off index and time, closed | AddFragments, CommitAck, Manage, End |
| connection / stream handlers | `session/conn.go`, `session/stream.go` | play/publish publication of a stream flow | connect, createStream, relay, play, publish, closeStream, OnClose, data fan-out |
| publication router | `session/streams.go` | sharded map name -> publication (closed, master, slaves) | newPublication, start, stop, add, remove, list |
| work-queue fabric | `async/async.go` | 32 FIFO queues, one goroutine each | Call, worker loop |
| rpc bridge | `rpc/rpc.go`, `tcp/*.go`, `server.go` | bounded channels to the TCP peer | Join, Exit, Call; dispatch of bridge broadcast, close and callback messages |
| codecs, crypto, AMF, I/O, configuration | `xio`, `rtmfp`, `amf`, `udp`, `args`, `xlog`, `counts`, `http`, `utils` | none that a protocol property is about | - |

How they interact: a UDP worker reads a datagram. Session id 0 goes to the
handshake engine. Any other id goes to `session.HandlePacket`, which takes the
session lock, decodes, and feeds each flow record to the flow's reader. The
reader hands complete messages to the connection or stream handler. Handlers
queue responses on the session; the deferred `flush` packs them into
datagrams. Work that concerns another session is never done under the first
session's lock. It is put on an `async` queue instead: publication fan-out,
relay, and the bridge's broadcasts, closes and callbacks. Each of the 32
manage loops ticks its sessions. A tick sends keepalives, closes silent
sessions, retransmits on every flow writer and deletes closed flows. Once a
session is closed, the loop removes it from both indexes.

Hard behaviours of the code:
- Flow records arrive lost, duplicated and reordered.
- Peers abandon messages, and the reader skips gaps.
- Acks can be stale.
- Retransmission is timed.
- UDP workers, manage loops and async workers interleave on shared
  registries, publications and sessions.
- Responses are batched under a size limit.
- The connection to the rpc bridge breaks, and the client drains its queue and
  reconnects, while async workers block on its channel.

## 2. Modules

### FlowReader (`FlowReader.tla`, `FlowDelivery.tla`, `MCFlowReader.tla`)

This models one flow reader (`session/flowreader.go`) and the session step that
drives it (`Session.handleFlowRequest`, `session/session.go:208`).

**Reader state.** The variables `stage`, `frags` and `ready` are the reader's
fields. `fr.frags` is a list that `AddFragments` keeps sorted by stage and free
of duplicates, so it is represented by the set of its fragments. Payloads are
abstracted to the stage that carries them, so a delivered message is the
sequence of its stages. `closed` records the handler's `OnClose`, and
`delivered` is the history of messages handed to `handleMessage`. `lastAck` is
the last flow ack the reader sent.

**The step.** The reader's algorithm is written as operators on a record of
the reader's fields: `Accept`, `Deliver`, `Merge`, `DrainUpTo`, `DrainNext`,
`DeceptiveStageack`, `Insert`, `AddFragments`, `AckRanges` and `CommitAck`.
One `Receive(rec)` step applies `AddFragments` and then `CommitAck`. The code
runs both under the session lock, so the step is atomic.

**The client and the network.** The client is the environment. `ClientSend`
emits its next stage. `ClientAbandon` gives up a message of a partially
reliable flow. `ClientAdvance` raises the stageack it writes into records, and
only over stages that the reader's acks reported or that the client abandoned.
`ReceiveAny` lets any record the client could have sent arrive at any time:
consecutive fragments `a..b` of at most `MaxSlices` slices, an allowed
stageack, and abandoned variants. This models a network that loses,
duplicates and reorders packets.

**Abstract specification.** `FlowDelivery` is what a flow promises its
handler:
- messages are delivered in increasing order, each at most once;
- a message is passed over only if the client abandoned it, or at any time
  when the flow is lossy (deceptive ack);
- the flow closes once.

`MCFlowReader` maps the reader onto it and checks `DeliverySpec` as a
PROPERTY.

**Bounds.** Messages of sizes `<<1, 2, 1>>` give stages 1..5, including the
closing fragment. At most 2 fragments travel per record, and message 2 may be
abandoned. These bounds cover the interesting cases:
- a multi-fragment message split across records, arriving reversed or
  duplicated;
- an abandoned message in the middle of the flow;
- gaps that make ack ranges;
- a record that carries message 3's single fragment (stage 4) together with
  the End fragment (stage 5), which the deceptive loop also counts as solo.

**Fairness.** The code has no timer of its own on the reader side. What makes
progress is the client's flow writer re-sending every stage it has not seen
acknowledged, together with a network that delivers some copy eventually.
`FairSpec` therefore assumes weak fairness of `ClientSend` and of
`Retransmit(s)` for each stage `s`: the record carrying `s` alone with the
client's current stageack. It assumes nothing about `ClientAdvance` or
`ClientAbandon`.

| Run | Checks | Result |
|---|---|---|
| `flowreader` (`MCFlowReader.cfg`) | `TypeOK`, `MessageIntegrity` (every delivered message is a whole client message, fragments in order), `AckEncodable` (each ack range starts at least two past the previous end, as `storeFlowAck` needs), `DeliverySpec` (refinement of `FlowDelivery`), `Completion` (the flow is eventually closed) | pass: 616 states |
| `flowreader_deceptive` (`MCFlowReader_deceptive.cfg`) | `ReceivedNotDropped` with `Deceptive = TRUE` | violation: see findings |

**Finding.** In deceptive-ack mode, `AddFragments` first raises `stageack` to
`f.stage - 1` for the *last* solo fragment of the record
(`flowreader.go:66`). The End fragment counts as solo there. The insertion
loop then drops every earlier solo fragment of the same record as already
received. `MsgSizes` is `<<1, 2, 1>>`, so message 1 is stage 1, message 2 is
stages 2-3, message 3 is stage 4, and End is stage 5. TLC's trace (8
states):
1. The reader receives stage 1 and delivers message 1.
2. The client sends stages 2 to 5.
3. One record carrying stages 4 and 5 arrives while stages 2 and 3 are still
   missing.
4. The End fragment raises `stageack` to 4, so stage 4 is dropped as already
   received.
5. The stage jumps to 5 and the flow closes. Message 3, which the reader had
   in hand, is never delivered.

**Mutants.** Each property is shown to fail under one plausible bug:

| Property | Mutant |
|---|---|
| `TypeOK` | ack ranges extended with beg and end swapped |
| `AckEncodable` | consecutive stages not merged into one range |
| `MessageIntegrity` | `merge` without its with-before/with-after check |
| `DeliverySpec` | the deceptive raise applied to every handler |
| `Completion` | the final drain loop accepting only one fragment |

### FlowWriter (`FlowWriter.tla`)

This models the sending half of a flow (`session/flowwriter.go`), driven by its
callers, by the session's manage tick and by the peer's acks. It is checked
inside `MainFlow` (below), where its callers are the code's.

**State.** `stage`, `frags`, `idx` and `closed` are the writer's fields.
`mage` is `now - manage.lasttime`. Each retained fragment carries its `age`,
which is `now - sendtime`.

**Time.** Time advances in `Tick` steps of 100 ms, so the code's guard
`sendtime < now - 100 ms` becomes `age > 1`. The back-off test
`lasttime < now - retrans[idx]` becomes `mage > Retrans[idx+1]`. Every
comparison is against a threshold of at most `Max(Retrans)` ticks, so ages
are capped at `Max(Retrans)+1` and no case is lost. `Init` sets `mage` to
the cap, because `newFlowWriter` sets `lasttime = 0`.

**Actions.**
- `AddFragments(reliable, n)` sends a message of `n` fragments. All of them
  carry the same stageack: `fw.stage` if the queue is empty, else the stage
  before the oldest retained fragment. Like the code, it does not test
  `closed`: `FlowWriter`'s own `Next` leaves that to its callers, and
  `MainFlow` checks that the main flow's callers keep to it (`EndIsLast`).
- `CommitAck(ack)` models the whole handler:
  - pop what the ack's stage covers;
  - reset the back-off;
  - remove what the ranges cover;
  - resend every remaining fragment older than 100 ms.

  `parseFlowAck` always builds ascending, disjoint ranges, and for such
  ranges the code's list walk removes exactly the stages in their union. An
  ack is therefore a stage and the set of stages it selects.
- `Manage` is the back-off step.
- `End` is the handlers' `OnClose`.

**The peer and the network.** The peer is an abstract reader. It skips to
each record's stageack, keeps new stages, advances over consecutive ones and
answers every record with an ack. Records and acks stay in the network after
delivery, which models duplication; `LoseRecord` and `LoseAck` drop them.

**Fairness.** `FairSpec` assumes weak fairness of `Tick` and of `Manage`: the
manage loop calls `Manage` on every writer every 500 ms. It assumes strong
fairness of receiving some copy of each stage and some ack of each level. That
is a fair-lossy network: what is sent again and again eventually gets through.
The writer's own resends are what make those receptions enabled infinitely
often.

**Bounds.** The `flowwriter` run (in `MainFlow`) uses 2 data stages plus the end stage,
messages of up to 2 fragments and the schedule `<<2, 3>>` (200 ms, 300 ms).
That is enough for:
- a lost first fragment behind a received second one;
- stale and reordered acks;
- a resend by both `CommitAck` and `Manage`;
- the back-off index reaching the end of the schedule.

The safety part alone was also explored with 3 data stages: 1.16 M states,
no error.

**Early resend (not a property).** `manage.lasttime` starts at 0
(`flowwriter.go:31-41`), and `AddFragments` never resets it. The first
`Manage` tick after a send on a fresh writer (or on one idle since its last
ack) is therefore already due. It resends the newest fragment as soon as that
fragment is 100 ms old, where the spec says no earlier than `retrans[0]`. The
model keeps this behaviour, and the two properties above hold with it: the
early resend costs a datagram and loses nothing.

### MainFlow (`MainFlow.tla`, `MCMainFlow.tla`)

This models one session's main flow with every caller that writes to it:
- the connection handler's commands (`session/conn.go`);
- the closures on the async groups (`async/async.go`) that the relay of a
  session, the bridge's answers (`Callback`), its pushes (`RecvPull`,
  `BroadcastByXid`) and its close requests (`CloseAll`) queue
  (`session/session.go`);
- the session's own close.

The writer, the peer and the network are those of `FlowWriter`, taken by
`FW == INSTANCE FlowWriter`.

**State.** `sclosed` is `s.closed`; `hasMain` is `s.mainfw != nil`;
`addrchgi` is the handler's flag. `aq` holds the async groups' queues of
closures. `nrelay` numbers each sender's relays, and `relays` records, in
order, the relays added to the flow. `Session.Close` sets `s.closed` and,
through the handler's `OnClose`, `fw.closed` in one locked step, so the
writer's `closed` stands for both once the main flow exists.

**Actions.**
- `OpenMain` is `getFlowReader`'s creation of the main flow and its handler.
- `Close` (timeout, close packet, the client's end of the main flow) runs
  `CloseSession`: `Session.Close` with the handler's `OnClose`, which ends
  the writer if the main flow exists (`FlowWriter`'s `End`). The caller's
  deferred `flush` then sends the end fragment.
- `RunClose` is the `CloseAll` closure. It makes the same state change but
  only queues the end fragment (`EndQueued`). Nothing flushes the session
  after it: the closure has no `flush`, and `Manage` returns on `s.closed`
  before it registers its own (`session.go:274-278`). A client whose session
  the bridge closes never receives the end fragment or the error response.
  TLC reaches this state, a closed writer with no end record on the network.
- `Connect`, `SetPeerInfo`, `CreateStream`, `AddressChange` (only once
  `SetAddressChangeInform` set `addrchgi`), `CallFailed` and
  `SetBufferTime` answer at once with `Respond`. The handler refuses every
  command once `fw.closed` (`Handling`). Answer contents, `s.addrs` and the
  stream id counter are data and are left out.
- `Relay(y, n, q)` queues the relay of session `y` on group `y % NumQueues`.
  `Callback`, `RecvPull` and `BroadcastByXid` queue theirs on any group, as
  `time.Now().UnixNano()` picks it.
- `Worker(q)` runs the closure at the head of group `q`. A write closure adds
  its message only if `Accepts` holds under the lock: the session is not
  closed and has a main flow. A close closure closes the session unless it
  already is.

Callers pledge their stages when they issue a message, up to `MaxStage`. So
the writer's bound never holds back a write the code would make, and a
write after the end stage would still be taken and seen.

**Fairness.** Each async group has its own goroutine: weak fairness of each
`Worker(q)`. `Session.Manage` ticks only open sessions, so `Tick` stops once
the writer is closed. Receptions are strongly fair for the data stages and
their ack levels, as in `FlowWriter`. Nothing is assumed of the end record,
which is sent once and never again.

**Bounds.** As `FlowWriter`'s, with 2 async groups and this session
relaying to itself (xid 1). A second relaying session doubles the state
space (721 329 states without liveness); with liveness that is beyond five
minutes.

| Run | Checks | Result |
|---|---|---|
| `flowwriter` (`MCMainFlow.cfg`) | `TypeOK`; `ReliableNotLost` (while the writer is open, a reliable stage is in the queue or at the peer, and the peer never skips it); `RelaysInOrder` (one sender's relays reach the flow in order and without a gap); `EndIsLast` (no stage is issued after the end fragment); `EventuallyAcked` (again and again the writer's queue is empty or it is closed) | pass: 363 425 states, 1.5 to 3 min |

`EndIsLast` is a property of the callers. `AddFragments` does not test
`fw.closed`, and a closure queued while the session was open may run after
it closed. Only its `s.closed` test, made under the lock when it runs, keeps
it off the ended flow.

`EventuallyAcked` is `[]<>(frags = <<>> \/ closed)`. Callers add finitely
many stages, and a dropped stage is never retained again, so this is
`FlowWriter`'s per-stage leads-to for every stage at once. It is checked in
one temporal branch instead of one per stage.

**Mutants.**

| Property | Mutant |
|---|---|
| `TypeOK` | the back-off index bumped past the schedule's end |
| `ReliableNotLost` | `CommitAck`'s cumulative pop runs one stage past the ack |
| `EventuallyAcked` | `Manage`'s 100 ms guard inverted |
| `EndIsLast` | a closure that does not test `s.closed` |
| `RelaysInOrder` | the relay closure queued on a group picked by the clock |

### Sessions (`Sessions.tla`, `MCSessions.tla`)

This models the registry and the life of a session:
- `Hello` is `cookies.New` for hello mode 0x0a.
- `Assign(c)` is `handleAssign` up to `addSessionByXid`: it looks up and locks
  the cookie, checks `cookie.Xid`, and runs `Create`'s xid loop
  (`XidScan`, recursive).
- `CreateDone(s)` is the rest of `Create` and of `handleAssign`:
  `addSessionByPid`, the fresh list, and `cookie.Xid`.
- `Packet(s, closes)` is `HandlePacket` from the session's client:
  - the first packet commits the cookie and sends `rpc.Join`;
  - the keepalive count is reset;
  - 0x4c (or an unknown code) closes the session.
- `ManageTick(s)` is `Session.Manage`'s session part.
- `DelXid(s)` and `DelPid(s)` are the manage loop's two deletions.
- `Expire(c)` is the cookie expiry loop.
- `Worker(q)` is an async worker, which hands rpc messages to the bridge.

**Atomicity.** Each action is one critical section of the code:
- the session lock;
- one bucket lock;
- `sessions.Lock`, held by `Create` across its two steps, which the
  `Creating` guard stands for;
- one queue.

That is why `Create` is split between `addSessionByXid` and
`addSessionByPid`, and why the two deletions of the manage loop are separate
steps.

**Model choices.** Sessions and cookies are numbered in creation order. Xids
are taken modulo `XidMod`, with 0 skipped, as `Create`'s `uint32` loop does.
`due` stands for "heartbeat seconds passed since `manage.lasttime`", and
`Elapse` sets it.

**Fairness.** `FairSpec` makes the server's own threads weakly fair: a
`Create` in progress finishes, the manage loops tick and finish their
deletions, the clock runs, and the async workers drain their queues. Clients
are not fair. Each client is bounded by `MaxPackets`, so it eventually goes
silent.

**Bounds.** `MCSessions` uses one pid, so that a client reconnects over its
own old session. It uses 3 cookies and 3 sessions, 2 xids (so the xid space
wraps and fills), 2 async queues, 1 keepalive before the timeout and 1 packet
per session. That packet may be the one that closes the session.

| Run | Checks | Result |
|---|---|---|
| `sessions` (`MCSessions.cfg`) | `TypeOK`; `XidIndexed` (from the start of `Create` until its deletion, a session is what `FindByXid` returns for its xid, across wrap-around and reuse); `AssignOnce` (a cookie makes at most one session, however often Assign is repeated); `RpcOrdered` (per session the bridge sees join before exit, each at most once); `Retired` (every session is eventually closed, removed from both indexes and reported with exit) | pass: 685 676 states, about 2 min |
| `sessions_pid` (`MCSessions_pid.cfg`) | `PidIndexed` (the spec's "a live session is registered in the pid index": `FindByPid` finds a live session for every pid that has one) | violation |

**Finding.** The manage loop removes a retired session with
`delSessionByPid(s.pid)` (`sessions.go:60`). That deletes whatever the pid
now maps to. A client that reconnected has a new session, which
`addSessionByPid` registered over the old entry. When the old session is
deleted, the new, live session disappears from the pid index, and rendezvous
(hello 0x0f) and relay lookups for it fail. TLC's trace is 11 states: two
sessions of one pid, and the first closes and is deleted after the second
registered.

**Mutants.**

| Property | Mutant |
|---|---|
| `TypeOK` | one keepalive too many before the timeout (`cnt <= max`) |
| `XidIndexed` | the xid loop takes the next xid without looking it up |
| `AssignOnce` | Assign without the `cookie.Xid` check |
| `RpcOrdered` | the exit queued on another async group than the join |
| `Retired` | Manage without its early return for a closed session |

### Flush (`Flush.tla`, `MCFlush.tla`)

`Session.flush` (`session/session.go`) packs the queue of responses
(`rsplist`) that the handlers fill with `Session.send` into packets. It takes
the `SetLastInfo` size of each response (`session/response.go`) and closes a
packet once the sizes pass 1320 bytes. It writes a flow message without its
header when the message continues the previous one (same fid, next stage).
The model abstracts a response to its kind, flow id, stage, data length and
whether it carries the flow signature. Every varint stays one byte, and its
size is computed with `Codec!SizeOf7BitValue64`.

| Code | Model |
|---|---|
| `Session.flush`, the pack loop | `Pack` / `PackLoop` (a pure operator over the queue) and the action `Flush` |
| `flowResponse.SetLastInfo`, `flowAckResponse.SetLastInfo`, the others | `FlowSetLastInfo`, `FlowAckSetLastInfo`, `SetLastInfo`; header elision `Header` |
| `WriteTo` of each response, `PacketToBytes`, `EncodePacket` | `FlowWriteTo`, `FlowAckWriteTo`, `WriteTo`, `Payload`, `Datagram` |
| handlers that queue: flow writer new data and resends, acks, keepalive, handshake answer, error | `FlowNew`, `FlowResend`, `WriterAck`, `Ack`, `KeepAlive`, `Handshake`, `Error`, inside a handler (`Begin`) that ends in `Flush` |

Deadlock is not checked: a closed session takes no more handlers.

| Run | Checks | Result |
|---|---|---|
| `flush` | `TypeOK`; `FlushDeliversQueue` (every flush sends each queued response once, in order, in non-empty packets, and the peer, which reads a headerless 0x11 as the flow and next stage of the message before it, recovers every flow and stage); `OverLimitOnlyUncounted` (a packet of several messages holds at most 1320 bytes, apart from the bytes `SetLastInfo` leaves out: ack bodies and handshake answers) | pass: 1 322 705 states, about 2 min |
| `flush_mtu` | `PacketsFitMTU` (every datagram a HandlePacket flush builds fits the 1400 bytes `udp.Send` accepts) | violation |

**Finding.** `flowAckResponse.SetLastInfo` (`response.go:222`) adds the ack
size only when `flowAck.Size` fails (`err != nil`), so flush counts an ack as
2 bytes. Four 256-byte flow messages and three 120-byte acks go into one
packet, which makes a datagram of more than 1400 bytes. `udp.Send` drops it,
and the acks with it.

**Bounds.** There are two writers, one of three stages and one of two, and
at most five queued responses. All fragments are 256 bytes and acks are
120 bytes. With the signature on first stages, five responses are enough to
pass 1320 bytes and split a packet. The two writers interleave, so header
elision is reset between them.

**Mutants:** `PackLoop` keeps `last` across a packet break
(`FlushDeliversQueue`); `Header` ignores the fid (`FlushDeliversQueue`);
`FlowSetLastInfo` omits the signature (`OverLimitOnlyUncounted`);
`FlowResend` resends a stage not yet sent (`TypeOK`).

### Publications (`Publications.tla`, `MCPublications.tla`)

This module models the publication router (`session/streams.go`) and the
stream handler's commands (`session/stream.go`): `play`, `publish`,
`closeStream`, `OnClose`, and a publisher's data. Each command runs under its
session's lock. `newPublication`, `start`/`add`, `remove` and `stop` take only
the bucket or publication lock, so `onPlay` and `onPublish` are two actions,
`Begin` (up to `newPublication`) and `PlayEnd`/`PublishEnd`. Between them,
the other session runs. The fan-out closures go onto the async queue of the
publication (`p.gid % 32`). The workers run them one subscriber call at a
time (`WorkerStart`, `WorkerCall`). `recv` is a history of the calls that
reached each handler.

| Run | Checks | Result |
|---|---|---|
| `publications` | `TypeOK`; `FanOutOrdered` (a player gets a publication's data in order, each message at most once); `NotificationsFrame` (nothing of a publication comes before its publish notification or after its unpublish notification); `SinglePublisher` (never two publishers of the name) | pass: 811 537 states, 12 s |
| `publications_badname` | `BadNameOnlyWhenTaken` (BadName only when someone else publishes the name) | violation |
| `publications_drop` | `DataReachesPlayers` (once the queues are idle, a player still playing has received every message sent after it started) | violation |

**Findings.**
- `onPublish` (`stream.go:188`) takes a publication from `newPublication`
  and calls `start` under a different lock. A player's `remove` in between
  closes the publication, so the publisher gets `NetStream.Publish.BadName`
  for a name nobody publishes.
- The data closure (`stream.go:141`) fans out only if the publication is
  still open. Data the publisher sent just before it stopped is queued and
  then dropped for every player. `spec.md` §4.9 says that received data is
  enqueued to every subscriber.

**Bounds and symmetry.** There are two handlers, which covers publisher and
player, two publishers, or two players. There are at most two publication
objects for the one name, so the name is published, released and published
again. There are two data messages and two async queues, so the two
publications may land on different queues. The handlers are symmetric model
values. Deadlock is not checked: all handlers may close and the queues
drain.

**Mutants:** `Begin` always creates a new publication (`TypeOK`); `Data`
uses one queue per message instead of per publication (`FanOutOrdered`);
`Disengage` sends the unpublish notification to the wrong queue
(`NotificationsFrame`); `Disengage` ignores the master (`SinglePublisher`).

### Codec (`Codec.tla`, `Frame.tla`, `Amf0.tla`, `Amf3.tla`, `HandshakeWire.tla`, `CodecCheck.tla`, `MCCodecCheck.tla`)

These modules are pure operators, checked against reference definitions
over bounded inputs.

- **`Codec`**: the 7-bit varints of `xio` (`Write7BitValue32/64`,
  `Read7BitValue*`, `SizeOf7BitValue*`) and the flow ack (`flowAck` store,
  `Size`, and the range parse).
- **`Frame`**:
  - `PacketToBytes` and `EncodePacket`: header slot, marker, times,
    messages, 0xff padding, checksum, and the id mask;
  - `PacketXid`, the checksum test, and the message loop of
    `Session.handle`;
  - the RPC bridge frames `writeData`/`readData`.
  - The AES cipher is left out. The receiver decrypts the same bytes the
    sender encrypted.
- **`Amf0`**:
  - the AMF0 writer and reader for null, boolean, number, string and
    object;
  - `handleMessage`/`handleAmfMessage`, and `newAmfMessageWriter` and
    `newAmfBytesWriter`;
  - `split`.
  - Numbers are the naturals below 2^21, with their IEEE-754 bytes
    computed exactly.
  - An object is a function. Go map order is random, so `Encodings` gives
    the set of all encodings, one per field order.
- **`Amf3`**: the AMF3 codec, reached from AMF0 through the 0x11 switch.
  - Reader: `amf3.Reader.Read` with its three tables, and `amf0.Reader.Read`'s
    0x11 case (`ReadSwitched`).
    - One amf3 reader lives as long as its amf0 reader, so the tables persist
      across the values of a message. The model threads `tb` through
      `ReadSwitched` for this reason.
    - An object enters the table before its fields are read, so it can
      contain itself. `ReadBody` writes each field into `tb.obj[oi]`, and the
      result is `Ptr(oi-1)`, an index into the returned heap.
    - Traits (class name and field names) are read inline or by reference.
      Class and field names count as strings in the string table. An empty
      string is never added to that table.
    - `amf.Object.Set` refuses a `*time.Time`, so an object with a date
      field fails to read.
  - Writer: `amf3.Writer.Write` and `amf0.Writer.Write3` (`WriteSwitched`).
    - The object table is keyed by object identity (`ObjectIndex` over the
      heap ids).
    - A date is given the table slot `NilRef`, as `WriteDate` appends `nil`.
    - Field order is Go map order, so `Keys` picks one order with `CHOOSE`.
  - Integers are `Integer(x)` with the 29-bit range `MinInt..MaxInt`, and
    `U29` and `ReadU29` are the `xio` varints at width 4.
- **`HandshakeWire`**:
  - `Handshake.handle`'s framing, `parseHelloRequest` and
    `parseAssignRequest`;
  - the 0x70 and 0x78 answers, in the 0x0b packet.
  - SHA-256 is `Digest`, which is collision-free by construction.
  - The certificate's random bytes are fixed, because nothing reads them.

`CodecCheck` has one variable per kind of input. `Init` picks one input, and
the invariants compare the operators with reference definitions:

| Invariant | What it checks |
|---|---|
| `VarintRoundTrip`, `VarintSize` | every value up to 300, and the values next to each width boundary, at widths 1, 2, 3 and 7, read back, stop at the right byte, and are sized by `SizeOf` |
| `AckRoundTrip`, `AckSizeExact` | every ack the reader can build from stages 0..3 and up to six buffered stages is stored, parsed back unchanged, and sized exactly |
| `PacketRoundTrip`, `ChecksumIsOnesComplement` | a packet of up to two messages, with or without echo time, is read back through `PacketXid`, the checksum test and the message loop; the checksum is the Internet checksum on every 6-byte buffer over {0, 1, 255} |
| `TcpRoundTrip` | bridge frames read back in order; cut or corrupted frames are refused |
| `AmfRoundTrip` | every encoding of a value reads back as the value without empty-named fields, ending right after it |
| `MessageRoundTrip` | a call (0x14), a data message (0x0f) and a relayed call (0x11) decode to the name, callback and argument written |
| `SplitJoins` | `split` of 0..513 bytes makes the fewest pieces of at most 256 bytes, which join back to the data |
| `Amf3ReaderDecodesFormat` | every in-format sequence of up to three AMF3 values over two heaps, encoded once fully inline and once with every string and traits reference the format allows, reads back as those values, with the object heap numbered as the format numbers it |
| `Amf3WriterEncodesFormat` | whenever the amf3 writer returns `ok` (objects of the anonymous class only), its bytes are the inline encoding of the reference definition |
| `HelloExchange`, `AssignExchange` | a client's hello and assign are parsed with every field intact, every truncated request is refused, and the answers read back as laid out |

The AMF3 inputs (`MCAmf3Values`, `MCAmf3Heaps`) contain integers at each U29
width boundary and at both ends of the 29-bit range, one past it, empty and
non-empty strings and byte arrays, a date, and two heaps. In the first, one
object holds another under the empty field name. In the second, every object
has class `"A"` and field `"c"`, and one object holds itself. Three values are
enough to repeat an object, a class and a name after its first use. The
reference encoder `RefEncode` is written from the AMF3 format, not from the
reader.

The `codec` run passes with 19 293 states in about 20 seconds. Its mutants are
one per invariant: for example, the checksum folds its carry once, the
padding is one byte short, the bridge length is read one byte early, the
writer emits the empty field name, a 0x14 skips five bytes, `split` rounds
down, the hello length omits its decrement, and the assign parser consumes
the pid source. For AMF3, the reader adds the empty string to its string
table, and the writer gives a date no table slot.

**AMF3 writer never returns for a non-empty string.** `writeStringValue`
(`amf3/writer.go:134`) writes the body with `w.WriteString(s)`. That is
`amf3.Writer`'s own `WriteString`, which writes the marker and calls
`writeStringValue` again. The model gives such a write the status `"loop"`.
It covers both a string value and any object with a field, since field names
are written the same way. `spec.md` leaves this as an open question. No server
code calls `Write3`, so nothing reaches it today. With the run count at its
limit, this is reported here and as a component note rather than as a
violation run. `Amf3WriterEncodesFormat` says what the writer does whenever it
returns.

**Unbounded allocation in the AMF3 reader.** `readStringValue` (line 226)
and `readByteArrayValue` (line 382) allocate `v>>1` bytes, up to 256 MiB,
before they check that the packet holds them. A peer can trigger this with
five bytes. The model reads from a sequence and has no allocation, so no
property covers it.

**Divergence from the spec.** `parseAssignRequest`
(`handshake/request.go:80`) hashes the pid source without consuming it, and
then reads the key length from the start of that same source. The request is
accepted only when the pid source *is* the key block (key length varint, two
bytes, key). `spec.md` describes a pid source followed by the key length.
`AssignExchange` builds requests the way the code reads them. A client that
follows the spec's layout literally is refused, or is hashed to another pid.
This is listed as a hazard rather than a violation run.

### Bridge (`Bridge.tla`, `MCBridge.tla`)

This models the path between the sessions and the external rpc bridge, with
the connection breaking under it.

**Actions.**
- `Join(x)`, `Call(x)` and `Close(x)` are the session's side of it:
  - `Join(x)`: `HandlePacket`'s first packet issues `rpc.Join`;
  - `Call(x)`: `onRequest` and `onProxySend` issue `rpc.Call`;
  - `Close(x)`: `Session.Close` (`CloseSession`, reached through `Manage`'s
    timeout) issues `rpc.Exit`.
- `Issue` is `rpc.Join`, `rpc.Call` and `rpc.Exit`. Each queues a closure on
  the async group of the session's xid (`Enqueue` is `async.Call`).
- `Worker(q)` runs the head closure of group `q`. There are three kinds:
  - `RunSend` is `clt.Send`. It blocks while the send channel is full
    (`ChanHasRoom`).
  - `RunCallback` is `Callback`'s closure: unless the session is closed, it
    adds the answer to the session's main flow.
  - `RunCloseAll` is `CloseAll`'s closure: it calls `Session.Close`.
- The tcp client's main loop is in `cphase`:
  - `Dial` and `DialFail` are `net.DialTCP`;
  - `Fail(onWrite)` is `raise`, on an error of the recver, or of the sender's
    write when `onWrite` holds. The connection's in-flight requests and
    answers are lost;
  - `Backoff` is one iteration of the 50 × 100 ms loop, which drops
    everything in the send channel.
- The client's goroutines:
  - `SenderSend` is the sender's write;
  - a sender of a broken connection may still be in its select (`stale`).
    `StaleSend` is its select taking a request after `sig` was closed, whose
    write then fails. `StaleExit` is its return.
- The answers' path back is in three steps:
  - `RecvFrame` is the recver, pushing into `c.recv`;
  - `Dispatch(q)` is `server.go`'s loop calling `Callback`, which queues on
    the group of `time.Now().UnixNano()`, so any group;
  - `SRecvFrame`, `SFail` and `SDispatch(q)` are the tcp server's recver, a
    broken accepted connection, and the loop calling `CloseAll`.
- `BridgeRead`, `BridgeAnswer` and `BridgeClose` are the bridge itself. It
  reads requests, answers calls on the current connection, and asks for a
  session to be closed.

Histories record what the bridge heard per session (`heard`), the answers it
wrote (`answered`) and applied (`applied`), and what was lost or discarded.

**Fairness.** Every goroutine of the code is weakly fair:
- the dial and the back-off timer;
- the sender and recver, and a stale sender's return;
- the two dispatch loops;
- the bridge's reads.

The async workers are strongly fair, because a worker blocked on the full
channel is woken in FIFO order by Go's channel. The sessions, the bridge's
answers and closes, and the failures are not fair. `MaxFails` bounds the
failures (dial, client and server connection together), which stands for a
bridge that is eventually reachable for good. The model may stop once every
session is closed and every queue is empty, as the server then waits idle, so
deadlock is not checked.

**Bounds.** The run uses:
- one session (xid 1) with two calls: join, call, call, exit;
- 2 async groups, so that answers and closes land on the session's own group
  or another;
- both channels at capacity 1;
- 2 back-off ticks and 2 failures.

That is enough for:
- a worker blocked on the full channel;
- a drain racing a send;
- a failure during the back-off's dial;
- a stale sender alive while the next connection's sender starts.

With two sessions (1 call each, 1 failure, 1 tick), the safety part is 2.3 M
states, and it passes too. Liveness at that size is out of reach in minutes.

| Run | Checks | Result |
|---|---|---|
| `bridge` (`MCBridge.cfg`) | `TypeOK`; `RequestsInOrder` (the bridge reads each session's requests in the order they were issued, each at most once, across failures, drains and stale senders); `Settled` (every request issued reaches the bridge or is dropped by a failure or the drain, and every answer is applied, discarded for a closed session or lost with its connection: no worker stays blocked and no goroutine waits forever) | pass: 109 045 states, 45 s |

**Mutants.**

| Property | Mutant |
|---|---|
| `TypeOK` | `Send` does not block until the channel is past its capacity |
| `RequestsInOrder` | `rpc.Exit` queued on another group than the session's |
| `Settled` | the sender's empty-data test inverted, so that it skips every request |

**Observed, not a run.** `Callback` (`session.go:398`) queues its closure by
`time.Now().UnixNano()`, not by the session's xid. Two answers for one
session can therefore reach its main flow in the opposite order to the one in
which the bridge wrote them. This is among the model's behaviours. spec.md
(line 218) says the work queues serialize RPC callbacks per key; the code
does not. `RecvPull` and `BroadcastByXid` do the same; `MainFlow` queues
all three on any group.

## 3. Summary of runs

| Run | Expect | States |
|---|---|---|
| `flowreader` | pass | 616 |
| `flowreader_deceptive` | violation | |
| `flowwriter` | pass | 363 425 |
| `flush` | pass | 1 322 705 |
| `flush_mtu` | violation | |
| `sessions` | pass | 685 676 |
| `sessions_pid` | violation | |
| `publications` | pass | 811 537 |
| `publications_badname` | violation | |
| `publications_drop` | violation | |
| `codec` | pass | 19 293 |
| `bridge` | pass | 109 045 |

Every property of a passing run has a mutant in `PROJECT.json` that TLC
finds violating it.

## 4. Not modelled

- **Connection commands without an effect here**: `initStream` and
  `deleteStream` do nothing. `request` and `proxySend` are `rpc.Call`
  (modelled in `Bridge`). `broadcastBySessionId` is `BroadcastByXid`,
  modelled on the flow it writes to. The answers' contents (AMF objects,
  addresses, the stream id from `lastsid`) are data no property reads.
- **Parts of the bridge path**:
  - the protobuf encoding of requests and answers;
  - a listen failure of the tcp server;
  - more than one session under liveness, which is out of TLC's reach in
    minutes.
- **Rendezvous**: the hello with a peer id (0x0f) and the application
  check in `handshake.go`. The handshake object pool is also left out.
- **AMF0 dates and references**, and the typed entry points of
  `amf3.Reader` (`ReadNull` ... `ReadByteArray`, `TestNull`). Nothing in the
  server calls them.
- **Cryptography**: AES, Diffie-Hellman key agreement, HMAC. The model
  keeps only the byte layout around them.
- **The udp transport, configuration, logging, counters and the http
  status page**: these are pure I/O or have no state that interacts.

## 5. Plan for later sittings

1. **Stream handler**: the `stream.go` commands as actions over the
   session's stream flows, composed with `Publications`.
2. **Flow table**: `Session.Manage`'s deletion of closed flows and
   `getFlowReader`'s stream flows.
3. **Rendezvous and the application check** of the hello, against the
   session registry of `Sessions`.
4. **Callback ordering**: a run stating the spec's per-key order of
   answers (`session.go:398`), which `Bridge` shows the code does not keep.
5. **An abstract flow channel**: shown to be refined by
   `FlowWriter` ∘ `FlowReader` over a lossy network.
