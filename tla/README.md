# TLA+ models of qp2p

TLA+ models of the qp2p peer-to-peer messaging library over QUIC
(`src/src/connection.rs`, `src/src/connection_handle.rs`) and of its example
node (`src/examples/p2p_node.rs`). They are checked
with TLC. This document lists the system's parts, the models and their runs,
and what is still left to model.

## 1. Inventory

The repository's `src/` holds four files. `lib.rs` declares the crate's
modules. The modules `wire_msg`, `connection_pool`, `endpoint`, `config` and
`error` are not part of `src/`. Where the models need them, they are modelled
from `spec.md` and marked `spec_modelled` in `PROJECT.json`.
`connection_handle.rs` is written against a different version of
`connection.rs`: it calls `Connection::new` with three arguments and
`ConnectionIncoming::next`. The models follow what each file does.

### Components

| Component | Source | State | Operations | Interacts with |
|---|---|---|---|---|
| Connection (send side) | connection.rs 31-224 | quinn connection, default retry config, `waiting_pseudo_bi_streams` (shared `token -> mpsc::Sender`), `_alive_tx` | `send`, `send_with` (retry), `send_uni`, `open_uni`, `open_bi`, `open_pseudo_bi`, `close` | quinn streams; the table shared with its own uni listener |
| SendStream / RecvStream | connection.rs 235-318 | a quinn stream | `set_priority`, `send_user_msg`, `finish`, `send_wire_msg`; `next` (skips `PseudoBiStreamResp` frames), `next_wire_msg` | wire codec |
| ConnectionIncoming and the listeners | connection.rs 320-695, 808-835 | bounded mpsc queue (10 000), alive watch channel | `next_stream`; `listen_on_uni_streams`, `listen_on_bi_streams` (one concurrent task per stream, cancelled when all alive senders drop), `FilterBenignClose` | inbound queue, pending table, endpoint handlers |
| Pseudo-bi handshake | connection.rs 167-195, 471-485, 529-597 | the pending table, one-slot channels | opener: open, insert, write Req, await; acceptor: open reverse, write Resp, read to the first UserMsg; Resp handler: look up and hand over | both ends' uni listeners |
| Endpoint protocol handlers | connection.rs 697-806 | per bi-stream loop | echo reply, verification (dial, bi-stream, EchoReq, expect EchoResp, 30 s timeout, always reply) | quinn endpoint (new connection) |
| ConnectionHandle | connection_handle.rs 24-107 | `Connection`, retry config, pool remover | `send`, `send_with`, `open_bi`; every error calls `remover.remove()` | connection pool |
| Endpoint incoming listeners | connection_handle.rs 109-181 | accept loop, per-connection message loop | insert the inbound connection in the pool, emit it, forward each message, remove it from the pool on end | pool, application channels |
| Connection pool (not in src/) | spec 4.6 | `id -> (connection, generation)` | `get_or_dial` (deduplicated), `insert`, `remove` (generation-checked, idempotent) | handles, endpoint |
| Retry policy (not in src/) | spec 4.2, connection.rs 115-135 | configuration only | `retry(op)`: transient errors are retried, `ConnectionLost` is permanent | send path |
| Wire codec (not in src/) | spec 6.2 | none | `write_to_stream`, `read_from_stream` | every stream |
| Example node | examples/p2p_node.rs | main's dial loop, its current connection | dial and send "marco" to each argument; for each incoming connection, read its messages and answer "marco" with "polo" | endpoint (incoming connections and messages) |
| Endpoint facade, config, TLS, IGD | not in src/ or out of scope | | | |

### What is hard

- **Concurrency.** Both listeners run one task per stream
  (`try_for_each_concurrent(None, ..)`). Pseudo-bi opens from both ends run
  concurrently with each other and with the listeners. They share the pending
  table.
- **Failure.** The connection can be lost at any await: close, idle timeout
  or peer close. A write can fail after a table entry was inserted. A read can
  fail mid-handshake. Benign closes are turned into a clean end of the accept
  stream.
- **Ordering.** Each stream's first frame is enqueued by its own task, so
  the order across streams is the order in which tasks finish decoding.
  When the queue is full, that order holds only because the bounded sender
  gives freed slots to the oldest waiting `send` (tokio's `mpsc` does).
- **Timeouts and retries.** Verification has a 30 s timeout that races the
  probe. A send retries the whole open, write and finish sequence.
  `open_pseudo_bi` has no timeout.
- **Lifetimes.** The alive token cancels the listeners once every handle is
  dropped. The pool is cleaned through the removers.

### What makes each component correct

- Pseudo-bi: the opener's recv half is the reverse stream the acceptor
  opened for the same token. The call resolves. Its token leaves the table.
  The acceptor's application gets the first UserMsg together with the
  reverse send half.
- Demultiplexer: every stream's first UserMsg reaches the queue at most once,
  in the order the first frames finished decoding.
  Control frames never reach the application. The listeners stop once the
  handles are dropped or the connection ends.
- Endpoint handlers: every verification request gets exactly one answer,
  of the right kind and in order. Whether that answer is true is not
  modelled: `Reply` drops the boolean `verified.is_ok()`.
- Send path: `ConnectionLost` is never retried. A retry never delivers a
  message the peer has already read, because `finish`'s Stopped counts as
  success. The same rule lets a send return Ok for a message a cancelled
  peer never read; no run checks this (see SendRetry).
- Pool: at most one entry per id; a removal never evicts a newer entry.
  Both are properties of `connection_pool.rs`, which is not under `src/`.
  What the call sites in `connection_handle.rs` must do is checked: a
  returned error, or the end of the message loop, leaves that
  connection's entry absent.

The hazards, each at its source line, are listed in `PROJECT.json`.

## 2. Plan

Modules in order of importance. Each has its own MC module and cfg.

1. **PseudoBi** (done). The pseudo-bi handshake across both ends of one
   connection.
2. **Demux** (done). The receive side of one connection: the uni listener
   (UserMsg, unexpected control frame, decode error), the bi listener with
   `handle_endpoint_message`, echo and verification (a probe that may answer,
   fail or time out), the bounded queue at a small capacity, the alive token
   and cancellation, and `FilterBenignClose`. Properties: read UserMsgs are
   delivered; every endpoint request is answered once and in order; the
   application sees the end; a benign close is silent (violated). An
   abstract **IncomingQueue** (ordered, lossy only at cancellation) is
   shown to be implemented by Demux.
3. **SendRetry** (done). `send_with`/`send_uni` with the retry classification, a
   peer that may stop or reset streams, and `finish`'s Stopped suppression.
   Property: a retry never delivers a message twice.
4. **HandlePool** (done). ConnectionHandle, `listen_for_incoming_connections`,
   `listen_for_incoming_messages`, and a `spec_modelled` pool with
   generation-checked removal and deduplicated dials.
5. **WireCodec** (done, `spec_modelled`). Encode and decode over bounded
   messages as RECURSIVE operators, checked against a round-trip reference,
   and a stream read in arbitrary chunks.
6. **P2PNode** (done). The example node's `main`, against the endpoint as the
   example uses it.
7. Cancellation (done): the caller dropping the `open_pseudo_bi` future
   (PseudoBi), and the application dropping its incoming-connections
   receiver (HandlePool).
8. **EndpointInbound** (done). The composition of Demux with the endpoint's
   `listen_for_incoming_messages`, which reads the connection's queue in
   the application's place.

## 3. Modules and runs

### PseudoBi (`PseudoBi.tla`, `MC_PseudoBi.tla`)

State:

- `streams`: every uni-stream opened, as (src, frames, fin).
- `rd`: each stream's read cursor.
- `handler`: the receiving task of each stream, as a pc with the token and
  the reverse stream.
- `call`: each `open_pseudo_bi` call, keyed by the token it drew.
- `waiting`: each end's `waiting_pseudo_bi_streams`.
- `slot`: the one-slot `mpsc` channel of each call.
- `inbox`: each end's inbound queue.
- `got`: the payloads an opener read on its recv half.
- `closed`: the connection is lost.

Frames are abstracted to (kind, token). The payload of a UserMsg is the token
of the pseudo-bi stream it was written for. Each await of the code is one
action:

- `OpenUniForPseudoBi`, `InsertWaiter`, `SendPseudoReq` and
  `AwaitPseudoResp` are `open_pseudo_bi`.
- `AcceptUni` and `ReadFirstFrame` are `listen_on_uni_streams`.
- `ReqOpenReverse`, `ReqWriteResp` and `ReqLoop` are
  `consume_pseudo_req_messages`.
- `ConsumePseudoResp` is `consume_pseudo_resp_messages`, done atomically
  under the table lock.
- `DropOpenFuture` is the caller dropping the `open_pseudo_bi` future at
  one of its awaits (the lock, the Req write, `recv()`), for example under
  its own timeout. The send stream is dropped, which finishes it, and so is
  the channel's receiver. A table entry already inserted stays. The
  acceptor's listener then reads a stream that ends before its first frame
  (`Ok(None)`, ignored) or one whose Req is followed by its end.

The applications open calls from either end (`OpenUniForPseudoBi`). The
opener writes one UserMsg or drops its send half (`OpenerSend`) and reads the
reply (`OpenerRecv`, which is `RecvStream::next`). The acceptor's application
answers each item on the paired send half (`AcceptorReply`). `Close` loses
the connection. After that every open, read and write fails, and no stream
is accepted, since `FilterBenignClose` ends the accept stream.

One case of the code is left out: `recv()` returning `None`. It cannot
happen while the table holds the sender.

Fairness: weak fairness on every library step, because tokio polls every
task that is ready. The applications, their dropping of futures and
`Close` are not fair.

Bounds: two peers and two tokens. Both calls may come from the same end or
one from each. Two tokens is the least that can show a Resp reaching the
wrong waiter, and it gives up to four streams. No symmetry is used, because
liveness is checked. Deadlock checking is off: once the bounded calls finish,
the connection really does sit idle.

| Run | Expect | Shows |
|---|---|---|
| `pseudobi_safety_liveness` (`PseudoBi.cfg`) | pass (80 274 states) | `RepliesReachOpener`: replies reach the right opener under concurrent opens from both ends, also when a late Resp is for a dropped call. `OpenResolvesUnlessClosed`: every awaiting open resolves or is dropped, unless the connection is lost. `PseudoRequestDelivered`: the opener's first UserMsg reaches the acceptor's application. `AbandonedTokenReleased`: a call dropped after its Req was written leaves no entry behind, because the peer still answers and `consume_pseudo_resp_messages` removes the entry although `try_send` fails. |
| `pseudobi_hang_on_close` (`PseudoBi_OpenPseudoBiResolves.cfg`) | violation | Once the connection is lost after the Req was written, the call awaits forever: nothing drains the table. This contradicts spec section 3. |
| `pseudobi_dropped_token_leak` (`PseudoBi_DroppedTokenReleased.cfg`) | violation | A call dropped while its Req is being written leaves its token in the table while the connection lives: no Resp will ever remove it. Each such cancellation leaks one entry. The Req write failing leaves its entry the same way (connection.rs:186). In the model that failure happens only on a lost connection, which `pseudobi_hang_on_close` covers. |

### Demux (`Demux.tla`, `MC_Demux.tla`)

State:

- `st`: the streams the peer opened, as (bi, frames, arrived). Frames arrive
  one at a time (`Arrive`).
- `rd`: each stream's read cursor.
- `h`: the task handling each stream, as a pc, the frame read, the item it
  sends and the probe's state.
- `queue`: the bounded `mpsc` queue. `appGot` holds what `next_stream` returned.
- `reqs` and `replies`: the endpoint requests each bi-stream handled and the
  replies it attempted. Each reply records whether the connection was still up.
- `lis`: each listener is running, draining (its accept stream ended and it
  waits for its tasks) or stopped.
- `halves`: the halves the application holds (`Connection`, `ConnectionIncoming`).
- `closeKind`: none, benign or fatal. `ended`: `next_stream` returned None.
- `sendq`: the streams in the order their tasks called `message_tx.send`.
  `Waiting` is the calls still waiting, oldest first. It skips the tasks of
  a stopped listener, because dropping a task drops its call.

Frames are abstracted to their kind. `Bad` is a frame that fails to decode.
The actions are:

- `AcceptUni` and `UniRead` are the uni listener's task: its match on the
  first frame.
- `AcceptBi` and `BiRead` are the bi listener's task.
- `Enqueue` is `message_tx.send`. It waits while the queue holds `Cap`
  items and fails once the receiver is dropped. A freed slot goes to the
  oldest waiting call (`Head(Waiting)`). tokio's bounded `Sender` waits on a
  fair semaphore, and the sender is not under `src/`.
- `HandleEndpointMessage`, `LoopRead`, `VerifyDial`, `VerifyEcho` and
  `VerifyReply` are the endpoint loop, echo and verification. The probe
  connects, answers, fails or never answers. `VerifyReply` fires either on
  the probe's outcome or on the 30 s timeout, and it always writes a reply.
- `Close` is benign or fatal. A benign close ends the accept streams
  (`FilterBenignClose`), so the listener waits for its tasks
  (`ListenerDrained`). A fatal close is an `Err` of the accept stream, and
  `try_for_each_concurrent` returns at once, dropping its tasks.
- `DropHalf` and `ListenersCancelled` are the alive watch channel.
- `NextStream` is the application's read of the queue.

Fairness: weak fairness on every task step, on frame arrival, on the
listeners' ends and on `NextStream`. Liveness is stated for an application
that keeps reading. The peer, `Close`, `DropHalf` and the probe's answer are
not fair. The timeout is what makes verification finish.

Bounds: two streams, a queue of capacity 1, and scripts that reach every
branch of both first-frame matches. These include a request followed by a
decode error and a stray EchoResp. Capacity 1 lets a full queue block a
task. Two streams let two tasks race for the queue and for the close.

| Run | Expect | Shows |
|---|---|---|
| `demux_safety_liveness` (`Demux.cfg`) | pass (289 589 states) | `RepliesMatchRequests`: one reply of the right kind per request, in order, whatever the probe does. `EveryRequestAnswered`: every request is answered, thanks to the timeout. `UserDelivered`: a UserMsg read is delivered through a full queue unless the listener is cancelled. `AppSeesEnd`: after a close the application gets None. `InboundRefinement`: Demux implements `IncomingQueue` (below). |
| `demux_benign_close_error` (`Demux_BenignCloseSilent.cfg`) | violation | A task reading when the connection is closed benignly enqueues `Err(ConnectionLost)`, and the application receives it. This contradicts spec section 7. |

`IncomingQueue.tla` states what `ConnectionIncoming` promises, with no
streams or tasks. It has a sequence `pending` of items produced and not yet
returned, the items `got`, whether the receiver is `open`, the listeners
still `producing`, and `done`. `Produce` appends. `Receive` takes the head.
`Stop` stops some listeners and may drop any pending items while keeping the
order of the rest. `Drop` is the application dropping the receiver. `End` is
None once nothing is pending and no listener runs. Weak fairness on
`Receive` and `End` holds because the application keeps calling
`next_stream`. The mapping sends `pending` to the queue followed by the
items of `Waiting` (empty once the receiver is dropped). It sends
`producing` to the listeners not stopped. So an item can vanish only when a
listener stops or the receiver goes, and spec section 6's order is checked
across both listeners and a full queue. If a freed slot went to any waiting
call (mutant `EnqueueAnyWaiter`), `Receive` would no longer take the head
of `pending`.

### SendRetry (`SendRetry.tla`, `MC_SendRetry.tla`)

State:

- `call`: each `send_with` call, as a pc, its attempt count and its result.
- `cur`: the stream of each call's current attempt.
- `strm`: the uni-streams opened. For each one: how much of its UserMsg the
  sender wrote and how much the peer received, whether the peer's application
  read it, and whether the peer stopped it.
- `lost`: the connection is lost. `cancelled`: the peer's listeners are
  cancelled.

The actions follow the code:

- `OpenUni`, `WriteChunk`, `WriteRest` and `Finish` are `send_uni`.
  `write_all` is two steps, because the peer sees the stream after the first
  chunk and may stop it before the rest. `Finish` maps Stopped to Ok.
- `Fail` is `send_with`'s classification: ConnectionLost is permanent, and
  anything else is transient.
- `Backoff` and `GiveUp` are the retry policy. It is `spec_modelled`, since
  the backoff crate is not under `src/`. `MaxAttempts` stands for the
  `max_elapsed_time` budget, and the policy may run out of time before that
  bound.
- The peer's actions are `PeerRead`, `PeerDropRecv`, `PeerCancel` and
  `PeerStopUnread`. They are the uni listener, the application dropping its
  RecvStream, and the alive-token cancellation.

Fairness: weak fairness on each call's steps, on arrival and on the peer's
listener reading. The peer application, the cancellation and the loss are not
fair.

Bounds: two calls, one with a retry policy and one without, three attempts
and four streams. Three attempts are enough to give the stream limit some
room and to let a retry follow a stop.

| Run | Expect | Shows |
|---|---|---|
| `sendretry_safety_liveness` (`SendRetry.cfg`) | pass (9 776 states) | `AtMostOnceDelivery`: a retried message never reaches the peer's application twice. The only transient error after a complete write is Stopped, and `send_uni` suppresses it. That every send returns is not checked: it would rest only on the backoff crate's budget, which is not under `src/`. |

`send` can also return Ok for a message that the peer's cancelled listener
stopped before the whole message arrived. `Finish` treats Stopped as success
whatever the state of the stream. Spec section 4.4 states this behaviour:
such a message is presumed delivered. The hazard is listed at
connection.rs:218. No run checks it, because the code does what the spec
says.

### HandlePool (`HandlePool.tla`, `MC_HandlePool.tla`)

This module models the connections to one peer identity. The pool keys
its entries by identity and no operation reads or writes two entries, so
the pool's races all happen within one identity. Every pool operation of
spec section 4.6, and every caller of the pool in `connection_handle.rs`,
is an action, so the pool component counts as modelled.

State:

- `conn`: each connection's lifecycle.
- `pool`, `gen`, `nextGen` and `removed`: the pool's single entry, the
  generation each connection was inserted with, and the generations
  `remove()` was called with.
- `acc` and `connTx`: the accept loop and the incoming-connections channel.
- `loop`: each connection's message loop.
- `dialing`: the dial in flight.
- `user`: the application tasks and the handle each one holds.
- `demux`: whether each connection's stream listeners run.
- `inbound`: the accepted connections.
- `rxDropped`: the application dropped its incoming-connections receiver.

The actions:

- `AccNext`, `AccHandshake`, `AccEmit` and `AccEnd` are
  `listen_for_incoming_connections`. `AccEmit` waits for room in the
  channel, or fails at once once the receiver is gone (the code ignores
  the error). In both cases it then spawns the message loop.
- `DropIncoming` is the application dropping the receiver, together with
  the handles still buffered in it.
- `LoopNext`, `LoopStreamErr` and `LoopRemove` are
  `listen_for_incoming_messages`. `LoopNext` is the `Ok(None)` or `Err` that
  ends the loop once the connection is lost. `LoopStreamErr` is the `Err`
  arm while the connection is up: one bad stream ends the loop (see
  EndpointInbound). Whether a peer sends such a stream is up to the peer,
  so this step is not fair. The loop then removes a live connection from
  the pool, and the next `get_or_dial` dials again.
- `Send` and `SendDone` stand for any `ConnectionHandle` call. A call may
  fail on a live connection too, since SendRetry shows stream errors
  surviving the retries. `HandleError` is `handle_error`.
- `PoolInsert`, `PoolRemove`, `GetOrDial` and `DialDone` are the pool and
  `get_or_dial`, from spec section 4.6 (`spec_modelled`).
- `DemuxStop` is the listeners' select on the alive token (see Demux).
  `Holders` lists who owns a clone of the token.

That a stale `remove()` never evicts a newer entry is the generation
check of `connection_pool.rs`, which is not under `src/`. `PoolRemove`
keeps the check, but no property is about it: no change to the call sites
could break it.

Fairness: weak fairness on the accept loop, the message loops, the listeners,
dial completion, pending calls and the draining of the incoming-connections
channel while the receiver is kept. Liveness assumes an application that
reads that channel or drops it. Loss, dropping and calling are not fair.

Bounds: two connections and two tasks. A dialled and an accepted connection
can then replace each other, so a stale handle outlives its entry. Two
tasks let one wait on the other's dial. The channel has capacity 1, so the
accept loop can block.

| Run | Expect | Shows |
|---|---|---|
| `handlepool_safety_liveness` (`HandlePool.cfg`) | pass (382 626 states) | `FailedNotPooled`: after a send error or the end of the loop, that connection's entry is absent (spec section 8). `LostInboundRemoved`: a lost accepted connection leaves the pool. `InboundListened`: every accepted connection gets its message loop, whether the application drains the channel or drops it. |
| `handlepool_listeners_outlive_handles` (`HandlePool_ListenersStopWhenDropped.cfg`) | violation | An accepted connection can be out of the pool with every application handle dropped, yet its listeners run until the QUIC connection ends, because `listen_for_incoming_messages` owns a handle. This contradicts spec sections 5 and 8. |

### EndpointInbound (`EndpointInbound.tla`, `MC_EndpointInbound.tla`)

This module composes two components. It EXTENDS Demux and puts the
endpoint's per-connection loop, `listen_for_incoming_messages`
(connection_handle.rs 156-181), in the place of the application that calls
`next_stream`. `connection_handle.rs` calls `ConnectionIncoming::next`, which
this `connection.rs` does not have. The model takes it to be `next_stream`,
with the same three outcomes.

State: Demux's state, plus `lp` (the loop is running, removing or done),
`fwd` (the streams whose message the loop forwarded) and `inPool`.

- `MsgLoopNext` is one turn of the loop. `Ok(Some)` is forwarded. An `Err`
  item, or `Ok(None)` once both listeners have stopped, breaks the loop.
- `MsgLoopRemove` is `remover.remove()`. Then the task ends and drops its
  handle and the `ConnectionIncoming`, with every item still queued.
- `DropHandles` lets the application and the pool drop their handles after
  the loop has ended. The loop's own handle keeps the `Connection` half
  alive until then.
- Every other step is a Demux step, except `NextStream` and `DropHalf`,
  because the loop owns the receiver.

Fairness is Demux's, with the loop's two steps in place of `NextStream`.
Bounds: two uni-streams, one of which may carry a frame that fails to
decode, and a queue of one entry.

| Run | Expect | Shows |
|---|---|---|
| `endpoint_inbound_stops_on_error` (`EndpointInbound_UserMsgForwarded.cfg`) | violation | A stream whose first frame fails to decode, or is an unexpected control frame, puts one `Err` on the queue. The loop breaks on it, removes the connection from the pool and drops the receiver. The UserMsg of another stream of the same open connection is then dropped by `message_tx.send`, and the endpoint never forwards it. Spec sections 5 and 6 say each UserMsg is forwarded and that such an error is one item after which the acceptor continues. |

### WireCodec

`WireCodec.tla` models the codec of spec sections 4.1 and 6.2. `wire_msg.rs`
is not under `src/`, so the codec is `spec_modelled`.

- Operators: `Encode(m)` is `write_to_stream`. It writes a tag byte and a
  body per kind. A UserMsg carries a varint length, then its bytes.
  `Decode(bs, i)` is `read_from_stream` over the bytes that have arrived.
  It returns `ok`, `none` (the stream ends before a tag), `eof` (the stream
  ends inside a record), `unknownTag` or `malformed`. The spec leaves the
  varint open; the model takes unsigned LEB128, in `VarintEnc` and
  `VarintDec`.
- State: the bytes written, the messages sent, whether the stream is
  finished, how many bytes have arrived, and the reader's position and
  results.
- Actions:
  - `Write` is `send_wire_msg`.
  - `WriteBad` is a faulty peer ending the stream with a record that no
    qp2p peer writes.
  - `Finish` ends the stream.
  - `Arrive` delivers one byte, or everything written so far.
  - `Read` is `RecvStream::next_wire_msg`. An incomplete record waits for
    more bytes unless the stream has ended.

Fairness: weak fairness on `Arrive` (the network) and on `Read` (the
reader's task). The sender is not fair, and may stop, so deadlock is not
checked.

Bounds: 9 messages. There is one of each kind, plus UserMsgs of 0, 2 and
128 bytes. 128 is the first length whose varint takes two bytes, so it
tests the varint boundary on the real stream. A sender writes up to 2
records. The bad records are an unknown tag, a bad address family and a
truncated UserMsg.

| Run | Expect | Shows |
|---|---|---|
| `wirecodec_roundtrip` (`WireCodec.cfg`) | pass (36 359 states) | `CodecRoundTrip`: every message written decodes to itself, and every proper prefix of a record reads as end of stream, never as another message. The model's `Read` decodes only the bytes that have arrived, so chunking cannot misframe a record by construction; the real `read_from_stream` is not under `src/`. `ReaderEnds`: after `finish`, the reader returns every message, then `None`, or an error if the stream ended with a bad record. |

### P2PNode (`P2PNode.tla`, `MC_P2PNode.tla`)

The example node's `main`:

- `DialArg` is the loop over the command-line arguments. It runs
  `connect_to(..).await?.0.send(marco).await?`, and a failure ends `main`.
- `AcceptNext` is the outer `while let` over `incoming_conns`.
- `ReadNext` is the inner `while let` over one connection's
  `incoming_messages.next().await?`. A message is answered if it is
  "marco". `None` leaves the connection. `Err` ends `main` through `?`.
- `Reply` is `connection.send(polo).await?`. It fails, and ends `main`,
  once the connection is closed or failed. One peer that closes right after
  its marco, or resets its connection, thus stops the node for everyone.
  This is the example's chosen error handling and has no run of its own.

The endpoint (`endpoint.rs`, not under `src/`) is abstracted to what the
example uses of it. The example calls an API that `connection_handle.rs` does
not have: per-connection incoming messages. So the model follows the
example's own calls:
- accepted connections are queued in order (`Connect`);
- each connection has its own message queue (`Arrived`), which ends with
  `None` when the peer closes and with `Err` when the connection fails.

Remote peers connect, send their script (`PeerSend`) and close or fail
(`PeerEnd`). Nothing in the example closes the endpoint, so the outer loop
never ends.

Fairness: weak fairness on `main`'s steps. The peers are not fair.

Bounds: two peers, one sending "marco" then another message and one sending
only "marco", and one argument to dial. Two peers are the least that show
one connection holding up another. The message that is not "marco" shows
that it is read and left unanswered.

| Run | Expect | Shows |
|---|---|---|
| `p2pnode_marco_polo` (`P2PNode.cfg`) | pass (1 036 states) | `ClosedConnectionReleased`: once the current connection ends, `main` leaves it. |
| `p2pnode_starves_peers` (`P2PNode_EveryMarcoAnswered.cfg`) | violation | A second peer's marco is never answered while the first connection stays open and silent. The doc comment promises to serve an arbitrary number of peers. |

## 4. Not modelled (yet)

- The probe's own connection in verification is one abstract outcome.
- UserMsgs after the first on a uni-stream, and pseudo-bi frames, are left
  out of Demux (PseudoBi covers pseudo-bi frames).
- Outbound connections' message loops (`endpoint.rs`, not under `src/`).
- More than one peer identity in HandlePool. Entries of different
  identities never interact, so a second identity adds states but no new
  interleavings.
- EndpointInbound composes the message loop with Demux for one connection.
  It leaves out the pool's other entries and the application's
  incoming-messages channel, which the loop only sends to (`let _ =`).
- The fairness of tokio's bounded `Sender` (waiting sends served oldest
  first) is taken from tokio, which is not under `src/`.

Out of scope:

- TLS and certificates, IGD/UPnP, configuration parsing and logging.
- QUIC internals: loss recovery, flow control and stream limits. The models
  assume that a stream's frames arrive in order and that a lost connection
  fails every later operation.
- `lib.rs` only declares modules, lint levels and re-exports. The example's
  argument parsing (a panic on a malformed address) and its printing are
  left out of P2PNode.
