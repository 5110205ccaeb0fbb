------------------------------ MODULE PseudoBi ------------------------------
(***************************************************************************)
(* The pseudo-bidirectional stream handshake of one QUIC connection        *)
(* (src/src/connection.rs).                                                *)
(*                                                                         *)
(* A pseudo-bi stream is two uni-streams, one in each direction, paired    *)
(* by a random token.  The opener (Connection::open_pseudo_bi) opens a     *)
(* uni-stream, puts token -> one-slot channel into the shared table        *)
(* waiting_pseudo_bi_streams, writes EndpointPseudoBiStreamReq(token) and  *)
(* waits on the channel.  The peer's uni-stream listener                   *)
(* (listen_on_uni_streams) reads the Req, opens a reverse uni-stream,      *)
(* writes EndpointPseudoBiStreamResp(token) on it                          *)
(* (consume_pseudo_req_messages), and hands (first UserMsg, recv, reverse  *)
(* send) to its application.  The opener's own uni-stream listener reads   *)
(* the Resp and passes the reverse stream to the waiting opener through    *)
(* the table (consume_pseudo_resp_messages).                               *)
(*                                                                         *)
(* Streams are records in a growing sequence; a frame is a kind and a      *)
(* token (the payload of a UserMsg is the token of the pseudo-bi stream it *)
(* was written for, so that a reply can be traced to its request).  The    *)
(* connection can be lost at any moment (close, idle timeout, peer close): *)
(* after that every open, read and write fails and no stream is accepted.  *)
(***************************************************************************)
EXTENDS Naturals, Sequences, FiniteSets

CONSTANTS
  Peers,    \* the two ends of the connection
  Tokens,   \* the 256-bit tokens drawn by open_pseudo_bi (never reused)
  NoToken   \* payload of an error item on the inbound queue

ASSUME Cardinality(Peers) = 2 /\ NoToken \notin Tokens

\* Every open_pseudo_bi uses at most two uni-streams.
MaxStreams == 2 * Cardinality(Tokens)
StreamIds == 1..MaxStreams

Other(p) == CHOOSE q \in Peers : q # p

Kinds == {"Req", "Resp", "User"}
Frame(k, t) == [kind |-> k, tok |-> t]

\* An entry of the bounded mpsc queue read by ConnectionIncoming::next_stream:
\* Ok((payload, recv, maybe send)) or Err(RecvError).  0 is "no stream".
OkItem(d, r, s) == [ok |-> TRUE, data |-> d, recv |-> r, send |-> s]
ErrItem == [ok |-> FALSE, data |-> NoToken, recv |-> 0, send |-> 0]

VARIABLES
  streams,  \* uni-streams opened so far: [src, frames, fin]
  rd,       \* rd[s]: frames of s consumed by its reader
  handler,  \* handler[s]: the receiver's task for stream s
  call,     \* call[t]: the open_pseudo_bi call that drew token t
  waiting,  \* waiting[p]: tokens in p's waiting_pseudo_bi_streams
  slot,     \* slot[t]: stream sitting in the one-slot channel of t (0: empty)
  inbox,    \* inbox[p]: p's inbound message queue
  got,      \* got[t]: payloads the opener of t read on its recv half
  closed    \* the QUIC connection is lost

vars == <<streams, rd, handler, call, waiting, slot, inbox, got, closed>>

CallPcs == {"idle", "opened", "inserted", "awaiting", "ok", "err", "dropped"}
HandlerPcs == {"unseen", "reading", "reqOpen", "reqWrite", "reqLoop",
               "delivered", "done"}

-----------------------------------------------------------------------------
(* Stream helpers: the quinn surface the code uses.                        *)

Dst(s) == Other(streams[s].src)
Unread(s) == rd[s] < Len(streams[s].frames)
NextFrame(s) == streams[s].frames[rd[s] + 1]
AtEof(s) == ~Unread(s) /\ streams[s].fin
NewSid == Len(streams) + 1

OpenStream(p) ==
  streams' = Append(streams, [src |-> p, frames |-> <<>>, fin |-> FALSE])
WriteFrame(s, f) == streams' = [streams EXCEPT ![s].frames = Append(@, f)]
\* Dropping a quinn SendStream finishes it.
DropSend(s) == streams' = [streams EXCEPT ![s].fin = TRUE]
Consume(s) == rd' = [rd EXCEPT ![s] = @ + 1]
Enqueue(p, it) == inbox' = [inbox EXCEPT ![p] = Append(@, it)]
SetHandler(s, pc) == handler' = [handler EXCEPT ![s].pc = pc]

-----------------------------------------------------------------------------
Init ==
  /\ streams = <<>>
  /\ rd = [s \in StreamIds |-> 0]
  /\ handler = [s \in StreamIds |-> [pc |-> "unseen", tok |-> NoToken, rev |-> 0]]
  /\ call = [t \in Tokens |-> [pc |-> "idle", peer |-> CHOOSE p \in Peers : TRUE,
                               send |-> 0, recv |-> 0]]
  /\ waiting = [p \in Peers |-> {}]
  /\ slot = [t \in Tokens |-> 0]
  /\ inbox = [p \in Peers |-> <<>>]
  /\ got = [t \in Tokens |-> {}]
  /\ closed = FALSE

-----------------------------------------------------------------------------
(* Connection::open_pseudo_bi, one action per await.                       *)

\* self.inner.open_uni().await? : a fresh send stream, or return Err.
OpenUniForPseudoBi(t) ==
  /\ call[t].pc = "idle"
  /\ \E p \in Peers :
       \/ /\ ~closed
          /\ OpenStream(p)
          /\ call' = [call EXCEPT ![t] = [@ EXCEPT !.pc = "opened", !.peer = p,
                                                   !.send = NewSid]]
       \/ /\ closed
          /\ call' = [call EXCEPT ![t] = [@ EXCEPT !.pc = "err", !.peer = p]]
          /\ UNCHANGED streams
  /\ UNCHANGED <<rd, handler, waiting, slot, inbox, got, closed>>

\* mpsc::channel(1) and waiting_pseudo_bi_streams.lock().insert(token, send).
InsertWaiter(t) ==
  /\ call[t].pc = "opened"
  /\ waiting' = [waiting EXCEPT ![call[t].peer] = @ \cup {t}]
  /\ call' = [call EXCEPT ![t].pc = "inserted"]
  /\ UNCHANGED <<streams, rd, handler, slot, inbox, got, closed>>

\* send_wire_msg(EndpointPseudoBiStreamReq(token)); on error return
\* Err(ConnectionError::Stopped), leaving the table entry in place.
SendPseudoReq(t) ==
  /\ call[t].pc = "inserted"
  /\ \/ /\ ~closed
        /\ WriteFrame(call[t].send, Frame("Req", t))
        /\ call' = [call EXCEPT ![t].pc = "awaiting"]
     \/ /\ closed
        /\ call' = [call EXCEPT ![t].pc = "err"]
        /\ UNCHANGED streams
  /\ UNCHANGED <<rd, handler, waiting, slot, inbox, got, closed>>

\* recv.recv().await yields the reverse recv stream: return Ok.  (The None
\* branch needs every sender dropped, which the table prevents while the
\* Connection lives.)
AwaitPseudoResp(t) ==
  /\ call[t].pc = "awaiting"
  /\ slot[t] # 0
  /\ call' = [call EXCEPT ![t].pc = "ok", ![t].recv = slot[t]]
  /\ slot' = [slot EXCEPT ![t] = 0]
  /\ UNCHANGED <<streams, rd, handler, waiting, inbox, got, closed>>

\* The caller drops the open_pseudo_bi future at one of its awaits (the
\* table lock, the Req write, recv.recv()), e.g. under its own timeout:
\* the send stream is dropped, finishing it, and so is the channel's
\* receiver; a table entry already inserted stays.  An interrupted Req
\* write is taken to leave no complete frame.
DropOpenFuture(t) ==
  /\ call[t].pc \in {"opened", "inserted", "awaiting"}
  /\ ~closed
  /\ DropSend(call[t].send)
  /\ call' = [call EXCEPT ![t].pc = "dropped"]
  /\ slot' = [slot EXCEPT ![t] = 0]
  /\ UNCHANGED <<rd, handler, waiting, inbox, got, closed>>

-----------------------------------------------------------------------------
(* listen_on_uni_streams: one concurrent task per accepted uni-stream.     *)

\* FilterBenignClose(uni_streams) yields the stream once data arrives; the
\* benign close of the connection ends the accept loop.
AcceptUni(s) ==
  /\ s <= Len(streams)
  /\ handler[s].pc = "unseen"
  /\ ~closed
  /\ Len(streams[s].frames) > 0 \/ streams[s].fin
  /\ SetHandler(s, "reading")
  /\ UNCHANGED <<streams, rd, call, waiting, slot, inbox, got, closed>>

\* Mutant: the Resp is handed to whichever token of p is waiting.
ConsumeAnyWaiter(t, s, p) ==
  \/ /\ waiting[p] = {}
     /\ UNCHANGED <<waiting, slot>>
  \/ \E u \in waiting[p] :
       /\ waiting' = [waiting EXCEPT ![p] = @ \ {u}]
       /\ slot' = IF call[u].pc \in {"inserted", "awaiting"}
                  THEN [slot EXCEPT ![u] = s] ELSE slot

\* Mutant: the entry is removed but the stream is never sent.
ConsumeWithoutSend(t, s, p) ==
  /\ waiting' = [waiting EXCEPT ![p] = @ \ {t}]
  /\ UNCHANGED slot

\* Mutant: the entry is removed only when try_send succeeds.
ConsumeRemoveOnlyOnSend(t, s, p) ==
  IF t \in waiting[p] /\ call[t].pc \in {"inserted", "awaiting"}
  THEN /\ waiting' = [waiting EXCEPT ![p] = @ \ {t}]
       /\ slot' = [slot EXCEPT ![t] = s]
  ELSE UNCHANGED <<waiting, slot>>

\* consume_pseudo_resp_messages: under the table lock, if the token is
\* waiting, try_send the stream (fails if the opener already returned) and
\* remove the entry; an unknown token is ignored.
ConsumePseudoResp(t, s, p) ==
  /\ waiting' = [waiting EXCEPT ![p] = @ \ {t}]
  /\ slot' = IF t \in waiting[p] /\ call[t].pc \in {"inserted", "awaiting"}
             THEN [slot EXCEPT ![t] = s] ELSE slot

\* WireMsg::read_from_stream on the new stream, and the match on its result.
\* Ok(None), a stream finished before its first frame (as a dropped
\* open_pseudo_bi future leaves it), is ignored.
ReadFirstFrame(s) ==
  /\ handler[s].pc = "reading"
  /\ \/ /\ closed
        /\ Enqueue(Dst(s), ErrItem)
        /\ SetHandler(s, "done")
        /\ UNCHANGED <<rd, waiting, slot>>
     \/ /\ ~closed /\ AtEof(s)
        /\ SetHandler(s, "done")
        /\ UNCHANGED <<rd, waiting, slot, inbox>>
     \/ /\ ~closed /\ Unread(s) /\ NextFrame(s).kind = "User"
        /\ Consume(s)
        /\ Enqueue(Dst(s), OkItem(NextFrame(s).tok, s, 0))
        /\ SetHandler(s, "delivered")
        /\ UNCHANGED <<waiting, slot>>
     \/ /\ ~closed /\ Unread(s) /\ NextFrame(s).kind = "Req"
        /\ Consume(s)
        /\ handler' = [handler EXCEPT ![s].pc = "reqOpen", ![s].tok = NextFrame(s).tok]
        /\ UNCHANGED <<waiting, slot, inbox>>
     \/ /\ ~closed /\ Unread(s) /\ NextFrame(s).kind = "Resp"
        /\ Consume(s)
        /\ ConsumePseudoResp(NextFrame(s).tok, s, Dst(s))
        /\ SetHandler(s, "done")
        /\ UNCHANGED inbox
  /\ UNCHANGED <<streams, call, got, closed>>

(* consume_pseudo_req_messages, one action per await.                      *)

\* Mutant: the reverse stream is recorded with an off-by-one id.
ReqOpenReverseOffByOne(s) ==
  /\ handler[s].pc = "reqOpen"
  /\ \/ /\ ~closed
        /\ OpenStream(Dst(s))
        /\ handler' = [handler EXCEPT ![s].pc = "reqWrite", ![s].rev = NewSid + 1]
     \/ /\ closed
        /\ SetHandler(s, "done")
        /\ UNCHANGED streams
  /\ UNCHANGED <<rd, call, waiting, slot, inbox, got, closed>>

\* connection.open_uni().await? : the reverse stream.
ReqOpenReverse(s) ==
  /\ handler[s].pc = "reqOpen"
  /\ \/ /\ ~closed
        /\ OpenStream(Dst(s))
        /\ handler' = [handler EXCEPT ![s].pc = "reqWrite", ![s].rev = NewSid]
     \/ /\ closed
        /\ SetHandler(s, "done")
        /\ UNCHANGED streams
  /\ UNCHANGED <<rd, call, waiting, slot, inbox, got, closed>>

\* send_wire_msg(EndpointPseudoBiStreamResp(id)).await?
ReqWriteResp(s) ==
  /\ handler[s].pc = "reqWrite"
  /\ \/ /\ ~closed
        /\ WriteFrame(handler[s].rev, Frame("Resp", handler[s].tok))
        /\ SetHandler(s, "reqLoop")
     \/ /\ closed
        /\ SetHandler(s, "done")
        /\ UNCHANGED streams
  /\ UNCHANGED <<rd, call, waiting, slot, inbox, got, closed>>

\* Mutant: every frame after the Req is skipped as a duplicate.
ReqLoopSkipUser(s) ==
  /\ handler[s].pc = "reqLoop"
  /\ \/ /\ closed
        /\ SetHandler(s, "done")
        /\ UNCHANGED <<streams, rd, inbox>>
     \/ /\ ~closed /\ AtEof(s)
        /\ DropSend(handler[s].rev)
        /\ SetHandler(s, "done")
        /\ UNCHANGED <<rd, inbox>>
     \/ /\ ~closed /\ Unread(s)
        /\ Consume(s)
        /\ UNCHANGED <<streams, handler, inbox>>
  /\ UNCHANGED <<call, waiting, slot, got, closed>>

\* The loop reading up to the first UserMsg, which is handed to the
\* application with the reverse send stream.  On EOF or error the loop
\* breaks and the reverse send stream is dropped.
ReqLoop(s) ==
  /\ handler[s].pc = "reqLoop"
  /\ \/ /\ closed
        /\ SetHandler(s, "done")
        /\ UNCHANGED <<streams, rd, inbox>>
     \/ /\ ~closed /\ AtEof(s)
        /\ DropSend(handler[s].rev)
        /\ SetHandler(s, "done")
        /\ UNCHANGED <<rd, inbox>>
     \/ /\ ~closed /\ Unread(s) /\ NextFrame(s).kind = "User"
        /\ Consume(s)
        /\ Enqueue(Dst(s), OkItem(NextFrame(s).tok, s, handler[s].rev))
        /\ SetHandler(s, "delivered")
        /\ UNCHANGED streams
  /\ UNCHANGED <<call, waiting, slot, got, closed>>

-----------------------------------------------------------------------------
(* The connection and the applications on both ends.                       *)

\* Connection::close, the idle timeout, or the peer closing.
Close ==
  /\ ~closed
  /\ closed' = TRUE
  /\ UNCHANGED <<streams, rd, handler, call, waiting, slot, inbox, got>>

\* The opener writes one UserMsg on its send half and finishes it, or drops
\* the send half unused.
OpenerSend(t) ==
  /\ call[t].pc = "ok"
  /\ ~closed
  /\ ~streams[call[t].send].fin
  /\ \/ streams' = [streams EXCEPT ![call[t].send].frames = Append(@, Frame("User", t)),
                                   ![call[t].send].fin = TRUE]
     \/ DropSend(call[t].send)
  /\ UNCHANGED <<rd, handler, call, waiting, slot, inbox, got, closed>>

\* The acceptor's application takes the next item (next_stream) and answers
\* a pseudo-bi request with its payload on the paired send stream.
AcceptorReply(p) ==
  /\ inbox[p] # <<>>
  /\ inbox' = [inbox EXCEPT ![p] = Tail(@)]
  /\ LET it == Head(inbox[p]) IN
       IF it.ok /\ it.send # 0 /\ ~closed
       THEN streams' = [streams EXCEPT ![it.send].frames = Append(@, Frame("User", it.data)),
                                       ![it.send].fin = TRUE]
       ELSE UNCHANGED streams
  /\ UNCHANGED <<rd, handler, call, waiting, slot, got, closed>>

\* RecvStream::next on the opener's recv half: the next UserMsg.
OpenerRecv(t) ==
  /\ call[t].pc = "ok"
  /\ ~closed
  /\ Unread(call[t].recv)
  /\ NextFrame(call[t].recv).kind = "User"
  /\ Consume(call[t].recv)
  /\ got' = [got EXCEPT ![t] = @ \cup {NextFrame(call[t].recv).tok}]
  /\ UNCHANGED <<streams, handler, call, waiting, slot, inbox, closed>>

-----------------------------------------------------------------------------
Next ==
  \/ \E t \in Tokens :
       \/ OpenUniForPseudoBi(t) \/ InsertWaiter(t) \/ SendPseudoReq(t)
       \/ AwaitPseudoResp(t) \/ DropOpenFuture(t) \/ OpenerSend(t) \/ OpenerRecv(t)
  \/ \E s \in StreamIds :
       \/ AcceptUni(s) \/ ReadFirstFrame(s) \/ ReqOpenReverse(s)
       \/ ReqWriteResp(s) \/ ReqLoop(s)
  \/ \E p \in Peers : AcceptorReply(p)
  \/ Close

\* The tokio runtime polls every task that is ready: the library's own steps
\* are weakly fair.  The applications, their dropping of futures and the
\* connection loss are not.
Fairness ==
  /\ \A t \in Tokens : WF_vars(InsertWaiter(t) \/ SendPseudoReq(t) \/ AwaitPseudoResp(t))
  /\ \A s \in StreamIds :
       WF_vars(AcceptUni(s) \/ ReadFirstFrame(s) \/ ReqOpenReverse(s)
               \/ ReqWriteResp(s) \/ ReqLoop(s))

Spec == Init /\ [][Next]_vars /\ Fairness

-----------------------------------------------------------------------------
(* Properties.                                                             *)

TypeOK ==
  /\ Len(streams) <= MaxStreams
  /\ \A s \in 1..Len(streams) :
       /\ streams[s].src \in Peers /\ streams[s].fin \in BOOLEAN
       /\ \A i \in 1..Len(streams[s].frames) :
            streams[s].frames[i] \in [kind : Kinds, tok : Tokens]
  /\ rd \in [StreamIds -> Nat]
  /\ handler \in [StreamIds -> [pc : HandlerPcs, tok : Tokens \cup {NoToken},
                                rev : 0..MaxStreams]]
  /\ call \in [Tokens -> [pc : CallPcs, peer : Peers, send : 0..MaxStreams,
                          recv : 0..MaxStreams]]
  /\ waiting \in [Peers -> SUBSET Tokens]
  /\ slot \in [Tokens -> 0..MaxStreams]
  /\ got \in [Tokens -> SUBSET Tokens]
  /\ closed \in BOOLEAN

\* Every UserMsg the opener of a pseudo-bi stream reads on its recv half is
\* the peer's answer to that same stream's request: the Resp routed through
\* waiting_pseudo_bi_streams (consume_pseudo_resp_messages) and the reverse
\* stream handed out by consume_pseudo_req_messages pair up the same two
\* uni-streams, however many pseudo-bi streams are opened concurrently from
\* either end.
RepliesReachOpener ==
  \A t \in Tokens : got[t] \subseteq {t}

\* Unless the connection is lost, every open_pseudo_bi that has written its
\* request eventually returns its pair, or is dropped by its caller: the
\* peer's listener, its reverse stream, the local listener and the table
\* all do their part.
OpenResolvesUnlessClosed ==
  \A t \in Tokens :
    call[t].pc = "awaiting" ~> (call[t].pc \in {"ok", "dropped"} \/ closed)

\* Unless the connection is lost, the first UserMsg the opener writes on a
\* pseudo-bi stream reaches the acceptor's inbound queue together with the
\* reverse send stream (consume_pseudo_req_messages' read loop).
UserWritten(t) ==
  /\ call[t].send # 0
  /\ \E i \in 1..Len(streams[call[t].send].frames) :
       streams[call[t].send].frames[i].kind = "User"
Delivered(t) == call[t].send # 0 /\ handler[call[t].send].pc = "delivered"
PseudoRequestDelivered ==
  \A t \in Tokens : UserWritten(t) ~> (Delivered(t) \/ closed)

\* ReqWritten(t): the EndpointPseudoBiStreamReq of t is on its stream.
ReqWritten(t) ==
  /\ call[t].send # 0
  /\ \E i \in 1..Len(streams[call[t].send].frames) :
       streams[call[t].send].frames[i].kind = "Req"

\* A caller that drops open_pseudo_bi after its request was written leaves
\* no entry behind while the connection lives: the peer still answers the
\* Req of a finished stream, and consume_pseudo_resp_messages removes the
\* entry even though try_send to the dropped receiver fails.
AbandonedTokenReleased ==
  \A t \in Tokens :
    (call[t].pc = "dropped" /\ ReqWritten(t))
      ~> (t \notin waiting[call[t].peer] \/ closed)

\* spec.md section 3: a token leaves the table when its Resp arrives or the
\* connection ends.  A caller that drops open_pseudo_bi while the Req is
\* being written leaves an entry no Resp will ever remove: on a live
\* connection every such cancellation leaks an entry of the table.
DroppedTokenReleased ==
  \A t \in Tokens :
    call[t].pc = "dropped" ~> (t \notin waiting[call[t].peer] \/ closed)

\* spec.md section 3: a pending token is removed when its Resp arrives or
\* when the connection terminates, so every awaiting open_pseudo_bi
\* eventually returns, unless its caller drops it.  The code never drains
\* the table: an opener whose connection is lost after its request was
\* written waits forever.
OpenPseudoBiResolves ==
  \A t \in Tokens : call[t].pc = "awaiting" ~> call[t].pc \in {"ok", "err", "dropped"}

=============================================================================
