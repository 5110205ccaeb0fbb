------------------------------- MODULE Demux -------------------------------
(***************************************************************************)
(* The receive side of one qp2p connection (src/src/connection.rs): the    *)
(* two background listeners started by start_message_listeners, their      *)
(* per-stream tasks, the bounded queue read by                             *)
(* ConnectionIncoming::next_stream, the endpoint protocol loop run on      *)
(* bi-streams (handle_endpoint_message, echo, verification with its        *)
(* timeout), and the two ways the listeners stop: the alive watch channel  *)
(* once both connection halves are dropped, and the end of the accept      *)
(* streams when the connection is lost (FilterBenignClose).                *)
(*                                                                         *)
(* The peer opens streams whose frames are drawn from small scripts; the   *)
(* frames arrive one at a time.  "Bad" stands for a frame that fails to    *)
(* decode.  Pseudo-bi frames are the subject of module PseudoBi.           *)
(***************************************************************************)
EXTENDS Naturals, Sequences, FiniteSets

CONSTANTS
  UniScripts,  \* frame sequences the peer may write on a uni-stream
  BiScripts,   \* frame sequences the peer may write on a bi-stream
  MaxStreams,  \* streams the peer opens
  Cap          \* capacity of the inbound queue (10 000 in the code)

Kinds == {"User", "EchoReq", "VerifReq", "EchoResp", "Bad"}
Requests == {"EchoReq", "VerifReq"}

ASSUME /\ UniScripts \subseteq Seq(Kinds) /\ BiScripts \subseteq Seq(Kinds)
       /\ MaxStreams \in Nat \ {0} /\ Cap \in Nat \ {0}

Sids == 1..MaxStreams
Halves == {"conn", "incoming"}      \* Connection and ConnectionIncoming
Listeners == {"uni", "bi"}

\* Items of the queue: Ok((msg, recv, send)) or Err(RecvError) with its cause.
Causes == {"none", "decode", "unexpected", "lost"}
OkItem(s) == [ok |-> TRUE, sid |-> s, cause |-> "none"]
ErrItem(s, c) == [ok |-> FALSE, sid |-> s, cause |-> c]
Items == [ok : BOOLEAN, sid : Sids, cause : Causes]

VARIABLES
  st,        \* streams the peer opened: [bi, frames, arrived]
  rd,        \* rd[s]: frames of s read so far
  h,         \* h[s]: the task handling s: [pc, msg, item, probe]
  queue,     \* the bounded mpsc queue
  appGot,    \* items next_stream has returned, in order
  reqs,      \* reqs[s]: endpoint requests handled on bi-stream s
  replies,   \* replies[s]: replies attempted on s: [kind, sent]
  lis,       \* lis[l]: "running", "draining" or "stopped"
  halves,    \* connection halves the application still holds
  closeKind, \* "none", "benign" (application or local close) or "fatal"
  ended,     \* next_stream has returned None
  sendq      \* streams in the order their tasks called message_tx.send

vars == <<st, rd, h, queue, appGot, reqs, replies, lis, halves, closeKind, ended, sendq>>

Pcs == {"unseen", "reading", "sending", "control", "verifying", "loopRead", "done"}
Probes == {"none", "dialing", "echoWait", "ok", "fail"}
Active == {"reading", "sending", "control", "verifying", "loopRead"}

-----------------------------------------------------------------------------
Closed == closeKind # "none"
Listener(s) == IF st[s].bi THEN "bi" ELSE "uni"
Stopped(s) == s <= Len(st) /\ lis[Listener(s)] = "stopped"
Avail(s) == rd[s] < st[s].arrived
Cur(s) == st[s].frames[rd[s] + 1]
\* Every frame and the FIN have arrived and been read: read_from_stream -> None.
AtEof(s) == rd[s] = Len(st[s].frames) /\ st[s].arrived = Len(st[s].frames)
Read(s) == rd' = [rd EXCEPT ![s] = @ + 1]
Goto(s, pc) == h' = [h EXCEPT ![s].pc = pc]
ToSend(s, it) == h' = [h EXCEPT ![s].pc = "sending", ![s].item = it]
\* A task that reaches message_tx.send joins the sender's queue of waiters.
Called(s) == sendq' = IF h'[s].pc = "sending" THEN Append(sendq, s) ELSE sendq
\* The sends still waiting, oldest first: tokio's bounded Sender hands
\* freed slots to waiting send calls in the order they started; the task
\* of a stopped listener was dropped, and its call with it.
Waiting == SelectSeq(sendq, LAMBDA s : h[s].pc = "sending" /\ ~Stopped(s))
\* Writing a reply on the bi-stream's send half; a failed write (the
\* connection is lost) is only logged by the caller.
Reply(s, k) ==
  replies' = [replies EXCEPT ![s] = Append(@, [kind |-> k, sent |-> ~Closed])]
Answers(rep, req) ==
  \/ req = "EchoReq" /\ rep.kind = "EchoResp"
  \/ req = "VerifReq" /\ rep.kind = "VerifResp"

Init ==
  /\ st = <<>>
  /\ rd = [s \in Sids |-> 0]
  /\ h = [s \in Sids |-> [pc |-> "unseen", msg |-> "User", item |-> OkItem(s),
                          probe |-> "none"]]
  /\ queue = <<>>
  /\ appGot = <<>>
  /\ reqs = [s \in Sids |-> <<>>]
  /\ replies = [s \in Sids |-> <<>>]
  /\ lis = [l \in Listeners |-> "running"]
  /\ halves = Halves
  /\ closeKind = "none"
  /\ ended = FALSE
  /\ sendq = <<>>

-----------------------------------------------------------------------------
(* The peer and the network.                                               *)

PeerOpen ==
  /\ Len(st) < MaxStreams
  /\ ~Closed
  /\ \/ \E sc \in UniScripts :
          st' = Append(st, [bi |-> FALSE, frames |-> sc, arrived |-> 0])
     \/ \E sc \in BiScripts :
          st' = Append(st, [bi |-> TRUE, frames |-> sc, arrived |-> 0])
  /\ UNCHANGED <<rd, h, queue, appGot, reqs, replies, lis, halves, closeKind, ended, sendq>>

Arrive(s) ==
  /\ s <= Len(st)
  /\ ~Closed
  /\ st[s].arrived < Len(st[s].frames)
  /\ st' = [st EXCEPT ![s].arrived = @ + 1]
  /\ UNCHANGED <<rd, h, queue, appGot, reqs, replies, lis, halves, closeKind, ended, sendq>>

\* The connection is lost.  A benign close ends the accept streams
\* (FilterBenignClose) and try_for_each_concurrent waits for the tasks in
\* flight; any other error makes it return at once, dropping them.
Close ==
  /\ ~Closed
  /\ \E k \in {"benign", "fatal"} :
       /\ closeKind' = k
       /\ lis' = [l \in Listeners |->
                    IF lis[l] = "running" /\ k = "benign" THEN "draining" ELSE "stopped"]
  /\ UNCHANGED <<st, rd, h, queue, appGot, reqs, replies, halves, ended, sendq>>

-----------------------------------------------------------------------------
(* listen_on_uni_streams.                                                  *)

AcceptUni(s) ==
  /\ s <= Len(st) /\ ~st[s].bi
  /\ h[s].pc = "unseen"
  /\ lis["uni"] = "running"
  /\ Goto(s, "reading")
  /\ UNCHANGED <<st, rd, queue, appGot, reqs, replies, lis, halves, closeKind, ended, sendq>>

\* WireMsg::read_from_stream and the match on its result.
UniRead(s) ==
  /\ h[s].pc = "reading" /\ ~st[s].bi
  /\ lis["uni"] # "stopped"
  /\ \/ /\ Closed
        /\ ToSend(s, ErrItem(s, "lost"))
        /\ UNCHANGED rd
     \/ /\ ~Closed /\ AtEof(s)
        /\ Goto(s, "done")
        /\ UNCHANGED rd
     \/ /\ ~Closed /\ Avail(s) /\ Cur(s) = "User"
        /\ Read(s) /\ ToSend(s, OkItem(s))
     \/ /\ ~Closed /\ Avail(s) /\ Cur(s) = "Bad"
        /\ Read(s) /\ ToSend(s, ErrItem(s, "decode"))
     \/ /\ ~Closed /\ Avail(s) /\ Cur(s) \in Requests \cup {"EchoResp"}
        /\ Read(s) /\ ToSend(s, ErrItem(s, "unexpected"))
  /\ Called(s)
  /\ UNCHANGED <<st, queue, appGot, reqs, replies, lis, halves, closeKind, ended>>

\* Mutant: the queue is not bounded.
EnqueueUnbounded(s) ==
  /\ h[s].pc = "sending"
  /\ ~Stopped(s)
  /\ \/ /\ "incoming" \notin halves
        /\ UNCHANGED queue
     \/ /\ "incoming" \in halves
        /\ s = Head(Waiting)
        /\ queue' = Append(queue, h[s].item)
  /\ Goto(s, "done")
  /\ UNCHANGED <<st, rd, appGot, reqs, replies, lis, halves, closeKind, ended, sendq>>

\* Mutant: try_send, dropping the item when the queue is full.
EnqueueTrySend(s) ==
  /\ h[s].pc = "sending"
  /\ ~Stopped(s)
  /\ \/ /\ "incoming" \notin halves \/ Len(queue) >= Cap
        /\ UNCHANGED queue
     \/ /\ "incoming" \in halves
        /\ Len(queue) < Cap
        /\ queue' = Append(queue, h[s].item)
  /\ Goto(s, "done")
  /\ UNCHANGED <<st, rd, appGot, reqs, replies, lis, halves, closeKind, ended, sendq>>

\* Mutant: a freed slot goes to any waiting send, not the oldest.
EnqueueAnyWaiter(s) ==
  /\ h[s].pc = "sending"
  /\ ~Stopped(s)
  /\ \/ /\ "incoming" \notin halves
        /\ UNCHANGED queue
     \/ /\ "incoming" \in halves
        /\ Len(queue) < Cap
        /\ queue' = Append(queue, h[s].item)
  /\ Goto(s, "done")
  /\ UNCHANGED <<st, rd, appGot, reqs, replies, lis, halves, closeKind, ended, sendq>>

\* message_tx.send(..).await: waits for room in the queue; fails at once
\* (the item is dropped) when ConnectionIncoming, the receiver, is gone.
\* Waiting sends take freed slots oldest first.
Enqueue(s) ==
  /\ h[s].pc = "sending"
  /\ ~Stopped(s)
  /\ \/ /\ "incoming" \notin halves
        /\ UNCHANGED queue
     \/ /\ "incoming" \in halves
        /\ Len(queue) < Cap /\ s = Head(Waiting)
        /\ queue' = Append(queue, h[s].item)
  /\ Goto(s, "done")
  /\ UNCHANGED <<st, rd, appGot, reqs, replies, lis, halves, closeKind, ended, sendq>>

-----------------------------------------------------------------------------
(* listen_on_bi_streams and handle_endpoint_message.                       *)

AcceptBi(s) ==
  /\ s <= Len(st) /\ st[s].bi
  /\ h[s].pc = "unseen"
  /\ lis["bi"] = "running"
  /\ Goto(s, "reading")
  /\ UNCHANGED <<st, rd, queue, appGot, reqs, replies, lis, halves, closeKind, ended, sendq>>

BiRead(s) ==
  /\ h[s].pc = "reading" /\ st[s].bi
  /\ lis["bi"] # "stopped"
  /\ \/ /\ Closed
        /\ ToSend(s, ErrItem(s, "lost"))
        /\ UNCHANGED rd
     \/ /\ ~Closed /\ AtEof(s)
        /\ Goto(s, "done")
        /\ UNCHANGED rd
     \/ /\ ~Closed /\ Avail(s) /\ Cur(s) = "User"
        /\ Read(s) /\ ToSend(s, OkItem(s))
     \/ /\ ~Closed /\ Avail(s) /\ Cur(s) = "Bad"
        /\ Read(s) /\ ToSend(s, ErrItem(s, "decode"))
     \/ /\ ~Closed /\ Avail(s) /\ Cur(s) \in Requests \cup {"EchoResp"}
        /\ Read(s)
        /\ h' = [h EXCEPT ![s].pc = "control", ![s].msg = Cur(s)]
  /\ Called(s)
  /\ UNCHANGED <<st, queue, appGot, reqs, replies, lis, halves, closeKind, ended>>

\* One turn of handle_endpoint_message's loop: answer an EchoReq
\* (handle_endpoint_echo), start a verification, or log any other frame.
\* A failed reply write is only logged.
HandleEndpointMessage(s) ==
  /\ h[s].pc = "control"
  /\ lis["bi"] # "stopped"
  /\ \/ /\ h[s].msg = "EchoReq"
        /\ reqs' = [reqs EXCEPT ![s] = Append(@, "EchoReq")]
        /\ Reply(s, "EchoResp")
        /\ Goto(s, "loopRead")
     \/ /\ h[s].msg = "VerifReq"
        /\ reqs' = [reqs EXCEPT ![s] = Append(@, "VerifReq")]
        /\ h' = [h EXCEPT ![s].pc = "verifying", ![s].probe = "dialing"]
        /\ UNCHANGED replies
     \/ /\ h[s].msg \notin Requests
        /\ Goto(s, "loopRead")
        /\ UNCHANGED <<reqs, replies>>
  /\ UNCHANGED <<st, rd, queue, appGot, lis, halves, closeKind, ended, sendq>>

(* handle_endpoint_verification: the probe runs on a new connection to the *)
(* given address, which may never answer; the whole probe is under         *)
(* timeout(ENDPOINT_VERIFICATION_TIMEOUT).                                 *)

\* endpoint.connect(addr).await?, open_bi().await?, write EndpointEchoReq.
VerifyDial(s) ==
  /\ h[s].pc = "verifying" /\ h[s].probe = "dialing"
  /\ lis["bi"] # "stopped"
  /\ \E r \in {"echoWait", "fail"} : h' = [h EXCEPT ![s].probe = r]
  /\ UNCHANGED <<st, rd, queue, appGot, reqs, replies, lis, halves, closeKind, ended, sendq>>

\* read_from_stream: Some(EndpointEchoResp(_)) is success, anything else fails.
VerifyEcho(s) ==
  /\ h[s].pc = "verifying" /\ h[s].probe = "echoWait"
  /\ lis["bi"] # "stopped"
  /\ \E r \in {"ok", "fail"} : h' = [h EXCEPT ![s].probe = r]
  /\ UNCHANGED <<st, rd, queue, appGot, reqs, replies, lis, halves, closeKind, ended, sendq>>

\* Mutant: a failed verification returns early without a reply.
VerifyReplyOnlyOnSuccess(s) ==
  /\ h[s].pc = "verifying"
  /\ lis["bi"] # "stopped"
  /\ \/ /\ h[s].probe = "ok"
        /\ Reply(s, "VerifResp")
     \/ /\ h[s].probe \in {"fail", "dialing", "echoWait"}
        /\ UNCHANGED replies
  /\ h' = [h EXCEPT ![s].pc = "loopRead", ![s].probe = "none"]
  /\ UNCHANGED <<st, rd, queue, appGot, reqs, lis, halves, closeKind, ended, sendq>>

\* Mutant: the probe is awaited without the timeout.
VerifyReplyNoTimeout(s) ==
  /\ h[s].pc = "verifying"
  /\ lis["bi"] # "stopped"
  /\ h[s].probe \in {"ok", "fail"}
  /\ Reply(s, "VerifResp")
  /\ h' = [h EXCEPT ![s].pc = "loopRead", ![s].probe = "none"]
  /\ UNCHANGED <<st, rd, queue, appGot, reqs, lis, halves, closeKind, ended, sendq>>

\* The timeout resolves, with the probe's result or with Elapsed, and
\* EndpointVerificationResp(verified.is_ok()) is written whatever the result.
VerifyReply(s) ==
  /\ h[s].pc = "verifying"
  /\ lis["bi"] # "stopped"
  /\ \/ h[s].probe \in {"ok", "fail"}
     \/ h[s].probe \in {"dialing", "echoWait"}
  /\ Reply(s, "VerifResp")
  /\ h' = [h EXCEPT ![s].pc = "loopRead", ![s].probe = "none"]
  /\ UNCHANGED <<st, rd, queue, appGot, reqs, lis, halves, closeKind, ended, sendq>>

\* Mutant: read errors in the loop are skipped instead of ending it.
LoopReadIgnoreErrors(s) ==
  /\ h[s].pc = "loopRead"
  /\ lis["bi"] # "stopped"
  /\ \/ /\ Closed
        /\ UNCHANGED <<h, rd>>
     \/ /\ ~Closed /\ AtEof(s)
        /\ Goto(s, "done")
        /\ UNCHANGED rd
     \/ /\ ~Closed /\ Avail(s) /\ Cur(s) = "Bad"
        /\ Read(s) /\ Goto(s, "done")
     \/ /\ ~Closed /\ Avail(s) /\ Cur(s) # "Bad"
        /\ Read(s)
        /\ h' = [h EXCEPT ![s].pc = "control", ![s].msg = Cur(s)]
  /\ UNCHANGED <<st, queue, appGot, reqs, replies, lis, halves, closeKind, ended, sendq>>

\* The read at the bottom of handle_endpoint_message's loop.
LoopRead(s) ==
  /\ h[s].pc = "loopRead"
  /\ lis["bi"] # "stopped"
  /\ \/ /\ Closed
        /\ Goto(s, "done")
        /\ UNCHANGED rd
     \/ /\ ~Closed /\ AtEof(s)
        /\ Goto(s, "done")
        /\ UNCHANGED rd
     \/ /\ ~Closed /\ Avail(s) /\ Cur(s) = "Bad"
        /\ Read(s) /\ Goto(s, "done")
     \/ /\ ~Closed /\ Avail(s) /\ Cur(s) # "Bad"
        /\ Read(s)
        /\ h' = [h EXCEPT ![s].pc = "control", ![s].msg = Cur(s)]
  /\ UNCHANGED <<st, queue, appGot, reqs, replies, lis, halves, closeKind, ended, sendq>>

-----------------------------------------------------------------------------
(* Ends of the listeners, and the application.                             *)

\* After a benign close the accept loop has ended; the listener returns once
\* its last task is done.
ListenerDrained(l) ==
  /\ lis[l] = "draining"
  /\ \A s \in 1..Len(st) : Listener(s) = l => h[s].pc \notin Active
  /\ lis' = [lis EXCEPT ![l] = "stopped"]
  /\ UNCHANGED <<st, rd, h, queue, appGot, reqs, replies, halves, closeKind, ended, sendq>>

\* alive_rx.changed() resolves once every alive_tx is dropped: the select
\* drops the listener and every task in flight.
ListenersCancelled ==
  /\ halves = {}
  /\ \E l \in Listeners : lis[l] # "stopped"
  /\ lis' = [l \in Listeners |-> "stopped"]
  /\ UNCHANGED <<st, rd, h, queue, appGot, reqs, replies, halves, closeKind, ended, sendq>>

\* The application drops the Connection or the ConnectionIncoming; the
\* latter drops the receiver and every queued item.
DropHalf ==
  /\ \E x \in halves :
       /\ halves' = halves \ {x}
       /\ queue' = IF x = "incoming" THEN <<>> ELSE queue
  /\ UNCHANGED <<st, rd, h, appGot, reqs, replies, lis, closeKind, ended, sendq>>

\* ConnectionIncoming::next_stream: the next item, or None once both
\* listeners, and with them every message_tx, are gone.
NextStream ==
  /\ "incoming" \in halves
  /\ ~ended
  /\ \/ /\ queue # <<>>
        /\ appGot' = Append(appGot, Head(queue))
        /\ queue' = Tail(queue)
        /\ UNCHANGED ended
     \/ /\ queue = <<>>
        /\ \A l \in Listeners : lis[l] = "stopped"
        /\ ended' = TRUE
        /\ UNCHANGED <<queue, appGot>>
  /\ UNCHANGED <<st, rd, h, reqs, replies, lis, halves, closeKind, sendq>>

-----------------------------------------------------------------------------
TaskStep(s) ==
  \/ AcceptUni(s) \/ UniRead(s) \/ Enqueue(s)
  \/ AcceptBi(s) \/ BiRead(s) \/ HandleEndpointMessage(s) \/ VerifyReply(s)
  \/ LoopRead(s)

Next ==
  \/ PeerOpen \/ Close \/ ListenersCancelled \/ DropHalf \/ NextStream
  \/ \E s \in Sids : TaskStep(s) \/ Arrive(s) \/ VerifyDial(s) \/ VerifyEcho(s)
  \/ \E l \in Listeners : ListenerDrained(l)

\* The runtime polls every ready task, QUIC delivers what was sent while the
\* connection lives, the timeout always fires, and the application keeps
\* calling next_stream.  The probed address may never answer: VerifyDial and
\* VerifyEcho are not fair.
Fairness ==
  /\ \A s \in Sids : WF_vars(TaskStep(s)) /\ WF_vars(Arrive(s))
  /\ \A l \in Listeners : WF_vars(ListenerDrained(l))
  /\ WF_vars(ListenersCancelled)
  /\ WF_vars(NextStream)

Spec == Init /\ [][Next]_vars /\ Fairness

-----------------------------------------------------------------------------
TypeOK ==
  /\ Len(st) <= MaxStreams
  /\ \A s \in 1..Len(st) : st[s].arrived \in 0..Len(st[s].frames)
  /\ rd \in [Sids -> Nat]
  /\ h \in [Sids -> [pc : Pcs, msg : Kinds, item : Items, probe : Probes]]
  /\ Len(queue) <= Cap /\ \A i \in 1..Len(queue) : queue[i] \in Items
  /\ \A i \in 1..Len(appGot) : appGot[i] \in Items
  /\ lis \in [Listeners -> {"running", "draining", "stopped"}]
  /\ halves \subseteq Halves
  /\ closeKind \in {"none", "benign", "fatal"}
  /\ ended \in BOOLEAN


\* Got(s): the application has received stream s's first UserMsg.
Got(s) == \E i \in 1..Len(appGot) : appGot[i].ok /\ appGot[i].sid = s

\* A UserMsg that a stream task has read is not lost on its way to the
\* application: however full the queue is, the task waits for room
\* (message_tx.send) and the application eventually receives it, unless
\* the listener was cancelled or the application dropped its
\* ConnectionIncoming.
UserDelivered ==
  \A s \in Sids :
    (h[s].pc = "sending" /\ h[s].item.ok)
      ~> (Got(s) \/ Stopped(s) \/ "incoming" \notin halves)

\* On every bi-stream, handle_endpoint_message attempts exactly one reply
\* per EndpointEchoReq or EndpointVerificationReq, of the matching kind and
\* in request order, whatever the probe or the reply write does; once it
\* waits for the next frame, every request read so far has been answered.
RepliesMatchRequests ==
  \A s \in Sids :
    LET n == Len(replies[s]) IN
      /\ n <= Len(reqs[s])
      /\ \A i \in 1..n : Answers(replies[s][i], reqs[s][i])
      /\ h[s].pc \in {"loopRead", "done"} => n = Len(reqs[s])

\* Every endpoint request read on a bi-stream is eventually answered, even
\* when the probed address never answers (the verification timeout),
\* unless the listener is cancelled.
EveryRequestAnswered ==
  \A s \in Sids :
    Len(replies[s]) < Len(reqs[s]) ~> (Len(replies[s]) = Len(reqs[s]) \/ Stopped(s))

\* Once the connection is lost, an application that keeps calling
\* next_stream eventually gets None: every stream task finishes, both
\* listeners return and drop their senders.
AppSeesEnd ==
  Closed ~> (ended \/ "incoming" \notin halves)

\* spec.md section 7: benign closes (local or peer application close) are
\* turned into a clean end of stream and produce no application-visible
\* error.  A task already reading a stream when the connection is closed
\* gets ConnectionLost from read_from_stream and enqueues it as Err.
BenignCloseSilent ==
  closeKind = "benign" => \A i \in 1..Len(appGot) : appGot[i].cause # "lost"

\* The application's view of the queue: what the listeners have produced
\* and next_stream has not yet returned, queued items first, then the
\* sends still waiting, in the order they will take their slots.
Pending ==
  IF "incoming" \in halves
  THEN queue \o [k \in 1..Len(Waiting) |-> h[Waiting[k]].item]
  ELSE <<>>

Incoming == INSTANCE IncomingQueue
              WITH Item <- Items, Producers <- Listeners,
                   pending <- Pending, got <- appGot,
                   open <- "incoming" \in halves,
                   producing <- {l \in Listeners : lis[l] # "stopped"},
                   done <- ended

\* Demux implements IncomingQueue: next_stream returns the items of both
\* listeners in the order their tasks called message_tx.send, loses one
\* only when its listener is cancelled or fails, or the application drops
\* ConnectionIncoming, and returns None only after the last.  The order
\* holds because a full queue's waiting sends are served oldest first.
InboundRefinement == Incoming!Spec

=============================================================================
