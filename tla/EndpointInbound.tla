--------------------------- MODULE EndpointInbound ---------------------------
(***************************************************************************)
(* The receive path of one accepted connection, end to end: the            *)
(* connection's listeners and queue (module Demux) read by the endpoint's  *)
(* listen_for_incoming_messages (src/src/connection_handle.rs), which       *)
(* forwards each message to the endpoint's incoming-messages channel,      *)
(* stops at the first None or Err, removes the connection from the pool    *)
(* and then drops its ConnectionHandle and ConnectionIncoming.             *)
(*                                                                         *)
(* connection_handle.rs calls ConnectionIncoming::next, which this         *)
(* connection.rs does not have; it is taken to be next_stream with the     *)
(* payload kept, as its Ok(Some(msg)), Ok(None) and Err arms suggest.      *)
(* The loop owns ConnectionIncoming, so the application never calls        *)
(* next_stream here, and its handle keeps the Connection half alive.       *)
(***************************************************************************)
EXTENDS Demux

VARIABLES
  lp,      \* the loop: "running", "removing" (after break) or "done"
  fwd,     \* streams whose message the loop forwarded to message_tx
  inPool   \* the connection is still in the endpoint's pool

loopVars == <<lp, fwd, inPool>>
allVars == <<vars, loopVars>>

InboundInit ==
  /\ Init
  /\ lp = "running" /\ fwd = {} /\ inPool = TRUE

\* connection_incoming.next().await: Ok(Some(msg)) is forwarded
\* (let _ = message_tx.send(..)); Err and Ok(None) break the loop.
MsgLoopNext ==
  /\ lp = "running"
  /\ \/ /\ queue # <<>> /\ Head(queue).ok
        /\ fwd' = fwd \cup {Head(queue).sid}
        /\ UNCHANGED lp
     \/ /\ queue # <<>> /\ ~Head(queue).ok
        /\ lp' = "removing"
        /\ UNCHANGED fwd
     \/ /\ queue = <<>> /\ \A l \in Listeners : lis[l] = "stopped"
        /\ lp' = "removing"
        /\ UNCHANGED fwd
  /\ queue' = IF queue # <<>> THEN Tail(queue) ELSE queue
  /\ appGot' = IF queue # <<>> THEN Append(appGot, Head(queue)) ELSE appGot
  /\ UNCHANGED <<st, rd, h, reqs, replies, lis, halves, closeKind, ended, sendq, inPool>>

\* connection.remover.remove().await, after which the task ends and drops
\* its ConnectionHandle and ConnectionIncoming (and every queued item).
MsgLoopRemove ==
  /\ lp = "removing"
  /\ inPool' = FALSE /\ lp' = "done"
  /\ halves' = halves \ {"incoming"} /\ queue' = <<>>
  /\ UNCHANGED <<st, rd, h, appGot, reqs, replies, lis, closeKind, ended, sendq, fwd>>

\* The pool and the application drop their handles; the loop's own handle
\* keeps the Connection half until the loop is done.
DropHandles ==
  /\ lp = "done" /\ "conn" \in halves
  /\ halves' = halves \ {"conn"}
  /\ UNCHANGED <<st, rd, h, queue, appGot, reqs, replies, lis, closeKind, ended, sendq, loopVars>>

DemuxStep ==
  /\ \/ PeerOpen \/ Close \/ ListenersCancelled
     \/ \E s \in Sids : TaskStep(s) \/ Arrive(s) \/ VerifyDial(s) \/ VerifyEcho(s)
     \/ \E l \in Listeners : ListenerDrained(l)
  /\ UNCHANGED loopVars

InboundNext == DemuxStep \/ MsgLoopNext \/ MsgLoopRemove \/ DropHandles

\* Demux's fairness, with the loop in place of the application's reads.
InboundSpec ==
  /\ InboundInit /\ [][InboundNext]_allVars
  /\ \A s \in Sids : WF_allVars(TaskStep(s) /\ UNCHANGED loopVars)
                  /\ WF_allVars(Arrive(s) /\ UNCHANGED loopVars)
  /\ \A l \in Listeners : WF_allVars(ListenerDrained(l) /\ UNCHANGED loopVars)
  /\ WF_allVars(ListenersCancelled /\ UNCHANGED loopVars)
  /\ WF_allVars(MsgLoopNext) /\ WF_allVars(MsgLoopRemove)

-----------------------------------------------------------------------------
\* spec.md section 5: the endpoint forwards each UserMsg of an accepted
\* connection to the incoming-messages queue; section 6: a decode or
\* unexpected-message error on one stream is a single error item and the
\* acceptor continues on the other streams.  Every UserMsg a stream task
\* has read is forwarded unless the connection is closed.
UserMsgForwarded ==
  \A s \in Sids :
    (h[s].pc = "sending" /\ h[s].item.ok) ~> (s \in fwd \/ Closed)

=============================================================================
