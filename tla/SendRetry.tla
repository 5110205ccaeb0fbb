----------------------------- MODULE SendRetry -----------------------------
(***************************************************************************)
(* The send path of one qp2p connection (src/src/connection.rs):           *)
(* Connection::send and send_with wrap send_uni in the retry policy;       *)
(* send_uni opens a fresh uni-stream, writes one UserMsg and finishes the  *)
(* stream, treating a Stopped error of finish as success.  The retry       *)
(* policy (the backoff crate, configured by RetryConfig, not under src/)   *)
(* retries transient errors until its elapsed-time budget runs out and     *)
(* returns permanent ones; send_with classifies ConnectionLost as          *)
(* permanent and every other error as transient.                           *)
(*                                                                         *)
(* The peer is the receiving qp2p connection: its uni listener reads the   *)
(* first frame of each stream and hands it to the application, which may   *)
(* later drop the stream (STOP_SENDING); when its listeners are cancelled  *)
(* the streams they were reading are dropped, and stopped, unread.  A      *)
(* write is two steps, because quinn's write_all sends its first chunk     *)
(* before the rest: the peer sees the stream, and may stop it, in between. *)
(***************************************************************************)
EXTENDS Naturals, Sequences, FiniteSets

CONSTANTS
  Calls,        \* concurrent send_with calls on the connection
  Policy,       \* Policy[c]: "retry" (a RetryConfig is in force) or "none"
  MaxAttempts,  \* attempts the retry policy's max_elapsed_time allows
  MaxStreams    \* uni-streams the model lets the connection open

ASSUME /\ Policy \in [Calls -> {"retry", "none"}]
       /\ MaxAttempts \in Nat \ {0} /\ MaxStreams \in Nat

Errors == {"lost", "stopped"}  \* SendError::ConnectionLost, StreamLost(Stopped)
Levels == {"none", "part", "all"}

VARIABLES
  call,      \* call[c]: [pc, attempts, res]
  cur,       \* cur[c]: index of the stream of c's current attempt
  strm,      \* uni-streams opened: [call, data, at, read, stopped]
  lost,      \* the QUIC connection is lost
  cancelled  \* the peer's listeners have been cancelled

vars == <<call, cur, strm, lost, cancelled>>

Pcs == {"idle", "open", "write", "rest", "finish", "backoff", "done"}
Results == {"none", "ok"} \cup Errors

Init ==
  /\ call = [c \in Calls |-> [pc |-> "idle", attempts |-> 0, res |-> "none"]]
  /\ cur = [c \in Calls |-> 0]
  /\ strm = <<>>
  /\ lost = FALSE
  /\ cancelled = FALSE

-----------------------------------------------------------------------------
Rank(l) == CASE l = "none" -> 0 [] l = "part" -> 1 [] l = "all" -> 2
S(c) == strm[cur[c]]
SetStream(c, f, v) == strm' = [strm EXCEPT ![cur[c]][f] = v]
Return(c, r) == call' = [call EXCEPT ![c].pc = "done", ![c].res = r]

\* send_uni failed with error e: send_with's map_err classification and
\* the retry policy (a permanent error, or no policy, returns at once).
Fail(c, e) ==
  IF Policy[c] = "none" \/ e = "lost"
    THEN Return(c, e)
    ELSE call' = [call EXCEPT ![c].pc = "backoff", ![c].res = e]

\* The application calls send or send_with.
Start(c) ==
  /\ call[c].pc = "idle"
  /\ call' = [call EXCEPT ![c].pc = "open", ![c].attempts = 1]
  /\ UNCHANGED <<cur, strm, lost, cancelled>>

\* send_uni: open_uni, mapped to ConnectionLost on failure; set_priority
\* has no effect the model can see.
OpenUni(c) ==
  /\ call[c].pc = "open"
  /\ \/ /\ lost
        /\ Fail(c, "lost")
        /\ UNCHANGED <<cur, strm>>
     \/ /\ ~lost /\ Len(strm) < MaxStreams
        /\ strm' = Append(strm, [call |-> c, data |-> "none", at |-> "none",
                                 read |-> FALSE, stopped |-> FALSE])
        /\ cur' = [cur EXCEPT ![c] = Len(strm) + 1]
        /\ call' = [call EXCEPT ![c].pc = "write"]
  /\ UNCHANGED <<lost, cancelled>>

\* send_user_msg: the first chunk of the framed UserMsg leaves.  The peer
\* has not seen the stream yet, so only the loss of the connection can
\* make it fail.
WriteChunk(c) ==
  /\ call[c].pc = "write"
  /\ \/ /\ lost
        /\ Fail(c, "lost")
        /\ UNCHANGED strm
     \/ /\ ~lost
        /\ SetStream(c, "data", "part")
        /\ call' = [call EXCEPT ![c].pc = "rest"]
  /\ UNCHANGED <<cur, lost, cancelled>>

\* send_user_msg: the rest of the frame; write_all fails if the peer
\* stopped the stream or the connection was lost meanwhile.
WriteRest(c) ==
  /\ call[c].pc = "rest"
  /\ \/ /\ lost
        /\ Fail(c, "lost")
        /\ UNCHANGED strm
     \/ /\ ~lost /\ S(c).stopped
        /\ Fail(c, "stopped")
        /\ UNCHANGED strm
     \/ /\ ~lost /\ ~S(c).stopped
        /\ SetStream(c, "data", "all")
        /\ call' = [call EXCEPT ![c].pc = "finish"]
  /\ UNCHANGED <<cur, lost, cancelled>>

\* Mutant: finish's Stopped error is returned like any other, so the retry
\* policy runs send_uni again.
FinishSurfaceStopped(c) ==
  /\ call[c].pc = "finish"
  /\ \/ /\ S(c).at = "all"
        /\ Return(c, "ok")
     \/ /\ S(c).stopped
        /\ Fail(c, "stopped")
     \/ /\ lost
        /\ Fail(c, "lost")
  /\ UNCHANGED <<cur, strm, lost, cancelled>>

\* finish(): completes once the peer acknowledged all data, and fails with
\* Stopped or ConnectionLost; send_uni turns Stopped into Ok.
Finish(c) ==
  /\ call[c].pc = "finish"
  /\ \/ /\ S(c).at = "all" \/ S(c).stopped
        /\ Return(c, "ok")
     \/ /\ lost
        /\ Fail(c, "lost")
  /\ UNCHANGED <<cur, strm, lost, cancelled>>

\* Mutant: the budget check is off by one.
BackoffOffByOne(c) ==
  /\ call[c].pc = "backoff"
  /\ call[c].attempts <= MaxAttempts
  /\ call' = [call EXCEPT ![c].pc = "open", ![c].attempts = @ + 1]
  /\ UNCHANGED <<cur, strm, lost, cancelled>>

\* The retry policy sleeps and runs the whole send_uni again, as long as
\* its elapsed-time budget lasts.
Backoff(c) ==
  /\ call[c].pc = "backoff"
  /\ call[c].attempts < MaxAttempts
  /\ call' = [call EXCEPT ![c].pc = "open", ![c].attempts = @ + 1]
  /\ UNCHANGED <<cur, strm, lost, cancelled>>

\* The elapsed-time budget is spent: the last transient error is returned.
GiveUp(c) ==
  /\ call[c].pc = "backoff"
  /\ Return(c, call[c].res)
  /\ UNCHANGED <<cur, strm, lost, cancelled>>

CallStep(c) ==
  \/ OpenUni(c) \/ WriteChunk(c) \/ WriteRest(c) \/ Finish(c)
  \/ Backoff(c) \/ GiveUp(c)

-----------------------------------------------------------------------------
(* The network and the peer. *)

\* The bytes written so far reach the peer's QUIC stack, which acknowledges
\* them.
Arrive(s) ==
  /\ ~lost
  /\ Rank(strm[s].at) < Rank(strm[s].data)
  /\ strm' = [strm EXCEPT ![s].at = strm[s].data]
  /\ UNCHANGED <<call, cur, lost, cancelled>>

\* The peer's uni listener reads the UserMsg and queues it for its
\* application.
PeerRead(s) ==
  /\ ~lost /\ ~cancelled
  /\ strm[s].at = "all" /\ ~strm[s].read /\ ~strm[s].stopped
  /\ strm' = [strm EXCEPT ![s].read = TRUE]
  /\ UNCHANGED <<call, cur, lost, cancelled>>

\* The peer's application drops the RecvStream it received.
PeerDropRecv(s) ==
  /\ strm[s].read /\ ~strm[s].stopped
  /\ strm' = [strm EXCEPT ![s].stopped = TRUE]
  /\ UNCHANGED <<call, cur, lost, cancelled>>

\* The peer drops both halves of its connection: the alive token cancels
\* its listeners.
PeerCancel ==
  /\ ~cancelled
  /\ cancelled' = TRUE
  /\ UNCHANGED <<call, cur, strm, lost>>

\* A cancelled listener task drops the stream it was reading.
PeerStopUnread(s) ==
  /\ cancelled
  /\ strm[s].at # "none" /\ ~strm[s].read /\ ~strm[s].stopped
  /\ strm' = [strm EXCEPT ![s].stopped = TRUE]
  /\ UNCHANGED <<call, cur, lost, cancelled>>

\* The connection is lost: closed, timed out or reset.
Lose ==
  /\ ~lost
  /\ lost' = TRUE
  /\ UNCHANGED <<call, cur, strm, cancelled>>

Next ==
  \/ \E c \in Calls : Start(c) \/ CallStep(c)
  \/ \E s \in 1..Len(strm) :
       Arrive(s) \/ PeerRead(s) \/ PeerDropRecv(s) \/ PeerStopUnread(s)
  \/ PeerCancel
  \/ Lose

\* tokio runs every ready task, the network delivers while the connection
\* lasts, and the peer's listener reads what arrived.  The applications,
\* the cancellation and the loss of the connection are not fair.
Fairness ==
  /\ \A c \in Calls : WF_vars(CallStep(c))
  /\ \A s \in 1..MaxStreams :
       /\ WF_vars(s <= Len(strm) /\ Arrive(s))
       /\ WF_vars(s <= Len(strm) /\ PeerRead(s))

Spec == Init /\ [][Next]_vars /\ Fairness

-----------------------------------------------------------------------------
TypeOK ==
  /\ call \in [Calls -> [pc : Pcs, attempts : 0..MaxAttempts, res : Results]]
  /\ cur \in [Calls -> 0..MaxStreams]
  /\ Len(strm) <= MaxStreams
  /\ \A s \in 1..Len(strm) :
       strm[s] \in [call : Calls, data : Levels, at : Levels,
                    read : BOOLEAN, stopped : BOOLEAN]
  /\ lost \in BOOLEAN /\ cancelled \in BOOLEAN


\* Delivered(c): the streams on which the peer's application received the
\* message of call c.
Delivered(c) == {s \in 1..Len(strm) : strm[s].call = c /\ strm[s].read}

\* A retried send never hands its message to the peer's application twice:
\* a retry starts only after an error that shows the earlier stream was not
\* read, because send_uni treats the Stopped error of finish (the peer read
\* the message and dropped the stream) as success.
AtMostOnceDelivery ==
  \A c \in Calls : Cardinality(Delivered(c)) <= 1

=============================================================================
