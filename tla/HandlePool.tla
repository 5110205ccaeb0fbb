----------------------------- MODULE HandlePool -----------------------------
(***************************************************************************)
(* Connection handles and the connection pool of one endpoint, for the     *)
(* connections to one peer identity (src/src/connection_handle.rs).        *)
(*                                                                         *)
(* listen_for_incoming_connections accepts inbound connections, inserts    *)
(* each in the pool, emits a ConnectionHandle on the incoming-connections  *)
(* channel and spawns listen_for_incoming_messages, which forwards the     *)
(* connection's messages until its ConnectionIncoming ends and then        *)
(* removes the connection from the pool.  ConnectionHandle::send and       *)
(* open_bi remove the connection from the pool whenever they fail          *)
(* (handle_error).  The pool (connection_pool.rs, not under src/) and      *)
(* get_or_dial (endpoint.rs, not under src/) are modelled from spec.md     *)
(* section 4.6: insert gives the entry a fresh generation, remove evicts   *)
(* the entry only if the generation matches, and concurrent dials of the   *)
(* same identity are deduplicated.                                         *)
(*                                                                         *)
(* Every connection is to the same identity: the pool's races are races    *)
(* between connections of one identity.  Messages are left out; what      *)
(* matters is when a loop or a send learns that its connection is lost.    *)
(***************************************************************************)
EXTENDS Naturals, Sequences, FiniteSets

CONSTANTS
  Conns,      \* QUIC connections to the peer, inbound or dialled
  Users,      \* application tasks using handles
  ConnTxCap,  \* capacity of the incoming-connections channel
  NoConn

ASSUME ConnTxCap \in Nat \ {0} /\ NoConn \notin Conns

VARIABLES
  conn,     \* conn[c]: "unborn", "handshake", "up", "lost" or "failed"
  gen,      \* gen[c]: generation of the pool entry c was inserted with (0: none)
  pool,     \* the entry of the identity: [present, conn, gen]
  nextGen,  \* generations handed out so far
  removed,  \* generations remove() has been called with
  acc,      \* the accept loop: [pc, c]
  connTx,   \* the incoming-connections channel
  loop,     \* loop[c]: listen_for_incoming_messages of c
  dialing,  \* the connection get_or_dial is establishing, or NoConn
  user,     \* user[u]: [pc, h], h the connection of the handle u holds
  demux,    \* demux[c]: c's stream listeners are running
  inbound,  \* connections accepted by listen_for_incoming_connections
  rxDropped \* the application dropped the incoming-connections receiver

vars == <<conn, gen, pool, nextGen, removed, acc, connTx, loop, dialing, user, demux, inbound, rxDropped>>

ConnStates == {"unborn", "handshake", "up", "lost", "failed"}
AccPcs == {"next", "handshake", "emit", "stopped"}
LoopPcs == {"none", "running", "ended", "done"}
UserPcs == {"idle", "dialing", "holding", "sending", "removing", "failed"}

Init ==
  /\ conn = [c \in Conns |-> "unborn"]
  /\ gen = [c \in Conns |-> 0]
  /\ pool = [present |-> FALSE, conn |-> NoConn, gen |-> 0]
  /\ nextGen = 0
  /\ removed = {}
  /\ acc = [pc |-> "next", c |-> NoConn]
  /\ connTx = <<>>
  /\ loop = [c \in Conns |-> "none"]
  /\ dialing = NoConn
  /\ user = [u \in Users |-> [pc |-> "idle", h |-> NoConn]]
  /\ demux = [c \in Conns |-> FALSE]
  /\ inbound = {}
  /\ rxDropped = FALSE

-----------------------------------------------------------------------------
(* The pool (spec.md 4.6). *)

\* insert(id, addr, connection): a fresh generation replaces the entry.
PoolInsert(c) ==
  /\ nextGen' = nextGen + 1
  /\ gen' = [gen EXCEPT ![c] = nextGen + 1]
  /\ pool' = [present |-> TRUE, conn |-> c, gen |-> nextGen + 1]

\* remove() of the handle of connection c: evicts the entry only if it is
\* still the one c was inserted with; idempotent.
PoolRemove(c) ==
  /\ removed' = removed \cup {gen[c]}
  /\ pool' = IF pool.present /\ pool.gen = gen[c]
               THEN [present |-> FALSE, conn |-> NoConn, gen |-> 0]
               ELSE pool

\* Connection::new starts the stream listeners of c.
NewConnection(c) == demux' = [demux EXCEPT ![c] = TRUE]

-----------------------------------------------------------------------------
(* listen_for_incoming_connections *)

\* quinn_incoming.next() yields a connecting inbound connection.
AccNext(c) ==
  /\ acc.pc = "next" /\ conn[c] = "unborn"
  /\ conn' = [conn EXCEPT ![c] = "handshake"]
  /\ acc' = [pc |-> "handshake", c |-> c]
  /\ inbound' = inbound \cup {c}
  /\ UNCHANGED <<gen, pool, nextGen, removed, connTx, loop, dialing, user, demux, rxDropped>>

\* The endpoint is closed: quinn_incoming.next() returns None.
AccEnd ==
  /\ acc.pc = "next"
  /\ acc' = [acc EXCEPT !.pc = "stopped"]
  /\ UNCHANGED <<conn, gen, pool, nextGen, removed, connTx, loop, dialing, user, demux, inbound, rxDropped>>

\* quinn_conn.await: on success Connection::new and connection_pool.insert;
\* on failure a warning and the next connection.
AccHandshake ==
  LET c == acc.c IN
  /\ acc.pc = "handshake"
  /\ \/ /\ conn' = [conn EXCEPT ![c] = "up"]
        /\ NewConnection(c)
        /\ PoolInsert(c)
        /\ acc' = [acc EXCEPT !.pc = "emit"]
     \/ /\ conn' = [conn EXCEPT ![c] = "failed"]
        /\ acc' = [pc |-> "next", c |-> NoConn]
        /\ UNCHANGED <<demux, gen, pool, nextGen>>
  /\ UNCHANGED <<removed, connTx, loop, dialing, user, inbound, rxDropped>>

\* Mutant: the channel does not bound what it holds.
AccEmitUnbounded ==
  /\ acc.pc = "emit"
  /\ connTx' = Append(connTx, acc.c)
  /\ loop' = [loop EXCEPT ![acc.c] = "running"]
  /\ acc' = [pc |-> "next", c |-> NoConn]
  /\ UNCHANGED <<conn, gen, pool, nextGen, removed, dialing, user, demux, inbound, rxDropped>>

\* Mutant: a failed send ends the accept loop before the message loop is
\* spawned, as connection_tx.send(..).await? would.
AccEmitStopsOnError ==
  /\ acc.pc = "emit"
  /\ \/ /\ ~rxDropped /\ Len(connTx) < ConnTxCap
        /\ connTx' = Append(connTx, acc.c)
        /\ loop' = [loop EXCEPT ![acc.c] = "running"]
        /\ acc' = [pc |-> "next", c |-> NoConn]
     \/ /\ rxDropped
        /\ acc' = [acc EXCEPT !.pc = "stopped"]
        /\ UNCHANGED <<connTx, loop>>
  /\ UNCHANGED <<conn, gen, pool, nextGen, removed, dialing, user, demux, inbound, rxDropped>>

\* let _ = connection_tx.send(handle).await waits for room, or fails at once
\* if the receiver is gone; either way the message loop is then spawned.
AccEmit ==
  /\ acc.pc = "emit"
  /\ \/ /\ ~rxDropped /\ Len(connTx) < ConnTxCap
        /\ connTx' = Append(connTx, acc.c)
     \/ /\ rxDropped
        /\ UNCHANGED connTx
  /\ loop' = [loop EXCEPT ![acc.c] = "running"]
  /\ acc' = [pc |-> "next", c |-> NoConn]
  /\ UNCHANGED <<conn, gen, pool, nextGen, removed, dialing, user, demux, inbound, rxDropped>>

-----------------------------------------------------------------------------
(* listen_for_incoming_messages *)

\* connection_incoming.next() returns Ok(None) or Err once the connection
\* is lost; the messages it forwards before that are left out.
LoopNext(c) ==
  /\ loop[c] = "running" /\ conn[c] = "lost"
  /\ loop' = [loop EXCEPT ![c] = "ended"]
  /\ UNCHANGED <<conn, gen, pool, nextGen, removed, acc, connTx, dialing, user, demux, inbound, rxDropped>>

\* An Err from one stream (a decode error, an unexpected message) also
\* breaks the loop while the connection is up.  Whether a peer sends such
\* a stream is up to the peer, so this step is not fair.
LoopStreamErr(c) ==
  /\ loop[c] = "running" /\ conn[c] = "up"
  /\ loop' = [loop EXCEPT ![c] = "ended"]
  /\ UNCHANGED <<conn, gen, pool, nextGen, removed, acc, connTx, dialing, user, demux, inbound, rxDropped>>

\* Mutant: the loop ends without removing its connection.
LoopRemoveSkip(c) ==
  /\ loop[c] = "ended"
  /\ loop' = [loop EXCEPT ![c] = "done"]
  /\ UNCHANGED <<conn, gen, pool, nextGen, removed, acc, connTx, dialing, user, demux, inbound, rxDropped>>

\* After the loop: connection.remover.remove().await.
LoopRemove(c) ==
  /\ loop[c] = "ended"
  /\ PoolRemove(c)
  /\ loop' = [loop EXCEPT ![c] = "done"]
  /\ UNCHANGED <<conn, gen, nextGen, acc, connTx, dialing, user, demux, inbound, rxDropped>>


-----------------------------------------------------------------------------
(* The application's tasks and ConnectionHandle *)

\* get_or_dial (spec.md 4.6): a clone of the pooled handle, or a new dial,
\* or a wait for the dial already in flight.
GetOrDial(u) ==
  /\ user[u].pc = "idle"
  /\ \/ /\ pool.present
        /\ user' = [user EXCEPT ![u] = [pc |-> "holding", h |-> pool.conn]]
        /\ UNCHANGED <<conn, dialing>>
     \/ /\ ~pool.present /\ dialing = NoConn
        /\ \E c \in Conns :
             /\ conn[c] = "unborn"
             /\ conn' = [conn EXCEPT ![c] = "handshake"]
             /\ dialing' = c
        /\ user' = [user EXCEPT ![u].pc = "dialing"]
     \/ /\ ~pool.present /\ dialing # NoConn
        /\ user' = [user EXCEPT ![u].pc = "dialing"]
        /\ UNCHANGED <<conn, dialing>>
  /\ UNCHANGED <<gen, pool, nextGen, removed, acc, connTx, loop, demux, inbound, rxDropped>>

\* The dial completes: the connection is inserted and every waiter gets a
\* handle, or the dial fails and every waiter gets the error.
DialDone ==
  LET c == dialing
      waiters == {u \in Users : user[u].pc = "dialing"}
  IN
  /\ c # NoConn
  /\ \/ /\ conn' = [conn EXCEPT ![c] = "up"]
        /\ NewConnection(c)
        /\ PoolInsert(c)
        /\ user' = [u \in Users |-> IF u \in waiters
                                       THEN [pc |-> "holding", h |-> c] ELSE user[u]]
     \/ /\ conn' = [conn EXCEPT ![c] = "failed"]
        /\ user' = [u \in Users |-> IF u \in waiters
                                       THEN [pc |-> "idle", h |-> NoConn] ELSE user[u]]
        /\ UNCHANGED <<demux, gen, pool, nextGen>>
  /\ dialing' = NoConn
  /\ UNCHANGED <<removed, acc, connTx, loop, inbound, rxDropped>>

\* The application receives a handle from the incoming-connections channel
\* and keeps it in task u, or drops it.
TakeIncoming ==
  /\ connTx # <<>>
  /\ connTx' = Tail(connTx)
  /\ \/ \E u \in Users :
          /\ user[u].pc = "idle"
          /\ user' = [user EXCEPT ![u] = [pc |-> "holding", h |-> Head(connTx)]]
     \/ UNCHANGED user
  /\ UNCHANGED <<conn, gen, pool, nextGen, removed, acc, loop, dialing, demux, inbound, rxDropped>>

\* The application drops its IncomingConnections receiver; the handles
\* still buffered in the channel are dropped with it.
DropIncoming ==
  /\ ~rxDropped
  /\ rxDropped' = TRUE
  /\ connTx' = <<>>
  /\ UNCHANGED <<conn, gen, pool, nextGen, removed, acc, loop, dialing, user, demux, inbound>>

\* ConnectionHandle::send, send_with or open_bi is called.
Send(u) ==
  /\ user[u].pc = "holding"
  /\ user' = [user EXCEPT ![u].pc = "sending"]
  /\ UNCHANGED <<conn, gen, pool, nextGen, removed, acc, connTx, loop, dialing, demux, inbound, rxDropped>>

\* Mutant: the error is returned without going through handle_error.
SendDoneSkipsRemove(u) ==
  LET c == user[u].h IN
  /\ user[u].pc = "sending"
  /\ \/ /\ conn[c] = "up"
        /\ user' = [user EXCEPT ![u].pc = "holding"]
     \/ user' = [user EXCEPT ![u].pc = "failed"]
  /\ UNCHANGED <<conn, gen, pool, nextGen, removed, acc, connTx, loop, dialing, demux, inbound, rxDropped>>

\* The call completes.  It fails once the connection is lost, and may fail
\* on a live connection too (a stream error the retries did not overcome);
\* handle_error then goes on to remove the handle's entry.
SendDone(u) ==
  LET c == user[u].h IN
  /\ user[u].pc = "sending"
  /\ \/ /\ conn[c] = "up"
        /\ user' = [user EXCEPT ![u].pc = "holding"]
     \/ user' = [user EXCEPT ![u].pc = "removing"]
  /\ UNCHANGED <<conn, gen, pool, nextGen, removed, acc, connTx, loop, dialing, demux, inbound, rxDropped>>

\* handle_error: self.remover.remove().await, then the error is returned.
HandleError(u) ==
  /\ user[u].pc = "removing"
  /\ PoolRemove(user[u].h)
  /\ user' = [user EXCEPT ![u].pc = "failed"]
  /\ UNCHANGED <<conn, gen, nextGen, acc, connTx, loop, dialing, demux, inbound, rxDropped>>

\* The task drops its handle.
DropHandle(u) ==
  /\ user[u].pc \in {"holding", "failed"}
  /\ user' = [user EXCEPT ![u] = [pc |-> "idle", h |-> NoConn]]
  /\ UNCHANGED <<conn, gen, pool, nextGen, removed, acc, connTx, loop, dialing, demux, inbound, rxDropped>>

-----------------------------------------------------------------------------
(* The connection's lifetime *)

\* The QUIC connection is lost: closed by either side or timed out.
Lose(c) ==
  /\ conn[c] = "up"
  /\ conn' = [conn EXCEPT ![c] = "lost"]
  /\ UNCHANGED <<gen, pool, nextGen, removed, acc, connTx, loop, dialing, user, demux, inbound, rxDropped>>

\* Holders(c): who holds a clone of c's alive token: a ConnectionHandle or
\* Connection of an application task, of the channel, of the accept loop,
\* of the message loop or of the pool.
Holders(c) ==
  {u \in Users : user[u].h = c}
  \cup (IF \E i \in 1..Len(connTx) : connTx[i] = c THEN {"channel"} ELSE {})
  \cup (IF acc.pc = "emit" /\ acc.c = c THEN {"accept"} ELSE {})
  \cup (IF loop[c] \in {"running", "ended"} THEN {"loop"} ELSE {})
  \cup (IF pool.present /\ pool.conn = c THEN {"pool"} ELSE {})

\* start_message_listeners' tasks end when the connection ends or when
\* every alive sender is dropped.
DemuxStop(c) ==
  /\ demux[c]
  /\ conn[c] = "lost" \/ Holders(c) = {}
  /\ demux' = [demux EXCEPT ![c] = FALSE]
  /\ UNCHANGED <<conn, gen, pool, nextGen, removed, acc, connTx, loop, dialing, user, inbound, rxDropped>>

Next ==
  \/ \E c \in Conns : AccNext(c) \/ LoopNext(c) \/ LoopStreamErr(c) \/ LoopRemove(c) \/ Lose(c) \/ DemuxStop(c)
  \/ AccEnd \/ AccHandshake \/ AccEmit
  \/ DialDone \/ TakeIncoming \/ DropIncoming
  \/ \E u \in Users :
       GetOrDial(u) \/ Send(u) \/ SendDone(u) \/ HandleError(u) \/ DropHandle(u)

\* tokio runs the accept loop, the message loops, the listeners and every
\* pending call; dials complete; the application drains the
\* incoming-connections channel while it keeps the receiver.  What the
\* application calls and drops, and when a connection is lost, are not fair.
Fairness ==
  /\ WF_vars(AccHandshake) /\ WF_vars(AccEmit) /\ WF_vars(DialDone)
  /\ WF_vars(TakeIncoming)
  /\ \A c \in Conns : WF_vars(LoopNext(c)) /\ WF_vars(LoopRemove(c)) /\ WF_vars(DemuxStop(c))
  /\ \A u \in Users : WF_vars(SendDone(u)) /\ WF_vars(HandleError(u))

Spec == Init /\ [][Next]_vars /\ Fairness

-----------------------------------------------------------------------------
TypeOK ==
  /\ conn \in [Conns -> ConnStates]
  /\ gen \in [Conns -> 0..Cardinality(Conns)]
  /\ pool \in [present : BOOLEAN, conn : Conns \cup {NoConn}, gen : 0..Cardinality(Conns)]
  /\ nextGen \in 0..Cardinality(Conns) /\ removed \subseteq 1..Cardinality(Conns)
  /\ acc \in [pc : AccPcs, c : Conns \cup {NoConn}]
  /\ Len(connTx) <= ConnTxCap
  /\ loop \in [Conns -> LoopPcs]
  /\ dialing \in Conns \cup {NoConn}
  /\ user \in [Users -> [pc : UserPcs, h : Conns \cup {NoConn}]]
  /\ demux \in [Conns -> BOOLEAN] /\ inbound \subseteq Conns
  /\ rxDropped \in BOOLEAN


\* Pooled(c): the pool's entry holds connection c.
Pooled(c) == pool.present /\ pool.conn = c

\* spec.md section 8: after any send error the corresponding pool entry is
\* absent.  The same holds once listen_for_incoming_messages has ended:
\* ConnectionHandle::handle_error and the loop remove before they return.
FailedNotPooled ==
  \A c \in Conns :
    (loop[c] = "done" \/ \E u \in Users : user[u].pc = "failed" /\ user[u].h = c)
      => ~Pooled(c)

\* An accepted connection that is lost is eventually taken out of the pool
\* by its message loop, so that get_or_dial dials afresh, as long as the
\* application drains the incoming-connections channel.
LostInboundRemoved ==
  \A c \in Conns : (c \in inbound /\ conn[c] = "lost" /\ Pooled(c)) ~> ~Pooled(c)

\* Every inbound connection that completes its handshake eventually gets
\* its message loop, however the application treats the incoming-connections
\* channel: listen_for_incoming_connections waits for room while the
\* receiver is kept and drained, ignores the send error once it is dropped,
\* and spawns listen_for_incoming_messages in both cases.
InboundListened ==
  \A c \in Conns : (acc.pc = "emit" /\ acc.c = c) ~> loop[c] # "none"

\* spec.md sections 5 and 8: dropping the application's handles of a
\* connection stops its background listeners.  Here the application holds
\* no handle of c and the pool no longer holds c, but
\* listen_for_incoming_messages still owns a ConnectionHandle, and with it
\* the alive token, until the connection ends.
ListenersStopWhenDropped ==
  \A c \in Conns :
    (demux[c] /\ conn[c] = "up" /\ Holders(c) \subseteq {"loop"}) ~> ~demux[c]

=============================================================================
