------------------------------ MODULE P2PNode ------------------------------
(***************************************************************************)
(* The example node of src/examples/p2p_node.rs: main dials each peer      *)
(* named on the command line and sends it "marco", then loops over the     *)
(* endpoint's incoming connections and, for each, over its incoming        *)
(* messages, answering every "marco" with "polo" on the same connection.   *)
(*                                                                         *)
(* The endpoint (endpoint.rs, not under src/) is abstracted to what the    *)
(* example uses of it: incoming_conns yields the accepted connections in   *)
(* order, each with its own queue of messages, which ends with None when   *)
(* the peer closes the connection and with Err when it fails.  Remote      *)
(* peers connect, send the messages of their script, and close or fail     *)
(* whenever they like; nothing in the example closes the endpoint, so      *)
(* incoming_conns never ends.                                              *)
(***************************************************************************)
EXTENDS Naturals, Sequences, FiniteSets

CONSTANTS
  Peers,    \* remote peers that may connect to the node
  Script,   \* Script[p]: the messages peer p sends, in order
  Args      \* the peers given on the command line, in order

Msgs == {"marco", "other"}

ASSUME Script \in [Peers -> Seq(Msgs)] /\ Args \in Seq(STRING)

VARIABLES
  pc,       \* main: "dial", "accept", "read", "reply" or "exited"
  i,        \* the next command-line argument to dial
  why,      \* why main returned: "none", "dial", "recv" or "send"
  cur,      \* the connection main is reading
  accepted, \* incoming_conns: connections accepted and not yet taken
  state,    \* state[p]: "none", "up", "closed" or "failed"
  sent,     \* sent[p]: messages of Script[p] that p has sent
  read,     \* read[p]: messages of p that main has read
  replies   \* replies[p]: "polo"s main has sent to p

vars == <<pc, i, why, cur, accepted, state, sent, read, replies>>

Init ==
  /\ pc = "dial" /\ i = 1 /\ why = "none"
  /\ cur = CHOOSE p \in Peers : TRUE
  /\ accepted = <<>>
  /\ state = [p \in Peers |-> "none"]
  /\ sent = [p \in Peers |-> 0]
  /\ read = [p \in Peers |-> 0]
  /\ replies = [p \in Peers |-> 0]

Exit(w) == pc' = "exited" /\ why' = w

-----------------------------------------------------------------------------
(* main *)

\* node.connect_to(&peer).await?.0.send(marco).await? for the next
\* argument: a failed dial or send ends main; after the last argument
\* main goes on to the incoming connections.
DialArg ==
  /\ pc = "dial"
  /\ \/ /\ i <= Len(Args)
        /\ \/ i' = i + 1 /\ UNCHANGED <<pc, why>>
           \/ Exit("dial") /\ UNCHANGED i
     \/ /\ i > Len(Args)
        /\ pc' = "accept"
        /\ UNCHANGED <<i, why>>
  /\ UNCHANGED <<cur, accepted, state, sent, read, replies>>

\* while let Some((connection, incoming_messages)) = incoming_conns.next().
AcceptNext ==
  /\ pc = "accept" /\ accepted # <<>>
  /\ cur' = Head(accepted) /\ accepted' = Tail(accepted)
  /\ pc' = "read"
  /\ UNCHANGED <<i, why, state, sent, read, replies>>

\* Arrived(p): messages of p waiting in its incoming_messages.
Arrived(p) == sent[p] - read[p]

\* Mutant: the end of a connection's messages is not noticed.
ReadNextIgnoreEnd ==
  /\ pc = "read"
  /\ Arrived(cur) > 0
  /\ read' = [read EXCEPT ![cur] = @ + 1]
  /\ pc' = IF Script[cur][read[cur] + 1] = "marco" THEN "reply" ELSE "read"
  /\ UNCHANGED <<i, why, cur, accepted, state, sent, replies>>

\* Mutant: a message is read before it has arrived.
ReadNextPastEnd ==
  /\ pc = "read"
  /\ Arrived(cur) >= 0 /\ read[cur] < Len(Script[cur])
  /\ read' = [read EXCEPT ![cur] = @ + 1]
  /\ pc' = IF Script[cur][read[cur] + 1] = "marco" THEN "reply" ELSE "read"
  /\ UNCHANGED <<i, why, cur, accepted, state, sent, replies>>

\* while let Some(bytes) = incoming_messages.next().await?: a message, on
\* which main replies if it is "marco"; None, after which main takes the
\* next connection; or Err, which the ? returns from main.
ReadNext ==
  /\ pc = "read"
  /\ \/ /\ Arrived(cur) > 0
        /\ read' = [read EXCEPT ![cur] = @ + 1]
        /\ pc' = IF Script[cur][read[cur] + 1] = "marco" THEN "reply" ELSE "read"
        /\ UNCHANGED why
     \/ /\ Arrived(cur) = 0 /\ state[cur] = "closed"
        /\ pc' = "accept"
        /\ UNCHANGED <<read, why>>
     \/ /\ Arrived(cur) = 0 /\ state[cur] = "failed"
        /\ Exit("recv")
        /\ UNCHANGED read
  /\ UNCHANGED <<i, cur, accepted, state, sent, replies>>

\* connection.send(polo).await?: fails, and ends main, once the connection
\* is closed or failed.
Reply ==
  /\ pc = "reply"
  /\ \/ /\ state[cur] = "up"
        /\ replies' = [replies EXCEPT ![cur] = @ + 1]
        /\ pc' = "read"
        /\ UNCHANGED why
     \/ /\ state[cur] # "up"
        /\ Exit("send")
        /\ UNCHANGED replies
  /\ UNCHANGED <<i, cur, accepted, state, sent, read>>

-----------------------------------------------------------------------------
(* The remote peers and the endpoint *)

\* p connects; the endpoint accepts and queues the connection.
Connect(p) ==
  /\ state[p] = "none"
  /\ state' = [state EXCEPT ![p] = "up"]
  /\ accepted' = Append(accepted, p)
  /\ UNCHANGED <<pc, i, why, cur, sent, read, replies>>

\* p sends the next message of its script on a fresh uni-stream.
PeerSend(p) ==
  /\ state[p] = "up" /\ sent[p] < Len(Script[p])
  /\ sent' = [sent EXCEPT ![p] = @ + 1]
  /\ UNCHANGED <<pc, i, why, cur, accepted, state, read, replies>>

\* p closes the connection, or it fails (reset, transport error).
PeerEnd(p) ==
  /\ state[p] = "up"
  /\ \E s \in {"closed", "failed"} : state' = [state EXCEPT ![p] = s]
  /\ UNCHANGED <<pc, i, why, cur, accepted, sent, read, replies>>

Next ==
  \/ DialArg \/ AcceptNext \/ ReadNext \/ Reply
  \/ \E p \in Peers : Connect(p) \/ PeerSend(p) \/ PeerEnd(p)

\* tokio runs main whenever it can proceed; the peers are not fair.
Spec == Init /\ [][Next]_vars /\ WF_vars(DialArg \/ AcceptNext \/ ReadNext \/ Reply)

-----------------------------------------------------------------------------
TypeOK ==
  /\ pc \in {"dial", "accept", "read", "reply", "exited"}
  /\ i \in 1..Len(Args) + 1 /\ why \in {"none", "dial", "recv", "send"}
  /\ cur \in Peers /\ accepted \in Seq(Peers)
  /\ state \in [Peers -> {"none", "up", "closed", "failed"}]
  /\ \A p \in Peers : read[p] \in 0..sent[p] /\ sent[p] \in 0..Len(Script[p])
  /\ replies \in [Peers -> Nat]

\* Marcos(p, n): how many of the first n messages of p are "marco".
Marcos(p, n) == Cardinality({k \in 1..n : Script[p][k] = "marco"})

\* Once the connection main is reading is closed or failed, main drains
\* what is left of its messages and leaves it: for the next connection,
\* or by returning the error.
ClosedConnectionReleased ==
  \A p \in Peers :
    (pc = "read" /\ cur = p /\ state[p] \in {"closed", "failed"})
      ~> (pc # "read" \/ cur # p)

\* The doc comment of p2p_node.rs: the node listens for incoming messages
\* from an arbitrary number of peers and answers every "marco" with
\* "polo".  main reads one connection at a time, so a peer's "marco" waits
\* for as long as an earlier connection stays open, even silent.
EveryMarcoAnswered ==
  \A p \in Peers :
    (state[p] = "up" /\ Marcos(p, sent[p]) > replies[p])
      ~> (Marcos(p, sent[p]) = replies[p] \/ state[p] # "up" \/ pc = "exited")

=============================================================================
