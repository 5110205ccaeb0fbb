---------------------------- MODULE IncomingQueue ----------------------------
(***************************************************************************)
(* What ConnectionIncoming promises the application (spec.md 4.3 and the   *)
(* ordering guarantees of section 6): next_stream returns the items the    *)
(* connection's listeners produce, in the order they were produced (the    *)
(* order in which the first frames finished decoding); an item is lost     *)
(* only when a listener stops or the application drops ConnectionIncoming; *)
(* None comes only once nothing is pending and no listener runs.           *)
(***************************************************************************)
EXTENDS Sequences, SequencesExt

CONSTANTS
  Item,       \* the items a listener may produce
  Producers   \* the listeners

VARIABLES
  pending,    \* produced, not yet returned by next_stream, in order
  got,        \* returned by next_stream, in order
  open,       \* the application holds ConnectionIncoming
  producing,  \* listeners still running
  done        \* next_stream has returned None

avars == <<pending, got, open, producing, done>>

Init ==
  /\ pending = <<>> /\ got = <<>>
  /\ open = TRUE /\ producing = Producers /\ done = FALSE

\* A running listener produces an item for a held receiver.
Produce ==
  /\ open /\ producing # {}
  /\ \E it \in Item : pending' = Append(pending, it)
  /\ UNCHANGED <<got, open, producing, done>>

\* next_stream returns the oldest pending item.
Receive ==
  /\ open /\ pending # <<>>
  /\ got' = Append(got, Head(pending))
  /\ pending' = Tail(pending)
  /\ UNCHANGED <<open, producing, done>>

\* Some listeners stop; items they had not yet handed over may be lost,
\* the others keep their order.
Stop ==
  /\ \E P \in SUBSET producing, L \in SUBSET ToSet(pending) :
       /\ P # producing
       /\ producing' = P
       /\ pending' = SelectSeq(pending, LAMBDA it : it \notin L)
  /\ UNCHANGED <<got, open, done>>

\* The application drops ConnectionIncoming, and with it every pending item.
Drop ==
  /\ open
  /\ open' = FALSE /\ pending' = <<>>
  /\ UNCHANGED <<got, producing, done>>

\* next_stream returns None.
End ==
  /\ open /\ ~done
  /\ pending = <<>> /\ producing = {}
  /\ done' = TRUE
  /\ UNCHANGED <<pending, got, open, producing>>

Next == Produce \/ Receive \/ Stop \/ Drop \/ End

\* An application that keeps calling next_stream receives every pending
\* item and, once the listeners are gone, None.
Spec == Init /\ [][Next]_avars /\ WF_avars(Receive) /\ WF_avars(End)

=============================================================================
