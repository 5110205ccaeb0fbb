------------------------------ MODULE WireCodec ------------------------------
(***************************************************************************)
(* The wire codec (wire_msg.rs, not under src/; spec.md sections 4.1 and   *)
(* 6.2) and read_from_stream as the listeners of src/src/connection.rs use *)
(* it: one framed record per message, tag:u8 then a body per tag, read     *)
(* from a QUIC stream whose bytes arrive in arbitrary chunks.  The varint  *)
(* of a UserMsg's length is taken to be unsigned LEB128 (7 bits a byte,    *)
(* low group first), which spec.md leaves open.                            *)
(*                                                                         *)
(* Encoding and decoding are operators; the state machine is a sender      *)
(* writing records and finishing the stream, the network delivering bytes  *)
(* and the reader calling read_from_stream until it returns None or an     *)
(* error.                                                                  *)
(***************************************************************************)
EXTENDS Naturals, Sequences

CONSTANTS
  Msgs,       \* messages the sender may write
  MaxFrames   \* records the sender writes at most

Kinds == {"UserMsg", "EchoReq", "EchoResp", "VerifReq", "VerifResp",
          "PseudoReq", "PseudoResp"}
Tag == [k \in Kinds |->
          CASE k = "UserMsg" -> 0 [] k = "EchoReq" -> 1 [] k = "EchoResp" -> 2
            [] k = "VerifReq" -> 3 [] k = "VerifResp" -> 4
            [] k = "PseudoReq" -> 5 [] k = "PseudoResp" -> 6]
TokenLen == 32

-----------------------------------------------------------------------------
(* Encoding *)

\* Mutant: 128 is taken to fit in one byte.
RECURSIVE VarintEncOffByOne(_)
VarintEncOffByOne(n) ==
  IF n <= 128 THEN <<n>> ELSE <<(n % 128) + 128>> \o VarintEncOffByOne(n \div 128)

RECURSIVE VarintEnc(_)
VarintEnc(n) ==
  IF n < 128 THEN <<n>> ELSE <<(n % 128) + 128>> \o VarintEnc(n \div 128)

\* Mutant: the port is written as a single byte.
AddrEncOneByte(a) ==
  <<a.family>> \o a.ip \o <<a.port>>

\* family:u8 (4 or 6) | addr:4|16 bytes | port:u16 big-endian
AddrEnc(a) ==
  <<a.family>> \o a.ip \o <<a.port \div 256, a.port % 256>>

Body(m) ==
  CASE m.kind = "UserMsg" -> VarintEnc(Len(m.bytes)) \o m.bytes
    [] m.kind = "EchoReq" -> <<>>
    [] m.kind \in {"EchoResp", "VerifReq"} -> AddrEnc(m.addr)
    [] m.kind = "VerifResp" -> <<IF m.ok THEN 1 ELSE 0>>
    [] m.kind \in {"PseudoReq", "PseudoResp"} -> m.bytes

\* write_to_stream: the record written for message m.
Encode(m) == <<Tag[m.kind]>> \o Body(m)

-----------------------------------------------------------------------------
(* Decoding bs from position i.  A result is [st, msg, next]: st is "ok",  *)
(* "none" (end of stream before the tag), "eof" (end of stream inside the  *)
(* record), "unknownTag" or "malformed".                                   *)

Res(st, m, nx) == [st |-> st, msg |-> m, next |-> nx]
Err(st) == Res(st, "none", 0)
\* Mutant: a read of n bytes waits for n + 1.
HasOffByOne(bs, i, n) ==
  i + n <= Len(bs)
Has(bs, i, n) ==
  i + n - 1 <= Len(bs)
Bytes(bs, i, n) == SubSeq(bs, i, i + n - 1)

RECURSIVE VarintDec(_, _)
VarintDec(bs, i) ==
  IF ~Has(bs, i, 1) THEN Err("eof")
  ELSE IF bs[i] < 128 THEN Res("ok", bs[i], i + 1)
  ELSE LET r == VarintDec(bs, i + 1)
       IN IF r.st # "ok" THEN r
          ELSE Res("ok", (bs[i] - 128) + 128 * r.msg, r.next)

AddrDec(bs, i) ==
  IF ~Has(bs, i, 1) THEN Err("eof")
  ELSE IF bs[i] \notin {4, 6} THEN Err("malformed")
  ELSE LET n == IF bs[i] = 4 THEN 4 ELSE 16
       IN IF ~Has(bs, i + 1, n + 2) THEN Err("eof")
          ELSE Res("ok", [family |-> bs[i], ip |-> Bytes(bs, i + 1, n),
                          port |-> 256 * bs[i + n + 1] + bs[i + n + 2]],
                   i + n + 3)

KindOf(t) == CHOOSE k \in Kinds : Tag[k] = t

\* read_from_stream over the bytes bs, from position i.
Decode(bs, i) ==
  IF ~Has(bs, i, 1) THEN Err("none")
  ELSE IF bs[i] \notin {Tag[k] : k \in Kinds} THEN Err("unknownTag")
  ELSE LET k == KindOf(bs[i])
           j == i + 1
  IN CASE k = "UserMsg" ->
            LET l == VarintDec(bs, j)
            IN IF l.st # "ok" THEN l
               ELSE IF ~Has(bs, l.next, l.msg) THEN Err("eof")
               ELSE Res("ok", [kind |-> k, bytes |-> Bytes(bs, l.next, l.msg)],
                        l.next + l.msg)
       [] k = "EchoReq" -> Res("ok", [kind |-> k], j)
       [] k \in {"EchoResp", "VerifReq"} ->
            LET a == AddrDec(bs, j)
            IN IF a.st # "ok" THEN a ELSE Res("ok", [kind |-> k, addr |-> a.msg], a.next)
       [] k = "VerifResp" ->
            IF ~Has(bs, j, 1) THEN Err("eof")
            ELSE Res("ok", [kind |-> k, ok |-> bs[j] = 1], j + 1)
       [] k \in {"PseudoReq", "PseudoResp"} ->
            IF ~Has(bs, j, TokenLen) THEN Err("eof")
            ELSE Res("ok", [kind |-> k, bytes |-> Bytes(bs, j, TokenLen)], j + TokenLen)


-----------------------------------------------------------------------------
(* A stream: the sender writes records with write_to_stream, or ends with  *)
(* a record no qp2p peer writes, and finishes; the reader calls            *)
(* read_from_stream on whatever has arrived.                               *)

CONSTANT BadRecords  \* records a faulty peer may end the stream with

VARIABLES
  wire,     \* the bytes written
  sent,     \* the messages written
  bad,      \* a bad record was written
  fin,      \* the sender finished the stream
  arrived,  \* bytes delivered to the reader
  pos,      \* the reader's position
  got,      \* messages read_from_stream returned
  rstate    \* "reading", "none" (returned Ok(None)) or "error"

vars == <<wire, sent, bad, fin, arrived, pos, got, rstate>>

Init ==
  /\ wire = <<>> /\ sent = <<>> /\ bad = FALSE /\ fin = FALSE
  /\ arrived = 0 /\ pos = 1 /\ got = <<>> /\ rstate = "reading"

Write(m) ==
  /\ ~fin /\ Len(sent) < MaxFrames
  /\ wire' = wire \o Encode(m)
  /\ sent' = Append(sent, m)
  /\ UNCHANGED <<bad, fin, arrived, pos, got, rstate>>

WriteBad(r) ==
  /\ ~fin
  /\ wire' = wire \o r
  /\ bad' = TRUE /\ fin' = TRUE
  /\ UNCHANGED <<sent, arrived, pos, got, rstate>>

Finish ==
  /\ ~fin
  /\ fin' = TRUE
  /\ UNCHANGED <<wire, sent, bad, arrived, pos, got, rstate>>

\* QUIC delivers the next byte, or everything written so far.
Arrive ==
  /\ arrived < Len(wire)
  /\ arrived' \in {arrived + 1, Len(wire)}
  /\ UNCHANGED <<wire, sent, bad, fin, pos, got, rstate>>

\* read_from_stream: a record that has fully arrived is returned; one that
\* has not waits for more bytes, unless the stream has ended, when it is
\* None before the tag and an error inside the record; a bad tag or address
\* is an error at once.
Read ==
  LET r == Decode(SubSeq(wire, 1, arrived), pos)
      ended == fin /\ arrived = Len(wire)
  IN
  /\ rstate = "reading"
  /\ \/ /\ r.st = "ok"
        /\ got' = Append(got, r.msg) /\ pos' = r.next
        /\ UNCHANGED rstate
     \/ /\ r.st = "none" /\ ended
        /\ rstate' = "none"
        /\ UNCHANGED <<got, pos>>
     \/ /\ \/ r.st = "eof" /\ ended
           \/ r.st \in {"unknownTag", "malformed"}
        /\ rstate' = "error"
        /\ UNCHANGED <<got, pos>>
  /\ UNCHANGED <<wire, sent, bad, fin, arrived>>

Next ==
  \/ \E m \in Msgs : Write(m)
  \/ \E r \in BadRecords : WriteBad(r)
  \/ Finish \/ Arrive \/ Read

\* The network and the reader's task are fair; the sender is not.
Spec == Init /\ [][Next]_vars /\ WF_vars(Arrive) /\ WF_vars(Read)

-----------------------------------------------------------------------------
\* Every byte on the wire is a u8 and the reader never passes what arrived.
TypeOK ==
  /\ \A i \in 1..Len(wire) : wire[i] \in 0..255
  /\ arrived \in 0..Len(wire) /\ pos \in 1..arrived + 1
  /\ rstate \in {"reading", "none", "error"}

\* spec.md section 8: decode(encode(v)) = v for every message written,
\* and every proper prefix of its record is the end of stream before the
\* tag (empty) or inside the record, never another message.
CodecRoundTrip ==
  \A i \in 1..Len(sent) :
    LET e == Encode(sent[i]) IN
    /\ Decode(e, 1) = Res("ok", sent[i], Len(e) + 1)
    /\ \A k \in 0..Len(e) - 1 :
         Decode(SubSeq(e, 1, k), 1).st = IF k = 0 THEN "none" ELSE "eof"

\* Once the sender finishes, the reader returns every message written and
\* then None, or an error if the stream ended with a bad record.
ReaderEnds ==
  fin ~> (got = sent /\ rstate = IF bad THEN "error" ELSE "none")

=============================================================================
