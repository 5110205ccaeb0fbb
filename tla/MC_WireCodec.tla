---------------------------- MODULE MC_WireCodec ----------------------------
EXTENDS WireCodec

V4 == [family |-> 4, ip |-> <<127, 0, 0, 1>>, port |-> 443]
V6 == [family |-> 6, ip |-> [i \in 1..16 |-> IF i = 16 THEN 1 ELSE 0], port |-> 1]
Token == [i \in 1..TokenLen |-> 7]

\* One message of every kind; the UserMsgs cover the empty payload, a
\* byte that is itself a valid tag, and a length of 128, the first that
\* takes two varint bytes.
MCMsgs ==
  { [kind |-> "UserMsg", bytes |-> <<>>],
    [kind |-> "UserMsg", bytes |-> <<2, 200>>],
    [kind |-> "UserMsg", bytes |-> [i \in 1..128 |-> 0]],
    [kind |-> "EchoReq"],
    [kind |-> "EchoResp", addr |-> V4],
    [kind |-> "VerifReq", addr |-> V6],
    [kind |-> "VerifResp", ok |-> TRUE],
    [kind |-> "PseudoReq", bytes |-> Token],
    [kind |-> "PseudoResp", bytes |-> Token] }

\* An unknown tag, an address of family 5, and a UserMsg that announces
\* three bytes and carries one.
MCBadRecords == { <<9>>, <<2, 5, 1>>, <<0, 3, 1>> }

=============================================================================
