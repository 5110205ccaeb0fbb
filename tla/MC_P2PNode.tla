---------------------------- MODULE MC_P2PNode -----------------------------
(* Two remote peers: one whose "marco" is followed by another message, so *)
(* that a message that is not "marco" is read and skipped, and one that    *)
(* only says "marco".  The node is started with one peer to dial.          *)
EXTENDS P2PNode

MCPeers == {"p1", "p2"}
MCScript == [p \in MCPeers |-> IF p = "p1" THEN <<"marco", "other">> ELSE <<"marco">>]
MCArgs == <<"127.0.0.1:1234">>

=============================================================================
