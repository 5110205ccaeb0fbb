---------------------------- MODULE MC_PseudoBi ----------------------------
(* Model-checking instance of PseudoBi: two ends, two concurrent           *)
(* open_pseudo_bi calls drawn from either end.                             *)
EXTENDS PseudoBi

MCPeers == {"A", "B"}
MCTokens == {"t1", "t2"}
=============================================================================
