------------------------- MODULE MC_EndpointInbound -------------------------
(* Model-checking instance of EndpointInbound: two uni-streams, one of     *)
(* which may carry a frame that fails to decode, and a queue of one entry. *)
EXTENDS EndpointInbound

MCUniScripts == {<<"User">>, <<"Bad">>}
MCBiScripts == {<<"User">>}
=============================================================================
