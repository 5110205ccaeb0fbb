----------------------------- MODULE MC_Demux -----------------------------
(* Model-checking instance of Demux: up to two peer streams, a queue of    *)
(* one entry, scripts covering each branch of both listeners.              *)
EXTENDS Demux

MCUniScripts == {<<"User">>, <<"EchoReq">>, <<"Bad">>, <<>>}
MCBiScripts == {<<"User">>, <<"Bad">>, <<>>, <<"VerifReq", "EchoReq">>,
                <<"EchoResp", "Bad">>}
=============================================================================
