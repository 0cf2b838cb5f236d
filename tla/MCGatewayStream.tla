-------------------------- MODULE MCGatewayStream ---------------------------
(* Some events, the second of them filtered out by the session's intents.   *)
EXTENDS GatewayStream

MCHidden == {2}
=============================================================================
