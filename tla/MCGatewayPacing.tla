--------------------------- MODULE MCGatewayPacing ---------------------------
(* Times in ticks, a backoff whose shift overflows a five-bit word.           *)
EXTENDS GatewayPacing

MCHints == {2, 9}

ASSUME BackoffFits == NoWrapWithin

=============================================================================
