----------------------------- MODULE MCHelpers -----------------------------
(* Six instants over three seconds, pages of one or two rows; two events; a    *)
(* handshake with and without an interval; two payloads and two secrets.      *)
EXTENDS Helpers

MCIntervals == {0, 1, 3}
MCAsks == {0, 1, 5}
MCCounts == -1 .. 1
MCWaits == -1 .. 2

=============================================================================
