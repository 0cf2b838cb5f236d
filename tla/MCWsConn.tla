------------------------------ MODULE MCWsConn ------------------------------
(* A two-byte message, frames of up to three, and a peer that stalls.         *)
EXTENDS WsConn

Frame(op, fin, len) == [op |-> op, fin |-> fin, len |-> len]

\* A message in two frames, one past the limit, control frames with and without
\* a payload, and one whose 64-bit length is negative as a signed word.
ServerFrames ==
  {Frame("text", FALSE, 1), Frame("continuation", TRUE, 1), Frame("continuation", TRUE, 2),
   Frame("ping", TRUE, 1), Frame("ping", TRUE, -1), Frame("pong", TRUE, 0),
   Frame("close", TRUE, 0)}

=============================================================================
