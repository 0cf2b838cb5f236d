--------------------------- MODULE StreamPosition ---------------------------
(***************************************************************************)
(* What the gateway client promises about its resume position, with no     *)
(* connection, queue or frame in sight: the position moves over an event   *)
(* only when the event is accounted for (handed to the application's       *)
(* queue, filtered by the server, or reported lost), and skips unseen      *)
(* events only from 0, when it takes over where the workspace stands.      *)
(* GatewayStream implements it.                                            *)
(***************************************************************************)
EXTENDS Naturals

VARIABLES pos,        \* the resume position
          skipped,    \* the highest position taken over without its events
          accounted   \* sequence numbers the client owes nothing for

pvars == <<pos, skipped, accounted>>

NoSilentGap == 1 .. pos \subseteq (1 .. skipped) \cup accounted

Init ==
  /\ pos \in Nat /\ skipped = pos
  /\ accounted \in SUBSET Nat

Advance ==
  /\ pos' \in Nat /\ pos' >= pos
  /\ accounted \subseteq accounted'
  /\ skipped' = skipped
  /\ NoSilentGap'

Adopt ==
  /\ pos = 0
  /\ pos' \in Nat /\ skipped' = pos'
  /\ accounted \subseteq accounted'

\* A new process resumes from a position saved earlier.
Rewind ==
  /\ pos' \in 0 .. pos /\ skipped' = skipped
  /\ accounted \subseteq accounted'

Next == Advance \/ Adopt \/ Rewind

Spec == Init /\ [][Next]_pvars
=============================================================================
