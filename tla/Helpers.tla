------------------------------ MODULE Helpers ------------------------------
(***************************************************************************)
(* The parts of the client that run on their own above the request engine: *)
(* the page iterator, the event stream, the waits for a handshake, the     *)
(* webhook receiver, the client's construction and the services' updates.  *)
(* They share no state, so a behaviour is one of them at work while the    *)
(* others stand still.                                                     *)
(***************************************************************************)
EXTENDS Pagination, EventStream, HandshakePoll, WebhookReceiver, ClientOptions,
        PartialUpdates

VARIABLE active  \* the part at work

vars == <<active, pageVars, eventVars, pollVars, hookVars, optionVars, updateVars>>

Parts == {"pages", "stream", "poll", "webhooks", "options", "updates"}

Init ==
  /\ active \in Parts
  /\ PageInit /\ StreamInit /\ PollInit /\ HookInit /\ OptionsInit /\ UpdatesInit
  /\ active # "pages" => list = [cursor |-> "cursor", limit |-> 0]
  /\ active # "poll" => flow = "cli" /\ asked = 0
  /\ active # "updates" => shape = [whole |-> FALSE, kinds |-> <<"optional", "optional">>]

Only(part) == active = part /\ UNCHANGED active

Pages ==
  /\ Only("pages") /\ PageNext
  /\ UNCHANGED <<eventVars, pollVars, hookVars, optionVars, updateVars>>

Stream ==
  /\ Only("stream") /\ StreamNext
  /\ UNCHANGED <<pageVars, pollVars, hookVars, optionVars, updateVars>>

Poll ==
  /\ Only("poll") /\ PollNext
  /\ UNCHANGED <<pageVars, eventVars, hookVars, optionVars, updateVars>>

Webhooks ==
  /\ Only("webhooks") /\ HookNext
  /\ UNCHANGED <<pageVars, eventVars, pollVars, optionVars, updateVars>>

Options ==
  /\ Only("options") /\ OptionsNext
  /\ UNCHANGED <<pageVars, eventVars, pollVars, hookVars, updateVars>>

Updates ==
  /\ Only("updates") /\ UpdatesNext
  /\ UNCHANGED <<pageVars, eventVars, pollVars, hookVars, optionVars>>

Next == Pages \/ Stream \/ Poll \/ Webhooks \/ Options \/ Updates

Spec == Init /\ [][Next]_vars /\ PageFairness /\ StreamFairness /\ PollFairness

\* The parts' state has its types, and the client New returns is usable.
TypeOK ==
  /\ active \in Parts
  /\ walk \in {"idle", "fetch", "page", "ended", "failed", "stopped"}
  /\ lasting \subseteq rows /\ rows \subseteq Instants
  /\ next \in 1 .. Len(page.data) + 1
  /\ page.hasMore => page.data # <<>>
  /\ Len(page.data) <= Limit(list.limit)
  /\ run \in {"idle", "reading", "draining", "failing", "returned"}
  /\ feedEnds \in {"open", "whole", "cut"}
  /\ poll \in {"idle", "waiting", "asking", "resending", "returned"}
  /\ code \in {"pending", "approved", "spent", "denied", "expired"}
  /\ flow = "cli" /\ poll # "idle" => interval > 0
  /\ left \in Nat /\ owed \in Nat /\ resent \in 0 .. Resends
  /\ now \in 0 .. Clock
  /\ built \in {"no", "applying", "client", "error"}
  /\ given \in 0 .. MaxOptions /\ ClientUsable
  /\ \A f \in Pair : record[f] \in Editors \cup {"old", "empty"}
  /\ \A e \in Editors : edits[e].at = "read" => shape.whole

\* What has begun ends: a walk over a list that changes, a stream whose answer
\* or context has ended, a wait that was decided or cancelled.
PartsEnd == WalkEnds /\ StreamReturns /\ WaitEnds

=============================================================================
