--------------------------- MODULE GatewayStream ----------------------------
(***************************************************************************)
(* gateway/gateway.go: the workspace stream across disconnects.  The       *)
(* client keeps one resume position, lastSeq.  A join carries it; the      *)
(* reply, the events and the resume markers move it; every event goes      *)
(* through a bounded queue to the handlers.  The process may die and be    *)
(* started again with WithResumeFrom at a position it saved.               *)
(*                                                                         *)
(* The server is external, modelled as the client and its documentation    *)
(* take it to be: it numbers events, pushes them in order to a joined      *)
(* socket, and on a resuming join replays what is after the position, if   *)
(* it still holds it, before pushing what was published meanwhile - so an  *)
(* event of the replay window comes twice.                                 *)
(***************************************************************************)
EXTENDS Naturals, Sequences, Functions

CONSTANTS MaxSeq,      \* bound on the events of the workspace
          Hidden,      \* events the intents or permissions filter out
          BufferCap,   \* capacity of c.events
          MaxDrops,    \* bound on disconnects
          MaxRestarts  \* bound on crashes of the process

ASSUME StreamAssumption ==
  /\ MaxSeq \in Nat /\ MaxDrops \in Nat /\ MaxRestarts \in Nat
  /\ Hidden \subseteq 1 .. MaxSeq
  /\ BufferCap \in Nat \ {0}

Seqs == 1 .. MaxSeq
Positions == 0 .. MaxSeq

VARIABLES
  published, \* the workspace's current sequence number
  evicted,   \* events up to here have left the server's replay buffer
  link,      \* down, or up: the workspace join was accepted by the server
  resume,    \* the position the join asked to resume from, 0 when none or done
  mailbox,   \* events published since the join and not pushed yet
  out,       \* frames on their way to the client
  lastSeq,   \* c.lastSeq
  events,    \* c.events
  saved,     \* LastSeq() as the application last persisted it
  drops, restarts,
  \* Ghosts, for the properties only.
  handled,   \* how often handlers saw each event
  discarded, \* events a full queue or a crash took before a handler saw them
  declared,  \* events a resume_failed gave up
  adopted,   \* highest position taken over without its events
  owedFrom   \* position of the first join: what is published after it is owed

server == <<published, evicted>>
socket == <<link, resume, mailbox, out>>
client == <<lastSeq, events>>
ghosts == <<handled, discarded, declared, adopted, owedFrom>>
vars == <<server, socket, client, saved, drops, restarts, ghosts>>

Event(s) == [kind |-> "event", seq |-> s]
Marker(kind, s) == [kind |-> kind, seq |-> s]
Frames == [kind : {"event", "reply", "resumed", "resume_failed", "other"},
           seq : Positions]

NotJoined == MaxSeq + 1   \* owedFrom before the first join

Init ==
  /\ published \in Positions /\ evicted \in 0 .. published
  /\ link = "down" /\ resume = 0 /\ mailbox = <<>> /\ out = <<>>
  /\ lastSeq \in 0 .. published   \* WithResumeFrom, or 0
  /\ events = <<>> /\ saved = lastSeq /\ drops = 0 /\ restarts = 0
  /\ handled = [s \in Seqs |-> 0] /\ discarded = {} /\ declared = {}
  /\ adopted = lastSeq /\ owedFrom = NotJoined

-----------------------------------------------------------------------------
(* The server (external)                                                   *)

Publish ==
  /\ published < MaxSeq
  /\ published' = published + 1
  /\ IF link = "down" \/ published' \in Hidden THEN UNCHANGED <<mailbox, out>>
     ELSE IF resume > 0
          THEN mailbox' = Append(mailbox, Event(published')) /\ UNCHANGED out
          ELSE out' = Append(out, Event(published')) /\ UNCHANGED mailbox
  /\ UNCHANGED <<evicted, link, resume, client, saved, drops, restarts, ghosts>>

Evict ==
  /\ evicted < published
  /\ evicted' \in (evicted + 1) .. published
  /\ UNCHANGED <<published, socket, client, saved, drops, restarts, ghosts>>

\* The elements of S, all of them, in order: one sequence, said without
\* computing it.
Ascending(S) ==
  {q \in UNION {[1 .. n -> S] : n \in 0 .. MaxSeq} :
     Range(q) = S /\ \A i, j \in DOMAIN q : i < j => q[i] < q[j]}

\* The visible events after the position asked for, in order, as frames.
Replays ==
  {[i \in DOMAIN q |-> Event(q[i])] : q \in Ascending(((resume + 1) .. published) \ Hidden)}

\* The replay of an accepted join, or the refusal of its position; then the
\* live events that waited.
ServeResume ==
  /\ link = "up" /\ resume > 0
  /\ \E replay \in Replays :
       out' = out \o (IF resume >= evicted
                      THEN Append(replay, Marker("resumed", published))
                      ELSE <<Marker("resume_failed", published)>>)
                  \o mailbox
  /\ mailbox' = <<>> /\ resume' = 0
  /\ UNCHANGED <<server, link, client, saved, drops, restarts, ghosts>>

\* A frame of another topic, with a number of that topic's own, the highest.
PushOther ==
  /\ link = "up" /\ out = <<>>
  /\ out' = <<Marker("other", MaxSeq)>>
  /\ UNCHANGED <<server, link, resume, mailbox, client, saved, drops, restarts, ghosts>>

Drop ==
  /\ link = "up" /\ drops < MaxDrops
  /\ link' = "down" /\ resume' = 0 /\ mailbox' = <<>> /\ out' = <<>>
  /\ drops' = drops + 1
  /\ UNCHANGED <<server, client, saved, restarts, ghosts>>

-----------------------------------------------------------------------------
(* The client                                                              *)

\* Mutant: a position of 1 is not worth resuming from.
ResumeTokenOffByOne(pos) == IF pos > 1 THEN pos ELSE 0

\* Mutant: the position is sent as the next event wanted, one too low.
ResumeTokenOneBack(pos) == IF pos > 1 THEN pos - 1 ELSE pos

\* The resume token of a join: the position, when there is one.
ResumeToken(pos) == IF pos > 0 THEN pos ELSE 0

\* sendJoin, and the server's acceptance: it subscribes the socket and replies
\* with the workspace's current position.
Join ==
  /\ link = "down"
  /\ link' = "up" /\ resume' = ResumeToken(lastSeq)
  /\ out' = <<Marker("reply", published)>>
  /\ owedFrom' = IF owedFrom # NotJoined THEN owedFrom
                 ELSE IF lastSeq > 0 THEN lastSeq ELSE published
  /\ UNCHANGED <<server, mailbox, client, saved, drops, restarts, handled,
                 discarded, declared, adopted>>

\* Mutant: the queue has no bound.
EmitAlways(f) == events' = Append(events, f) /\ UNCHANGED discarded

\* emit: a full queue drops the event.
Emit(f) ==
  IF Len(events) < BufferCap
  THEN events' = Append(events, f) /\ UNCHANGED discarded
  ELSE /\ UNCHANGED events
       /\ discarded' = discarded \cup (IF f.kind = "event" THEN {f.seq} ELSE {})

\* Mutant: the position follows the last frame, also backwards.
FollowSeq(pos, s) == IF s > 0 THEN s ELSE pos

\* advanceSeq: forward, never back.
AdvanceSeq(pos, s) == IF s > pos THEN s ELSE pos

Arrives(kind) == out # <<>> /\ Head(out).kind = kind /\ out' = Tail(out)

\* Mutant: a resuming client takes over the server's position as well.
ReadReplyAdopts ==
  /\ Arrives("reply")
  /\ lastSeq' = AdvanceSeq(lastSeq, Head(out).seq)
  /\ adopted' = IF lastSeq = 0 THEN Head(out).seq ELSE adopted
  /\ Emit(Head(out))
  /\ UNCHANGED <<server, link, resume, mailbox, saved, drops, restarts,
                 handled, declared, owedFrom>>

\* The workspace join reply: a client without a position adopts the server's.
ReadReply ==
  /\ Arrives("reply")
  /\ lastSeq' = IF lastSeq = 0 THEN Head(out).seq ELSE lastSeq
  /\ adopted' = IF lastSeq = 0 THEN Head(out).seq ELSE adopted
  /\ Emit(Head(out))
  /\ UNCHANGED <<server, link, resume, mailbox, saved, drops, restarts,
                 handled, declared, owedFrom>>

ReadEvent ==
  /\ Arrives("event")
  /\ lastSeq' = AdvanceSeq(lastSeq, Head(out).seq)
  /\ Emit(Head(out))
  /\ UNCHANGED <<server, link, resume, mailbox, saved, drops, restarts,
                 handled, declared, adopted, owedFrom>>

\* Both resume markers carry current_seq, and the position moves up to it.
ReadResumed ==
  /\ Arrives("resumed")
  /\ lastSeq' = AdvanceSeq(lastSeq, Head(out).seq)
  /\ Emit(Head(out))
  /\ UNCHANGED <<server, link, resume, mailbox, saved, drops, restarts,
                 handled, declared, adopted, owedFrom>>

\* Mutant: a failed resume leaves the position where it was.
ReadResumeFailedStays ==
  /\ Arrives("resume_failed")
  /\ declared' = declared \cup ((lastSeq + 1) .. Head(out).seq)
  /\ Emit(Head(out))
  /\ UNCHANGED <<server, link, resume, mailbox, lastSeq, saved, drops, restarts,
                 handled, adopted, owedFrom>>

ReadResumeFailed ==
  /\ Arrives("resume_failed")
  /\ lastSeq' = AdvanceSeq(lastSeq, Head(out).seq)
  /\ declared' = declared \cup ((lastSeq + 1) .. Head(out).seq)
  /\ Emit(Head(out))
  /\ UNCHANGED <<server, link, resume, mailbox, saved, drops, restarts,
                 handled, adopted, owedFrom>>

\* Mutant: an event of any topic moves the position.
ReadOtherAdvances ==
  /\ Arrives("other")
  /\ lastSeq' = AdvanceSeq(lastSeq, Head(out).seq)
  /\ Emit(Head(out))
  /\ UNCHANGED <<server, link, resume, mailbox, saved, drops, restarts,
                 handled, declared, adopted, owedFrom>>

\* An event of an extra topic is delivered and leaves the position alone.
ReadOther ==
  /\ Arrives("other")
  /\ Emit(Head(out))
  /\ UNCHANGED <<server, link, resume, mailbox, lastSeq, saved, drops, restarts,
                 handled, declared, adopted, owedFrom>>

Read == ReadReply \/ ReadEvent \/ ReadResumed \/ ReadResumeFailed \/ ReadOther

\* dispatchLoop: one event at a time, in queue order.
Dispatch ==
  /\ events # <<>>
  /\ events' = Tail(events)
  /\ handled' = IF Head(events).kind = "event"
                THEN [handled EXCEPT ![Head(events).seq] = @ + 1] ELSE handled
  /\ UNCHANGED <<server, socket, lastSeq, saved, drops, restarts, discarded,
                 declared, adopted, owedFrom>>

\* The application persists LastSeq().
Persist ==
  /\ saved # lastSeq
  /\ saved' = lastSeq
  /\ UNCHANGED <<server, socket, client, drops, restarts, ghosts>>

\* The process dies, with its queue, and a new one starts from what was saved.
Restart ==
  /\ restarts < MaxRestarts
  /\ restarts' = restarts + 1
  /\ link' = "down" /\ resume' = 0 /\ mailbox' = <<>> /\ out' = <<>>
  /\ lastSeq' = saved /\ events' = <<>>
  /\ discarded' = discarded \cup {f.seq : f \in {e \in Range(events) : e.kind = "event"}}
  /\ UNCHANGED <<server, saved, drops, handled, declared, adopted, owedFrom>>

\* Nothing left to publish, push, read or dispatch.
Quiet ==
  /\ published = MaxSeq /\ link = "up" /\ resume = 0 /\ out = <<>> /\ events = <<>>
  /\ UNCHANGED vars

Next ==
  \/ Publish \/ Evict \/ ServeResume \/ PushOther \/ Drop
  \/ Join \/ Read \/ Dispatch \/ Persist \/ Restart \/ Quiet

\* The reconnect loop, the read loop and the dispatch loop run; a server that
\* accepted a resuming join answers it.  Drops and restarts are bounded.
Fairness ==
  /\ WF_vars(Join) /\ WF_vars(Read) /\ WF_vars(Dispatch) /\ WF_vars(ServeResume)

Spec == Init /\ [][Next]_vars
FairSpec == Spec /\ Fairness

-----------------------------------------------------------------------------
(* Properties                                                              *)

\* Every variable keeps its type.
TypeOK ==
  /\ published \in Positions /\ evicted \in 0 .. published
  /\ link \in {"down", "up"} /\ resume \in Positions
  /\ mailbox \in Seq(Frames) /\ out \in Seq(Frames)
  /\ lastSeq \in Positions /\ saved \in Positions
  /\ events \in Seq(Frames) /\ Len(events) <= BufferCap
  /\ drops \in 0 .. MaxDrops /\ restarts \in 0 .. MaxRestarts
  /\ handled \in [Seqs -> Nat]
  /\ discarded \subseteq Seqs /\ declared \subseteq Seqs
  /\ adopted \in Positions /\ owedFrom \in Positions \cup {NotJoined}

Queued == {f.seq : f \in {e \in Range(events) : e.kind = "event"}}

\* Read off the socket: in the queue, handled, or discarded on the way.
Received == Queued \cup discarded \cup {s \in Seqs : handled[s] > 0}

Position == INSTANCE StreamPosition WITH
  pos <- lastSeq, skipped <- adopted, accounted <- Received \cup declared \cup Hidden

\* The stream implements the position contract: no step moves lastSeq over an
\* event that was neither read, nor filtered, nor reported lost, and nothing
\* but a join without a position skips events (726-731, 953-962).
ImplementsPosition == Position!Spec

\* The position never runs ahead of the workspace: were it to, the events up
\* to it would never be replayed.  Only the workspace channel may move it.
PositionNotAhead == lastSeq <= published

\* The position never moves back while the process lives.
PositionForward == [][lastSeq' >= lastSeq \/ restarts' # restarts]_vars

\* When nothing is on its way, the position is where the workspace is.  After
\* a resume_failed too: a client left at the evicted position would be refused
\* on every later join (929-941).
IdleMeansCaughtUp ==
  link = "up" /\ resume = 0 /\ out = <<>> =>
    \A s \in (1 .. published) \ Hidden : s <= lastSeq

\* Within one process an event reaches the handlers twice at most: once in
\* the replay and once live (doc.go, "can be delivered twice").
AtMostTwice == restarts = 0 => \A s \in Seqs : handled[s] <= 2

\* Every published event is settled in the end, however the connection drops
\* and the process restarts: skipped by a join without a position, handled,
\* filtered, reported by resume_failed, or dropped at a full queue.
Settled(s) ==
  s \in 1 .. adopted \/ handled[s] > 0 \/ s \in declared \cup Hidden

EveryEventSettles ==
  <>[](\A s \in 1 .. published : Settled(s) \/ s \in discarded)

\* README.md:304: "The client replays the gap after a reconnect, so a brief
\* drop loses nothing": what was published after the first join and is behind
\* the position was read or reported.
BriefDropLosesNothing ==
  \A s \in Seqs : owedFrom < s /\ s <= lastSeq => s \in Received \cup declared \cup Hidden

\* gateway.go:726-728 and 491-492: the position is "the last event it actually
\* handled", fit to "resume a later process with": what a join's position
\* covers was handled, waits in the queue, was reported lost or filtered, or
\* was skipped when the session had no position.
ResumesFromHandled ==
  [][Join => \A s \in 1 .. resume' : Settled(s) \/ s \in Queued]_vars
=============================================================================
