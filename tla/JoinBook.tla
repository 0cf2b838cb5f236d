------------------------------ MODULE JoinBook ------------------------------
(***************************************************************************)
(* gateway/gateway.go, joinBook: the table that matches a join reply back  *)
(* to the topic that asked for it.  One book lives as long as one          *)
(* connection.  A rejoin goroutine registers a new ref (track) while the   *)
(* read loop looks refs up (pending, markJoined); each operation holds the *)
(* book's lock from its first line to its last, so each is one function    *)
(* from books to books here.                                               *)
(***************************************************************************)
EXTENDS Naturals

CONSTANTS Topics,   \* the channels a session joins
          NoTopic,  \* the nil *channelJoin
          MaxRef    \* bound on the client's joinRef counter

ASSUME TopicsAssumption == NoTopic \notin Topics
ASSUME MaxRefAssumption == MaxRef \in Nat

Refs == 1 .. MaxRef

\* joinRef is 0 until the topic is first tracked (the book has no entry for it).
ChannelJoin == [joinRef : Refs \cup {0}, joined : BOOLEAN]

Books == [byRef   : [Refs -> Topics \cup {NoTopic}],
          byTopic : [Topics -> ChannelJoin]]

NewJoinBook ==
  [byRef   |-> [r \in Refs |-> NoTopic],
   byTopic |-> [t \in Topics |-> [joinRef |-> 0, joined |-> FALSE]]]

\* track: retire the topic's earlier ref, then file the topic under the new one.
Track(b, t, ref) ==
  [byRef   |-> [r \in Refs |-> CASE r = ref -> t
                                 [] r # ref /\ r = b.byTopic[t].joinRef -> NoTopic
                                 [] OTHER -> b.byRef[r]],
   byTopic |-> [b.byTopic EXCEPT ![t] = [joinRef |-> ref, joined |-> FALSE]]]

\* Mutant: an open channel still counts as pending.
PendingIgnoresJoined(b, ref) ==
  LET t == b.byRef[ref]
  IN  IF t # NoTopic /\ b.byTopic[t].joinRef = ref THEN t ELSE NoTopic

\* pending: the topic whose join still awaits a reply on ref, or NoTopic when
\* the ref is unknown, superseded, or belongs to a channel already open.
Pending(b, ref) ==
  LET t == b.byRef[ref]
  IN  IF /\ t # NoTopic
         /\ ~ b.byTopic[t].joined
         /\ b.byTopic[t].joinRef = ref
      THEN t ELSE NoTopic

MarkJoined(b, t) ==
  [b EXCEPT !.byTopic[t].joined = TRUE]

-----------------------------------------------------------------------------
\* byRef and byTopic describe the same joins: a topic is filed under its own
\* current ref and under no other.
BookConsistent(b) ==
  \A t \in Topics, r \in Refs : b.byRef[r] = t <=> b.byTopic[t].joinRef = r
=============================================================================
