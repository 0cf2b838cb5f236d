------------------------- MODULE GatewayStream_proofs -------------------------
(***************************************************************************)
(* Proofs about GatewayStream for every workspace length, queue capacity,  *)
(* filter and number of drops and restarts.  The invariant says what the   *)
(* frames on their way still have to tell the client: whatever raises the  *)
(* position over an event comes after a frame that brings the event, gives *)
(* it up, or is the reply a client without a position adopts.              *)
(* At the end, the copies of one event are counted over all the places     *)
(* where it may be.                                                        *)
(***************************************************************************)
EXTENDS GatewayStream, FiniteSetTheorems, SequenceTheorems, TLAPS

Visible == Seqs \ Hidden

\* The frame settles event t for a client whose position is pos.
Covers(f, t, pos) ==
  \/ f.kind = "event" /\ f.seq = t
  \/ f.kind = "resume_failed" /\ t <= f.seq
  \/ f.kind = "reply" /\ pos = 0 /\ t <= f.seq

\* A number the server has given when it stands at top.
Sound(f, top) ==
  /\ f.kind # "other" => f.seq <= top
  /\ f.kind = "event" => f.seq # 0

Bounds ==
  /\ lastSeq <= published /\ saved <= lastSeq
  /\ \A i \in 1 .. Len(out) : Sound(out[i], published)
  /\ \A i \in 1 .. Len(mailbox) : mailbox[i].kind = "event" /\ Sound(mailbox[i], published)
  /\ \A i \in 1 .. Len(events) : events[i].kind = "event" => events[i].seq # 0

\* A reply comes first, and nothing that moves the position passes a replay
\* that is still to come.
Shape ==
  /\ link = "down" => out = <<>> /\ resume = 0
  /\ resume = 0 => mailbox = <<>>
  /\ resume > 0 =>
       resume = lastSeq /\ \A i \in 1 .. Len(out) : out[i].kind \in {"reply", "other"}
  /\ \A i \in 1 .. Len(out) : out[i].kind = "reply" => i = 1

\* A frame that moves the position has all it moves it over before it.
NoneAhead ==
  \A i \in 1 .. Len(out) : out[i].kind \in {"event", "resumed"} =>
    \A t \in Visible : lastSeq < t /\ t <= out[i].seq =>
      \E j \in 1 .. i : Covers(out[j], t, lastSeq)

\* Every event the position does not cover is on its way.
CaughtUp ==
  link = "up" /\ resume = 0 =>
    \A t \in Visible : lastSeq < t /\ t <= published =>
      \E j \in 1 .. Len(out) : Covers(out[j], t, lastSeq)

Flow == Bounds /\ Shape /\ NoneAhead /\ CaughtUp

Accounted == Received \cup declared \cup Hidden

\* The contract's NoSilentGap at the client's position.
Gapless == 1 .. lastSeq \subseteq (1 .. adopted) \cup Accounted

-----------------------------------------------------------------------------
(* Frames and queues                                                       *)

\* What a frame at the head of the socket is, and what is left behind it.
LEMMA Arriving ==
  ASSUME TypeOK, NEW kind, Arrives(kind)
  PROVE  /\ 1 \in 1 .. Len(out) /\ Head(out) = out[1] /\ out[1] \in Frames
         /\ out[1].kind = kind
         /\ out' \in Seq(Frames) /\ Len(out') = Len(out) - 1
         /\ \A i \in 1 .. Len(out') : out'[i] = out[i + 1]
<1>1. out \in Seq(Frames) /\ out # <<>> /\ out' = Tail(out)
  BY DEF TypeOK, Arrives
<1>2. Len(out) \in Nat \ {0}
  BY <1>1, EmptySeq
<1>3. Head(out) = out[1]
  BY <1>1, <1>2
<1>4. out[1] \in Frames
  BY <1>1, <1>2, ElementOfSeq
<1> QED  BY <1>1, <1>2, <1>3, <1>4, HeadTailProperties DEF Arrives

\* A frame put at the end of a sequence of frames.
LEMMA Appended ==
  ASSUME NEW q \in Seq(Frames), NEW f \in Frames
  PROVE  /\ Append(q, f) \in Seq(Frames) /\ Len(q) \in Nat
         /\ Len(Append(q, f)) = Len(q) + 1
         /\ Append(q, f)[Len(q) + 1] = f
         /\ \A i \in 1 .. Len(q) : Append(q, f)[i] = q[i]
  BY LenProperties, AppendProperties

\* The events in the queue, by their places in it.
LEMMA QueuedAt ==
  ASSUME events \in Seq(Frames)
  PROVE  /\ \A i \in 1 .. Len(events) : events[i].kind = "event" => events[i].seq \in Queued
         /\ \A s \in Queued : \E i \in 1 .. Len(events) :
              events[i].kind = "event" /\ events[i].seq = s
<1>1. DOMAIN events = 1 .. Len(events)
  BY LenProperties
<1> QED  BY <1>1 DEF Queued, Range

\* emit keeps the queue within its capacity, loses no event it held and
\* leaves the new one in the queue or among the discarded.
LEMMA Emitted ==
  ASSUME TypeOK, Bounds, NEW f \in Frames, f.kind = "event" => f.seq # 0, Emit(f)
  PROVE  /\ events' \in Seq(Frames) /\ Len(events') <= BufferCap
         /\ discarded' \subseteq Seqs
         /\ \A i \in 1 .. Len(events') : events'[i].kind = "event" => events'[i].seq # 0
         /\ Queued \cup discarded \subseteq Queued' \cup discarded'
         /\ f.kind = "event" => f.seq \in Queued' \cup discarded'
<1> DEFINE grown == Append(events, f)
<1>1. events \in Seq(Frames) /\ Len(events) \in Nat /\ discarded \subseteq Seqs
  BY LenProperties DEF TypeOK
<1>2. CASE Len(events) < BufferCap
  <2>1. events' = grown /\ discarded' = discarded
    BY <1>2 DEF Emit
  <2>2. /\ grown \in Seq(Frames) /\ Len(grown) = Len(events) + 1
        /\ grown[Len(events) + 1] = f
        /\ \A i \in 1 .. Len(events) : grown[i] = events[i]
    BY <1>1, Appended
  <2>3. \A i \in 1 .. Len(grown) : grown[i].kind = "event" => grown[i].seq # 0
    BY <1>1, <2>2 DEF Bounds
  <2>4. Queued' = {g.seq : g \in {e \in Range(grown) : e.kind = "event"}}
    BY <2>1 DEF Queued
  <2>5. DOMAIN grown = 1 .. Len(grown)
    BY <2>2, LenProperties
  <2>6. \A i \in 1 .. Len(grown) : grown[i].kind = "event" => grown[i].seq \in Queued'
    BY <2>4, <2>5 DEF Range
  <2>7. \A s \in Queued : s \in Queued'
    <3> SUFFICES ASSUME NEW s \in Queued PROVE s \in Queued'
      OBVIOUS
    <3>1. PICK i \in 1 .. Len(events) : events[i].kind = "event" /\ events[i].seq = s
      BY <1>1, QueuedAt
    <3>2. i \in 1 .. Len(grown) /\ grown[i] = events[i]
      BY <1>1, <2>2
    <3> QED  BY <2>6, <3>1, <3>2
  <2>8. f.kind = "event" => f.seq \in Queued'
    <3>1. Len(events) + 1 \in 1 .. Len(grown)
      BY <1>1, <2>2
    <3> QED  BY <2>2, <2>6, <3>1
  <2>9. Len(grown) <= BufferCap
    BY <1>1, <1>2, <2>2, StreamAssumption
  <2> QED  BY <1>1, <2>1, <2>2, <2>3, <2>7, <2>8, <2>9
<1>3. CASE ~ (Len(events) < BufferCap)
  <2>1. /\ events' = events
        /\ discarded' = discarded \cup (IF f.kind = "event" THEN {f.seq} ELSE {})
    BY <1>3 DEF Emit
  <2>2. f.kind = "event" => f.seq \in Seqs
    BY DEF Frames, Positions, Seqs
  <2>3. Queued' = Queued
    BY <2>1 DEF Queued
  <2> QED  BY <1>1, <2>1, <2>2, <2>3 DEF TypeOK, Bounds
<1> QED  BY <1>2, <1>3

\* A replay: the visible events after the position asked for, each one, in
\* order.
LEMMA ReplayWhole ==
  ASSUME TypeOK, resume <= published, NEW r \in Replays
  PROVE  /\ r \in Seq(Frames)
         /\ \A i \in 1 .. Len(r) : /\ r[i].kind = "event" /\ r[i].seq \in Visible
                                   /\ r[i].seq <= published /\ resume < r[i].seq
         /\ \A t \in Visible : resume < t /\ t <= published =>
              \E j \in 1 .. Len(r) : r[j] = Event(t)
         /\ \A i, j \in 1 .. Len(r) : i < j => r[i].seq < r[j].seq
<1> DEFINE missed == ((resume + 1) .. published) \ Hidden
<1>1. PICK q \in Ascending(missed) : r = [i \in DOMAIN q |-> Event(q[i])]
  BY DEF Replays
<1>2. PICK n \in 0 .. MaxSeq : q \in [1 .. n -> missed]
  BY <1>1 DEF Ascending
<1>3. Range(q) = missed /\ \A i, j \in 1 .. n : i < j => q[i] < q[j]
  BY <1>1, <1>2 DEF Ascending
<1>4. n \in Nat /\ published \in Nat /\ published <= MaxSeq /\ resume \in Nat /\ MaxSeq \in Nat
  BY StreamAssumption DEF TypeOK, Positions
<1>5. /\ missed \subseteq Visible
      /\ \A t \in missed : t <= published /\ resume < t /\ Event(t) \in Frames
  BY <1>4 DEF Visible, Seqs, Event, Frames, Positions
<1>6. r \in [1 .. n -> Frames] /\ \A i \in 1 .. n : r[i] = Event(q[i])
  BY <1>1, <1>2, <1>5
<1>7. r \in Seq(Frames) /\ Len(r) = n
  <2>1. r \in Seq(Frames)
    BY <1>4, <1>6, SeqDef
  <2> QED  BY <1>4, <1>6, <2>1, LenProperties
<1>8. \A i \in 1 .. n : /\ r[i].kind = "event" /\ r[i].seq = q[i] /\ q[i] \in missed
  BY <1>2, <1>6 DEF Event
<1>9. ASSUME NEW t \in Visible, resume < t, t <= published PROVE \E j \in 1 .. n : r[j] = Event(t)
  <2>1. t \in missed
    BY <1>4, <1>9 DEF Visible, Seqs
  <2>2. PICK j \in 1 .. n : q[j] = t
    BY <1>2, <1>3, <2>1 DEF Range
  <2> QED  BY <1>6, <2>2
<1> QED  BY <1>3, <1>5, <1>7, <1>8, <1>9

-----------------------------------------------------------------------------
(* Types                                                                   *)

\* Every frame is one of Frames.
LEMMA FrameTypes ==
  /\ \A s \in Positions : Event(s) \in Frames
  /\ \A s \in Positions, kind \in {"reply", "resumed", "resume_failed", "other"} :
       Marker(kind, s) \in Frames
  BY DEF Event, Marker, Frames

\* The sequence of one frame.
LEMMA OneFrame ==
  ASSUME NEW f \in Frames
  PROVE  <<f>> \in Seq(Frames) /\ Len(<<f>>) = 1 /\ <<f>>[1] = f
  OBVIOUS

\* TypeOK holds initially.
LEMMA StartTypes == Init => TypeOK
<1> SUFFICES ASSUME Init PROVE TypeOK
  OBVIOUS
<1>1. <<>> \in Seq(Frames) /\ Len(<<>>) = 0
  BY EmptySeq
<1>2. MaxSeq \in Nat /\ BufferCap \in Nat \ {0} /\ MaxDrops \in Nat /\ MaxRestarts \in Nat
  BY StreamAssumption
<1>3. /\ published \in Positions /\ evicted \in 0 .. published /\ lastSeq \in Positions
      /\ 0 \in Positions /\ 0 \in 0 .. MaxDrops /\ 0 \in 0 .. MaxRestarts /\ 0 <= BufferCap
  BY <1>2 DEF Init, Positions
<1> QED  BY <1>1, <1>3 DEF Init, TypeOK

\* What a read leaves of the types, whatever the frame.
LEMMA ReadTypes ==
  ASSUME TypeOK, Bounds, Read
  PROVE  TypeOK'
<1>1. PICK kind : Arrives(kind)
  BY DEF Read, ReadReply, ReadEvent, ReadResumed, ReadResumeFailed, ReadOther
<1>2. /\ Head(out) \in Frames /\ out' \in Seq(Frames)
      /\ Head(out).kind = "event" => Head(out).seq # 0
  BY <1>1, Arriving DEF Bounds, Sound
<1>3. Emit(Head(out))
  BY DEF Read, ReadReply, ReadEvent, ReadResumed, ReadResumeFailed, ReadOther
<1>4. events' \in Seq(Frames) /\ Len(events') <= BufferCap /\ discarded' \subseteq Seqs
  BY <1>2, <1>3, Emitted
<1>5. Head(out).seq \in Positions
  BY <1>2 DEF Frames
<1>6. lastSeq' \in Positions /\ adopted' \in Positions
  BY <1>5 DEF Read, ReadReply, ReadEvent, ReadResumed, ReadResumeFailed, ReadOther, AdvanceSeq,
              TypeOK
<1>7. declared' \subseteq Seqs
  <2>1. CASE ReadResumeFailed
    <3>1. declared' = declared \cup ((lastSeq + 1) .. Head(out).seq)
      BY <2>1 DEF ReadResumeFailed
    <3>2. declared \subseteq Seqs /\ lastSeq \in Nat
      BY DEF TypeOK, Positions
    <3>3. Head(out).seq \in 0 .. MaxSeq /\ MaxSeq \in Nat
      BY <1>5, StreamAssumption DEF Positions
    <3>4. \A n \in (lastSeq + 1) .. Head(out).seq : n \in 1 .. MaxSeq
      BY <3>2, <3>3
    <3> QED  BY <3>1, <3>2, <3>4 DEF Seqs
  <2>2. CASE ReadReply \/ ReadEvent \/ ReadResumed \/ ReadOther
    BY <2>2 DEF ReadReply, ReadEvent, ReadResumed, ReadOther, TypeOK
  <2> QED  BY <2>1, <2>2 DEF Read
<1>8. UNCHANGED <<published, evicted, link, resume, mailbox, saved, drops, restarts, handled,
                  owedFrom>>
  BY DEF Read, ReadReply, ReadEvent, ReadResumed, ReadResumeFailed, ReadOther, server
<1> QED  BY <1>2, <1>4, <1>6, <1>7, <1>8 DEF TypeOK

\* TypeOK is kept by every step.
LEMMA NextTypes == TypeOK /\ Bounds /\ Shape /\ [Next]_vars => TypeOK'
<1> SUFFICES ASSUME TypeOK, Bounds, Shape, [Next]_vars PROVE TypeOK'
  OBVIOUS
<1>0. /\ MaxSeq \in Nat /\ BufferCap \in Nat \ {0} /\ MaxDrops \in Nat /\ MaxRestarts \in Nat
      /\ <<>> \in Seq(Frames) /\ Len(<<>>) = 0
      /\ published \in Nat /\ published <= MaxSeq
  BY StreamAssumption, EmptySeq DEF TypeOK, Positions
<1>1. CASE Publish
  <2>1. published' = published + 1 /\ published' \in Positions /\ Event(published') \in Frames
    BY <1>0, <1>1, FrameTypes DEF Publish, Positions
  <2>2. Append(mailbox, Event(published')) \in Seq(Frames)
        /\ Append(out, Event(published')) \in Seq(Frames)
    BY <2>1, Appended DEF TypeOK
  <2>3. mailbox' \in Seq(Frames) /\ out' \in Seq(Frames)
    BY <1>1, <2>2 DEF Publish, TypeOK
  <2>4. evicted' \in 0 .. published'
    BY <1>0, <1>1, <2>1 DEF Publish, TypeOK
  <2>5. UNCHANGED <<link, resume, lastSeq, events, saved, drops, restarts, handled, discarded,
                    declared, adopted, owedFrom>>
    BY <1>1 DEF Publish, client, ghosts
  <2> QED  BY <2>1, <2>3, <2>4, <2>5 DEF TypeOK
<1>2. CASE Evict
  BY <1>0, <1>2 DEF Evict, socket, client, ghosts, TypeOK
<1>3. CASE ServeResume
  <2>1. PICK replay \in Replays :
          out' = out \o (IF resume >= evicted
                         THEN Append(replay, Marker("resumed", published))
                         ELSE <<Marker("resume_failed", published)>>) \o mailbox
    BY <1>3 DEF ServeResume
  <2>2. resume <= published
    BY <1>0, <1>3 DEF ServeResume, Shape, Bounds, TypeOK, Positions
  <2>3. replay \in Seq(Frames)
    BY <2>2, ReplayWhole
  <2>4. Append(replay, Marker("resumed", published)) \in Seq(Frames)
        /\ <<Marker("resume_failed", published)>> \in Seq(Frames)
    BY <2>3, Appended, FrameTypes, OneFrame DEF TypeOK
  <2>5. out' \in Seq(Frames)
    BY <2>1, <2>4, ConcatProperties DEF TypeOK
  <2>6. mailbox' = <<>> /\ resume' = 0
        /\ UNCHANGED <<published, evicted, link, lastSeq, events, saved, drops, restarts,
                       handled, discarded, declared, adopted, owedFrom>>
    BY <1>3 DEF ServeResume, server, client, ghosts
  <2> QED  BY <1>0, <2>5, <2>6 DEF TypeOK, Positions
<1>4. CASE PushOther
  <2>1. out' \in Seq(Frames)
    BY <1>0, <1>4, FrameTypes, OneFrame DEF PushOther, Positions
  <2> QED  BY <1>4, <2>1 DEF PushOther, server, client, ghosts, TypeOK
<1>5. CASE Drop
  BY <1>0, <1>5 DEF Drop, server, client, ghosts, TypeOK, Positions
<1>6. CASE Join
  <2>0. published \in Positions /\ lastSeq \in Positions /\ 0 \in Positions
    BY <1>0 DEF TypeOK, Positions
  <2>1. out' \in Seq(Frames) /\ resume' \in Positions
    <3>1. out' = <<Marker("reply", published)>> /\ resume' \in {0, lastSeq}
      BY <1>6 DEF Join, ResumeToken
    <3> QED  BY <2>0, <3>1, FrameTypes, OneFrame
  <2>2. owedFrom' \in Positions \cup {NotJoined}
    BY <1>6 DEF Join, TypeOK
  <2> QED  BY <1>6, <2>1, <2>2 DEF Join, server, client, TypeOK
<1>7. CASE Read
  BY <1>7, ReadTypes
<1>8. CASE Dispatch
  <2>1. events' \in Seq(Frames) /\ Len(events') <= BufferCap /\ Head(events) \in Frames
    BY <1>0, <1>8, HeadTailProperties, LenProperties DEF Dispatch, TypeOK
  <2>2. handled' \in [Seqs -> Nat]
    <3>1. handled \in [Seqs -> Nat]
      BY DEF TypeOK
    <3>2. handled' \in {handled, [handled EXCEPT ![Head(events).seq] = @ + 1]}
      BY <1>8 DEF Dispatch
    <3> QED  BY <3>1, <3>2
  <2> QED  BY <1>8, <2>1, <2>2 DEF Dispatch, server, socket, TypeOK
<1>9. CASE Persist
  BY <1>9 DEF Persist, server, socket, client, ghosts, TypeOK
<1>10. CASE Restart
  <2>1. {f.seq : f \in {e \in Range(events) : e.kind = "event"}} \subseteq Seqs
    <3> SUFFICES ASSUME NEW s \in Queued PROVE s \in Seqs
      BY DEF Queued
    <3>1. events \in Seq(Frames)
      BY DEF TypeOK
    <3>2. PICK i \in 1 .. Len(events) : events[i].kind = "event" /\ events[i].seq = s
      BY <3>1, QueuedAt
    <3>3. events[i] \in Frames /\ s # 0
      BY <3>1, <3>2, ElementOfSeq DEF Bounds
    <3> QED  BY <1>0, <3>2, <3>3 DEF Frames, Positions, Seqs
  <2> QED  BY <1>0, <1>10, <2>1 DEF Restart, server, TypeOK, Positions
<1>11. CASE Quiet \/ UNCHANGED vars
  BY <1>11 DEF Quiet, vars, server, socket, client, ghosts, TypeOK
<1> QED  BY <1>1, <1>2, <1>3, <1>4, <1>5, <1>6, <1>7, <1>8, <1>9, <1>10, <1>11 DEF Next

-----------------------------------------------------------------------------
(* The frames on their way                                                 *)

\* Nothing is on its way before the first join.
LEMMA StartFlow == Init => Flow
<1> SUFFICES ASSUME Init PROVE Flow
  OBVIOUS
<1>1. lastSeq \in Nat /\ published \in Nat /\ lastSeq <= published
  BY StreamAssumption DEF Init, Positions
<1> QED  BY <1>1, EmptySeq DEF Init, Flow, Bounds, Shape, NoneAhead, CaughtUp

\* The head of the socket is taken off, and the position moves over no event
\* that frames behind it must still settle.
LEMMA Consumed ==
  ASSUME TypeOK, Flow, NEW kind, Arrives(kind), Emit(Head(out)),
         UNCHANGED <<published, link, resume, mailbox, saved>>,
         lastSeq' \in Nat, lastSeq <= lastSeq', lastSeq' <= published,
         resume > 0 => lastSeq' = lastSeq,
         \A t \in Visible : lastSeq' < t => ~ Covers(out[1], t, lastSeq)
  PROVE  Flow'
<1>1. /\ 1 \in 1 .. Len(out) /\ Head(out) = out[1] /\ out[1] \in Frames
      /\ out' \in Seq(Frames) /\ Len(out') = Len(out) - 1
      /\ \A i \in 1 .. Len(out') : out'[i] = out[i + 1]
  BY Arriving
<1>2. Len(out) \in Nat /\ Len(out') \in Nat /\ lastSeq \in Nat /\ published \in Nat /\ saved \in Nat
  BY <1>1, LenProperties DEF TypeOK, Positions
<1>3. \A i \in 1 .. Len(out') : i + 1 \in 1 .. Len(out) /\ out'[i] = out[i + 1]
  BY <1>1, <1>2
<1>4. \A i \in 1 .. Len(out') : out'[i].kind # "reply"
  BY <1>2, <1>3 DEF Flow, Shape
<1>5. Bounds'
  <2>1. \A i \in 1 .. Len(events') : events'[i].kind = "event" => events'[i].seq # 0
    <3>1. out[1].kind = "event" => out[1].seq # 0
      BY <1>1 DEF Flow, Bounds, Sound
    <3> QED  BY <1>1, <3>1, Emitted DEF Flow
  <2>2. \A i \in 1 .. Len(out') : Sound(out'[i], published')
    BY <1>3 DEF Flow, Bounds, Sound
  <2>3. \A i \in 1 .. Len(mailbox') : mailbox'[i].kind = "event" /\ Sound(mailbox'[i], published')
    BY DEF Flow, Bounds, Sound
  <2>4. lastSeq' <= published' /\ saved' <= lastSeq'
    BY <1>2 DEF Flow, Bounds
  <2> QED  BY <2>1, <2>2, <2>3, <2>4 DEF Bounds
<1>6. Shape'
  <2>1. out # <<>>
    BY <1>1, EmptySeq
  <2>2. link' # "down" /\ (resume' = 0 => mailbox' = <<>>)
    BY <2>1 DEF Flow, Shape
  <2>3. resume' > 0 =>
          resume' = lastSeq' /\ \A i \in 1 .. Len(out') : out'[i].kind \in {"reply", "other"}
    BY <1>3 DEF Flow, Shape
  <2> QED  BY <1>4, <2>2, <2>3 DEF Shape
\* What frame j settled, it settles still.
<1>7. ASSUME NEW t \in Visible, lastSeq' < t, NEW j \in 1 .. Len(out), Covers(out[j], t, lastSeq)
      PROVE  j - 1 \in 1 .. Len(out') /\ Covers(out'[j - 1], t, lastSeq')
  <2>1. j # 1
    BY <1>7
  <2>2. j - 1 \in 1 .. Len(out') /\ out'[j - 1] = out[j]
    BY <1>1, <1>2, <1>3, <2>1
  <2>3. out[j].kind # "reply"
    BY <1>4, <2>2
  <2> QED  BY <1>7, <2>2, <2>3 DEF Covers
<1>8. NoneAhead'
  <2> SUFFICES ASSUME NEW i \in 1 .. Len(out'), out'[i].kind \in {"event", "resumed"},
                      NEW t \in Visible, lastSeq' < t, t <= out'[i].seq
               PROVE  \E j \in 1 .. i : Covers(out'[j], t, lastSeq')
    BY DEF NoneAhead, Visible
  <2>1. t \in Nat /\ lastSeq < t
    BY <1>2 DEF Visible, Seqs
  <2>2. PICK j \in 1 .. i + 1 : Covers(out[j], t, lastSeq)
    BY <1>3, <2>1 DEF Flow, NoneAhead
  <2>3. j \in 1 .. Len(out) /\ (j - 1 \in 1 .. Len(out') => j - 1 \in 1 .. i)
    BY <1>1, <1>2
  <2> QED  BY <1>7, <2>2, <2>3
<1>9. CaughtUp'
  <2> SUFFICES ASSUME link' = "up", resume' = 0, NEW t \in Visible, lastSeq' < t, t <= published'
               PROVE  \E j \in 1 .. Len(out') : Covers(out'[j], t, lastSeq')
    BY DEF CaughtUp, Visible
  <2>1. t \in Nat /\ lastSeq < t
    BY <1>2 DEF Visible, Seqs
  <2>2. PICK j \in 1 .. Len(out) : Covers(out[j], t, lastSeq)
    BY <2>1 DEF Flow, CaughtUp
  <2> QED  BY <1>7, <2>2
<1> QED  BY <1>5, <1>6, <1>8, <1>9 DEF Flow

\* Every read keeps the flow.
LEMMA ReadFlow ==
  ASSUME TypeOK, Flow, Read
  PROVE  Flow'
<1>1. /\ Emit(Head(out)) /\ UNCHANGED <<published, link, resume, mailbox, saved>>
  BY DEF Read, ReadReply, ReadEvent, ReadResumed, ReadResumeFailed, ReadOther, server
<1>2. lastSeq \in Nat /\ published \in Nat /\ lastSeq <= published /\ resume \in Nat
  BY DEF TypeOK, Positions, Flow, Bounds
<1>3. ASSUME NEW kind \in {"reply", "event", "resumed", "resume_failed", "other"}, Arrives(kind)
      PROVE  /\ 1 \in 1 .. Len(out) /\ Head(out) = out[1] /\ out[1].kind = kind
             /\ out[1].seq \in Nat
             /\ kind # "other" => out[1].seq <= published
             /\ resume > 0 => kind \in {"reply", "other"}
  <2>1. 1 \in 1 .. Len(out) /\ Head(out) = out[1] /\ out[1] \in Frames /\ out[1].kind = kind
    BY <1>3, Arriving
  <2>2. out[1].seq \in Nat
    BY <2>1 DEF Frames, Positions
  <2> QED  BY <2>1, <2>2 DEF Flow, Bounds, Sound, Shape
<1>4. CASE ReadReply
  <2>1. Arrives("reply") /\ lastSeq' = IF lastSeq = 0 THEN Head(out).seq ELSE lastSeq
    BY <1>4 DEF ReadReply
  <2>2. lastSeq' \in Nat /\ lastSeq <= lastSeq' /\ lastSeq' <= published
    BY <1>2, <1>3, <2>1
  <2>3. resume > 0 => lastSeq' = lastSeq
    BY <1>2, <2>1 DEF Flow, Shape
  <2>4. ASSUME NEW t \in Visible, lastSeq' < t PROVE ~ Covers(out[1], t, lastSeq)
    BY <1>3, <2>1, <2>4 DEF Covers, Visible, Seqs
  <2> QED  BY <1>1, <2>1, <2>2, <2>3, <2>4, Consumed
<1>5. ASSUME NEW kind \in {"event", "resumed", "resume_failed"}, Arrives(kind),
             lastSeq' = AdvanceSeq(lastSeq, Head(out).seq)
      PROVE  Flow'
  <2>1. /\ lastSeq' = IF out[1].seq > lastSeq THEN out[1].seq ELSE lastSeq
        /\ out[1].seq \in Nat /\ out[1].seq <= published /\ out[1].kind = kind /\ ~ (resume > 0)
    BY <1>3, <1>5 DEF AdvanceSeq
  <2>2. lastSeq' \in Nat /\ lastSeq <= lastSeq' /\ lastSeq' <= published
    BY <1>2, <2>1
  <2>3. ASSUME NEW t \in Visible, lastSeq' < t PROVE ~ Covers(out[1], t, lastSeq)
    BY <1>2, <2>1, <2>3 DEF Covers, Visible, Seqs
  <2> QED  BY <1>1, <1>5, <2>1, <2>2, <2>3, Consumed
<1>6. CASE ReadOther
  <2>1. Arrives("other") /\ lastSeq' = lastSeq
    BY <1>6 DEF ReadOther
  <2>2. \A t \in Visible : ~ Covers(out[1], t, lastSeq)
    BY <1>3, <2>1 DEF Covers
  <2> QED  BY <1>1, <1>2, <2>1, <2>2, Consumed
<1>7. CASE ReadEvent
  BY <1>5, <1>7 DEF ReadEvent
<1>8. CASE ReadResumed
  BY <1>5, <1>8 DEF ReadResumed
<1>9. CASE ReadResumeFailed
  BY <1>5, <1>9 DEF ReadResumeFailed
<1> QED  BY <1>4, <1>6, <1>7, <1>8, <1>9 DEF Read

\* A new event waits behind a replay, or follows what is on its way, or is
\* filtered out.
LEMMA PublishFlow ==
  ASSUME TypeOK, Flow, Publish
  PROVE  Flow'
<1> DEFINE new == Event(published + 1)
<1>1. /\ published' = published + 1 /\ published \in Nat /\ lastSeq \in Nat /\ saved \in Nat
      /\ new \in Frames /\ new.kind = "event" /\ new.seq = published + 1
      /\ out \in Seq(Frames) /\ mailbox \in Seq(Frames) /\ resume \in Nat
  <2>1. published' = published + 1 /\ published \in 0 .. MaxSeq /\ published < MaxSeq
    BY DEF Publish, TypeOK, Positions
  <2>2. published + 1 \in Positions
    BY <2>1, StreamAssumption DEF Positions
  <2>3. new \in Frames /\ new.kind = "event" /\ new.seq = published + 1
    BY <2>2, FrameTypes DEF Event
  <2> QED  BY <2>1, <2>3 DEF TypeOK, Positions
<1>2. UNCHANGED <<link, resume, lastSeq, events, saved>>
  BY DEF Publish, client
<1>3. /\ Len(out) \in Nat /\ Len(mailbox) \in Nat
      /\ \A i \in 1 .. Len(out) : out[i] \in Frames /\ out[i].seq \in Nat
      /\ \A i \in 1 .. Len(mailbox) : mailbox[i] \in Frames /\ mailbox[i].seq \in Nat
  <2>1. Len(out) \in Nat /\ Len(mailbox) \in Nat
    BY <1>1, LenProperties
  <2>2. \A i \in 1 .. Len(out) : out[i] \in Frames
    BY <1>1, ElementOfSeq
  <2>3. \A i \in 1 .. Len(mailbox) : mailbox[i] \in Frames
    BY <1>1, ElementOfSeq
  <2>4. \A f \in Frames : f.seq \in Nat
    BY DEF Frames, Positions
  <2> QED  BY <2>1, <2>2, <2>3, <2>4
<1>4. /\ lastSeq' <= published' /\ saved' <= lastSeq'
      /\ \A i \in 1 .. Len(out) : Sound(out[i], published')
      /\ \A i \in 1 .. Len(mailbox) : mailbox[i].kind = "event" /\ Sound(mailbox[i], published')
      /\ \A i \in 1 .. Len(events') : events'[i].kind = "event" => events'[i].seq # 0
  BY <1>1, <1>2, <1>3 DEF Flow, Bounds, Sound
<1>5. Sound(new, published')
  BY <1>1 DEF Sound
<1>6. CASE link = "down" \/ published' \in Hidden
  <2>1. UNCHANGED <<mailbox, out>>
    BY <1>6 DEF Publish
  <2>2. CaughtUp'
    <3> SUFFICES ASSUME link = "up", resume = 0, NEW t \in Visible, lastSeq < t, t <= published + 1
                 PROVE  \E j \in 1 .. Len(out) : Covers(out[j], t, lastSeq)
      BY <1>1, <1>2, <2>1 DEF CaughtUp, Visible
    <3>1. t <= published
      BY <1>1, <1>6 DEF Visible, Seqs
    <3> QED  BY <3>1 DEF Flow, CaughtUp
  <2> QED  BY <1>2, <1>4, <2>1, <2>2 DEF Flow, Bounds, Shape, NoneAhead, Visible
<1>7. CASE link # "down" /\ published' \notin Hidden /\ resume > 0
  <2>1. out' = out /\ mailbox' = Append(mailbox, new)
    BY <1>1, <1>7 DEF Publish
  <2>2. \A i \in 1 .. Len(mailbox') : mailbox'[i].kind = "event" /\ Sound(mailbox'[i], published')
    BY <1>1, <1>3, <1>4, <1>5, <2>1, Appended
  <2> QED  BY <1>1, <1>2, <1>4, <1>7, <2>1, <2>2 DEF Flow, Bounds, Shape, NoneAhead, CaughtUp,
               Visible
<1>8. CASE link # "down" /\ published' \notin Hidden /\ ~ (resume > 0)
  <2>1. out' = Append(out, new) /\ mailbox' = mailbox /\ resume = 0 /\ link = "up"
    BY <1>1, <1>8 DEF Publish, TypeOK
  <2>2. /\ Len(out') = Len(out) + 1 /\ out'[Len(out) + 1] = new
        /\ \A i \in 1 .. Len(out) : out'[i] = out[i]
    BY <1>1, <2>1, Appended
  <2>3. Bounds'
    <3>1. \A i \in 1 .. Len(out') : Sound(out'[i], published')
      BY <1>3, <1>4, <1>5, <2>2
    <3> QED  BY <1>4, <2>1, <3>1 DEF Bounds
  <2>4. Shape'
    <3>1. \A i \in 1 .. Len(out') : out'[i].kind = "reply" => i = 1
      <4>1. out'[Len(out) + 1].kind = "event"
        BY <1>1, <2>2
      <4>2. \A i \in 1 .. Len(out) : out'[i].kind = "reply" => i = 1
        BY <2>2 DEF Flow, Shape
      <4> QED  BY <1>3, <2>2, <4>1, <4>2
    <3> QED  BY <1>2, <2>1, <3>1 DEF Flow, Shape
  <2>5. ASSUME NEW t \in Visible, lastSeq < t, t <= published + 1
        PROVE  \E j \in 1 .. Len(out') : Covers(out'[j], t, lastSeq)
    <3>1. CASE t <= published
      <4>1. PICK j \in 1 .. Len(out) : Covers(out[j], t, lastSeq)
        BY <2>1, <2>5, <3>1 DEF Flow, CaughtUp
      <4>2. j \in 1 .. Len(out') /\ out'[j] = out[j]
        BY <1>3, <2>2
      <4> QED  BY <4>1, <4>2
    <3>2. CASE ~ (t <= published)
      <4>1. t = published + 1
        BY <1>1, <2>5, <3>2 DEF Visible, Seqs
      <4>2. Len(out') \in 1 .. Len(out') /\ Covers(out'[Len(out')], t, lastSeq)
        BY <1>1, <1>3, <2>2, <4>1 DEF Covers
      <4> QED  BY <4>2
    <3> QED  BY <3>1, <3>2
  <2>6. CaughtUp'
    BY <1>1, <1>2, <2>5 DEF CaughtUp, Visible
  <2>7. NoneAhead'
    <3> SUFFICES ASSUME NEW i \in 1 .. Len(out'), out'[i].kind \in {"event", "resumed"},
                        NEW t \in Visible, lastSeq < t, t <= out'[i].seq
                 PROVE  \E j \in 1 .. i : Covers(out'[j], t, lastSeq)
      BY <1>2 DEF NoneAhead, Visible
    <3>1. CASE i = Len(out) + 1
      BY <1>1, <2>2, <2>5, <3>1
    <3>2. CASE i # Len(out) + 1
      <4>1. i \in 1 .. Len(out) /\ out'[i] = out[i]
        BY <1>3, <2>2, <3>2
      <4>2. PICK j \in 1 .. i : Covers(out[j], t, lastSeq)
        BY <4>1 DEF Flow, NoneAhead
      <4>3. out'[j] = out[j]
        BY <1>3, <2>2, <4>1
      <4> QED  BY <4>2, <4>3
    <3> QED  BY <3>1, <3>2
  <2> QED  BY <2>3, <2>4, <2>6, <2>7 DEF Flow
<1> QED  BY <1>6, <1>7, <1>8

\* A join: the reply brings a client without a position up to date, and the
\* others are brought there by the replay they asked for.
LEMMA JoinFlow ==
  ASSUME TypeOK, Flow, Join
  PROVE  Flow'
<1>1. /\ out' = <<Marker("reply", published)>> /\ Len(out') = 1
      /\ out'[1].kind = "reply" /\ out'[1].seq = published
      /\ resume' = ResumeToken(lastSeq) /\ link' = "up"
      /\ UNCHANGED <<published, mailbox, lastSeq, events, saved>>
  BY DEF Join, Marker, server, client
<1>2. mailbox = <<>> /\ lastSeq \in Nat /\ published \in Nat
  BY DEF Join, Flow, Shape, TypeOK, Positions
<1>3. Bounds'
  BY <1>1, <1>2 DEF Flow, Bounds, Sound
<1>4. Shape'
  BY <1>1, <1>2 DEF Shape, ResumeToken
<1>5. NoneAhead'
  BY <1>1 DEF NoneAhead
<1>6. CaughtUp'
  BY <1>1, <1>2 DEF CaughtUp, Covers, ResumeToken, Visible
<1> QED  BY <1>3, <1>4, <1>5, <1>6 DEF Flow

\* The server's answer to a position: the replay and its marker, or a refusal.
Answer(replay) ==
  IF resume >= evicted THEN Append(replay, Marker("resumed", published))
  ELSE <<Marker("resume_failed", published)>>

\* An answer settles all that is after the position, each event before the
\* frame that would move the position over it.
LEMMA AnswerWhole ==
  ASSUME TypeOK, resume <= published, NEW r \in Replays, NEW pos
  PROVE  /\ Answer(r) \in Seq(Frames)
         /\ \A i \in 1 .. Len(Answer(r)) :
              /\ Sound(Answer(r)[i], published)
              /\ Answer(r)[i].kind # "reply"
         /\ \A t \in Visible : resume < t /\ t <= published =>
              \E j \in 1 .. Len(Answer(r)) : Covers(Answer(r)[j], t, pos)
         /\ \A i \in 1 .. Len(Answer(r)) : Answer(r)[i].kind \in {"event", "resumed"} =>
              \A t \in Visible : resume < t /\ t <= Answer(r)[i].seq =>
                \E j \in 1 .. i : Covers(Answer(r)[j], t, pos)
<1> DEFINE m == Answer(r)
<1>0. published \in Positions /\ published \in Nat /\ resume \in Nat
  BY DEF TypeOK, Positions
<1>1. CASE resume >= evicted
  <2> DEFINE last == Marker("resumed", published)
  <2>1. last \in Frames /\ last.kind = "resumed" /\ last.seq = published /\ m = Append(r, last)
    BY <1>0, <1>1, FrameTypes DEF Answer, Marker
  <2>2. /\ r \in Seq(Frames)
        /\ \A i \in 1 .. Len(r) : /\ r[i].kind = "event" /\ r[i].seq \in Visible
                                  /\ r[i].seq <= published
        /\ \A t \in Visible : resume < t /\ t <= published =>
             \E j \in 1 .. Len(r) : r[j] = Event(t)
        /\ \A i, j \in 1 .. Len(r) : i < j => r[i].seq < r[j].seq
    BY ReplayWhole
  <2>3. /\ m \in Seq(Frames) /\ Len(r) \in Nat /\ Len(m) = Len(r) + 1 /\ m[Len(r) + 1] = last
        /\ \A i \in 1 .. Len(r) : m[i] = r[i]
    BY <2>1, <2>2, Appended
  <2> HIDE DEF m, last
  <2>4. ASSUME NEW i \in 1 .. Len(m) PROVE Sound(m[i], published) /\ m[i].kind # "reply"
    <3>1. CASE i = Len(r) + 1
      BY <1>0, <2>1, <2>3, <3>1 DEF Sound
    <3>2. CASE i # Len(r) + 1
      <4>1. i \in 1 .. Len(r) /\ m[i] = r[i]
        BY <2>3, <3>2
      <4> QED  BY <2>2, <4>1 DEF Sound, Visible, Seqs
    <3> QED  BY <3>1, <3>2
  <2>5. ASSUME NEW t \in Visible, resume < t, t <= published
        PROVE  \E j \in 1 .. Len(r) : m[j] = Event(t) /\ Covers(m[j], t, pos)
    <3>1. PICK j \in 1 .. Len(r) : r[j] = Event(t)
      BY <2>2, <2>5
    <3> QED  BY <2>3, <3>1 DEF Event, Covers
  <2>6. ASSUME NEW i \in 1 .. Len(m), NEW t \in Visible, resume < t, t <= m[i].seq
        PROVE  \E j \in 1 .. i : Covers(m[j], t, pos)
    <3>0. t \in Nat
      BY DEF Visible, Seqs
    <3>1. CASE i = Len(r) + 1
      BY <2>1, <2>3, <2>5, <2>6, <3>1
    <3>2. CASE i # Len(r) + 1
      <4>1. i \in 1 .. Len(r) /\ m[i] = r[i]
        BY <2>3, <3>2
      <4>2. m[i].seq <= published /\ m[i].seq \in Nat
        BY <2>2, <4>1 DEF Visible, Seqs
      <4>3. PICK j \in 1 .. Len(r) : m[j] = Event(t) /\ Covers(m[j], t, pos)
        BY <1>0, <2>5, <2>6, <3>0, <4>2
      <4>4. r[j].seq = t
        BY <2>3, <4>3 DEF Event
      <4>5. ~ (i < j)
        BY <2>2, <2>6, <3>0, <4>1, <4>2, <4>4
      <4> QED  BY <2>3, <4>1, <4>3, <4>5
    <3> QED  BY <3>1, <3>2
  <2>7. \A j \in 1 .. Len(r) : j \in 1 .. Len(m)
    BY <2>3
  <2> QED  BY <2>3, <2>4, <2>5, <2>6, <2>7 DEF m
<1>2. CASE ~ (resume >= evicted)
  <2> DEFINE f == Marker("resume_failed", published)
  <2>1. f \in Frames /\ f.kind = "resume_failed" /\ f.seq = published /\ m = <<f>>
    BY <1>0, <1>2, FrameTypes DEF Answer, Marker
  <2>2. m \in Seq(Frames) /\ Len(m) = 1 /\ m[1] = f
    BY <2>1, OneFrame
  <2> HIDE DEF m, f
  <2>3. Sound(f, published) /\ f.kind # "reply" /\ f.kind \notin {"event", "resumed"}
    BY <1>0, <2>1 DEF Sound
  <2>4. \A t \in Visible : t <= published => Covers(f, t, pos)
    BY <2>1 DEF Covers
  <2>5. \A i \in 1 .. Len(m) : i = 1 /\ m[i] = f
    BY <2>2
  <2>6. 1 \in 1 .. Len(m)
    BY <2>2
  <2> QED  BY <2>2, <2>3, <2>4, <2>5, <2>6 DEF m
<1> QED  BY <1>1, <1>2

\* The replay and the live events that waited, put behind what is on its way.
LEMMA ServeFlow ==
  ASSUME TypeOK, Flow, ServeResume
  PROVE  Flow'
<1>0. /\ published \in Nat /\ lastSeq \in Nat /\ resume \in Nat /\ resume > 0
      /\ out \in Seq(Frames) /\ mailbox \in Seq(Frames)
      /\ resume = lastSeq /\ resume <= published /\ link = "up"
  BY DEF ServeResume, TypeOK, Positions, Flow, Shape, Bounds
<1>1. PICK r \in Replays : out' = (out \o Answer(r)) \o mailbox
  <2>1. PICK r \in Replays :
          out' = out \o (IF resume >= evicted
                         THEN Append(r, Marker("resumed", published))
                         ELSE <<Marker("resume_failed", published)>>) \o mailbox
    BY DEF ServeResume
  <2> QED  BY <2>1 DEF Answer
<1> DEFINE m == Answer(r)
           n == Len(out)
           k == n + Len(m)
<1>2. /\ m \in Seq(Frames)
      /\ \A i \in 1 .. Len(m) : Sound(m[i], published) /\ m[i].kind # "reply"
      /\ \A t \in Visible : resume < t /\ t <= published =>
           \E j \in 1 .. Len(m) : Covers(m[j], t, lastSeq)
      /\ \A i \in 1 .. Len(m) : m[i].kind \in {"event", "resumed"} =>
           \A t \in Visible : resume < t /\ t <= m[i].seq =>
             \E j \in 1 .. i : Covers(m[j], t, lastSeq)
  BY <1>0, AnswerWhole
<1> HIDE DEF m
<1>3. /\ n \in Nat /\ Len(m) \in Nat /\ Len(mailbox) \in Nat
      /\ Len(out') = k + Len(mailbox) /\ out' \in Seq(Frames)
      /\ \A i \in 1 .. Len(out') :
           out'[i] = IF i <= n THEN out[i] ELSE IF i <= k THEN m[i - n] ELSE mailbox[i - k]
  <2> DEFINE front == out \o m
  <2>1. n \in Nat /\ Len(m) \in Nat /\ Len(mailbox) \in Nat
    BY <1>0, <1>2, LenProperties
  <2>2. /\ front \in Seq(Frames) /\ Len(front) = k
        /\ \A i \in 1 .. k : front[i] = IF i <= n THEN out[i] ELSE m[i - n]
    BY <1>0, <1>2, ConcatProperties
  <2>3. out' = front \o mailbox
    BY <1>1 DEF m
  <2> HIDE DEF front
  <2>4. /\ out' \in Seq(Frames) /\ Len(out') = k + Len(mailbox)
        /\ \A i \in 1 .. k + Len(mailbox) :
             out'[i] = IF i <= k THEN front[i] ELSE mailbox[i - k]
    <3>1. /\ front \o mailbox \in Seq(Frames)
          /\ Len(front \o mailbox) = Len(front) + Len(mailbox)
          /\ \A i \in 1 .. Len(front) + Len(mailbox) : (front \o mailbox)[i] =
               IF i <= Len(front) THEN front[i] ELSE mailbox[i - Len(front)]
      BY <1>0, <2>2, ConcatProperties
    <3> QED  BY <2>2, <2>3, <3>1
  <2> QED  BY <2>1, <2>2, <2>4
<1>4. mailbox' = <<>> /\ resume' = 0 /\ UNCHANGED <<published, link, lastSeq, events, saved>>
  BY DEF ServeResume, server, client
\* Each frame is an old one, of the answer, or one that waited.
<1>5. ASSUME NEW i \in 1 .. Len(out')
      PROVE  \/ i \in 1 .. n /\ out'[i] = out[i]
             \/ i - n \in 1 .. Len(m) /\ out'[i] = m[i - n]
             \/ i > k /\ i - k \in 1 .. Len(mailbox) /\ out'[i] = mailbox[i - k]
  BY <1>3
<1>6. ASSUME NEW j \in 1 .. Len(m) PROVE n + j \in 1 .. Len(out') /\ n + j <= k /\ out'[n + j] = m[j]
  BY <1>3
<1>7. Bounds'
  <2>1. \A i \in 1 .. Len(out') : Sound(out'[i], published)
    BY <1>2, <1>5 DEF Flow, Bounds
  <2> QED  BY <1>4, <2>1, EmptySeq DEF Flow, Bounds
<1>8. Shape'
  <2>1. ASSUME NEW i \in 1 .. Len(out'), out'[i].kind = "reply" PROVE i = 1
    BY <1>2, <1>5, <2>1 DEF Flow, Shape, Bounds
  <2> QED  BY <1>0, <1>4, <2>1 DEF Shape
<1>9. ASSUME NEW t \in Visible, lastSeq < t, t <= published
      PROVE  \E j \in 1 .. k : j \in 1 .. Len(out') /\ Covers(out'[j], t, lastSeq)
  <2>1. PICK j \in 1 .. Len(m) : Covers(m[j], t, lastSeq)
    BY <1>0, <1>2, <1>9
  <2>2. n + j \in 1 .. Len(out') /\ n + j \in 1 .. k /\ out'[n + j] = m[j]
    BY <1>3, <1>6
  <2> QED  BY <2>1, <2>2
<1>10. CaughtUp'
  BY <1>4, <1>9 DEF CaughtUp, Visible
<1>11. NoneAhead'
  <2> SUFFICES ASSUME NEW i \in 1 .. Len(out'), out'[i].kind \in {"event", "resumed"},
                      NEW t \in Visible, lastSeq < t, t <= out'[i].seq
               PROVE  \E j \in 1 .. i : Covers(out'[j], t, lastSeq)
    BY <1>4 DEF NoneAhead, Visible
  <2>1. CASE i \in 1 .. n /\ out'[i] = out[i]
    BY <1>0, <2>1 DEF Flow, Shape
  <2>2. CASE i - n \in 1 .. Len(m) /\ out'[i] = m[i - n]
    <3>1. PICK j \in 1 .. i - n : Covers(m[j], t, lastSeq)
      BY <1>0, <1>2, <2>2
    <3>2. j \in 1 .. Len(m) /\ n + j \in 1 .. i
      BY <1>3, <2>2
    <3> QED  BY <1>6, <3>1, <3>2
  <2>3. CASE i > k /\ i - k \in 1 .. Len(mailbox) /\ out'[i] = mailbox[i - k]
    <3>1. out'[i] \in Frames
      BY <1>3, ElementOfSeq
    <3>2. out'[i].seq <= published /\ out'[i].seq \in Nat /\ t \in Nat
      BY <2>3, <3>1 DEF Flow, Bounds, Sound, Frames, Positions, Visible, Seqs
    <3>3. t <= published
      BY <1>0, <3>2
    <3>4. PICK j \in 1 .. k : Covers(out'[j], t, lastSeq)
      BY <1>9, <3>3
    <3> QED  BY <1>3, <2>3, <3>4
  <2> QED  BY <1>5, <2>1, <2>2, <2>3
<1> QED  BY <1>7, <1>8, <1>10, <1>11 DEF Flow

\* The flow is kept by every step.
LEMMA NextFlow == TypeOK /\ Flow /\ [Next]_vars => Flow'
<1> SUFFICES ASSUME TypeOK, Flow, [Next]_vars PROVE Flow'
  OBVIOUS
<1>0. <<>> \in Seq(Frames) /\ Len(<<>>) = 0 /\ \A i \in 1 .. 0 : FALSE
  BY EmptySeq
<1>1. CASE Evict \/ Quiet \/ UNCHANGED vars
  BY <1>1 DEF Evict, Quiet, vars, server, socket, client, Flow, Bounds, Shape, NoneAhead,
       CaughtUp, Visible
<1>2. CASE PushOther
  <2>1. /\ out = <<>> /\ out' = <<Marker("other", MaxSeq)>> /\ link = "up"
        /\ UNCHANGED <<published, link, resume, mailbox, lastSeq, events, saved>>
    BY <1>2 DEF PushOther, server, client
  <2>2. Len(out') = 1 /\ out'[1].kind = "other"
    BY <2>1 DEF Marker
  <2>3. Bounds' /\ Shape'
    BY <2>1, <2>2 DEF Flow, Bounds, Shape, Sound
  <2>4. NoneAhead'
    BY <2>2 DEF NoneAhead
  <2>5. CaughtUp'
    BY <1>0, <2>1, <2>2 DEF Flow, CaughtUp, Visible
  <2> QED  BY <2>3, <2>4, <2>5 DEF Flow
<1>3. CASE Drop
  BY <1>0, <1>3 DEF Drop, server, client, Flow, Bounds, Shape, NoneAhead, CaughtUp
<1>4. CASE Dispatch
  <2>1. /\ events \in Seq(Frames) /\ events # <<>> /\ events' = Tail(events)
        /\ UNCHANGED <<published, link, resume, mailbox, out, lastSeq, saved>>
    BY <1>4 DEF Dispatch, server, socket, TypeOK
  <2>2. /\ Len(events) \in Nat /\ Len(events') = Len(events) - 1
        /\ \A i \in 1 .. Len(events') : events'[i] = events[i + 1]
    BY <2>1, HeadTailProperties, LenProperties
  <2>3. \A i \in 1 .. Len(events') : events'[i].kind = "event" => events'[i].seq # 0
    BY <2>2 DEF Flow, Bounds
  <2> QED  BY <2>1, <2>3 DEF Flow, Bounds, Shape, NoneAhead, CaughtUp, Visible
<1>5. CASE Persist
  <2>1. saved' = lastSeq
        /\ UNCHANGED <<published, link, resume, mailbox, out, lastSeq, events>>
    BY <1>5 DEF Persist, server, socket, client
  <2>2. lastSeq \in Nat
    BY DEF TypeOK, Positions
  <2> QED  BY <2>1, <2>2 DEF Flow, Bounds, Shape, NoneAhead, CaughtUp, Visible
<1>6. CASE Restart
  <2>1. /\ published' = published /\ saved' = saved /\ lastSeq' = saved /\ link' = "down"
        /\ resume' = 0 /\ mailbox' = <<>> /\ out' = <<>> /\ events' = <<>>
    BY <1>6 DEF Restart, server
  <2>2. saved <= published /\ saved <= saved
    BY DEF TypeOK, Positions, Flow, Bounds
  <2> QED  BY <1>0, <2>1, <2>2 DEF Flow, Bounds, Shape, NoneAhead, CaughtUp
<1> QED  BY <1>1, <1>2, <1>3, <1>4, <1>5, <1>6, PublishFlow, ServeFlow, JoinFlow, ReadFlow
         DEF Next

-----------------------------------------------------------------------------
(* The position                                                            *)

\* No step takes an event out of the account.
LEMMA AccountedGrows ==
  TypeOK /\ Flow /\ [Next]_vars => Accounted \subseteq Accounted'
<1> SUFFICES ASSUME TypeOK, Flow, [Next]_vars PROVE Accounted \subseteq Accounted'
  OBVIOUS
<1>0. events \in Seq(Frames) /\ handled \in [Seqs -> Nat]
  BY DEF TypeOK
<1>1. CASE Publish \/ Evict \/ ServeResume \/ PushOther \/ Drop \/ Join \/ Persist \/ Quiet
           \/ UNCHANGED vars
  <2>1. UNCHANGED <<events, discarded, handled, declared>>
    BY <1>1 DEF Publish, Evict, ServeResume, PushOther, Drop, Join, Persist, Quiet, vars, client,
         ghosts
  <2> QED  BY <2>1 DEF Accounted, Received, Queued
<1>2. CASE Read
  <2>1. PICK kind : Arrives(kind)
    BY <1>2 DEF Read, ReadReply, ReadEvent, ReadResumed, ReadResumeFailed, ReadOther
  <2>2. Head(out) \in Frames /\ (Head(out).kind = "event" => Head(out).seq # 0)
    BY <2>1, Arriving DEF Flow, Bounds, Sound
  <2>3. Emit(Head(out)) /\ handled' = handled /\ declared \subseteq declared'
    BY <1>2 DEF Read, ReadReply, ReadEvent, ReadResumed, ReadResumeFailed, ReadOther
  <2>4. Queued \cup discarded \subseteq Queued' \cup discarded'
    BY <2>2, <2>3, Emitted DEF Flow
  <2> QED  BY <2>3, <2>4 DEF Accounted, Received
<1>3. CASE Dispatch
  <2>1. /\ events # <<>> /\ events' = Tail(events) /\ UNCHANGED <<discarded, declared>>
        /\ handled' = IF Head(events).kind = "event"
                      THEN [handled EXCEPT ![Head(events).seq] = @ + 1] ELSE handled
    BY <1>3 DEF Dispatch
  <2>2. /\ Len(events) \in Nat /\ events' \in Seq(Frames) /\ Len(events') = Len(events) - 1
        /\ \A i \in 1 .. Len(events') : events'[i] = events[i + 1]
        /\ Head(events) = events[1]
    BY <1>0, <2>1, HeadTailProperties, LenProperties
  <2>3. \A s \in Seqs : handled[s] > 0 => handled'[s] > 0
    BY <1>0, <2>1
  <2>4. ASSUME NEW s \in Queued PROVE s \in Queued' \/ (s \in Seqs /\ handled'[s] > 0)
    <3>1. PICK i \in 1 .. Len(events) : events[i].kind = "event" /\ events[i].seq = s
      BY <1>0, QueuedAt
    <3>2. CASE i = 1
      <4>1. events[1] \in Frames /\ s # 0
        BY <1>0, <3>1, <3>2, ElementOfSeq DEF Flow, Bounds
      <4>2. s \in Seqs
        BY <3>1, <3>2, <4>1 DEF Frames, Positions, Seqs
      <4>3. handled' = [handled EXCEPT ![s] = @ + 1]
        BY <2>1, <2>2, <3>1, <3>2
      <4> QED  BY <1>0, <4>2, <4>3
    <3>3. CASE i # 1
      <4>1. i - 1 \in 1 .. Len(events') /\ events'[i - 1] = events[i]
        BY <2>2, <3>3
      <4>2. \A j \in 1 .. Len(events') : events'[j].kind = "event" => events'[j].seq \in Queued'
        <5>1. DOMAIN events' = 1 .. Len(events')
          BY <2>2, LenProperties
        <5> QED  BY <5>1 DEF Queued, Range
      <4> QED  BY <3>1, <4>1, <4>2
    <3> QED  BY <3>2, <3>3
  <2> QED  BY <2>1, <2>3, <2>4 DEF Accounted, Received
<1>4. CASE Restart
  <2>1. discarded' = discarded \cup Queued /\ UNCHANGED <<handled, declared>>
    BY <1>4 DEF Restart, Queued
  <2> QED  BY <2>1 DEF Accounted, Received
<1> QED  BY <1>1, <1>2, <1>3, <1>4 DEF Next

\* A read moves the position over accounted events only, but for the join
\* reply of a client without a position.
LEMMA ReadMoves ==
  ASSUME TypeOK, Flow, Gapless, Read
  PROVE  /\ Gapless'
         /\ \/ lastSeq = 0 /\ adopted' = lastSeq'
            \/ lastSeq' >= lastSeq /\ adopted' = adopted
<1>0. /\ lastSeq \in Nat /\ MaxSeq \in Nat /\ adopted \in Nat
      /\ Accounted \subseteq Accounted'
  <2>1. [Next]_vars
    BY DEF Next
  <2>2. Accounted \subseteq Accounted'
    BY <2>1, AccountedGrows
  <2> QED  BY <2>2, StreamAssumption DEF TypeOK, Positions
<1>1. ASSUME NEW kind, Arrives(kind)
      PROVE  /\ 1 \in 1 .. Len(out) /\ Head(out) = out[1] /\ out[1] \in Frames
             /\ out[1].kind = kind /\ out[1].seq \in 0 .. MaxSeq
             /\ kind = "event" => out[1].seq # 0
  <2>1. 1 \in 1 .. Len(out) /\ Head(out) = out[1] /\ out[1] \in Frames /\ out[1].kind = kind
    BY <1>1, Arriving
  <2> QED  BY <2>1 DEF Frames, Positions, Flow, Bounds, Sound
<1>2. CASE ReadReply /\ lastSeq = 0
  <2>1. lastSeq' = Head(out).seq /\ adopted' = Head(out).seq
    BY <1>2 DEF ReadReply
  <2> QED  BY <1>2, <2>1 DEF Gapless
<1>3. CASE ReadOther \/ (ReadReply /\ lastSeq # 0)
  <2>1. lastSeq' = lastSeq /\ adopted' = adopted
    BY <1>3 DEF ReadOther, ReadReply
  <2> QED  BY <1>0, <2>1 DEF Gapless
<1>4. ASSUME NEW kind \in {"event", "resumed", "resume_failed"}, Arrives(kind),
             Emit(Head(out)), lastSeq' = AdvanceSeq(lastSeq, Head(out).seq), adopted' = adopted,
             kind = "resume_failed" => declared' = declared \cup ((lastSeq + 1) .. Head(out).seq)
      PROVE  Gapless' /\ lastSeq' >= lastSeq /\ adopted' = adopted
  <2>1. /\ 1 \in 1 .. Len(out) /\ Head(out) = out[1] /\ out[1] \in Frames
        /\ out[1].kind = kind /\ out[1].seq \in 0 .. MaxSeq
        /\ kind = "event" => out[1].seq # 0
    BY <1>1, <1>4
  <2>2. /\ lastSeq' = IF out[1].seq > lastSeq THEN out[1].seq ELSE lastSeq
        /\ lastSeq' >= lastSeq
    BY <1>0, <1>4, <2>1 DEF AdvanceSeq
  <2>3. ASSUME NEW t \in 1 .. lastSeq', lastSeq < t PROVE t \in Accounted'
    <3>1. t <= out[1].seq /\ t \in Seqs
      BY <1>0, <2>1, <2>2, <2>3 DEF Seqs
    <3>2. CASE t \in Hidden
      BY <3>2 DEF Accounted
    <3>3. CASE t \notin Hidden /\ kind = "resume_failed"
      <4>1. t \in declared'
        BY <1>0, <1>4, <2>1, <2>3, <3>1, <3>3
      <4> QED  BY <4>1 DEF Accounted
    <3>4. CASE t \notin Hidden /\ kind \in {"event", "resumed"}
      <4>1. t \in Visible
        BY <3>1, <3>4 DEF Visible
      <4>2. PICK j \in 1 .. 1 : Covers(out[j], t, lastSeq)
        BY <2>1, <2>3, <3>1, <3>4, <4>1 DEF Flow, NoneAhead
      <4>3. kind = "event" /\ out[1].seq = t
        BY <2>1, <3>4, <4>2 DEF Covers
      <4>4. t \in Queued' \cup discarded'
        BY <1>4, <2>1, <4>3, Emitted DEF Flow
      <4> QED  BY <4>4 DEF Accounted, Received
    <3> QED  BY <3>2, <3>3, <3>4
  <2>4. \A t \in 1 .. lastSeq' : t <= lastSeq => t \in (1 .. adopted) \cup Accounted
    BY <1>0, <2>1, <2>2 DEF Gapless
  <2>5. \A t \in 1 .. lastSeq' : t <= lastSeq \/ lastSeq < t
    BY <1>0
  <2>6. Gapless'
    BY <1>0, <1>4, <2>3, <2>4, <2>5 DEF Gapless
  <2> QED  BY <1>4, <2>2, <2>6
<1>5. CASE ReadEvent
  BY <1>4, <1>5 DEF ReadEvent
<1>6. CASE ReadResumed
  BY <1>4, <1>6 DEF ReadResumed
<1>7. CASE ReadResumeFailed
  BY <1>4, <1>7 DEF ReadResumeFailed
<1> QED  BY <1>2, <1>3, <1>5, <1>6, <1>7 DEF Read

\* The client's steps other than reads leave the position, or, when a new
\* process starts, take it back to a saved one.
LEMMA PositionStands ==
  ASSUME TypeOK, Flow, [Next]_vars, ~ Read
  PROVE  /\ adopted' = adopted
         /\ lastSeq' = lastSeq \/ (lastSeq' = saved /\ restarts' # restarts)
<1>1. CASE Publish \/ Evict \/ ServeResume \/ PushOther \/ Drop \/ Persist \/ Quiet
           \/ UNCHANGED vars
  BY <1>1 DEF Publish, Evict, ServeResume, PushOther, Drop, Persist, Quiet, vars, client, ghosts
<1>2. CASE Join \/ Dispatch
  BY <1>2 DEF Join, Dispatch, client
<1>3. CASE Restart
  BY <1>3 DEF Restart, TypeOK
<1> QED  BY <1>1, <1>2, <1>3 DEF Next

\* Nothing is skipped silently: the position is over accounted events only.
LEMMA NextGapless == TypeOK /\ Flow /\ Gapless /\ [Next]_vars => Gapless'
<1> SUFFICES ASSUME TypeOK, Flow, Gapless, [Next]_vars, ~ Read PROVE Gapless'
  BY ReadMoves
<1>1. /\ lastSeq \in Nat /\ saved \in Nat /\ saved <= lastSeq
      /\ Accounted \subseteq Accounted' /\ adopted' = adopted
      /\ lastSeq' = lastSeq \/ lastSeq' = saved
  BY AccountedGrows, PositionStands DEF TypeOK, Positions, Flow, Bounds
<1> QED  BY <1>1 DEF Gapless

-----------------------------------------------------------------------------
(* The theorems                                                            *)

\* The inductive invariant holds in every reachable state.
LEMMA AlwaysFlow == Spec => [](TypeOK /\ Flow /\ Gapless)
<1>1. Init => TypeOK /\ Flow /\ Gapless
  BY StartTypes, StartFlow DEF Init, Gapless
<1>2. (TypeOK /\ Flow /\ Gapless) /\ [Next]_vars => (TypeOK /\ Flow /\ Gapless)'
  BY NextTypes, NextFlow, NextGapless DEF Flow
<1> QED  BY <1>1, <1>2, PTL DEF Spec

\* TypeOK: every variable keeps its type, the queue its capacity.
THEOREM TypesKept == Spec => []TypeOK
  BY AlwaysFlow, PTL

\* PositionNotAhead: the position never runs ahead of the workspace.
THEOREM NeverAhead == Spec => []PositionNotAhead
<1>1. Flow => PositionNotAhead
  BY DEF Flow, Bounds, PositionNotAhead
<1> QED  BY <1>1, AlwaysFlow, PTL

\* IdleMeansCaughtUp: when nothing is on its way, the position is where the
\* workspace is, after a failed resume too.
THEOREM CaughtUpWhenIdle == Spec => []IdleMeansCaughtUp
<1>1. TypeOK /\ Flow => IdleMeansCaughtUp
  <2> SUFFICES ASSUME TypeOK, Flow, link = "up", resume = 0, out = <<>>,
                      NEW s \in (1 .. published) \ Hidden
               PROVE  s <= lastSeq
    BY DEF IdleMeansCaughtUp
  <2>1. /\ published \in 0 .. MaxSeq /\ MaxSeq \in Nat /\ lastSeq \in Nat
        /\ \A j \in 1 .. Len(out) : FALSE
    BY EmptySeq, StreamAssumption DEF TypeOK, Positions
  <2>2. s \in Visible /\ s <= published /\ s \in Nat
    BY <2>1 DEF Visible, Seqs
  <2> QED  BY <2>1, <2>2 DEF Flow, CaughtUp
<1> QED  BY <1>1, AlwaysFlow, PTL

\* PositionForward: the position never moves back while the process lives.
THEOREM Forward == Spec => PositionForward
<1>1. TypeOK /\ Flow /\ Gapless /\ [Next]_vars =>
        [lastSeq' >= lastSeq \/ restarts' # restarts]_vars
  <2> SUFFICES ASSUME TypeOK, Flow, Gapless, [Next]_vars
               PROVE  lastSeq' >= lastSeq \/ restarts' # restarts
    OBVIOUS
  <2>1. lastSeq \in Nat /\ lastSeq' \in Nat
    BY NextTypes DEF TypeOK, Positions, Flow
  <2>2. CASE Read
    BY <2>1, <2>2, ReadMoves
  <2>3. CASE ~ Read
    BY <2>1, <2>3, PositionStands
  <2> QED  BY <2>2, <2>3
<1> QED  BY <1>1, AlwaysFlow, PTL DEF Spec, PositionForward

\* ImplementsPosition: the stream implements the contract of StreamPosition,
\* whatever is published, evicted, dropped from the queue or lost in a crash.
THEOREM StreamImplementsPosition == Spec => ImplementsPosition
<1>1. Init => Position!Init
  <2> SUFFICES ASSUME Init PROVE Position!Init
    OBVIOUS
  <2>1. lastSeq \in Nat /\ adopted = lastSeq
    BY StreamAssumption DEF Init, Positions
  <2>2. Queued = {} /\ discarded = {} /\ declared = {}
    BY DEF Init, Queued, Range
  <2>3. Received \cup declared \cup Hidden \in SUBSET Nat
    <3>1. MaxSeq \in Nat /\ Hidden \subseteq 1 .. MaxSeq
      BY StreamAssumption
    <3>2. Received \subseteq 1 .. MaxSeq
      BY <2>2 DEF Received, Seqs
    <3> QED  BY <2>2, <3>1, <3>2
  <2> QED  BY <2>1, <2>3 DEF Position!Init
<1>2. TypeOK /\ Flow /\ Gapless /\ [Next]_vars => [Position!Next]_Position!pvars
  <2> SUFFICES ASSUME TypeOK, Flow, Gapless, [Next]_vars PROVE Position!Next
    OBVIOUS
  <2>1. /\ lastSeq \in Nat /\ lastSeq' \in Nat /\ adopted \in Nat /\ saved \in Nat
        /\ saved <= lastSeq
    BY NextTypes DEF TypeOK, Positions, Flow, Bounds
  <2>2. Received \cup declared \cup Hidden \subseteq (Received \cup declared \cup Hidden)'
    BY AccountedGrows DEF Accounted
  <2>3. Position!NoSilentGap'
    BY NextGapless DEF Gapless, Accounted, Position!NoSilentGap
  <2>4. CASE Read
    <3>1. CASE lastSeq = 0 /\ adopted' = lastSeq'
      <4>1. Position!Adopt
        BY <2>1, <2>2, <3>1 DEF Position!Adopt
      <4> QED  BY <4>1 DEF Position!Next
    <3>2. CASE lastSeq' >= lastSeq /\ adopted' = adopted
      <4>1. Position!Advance
        BY <2>1, <2>2, <2>3, <3>2 DEF Position!Advance
      <4> QED  BY <4>1 DEF Position!Next
    <3> QED  BY <2>4, <3>1, <3>2, ReadMoves
  <2>5. CASE ~ Read
    <3>1. lastSeq' \in 0 .. lastSeq /\ adopted' = adopted
      BY <2>1, <2>5, PositionStands
    <3>2. Position!Rewind
      BY <2>2, <3>1 DEF Position!Rewind
    <3> QED  BY <3>2 DEF Position!Next
  <2> QED  BY <2>4, <2>5
<1> QED  BY <1>1, <1>2, AlwaysFlow, PTL DEF Spec, ImplementsPosition, Position!Spec

-----------------------------------------------------------------------------
(* How often an event comes                                                *)

\* The places of event s in a sequence of frames, and how many they are.
Places(q, s) == {i \in 1 .. Len(q) : q[i] = Event(s)}
Copies(q, s) == Cardinality(Places(q, s))

\* The number of copies is a number.
LEMMA CopiesAre ==
  ASSUME NEW q \in Seq(Frames), NEW s
  PROVE  IsFiniteSet(Places(q, s)) /\ Copies(q, s) \in Nat
<1>1. Len(q) \in Int /\ 1 \in Int
  BY LenProperties
<1>2. IsFiniteSet(1 .. Len(q))
  BY <1>1, FS_Interval
<1>3. Places(q, s) \in SUBSET (1 .. Len(q))
  BY DEF Places
<1>4. IsFiniteSet(Places(q, s))
  BY <1>2, <1>3, FS_Subset
<1> QED  BY <1>4, FS_CardinalityType DEF Copies

\* A sequence without the event has no copy of it.
LEMMA CopiesNone ==
  ASSUME NEW q, NEW s, \A i \in 1 .. Len(q) : q[i] # Event(s)
  PROVE  Copies(q, s) = 0
<1>1. Places(q, s) = {}
  BY DEF Places
<1> QED  BY <1>1, FS_EmptySet DEF Copies

\* The copies of two sequences put together.
LEMMA CopiesConcat ==
  ASSUME NEW p \in Seq(Frames), NEW q \in Seq(Frames), NEW s
  PROVE  p \o q \in Seq(Frames) /\ Copies(p \o q, s) = Copies(p, s) + Copies(q, s)
<1> DEFINE n == Len(p)
           A == Places(p, s)
           B == Places(q, s)
           C == {i \in n + 1 .. n + Len(q) : i - n \in B}
           f == [i \in B |-> n + i]
<1>1. n \in Nat /\ Len(q) \in Nat
  BY LenProperties
<1>2. /\ p \o q \in Seq(Frames) /\ Len(p \o q) = n + Len(q)
      /\ \A i \in 1 .. n + Len(q) : (p \o q)[i] = IF i <= n THEN p[i] ELSE q[i - n]
  BY ConcatProperties
<1>3. B \subseteq 1 .. Len(q) /\ A \subseteq 1 .. n
  BY DEF Places
<1>4. Places(p \o q, s) = A \cup C
  <2>1. ASSUME NEW i \in 1 .. n + Len(q) PROVE i \in Places(p \o q, s) <=> i \in A \cup C
    <3>1. CASE i <= n
      <4>1. i \in 1 .. n /\ (p \o q)[i] = p[i] /\ i \notin n + 1 .. n + Len(q)
        BY <1>1, <1>2, <3>1
      <4> QED  BY <1>2, <4>1 DEF Places
    <3>2. CASE ~ (i <= n)
      <4>1. /\ i \notin 1 .. n /\ (p \o q)[i] = q[i - n] /\ i \in n + 1 .. n + Len(q)
            /\ i - n \in 1 .. Len(q)
        BY <1>1, <1>2, <3>2
      <4> QED  BY <1>2, <4>1 DEF Places
    <3> QED  BY <3>1, <3>2
  <2>2. Places(p \o q, s) \subseteq 1 .. n + Len(q) /\ A \cup C \subseteq 1 .. n + Len(q)
    <3>1. 1 .. n \subseteq 1 .. n + Len(q) /\ n + 1 .. n + Len(q) \subseteq 1 .. n + Len(q)
      BY <1>1
    <3>2. Places(p \o q, s) \subseteq 1 .. n + Len(q)
      BY <1>2 DEF Places
    <3> QED  BY <1>3, <3>1, <3>2
  <2> QED  BY <2>1, <2>2
<1>5. IsFiniteSet(A) /\ IsFiniteSet(B) /\ Cardinality(A) \in Nat /\ Cardinality(B) \in Nat
  BY CopiesAre, FS_CardinalityType
<1>6. ExistsBijection(B, C)
  <2>1. \A i \in B : f[i] = n + i /\ n + i \in C
    <3> SUFFICES ASSUME NEW i \in B PROVE n + i \in C
      OBVIOUS
    <3>1. i \in 1 .. Len(q)
      BY <1>3
    <3>2. n + i \in n + 1 .. n + Len(q) /\ (n + i) - n = i
      BY <1>1, <3>1
    <3> QED  BY <3>2
  <2>2. \A i, j \in B : n + i = n + j => i = j
    BY <1>1, <1>3
  <2>3. \A k \in C : k - n \in B /\ n + (k - n) = k
    BY <1>1
  <2>4. f \in [B -> C] /\ (\A i, j \in B : f[i] = f[j] => i = j) /\ \A k \in C : \E i \in B : f[i] = k
    <3> HIDE DEF B, C
    <3>1. f \in [B -> C]
      BY <2>1
    <3>2. \A i, j \in B : f[i] = f[j] => i = j
      BY <2>2
    <3>3. \A k \in C : f[k - n] = k
      BY <2>3
    <3> QED  BY <2>3, <3>1, <3>2, <3>3
  <2> HIDE DEF f
  <2> HIDE DEF B, C
  <2>5. f \in Injection(B, C) /\ f \in Surjection(B, C)
    BY <2>4 DEF Injection, Surjection, IsInjective
  <2>6. f \in Bijection(B, C)
    BY <2>5 DEF Bijection
  <2> QED  BY <2>6 DEF ExistsBijection
<1>7. IsFiniteSet(C) /\ Cardinality(C) = Cardinality(B)
  BY <1>5, <1>6, FS_Bijection
<1>8. A \cap C = {}
  <2>1. \A i \in 1 .. n : i \notin n + 1 .. n + Len(q)
    BY <1>1
  <2> QED  BY <1>3, <2>1
<1>9. Cardinality(A \cup C) = Cardinality(A) + Cardinality(C) - Cardinality(A \cap C)
  BY <1>5, <1>7, FS_Union
<1>10. Cardinality(A \cap C) = 0
  BY <1>8, FS_EmptySet
<1> HIDE DEF A, C
<1>11. Cardinality(A \cup C) = Cardinality(A) + Cardinality(B)
  BY <1>5, <1>7, <1>9, <1>10
<1> QED  BY <1>2, <1>4, <1>11 DEF Copies, A

\* One frame is a copy of the event or it is not.
LEMMA CopiesOne ==
  ASSUME NEW f \in Frames, NEW s
  PROVE  Copies(<<f>>, s) = IF f = Event(s) THEN 1 ELSE 0
<1>1. Places(<<f>>, s) = IF f = Event(s) THEN {1} ELSE {}
  BY DEF Places
<1>2. Cardinality({1}) = 1 /\ Cardinality({}) = 0
  BY FS_Singleton, FS_EmptySet
<1> QED  BY <1>1, <1>2 DEF Copies

\* The copies after a frame is put at the end.
LEMMA CopiesAppend ==
  ASSUME NEW q \in Seq(Frames), NEW f \in Frames, NEW s
  PROVE  Copies(Append(q, f), s) = Copies(q, s) + (IF f = Event(s) THEN 1 ELSE 0)
<1> DEFINE g == <<f>>
<1>1. g \in Seq(Frames)
  BY OneFrame
<1>2. Append(q, f) = q \o g
  BY AppendIsConcat
<1>3. Copies(g, s) = IF f = Event(s) THEN 1 ELSE 0
  BY CopiesOne
<1> HIDE DEF g
<1>4. Copies(q \o g, s) = Copies(q, s) + Copies(g, s)
  BY <1>1, CopiesConcat
<1> QED  BY <1>2, <1>3, <1>4

\* The copies before the first frame is taken.
LEMMA CopiesHead ==
  ASSUME NEW q \in Seq(Frames), q # <<>>, NEW s
  PROVE  /\ Tail(q) \in Seq(Frames)
         /\ Copies(q, s) = (IF Head(q) = Event(s) THEN 1 ELSE 0) + Copies(Tail(q), s)
<1> DEFINE h == <<Head(q)>>
           t == Tail(q)
<1>1. /\ Head(q) \in Frames /\ t \in Seq(Frames) /\ Len(t) = Len(q) - 1 /\ Len(q) \in Nat \ {0}
      /\ \A i \in 1 .. Len(t) : t[i] = q[i + 1]
  BY HeadTailProperties, EmptySeq
<1>2. h \in Seq(Frames) /\ Len(h) = 1 /\ h[1] = q[1]
  BY <1>1
<1> HIDE DEF h, t
<1>3. /\ h \o t \in Seq(Frames) /\ Len(h \o t) = 1 + Len(t)
      /\ \A i \in 1 .. 1 + Len(t) : (h \o t)[i] = IF i <= 1 THEN h[i] ELSE t[i - 1]
  <2>1. /\ h \o t \in Seq(Frames) /\ Len(h \o t) = Len(h) + Len(t)
        /\ \A i \in 1 .. Len(h) + Len(t) :
             (h \o t)[i] = IF i <= Len(h) THEN h[i] ELSE t[i - Len(h)]
    BY <1>1, <1>2, ConcatProperties
  <2> QED  BY <1>2, <2>1
<1>4. Len(h \o t) = Len(q)
  BY <1>1, <1>3
<1>5. ASSUME NEW i \in 1 .. Len(q) PROVE q[i] = (h \o t)[i]
  <2>1. CASE i = 1
    BY <1>1, <1>2, <1>3, <2>1
  <2>2. CASE i # 1
    <3>1. i - 1 \in 1 .. Len(t) /\ (i - 1) + 1 = i /\ i \in 1 .. 1 + Len(t) /\ ~ (i <= 1)
      BY <1>1, <2>2
    <3> QED  BY <1>1, <1>3, <3>1
  <2> QED  BY <2>1, <2>2
<1>6. q = h \o t
  BY <1>3, <1>4, <1>5, SeqEqual
<1>7. Copies(q, s) = Copies(h, s) + Copies(t, s)
  BY <1>1, <1>2, <1>6, CopiesConcat
<1>8. Copies(h, s) = IF Head(q) = Event(s) THEN 1 ELSE 0
  BY <1>1, CopiesOne DEF h
<1> QED  BY <1>1, <1>7, <1>8 DEF t

\* An answer brings an event after the position once, and none up to it.
LEMMA AnswerCopies ==
  ASSUME TypeOK, resume <= published, NEW r \in Replays, NEW s \in Seqs
  PROVE  /\ Answer(r) \in Seq(Frames)
         /\ Copies(Answer(r), s) <= 1 /\ (s <= resume => Copies(Answer(r), s) = 0)
<1>0. Answer(r) \in Seq(Frames) /\ published \in Positions /\ s \in Nat /\ resume \in Nat
  <2>1. Answer(r) \in Seq(Frames)
    BY AnswerWhole
  <2>2. published \in Positions /\ resume \in Nat
    BY DEF TypeOK, Positions
  <2>3. s \in Nat
    BY DEF Seqs
  <2> QED  BY <2>1, <2>2, <2>3
<1>1. /\ r \in Seq(Frames)
      /\ \A i \in 1 .. Len(r) : resume < r[i].seq /\ r[i].seq \in Nat
      /\ \A i, j \in 1 .. Len(r) : i < j => r[i].seq < r[j].seq
  BY ReplayWhole DEF Visible, Seqs
<1>2. Copies(r, s) <= 1 /\ (s <= resume => Copies(r, s) = 0)
  <2>1. CASE Places(r, s) = {}
    BY <2>1, FS_EmptySet DEF Copies
  <2>2. CASE Places(r, s) # {}
    <3>1. PICK i \in 1 .. Len(r) : r[i] = Event(s)
      BY <2>2 DEF Places
    <3>2. \A j \in 1 .. Len(r) : r[j] = Event(s) => j = i
      <4> SUFFICES ASSUME NEW j \in 1 .. Len(r), r[j] = Event(s) PROVE ~ (i < j) /\ ~ (j < i)
        OBVIOUS
      <4>1. r[i].seq = s /\ r[j].seq = s /\ ~ (s < s)
        BY <1>0, <3>1 DEF Event
      <4> QED  BY <1>1, <4>1
    <3>3. Places(r, s) = {i}
      BY <3>1, <3>2 DEF Places
    <3>4. Copies(r, s) = 1
      BY <3>3, FS_Singleton DEF Copies
    <3>5. resume < s
      BY <1>1, <3>1 DEF Event
    <3> QED  BY <1>0, <3>4, <3>5
  <2> QED  BY <2>1, <2>2
<1>3. \A kind \in {"resumed", "resume_failed"} :
        Marker(kind, published) \in Frames /\ Marker(kind, published) # Event(s)
  <2>1. \A kind \in {"resumed", "resume_failed"} : Marker(kind, published).kind # Event(s).kind
    BY DEF Marker, Event
  <2> QED  BY <1>0, <2>1, FrameTypes
<1>4. Copies(r, s) \in Nat
  BY <1>1, CopiesAre
<1>5. Copies(Answer(r), s) \in {Copies(r, s), 0}
  <2>1. CASE resume >= evicted
    <3>1. Answer(r) = Append(r, Marker("resumed", published))
      BY <2>1 DEF Answer
    <3>2. Copies(Answer(r), s) = Copies(r, s) + 0
      BY <1>1, <1>3, <3>1, CopiesAppend
    <3> QED  BY <1>4, <3>2
  <2>2. CASE ~ (resume >= evicted)
    <3>1. Answer(r) = <<Marker("resume_failed", published)>>
      BY <2>2 DEF Answer
    <3>2. Copies(Answer(r), s) = 0
      BY <1>3, <3>1, CopiesOne
    <3> QED  BY <3>2
  <2> QED  BY <2>1, <2>2
<1> QED  BY <1>0, <1>2, <1>4, <1>5

\* A copy the server still owes: the replay of the position asked for.
Pending(s) == IF resume > 0 /\ resume < s THEN 1 ELSE 0

\* How often event s has come, or may come, to the handlers.
Coming(s) == handled[s] + Copies(events, s) + Copies(out, s) + Copies(mailbox, s) + Pending(s)

\* Within one process no event comes more than twice, and one that is not
\* behind the position has not been read yet.
Twice ==
  restarts = 0 =>
    \A s \in Seqs : /\ Coming(s) <= 2
                    /\ lastSeq < s => handled[s] = 0 /\ Copies(events, s) = 0

\* The counts are numbers.
LEMMA Counts ==
  ASSUME TypeOK, NEW s \in Seqs
  PROVE  /\ handled[s] \in Nat /\ Copies(events, s) \in Nat /\ Copies(out, s) \in Nat
         /\ Copies(mailbox, s) \in Nat /\ Pending(s) \in 0 .. 1
         /\ s \in Nat /\ lastSeq \in Nat /\ published \in Nat /\ resume \in Nat
<1>1. events \in Seq(Frames) /\ out \in Seq(Frames) /\ mailbox \in Seq(Frames)
  BY DEF TypeOK
<1>2. Copies(events, s) \in Nat /\ Copies(out, s) \in Nat /\ Copies(mailbox, s) \in Nat
  BY <1>1, CopiesAre
<1>3. handled[s] \in Nat /\ lastSeq \in Nat /\ published \in Nat /\ s \in Nat /\ resume \in Nat
  BY DEF TypeOK, Positions, Seqs
<1> QED  BY <1>2, <1>3 DEF Pending

\* No frame carries an event the workspace has not numbered.
LEMMA Unpublished ==
  ASSUME TypeOK, Bounds, NEW s \in Seqs, published < s
  PROVE  Copies(out, s) = 0 /\ Copies(mailbox, s) = 0
<1>1. \A i \in 1 .. Len(out) : out[i].kind = "event" => out[i].seq <= published
  BY DEF Bounds, Sound
<1>2. \A i \in 1 .. Len(mailbox) : mailbox[i].kind = "event" => mailbox[i].seq <= published
  BY DEF Bounds, Sound
<1>3. Event(s).kind = "event" /\ Event(s).seq = s /\ ~ (s <= published)
  <2>1. s \in Nat /\ published \in Nat
    BY Counts
  <2> QED  BY <2>1 DEF Event
<1>4. \A i \in 1 .. Len(out) : out[i] # Event(s)
  BY <1>1, <1>3
<1>5. \A i \in 1 .. Len(mailbox) : mailbox[i] # Event(s)
  BY <1>2, <1>3
<1> QED  BY <1>4, <1>5, CopiesNone

\* A frame is the event s when it is an event of that number.
LEMMA EventIs ==
  ASSUME NEW f \in Frames, NEW s
  PROVE  f = Event(s) <=> f.kind = "event" /\ f.seq = s
  BY DEF Frames, Event

\* What the step to a state without restarts knows of the state before.
LEMMA TwiceBefore ==
  ASSUME TypeOK, Flow, Twice, [Next]_vars, restarts' = 0, NEW s \in Seqs
  PROVE  /\ ~ Restart /\ restarts = 0
         /\ handled[s] + Copies(events, s) + Copies(out, s) + Copies(mailbox, s) + Pending(s) <= 2
         /\ lastSeq < s => handled[s] = 0 /\ Copies(events, s) = 0
<1>1. restarts \in Nat
  BY StreamAssumption DEF TypeOK
<1>2. ~ Restart
  <2> SUFFICES ASSUME Restart PROVE FALSE
    OBVIOUS
  <2>1. restarts' = restarts + 1
    BY DEF Restart
  <2> QED  BY <1>1, <2>1
<1>3. restarts' = restarts
  BY <1>2 DEF Next, vars, Publish, Evict, ServeResume, PushOther, Drop, Join, Read, ReadReply,
       ReadEvent, ReadResumed, ReadResumeFailed, ReadOther, Dispatch, Persist, Quiet
<1> QED  BY <1>2, <1>3 DEF Twice, Coming

\* A publication adds one copy of the new event, read by nobody before.
LEMMA TwicePublish ==
  ASSUME TypeOK, Flow, Twice, Publish, restarts' = 0, NEW s \in Seqs
  PROVE  Coming(s)' <= 2 /\ (lastSeq' < s => handled'[s] = 0 /\ Copies(events', s) = 0)
<1>1. /\ handled[s] + Copies(events, s) + Copies(out, s) + Copies(mailbox, s) + Pending(s) <= 2
      /\ lastSeq < s => handled[s] = 0 /\ Copies(events, s) = 0
  BY TwiceBefore DEF Next
<1>2. /\ UNCHANGED <<handled, events, resume, lastSeq>>
      /\ \/ UNCHANGED <<mailbox, out>>
         \/ mailbox' = Append(mailbox, Event(published + 1)) /\ UNCHANGED out
         \/ out' = Append(out, Event(published + 1)) /\ UNCHANGED mailbox
  BY DEF Publish, client, ghosts
<1>3. Event(published + 1) \in Frames
  <2>1. published + 1 \in Positions
    BY StreamAssumption DEF Publish, TypeOK, Positions
  <2> QED  BY <2>1, FrameTypes
<1>4. /\ handled[s] \in Nat /\ Copies(events, s) \in Nat /\ Copies(out, s) \in Nat
      /\ Copies(mailbox, s) \in Nat /\ Pending(s) \in 0 .. 1
      /\ s \in Nat /\ lastSeq \in Nat /\ published \in Nat
  BY Counts
<1>5. Event(published + 1) = Event(s) <=> published + 1 = s
  BY DEF Event
<1> DEFINE c == IF published + 1 = s THEN 1 ELSE 0
<1>6. /\ Copies(Append(out, Event(published + 1)), s) = Copies(out, s) + c
      /\ Copies(Append(mailbox, Event(published + 1)), s) = Copies(mailbox, s) + c
  BY <1>3, <1>5, CopiesAppend DEF TypeOK
<1>7. /\ Coming(s)' = handled[s] + Copies(events, s) + Copies(out', s) + Copies(mailbox', s)
                      + Pending(s)
      /\ \/ Copies(out', s) = Copies(out, s) /\ Copies(mailbox', s) = Copies(mailbox, s)
         \/ Copies(out', s) = Copies(out, s) /\ Copies(mailbox', s) = Copies(mailbox, s) + c
         \/ Copies(out', s) = Copies(out, s) + c /\ Copies(mailbox', s) = Copies(mailbox, s)
  BY <1>2, <1>6 DEF Coming, Pending
<1>8. CASE published + 1 = s
  <2>1. Copies(out, s) = 0 /\ Copies(mailbox, s) = 0
    <3>1. published < s
      BY <1>4, <1>8
    <3> QED  BY <3>1, Unpublished DEF Flow
  <2>2. lastSeq < s
    BY <1>4, <1>8 DEF Flow, Bounds
  <2>3. Coming(s)' <= 2
    BY <1>1, <1>4, <1>7, <2>1, <2>2
  <2> QED  BY <1>1, <1>2, <2>3
<1>9. CASE published + 1 # s
  <2>1. c = 0
    BY <1>9
  <2> HIDE DEF c
  <2>2. Coming(s)' <= 2
    BY <1>1, <1>4, <1>7, <2>1
  <2> QED  BY <1>1, <1>2, <2>2
<1> QED  BY <1>8, <1>9

\* The answer is the copy that was pending, at most.
LEMMA TwiceServe ==
  ASSUME TypeOK, Flow, Twice, ServeResume, restarts' = 0, NEW s \in Seqs
  PROVE  Coming(s)' <= 2 /\ (lastSeq' < s => handled'[s] = 0 /\ Copies(events', s) = 0)
<1>1. /\ handled[s] + Copies(events, s) + Copies(out, s) + Copies(mailbox, s) + Pending(s) <= 2
      /\ lastSeq < s => handled[s] = 0 /\ Copies(events, s) = 0
  BY TwiceBefore DEF Next
<1>2. /\ UNCHANGED <<handled, events, lastSeq>> /\ mailbox' = <<>> /\ resume' = 0 /\ resume > 0
      /\ out \in Seq(Frames) /\ mailbox \in Seq(Frames)
  BY DEF ServeResume, client, ghosts, TypeOK
<1>3. PICK r \in Replays : out' = (out \o Answer(r)) \o mailbox
  <2>1. PICK r \in Replays :
          out' = out \o (IF resume >= evicted
                         THEN Append(r, Marker("resumed", published))
                         ELSE <<Marker("resume_failed", published)>>) \o mailbox
    BY DEF ServeResume
  <2> QED  BY <2>1 DEF Answer
<1>4. /\ handled[s] \in Nat /\ Copies(events, s) \in Nat /\ Copies(out, s) \in Nat
      /\ Copies(mailbox, s) \in Nat /\ Pending(s) \in 0 .. 1
      /\ s \in Nat /\ lastSeq \in Nat /\ published \in Nat /\ resume \in Nat
  BY Counts
<1>5. resume <= published
  BY <1>2, <1>4 DEF Flow, Shape, Bounds
<1>6. /\ Answer(r) \in Seq(Frames) /\ Copies(Answer(r), s) <= 1
      /\ s <= resume => Copies(Answer(r), s) = 0
  BY <1>5, AnswerCopies
<1>7. Copies(Answer(r), s) \in Nat
  BY <1>6, CopiesAre
<1>8. Copies(Answer(r), s) <= Pending(s)
  BY <1>2, <1>4, <1>6, <1>7 DEF Pending
<1>9. Copies(out', s) = Copies(out, s) + Copies(Answer(r), s) + Copies(mailbox, s)
  <2>1. /\ out \o Answer(r) \in Seq(Frames)
        /\ Copies(out \o Answer(r), s) = Copies(out, s) + Copies(Answer(r), s)
    BY <1>2, <1>6, CopiesConcat
  <2>2. Copies((out \o Answer(r)) \o mailbox, s) = Copies(out \o Answer(r), s) + Copies(mailbox, s)
    BY <1>2, <2>1, CopiesConcat
  <2> QED  BY <1>3, <2>1, <2>2
<1>10. Copies(mailbox', s) = 0
  <2>1. \A i \in 1 .. Len(mailbox') : FALSE
    BY <1>2, EmptySeq
  <2> QED  BY <2>1, CopiesNone
<1>11. Pending(s)' = 0
  BY <1>2 DEF Pending
<1>12. Coming(s)' = handled[s] + Copies(events, s) + Copies(out', s) + 0 + 0
  BY <1>2, <1>10, <1>11 DEF Coming
<1>13. Coming(s)' <= 2
  BY <1>1, <1>4, <1>7, <1>8, <1>9, <1>12
<1> QED  BY <1>1, <1>2, <1>13

\* A join asks for the events after the position: none of them was read.
LEMMA TwiceJoin ==
  ASSUME TypeOK, Flow, Twice, Join, restarts' = 0, NEW s \in Seqs
  PROVE  Coming(s)' <= 2 /\ (lastSeq' < s => handled'[s] = 0 /\ Copies(events', s) = 0)
<1>1. /\ handled[s] + Copies(events, s) + Copies(out, s) + Copies(mailbox, s) + Pending(s) <= 2
      /\ lastSeq < s => handled[s] = 0 /\ Copies(events, s) = 0
  BY TwiceBefore DEF Next
<1>2. /\ UNCHANGED <<handled, events, mailbox, lastSeq>> /\ resume' = ResumeToken(lastSeq)
      /\ out' = <<Marker("reply", published)>> /\ link = "down"
  BY DEF Join, client, ghosts
<1>3. /\ handled[s] \in Nat /\ Copies(events, s) \in Nat /\ Copies(out, s) \in Nat
      /\ Copies(mailbox, s) \in Nat /\ Pending(s) \in 0 .. 1
      /\ s \in Nat /\ lastSeq \in Nat /\ published \in Nat /\ resume \in Nat
  BY Counts
<1>4. Copies(mailbox, s) = 0
  <2>1. mailbox = <<>>
    BY <1>2 DEF Flow, Shape
  <2>2. \A i \in 1 .. Len(mailbox) : FALSE
    BY <2>1, EmptySeq
  <2> QED  BY <2>2, CopiesNone
<1>5. Copies(out', s) = 0
  <2>1. Marker("reply", published) \in Frames /\ Marker("reply", published).kind = "reply"
    BY FrameTypes DEF TypeOK, Marker
  <2>2. Marker("reply", published) # Event(s)
    BY <2>1, EventIs
  <2>3. Copies(<<Marker("reply", published)>>, s) = 0
    BY <2>1, <2>2, CopiesOne
  <2> QED  BY <1>2, <2>3
<1>6. Pending(s)' = IF lastSeq > 0 /\ lastSeq < s THEN 1 ELSE 0
  BY <1>2, <1>3 DEF Pending, ResumeToken
<1>7. Coming(s)' = handled[s] + Copies(events, s) + 0 + 0 + Pending(s)'
  BY <1>2, <1>4, <1>5 DEF Coming
<1>8. Coming(s)' <= 2
  <2>1. CASE lastSeq < s
    <3>1. Pending(s)' \in {0, 1}
      BY <1>6
    <3> QED  BY <1>1, <1>7, <2>1, <3>1
  <2>2. CASE ~ (lastSeq < s)
    BY <1>1, <1>3, <1>6, <1>7, <2>2
  <2> QED  BY <2>1, <2>2
<1> QED  BY <1>1, <1>2, <1>8

\* A frame read leaves the socket for the queue or is discarded; an event
\* read is behind the position.
LEMMA TwiceRead ==
  ASSUME TypeOK, Flow, Twice, Read, restarts' = 0, NEW s \in Seqs
  PROVE  Coming(s)' <= 2 /\ (lastSeq' < s => handled'[s] = 0 /\ Copies(events', s) = 0)
<1>1. /\ handled[s] + Copies(events, s) + Copies(out, s) + Copies(mailbox, s) + Pending(s) <= 2
      /\ lastSeq < s => handled[s] = 0 /\ Copies(events, s) = 0
  BY TwiceBefore DEF Next
<1>2. /\ UNCHANGED <<handled, mailbox, resume>> /\ Emit(Head(out))
      /\ out # <<>> /\ out' = Tail(out)
  BY DEF Read, ReadReply, ReadEvent, ReadResumed, ReadResumeFailed, ReadOther, Arrives
<1>3. /\ handled[s] \in Nat /\ Copies(events, s) \in Nat /\ Copies(out, s) \in Nat
      /\ Copies(mailbox, s) \in Nat /\ Pending(s) \in 0 .. 1
      /\ s \in Nat /\ lastSeq \in Nat
  BY Counts
<1>4. Head(out) \in Frames /\ Head(out).seq \in Nat /\ out \in Seq(Frames) /\ events \in Seq(Frames)
  <2>1. Head(out) \in Frames
    BY <1>2, HeadTailProperties DEF TypeOK
  <2> QED  BY <2>1 DEF Frames, Positions, TypeOK
<1> DEFINE c == IF Head(out) = Event(s) THEN 1 ELSE 0
<1>5. Copies(out, s) = c + Copies(out', s) /\ Copies(out', s) \in Nat
  <2>1. Tail(out) \in Seq(Frames) /\ Copies(out, s) = c + Copies(Tail(out), s)
    BY <1>2, <1>4, CopiesHead
  <2>2. Copies(Tail(out), s) \in Nat
    BY <2>1, CopiesAre
  <2> QED  BY <1>2, <2>1, <2>2
<1>6. Copies(events', s) \in {Copies(events, s), Copies(events, s) + c}
  <2>1. events' = Append(events, Head(out)) \/ events' = events
    BY <1>2 DEF Emit
  <2>2. Copies(Append(events, Head(out)), s) = Copies(events, s) + c
    BY <1>4, CopiesAppend
  <2> QED  BY <2>1, <2>2
<1>7. lastSeq' < s => lastSeq < s /\ c = 0
  <2> SUFFICES ASSUME lastSeq' < s PROVE lastSeq < s /\ Head(out) # Event(s)
    OBVIOUS
  <2>1. CASE ReadEvent
    <3>1. lastSeq' = AdvanceSeq(lastSeq, Head(out).seq)
      BY <2>1 DEF ReadEvent
    <3>2. lastSeq < s /\ Head(out).seq # s
      BY <1>3, <1>4, <3>1 DEF AdvanceSeq
    <3> QED  BY <1>4, <3>2, EventIs
  <2>2. CASE ~ ReadEvent
    <3>1. Head(out).kind # "event"
      BY <2>2 DEF Read, ReadReply, ReadResumed, ReadResumeFailed, ReadOther, Arrives
    <3>2. \/ lastSeq' = lastSeq \/ lastSeq' = AdvanceSeq(lastSeq, Head(out).seq)
          \/ lastSeq = 0
      BY <2>2 DEF Read, ReadReply, ReadResumed, ReadResumeFailed, ReadOther
    <3>3. lastSeq < s
      BY <1>3, <1>4, <3>2 DEF AdvanceSeq, Seqs
    <3> QED  BY <1>4, <3>1, <3>3, EventIs
  <2> QED  BY <2>1, <2>2
<1>8. Coming(s)' = handled[s] + Copies(events', s) + Copies(out', s) + Copies(mailbox, s) + Pending(s)
  BY <1>2 DEF Coming, Pending
<1>9. c \in {0, 1}
  OBVIOUS
<1> HIDE DEF c
<1>10. Coming(s)' <= 2
  BY <1>1, <1>3, <1>5, <1>6, <1>8, <1>9
<1>11. lastSeq' < s => handled'[s] = 0 /\ Copies(events', s) = 0
  BY <1>1, <1>2, <1>6, <1>7
<1> QED  BY <1>10, <1>11

\* An event handled leaves the queue.
LEMMA TwiceDispatch ==
  ASSUME TypeOK, Flow, Twice, Dispatch, restarts' = 0, NEW s \in Seqs
  PROVE  Coming(s)' <= 2 /\ (lastSeq' < s => handled'[s] = 0 /\ Copies(events', s) = 0)
<1>1. /\ handled[s] + Copies(events, s) + Copies(out, s) + Copies(mailbox, s) + Pending(s) <= 2
      /\ lastSeq < s => handled[s] = 0 /\ Copies(events, s) = 0
  BY TwiceBefore DEF Next
<1>2. /\ UNCHANGED <<mailbox, out, resume, lastSeq>> /\ events # <<>> /\ events' = Tail(events)
      /\ handled' = IF Head(events).kind = "event"
                    THEN [handled EXCEPT ![Head(events).seq] = @ + 1] ELSE handled
      /\ events \in Seq(Frames) /\ handled \in [Seqs -> Nat]
  BY DEF Dispatch, socket, TypeOK
<1>3. /\ handled[s] \in Nat /\ Copies(events, s) \in Nat /\ Copies(out, s) \in Nat
      /\ Copies(mailbox, s) \in Nat /\ Pending(s) \in 0 .. 1
  BY Counts
<1> DEFINE c == IF Head(events) = Event(s) THEN 1 ELSE 0
<1>4. Copies(events, s) = c + Copies(events', s) /\ Copies(events', s) \in Nat
  <2>1. Tail(events) \in Seq(Frames) /\ Copies(events, s) = c + Copies(Tail(events), s)
    BY <1>2, CopiesHead
  <2>2. Copies(Tail(events), s) \in Nat
    BY <2>1, CopiesAre
  <2> QED  BY <1>2, <2>1, <2>2
<1>5. handled'[s] = handled[s] + c
  <2>1. Head(events) \in Frames
    BY <1>2, HeadTailProperties
  <2>2. Head(events) = Event(s) <=> Head(events).kind = "event" /\ Head(events).seq = s
    BY <2>1, EventIs
  <2> QED  BY <1>2, <1>3, <2>2
<1>6. Coming(s)' = handled'[s] + Copies(events', s) + Copies(out, s) + Copies(mailbox, s) + Pending(s)
  BY <1>2 DEF Coming, Pending
<1>7. c \in {0, 1}
  OBVIOUS
<1> HIDE DEF c
<1>8. Coming(s)' <= 2
  BY <1>1, <1>3, <1>4, <1>5, <1>6, <1>7
<1>9. lastSeq < s => handled'[s] = 0 /\ Copies(events', s) = 0
  BY <1>1, <1>3, <1>4, <1>5, <1>7
<1> QED  BY <1>2, <1>8, <1>9

\* The copies are kept by every step.
LEMMA NextTwice == TypeOK /\ Flow /\ Twice /\ [Next]_vars => Twice'
<1> SUFFICES ASSUME TypeOK, Flow, Twice, [Next]_vars, restarts' = 0, NEW s \in Seqs
             PROVE  Coming(s)' <= 2 /\ (lastSeq' < s => handled'[s] = 0 /\ Copies(events', s) = 0)
  BY DEF Twice
<1>1. /\ ~ Restart
      /\ handled[s] + Copies(events, s) + Copies(out, s) + Copies(mailbox, s) + Pending(s) <= 2
      /\ lastSeq < s => handled[s] = 0 /\ Copies(events, s) = 0
  BY TwiceBefore
<1>2. CASE Evict \/ Persist \/ Quiet \/ UNCHANGED vars
  <2>1. UNCHANGED <<handled, events, out, mailbox, resume, lastSeq>>
    BY <1>2 DEF Evict, Persist, Quiet, vars, socket, client, ghosts
  <2> QED  BY <1>1, <2>1 DEF Coming, Pending
<1>3. CASE PushOther
  <2>1. /\ UNCHANGED <<handled, events, mailbox, resume, lastSeq>>
        /\ out = <<>> /\ out' = <<Marker("other", MaxSeq)>>
    BY <1>3 DEF PushOther, client, ghosts
  <2>2. Copies(out, s) = 0
    <3>1. \A i \in 1 .. Len(out) : FALSE
      BY <2>1, EmptySeq
    <3> QED  BY <3>1, CopiesNone
  <2>3. Copies(out', s) = 0
    <3> DEFINE f == Marker("other", MaxSeq)
    <3>0. MaxSeq \in Positions
      BY StreamAssumption DEF Positions
    <3>1. f \in Frames /\ f.kind = "other"
      BY <3>0, FrameTypes DEF Marker
    <3>2. f # Event(s)
      BY <3>1, EventIs
    <3>3. Copies(<<f>>, s) = 0
      BY <3>1, <3>2, CopiesOne
    <3> QED  BY <2>1, <3>3
  <2> QED  BY <1>1, <2>1, <2>2, <2>3 DEF Coming, Pending
<1>4. CASE Drop
  <2>1. /\ UNCHANGED <<handled, events, lastSeq>>
        /\ out' = <<>> /\ mailbox' = <<>> /\ resume' = 0
    BY <1>4 DEF Drop, client, ghosts
  <2>2. \A i \in 1 .. Len(<<>>) : FALSE
    BY EmptySeq
  <2>3. Copies(out', s) = 0 /\ Copies(mailbox', s) = 0 /\ Pending(s)' = 0
    BY <2>1, <2>2, CopiesNone DEF Pending
  <2>4. Coming(s)' = handled[s] + Copies(events, s) + 0 + 0 + 0
    BY <2>1, <2>3 DEF Coming
  <2> QED  BY <1>1, <2>1, <2>4, Counts
<1> QED  BY <1>1, <1>2, <1>3, <1>4, TwicePublish, TwiceServe, TwiceJoin, TwiceRead,
            TwiceDispatch DEF Next

\* AtMostTwice: within one process an event reaches the handlers twice at
\* most, in a replay and live, however often the connection drops.
THEOREM TwiceAtMost == Spec => []AtMostTwice
<1>1. Init => Twice
  <2> SUFFICES ASSUME Init, NEW s \in Seqs
               PROVE  Coming(s) <= 2 /\ handled[s] = 0 /\ Copies(events, s) = 0
    BY DEF Twice
  <2>1. /\ handled[s] = 0 /\ events = <<>> /\ out = <<>> /\ mailbox = <<>> /\ resume = 0
    BY DEF Init
  <2>2. \A i \in 1 .. Len(<<>>) : FALSE
    BY EmptySeq
  <2>3. Copies(events, s) = 0 /\ Copies(out, s) = 0 /\ Copies(mailbox, s) = 0 /\ Pending(s) = 0
    BY <2>1, <2>2, CopiesNone DEF Pending
  <2> QED  BY <2>1, <2>3 DEF Coming
<1>2. TypeOK /\ Twice => AtMostTwice
  <2> SUFFICES ASSUME TypeOK, Twice, restarts = 0, NEW s \in Seqs PROVE handled[s] <= 2
    BY DEF AtMostTwice
  <2>1. handled[s] + Copies(events, s) + Copies(out, s) + Copies(mailbox, s) + Pending(s) <= 2
    BY DEF Twice, Coming
  <2> QED  BY <2>1, Counts
<1>3. (TypeOK /\ Flow) /\ Twice /\ [Next]_vars => Twice'
  BY NextTwice
<1> QED  BY <1>1, <1>2, <1>3, AlwaysFlow, PTL DEF Spec

=============================================================================
