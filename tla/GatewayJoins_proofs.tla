------------------------- MODULE GatewayJoins_proofs ------------------------
(***************************************************************************)
(* Proofs about the joins of a connection: each topic is joined at most    *)
(* once at a time, and one heartbeat at most runs.                         *)
(***************************************************************************)
EXTENDS GatewaySession_proofs

\* The topics the joins of one connection name once; the workspace is one,
\* since the loop over c.topics skips it.
Once ==
  {t \in Topics :
     \A i, j \in 0 .. Len(ExtraTopics) :
       /\ ~ Skipped(i) /\ JoinTopic(i) = t
       /\ ~ Skipped(j) /\ JoinTopic(j) = t
       => i = j}

\* The book files each ref under the topic that sent it, or has retired it,
\* and no ref is ahead of the counter.
RefInv ==
  /\ BookConsistent(book)
  /\ \A t \in Topics :
       /\ book.byTopic[t].joinRef <= joinRef
       /\ book.byTopic[t].joinRef = 0 => ~ book.byTopic[t].joined
  /\ \A m \in unanswered \cup timers :
       m.ref <= joinRef /\ book.byRef[m.ref] \in {m.topic, NoTopic}

\* A topic joined once: a join under way is the topic's current one, and the
\* channel is not open; it is on the wire or waited out, and not both.
LiveInv ==
  /\ \A m \in unanswered \cup timers : m.topic \in Once =>
       /\ book.byTopic[m.topic].joinRef = m.ref
       /\ ~ book.byTopic[m.topic].joined
  /\ \A g, h \in timers : g.topic \in Once /\ g.topic = h.topic => g = h
  /\ \A m \in unanswered, g \in timers : m.topic \in Once => m.topic # g.topic

\* Between connections the book is empty; during the first joins nothing has
\* been answered, and the topics still to come have not been tracked.
LoopInv ==
  /\ manage \notin Attached => book = NewJoinBook /\ unanswered = {}
  /\ manage = "join" =>
       /\ timers = {} /\ hbs = {}
       /\ \A t \in Topics : ~ book.byTopic[t].joined
       /\ \A i \in joinAt .. Len(ExtraTopics) :
            ~ Skipped(i) /\ JoinTopic(i) \in Once => book.byTopic[JoinTopic(i)].joinRef = 0

\* A heartbeat means that the workspace channel is open.
BeatInv ==
  /\ OneHeartbeat
  /\ hbs # {} => book.byTopic[Primary].joined

JoinInv == RefInv /\ LiveInv /\ LoopInv /\ BeatInv

-----------------------------------------------------------------------------
(* The book                                                                *)

\* Tracking a fresh ref touches the book only where the topic is concerned.
LEMMA Tracked ==
  ASSUME NEW b \in Books, NEW t \in Topics, NEW r \in Refs,
         BookConsistent(b), \A u \in Topics : b.byTopic[u].joinRef < r
  PROVE  /\ BookConsistent(Track(b, t, r))
         /\ Track(b, t, r).byTopic[t] = [joinRef |-> r, joined |-> FALSE]
         /\ \A u \in Topics \ {t} : Track(b, t, r).byTopic[u] = b.byTopic[u]
         /\ Track(b, t, r).byRef[r] = t
         /\ \A q \in Refs \ {r} : Track(b, t, r).byRef[q] \in {b.byRef[q], NoTopic}
<1> DEFINE nb == Track(b, t, r)
<1>1. /\ b.byRef \in [Refs -> Topics \cup {NoTopic}]
      /\ b.byTopic \in [Topics -> ChannelJoin]
  BY DEF Books
<1>2. /\ nb.byTopic[t] = [joinRef |-> r, joined |-> FALSE]
      /\ \A u \in Topics \ {t} : nb.byTopic[u] = b.byTopic[u]
  BY <1>1 DEF Track
<1>3. \A q \in Refs : nb.byRef[q] = CASE q = r -> t
                                      [] q # r /\ q = b.byTopic[t].joinRef -> NoTopic
                                      [] OTHER -> b.byRef[q]
  BY DEF Track
<1>4. nb.byRef[r] = t
  BY <1>3
<1>5. \A q \in Refs \ {r} : nb.byRef[q] = IF q = b.byTopic[t].joinRef THEN NoTopic ELSE b.byRef[q]
  BY <1>3
<1>6. BookConsistent(nb)
  <2> SUFFICES ASSUME NEW u \in Topics, NEW q \in Refs
               PROVE  nb.byRef[q] = u <=> nb.byTopic[u].joinRef = q
    BY DEF BookConsistent
  <2>1. CASE q = r
    <3>1. u # t => b.byTopic[u].joinRef # r
      BY <1>1 DEF ChannelJoin, Refs
    <3> QED  BY <2>1, <3>1, <1>2, <1>4
  <2>2. CASE q # r
    <3>1. nb.byRef[q] = u <=> (q # b.byTopic[t].joinRef /\ b.byRef[q] = u)
      BY <2>2, <1>5, TopicsAssumption
    <3>2. /\ b.byRef[q] = u <=> b.byTopic[u].joinRef = q
          /\ b.byRef[q] = t <=> b.byTopic[t].joinRef = q
      BY DEF BookConsistent
    <3>3. CASE u = t
      BY <2>2, <3>1, <3>2, <3>3, <1>2
    <3>4. CASE u # t
      BY <2>2, <3>1, <3>2, <3>4, <1>2
    <3> QED  BY <3>3, <3>4
  <2> QED  BY <2>1, <2>2
<1> HIDE DEF nb
<1> QED  BY <1>2, <1>4, <1>5, <1>6 DEF nb

\* Opening a channel changes nothing but its flag.
LEMMA Marked ==
  ASSUME NEW b \in Books, NEW t \in Topics, BookConsistent(b)
  PROVE  /\ BookConsistent(MarkJoined(b, t))
         /\ MarkJoined(b, t).byRef = b.byRef
         /\ MarkJoined(b, t).byTopic[t].joined
         /\ \A u \in Topics :
              MarkJoined(b, t).byTopic[u].joinRef = b.byTopic[u].joinRef
         /\ \A u \in Topics \ {t} : MarkJoined(b, t).byTopic[u] = b.byTopic[u]
  BY DEF MarkJoined, BookConsistent, Books, ChannelJoin

\* A new book is consistent and knows no topic.
LEMMA NewBook ==
  /\ BookConsistent(NewJoinBook)
  /\ \A t \in Topics : NewJoinBook.byTopic[t] = [joinRef |-> 0, joined |-> FALSE]
  BY TopicsAssumption DEF NewJoinBook, BookConsistent, Refs

\* The workspace is joined once on a connection.
LEMMA PrimaryOnce == Primary \in Once
  BY SessionAssumption DEF Once, Skipped, JoinTopic

-----------------------------------------------------------------------------
(* The steps that join                                                     *)

\* What the proofs need to know of the types.
LEMMA JoinTypes ==
  TypeOK => /\ book \in Books
            /\ joinRef \in Nat /\ MaxRef \in Nat /\ joinRef <= MaxRef
            /\ joinAt \in 0 .. Len(ExtraTopics) /\ Len(ExtraTopics) \in Nat
            /\ unanswered \subseteq [ref : Refs, topic : Topics]
            /\ timers \subseteq Timers /\ hbs \subseteq Beats
  BY SessionAssumption, MaxRefAssumption DEF TypeOK, JoinType, BeatType

\* sendJoin before the read loop.
LEMMA SendJoinKeeps == TypeOK /\ JoinInv /\ SendJoin => JoinInv'
<1> SUFFICES ASSUME TypeOK, JoinInv, SendJoin PROVE JoinInv'
  OBVIOUS
<1> DEFINE T == JoinTopic(joinAt)
           r == joinRef + 1
<1>0. RefInv /\ LiveInv /\ LoopInv /\ BeatInv
  BY DEF JoinInv
<1>1. /\ book \in Books /\ joinRef \in Nat
      /\ joinAt \in 0 .. Len(ExtraTopics) /\ Len(ExtraTopics) \in Nat
      /\ unanswered \subseteq [ref : Refs, topic : Topics]
  BY JoinTypes
<1>2. manage = "join" /\ ~ Skipped(joinAt) /\ r \in Refs
  BY <1>1, Bounds DEF SendJoin, Refs
<1>3. T \in Topics
  BY <1>1, SessionAssumption DEF JoinTopic
<1>4. timers = {} /\ hbs = {}
  BY <1>0, <1>2 DEF LoopInv
<1>5. /\ book' = Track(book, T, r) /\ joinRef' = r /\ timers' = {} /\ hbs' = {}
      /\ unanswered' \subseteq unanswered \cup {[ref |-> r, topic |-> T]}
  BY <1>4 DEF SendJoin, beatVars
<1>6. \A u \in Topics : book.byTopic[u].joinRef \in Nat /\ book.byTopic[u].joinRef < r
  BY <1>0, <1>1 DEF RefInv, Books, ChannelJoin, Refs
<1>7. /\ BookConsistent(book')
      /\ book'.byTopic[T] = [joinRef |-> r, joined |-> FALSE]
      /\ \A u \in Topics \ {T} : book'.byTopic[u] = book.byTopic[u]
      /\ book'.byRef[r] = T
      /\ \A q \in Refs \ {r} : book'.byRef[q] \in {book.byRef[q], NoTopic}
  BY <1>0, <1>1, <1>2, <1>3, <1>5, <1>6, Tracked DEF RefInv
<1>8. \A m \in unanswered : /\ m.ref \in Refs /\ m.topic \in Topics /\ m.ref <= joinRef
                            /\ book.byRef[m.ref] \in {m.topic, NoTopic}
  BY <1>0, <1>1 DEF RefInv
<1>9. T \in Once => book.byTopic[T].joinRef = 0
  BY <1>0, <1>1, <1>2 DEF LoopInv
<1>10. \A m \in unanswered : m.topic \in Once => m.topic # T
  BY <1>0, <1>8, <1>9 DEF LiveInv, Refs
<1> HIDE DEF T, r
<1>11. r = joinRef + 1
  BY DEF r
<1>12. RefInv'
  <2>1. \A t \in Topics :
          /\ book'.byTopic[t].joinRef <= joinRef'
          /\ book'.byTopic[t].joinRef = 0 => ~ book'.byTopic[t].joined
    BY <1>0, <1>1, <1>2, <1>5, <1>6, <1>7 DEF RefInv, Refs
  <2>2. \A m \in unanswered' : m.ref <= joinRef' /\ book'.byRef[m.ref] \in {m.topic, NoTopic}
    <3> SUFFICES ASSUME NEW m \in unanswered'
                 PROVE  m.ref <= joinRef' /\ book'.byRef[m.ref] \in {m.topic, NoTopic}
      OBVIOUS
    <3>1. CASE m \in unanswered
      BY <3>1, <1>1, <1>5, <1>7, <1>8, <1>11 DEF Refs
    <3>2. CASE m = [ref |-> r, topic |-> T]
      BY <3>2, <1>1, <1>5, <1>7, <1>11
    <3> QED  BY <3>1, <3>2, <1>5
  <2> QED  BY <2>1, <2>2, <1>5, <1>7 DEF RefInv
<1>13. LiveInv'
  <2> SUFFICES ASSUME NEW m \in unanswered', m.topic \in Once
               PROVE  /\ book'.byTopic[m.topic].joinRef = m.ref
                      /\ ~ book'.byTopic[m.topic].joined
    BY <1>5 DEF LiveInv, Once, Skipped, JoinTopic
  <2>1. CASE m \in unanswered
    BY <2>1, <1>0, <1>7, <1>8, <1>10 DEF LiveInv
  <2>2. CASE m = [ref |-> r, topic |-> T]
    BY <2>2, <1>7
  <2> QED  BY <2>1, <2>2, <1>5
<1>14. LoopInv'
  <2>1. CASE manage' # "join"
    <3>1. manage' \in Attached
      BY <2>1 DEF SendJoin, NextJoin, EndRun, Attached
    <3> QED  BY <2>1, <3>1 DEF LoopInv
  <2>2. CASE manage' = "join"
    <3>1. joinAt' = joinAt + 1
      BY <2>2 DEF SendJoin, NextJoin, EndRun
    <3>2. \A t \in Topics : ~ book'.byTopic[t].joined
      BY <1>0, <1>2, <1>3, <1>7 DEF LoopInv
    <3>3. ASSUME NEW i \in joinAt' .. Len(ExtraTopics), ~ Skipped(i), JoinTopic(i) \in Once
          PROVE  book'.byTopic[JoinTopic(i)].joinRef = 0
      <4>1. i \in 0 .. Len(ExtraTopics) /\ i # joinAt /\ i \in joinAt .. Len(ExtraTopics)
        BY <1>1, <3>1
      <4>2. JoinTopic(i) # T
        BY <4>1, <1>1, <1>2, <3>3 DEF Once, T
      <4>3. book.byTopic[JoinTopic(i)].joinRef = 0
        BY <4>1, <1>0, <1>2, <3>3 DEF LoopInv
      <4> QED  BY <4>2, <4>3, <1>7, <3>3 DEF Once
    <3> QED  BY <2>2, <1>5, <3>2, <3>3 DEF LoopInv, Attached, Skipped, JoinTopic, Once
  <2> QED  BY <2>1, <2>2
<1>15. BeatInv'
  BY <1>5 DEF BeatInv, OneHeartbeat
<1> QED  BY <1>12, <1>13, <1>14, <1>15 DEF JoinInv

\* A reply the book knows is the reply to a join on the wire, to its topic.
LEMMA ReplyIsToAJoin ==
  ASSUME TypeOK, JoinInv,
         NEW m \in [ref : Refs, topic : Topics],
         \/ m \in unanswered
         \/ book.byTopic[m.topic] = [joinRef |-> m.ref, joined |-> TRUE],
         Pending(book, m.ref) # NoTopic
  PROVE  m \in unanswered /\ Pending(book, m.ref) = m.topic
<1>1. book \in Books /\ BookConsistent(book)
  BY JoinTypes DEF JoinInv, RefInv
<1>2. /\ book.byRef[m.ref] = Pending(book, m.ref)
      /\ ~ book.byTopic[Pending(book, m.ref)].joined
  BY <1>1, PendingType
<1>3. CASE m \in unanswered
  BY <1>2, <1>3 DEF JoinInv, RefInv
<1>4. CASE book.byTopic[m.topic] = [joinRef |-> m.ref, joined |-> TRUE]
  <2>1. book.byRef[m.ref] = m.topic
    BY <1>1, <1>4 DEF BookConsistent
  <2> QED  BY <2>1, <1>2, <1>4
<1> QED  BY <1>3, <1>4

\* The read loop's treatment of a reply.
LEMMA ReplyKeeps ==
  ASSUME TypeOK, JoinInv,
         NEW m \in [ref : Refs, topic : Topics], NEW s,
         \/ m \in unanswered
         \/ book.byTopic[m.topic] = [joinRef |-> m.ref, joined |-> TRUE],
         ReadReply(m, s)
  PROVE  JoinInv'
<1> DEFINE t == Pending(book, m.ref)
<1>0. RefInv /\ LiveInv /\ LoopInv /\ BeatInv
  BY DEF JoinInv
<1>1. /\ book \in Books /\ joinRef \in Nat
      /\ unanswered \subseteq [ref : Refs, topic : Topics] /\ timers \subseteq Timers
  BY JoinTypes
<1>2. /\ manage = "read" /\ manage' \in {"read", "waitTimers"}
      /\ unanswered' = unanswered \ {m} /\ joinRef' = joinRef
  BY DEF ReadReply, Arrives, JoinOk, JoinLimited, JoinRefused, EndRun
<1>3. LoopInv'
  BY <1>2 DEF LoopInv, Attached
<1>4. CASE UNCHANGED <<book, timers, hbs>>
  BY <1>0, <1>2, <1>3, <1>4
  DEF JoinInv, RefInv, LiveInv, BeatInv, OneHeartbeat, Once, Skipped, JoinTopic
<1>5. ASSUME t # NoTopic
      PROVE  /\ m \in unanswered /\ t = m.topic /\ t \in Topics
             /\ ~ book.byTopic[t].joined /\ book.byTopic[t].joinRef = m.ref
  BY <1>1, <1>5, ReplyIsToAJoin, PendingType, TopicsAssumption
<1>6. CASE t # NoTopic /\ s = "ok"
  <2>1. JoinOk(t, m.ref)
    BY <1>6 DEF ReadReply
  <2>2. book' = MarkJoined(book, t) /\ timers' = timers
    BY <2>1 DEF JoinOk
  <2>3. /\ BookConsistent(book') /\ book'.byRef = book.byRef
        /\ book'.byTopic[t].joined
        /\ \A u \in Topics : book'.byTopic[u].joinRef = book.byTopic[u].joinRef
        /\ \A u \in Topics \ {t} : book'.byTopic[u] = book.byTopic[u]
    BY <1>0, <1>1, <1>5, <1>6, <2>2, Marked DEF RefInv
  <2>4. RefInv'
    <3>1. \A u \in Topics :
            /\ book'.byTopic[u].joinRef <= joinRef'
            /\ book'.byTopic[u].joinRef = 0 => ~ book'.byTopic[u].joined
      BY <1>0, <1>2, <1>5, <1>6, <2>3 DEF RefInv, Refs
    <3> QED  BY <3>1, <1>0, <1>2, <2>2, <2>3 DEF RefInv
  <2>5. LiveInv'
    <3>1. \A n \in unanswered' \cup timers' : n.topic \in Once => n.topic # t
      <4> SUFFICES ASSUME NEW n \in unanswered' \cup timers', n.topic \in Once, n.topic = t
                   PROVE  FALSE
        OBVIOUS
      <4>1. CASE n \in unanswered'
        <5>1. n \in unanswered /\ n # m /\ n.ref = m.ref
          BY <4>1, <1>0, <1>2, <1>5, <1>6 DEF LiveInv
        <5> QED  BY <5>1, <1>1, <1>5, <1>6
      <4>2. CASE n \in timers'
        BY <4>2, <1>0, <1>5, <1>6, <2>2 DEF LiveInv
      <4> QED  BY <4>1, <4>2
    <3>2. \A n \in unanswered' \cup timers' : n \in unanswered \cup timers /\ n.topic \in Topics
      BY <1>1, <1>2, <2>2 DEF Timers
    <3>3. \A n \in unanswered' \cup timers' : n.topic \in Once =>
            /\ book'.byTopic[n.topic].joinRef = n.ref
            /\ ~ book'.byTopic[n.topic].joined
      BY <1>0, <2>3, <3>1, <3>2 DEF LiveInv
    <3> QED  BY <3>3, <1>0, <1>2, <2>2 DEF LiveInv, Once, Skipped, JoinTopic
  <2>6. BeatInv'
    <3>1. CASE t = Primary
      <4>1. hbs = {}
        BY <3>1, <1>0, <1>5, <1>6 DEF BeatInv
      <4> QED  BY <4>1, <3>1, <2>1, <2>3 DEF JoinOk, BeatInv, OneHeartbeat
    <3>2. CASE t # Primary
      <4>1. hbs' = hbs /\ book'.byTopic[Primary] = book.byTopic[Primary]
        BY <3>2, <2>1, <2>3, SessionAssumption DEF JoinOk
      <4> QED  BY <4>1, <1>0 DEF BeatInv, OneHeartbeat
    <3> QED  BY <3>1, <3>2
  <2> QED  BY <2>4, <2>5, <2>6, <1>3 DEF JoinInv
<1>7. CASE t # NoTopic /\ s = "limited"
  <2> DEFINE g == [ref |-> m.ref, topic |-> t, conn |-> dials, st |-> "sleep"]
  <2>1. JoinLimited(t, m.ref)
    BY <1>7 DEF ReadReply
  <2>2. book' = book /\ hbs' = hbs /\ timers' = timers \cup {g}
    BY <2>1 DEF JoinLimited
  <2>3. g.ref = m.ref /\ g.topic = m.topic
    BY <1>5, <1>7
  <2> HIDE DEF g
  <2>4. RefInv'
    BY <2>2, <2>3, <1>0, <1>2, <1>5, <1>7 DEF RefInv
  <2>5. LiveInv'
    <3>1. \A n \in unanswered' \cup timers' : n.topic \in Once =>
            book.byTopic[n.topic].joinRef = n.ref /\ ~ book.byTopic[n.topic].joined
      BY <2>2, <2>3, <1>0, <1>2, <1>5, <1>7 DEF LiveInv
    <3>2. m.topic \in Once => \A h \in timers : h.topic # m.topic
      BY <1>0, <1>5, <1>7 DEF LiveInv
    <3>3. m.topic \in Once => \A n \in unanswered' : n.topic # m.topic
      <4> SUFFICES ASSUME m.topic \in Once, NEW n \in unanswered', n.topic = m.topic
                   PROVE  FALSE
        OBVIOUS
      <4>1. n \in unanswered /\ n # m /\ n.ref = m.ref
        BY <1>0, <1>2, <1>5, <1>7 DEF LiveInv
      <4> QED  BY <4>1, <1>1
    <3>4. \A h, k \in timers' : h.topic \in Once /\ h.topic = k.topic => h = k
      BY <3>2, <2>2, <2>3, <1>0 DEF LiveInv
    <3>5. \A n \in unanswered', h \in timers' : n.topic \in Once => n.topic # h.topic
      BY <3>3, <2>2, <2>3, <1>0, <1>2 DEF LiveInv
    <3> QED  BY <3>1, <3>4, <3>5, <2>2 DEF LiveInv, Once, Skipped, JoinTopic
  <2>6. BeatInv'
    BY <2>2, <1>0 DEF BeatInv, OneHeartbeat
  <2> QED  BY <2>4, <2>5, <2>6, <1>3 DEF JoinInv
<1>8. CASE ~ (t # NoTopic /\ s \in {"ok", "limited"})
  <2>1. UNCHANGED <<book, timers, hbs>>
    BY <1>8 DEF ReadReply, JoinRefused
  <2> QED  BY <2>1, <1>4
<1> QED  BY <1>6, <1>7, <1>8

-----------------------------------------------------------------------------
(* Every other step                                                        *)

\* A new client joins nothing.
LEMMA JoinInit == Init => JoinInv
<1> SUFFICES ASSUME Init PROVE JoinInv
  OBVIOUS
<1>1. /\ book = NewJoinBook /\ joinRef = 0 /\ manage = "none"
      /\ unanswered = {} /\ timers = {} /\ hbs = {}
  BY DEF Init
<1>2. RefInv
  BY <1>1, NewBook DEF RefInv
<1>3. LiveInv /\ LoopInv /\ BeatInv
  BY <1>1 DEF LiveInv, LoopInv, BeatInv, OneHeartbeat, Attached
<1> QED  BY <1>2, <1>3 DEF JoinInv

\* A step that leaves the book and the wire alone, starts no rejoin, does not
\* begin the joins and does not let go of the connection.
LEMMA JoinFrame ==
  /\ JoinInv
  /\ UNCHANGED <<book, joinRef, joinAt, unanswered, hbs>>
  /\ timers' \subseteq timers
  /\ manage' = manage \/ (manage' # "join" /\ (manage \in Attached => manage' \in Attached))
  => JoinInv'
<1> SUFFICES ASSUME JoinInv, UNCHANGED <<book, joinRef, joinAt, unanswered, hbs>>,
                    timers' \subseteq timers,
                    manage' = manage
                      \/ (manage' # "join" /\ (manage \in Attached => manage' \in Attached))
             PROVE  JoinInv'
  OBVIOUS
<1>1. RefInv'
  BY DEF JoinInv, RefInv
<1>2. LiveInv'
  BY DEF JoinInv, LiveInv, Once, Skipped, JoinTopic
<1>3. LoopInv'
  <2>1. manage' \notin Attached => book' = NewJoinBook /\ unanswered' = {}
    BY DEF JoinInv, LoopInv
  <2>2. CASE manage' = "join"
    <3>1. manage = "join" /\ timers' = {}
      BY <2>2 DEF JoinInv, LoopInv
    <3> QED  BY <2>1, <3>1 DEF JoinInv, LoopInv, Once, Skipped, JoinTopic
  <2> QED  BY <2>1, <2>2 DEF LoopInv
<1>4. BeatInv'
  BY DEF JoinInv, BeatInv, OneHeartbeat
<1> QED  BY <1>1, <1>2, <1>3, <1>4 DEF JoinInv

\* A step of the heartbeat: it goes on, or it ends.
LEMMA BeatKeeps ==
  ASSUME JoinInv, NEW g \in hbs, NEW h,
         hbs' = hbs \ {g} \/ hbs' = (hbs \ {g}) \cup {h},
         UNCHANGED <<book, joinRef, joinAt, unanswered, timers, manage>>
  PROVE  JoinInv'
<1>1. RefInv'
  BY DEF JoinInv, RefInv
<1>2. LiveInv'
  BY DEF JoinInv, LiveInv, Once, Skipped, JoinTopic
<1>3. LoopInv'
  BY DEF JoinInv, LoopInv, Once, Skipped, JoinTopic
<1>4. hbs = {g} /\ book.byTopic[Primary].joined
  BY DEF JoinInv, BeatInv, OneHeartbeat
<1>5. BeatInv'
  BY <1>4 DEF BeatInv, OneHeartbeat
<1> QED  BY <1>1, <1>2, <1>3, <1>5 DEF JoinInv

\* A rejoin goroutine's sendJoin, which the read loop may run beside.
LEMMA TimerTracksKeeps ==
  ASSUME TypeOK, ConnInv, JoinInv, NEW g \in timers, TimerTracks(g)
  PROVE  JoinInv'
<1> DEFINE r == joinRef + 1
           h == [g EXCEPT !.ref = r, !.st = "write"]
<1>0. RefInv /\ LiveInv /\ LoopInv /\ BeatInv
  BY DEF JoinInv
<1>1. /\ book \in Books /\ joinRef \in Nat /\ timers \subseteq Timers
      /\ unanswered \subseteq [ref : Refs, topic : Topics]
      /\ g.topic \in Topics
  BY JoinTypes DEF Timers
<1>2. r \in Refs
  BY <1>1, Bounds DEF TimerTracks, Refs
<1>3. h.ref = r /\ h.topic = g.topic
  BY <1>1 DEF Timers
<1>4. /\ book' = Track(book, g.topic, r) /\ joinRef' = r
      /\ timers' = (timers \ {g}) \cup {h}
      /\ UNCHANGED <<unanswered, hbs, manage>>
  BY DEF TimerTracks, beatVars, manageVars
<1>5. \A u \in Topics : book.byTopic[u].joinRef \in Nat /\ book.byTopic[u].joinRef < r
  BY <1>0, <1>1 DEF RefInv, Books, ChannelJoin, Refs
<1>6. /\ BookConsistent(book')
      /\ book'.byTopic[g.topic] = [joinRef |-> r, joined |-> FALSE]
      /\ \A u \in Topics \ {g.topic} : book'.byTopic[u] = book.byTopic[u]
      /\ book'.byRef[r] = g.topic
      /\ \A q \in Refs \ {r} : book'.byRef[q] \in {book.byRef[q], NoTopic}
  BY <1>0, <1>1, <1>2, <1>4, <1>5, Tracked DEF RefInv
<1>7. \A m \in unanswered \cup timers :
        /\ m.ref \in Refs /\ m.topic \in Topics /\ m.ref <= joinRef
        /\ book.byRef[m.ref] \in {m.topic, NoTopic}
  BY <1>0, <1>1 DEF RefInv, Timers
<1> HIDE DEF h, r
<1>8. r = joinRef + 1
  BY DEF r
<1>9. RefInv'
  <2>1. \A t \in Topics :
          /\ book'.byTopic[t].joinRef <= joinRef'
          /\ book'.byTopic[t].joinRef = 0 => ~ book'.byTopic[t].joined
    BY <1>0, <1>1, <1>2, <1>4, <1>5, <1>6 DEF RefInv, Refs
  <2>2. \A m \in unanswered \cup timers :
          m.ref <= joinRef' /\ book'.byRef[m.ref] \in {m.topic, NoTopic}
    BY <1>1, <1>4, <1>6, <1>7, <1>8 DEF Refs
  <2>3. h.ref <= joinRef' /\ book'.byRef[h.ref] \in {h.topic, NoTopic}
    BY <1>1, <1>3, <1>4, <1>6, <1>8
  <2> QED  BY <2>1, <2>2, <2>3, <1>4, <1>6 DEF RefInv
<1>10. LiveInv'
  <2>1. \A m \in unanswered \cup (timers \ {g}) : m.topic \in Once => m.topic # g.topic
    BY <1>0 DEF LiveInv
  <2>2. \A m \in unanswered' \cup timers' : m.topic \in Once =>
          book'.byTopic[m.topic].joinRef = m.ref /\ ~ book'.byTopic[m.topic].joined
    <3> SUFFICES ASSUME NEW m \in unanswered' \cup timers', m.topic \in Once
                 PROVE  /\ book'.byTopic[m.topic].joinRef = m.ref
                        /\ ~ book'.byTopic[m.topic].joined
      OBVIOUS
    <3>1. CASE m = h
      BY <3>1, <1>3, <1>6
    <3>2. CASE m # h
      <4>1. m \in unanswered \cup (timers \ {g})
        BY <3>2, <1>4
      <4> QED  BY <4>1, <2>1, <1>0, <1>6, <1>7 DEF LiveInv
    <3> QED  BY <3>1, <3>2
  <2>3. \A a, b \in timers' : a.topic \in Once /\ a.topic = b.topic => a = b
    BY <2>1, <1>0, <1>3, <1>4 DEF LiveInv
  <2>4. \A m \in unanswered', a \in timers' : m.topic \in Once => m.topic # a.topic
    BY <2>1, <1>0, <1>3, <1>4 DEF LiveInv
  <2> QED  BY <2>2, <2>3, <2>4 DEF LiveInv, Once, Skipped, JoinTopic
<1>11. LoopInv'
  <2>1. manage' \in Attached /\ manage' # "join"
    BY <1>0, <1>4 DEF LoopInv, ConnInv, ConnectionsDoNotOverlap
  <2> QED  BY <2>1 DEF LoopInv, Attached
<1>12. BeatInv'
  <2>1. CASE g.topic = Primary
    <3>1. hbs = {}
      BY <2>1, <1>0, PrimaryOnce DEF LiveInv, BeatInv
    <3> QED  BY <3>1, <1>4 DEF BeatInv, OneHeartbeat
  <2>2. CASE g.topic # Primary
    <3>1. book'.byTopic[Primary] = book.byTopic[Primary]
      BY <2>2, <1>6, SessionAssumption
    <3> QED  BY <3>1, <1>0, <1>4 DEF BeatInv, OneHeartbeat
  <2> QED  BY <2>1, <2>2
<1> QED  BY <1>9, <1>10, <1>11, <1>12 DEF JoinInv

\* The rejoin's write: the goroutine ends and its join is on the wire.
LEMMA TimerWritesKeeps ==
  ASSUME TypeOK, ConnInv, JoinInv, NEW g \in timers, TimerWrites(g)
  PROVE  JoinInv'
<1> DEFINE m == [ref |-> g.ref, topic |-> g.topic]
<1>0. RefInv /\ LiveInv /\ LoopInv /\ BeatInv
  BY DEF JoinInv
<1>1. /\ unanswered' = unanswered \cup {m} /\ timers' = timers \ {g}
      /\ UNCHANGED <<book, joinRef, hbs, manage>>
  BY DEF TimerWrites, beatVars, manageVars
<1>2. m.ref = g.ref /\ m.topic = g.topic
  OBVIOUS
<1> HIDE DEF m
<1>3. RefInv'
  BY <1>0, <1>1, <1>2 DEF RefInv
<1>4. LiveInv'
  <2>1. \A n \in unanswered' \cup timers' : n.topic \in Once =>
          book.byTopic[n.topic].joinRef = n.ref /\ ~ book.byTopic[n.topic].joined
    BY <1>0, <1>1, <1>2 DEF LiveInv
  <2>2. \A n \in unanswered', a \in timers' : n.topic \in Once => n.topic # a.topic
    BY <1>0, <1>1, <1>2 DEF LiveInv
  <2> QED  BY <2>1, <2>2, <1>0, <1>1 DEF LiveInv, Once, Skipped, JoinTopic
<1>5. LoopInv'
  <2>1. manage' \in Attached /\ manage' # "join"
    BY <1>0, <1>1 DEF LoopInv, ConnInv, ConnectionsDoNotOverlap
  <2> QED  BY <2>1 DEF LoopInv, Attached
<1>6. BeatInv'
  BY <1>0, <1>1 DEF BeatInv, OneHeartbeat
<1> QED  BY <1>3, <1>4, <1>5, <1>6 DEF JoinInv

\* runOnce begins its joins with a new book and nothing of the last connection.
LEMMA AdoptKeeps == ConnInv /\ JoinInv /\ AdoptConn => JoinInv'
<1> SUFFICES ASSUME ConnInv, JoinInv, AdoptConn PROVE JoinInv'
  OBVIOUS
<1>0. RefInv /\ LiveInv /\ LoopInv /\ BeatInv
  BY DEF JoinInv
<1>1. /\ manage = "adopt" /\ manage' = "join" /\ joinAt' = 0
      /\ UNCHANGED <<joinRef, book, unanswered, timers, hbs>>
  BY DEF AdoptConn, beatVars
<1>2. timers = {} /\ hbs = {}
  BY <1>1 DEF ConnInv, ConnectionsDoNotOverlap, Attached
<1>3. book = NewJoinBook
  BY <1>0, <1>1 DEF LoopInv, Attached
<1>4. RefInv' /\ BeatInv'
  BY <1>0, <1>1 DEF RefInv, BeatInv, OneHeartbeat
<1>5. LiveInv'
  BY <1>0, <1>1 DEF LiveInv, Once, Skipped, JoinTopic
<1>6. LoopInv'
  <2>1. \A t \in Topics : book'.byTopic[t] = [joinRef |-> 0, joined |-> FALSE]
    BY <1>1, <1>3, NewBook
  <2>2. \A i : JoinTopic(i) \in Once => JoinTopic(i) \in Topics
    BY DEF Once
  <2> QED  BY <1>1, <1>2, <2>1, <2>2 DEF LoopInv, Attached, Once, Skipped, JoinTopic
<1> QED  BY <1>4, <1>5, <1>6 DEF JoinInv

\* The workspace among the extra topics is passed over.
LEMMA SkipKeeps == TypeOK /\ JoinInv /\ SkipJoin => JoinInv'
<1> SUFFICES ASSUME TypeOK, JoinInv, SkipJoin PROVE JoinInv'
  OBVIOUS
<1>0. RefInv /\ LiveInv /\ LoopInv /\ BeatInv
  BY DEF JoinInv
<1>1. joinAt \in 0 .. Len(ExtraTopics) /\ Len(ExtraTopics) \in Nat
  BY JoinTypes
<1>2. /\ manage = "join" /\ UNCHANGED <<joinRef, book, unanswered, timers, hbs>>
      /\ (manage' = "join" /\ joinAt' = joinAt + 1) \/ manage' = "read"
  BY DEF SkipJoin, NextJoin, beatVars
<1>3. RefInv' /\ BeatInv'
  BY <1>0, <1>2 DEF RefInv, BeatInv, OneHeartbeat
<1>4. LiveInv'
  BY <1>0, <1>2 DEF LiveInv, Once, Skipped, JoinTopic
<1>5. CASE manage' = "read"
  BY <1>3, <1>4, <1>5 DEF JoinInv, LoopInv, Attached
<1>6. CASE manage' = "join" /\ joinAt' = joinAt + 1
  <2>1. joinAt' .. Len(ExtraTopics) \subseteq joinAt .. Len(ExtraTopics)
    BY <1>1, <1>6
  <2>2. LoopInv'
    BY <1>0, <1>2, <1>6, <2>1 DEF LoopInv, Attached, Once, Skipped, JoinTopic
  <2> QED  BY <1>3, <1>4, <2>2 DEF JoinInv
<1> QED  BY <1>2, <1>5, <1>6

\* runOnce returns after its goroutines have ended.
LEMMA ClosedKeeps == TypeOK /\ ConnInv /\ JoinInv /\ ConnClosed => JoinInv'
<1> SUFFICES ASSUME TypeOK, ConnInv, JoinInv, ConnClosed PROVE JoinInv'
  OBVIOUS
<1>1. /\ manage = "close" /\ manage' = "ended" /\ book' = NewJoinBook
      /\ unanswered' = {} /\ UNCHANGED <<joinRef, timers, hbs>>
  BY DEF ConnClosed
<1>2. timers' = {} /\ hbs' = {}
  BY <1>1 DEF ConnInv, Phases
<1>3. RefInv'
  BY <1>1, <1>2, NewBook, JoinTypes DEF RefInv
<1>4. LiveInv' /\ LoopInv' /\ BeatInv'
  BY <1>1, <1>2 DEF LiveInv, LoopInv, BeatInv, OneHeartbeat, Attached
<1> QED  BY <1>3, <1>4 DEF JoinInv

\* Every step keeps the invariant of the joins.
LEMMA JoinNext == TypeOK /\ ConnInv /\ JoinInv /\ [Next]_vars => JoinInv'
<1> SUFFICES ASSUME TypeOK, ConnInv, JoinInv, [Next]_vars PROVE JoinInv'
  OBVIOUS
<1>0. JoinInv
  OBVIOUS
<1>1. CASE Open
  <2>1. CASE OpenMark
    BY <1>0, <2>1, JoinFrame DEF OpenMark, beatVars, joinVars, manageVars
  <2>2. CASE OpenSpawn
    BY <1>0, <2>2, JoinFrame DEF OpenSpawn, Attached, beatVars, joinVars, ConnInv, Phases
  <2>3. CASE OpenReady
    BY <1>0, <2>3, JoinFrame DEF OpenReady, beatVars, joinVars, manageVars
  <2>4. CASE OpenCancelled
    BY <1>0, <2>4, JoinFrame DEF OpenCancelled, beatVars, joinVars, manageVars
  <2> QED  BY <1>1, <2>1, <2>2, <2>3, <2>4 DEF Open
<1>2. CASE CancelContext
  BY <1>0, <1>2, JoinFrame DEF CancelContext, beatVars, joinVars, manageVars
<1>3. ASSUME NEW c \in Callers, CloseCall(c) PROVE JoinInv'
  <2>1. CASE CloseRead(c)
    BY <1>0, <2>1, JoinFrame DEF CloseRead, beatVars, joinVars, manageVars
  <2>2. CASE CloseShut(c)
    BY <1>0, <2>2, JoinFrame DEF CloseShut, beatVars, joinVars, manageVars
  <2>3. CASE \E how \in {"clean", "timeout"} : CloseReturns(c, how)
    BY <1>0, <2>3, JoinFrame DEF CloseReturns, beatVars, joinVars, manageVars
  <2> QED  BY <1>3, <2>1, <2>2, <2>3 DEF CloseCall
<1>4. CASE ManageStep
  <2>1. CASE TopCancelled
    BY <1>0, <2>1, JoinFrame DEF TopCancelled, ManageReturns, Attached, beatVars, joinVars
  <2>2. CASE StartDial
    BY <1>0, <2>2, JoinFrame DEF StartDial, Attached, beatVars, joinVars
  <2>3. CASE ConnectFails
    BY <1>0, <2>3, JoinFrame DEF ConnectFails, Attached, beatVars, joinVars
  <2>4. CASE AdoptConn
    BY <2>4, AdoptKeeps
  <2>5. CASE SkipJoin
    BY <2>5, SkipKeeps
  <2>6. CASE SendJoin
    BY <2>6, SendJoinKeeps
  <2>7. CASE ReadInterrupted
    BY <1>0, <2>7, JoinFrame DEF ReadInterrupted, EndRun, Attached, beatVars, joinVars
  <2>8. CASE TimersWaited
    BY <1>0, <2>8, JoinFrame DEF TimersWaited, Attached, beatVars, joinVars
  <2>9. CASE HbWaited
    BY <1>0, <2>9, JoinFrame DEF HbWaited, Attached, beatVars, joinVars
  <2>10. CASE ConnClosed
    BY <2>10, ClosedKeeps
  <2>11. CASE EndedCancelled
    BY <1>0, <2>11, JoinFrame
    DEF EndedCancelled, ManageReturns, Attached, beatVars, joinVars
  <2>12. CASE EndedFatal
    BY <1>0, <2>12, JoinFrame DEF EndedFatal, ManageReturns, Attached, beatVars, joinVars
  <2>13. CASE EndedRetry
    BY <1>0, <2>13, JoinFrame DEF EndedRetry, Attached, beatVars, joinVars
  <2>14. CASE Wake
    BY <1>0, <2>14, JoinFrame DEF Wake, ManageReturns, Attached, beatVars, joinVars
  <2>15. CASE Finish
    BY <1>0, <2>15, JoinFrame DEF Finish, Attached, beatVars, joinVars
  <2> QED  BY <1>4, <2>1, <2>2, <2>3, <2>4, <2>5, <2>6, <2>7, <2>8, <2>9, <2>10,
              <2>11, <2>12, <2>13, <2>14, <2>15
         DEF ManageStep
<1>5. CASE ReadJoinReply \/ ReadAck
  <2>1. ASSUME NEW m \in unanswered, NEW s, ReadReply(m, s) PROVE JoinInv'
    BY <2>1, JoinTypes, ReplyKeeps
  <2>2. ASSUME NEW t \in Topics, NEW r \in Refs,
               book.byTopic[t] = [joinRef |-> r, joined |-> TRUE],
               ReadReply([ref |-> r, topic |-> t], "ok")
        PROVE  JoinInv'
    <3> DEFINE m == [ref |-> r, topic |-> t]
    <3>1. /\ m \in [ref : Refs, topic : Topics]
          /\ book.byTopic[m.topic] = [joinRef |-> m.ref, joined |-> TRUE]
      BY <2>2
    <3> HIDE DEF m
    <3>2. ReadReply(m, "ok")
      BY <2>2 DEF m
    <3> QED  BY <3>1, <3>2, ReplyKeeps
  <2> QED  BY <1>5, <2>1, <2>2 DEF ReadJoinReply, ReadAck
<1>6. CASE NetworkStep
  <2>1. CASE Connected
    BY <1>0, <2>1, JoinFrame DEF Connected, Attached, beatVars, joinVars
  <2>2. CASE Upgraded
    BY <1>0, <2>2, JoinFrame DEF Upgraded, Attached, beatVars, joinVars
  <2>3. CASE \E err \in {"unauthorized", "forbidden", "transport"} : UpgradeRefused(err)
    BY <1>0, <2>3, JoinFrame DEF UpgradeRefused, Attached, beatVars, joinVars
  <2>4. CASE ReadFails
    BY <1>0, <2>4, JoinFrame DEF ReadFails, EndRun, Attached, beatVars, joinVars
  <2>5. CASE ReadPong
    BY <1>0, <2>5, JoinFrame DEF ReadPong, joinVars, manageVars
  <2>6. CASE ReadPush
    BY <1>0, <2>6, JoinFrame DEF ReadPush, beatVars, joinVars, manageVars
  <2>7. CASE ReadChannelDown
    BY <1>0, <2>7, JoinFrame DEF ReadChannelDown, EndRun, Attached, beatVars, joinVars
  <2>8. CASE GoSilent
    BY <1>0, <2>8, JoinFrame DEF GoSilent, joinVars, manageVars
  <2>9. CASE ReadJoinReply \/ ReadAck
    BY <1>5, <2>9
  <2> QED  BY <1>6, <2>1, <2>2, <2>3, <2>4, <2>5, <2>6, <2>7, <2>8, <2>9 DEF NetworkStep
<1>7. ASSUME NEW g \in timers, Timer(g) PROVE JoinInv'
  <2>1. CASE TimerCancelled(g)
    BY <1>0, <2>1, JoinFrame DEF TimerCancelled, beatVars, manageVars
  <2>2. CASE TimerTracks(g)
    BY <1>7, <2>2, TimerTracksKeeps
  <2>3. CASE TimerWrites(g)
    BY <1>7, <2>3, TimerWritesKeeps
  <2>4. CASE TimerWriteFails(g)
    BY <1>0, <2>4, JoinFrame DEF TimerWriteFails, beatVars, manageVars
  <2> QED  BY <1>7, <2>1, <2>2, <2>3, <2>4 DEF Timer
<1>8. ASSUME NEW g \in hbs, Heartbeat(g) PROVE JoinInv'
  <2>1. CASE HbCancelled(g)
    BY <1>8, <2>1, BeatKeeps DEF HbCancelled, manageVars, joinVars
  <2>2. CASE HbBeat(g)
    BY <1>8, <2>2, BeatKeeps DEF HbBeat, manageVars, joinVars
  <2>3. CASE HbWriteFails(g)
    BY <1>8, <2>3, BeatKeeps DEF HbWriteFails, manageVars, joinVars
  <2>4. CASE HbPong(g)
    BY <1>8, <2>4, BeatKeeps DEF HbPong, manageVars, joinVars
  <2>5. CASE HbTimeout(g)
    BY <1>8, <2>5, BeatKeeps DEF HbTimeout, manageVars, joinVars
  <2> QED  BY <1>8, <2>1, <2>2, <2>3, <2>4, <2>5 DEF Heartbeat
<1>9. CASE Dispatch
  <2>1. CASE DispatchTakes
    BY <1>0, <2>1, JoinFrame DEF DispatchTakes, beatVars, joinVars, manageVars
  <2>2. CASE HandlerReturns
    BY <1>0, <2>2, JoinFrame DEF HandlerReturns, beatVars, joinVars, manageVars
  <2>3. CASE DispatchStops
    BY <1>0, <2>3, JoinFrame DEF DispatchStops, beatVars, joinVars, manageVars
  <2> QED  BY <1>9, <2>1, <2>2, <2>3 DEF Dispatch
<1>10. CASE Stopped \/ UNCHANGED vars
  BY <1>0, <1>10, JoinFrame DEF Stopped, vars, manageVars, joinVars, beatVars
<1> QED
  BY <1>1, <1>2, <1>3, <1>4, <1>6, <1>7, <1>8, <1>9, <1>10 DEF Next

\* A connection never runs two heartbeats, whatever the server acknowledges
\* and however often (pending and markJoined, gateway.go:1163-1184).
THEOREM HeartbeatUnique == Spec => []OneHeartbeat
<1>1. Init => TypeOK /\ ConnInv /\ JoinInv
  BY InitType, ConnInit, JoinInit
<1>2. (TypeOK /\ ConnInv /\ JoinInv) /\ [Next]_vars => (TypeOK /\ ConnInv /\ JoinInv)'
  BY NextType, ConnNext, JoinNext
<1>3. JoinInv => OneHeartbeat
  BY DEF JoinInv, BeatInv
<1> QED  BY <1>1, <1>2, <1>3, PTL DEF Spec

\* When WithTopics names no extra topic twice, a topic never has two joins
\* under way, nor one beside its open channel (gateway.go:656-727, 834-859).
THEOREM JoinsUnique ==
  ASSUME Once = Topics
  PROVE  Spec => []OneJoinPerTopic
<1>1. Init => TypeOK /\ ConnInv /\ JoinInv
  BY InitType, ConnInit, JoinInit
<1>2. (TypeOK /\ ConnInv /\ JoinInv) /\ [Next]_vars => (TypeOK /\ ConnInv /\ JoinInv)'
  BY NextType, ConnNext, JoinNext
<1>3. TypeOK /\ JoinInv => OneJoinPerTopic
  <2> SUFFICES ASSUME TypeOK, JoinInv PROVE OneJoinPerTopic
    OBVIOUS
  <2>1. /\ unanswered \subseteq [ref : Refs, topic : Topics]
        /\ \A m \in unanswered \cup timers : m.topic \in Once
    BY JoinTypes DEF Timers
  <2>2. \A m, n \in unanswered : m.topic = n.topic => m = n
    BY <2>1 DEF JoinInv, LiveInv
  <2> QED  BY <2>1, <2>2 DEF JoinInv, LiveInv, OneJoinPerTopic
<1> QED  BY <1>1, <1>2, <1>3, PTL DEF Spec
=============================================================================
