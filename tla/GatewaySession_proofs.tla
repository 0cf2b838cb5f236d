----------------------- MODULE GatewaySession_proofs ------------------------
(***************************************************************************)
(* Proofs about GatewaySession for every set of topics, every list of      *)
(* extra topics and every bound.                                           *)
(***************************************************************************)
EXTENDS GatewaySession, TLAPS

-----------------------------------------------------------------------------
(* The join book                                                           *)

\* A new book has the shape of a book.
LEMMA NewBookType == NewJoinBook \in Books
  BY DEF NewJoinBook, Books, ChannelJoin

\* track keeps the book's shape.
LEMMA TrackType ==
  ASSUME NEW b \in Books, NEW t \in Topics, NEW r \in Refs
  PROVE  Track(b, t, r) \in Books
<1>1. [q \in Refs |-> CASE q = r -> t
                        [] q # r /\ q = b.byTopic[t].joinRef -> NoTopic
                        [] OTHER -> b.byRef[q]] \in [Refs -> Topics \cup {NoTopic}]
  BY DEF Books
<1>2. [b.byTopic EXCEPT ![t] = [joinRef |-> r, joined |-> FALSE]]
        \in [Topics -> ChannelJoin]
  BY DEF Books, ChannelJoin
<1> QED  BY <1>1, <1>2 DEF Track, Books

\* markJoined keeps the book's shape.
LEMMA MarkJoinedType ==
  ASSUME NEW b \in Books, NEW t \in Topics
  PROVE  MarkJoined(b, t) \in Books
  BY DEF MarkJoined, Books, ChannelJoin

\* pending answers with a topic of the book, whose current ref it is, or none.
LEMMA PendingType ==
  ASSUME NEW b \in Books, NEW r \in Refs
  PROVE  /\ Pending(b, r) \in Topics \cup {NoTopic}
         /\ Pending(b, r) # NoTopic =>
              /\ b.byRef[r] = Pending(b, r)
              /\ b.byTopic[Pending(b, r)].joinRef = r
              /\ ~ b.byTopic[Pending(b, r)].joined
  BY DEF Pending, Books, ChannelJoin

-----------------------------------------------------------------------------
(* Types                                                                   *)

\* What the proofs need to know of the bounds.
LEMMA Bounds ==
  /\ MaxDials \in Nat /\ MaxRef \in Nat
  /\ BufferCap \in Nat /\ BufferCap > 0
  BY SessionAssumption, MaxRefAssumption

\* 0 (no connection yet, no ref yet) is within the bounds.
LEMMA Zero == 0 \in 0 .. MaxDials /\ 0 \in 0 .. MaxRef
  BY Bounds

\* A new client has the types.
LEMMA InitType == Init => TypeOK
<1> SUFFICES ASSUME Init PROVE TypeOK
  OBVIOUS
<1>1. OpenType BY DEF Init, OpenType
<1>2. manage = "none" /\ runErr = "none" /\ termErr = "none" /\ everJoined = FALSE /\ dials = 0
  BY DEF Init
<1>3. ManageType BY <1>2, Zero DEF ManageType, Manage
<1>4. ConnType
  <2>1. sock = [d \in Conns |-> "none"] /\ conn = 0 /\ connDone = FALSE
    BY DEF Init
  <2> QED  BY <2>1, Zero DEF ConnType
<1>5. JoinType
  <2>1. joinAt = 0 /\ joinRef = 0 /\ book = NewJoinBook /\ unanswered = {} /\ timers = {}
    BY DEF Init
  <2>2. Len(ExtraTopics) \in Nat
    BY SessionAssumption
  <2> QED  BY <2>1, <2>2, Bounds, NewBookType DEF JoinType
<1>6. BeatType BY DEF Init, BeatType
<1>7. EventType BY Bounds DEF Init, EventType
<1>8. CloseType
  <2>1. /\ closer = [c \in Callers |-> "idle"]
        /\ closeConn = [c \in Callers |-> 0]
        /\ closeSaw = [c \in Callers |-> "idle"]
    BY DEF Init
  <2> QED  BY <2>1, Bounds DEF CloseType
<1> QED  BY <1>1, <1>3, <1>4, <1>5, <1>6, <1>7, <1>8 DEF TypeOK

\* A group of variables that does not change keeps its types.
LEMMA Frames ==
  /\ OpenType /\ UNCHANGED <<openVars, cancelled>> => OpenType'
  /\ ManageType /\ UNCHANGED manageVars => ManageType'
  /\ ConnType /\ UNCHANGED connVars => ConnType'
  /\ JoinType /\ UNCHANGED joinVars => JoinType'
  /\ BeatType /\ UNCHANGED beatVars => BeatType'
  /\ EventType /\ UNCHANGED eventVars => EventType'
  /\ CloseType /\ UNCHANGED closeVars => CloseType'
  BY DEF OpenType, ManageType, ConnType, JoinType, BeatType, EventType, CloseType,
         openVars, manageVars, connVars, joinVars, beatVars, eventVars, closeVars

\* Every step keeps the types: one step per action, under it one per group of
\* variables the action changes.
LEMMA NextType == TypeOK /\ [Next]_vars => TypeOK'
<1> SUFFICES ASSUME TypeOK, [Next]_vars PROVE TypeOK'
  OBVIOUS
<1>0. /\ OpenType /\ ManageType /\ ConnType /\ JoinType
      /\ BeatType /\ EventType /\ CloseType
  BY DEF TypeOK
<1>1. CASE Open
  <2>1. CASE OpenMark
    <3>1. OpenType' BY <1>0, <2>1 DEF OpenMark, OpenType, ConnErrors
    <3> QED  BY <1>0, <2>1, <3>1, Frames DEF OpenMark, TypeOK
  <2>2. CASE OpenSpawn
    <3>1. OpenType' BY <1>0, <2>2 DEF OpenSpawn, OpenType, ConnErrors
    <3>2. ManageType'
      BY <1>0, <2>2
      DEF OpenSpawn, ManageType, Manage, Attached, ConnErrors
    <3>3. EventType' BY <1>0, <2>2, Bounds DEF OpenSpawn, EventType
    <3> QED  BY <1>0, <2>2, <3>1, <3>2, <3>3, Frames DEF OpenSpawn, TypeOK
  <2>3. CASE OpenReady
    <3>1. OpenType' BY <1>0, <2>3 DEF OpenReady, OpenType, ConnErrors
    <3> QED  BY <1>0, <2>3, <3>1, Frames DEF OpenReady, TypeOK
  <2>4. CASE OpenCancelled
    <3>1. OpenType' BY <1>0, <2>4 DEF OpenCancelled, OpenType, ConnErrors
    <3> QED  BY <1>0, <2>4, <3>1, Frames DEF OpenCancelled, TypeOK
  <2> QED  BY <1>1, <2>1, <2>2, <2>3, <2>4 DEF Open
<1>2. CASE CancelContext
  <2>1. OpenType' BY <1>0, <1>2 DEF CancelContext, OpenType, openVars, ConnErrors
  <2> QED  BY <1>0, <1>2, <2>1, Frames DEF CancelContext, TypeOK
<1>3. ASSUME NEW c \in Callers, CloseCall(c) PROVE TypeOK'
  <2>1. CASE CloseRead(c)
    <3>1. CloseType' BY <1>0, <2>1, Bounds DEF CloseRead, OpenType, ConnType, CloseType
    <3> QED  BY <1>0, <2>1, <3>1, Frames DEF CloseRead, TypeOK
  <2>2. CASE CloseShut(c)
    <3>1. OpenType' BY <1>0, <2>2 DEF CloseShut, CloseSock, OpenType, openVars, ConnErrors
    <3>2. ConnType' BY <1>0, <2>2, Bounds DEF CloseShut, CloseSock, ConnType, Conns
    <3>3. CloseType' BY <1>0, <2>2, Bounds DEF CloseShut, CloseSock, CloseType
    <3> QED  BY <1>0, <2>2, <3>1, <3>2, <3>3, Frames DEF CloseShut, TypeOK
  <2>3. CASE \E how \in {"clean", "timeout"} : CloseReturns(c, how)
    <3>1. CloseType' BY <1>0, <2>3, Bounds DEF CloseReturns, CloseType
    <3> QED  BY <1>0, <2>3, <3>1, Frames DEF CloseReturns, TypeOK
  <2> QED  BY <1>3, <2>1, <2>2, <2>3 DEF CloseCall
<1>4. CASE ManageStep
  <2>1. CASE TopCancelled
    <3>1. ManageType'
      BY <1>0, <2>1
      DEF TopCancelled, ManageReturns, ManageType, Manage, Attached, ConnErrors
    <3> QED  BY <1>0, <2>1, <3>1, Frames DEF TopCancelled, TypeOK
  <2>2. CASE StartDial
    <3>1. ManageType'
      BY <1>0, <2>2, Bounds
      DEF StartDial, ManageType, Manage, Attached, ConnErrors
    <3>2. ConnType' BY <1>0, <2>2, Bounds DEF StartDial, ConnType, Conns
    <3> QED  BY <1>0, <2>2, <3>1, <3>2, Frames DEF StartDial, TypeOK
  <2>3. CASE ConnectFails
    <3>1. ManageType'
      BY <1>0, <2>3
      DEF ConnectFails, ManageType, Manage, Attached, ConnErrors
    <3>2. ConnType' BY <1>0, <2>3, Bounds DEF ConnectFails, ConnType, Conns
    <3> QED  BY <1>0, <2>3, <3>1, <3>2, Frames DEF ConnectFails, TypeOK
  <2>4. CASE AdoptConn
    <3>1. ManageType'
      BY <1>0, <2>4
      DEF AdoptConn, ManageType, Manage, Attached, ConnErrors
    <3>2. ConnType' BY <1>0, <2>4, Bounds DEF AdoptConn, ManageType, ConnType, Conns
    <3>3. JoinType'
      BY <1>0, <2>4, SessionAssumption DEF AdoptConn, JoinType
    <3> QED  BY <1>0, <2>4, <3>1, <3>2, <3>3, Frames DEF AdoptConn, TypeOK
  <2>5. CASE SkipJoin
    <3>1. ManageType'
      BY <1>0, <2>5
      DEF SkipJoin, NextJoin, ManageType, Manage, Attached, ConnErrors
    <3>2. JoinType' BY <1>0, <2>5 DEF SkipJoin, NextJoin, JoinType, Refs
    <3> QED  BY <1>0, <2>5, <3>1, <3>2, Frames DEF SkipJoin, TypeOK
  <2>6. CASE SendJoin
    <3>1. ManageType'
      BY <1>0, <2>6
      DEF SendJoin, EndRun, NextJoin, ManageType, Manage, Attached, ConnErrors
    <3>2. ConnType' BY <1>0, <2>6, Bounds DEF SendJoin, EndRun, NextJoin, ConnType, Conns
    <3>3. JoinType'
      <4>1. JoinTopic(joinAt) \in Topics /\ joinRef + 1 \in Refs
        BY <1>0, <2>6, SessionAssumption, MaxRefAssumption
        DEF SendJoin, JoinTopic, Refs, JoinType
      <4>2. book' \in Books
        BY <1>0, <4>1, <2>6, TrackType DEF SendJoin, JoinType
      <4>3. unanswered' \subseteq [ref : Refs, topic : Topics]
        BY <1>0, <4>1, <2>6 DEF SendJoin, JoinType
      <4> QED  BY <4>1, <4>2, <4>3, <1>0, <2>6, SessionAssumption, MaxRefAssumption
               DEF SendJoin, NextJoin, JoinType, Refs
    <3> QED  BY <1>0, <2>6, <3>1, <3>2, <3>3, Frames DEF SendJoin, TypeOK
  <2>7. CASE ReadInterrupted
    <3>1. ManageType'
      BY <1>0, <2>7
      DEF ReadInterrupted, EndRun, ManageType, Manage, Attached, ConnErrors
    <3>2. ConnType' BY <1>0, <2>7, Bounds DEF ReadInterrupted, EndRun, ConnType, Conns
    <3> QED  BY <1>0, <2>7, <3>1, <3>2, Frames DEF ReadInterrupted, TypeOK
  <2>8. CASE TimersWaited
    <3>1. ManageType'
      BY <1>0, <2>8
      DEF TimersWaited, ManageType, Manage, Attached, ConnErrors
    <3> QED  BY <1>0, <2>8, <3>1, Frames DEF TimersWaited, TypeOK
  <2>9. CASE HbWaited
    <3>1. ManageType' BY <1>0, <2>9 DEF HbWaited, ManageType, Manage, Attached, ConnErrors
    <3> QED  BY <1>0, <2>9, <3>1, Frames DEF HbWaited, TypeOK
  <2>10. CASE ConnClosed
    <3>1. ManageType'
      BY <1>0, <2>10
      DEF ConnClosed, CloseSock, ManageType, Manage, Attached, ConnErrors
    <3>2. ConnType'
      BY <1>0, <2>10, Zero
      DEF ConnClosed, CloseSock, ManageType, ConnType, Conns
    <3>3. JoinType'
      BY <1>0, <2>10, NewBookType, SessionAssumption, MaxRefAssumption
      DEF ConnClosed, JoinType
    <3>4. BeatType' BY <1>0, <2>10 DEF ConnClosed, CloseSock, BeatType, Beats
    <3> QED  BY <1>0, <2>10, <3>1, <3>2, <3>3, <3>4, Frames DEF ConnClosed, TypeOK
  <2>11. CASE EndedCancelled
    <3>1. ManageType'
      BY <1>0, <2>11
      DEF EndedCancelled, ManageReturns, ManageType, Manage, Attached, ConnErrors
    <3> QED  BY <1>0, <2>11, <3>1, Frames DEF EndedCancelled, TypeOK
  <2>12. CASE EndedFatal
    <3>1. OpenType'
      BY <1>0, <2>12 DEF EndedFatal, Fatal, OpenType, ManageType, ConnErrors
    <3>2. ManageType'
      BY <1>0, <2>12
      DEF EndedFatal, ManageReturns, Emit, Fatal, ManageType, Manage, Attached,
          ConnErrors
    <3>3. EventType'
      BY <1>0, <2>12, Bounds
      DEF EndedFatal, ManageReturns, Emit, Fatal, EventType
    <3> QED  BY <1>0, <2>12, <3>1, <3>2, <3>3, Frames DEF EndedFatal, TypeOK
  <2>13. CASE EndedRetry
    <3>1. ManageType'
      BY <1>0, <2>13
      DEF EndedRetry, Emit, Fatal, ManageType, Manage, Attached, ConnErrors
    <3>2. EventType' BY <1>0, <2>13, Bounds DEF EndedRetry, Emit, Fatal, EventType
    <3> QED  BY <1>0, <2>13, <3>1, <3>2, Frames DEF EndedRetry, TypeOK
  <2>14. CASE Wake
    <3>1. ManageType'
      BY <1>0, <2>14
      DEF Wake, ManageReturns, ManageType, Manage, Attached, ConnErrors
    <3> QED  BY <1>0, <2>14, <3>1, Frames DEF Wake, TypeOK
  <2>15. CASE Finish
    <3>1. ManageType' BY <1>0, <2>15 DEF Finish, ManageType, Manage, Attached, ConnErrors
    <3> QED  BY <1>0, <2>15, <3>1, Frames DEF Finish, TypeOK
  <2> QED  BY <1>4, <2>1, <2>2, <2>3, <2>4, <2>5, <2>6, <2>7,
              <2>8, <2>9, <2>10, <2>11, <2>12, <2>13, <2>14, <2>15
         DEF ManageStep
<1>5. ASSUME NEW m \in [ref : Refs, topic : Topics],
             NEW s \in {"ok", "limited", "denied", "refused"}, ReadReply(m, s)
      PROVE  TypeOK'
  <2> DEFINE t == Pending(book, m.ref)
  <2>1. t \in Topics \cup {NoTopic} /\ m.ref \in Refs /\ dials \in Conns
    BY <1>0, <1>5, PendingType
    DEF JoinType, ManageType, ReadReply, Arrives, SockOpen, Conns
  <2>2. CASE t = NoTopic
    BY <1>5, <2>2, <1>0, Frames
    DEF ReadReply, TypeOK, OpenType, ManageType, ConnType, JoinType, BeatType, EventType
  <2>3. CASE t # NoTopic /\ s = "ok"
    <3>1. JoinOk(t, m.ref)
      BY <1>5, <2>3 DEF ReadReply
    <3>2. OpenType' BY <1>0, <1>5, <3>1 DEF ReadReply, JoinOk, OpenType
    <3>3. ManageType' BY <1>0, <1>5, <3>1 DEF ReadReply, JoinOk, ManageType
    <3>4. ConnType' BY <1>0, <1>5, <3>1 DEF ReadReply, JoinOk, ConnType
    <3>5. JoinType'
      BY <1>0, <1>5, <3>1, <2>1, <2>3, MarkJoinedType DEF ReadReply, JoinOk, JoinType
    <3>6. BeatType' BY <1>0, <1>5, <3>1, <2>1 DEF ReadReply, JoinOk, BeatType, Beats
    <3>7. EventType' BY <1>0, <1>5, <3>1, Bounds DEF ReadReply, JoinOk, Emit, EventType
    <3> QED  BY <1>0, <1>0, <1>5, <3>2, <3>3, <3>4, <3>5, <3>6, <3>7, Frames
           DEF ReadReply, TypeOK
  <2>4. CASE t # NoTopic /\ s = "limited"
    <3>1. JoinLimited(t, m.ref)
      BY <1>5, <2>4 DEF ReadReply
    <3>2. OpenType' BY <1>0, <1>5, <3>1 DEF ReadReply, JoinLimited, OpenType
    <3>3. ManageType' BY <1>0, <1>5, <3>1 DEF ReadReply, JoinLimited, ManageType
    <3>4. ConnType' BY <1>0, <1>5, <3>1 DEF ReadReply, JoinLimited, ConnType
    <3>5. JoinType'
      BY <1>0, <1>5, <3>1, <2>1, <2>4
      DEF ReadReply, JoinLimited, JoinType, Timers
    <3>6. BeatType' BY <1>0, <1>5, <3>1 DEF ReadReply, JoinLimited, BeatType
    <3>7. EventType'
      BY <1>0, <1>5, <3>1, Bounds
      DEF ReadReply, JoinLimited, Emit, EventType
    <3> QED  BY <1>0, <1>0, <1>5, <3>2, <3>3, <3>4, <3>5, <3>6, <3>7, Frames
           DEF ReadReply, TypeOK
  <2>5. CASE t # NoTopic /\ s \in {"denied", "refused"}
    <3>1. JoinRefused(t, s)
      BY <1>5, <2>5 DEF ReadReply
    <3>2. OpenType' BY <1>0, <1>5, <3>1 DEF ReadReply, JoinRefused, OpenType
    <3>3. ManageType'
      BY <1>0, <1>5, <3>1, <2>5
      DEF ReadReply, JoinRefused, EndRun, ManageType, Manage, Attached, ConnErrors
    <3>4. ConnType' BY <1>0, <1>5, <3>1 DEF ReadReply, JoinRefused, EndRun, ConnType
    <3>5. JoinType' BY <1>0, <1>5, <3>1 DEF ReadReply, JoinRefused, JoinType
    <3>6. BeatType' BY <1>0, <1>5, <3>1 DEF ReadReply, JoinRefused, BeatType
    <3>7. EventType'
      BY <1>0, <1>5, <3>1, Bounds
      DEF ReadReply, JoinRefused, Emit, EventType
    <3> QED  BY <1>0, <1>0, <1>5, <3>2, <3>3, <3>4, <3>5, <3>6, <3>7, Frames
           DEF ReadReply, TypeOK
  <2> QED  BY <2>1, <2>2, <2>3, <2>4, <2>5
<1>6. CASE NetworkStep
  <2>1. CASE Connected
    <3>1. ManageType'
      BY <1>0, <2>1
      DEF Connected, ManageType, Manage, Attached, ConnErrors
    <3>2. ConnType' BY <1>0, <2>1, Bounds DEF Connected, ConnType, Conns
    <3> QED  BY <1>0, <2>1, <3>1, <3>2, Frames DEF Connected, TypeOK
  <2>2. CASE Upgraded
    <3>1. ManageType' BY <1>0, <2>2 DEF Upgraded, ManageType, Manage, Attached, ConnErrors
    <3> QED  BY <1>0, <2>2, <3>1, Frames DEF Upgraded, TypeOK
  <2>3. CASE \E err \in {"unauthorized", "forbidden", "transport"} : UpgradeRefused(err)
    <3>1. ManageType'
      BY <1>0, <2>3
      DEF UpgradeRefused, CloseSock, ManageType, Manage, Attached, ConnErrors
    <3>2. ConnType' BY <1>0, <2>3, Bounds DEF UpgradeRefused, CloseSock, ConnType, Conns
    <3> QED  BY <1>0, <2>3, <3>1, <3>2, Frames DEF UpgradeRefused, TypeOK
  <2>4. CASE ReadFails
    <3>1. ManageType'
      BY <1>0, <2>4
      DEF ReadFails, EndRun, ManageType, Manage, Attached, ConnErrors
    <3>2. ConnType' BY <1>0, <2>4, Bounds DEF ReadFails, EndRun, ConnType, Conns
    <3> QED  BY <1>0, <2>4, <3>1, <3>2, Frames DEF ReadFails, TypeOK
  <2>5. CASE ReadPong
    <3>1. BeatType' BY <1>0, <2>5 DEF ReadPong, BeatType, Beats
    <3> QED  BY <1>0, <2>5, <3>1, Frames DEF ReadPong, TypeOK
  <2>6. CASE ReadPush
    <3>1. EventType' BY <1>0, <2>6, Bounds DEF ReadPush, Emit, EventType
    <3> QED  BY <1>0, <2>6, <3>1, Frames DEF ReadPush, TypeOK
  <2>7. CASE ReadChannelDown
    <3>1. ManageType'
      BY <1>0, <2>7
      DEF ReadChannelDown, EndRun, ManageType, Manage, Attached, ConnErrors
    <3>2. ConnType' BY <1>0, <2>7, Bounds DEF ReadChannelDown, EndRun, ConnType, Conns
    <3> QED  BY <1>0, <2>7, <3>1, <3>2, Frames DEF ReadChannelDown, TypeOK
  <2>8. CASE GoSilent
    <3>1. BeatType' BY <1>0, <2>8 DEF GoSilent, BeatType, Beats
    <3> QED  BY <1>0, <2>8, <3>1, Frames DEF GoSilent, TypeOK
  <2>9. CASE ReadJoinReply
    BY <1>0, <1>5, <2>9 DEF ReadJoinReply, JoinType
  <2>10. CASE ReadAck
    BY <1>5, <2>10 DEF ReadAck
  <2> QED  BY <1>6, <2>1, <2>2, <2>3, <2>4, <2>5, <2>6, <2>7, <2>8, <2>9, <2>10
         DEF NetworkStep
<1>7. ASSUME NEW g \in timers, Timer(g) PROVE TypeOK'
  <2>1. CASE TimerCancelled(g)
    <3>1. JoinType' BY <1>0, <2>1 DEF TimerCancelled, JoinType, Refs
    <3> QED  BY <1>0, <2>1, <3>1, Frames DEF TimerCancelled, TypeOK
  <2>2. CASE TimerTracks(g)
    <3>1. JoinType'
      <4>1. joinRef + 1 \in Refs /\ joinRef + 1 \in 0 .. MaxRef
        BY <1>0, <2>2, MaxRefAssumption DEF TimerTracks, JoinType, Refs
      <4>2. book' \in Books
        BY <1>0, <4>1, <2>2, TrackType DEF TimerTracks, JoinType, Timers
      <4>3. timers' \subseteq Timers
        BY <1>0, <4>1, <2>2 DEF TimerTracks, JoinType, Timers
      <4> QED  BY <4>1, <4>2, <4>3, <1>0, <2>2 DEF TimerTracks, JoinType
    <3> QED  BY <1>0, <2>2, <3>1, Frames DEF TimerTracks, TypeOK
  <2>3. CASE TimerWrites(g)
    <3>1. JoinType'
      BY <1>0, <2>3 DEF TimerWrites, JoinType, Timers
    <3> QED  BY <1>0, <2>3, <3>1, Frames DEF TimerWrites, TypeOK
  <2>4. CASE TimerWriteFails(g)
    <3>1. ConnType' BY <1>0, <2>4, Bounds DEF TimerWriteFails, CloseSock, ConnType, Conns
    <3>2. JoinType' BY <1>0, <2>4 DEF TimerWriteFails, CloseSock, JoinType, Refs
    <3> QED  BY <1>0, <2>4, <3>1, <3>2, Frames DEF TimerWriteFails, TypeOK
  <2> QED  BY <1>7, <2>1, <2>2, <2>3, <2>4 DEF Timer
<1>8. ASSUME NEW g \in hbs, Heartbeat(g) PROVE TypeOK'
  <2>1. CASE HbCancelled(g)
    <3>1. BeatType' BY <1>0, <2>1 DEF HbCancelled, BeatType, Beats
    <3> QED  BY <1>0, <2>1, <3>1, Frames DEF HbCancelled, TypeOK
  <2>2. CASE HbBeat(g)
    <3>1. BeatType' BY <1>0, <2>2 DEF HbBeat, BeatType, Beats
    <3> QED  BY <1>0, <2>2, <3>1, Frames DEF HbBeat, TypeOK
  <2>3. CASE HbWriteFails(g)
    <3>1. ConnType' BY <1>0, <2>3, Bounds DEF HbWriteFails, CloseSock, ConnType, Conns
    <3>2. BeatType' BY <1>0, <2>3 DEF HbWriteFails, CloseSock, BeatType, Beats
    <3> QED  BY <1>0, <2>3, <3>1, <3>2, Frames DEF HbWriteFails, TypeOK
  <2>4. CASE HbPong(g)
    <3>1. BeatType' BY <1>0, <2>4 DEF HbPong, BeatType, Beats
    <3> QED  BY <1>0, <2>4, <3>1, Frames DEF HbPong, TypeOK
  <2>5. CASE HbTimeout(g)
    <3>1. ConnType' BY <1>0, <2>5, Bounds DEF HbTimeout, CloseSock, ConnType, Conns
    <3>2. BeatType' BY <1>0, <2>5 DEF HbTimeout, CloseSock, BeatType, Beats
    <3> QED  BY <1>0, <2>5, <3>1, <3>2, Frames DEF HbTimeout, TypeOK
  <2> QED  BY <1>8, <2>1, <2>2, <2>3, <2>4, <2>5 DEF Heartbeat
<1>9. CASE Dispatch
  <2>1. CASE DispatchTakes
    <3>1. EventType' BY <1>0, <2>1, Bounds DEF DispatchTakes, EventType
    <3> QED  BY <1>0, <2>1, <3>1, Frames DEF DispatchTakes, TypeOK
  <2>2. CASE HandlerReturns
    <3>1. EventType' BY <1>0, <2>2, Bounds DEF HandlerReturns, EventType
    <3> QED  BY <1>0, <2>2, <3>1, Frames DEF HandlerReturns, TypeOK
  <2>3. CASE DispatchStops
    <3>1. EventType' BY <1>0, <2>3, Bounds DEF DispatchStops, EventType
    <3> QED  BY <1>0, <2>3, <3>1, Frames DEF DispatchStops, TypeOK
  <2> QED  BY <1>9, <2>1, <2>2, <2>3 DEF Dispatch
<1>10. CASE Stopped \/ UNCHANGED vars
  BY <1>10, Frames DEF Stopped, vars, TypeOK
<1> QED
  BY <1>1, <1>2, <1>3, <1>4, <1>6, <1>7, <1>8, <1>9, <1>10 DEF Next

\* Every variable of a session keeps its type: the event queue never exceeds
\* its capacity and the join book stays a book (gateway.go:964-973, 1131-1183).
THEOREM TypeCorrect == Spec => []TypeOK
<1>1. Init => TypeOK
  BY InitType
<1>2. TypeOK /\ [Next]_vars => TypeOK'
  BY NextType
<1> QED  BY <1>1, <1>2, PTL DEF Spec

-----------------------------------------------------------------------------
(* Connections do not overlap                                              *)

\* What the teardown order secures.  manage exists only once Open spawned it;
\* it holds a connection from the dial to the end; and of the goroutines of
\* the connection the timers are gone before hbDone is awaited, the heartbeat
\* before the socket closes.
Phases ==
  /\ opener \in {"idle", "marked"} => manage = "none"
  /\ manage \in {"dial", "handshake", "adopt"} \cup Attached => dials # 0
  /\ manage \in {"waitHb", "close"} => timers = {}
  /\ manage = "close" => hbs = {}

\* The inductive invariant.
ConnInv == Phases /\ ConnectionsDoNotOverlap

\* A new client has no connection.
LEMMA ConnInit == Init => ConnInv
  BY DEF Init, ConnInv, Phases, ConnectionsDoNotOverlap, Attached

\* Only these variables matter.
LEMMA ConnFrame ==
  ConnInv /\ UNCHANGED <<opener, manage, dials, timers, hbs, sock, conn>> => ConnInv'
  BY DEF ConnInv, Phases, ConnectionsDoNotOverlap

\* Every step keeps the invariant of the teardown.
LEMMA ConnNext == TypeOK /\ ConnInv /\ [Next]_vars => ConnInv'
<1> SUFFICES ASSUME TypeOK, ConnInv, [Next]_vars PROVE ConnInv'
  OBVIOUS
<1>0. /\ opener \in {"idle", "marked", "waiting", "done"}
      /\ dials \in 0 .. MaxDials /\ MaxDials \in Nat
      /\ sock \in [Conns -> {"none", "open", "closed"}]
      /\ timers \subseteq Timers /\ hbs \subseteq Beats
  BY Bounds DEF TypeOK, OpenType, ManageType, ConnType, JoinType, BeatType
<1> USE <1>0 DEF Attached
<1>1. CASE Open
  <2>1. CASE OpenMark
    BY <2>1
    DEF OpenMark, connVars, beatVars, manageVars, joinVars, ConnInv, Phases,
        ConnectionsDoNotOverlap, Conns, Timers, Beats
  <2>2. CASE OpenSpawn
    BY <2>2
    DEF OpenSpawn, connVars, beatVars, joinVars, ConnInv, Phases,
        ConnectionsDoNotOverlap, Conns, Timers, Beats
  <2>3. CASE OpenReady
    BY <2>3
    DEF OpenReady, manageVars, joinVars, connVars, beatVars, ConnInv, Phases,
        ConnectionsDoNotOverlap, Conns, Timers, Beats
  <2>4. CASE OpenCancelled
    BY <2>4
    DEF OpenCancelled, manageVars, joinVars, connVars, beatVars, ConnInv, Phases,
        ConnectionsDoNotOverlap, Conns, Timers, Beats
  <2> QED  BY <1>1, <2>1, <2>2, <2>3, <2>4 DEF Open
<1>2. CASE CancelContext
  BY <1>2, ConnFrame DEF CancelContext, manageVars, joinVars, openVars, connVars, beatVars
<1>3. ASSUME NEW c \in Callers, CloseCall(c) PROVE ConnInv'
  <2>1. CASE CloseRead(c)
    BY <2>1, ConnFrame DEF CloseRead, manageVars, joinVars, openVars, connVars, beatVars
  <2>2. CASE CloseShut(c)
    BY <2>2
    DEF CloseShut, CloseSock, beatVars, manageVars, joinVars, openVars, ConnInv, Phases,
        ConnectionsDoNotOverlap, Conns, Timers, Beats
  <2>3. CASE \E how \in {"clean", "timeout"} : CloseReturns(c, how)
    BY <2>3, ConnFrame
    DEF CloseReturns, connVars, beatVars, manageVars, joinVars, openVars
  <2> QED  BY <1>3, <2>1, <2>2, <2>3 DEF CloseCall
<1>4. CASE ManageStep
  <2>1. CASE TopCancelled
    BY <2>1
    DEF TopCancelled, ManageReturns, connVars, beatVars, joinVars, openVars, ConnInv,
        Phases, ConnectionsDoNotOverlap, Conns, Timers, Beats
  <2>2. CASE StartDial
    BY <2>2
    DEF StartDial, beatVars, joinVars, openVars, ConnInv, Phases,
        ConnectionsDoNotOverlap, Conns, Timers, Beats
  <2>3. CASE ConnectFails
    BY <2>3
    DEF ConnectFails, beatVars, joinVars, openVars, ConnInv, Phases,
        ConnectionsDoNotOverlap, Conns, Timers, Beats
  <2>4. CASE AdoptConn
    BY <2>4
    DEF AdoptConn, beatVars, openVars, ConnInv, Phases, ConnectionsDoNotOverlap, Conns,
        Timers, Beats
  <2>5. CASE SkipJoin
    BY <2>5
    DEF SkipJoin, NextJoin, connVars, beatVars, openVars, ConnInv, Phases,
        ConnectionsDoNotOverlap, Conns, Timers, Beats
  <2>6. CASE SendJoin
    BY <2>6
    DEF SendJoin, EndRun, NextJoin, beatVars, openVars, ConnInv, Phases,
        ConnectionsDoNotOverlap, Conns, Timers, Beats
  <2>7. CASE ReadInterrupted
    BY <2>7
    DEF ReadInterrupted, EndRun, beatVars, joinVars, openVars, ConnInv, Phases,
        ConnectionsDoNotOverlap, Conns, Timers, Beats
  <2>8. CASE TimersWaited
    BY <2>8
    DEF TimersWaited, connVars, beatVars, joinVars, openVars, ConnInv, Phases,
        ConnectionsDoNotOverlap, Conns, Timers, Beats
  <2>9. CASE HbWaited
    BY <2>9
    DEF HbWaited, connVars, beatVars, joinVars, openVars, ConnInv, Phases,
        ConnectionsDoNotOverlap, Conns, Timers, Beats
  <2>10. CASE ConnClosed
    BY <2>10
    DEF ConnClosed, CloseSock, openVars, ConnInv, Phases, ConnectionsDoNotOverlap,
        Conns, Timers, Beats
  <2>11. CASE EndedCancelled
    BY <2>11
    DEF EndedCancelled, ManageReturns, connVars, beatVars, joinVars, openVars, ConnInv,
        Phases, ConnectionsDoNotOverlap, Conns, Timers, Beats
  <2>12. CASE EndedFatal
    BY <2>12
    DEF EndedFatal, ManageReturns, Emit, Fatal, connVars, beatVars, joinVars, ConnInv,
        Phases, ConnectionsDoNotOverlap, Conns, Timers, Beats
  <2>13. CASE EndedRetry
    BY <2>13
    DEF EndedRetry, Emit, Fatal, connVars, beatVars, joinVars, openVars, ConnInv,
        Phases, ConnectionsDoNotOverlap, Conns, Timers, Beats
  <2>14. CASE Wake
    BY <2>14
    DEF Wake, ManageReturns, connVars, beatVars, joinVars, openVars, ConnInv, Phases,
        ConnectionsDoNotOverlap, Conns, Timers, Beats
  <2>15. CASE Finish
    BY <2>15
    DEF Finish, connVars, beatVars, joinVars, openVars, ConnInv, Phases,
        ConnectionsDoNotOverlap, Conns, Timers, Beats
  <2> QED  BY <1>4, <2>1, <2>2, <2>3, <2>4, <2>5, <2>6, <2>7,
              <2>8, <2>9, <2>10, <2>11, <2>12, <2>13, <2>14, <2>15
         DEF ManageStep
<1>5. ASSUME NEW m, NEW s, ReadReply(m, s) PROVE ConnInv'
  <2> DEFINE t == Pending(book, m.ref)
  <2>1. manage = "read" /\ UNCHANGED <<opener, dials, sock, conn>>
    BY <1>5 DEF ReadReply, Arrives
  <2>2. CASE t = NoTopic
    BY <1>5, <2>1, <2>2, ConnFrame DEF ReadReply
  <2>3. CASE t # NoTopic /\ s = "ok"
    <3>1. JoinOk(t, m.ref)
      BY <1>5, <2>3 DEF ReadReply
    <3> QED  BY <2>1, <3>1 DEF JoinOk, ConnInv, Phases, ConnectionsDoNotOverlap
  <2>4. CASE t # NoTopic /\ s = "limited"
    <3>1. JoinLimited(t, m.ref)
      BY <1>5, <2>4 DEF ReadReply
    <3> QED  BY <2>1, <3>1 DEF JoinLimited, ConnInv, Phases, ConnectionsDoNotOverlap
  <2>5. CASE t # NoTopic /\ s \notin {"ok", "limited"}
    <3>1. JoinRefused(t, s) /\ UNCHANGED <<timers, hbs>>
      BY <1>5, <2>5 DEF ReadReply, JoinRefused
    <3> QED  BY <2>1, <3>1
           DEF JoinRefused, EndRun, ConnInv, Phases, ConnectionsDoNotOverlap
  <2> QED  BY <2>2, <2>3, <2>4, <2>5
<1>6. CASE NetworkStep
  <2>1. CASE Connected
    BY <2>1
    DEF Connected, beatVars, joinVars, openVars, ConnInv, Phases,
        ConnectionsDoNotOverlap, Conns, Timers, Beats
  <2>2. CASE Upgraded
    BY <2>2
    DEF Upgraded, connVars, beatVars, joinVars, openVars, ConnInv, Phases,
        ConnectionsDoNotOverlap, Conns, Timers, Beats
  <2>3. CASE \E err \in {"unauthorized", "forbidden", "transport"} : UpgradeRefused(err)
    BY <2>3
    DEF UpgradeRefused, CloseSock, beatVars, joinVars, openVars, ConnInv, Phases,
        ConnectionsDoNotOverlap, Conns, Timers, Beats
  <2>4. CASE ReadFails
    BY <2>4
    DEF ReadFails, EndRun, beatVars, joinVars, openVars, ConnInv, Phases,
        ConnectionsDoNotOverlap, Conns, Timers, Beats
  <2>5. CASE ReadPong
    BY <2>5, ConnFrame DEF ReadPong, connVars, manageVars, joinVars, openVars
  <2>6. CASE ReadPush
    BY <2>6, ConnFrame DEF ReadPush, connVars, beatVars, manageVars, joinVars, openVars
  <2>7. CASE ReadChannelDown
    BY <2>7
    DEF ReadChannelDown, Arrives, EndRun, beatVars, joinVars, openVars, ConnInv, Phases,
        ConnectionsDoNotOverlap, Conns, Timers, Beats
  <2>8. CASE GoSilent
    BY <2>8, ConnFrame DEF GoSilent, connVars, manageVars, joinVars, openVars
  <2>9. CASE ReadJoinReply \/ ReadAck
    BY <1>5, <2>9 DEF ReadJoinReply, ReadAck
  <2> QED  BY <1>6, <2>1, <2>2, <2>3, <2>4, <2>5, <2>6, <2>7, <2>8, <2>9 DEF NetworkStep
<1>7. ASSUME NEW g \in timers, Timer(g) PROVE ConnInv'
  <2>1. CASE TimerCancelled(g)
    BY <2>1
    DEF TimerCancelled, connVars, beatVars, manageVars, openVars, ConnInv, Phases,
        ConnectionsDoNotOverlap, Conns, Timers, Beats
  <2>2. CASE TimerTracks(g)
    <3>1. PICK h : /\ h.conn = g.conn
                   /\ timers' = (timers \ {g}) \cup {h}
      <4>1. [g EXCEPT !.ref = joinRef + 1, !.st = "write"].conn = g.conn
        BY DEF Timers
      <4> QED  BY <4>1, <2>2 DEF TimerTracks
    <3>2. UNCHANGED <<opener, manage, dials, hbs, sock, conn>> /\ timers # {}
      BY <2>2 DEF TimerTracks, beatVars, connVars, manageVars, openVars
    <3> QED  BY <3>1, <3>2 DEF ConnInv, Phases, ConnectionsDoNotOverlap
  <2>3. CASE TimerWrites(g)
    BY <2>3
    DEF TimerWrites, connVars, beatVars, manageVars, openVars, ConnInv, Phases,
        ConnectionsDoNotOverlap, Conns, Timers, Beats
  <2>4. CASE TimerWriteFails(g)
    BY <2>4
    DEF TimerWriteFails, CloseSock, beatVars, manageVars, openVars, ConnInv, Phases,
        ConnectionsDoNotOverlap, Conns, Timers, Beats
  <2> QED  BY <1>7, <2>1, <2>2, <2>3, <2>4 DEF Timer
<1>8. ASSUME NEW g \in hbs, Heartbeat(g) PROVE ConnInv'
  <2>1. CASE HbCancelled(g)
    BY <2>1
    DEF HbCancelled, connVars, manageVars, joinVars, openVars, ConnInv, Phases,
        ConnectionsDoNotOverlap, Conns, Timers, Beats
  <2>2. CASE HbBeat(g)
    BY <2>2
    DEF HbBeat, connVars, manageVars, joinVars, openVars, ConnInv, Phases,
        ConnectionsDoNotOverlap, Conns, Timers, Beats
  <2>3. CASE HbWriteFails(g)
    BY <2>3
    DEF HbWriteFails, CloseSock, manageVars, joinVars, openVars, ConnInv, Phases,
        ConnectionsDoNotOverlap, Conns, Timers, Beats
  <2>4. CASE HbPong(g)
    BY <2>4
    DEF HbPong, connVars, manageVars, joinVars, openVars, ConnInv, Phases,
        ConnectionsDoNotOverlap, Conns, Timers, Beats
  <2>5. CASE HbTimeout(g)
    BY <2>5
    DEF HbTimeout, CloseSock, manageVars, joinVars, openVars, ConnInv, Phases,
        ConnectionsDoNotOverlap, Conns, Timers, Beats
  <2> QED  BY <1>8, <2>1, <2>2, <2>3, <2>4, <2>5 DEF Heartbeat
<1>9. CASE Dispatch
  <2>1. CASE DispatchTakes
    BY <2>1, ConnFrame
    DEF DispatchTakes, manageVars, joinVars, openVars, connVars, beatVars
  <2>2. CASE HandlerReturns
    BY <2>2, ConnFrame
    DEF HandlerReturns, connVars, beatVars, manageVars, joinVars, openVars
  <2>3. CASE DispatchStops
    BY <2>3, ConnFrame
    DEF DispatchStops, connVars, beatVars, manageVars, joinVars, openVars
  <2> QED  BY <1>9, <2>1, <2>2, <2>3 DEF Dispatch
<1>10. CASE Stopped \/ UNCHANGED vars
  BY <1>10, ConnFrame
  DEF Stopped, vars, openVars, manageVars, connVars, joinVars, beatVars
<1> QED
  BY <1>1, <1>2, <1>3, <1>4, <1>6, <1>7, <1>8, <1>9, <1>10 DEF Next

\* No goroutine, socket or c.conn of a connection outlives its runOnce, for
\* every number of connections, topics and refused joins (gateway.go:651-661).
THEOREM NoOverlap == Spec => []ConnectionsDoNotOverlap
<1>1. Init => TypeOK /\ ConnInv
  BY InitType, ConnInit
<1>2. (TypeOK /\ ConnInv) /\ [Next]_vars => (TypeOK /\ ConnInv)'
  BY NextType, ConnNext
<1>3. ConnInv => ConnectionsDoNotOverlap
  BY DEF ConnInv
<1> QED  BY <1>1, <1>2, <1>3, PTL DEF Spec

-----------------------------------------------------------------------------
(* What Open and Err report                                                *)

\* Where the outcomes come from.  termErr is set where manage gives up and
\* nothing after it touches everJoined; readyCh is closed once, by the first
\* of a workspace join, that failure, or Open's own cancellation; and Open
\* returns what closed it.
OutcomeInv ==
  /\ termErr # "none" =>
       /\ manage \in {"finish", "stopped"}
       /\ readyErr \in {termErr, "nil", "ctx"}
       /\ termErr = "forbidden" => ~ everJoined
  /\ readyErr \in ConnErrors => termErr = readyErr
  /\ readyErr = "nil" => everJoined
  /\ openResult \in ConnErrors \cup {"nil"} => readyErr = openResult

\* A new client has reported nothing.
LEMMA OutcomeInit == Init => OutcomeInv
  BY DEF Init, OutcomeInv, ConnErrors

\* Only these variables matter.
LEMMA OutcomeFrame ==
  OutcomeInv /\ UNCHANGED <<openResult, readyErr, termErr, everJoined, manage>> => OutcomeInv'
  BY DEF OutcomeInv

\* Every step keeps the invariant of the outcomes.
LEMMA OutcomeNext == TypeOK /\ ConnInv /\ OutcomeInv /\ [Next]_vars => OutcomeInv'
<1> SUFFICES ASSUME TypeOK, ConnInv, OutcomeInv, [Next]_vars PROVE OutcomeInv'
  OBVIOUS
<1>0. /\ readyErr \in ConnErrors \cup {"none", "nil", "ctx"}
      /\ openResult \in ConnErrors \cup {"none", "nil", "ctx"}
      /\ runErr \in ConnErrors \cup {"none"}
      /\ everJoined \in BOOLEAN
      /\ opener = "marked" => manage = "none"
  BY DEF TypeOK, OpenType, ManageType, ConnInv, Phases
<1> USE <1>0 DEF ConnErrors, Attached
<1>1. CASE Open
  <2>1. CASE OpenMark
    BY <2>1, OutcomeFrame DEF OpenMark, manageVars
  <2>2. CASE OpenSpawn
    BY <2>2 DEF OpenSpawn, OutcomeInv
  <2>3. CASE OpenReady
    BY <2>3 DEF OpenReady, manageVars, OutcomeInv
  <2>4. CASE OpenCancelled
    BY <2>4 DEF OpenCancelled, manageVars, OutcomeInv
  <2> QED  BY <1>1, <2>1, <2>2, <2>3, <2>4 DEF Open
<1>2. CASE CancelContext
  BY <1>2, OutcomeFrame DEF CancelContext, manageVars, openVars
<1>3. ASSUME NEW c \in Callers, CloseCall(c) PROVE OutcomeInv'
  <2>1. CASE CloseRead(c)
    BY <2>1, OutcomeFrame DEF CloseRead, manageVars, openVars
  <2>2. CASE CloseShut(c)
    BY <2>2, OutcomeFrame DEF CloseShut, manageVars, openVars
  <2>3. CASE \E how \in {"clean", "timeout"} : CloseReturns(c, how)
    BY <2>3, OutcomeFrame DEF CloseReturns, manageVars, openVars
  <2> QED  BY <1>3, <2>1, <2>2, <2>3 DEF CloseCall
<1>4. CASE ManageStep
  <2>1. CASE TopCancelled
    BY <2>1 DEF TopCancelled, ManageReturns, openVars, OutcomeInv
  <2>2. CASE StartDial
    BY <2>2 DEF StartDial, openVars, OutcomeInv
  <2>3. CASE ConnectFails
    BY <2>3 DEF ConnectFails, openVars, OutcomeInv
  <2>4. CASE AdoptConn
    BY <2>4 DEF AdoptConn, openVars, OutcomeInv
  <2>5. CASE SkipJoin
    BY <2>5 DEF SkipJoin, NextJoin, openVars, OutcomeInv
  <2>6. CASE SendJoin
    BY <2>6 DEF SendJoin, EndRun, NextJoin, openVars, OutcomeInv
  <2>7. CASE ReadInterrupted
    BY <2>7 DEF ReadInterrupted, EndRun, openVars, OutcomeInv
  <2>8. CASE TimersWaited
    BY <2>8 DEF TimersWaited, openVars, OutcomeInv
  <2>9. CASE HbWaited
    BY <2>9 DEF HbWaited, openVars, OutcomeInv
  <2>10. CASE ConnClosed
    BY <2>10 DEF ConnClosed, CloseSock, openVars, OutcomeInv
  <2>11. CASE EndedCancelled
    BY <2>11 DEF EndedCancelled, ManageReturns, openVars, OutcomeInv
  <2>12. CASE EndedFatal
    BY <2>12 DEF EndedFatal, ManageReturns, Emit, Fatal, OutcomeInv
  <2>13. CASE EndedRetry
    BY <2>13 DEF EndedRetry, Emit, Fatal, openVars, OutcomeInv
  <2>14. CASE Wake
    BY <2>14 DEF Wake, ManageReturns, openVars, OutcomeInv
  <2>15. CASE Finish
    BY <2>15 DEF Finish, openVars, OutcomeInv
  <2> QED  BY <1>4, <2>1, <2>2, <2>3, <2>4, <2>5, <2>6, <2>7,
              <2>8, <2>9, <2>10, <2>11, <2>12, <2>13, <2>14, <2>15
         DEF ManageStep
<1>5. ASSUME NEW m, NEW s, ReadReply(m, s) PROVE OutcomeInv'
  <2> DEFINE t == Pending(book, m.ref)
  <2>1. manage = "read" /\ UNCHANGED <<openResult, termErr>>
    BY <1>5 DEF ReadReply, Arrives
  <2>2. CASE t # NoTopic /\ s = "ok"
    <3>1. JoinOk(t, m.ref)
      BY <1>5, <2>2 DEF ReadReply
    <3> QED  BY <2>1, <3>1 DEF JoinOk, OutcomeInv
  <2>3. CASE ~ (t # NoTopic /\ s = "ok")
    <3>1. UNCHANGED <<readyErr, everJoined>>
      BY <1>5, <2>3 DEF ReadReply, JoinLimited, JoinRefused
    <3> QED  BY <2>1, <3>1 DEF OutcomeInv
  <2> QED  BY <2>2, <2>3
<1>6. CASE NetworkStep
  <2>1. CASE Connected
    BY <2>1 DEF Connected, openVars, OutcomeInv
  <2>2. CASE Upgraded
    BY <2>2 DEF Upgraded, openVars, OutcomeInv
  <2>3. CASE \E err \in {"unauthorized", "forbidden", "transport"} : UpgradeRefused(err)
    BY <2>3 DEF UpgradeRefused, CloseSock, openVars, OutcomeInv
  <2>4. CASE ReadFails
    BY <2>4 DEF ReadFails, EndRun, openVars, OutcomeInv
  <2>5. CASE ReadPong
    BY <2>5, OutcomeFrame DEF ReadPong, manageVars, openVars
  <2>6. CASE ReadPush
    BY <2>6, OutcomeFrame DEF ReadPush, manageVars, openVars
  <2>7. CASE ReadChannelDown
    BY <2>7 DEF ReadChannelDown, EndRun, Arrives, openVars, OutcomeInv
  <2>8. CASE GoSilent
    BY <2>8, OutcomeFrame DEF GoSilent, manageVars, openVars
  <2>9. CASE ReadJoinReply \/ ReadAck
    BY <1>5, <2>9 DEF ReadJoinReply, ReadAck
  <2> QED  BY <1>6, <2>1, <2>2, <2>3, <2>4, <2>5, <2>6, <2>7, <2>8, <2>9 DEF NetworkStep
<1>7. ASSUME NEW g \in timers, Timer(g) PROVE OutcomeInv'
  <2>1. CASE TimerCancelled(g)
    BY <2>1, OutcomeFrame DEF TimerCancelled, manageVars, openVars
  <2>2. CASE TimerTracks(g)
    BY <2>2, OutcomeFrame DEF TimerTracks, manageVars, openVars
  <2>3. CASE TimerWrites(g)
    BY <2>3, OutcomeFrame DEF TimerWrites, manageVars, openVars
  <2>4. CASE TimerWriteFails(g)
    BY <2>4, OutcomeFrame DEF TimerWriteFails, manageVars, openVars
  <2> QED  BY <1>7, <2>1, <2>2, <2>3, <2>4 DEF Timer
<1>8. ASSUME NEW g \in hbs, Heartbeat(g) PROVE OutcomeInv'
  <2>1. CASE HbCancelled(g)
    BY <2>1, OutcomeFrame DEF HbCancelled, manageVars, openVars
  <2>2. CASE HbBeat(g)
    BY <2>2, OutcomeFrame DEF HbBeat, manageVars, openVars
  <2>3. CASE HbWriteFails(g)
    BY <2>3, OutcomeFrame DEF HbWriteFails, manageVars, openVars
  <2>4. CASE HbPong(g)
    BY <2>4, OutcomeFrame DEF HbPong, manageVars, openVars
  <2>5. CASE HbTimeout(g)
    BY <2>5, OutcomeFrame DEF HbTimeout, manageVars, openVars
  <2> QED  BY <1>8, <2>1, <2>2, <2>3, <2>4, <2>5 DEF Heartbeat
<1>9. CASE Dispatch
  <2>1. CASE DispatchTakes
    BY <2>1, OutcomeFrame DEF DispatchTakes, manageVars, openVars
  <2>2. CASE HandlerReturns
    BY <2>2, OutcomeFrame DEF HandlerReturns, manageVars, openVars
  <2>3. CASE DispatchStops
    BY <2>3, OutcomeFrame DEF DispatchStops, manageVars, openVars
  <2> QED  BY <1>9, <2>1, <2>2, <2>3 DEF Dispatch
<1>10. CASE Stopped \/ UNCHANGED vars
  BY <1>10, OutcomeFrame DEF Stopped, vars, openVars, manageVars
<1> QED
  BY <1>1, <1>2, <1>3, <1>4, <1>6, <1>7, <1>8, <1>9, <1>10 DEF Next

\* Open, Err and Done never contradict each other, for every interleaving of
\* Open's cancellation with manage's failure (gateway.go:450-457, 574-582).
THEOREM OutcomesCorrect == Spec => []OutcomesAgree
<1>1. Init => TypeOK /\ ConnInv /\ OutcomeInv
  BY InitType, ConnInit, OutcomeInit
<1>2. (TypeOK /\ ConnInv /\ OutcomeInv) /\ [Next]_vars
        => (TypeOK /\ ConnInv /\ OutcomeInv)'
  BY NextType, ConnNext, OutcomeNext
<1>3. OutcomeInv => OutcomesAgree
  BY DEF OutcomeInv, OutcomesAgree, ConnErrors
<1> QED  BY <1>1, <1>2, <1>3, PTL DEF Spec

-----------------------------------------------------------------------------
(* What a clean Close leaves                                               *)

\* The wait group counts both goroutines from Open's spawn on, and neither
\* comes back once it has stopped.
CloseInv ==
  /\ opener \in {"waiting", "done"} => manage # "none" /\ dispatch # "none"
  /\ \A c \in Callers : closeSaw[c] \in {"waiting", "done"} =>
       /\ opener \in {"waiting", "done"}
       /\ closer[c] = "clean" => manage = "stopped" /\ dispatch = "stopped"

\* A new client has not been closed.
LEMMA CloseInit == Init => CloseInv
  BY DEF Init, CloseInv

\* Only these variables matter.
LEMMA CloseFrame ==
  CloseInv /\ UNCHANGED <<opener, manage, dispatch, closer, closeSaw>> => CloseInv'
  BY DEF CloseInv

\* Every step keeps the invariant of Close.
LEMMA CloseNext == TypeOK /\ CloseInv /\ [Next]_vars => CloseInv'
<1> SUFFICES ASSUME TypeOK, CloseInv, [Next]_vars PROVE CloseInv'
  OBVIOUS
<1>0. /\ opener \in {"idle", "marked", "waiting", "done"}
      /\ closer \in [Callers -> {"idle", "read", "wait", "clean", "timeout"}]
      /\ closeSaw \in [Callers -> {"idle", "marked", "waiting", "done"}]
  BY DEF TypeOK, OpenType, CloseType
<1> USE <1>0 DEF Attached
<1>1. CASE Open
  <2>1. CASE OpenMark
    BY <2>1 DEF OpenMark, closeVars, eventVars, manageVars, CloseInv
  <2>2. CASE OpenSpawn
    BY <2>2 DEF OpenSpawn, closeVars, CloseInv
  <2>3. CASE OpenReady
    BY <2>3 DEF OpenReady, closeVars, eventVars, manageVars, CloseInv
  <2>4. CASE OpenCancelled
    BY <2>4 DEF OpenCancelled, closeVars, eventVars, manageVars, CloseInv
  <2> QED  BY <1>1, <2>1, <2>2, <2>3, <2>4 DEF Open
<1>2. CASE CancelContext
  BY <1>2, CloseFrame DEF CancelContext, closeVars, eventVars, manageVars, openVars
<1>3. ASSUME NEW c \in Callers, CloseCall(c) PROVE CloseInv'
  <2>1. CASE CloseRead(c)
    BY <2>1 DEF CloseRead, eventVars, manageVars, openVars, CloseInv
  <2>2. CASE CloseShut(c)
    BY <2>2 DEF CloseShut, CloseSock, eventVars, manageVars, openVars, CloseInv
  <2>3. CASE \E how \in {"clean", "timeout"} : CloseReturns(c, how)
    <3>1. PICK how \in {"clean", "timeout"} : CloseReturns(c, how)
      BY <2>3
    <3> QED  BY <3>1
      DEF CloseReturns, WaitGroupEmpty, openVars, manageVars, eventVars, CloseInv
  <2> QED  BY <1>3, <2>1, <2>2, <2>3 DEF CloseCall
<1>4. CASE ManageStep
  <2>1. CASE TopCancelled
    BY <2>1 DEF TopCancelled, ManageReturns, closeVars, eventVars, openVars, CloseInv
  <2>2. CASE StartDial
    BY <2>2 DEF StartDial, closeVars, eventVars, openVars, CloseInv
  <2>3. CASE ConnectFails
    BY <2>3 DEF ConnectFails, closeVars, eventVars, openVars, CloseInv
  <2>4. CASE AdoptConn
    BY <2>4 DEF AdoptConn, closeVars, eventVars, openVars, CloseInv
  <2>5. CASE SkipJoin
    BY <2>5 DEF SkipJoin, NextJoin, closeVars, eventVars, openVars, CloseInv
  <2>6. CASE SendJoin
    BY <2>6 DEF SendJoin, EndRun, NextJoin, closeVars, eventVars, openVars, CloseInv
  <2>7. CASE ReadInterrupted
    BY <2>7 DEF ReadInterrupted, EndRun, closeVars, eventVars, openVars, CloseInv
  <2>8. CASE TimersWaited
    BY <2>8 DEF TimersWaited, closeVars, eventVars, openVars, CloseInv
  <2>9. CASE HbWaited
    BY <2>9 DEF HbWaited, closeVars, eventVars, openVars, CloseInv
  <2>10. CASE ConnClosed
    BY <2>10 DEF ConnClosed, CloseSock, closeVars, eventVars, openVars, CloseInv
  <2>11. CASE EndedCancelled
    BY <2>11 DEF EndedCancelled, ManageReturns, closeVars, eventVars, openVars, CloseInv
  <2>12. CASE EndedFatal
    BY <2>12 DEF EndedFatal, ManageReturns, Emit, Fatal, closeVars, CloseInv
  <2>13. CASE EndedRetry
    BY <2>13 DEF EndedRetry, Emit, Fatal, closeVars, openVars, CloseInv
  <2>14. CASE Wake
    BY <2>14 DEF Wake, ManageReturns, closeVars, eventVars, openVars, CloseInv
  <2>15. CASE Finish
    BY <2>15 DEF Finish, closeVars, eventVars, openVars, CloseInv
  <2> QED  BY <1>4, <2>1, <2>2, <2>3, <2>4, <2>5, <2>6, <2>7,
              <2>8, <2>9, <2>10, <2>11, <2>12, <2>13, <2>14, <2>15
         DEF ManageStep
<1>5. ASSUME NEW m, NEW s, ReadReply(m, s) PROVE CloseInv'
  <2>1. manage = "read" /\ manage' \in {"read", "waitTimers"}
    BY <1>5 DEF ReadReply, Arrives, JoinOk, JoinLimited, JoinRefused, EndRun
  <2>2. UNCHANGED <<opener, dispatch, closer, closeSaw>>
    BY <1>5 DEF ReadReply, closeVars
  <2> QED  BY <2>1, <2>2 DEF CloseInv
<1>6. CASE NetworkStep
  <2>1. CASE Connected
    BY <2>1 DEF Connected, closeVars, eventVars, openVars, CloseInv
  <2>2. CASE Upgraded
    BY <2>2 DEF Upgraded, closeVars, eventVars, openVars, CloseInv
  <2>3. CASE \E err \in {"unauthorized", "forbidden", "transport"} : UpgradeRefused(err)
    BY <2>3 DEF UpgradeRefused, CloseSock, closeVars, eventVars, openVars, CloseInv
  <2>4. CASE ReadFails
    BY <2>4 DEF ReadFails, EndRun, closeVars, eventVars, openVars, CloseInv
  <2>5. CASE ReadPong
    BY <2>5, CloseFrame DEF ReadPong, closeVars, eventVars, manageVars, openVars
  <2>6. CASE ReadPush
    BY <2>6, CloseFrame DEF ReadPush, closeVars, manageVars, openVars
  <2>7. CASE ReadChannelDown
    BY <2>7 DEF ReadChannelDown, EndRun, Arrives, closeVars, eventVars, openVars, CloseInv
  <2>8. CASE GoSilent
    BY <2>8, CloseFrame DEF GoSilent, closeVars, eventVars, manageVars, openVars
  <2>9. CASE ReadJoinReply \/ ReadAck
    BY <1>5, <2>9 DEF ReadJoinReply, ReadAck
  <2> QED  BY <1>6, <2>1, <2>2, <2>3, <2>4, <2>5, <2>6, <2>7, <2>8, <2>9 DEF NetworkStep
<1>7. ASSUME NEW g \in timers, Timer(g) PROVE CloseInv'
  <2>1. CASE TimerCancelled(g)
    BY <2>1, CloseFrame DEF TimerCancelled, closeVars, eventVars, manageVars, openVars
  <2>2. CASE TimerTracks(g)
    BY <2>2, CloseFrame DEF TimerTracks, closeVars, eventVars, manageVars, openVars
  <2>3. CASE TimerWrites(g)
    BY <2>3, CloseFrame DEF TimerWrites, closeVars, eventVars, manageVars, openVars
  <2>4. CASE TimerWriteFails(g)
    BY <2>4, CloseFrame DEF TimerWriteFails, closeVars, eventVars, manageVars, openVars
  <2> QED  BY <1>7, <2>1, <2>2, <2>3, <2>4 DEF Timer
<1>8. ASSUME NEW g \in hbs, Heartbeat(g) PROVE CloseInv'
  <2>1. CASE HbCancelled(g)
    BY <2>1, CloseFrame DEF HbCancelled, closeVars, eventVars, manageVars, openVars
  <2>2. CASE HbBeat(g)
    BY <2>2, CloseFrame DEF HbBeat, closeVars, eventVars, manageVars, openVars
  <2>3. CASE HbWriteFails(g)
    BY <2>3, CloseFrame DEF HbWriteFails, closeVars, eventVars, manageVars, openVars
  <2>4. CASE HbPong(g)
    BY <2>4, CloseFrame DEF HbPong, closeVars, eventVars, manageVars, openVars
  <2>5. CASE HbTimeout(g)
    BY <2>5, CloseFrame DEF HbTimeout, closeVars, eventVars, manageVars, openVars
  <2> QED  BY <1>8, <2>1, <2>2, <2>3, <2>4, <2>5 DEF Heartbeat
<1>9. CASE Dispatch
  <2>1. CASE DispatchTakes
    BY <2>1 DEF DispatchTakes, closeVars, manageVars, openVars, CloseInv
  <2>2. CASE HandlerReturns
    BY <2>2 DEF HandlerReturns, closeVars, manageVars, openVars, CloseInv
  <2>3. CASE DispatchStops
    BY <2>3 DEF DispatchStops, closeVars, manageVars, openVars, CloseInv
  <2> QED  BY <1>9, <2>1, <2>2, <2>3 DEF Dispatch
<1>10. CASE Stopped \/ UNCHANGED vars
  BY <1>10, CloseFrame DEF Stopped, vars, openVars, manageVars, eventVars, closeVars
<1> QED
  BY <1>1, <1>2, <1>3, <1>4, <1>6, <1>7, <1>8, <1>9, <1>10 DEF Next

\* A Close whose wait ended cleanly, called on a session Open had started,
\* leaves no goroutine and no open socket (gateway.go:462-490).
THEOREM CleanCloseCorrect == Spec => []CleanCloseQuiesces
<1>1. Init => TypeOK /\ ConnInv /\ CloseInv
  BY InitType, ConnInit, CloseInit
<1>2. (TypeOK /\ ConnInv /\ CloseInv) /\ [Next]_vars => (TypeOK /\ ConnInv /\ CloseInv)'
  BY NextType, ConnNext, CloseNext
<1>3. ConnInv /\ CloseInv => CleanCloseQuiesces
  BY 
  DEF ConnInv, ConnectionsDoNotOverlap, CloseInv, CleanCloseQuiesces, DoneClosed,
      Attached
<1> QED  BY <1>1, <1>2, <1>3, PTL DEF Spec
=============================================================================
