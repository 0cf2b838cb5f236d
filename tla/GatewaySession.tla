--------------------------- MODULE GatewaySession ---------------------------
(***************************************************************************)
(* gateway/gateway.go: the life of a session.  The goroutines are          *)
(*                                                                         *)
(*   Open, Close      the caller's; Close also from inside a handler       *)
(*   manage           dial, join, read until the connection ends, retry;   *)
(*                    runOnce and its read loop run on this goroutine      *)
(*   rejoin timers    one per rate-limited join, owned by the connection   *)
(*   heartbeatLoop    one per joined connection                            *)
(*   dispatchLoop     hands queued events to the handlers                  *)
(*                                                                         *)
(* Time is abstract: a sleep ends whenever it likes, a watchdog may fire   *)
(* whenever a beat is unanswered.  Event contents and sequence numbers are *)
(* in GatewayStream.  The server and the network choose freely what the    *)
(* read loop reads next; they answer each join at most once, and may       *)
(* acknowledge (phx_reply) a channel that is already open.                 *)
(***************************************************************************)
EXTENDS JoinBook, Sequences, FiniteSets

CONSTANTS Primary,      \* OrgTopic(c.orgID)
          ExtraTopics,  \* c.topics: what WithTopics was given, a sequence
          MaxDials,     \* bound on connections dialed
          BufferCap,    \* capacity of c.events
          Callers,      \* who calls Close, each once
          HalfOpen      \* the connections the network may swallow

ASSUME SessionAssumption ==
  /\ Primary \in Topics
  /\ ExtraTopics \in Seq(Topics)
  /\ MaxDials \in Nat
  /\ BufferCap \in Nat \ {0}
  /\ Callers \subseteq {"user", "handler"}
  /\ HalfOpen \subseteq 1 .. MaxDials

\* What ends a connection: a handshake answered 401 or 403, a join refused for
\* good (JoinError.Permanent) or for now, and everything else.
ConnErrors == {"unauthorized", "forbidden", "denied", "refused", "transport"}

\* Where manage stands.  Attached: inside runOnce with a socket set (c.conn).
Attached == {"join", "read", "waitTimers", "waitHb", "close"}
Manage == {"none", "top", "dial", "handshake", "adopt", "ended", "sleep",
           "finish", "stopped"} \cup Attached

Conns == 1 .. MaxDials

VARIABLES
  opener,     \* Open: idle, marked (running set), waiting, done
  openResult, \* what Open returned
  cancelled,  \* sctx is done: the caller's ctx, Close, or Open giving up
  readyErr,   \* readyCh closed with this; "none" while it is open
  termErr,    \* c.termErr (manage's local until finish)
  everJoined, \* c.everJoined
  manage,     \* manage's position
  runErr,     \* the error runOnce returned or is returning
  dials,      \* connections dialed; the last one is the current one
  sock,       \* state of each connection's socket
  conn,       \* c.conn, 0 when nil
  connDone,   \* runOnce's connCtx was cancelled by its own defer
  joinAt,     \* loop index of the first joins: 0 the workspace, i ExtraTopics[i]
  joinRef,    \* c.joinRef
  book,       \* the connection's joinBook
  unanswered, \* joins on the wire the server has not replied to
  timers,     \* rejoin goroutines
  hbs,        \* heartbeat goroutines
  pong,       \* the pong channel holds a token
  beatOut,    \* a heartbeat the server has not answered
  silent,     \* the connection is half-open: nothing arrives on it any more
  dispatch,   \* dispatchLoop's position
  queued,     \* events in c.events
  closer,     \* each Close call's position
  closeConn,  \* the conn it read under the lock
  closeSaw    \* where Open was when it did

openVars   == <<opener, openResult, readyErr>>
manageVars == <<manage, runErr, termErr, everJoined, dials>>
connVars   == <<sock, conn, connDone>>
joinVars   == <<joinAt, joinRef, book, unanswered, timers>>
beatVars   == <<hbs, pong, beatOut, silent>>
eventVars  == <<dispatch, queued>>
closeVars  == <<closer, closeConn, closeSaw>>
vars == <<openVars, cancelled, manageVars, connVars, joinVars, beatVars,
          eventVars, closeVars>>

Running == opener # "idle"
ConnCtxDone == cancelled \/ connDone
SockOpen == dials > 0 /\ sock[dials] = "open"
DoneClosed == manage = "stopped"
\* Mutant: only manage is counted in the wait group.
WaitGroupForgetsDispatch == manage \in {"none", "stopped"}

WaitGroupEmpty == manage \in {"none", "stopped"} /\ dispatch \in {"none", "stopped"}

\* Mutant: a queue without a bound.
EmitAlways == queued' = queued + 1

\* emit and emitLifecycle: queue if there is room, else drop; never block.
Emit == queued' = IF queued < BufferCap THEN queued + 1 ELSE queued

CloseSock(d) == sock' = [sock EXCEPT ![d] = "closed"]

Init ==
  /\ opener = "idle" /\ openResult = "none" /\ readyErr = "none"
  /\ cancelled = FALSE
  /\ manage = "none" /\ runErr = "none" /\ termErr = "none"
  /\ everJoined = FALSE /\ dials = 0
  /\ sock = [d \in Conns |-> "none"] /\ conn = 0 /\ connDone = FALSE
  /\ joinAt = 0 /\ joinRef = 0 /\ book = NewJoinBook
  /\ unanswered = {} /\ timers = {}
  /\ hbs = {} /\ pong = FALSE /\ beatOut = FALSE /\ silent = FALSE
  /\ dispatch = "none" /\ queued = 0
  /\ closer = [c \in Callers |-> "idle"]
  /\ closeConn = [c \in Callers |-> 0]
  /\ closeSaw = [c \in Callers |-> "idle"]

-----------------------------------------------------------------------------
(* Open, the caller's context, and Close                                   *)

OpenMark ==
  /\ opener = "idle"
  /\ opener' = "marked"
  /\ UNCHANGED <<openResult, readyErr, cancelled, manageVars, connVars,
                 joinVars, beatVars, eventVars, closeVars>>

OpenSpawn ==
  /\ opener = "marked"
  /\ opener' = "waiting" /\ manage' = "top" /\ dispatch' = "idle"
  /\ UNCHANGED <<openResult, readyErr, cancelled, runErr, termErr, everJoined,
                 dials, connVars, joinVars, beatVars, queued, closeVars>>

\* The select's first case: readyCh closed, with or without an error.
OpenReady ==
  /\ opener = "waiting" /\ readyErr # "none"
  /\ opener' = "done" /\ openResult' = readyErr
  /\ cancelled' = IF readyErr # "nil" THEN TRUE ELSE cancelled
  /\ UNCHANGED <<readyErr, manageVars, connVars, joinVars, beatVars,
                 eventVars, closeVars>>

\* The second: sctx done; readyOnce keeps whatever manage signalled before.
OpenCancelled ==
  /\ opener = "waiting" /\ cancelled
  /\ opener' = "done" /\ openResult' = "ctx"
  /\ readyErr' = IF readyErr = "none" THEN "ctx" ELSE readyErr
  /\ UNCHANGED <<cancelled, manageVars, connVars, joinVars, beatVars,
                 eventVars, closeVars>>

CancelContext ==
  /\ ~ cancelled
  /\ cancelled' = TRUE
  /\ UNCHANGED <<openVars, manageVars, connVars, joinVars, beatVars,
                 eventVars, closeVars>>

\* Close reads c.cancel and c.conn in one critical section.
CloseRead(c) ==
  /\ closer[c] = "idle"
  /\ c = "handler" => dispatch = "fire"
  /\ closer' = [closer EXCEPT ![c] = "read"]
  /\ closeConn' = [closeConn EXCEPT ![c] = conn]
  /\ closeSaw' = [closeSaw EXCEPT ![c] = opener]
  /\ UNCHANGED <<openVars, cancelled, manageVars, connVars, joinVars,
                 beatVars, eventVars>>

CloseShut(c) ==
  /\ closer[c] = "read"
  /\ closer' = [closer EXCEPT ![c] = "wait"]
  /\ cancelled' = IF closeSaw[c] # "idle" THEN TRUE ELSE cancelled
  /\ IF closeConn[c] # 0 THEN CloseSock(closeConn[c]) ELSE UNCHANGED sock
  /\ UNCHANGED <<openVars, manageVars, conn, connDone, joinVars, beatVars,
                 eventVars, closeConn, closeSaw>>

\* Mutant: Close waits without a limit.
CloseWaitsForever(c, how) ==
  /\ closer[c] = "wait" /\ how = "clean" /\ WaitGroupEmpty
  /\ closer' = [closer EXCEPT ![c] = how]
  /\ closeConn' = [closeConn EXCEPT ![c] = 0]
  /\ UNCHANGED <<openVars, cancelled, manageVars, connVars, joinVars,
                 beatVars, eventVars, closeSaw>>

\* wg.Wait came back, or the five seconds ran out first.
CloseReturns(c, how) ==
  /\ closer[c] = "wait"
  /\ how = "clean" => WaitGroupEmpty
  /\ closer' = [closer EXCEPT ![c] = how]
  /\ closeConn' = [closeConn EXCEPT ![c] = 0]
  /\ UNCHANGED <<openVars, cancelled, manageVars, connVars, joinVars,
                 beatVars, eventVars, closeSaw>>

-----------------------------------------------------------------------------
(* manage, up to a connected socket                                        *)

ManageReturns(err) == manage' = "finish" /\ termErr' = err /\ runErr' = "none"

\* ctx.Err at the head of the loop; the sleep between dials ends here too.
TopCancelled ==
  /\ manage = "top" /\ cancelled
  /\ ManageReturns("none")
  /\ UNCHANGED <<openVars, cancelled, everJoined, dials, connVars,
                 joinVars, beatVars, eventVars, closeVars>>

\* The joins of one connection, to keep joinRef within its bound.
JoinsPerConn == 1 + Cardinality({i \in DOMAIN ExtraTopics : ExtraTopics[i] # Primary})

StartDial ==
  /\ manage = "top" /\ ~ cancelled
  /\ dials < MaxDials /\ joinRef + JoinsPerConn <= MaxRef
  /\ manage' = "dial" /\ dials' = dials + 1
  /\ runErr' = "none" /\ connDone' = FALSE
  /\ UNCHANGED <<openVars, cancelled, termErr, everJoined, sock, conn,
                 joinVars, beatVars, eventVars, closeVars>>

\* TCP connect and TLS handshake, both under ctx.
Connected ==
  /\ manage = "dial"
  /\ manage' = "handshake"
  /\ sock' = [sock EXCEPT ![dials] = "open"]
  /\ UNCHANGED <<openVars, cancelled, runErr, termErr, everJoined, dials,
                 conn, connDone, joinVars, beatVars, eventVars, closeVars>>

ConnectFails ==
  /\ manage = "dial"
  /\ manage' = "ended" /\ runErr' = "transport" /\ connDone' = TRUE
  /\ UNCHANGED <<openVars, cancelled, termErr, everJoined, dials, sock, conn,
                 joinVars, beatVars, eventVars, closeVars>>

\* The upgrade answered 101.  Dial returns; c.conn is not set yet.
Upgraded ==
  /\ manage = "handshake"
  /\ manage' = "adopt"
  /\ UNCHANGED <<openVars, cancelled, runErr, termErr, everJoined, dials,
                 connVars, joinVars, beatVars, eventVars, closeVars>>

\* It answered 401, 403 or something else, or broke: Dial closes the socket.
UpgradeRefused(err) ==
  /\ manage = "handshake"
  /\ manage' = "ended" /\ runErr' = err
  /\ CloseSock(dials) /\ connDone' = TRUE
  /\ UNCHANGED <<openVars, cancelled, termErr, everJoined, dials, conn,
                 joinVars, beatVars, eventVars, closeVars>>

AdoptConn ==
  /\ manage = "adopt"
  /\ manage' = "join" /\ conn' = dials
  /\ joinAt' = 0
  /\ UNCHANGED <<openVars, cancelled, runErr, termErr, everJoined, dials,
                 sock, connDone, joinRef, book, unanswered, timers, beatVars,
                 eventVars, closeVars>>

-----------------------------------------------------------------------------
(* runOnce: joins, the read loop, teardown                                 *)

\* runOnce returns err: its deferred function starts by cancelling connCtx.
EndRun(err) ==
  manage' = "waitTimers" /\ runErr' = err /\ connDone' = TRUE

\* Refs the sleeping rejoin goroutines will use.
RefsPromised == Cardinality({g \in timers : g.st = "sleep"})

\* Mutant: the workspace is not skipped among the extra topics.
SkippedNever(i) == FALSE

\* The workspace was joined first; the loop over c.topics leaves it out.
Skipped(i) == i > 0 /\ ExtraTopics[i] = Primary

JoinTopic(i) == IF i = 0 THEN Primary ELSE ExtraTopics[i]

\* The next topic, or after the last one the read loop.
NextJoin ==
  IF joinAt < Len(ExtraTopics)
  THEN joinAt' = joinAt + 1 /\ manage' = "join"
  ELSE joinAt' = joinAt /\ manage' = "read"

SkipJoin ==
  /\ manage = "join" /\ Skipped(joinAt)
  /\ NextJoin
  /\ UNCHANGED <<openVars, cancelled, runErr, termErr, everJoined, dials,
                 connVars, joinRef, book, unanswered, timers, beatVars,
                 eventVars, closeVars>>

\* One sendJoin before the read loop: a new ref, tracked in the book, and a
\* write that succeeds or ends the connection.
SendJoin ==
  /\ manage = "join" /\ ~ Skipped(joinAt) /\ joinRef < MaxRef
  /\ joinRef' = joinRef + 1
  /\ book' = Track(book, JoinTopic(joinAt), joinRef + 1)
  /\ \/ /\ SockOpen
        /\ unanswered' = unanswered \cup
                           {[ref |-> joinRef + 1, topic |-> JoinTopic(joinAt)]}
        /\ NextJoin
        /\ UNCHANGED <<runErr, connDone>>
     \/ /\ EndRun("transport")
        /\ UNCHANGED <<unanswered, joinAt>>
  /\ UNCHANGED <<openVars, cancelled, termErr, everJoined, dials, sock, conn,
                 timers, beatVars, eventVars, closeVars>>

\* ReadMessage fails: the network, or this side (ctx done, socket closed).
ReadFails ==
  /\ manage = "read" /\ ~ silent
  /\ EndRun("transport")
  /\ UNCHANGED <<openVars, cancelled, termErr, everJoined, dials, sock, conn,
                 joinVars, beatVars, eventVars, closeVars>>

\* Mutant: a blocked read does not notice the context.
ReadIgnoresContext ==
  /\ manage = "read" /\ ~ SockOpen
  /\ EndRun("transport")
  /\ UNCHANGED <<openVars, cancelled, termErr, everJoined, dials, sock, conn,
                 joinVars, beatVars, eventVars, closeVars>>

ReadInterrupted ==
  /\ manage = "read" /\ (ConnCtxDone \/ ~ SockOpen)
  /\ EndRun("transport")
  /\ UNCHANGED <<openVars, cancelled, termErr, everJoined, dials, sock, conn,
                 joinVars, beatVars, eventVars, closeVars>>

Arrives == manage = "read" /\ SockOpen /\ ~ silent

ReadPong ==
  /\ Arrives /\ beatOut
  /\ beatOut' = FALSE /\ pong' = TRUE
  /\ UNCHANGED <<openVars, cancelled, manageVars, connVars, joinVars, hbs,
                 silent, eventVars, closeVars>>

\* A workspace or topic event: handleFrame queues it.
ReadPush ==
  /\ Arrives
  /\ Emit
  /\ UNCHANGED <<openVars, cancelled, manageVars, connVars, joinVars,
                 beatVars, dispatch, closeVars>>

\* phx_error or phx_close; on a topic other than the workspace it is logged.
ReadChannelDown ==
  /\ Arrives
  /\ EndRun("transport")
  /\ UNCHANGED <<openVars, cancelled, termErr, everJoined, dials, sock, conn,
                 joinVars, beatVars, eventVars, closeVars>>

\* A join accepted.  On the workspace channel the session is ready: readyCh
\* closes, READY is queued and the heartbeat goroutine starts.
JoinOk(t, ref) ==
  /\ book' = MarkJoined(book, t)
  /\ IF t = Primary
     THEN /\ everJoined' = TRUE
          /\ readyErr' = IF readyErr = "none" THEN "nil" ELSE readyErr
          /\ hbs' = hbs \cup {[ref |-> ref, conn |-> dials, st |-> "sleep"]}
          /\ Emit
     ELSE UNCHANGED <<everJoined, readyErr, hbs, queued>>
  /\ UNCHANGED <<manage, runErr, connDone, timers>>

\* handleRefusal of a rate-limited join: a goroutine waits and joins again.
JoinLimited(t, ref) ==
  /\ joinRef + RefsPromised < MaxRef
  /\ timers' = timers \cup
       {[ref |-> ref, topic |-> t, conn |-> dials, st |-> "sleep"]}
  /\ Emit
  /\ UNCHANGED <<book, everJoined, readyErr, hbs, manage, runErr, connDone>>

\* Any other refusal ends the connection on the workspace channel; elsewhere
\* it is reported and left alone.
JoinRefused(t, err) ==
  /\ IF t = Primary
     THEN EndRun(err) /\ UNCHANGED queued
     ELSE Emit /\ UNCHANGED <<manage, runErr, connDone>>
  /\ UNCHANGED <<book, everJoined, readyErr, hbs, timers>>

\* A phx_reply: matched to a pending join, or skipped.
ReadReply(m, status) ==
  /\ Arrives
  /\ unanswered' = unanswered \ {m}
  /\ LET t == Pending(book, m.ref)
     IN  IF t = NoTopic
         THEN UNCHANGED <<book, everJoined, readyErr, hbs, manage, runErr,
                          connDone, timers, queued>>
         ELSE CASE status = "ok"      -> JoinOk(t, m.ref)
                [] status = "limited" -> JoinLimited(t, m.ref)
                [] OTHER              -> JoinRefused(t, status)
  /\ UNCHANGED <<opener, openResult, cancelled, termErr, dials, sock, conn,
                 joinAt, joinRef, pong, beatOut, silent, dispatch, closeVars>>

ReadJoinReply ==
  \E m \in unanswered, s \in {"ok", "limited", "denied", "refused"} :
    ReadReply(m, s)

\* The server acknowledges something on a channel that is already open.
ReadAck ==
  \E t \in Topics, r \in Refs :
    /\ book.byTopic[t] = [joinRef |-> r, joined |-> TRUE]
    /\ ReadReply([ref |-> r, topic |-> t], "ok")

\* Mutant: teardown does not wait for the rejoin goroutines.
TimersNotWaited ==
  /\ manage = "waitTimers"
  /\ manage' = "waitHb"
  /\ UNCHANGED <<openVars, cancelled, runErr, termErr, everJoined, dials,
                 connVars, joinVars, beatVars, eventVars, closeVars>>

TimersWaited ==
  /\ manage = "waitTimers" /\ timers = {}
  /\ manage' = "waitHb"
  /\ UNCHANGED <<openVars, cancelled, runErr, termErr, everJoined, dials,
                 connVars, joinVars, beatVars, eventVars, closeVars>>

\* Waits for the hbDone of the heartbeat started last, if one was.
HbWaited ==
  /\ manage = "waitHb" /\ hbs = {}
  /\ manage' = "close"
  /\ UNCHANGED <<openVars, cancelled, runErr, termErr, everJoined, dials,
                 connVars, joinVars, beatVars, eventVars, closeVars>>

\* runOnce returns; its locals, and what the server held of the connection, go.
ConnClosed ==
  /\ manage = "close"
  /\ manage' = "ended" /\ CloseSock(dials) /\ conn' = 0
  /\ joinAt' = 0 /\ book' = NewJoinBook /\ unanswered' = {}
  /\ pong' = FALSE /\ beatOut' = FALSE /\ silent' = FALSE
  /\ UNCHANGED <<openVars, cancelled, runErr, termErr, everJoined, dials,
                 connDone, joinRef, timers, hbs, eventVars, closeVars>>

-----------------------------------------------------------------------------
(* manage, after a connection ended                                        *)

\* Mutant: a 403 is final whether or not the credential connected before.
FatalForgetsJoined(err) == err \in {"unauthorized", "denied", "forbidden"}

\* classify: is this failure final?
Fatal(err) ==
  \/ err \in {"unauthorized", "denied"}
  \/ err = "forbidden" /\ ~ everJoined

EndedCancelled ==
  /\ manage = "ended" /\ cancelled
  /\ ManageReturns("none")
  /\ UNCHANGED <<openVars, cancelled, everJoined, dials, connVars,
                 joinVars, beatVars, eventVars, closeVars>>

EndedFatal ==
  /\ manage = "ended" /\ ~ cancelled /\ Fatal(runErr)
  /\ ManageReturns(runErr)
  /\ readyErr' = IF readyErr = "none" THEN runErr ELSE readyErr
  /\ Emit
  /\ UNCHANGED <<opener, openResult, cancelled, everJoined, dials,
                 connVars, joinVars, beatVars, dispatch, closeVars>>

EndedRetry ==
  /\ manage = "ended" /\ ~ cancelled /\ ~ Fatal(runErr)
  /\ manage' = "sleep" /\ runErr' = "none"
  /\ Emit
  /\ UNCHANGED <<openVars, cancelled, termErr, everJoined, dials,
                 connVars, joinVars, beatVars, dispatch, closeVars>>

Wake ==
  /\ manage = "sleep"
  /\ IF cancelled THEN ManageReturns("none") ELSE manage' = "top" /\ UNCHANGED <<termErr, runErr>>
  /\ UNCHANGED <<openVars, cancelled, everJoined, dials, connVars,
                 joinVars, beatVars, eventVars, closeVars>>

\* The deferred finish publishes termErr and closes done; then wg.Done.
Finish ==
  /\ manage = "finish"
  /\ manage' = "stopped"
  /\ UNCHANGED <<openVars, cancelled, runErr, termErr, everJoined, dials,
                 connVars, joinVars, beatVars, eventVars, closeVars>>

-----------------------------------------------------------------------------
(* Rejoin goroutines                                                       *)

TimerCtxDone(g) == ConnCtxDone \/ g.conn # dials

TimerCancelled(g) ==
  /\ g.st = "sleep" /\ TimerCtxDone(g)
  /\ timers' = timers \ {g}
  /\ UNCHANGED <<openVars, cancelled, manageVars, connVars, joinAt, joinRef,
                 book, unanswered, beatVars, eventVars, closeVars>>

\* sendJoin up to the write: a new ref, tracked in the book.
TimerTracks(g) ==
  /\ g.st = "sleep" /\ joinRef < MaxRef
  /\ joinRef' = joinRef + 1
  /\ book' = Track(book, g.topic, joinRef + 1)
  /\ timers' = (timers \ {g}) \cup {[g EXCEPT !.ref = joinRef + 1, !.st = "write"]}
  /\ UNCHANGED <<openVars, cancelled, manageVars, connVars, joinAt,
                 unanswered, beatVars, eventVars, closeVars>>

TimerWrites(g) ==
  /\ g.st = "write" /\ sock[g.conn] = "open"
  /\ unanswered' = unanswered \cup {[ref |-> g.ref, topic |-> g.topic]}
  /\ timers' = timers \ {g}
  /\ UNCHANGED <<openVars, cancelled, manageVars, connVars, joinAt, joinRef,
                 book, beatVars, eventVars, closeVars>>

\* The write failed: close the socket so that the read loop ends.
TimerWriteFails(g) ==
  /\ g.st = "write"
  /\ CloseSock(g.conn)
  /\ timers' = timers \ {g}
  /\ UNCHANGED <<openVars, cancelled, manageVars, conn, connDone, joinAt,
                 joinRef, book, unanswered, beatVars, eventVars, closeVars>>

Timer(g) == TimerCancelled(g) \/ TimerTracks(g) \/ TimerWrites(g) \/ TimerWriteFails(g)

-----------------------------------------------------------------------------
(* heartbeatLoop                                                           *)

HbCancelled(g) ==
  /\ TimerCtxDone(g)
  /\ hbs' = hbs \ {g}
  /\ UNCHANGED <<openVars, cancelled, manageVars, connVars, joinVars, pong,
                 beatOut, silent, eventVars, closeVars>>

HbBeat(g) ==
  /\ g.st = "sleep" /\ sock[g.conn] = "open"
  /\ hbs' = (hbs \ {g}) \cup {[g EXCEPT !.st = "armed"]}
  /\ beatOut' = TRUE
  /\ UNCHANGED <<openVars, cancelled, manageVars, connVars, joinVars, pong,
                 silent, eventVars, closeVars>>

\* The write failed.  After a cancellation the teardown closes the socket.
HbWriteFails(g) ==
  /\ g.st = "sleep"
  /\ IF TimerCtxDone(g) THEN UNCHANGED sock ELSE CloseSock(g.conn)
  /\ hbs' = hbs \ {g}
  /\ UNCHANGED <<openVars, cancelled, manageVars, conn, connDone, joinVars,
                 pong, beatOut, silent, eventVars, closeVars>>

HbPong(g) ==
  /\ g.st = "armed" /\ pong
  /\ hbs' = (hbs \ {g}) \cup {[g EXCEPT !.st = "sleep"]}
  /\ pong' = FALSE
  /\ UNCHANGED <<openVars, cancelled, manageVars, connVars, joinVars, beatOut,
                 silent, eventVars, closeVars>>

\* Mutant: the watchdog gives up beating but leaves the socket open.
HbTimeoutKeepsSocket(g) ==
  /\ g.st = "armed"
  /\ hbs' = hbs \ {g}
  /\ UNCHANGED <<openVars, cancelled, manageVars, connVars, joinVars, pong,
                 beatOut, silent, eventVars, closeVars>>

\* The watchdog: no reply within the interval closes the connection.
HbTimeout(g) ==
  /\ g.st = "armed"
  /\ CloseSock(g.conn)
  /\ hbs' = hbs \ {g}
  /\ UNCHANGED <<openVars, cancelled, manageVars, conn, connDone, joinVars,
                 pong, beatOut, silent, eventVars, closeVars>>

Heartbeat(g) ==
  HbCancelled(g) \/ HbBeat(g) \/ HbWriteFails(g) \/ HbPong(g) \/ HbTimeout(g)

\* The network swallows the connection: writes still succeed, nothing arrives.
GoSilent ==
  /\ manage \in Attached /\ SockOpen /\ ~ silent /\ dials \in HalfOpen
  /\ silent' = TRUE
  /\ UNCHANGED <<openVars, cancelled, manageVars, connVars, joinVars, hbs,
                 pong, beatOut, eventVars, closeVars>>

-----------------------------------------------------------------------------
(* dispatchLoop                                                            *)

\* The select may take a queued event even when ctx is done.
DispatchTakes ==
  /\ dispatch = "idle" /\ queued > 0
  /\ dispatch' = "fire" /\ queued' = queued - 1
  /\ UNCHANGED <<openVars, cancelled, manageVars, connVars, joinVars,
                 beatVars, closeVars>>

\* A handler that called Close returns after Close does.
HandlerReturns ==
  /\ dispatch = "fire" /\ \A c \in Callers : c = "handler" => closer[c] \notin {"read", "wait"}
  /\ dispatch' = "idle"
  /\ UNCHANGED <<openVars, cancelled, manageVars, connVars, joinVars,
                 beatVars, queued, closeVars>>

DispatchStops ==
  /\ dispatch = "idle" /\ cancelled
  /\ dispatch' = "stopped"
  /\ UNCHANGED <<openVars, cancelled, manageVars, connVars, joinVars,
                 beatVars, queued, closeVars>>

-----------------------------------------------------------------------------
Open == OpenMark \/ OpenSpawn \/ OpenReady \/ OpenCancelled

CloseCall(c) ==
  CloseRead(c) \/ CloseShut(c) \/ \E how \in {"clean", "timeout"} : CloseReturns(c, how)

\* What manage does by itself, and what it does when the network moves.
ManageStep ==
  \/ TopCancelled \/ StartDial \/ ConnectFails \/ AdoptConn \/ SkipJoin \/ SendJoin
  \/ ReadInterrupted \/ TimersWaited \/ HbWaited \/ ConnClosed
  \/ EndedCancelled \/ EndedFatal \/ EndedRetry \/ Wake \/ Finish

NetworkStep ==
  \/ Connected \/ Upgraded
  \/ \E err \in {"unauthorized", "forbidden", "transport"} : UpgradeRefused(err)
  \/ ReadFails \/ ReadPong \/ ReadPush \/ ReadChannelDown \/ ReadJoinReply
  \/ ReadAck \/ GoSilent

Dispatch == DispatchTakes \/ HandlerReturns \/ DispatchStops

\* Everything has stopped: the one state the program may stay in.
Stopped ==
  /\ opener \in {"idle", "done"} /\ WaitGroupEmpty
  /\ \A c \in Callers : closer[c] \notin {"read", "wait"}
  /\ UNCHANGED vars

Next ==
  \/ Open \/ CancelContext
  \/ \E c \in Callers : CloseCall(c)
  \/ ManageStep \/ NetworkStep
  \/ \E g \in timers : Timer(g)
  \/ \E g \in hbs : Heartbeat(g)
  \/ Dispatch \/ Stopped

\* Every goroutine that can run does.  Nothing is asked of the caller, and
\* nothing of the network but that a TCP connect ends (the OS bounds it).
Fairness ==
  /\ WF_vars(OpenSpawn) /\ WF_vars(OpenReady \/ OpenCancelled)
  /\ \A c \in Callers :
       WF_vars(CloseShut(c) \/ \E how \in {"clean", "timeout"} : CloseReturns(c, how))
  /\ WF_vars(ManageStep)
  /\ WF_vars(\E g \in timers : Timer(g))
  /\ WF_vars(\E g \in hbs : Heartbeat(g))
  /\ WF_vars(Dispatch)

Spec == Init /\ [][Next]_vars
FairSpec == Spec /\ Fairness

-----------------------------------------------------------------------------
(* Properties                                                              *)

Timers == [ref : Refs, topic : Topics, conn : Conns, st : {"sleep", "write"}]
Beats == [ref : Refs, conn : Conns, st : {"sleep", "armed"}]

OpenType ==
  /\ opener \in {"idle", "marked", "waiting", "done"}
  /\ openResult \in ConnErrors \cup {"none", "nil", "ctx"}
  /\ readyErr \in ConnErrors \cup {"none", "nil", "ctx"}
  /\ cancelled \in BOOLEAN

ManageType ==
  /\ manage \in Manage
  /\ runErr \in ConnErrors \cup {"none"} /\ termErr \in ConnErrors \cup {"none"}
  /\ everJoined \in BOOLEAN
  /\ dials \in 0 .. MaxDials

ConnType ==
  /\ sock \in [Conns -> {"none", "open", "closed"}]
  /\ conn \in 0 .. MaxDials
  /\ connDone \in BOOLEAN

JoinType ==
  /\ joinAt \in 0 .. Len(ExtraTopics)
  /\ joinRef \in 0 .. MaxRef
  /\ book \in Books
  /\ unanswered \subseteq [ref : Refs, topic : Topics]
  /\ timers \subseteq Timers

BeatType ==
  /\ hbs \subseteq Beats
  /\ pong \in BOOLEAN /\ beatOut \in BOOLEAN /\ silent \in BOOLEAN

EventType ==
  /\ dispatch \in {"none", "idle", "fire", "stopped"}
  /\ queued \in 0 .. BufferCap

CloseType ==
  /\ closer \in [Callers -> {"idle", "read", "wait", "clean", "timeout"}]
  /\ closeConn \in [Callers -> 0 .. MaxDials]
  /\ closeSaw \in [Callers -> {"idle", "marked", "waiting", "done"}]

\* Every variable keeps its type; in particular the queue keeps its capacity.
TypeOK == /\ OpenType /\ ManageType /\ ConnType /\ JoinType
          /\ BeatType /\ EventType /\ CloseType

\* A connection's goroutines and socket never outlive its runOnce: whatever
\* is alive belongs to the connection dialed last, while runOnce still holds
\* it, so a rejoin or a heartbeat of a dead connection can neither write to
\* nor close the next one (the deferred teardown, 651-661).
ConnectionsDoNotOverlap ==
  /\ \A g \in timers \cup hbs : g.conn = dials /\ manage \in Attached
  /\ \A d \in Conns :
       sock[d] = "open" => d = dials /\ manage \in Attached \cup {"handshake", "adopt"}
  /\ conn # 0 <=> manage \in Attached
  /\ conn # 0 => conn = dials

\* A connection runs at most one heartbeat goroutine, so the hbDone teardown
\* waits for is the only one: an acknowledgement on an open channel must not
\* be taken for a second join reply (pending, 1163-1177).
OneHeartbeat == \A g, h \in hbs : g = h

\* A topic never has two live joins on one connection: a join on the wire, a
\* rejoin being waited out and an open channel exclude each other.  A second
\* join of an open topic would make the server close the first channel.
\* Holds when WithTopics names no extra topic twice (the workspace it skips).
OneJoinPerTopic ==
  /\ \A m, n \in unanswered : m.topic = n.topic => m = n
  /\ \A g, h \in timers : g.topic = h.topic => g = h
  /\ \A m \in unanswered, g \in timers : m.topic # g.topic
  /\ \A m \in unanswered \cup timers : ~ book.byTopic[m.topic].joined

\* Open and Err tell one story.  A credential error Open returned is the Err
\* that Done closes with; Open returns nil only after a workspace join; and a
\* 403 never ends a session whose credential has connected before (611-620).
OutcomesAgree ==
  /\ (DoneClosed /\ openResult \in ConnErrors) => termErr = openResult
  /\ openResult = "nil" => everJoined
  /\ termErr = "forbidden" => ~ everJoined
  /\ (DoneClosed /\ termErr # "none") => readyErr \in {termErr, "nil", "ctx"}

\* A Close that came back because the goroutines ended, and that was called
\* once Open had started them, leaves nothing behind: no goroutine, no socket.
CleanCloseQuiesces ==
  \A c \in Callers :
    closer[c] = "clean" /\ closeSaw[c] \in {"waiting", "done"} =>
      /\ DoneClosed /\ dispatch = "stopped"
      /\ timers = {} /\ hbs = {} /\ conn = 0
      /\ \A d \in Conns : sock[d] # "open"

\* Once the context is done the session stops for good, from wherever it was,
\* except while the server holds back its answer to the upgrade request.
CancelStops ==
  (cancelled /\ Running) ~> [](DoneClosed \/ manage = "handshake")

\* Dial's contract, "The handshake honors ctx's deadline and cancellation"
\* (wsconn.go:92), as the session relies on it: a cancelled session ends.
CancelStopsHandshake == (cancelled /\ Running) ~> DoneClosed

\* Close returns, also when a handler calls it on the goroutine it waits for.
CloseEnds ==
  \A c \in Callers : closer[c] = "read" ~> closer[c] \in {"clean", "timeout"}

\* A joined connection that has gone half-open is given up: the unanswered
\* beat closes the socket and the read loop ends.
SilentPeerDetected ==
  (manage = "read" /\ silent /\ book.byTopic[Primary].joined) ~> manage # "read"
=============================================================================
