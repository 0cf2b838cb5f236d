------------------------------- MODULE WsConn -------------------------------
(***************************************************************************)
(* One WebSocket connection (internal/wsconn/wsconn.go) and the goroutines *)
(* that share it: the reader in ReadMessage, which also answers pings and  *)
(* closes, the writers in WriteMessage, the callers of Close, and the      *)
(* watcher each ReadMessage starts for its context.                        *)
(*                                                                         *)
(* The socket takes a header and a payload in two writes and may stop      *)
(* taking any (the peer's window is full).  Deadlines are not counted: an  *)
(* armed one may fire whenever its call is blocked.  Every read brings a   *)
(* context, its own or the one of the read before (runOnce's reads all     *)
(* bring the same), and a reader whose call failed reads no more.          *)
(***************************************************************************)
EXTENDS Integers, Sequences, FiniteSets

CONSTANTS Writers,     \* goroutines that call WriteMessage
          Closers,     \* goroutines that call Close
          Contexts,    \* contexts the reads are made with
          Dated,       \* those of them that have a deadline
          PeerFrames,  \* frames the peer may send: [op, fin, len]
          MaxMessage,  \* maxMessage
          MaxControl,  \* the RFC's limit on a control frame: 125 bytes
          MaxFrames,   \* bound: frames read
          MaxWrites    \* bound: messages written by each writer

Reader == "reader"
Nobody == "nobody"
Actors == {Reader} \cup Writers \cup Closers

Data    == {"text", "binary", "continuation"}
Control == {"ping", "pong", "close"}

ASSUME WsConnAssumption ==
  /\ {Reader, Nobody} \cap (Writers \cup Closers) = {} /\ Writers \cap Closers = {}
  /\ Dated \subseteq Contexts
  /\ \A f \in PeerFrames : f.len \in Int /\ f.fin \in BOOLEAN
  /\ {MaxMessage, MaxControl, MaxFrames, MaxWrites} \subseteq Nat

VARIABLES
  reader,   \* before Dial, between calls, in ReadMessage, in its writes, or why it ended
  heard,    \* frames read and accepted, oldest first
  partial,  \* indices in heard of the message being reassembled
  out,      \* messages returned, each the indices of its frames
  ended,    \* the contexts that have ended
  call,     \* the last ReadMessage: how many there were, and its context
  watchers, \* the calls whose watcher has neither fired nor left
  expired,  \* the read deadline is in the past
  open,     \* the socket has not been closed
  stalled,  \* the peer takes no more bytes
  lock,     \* who holds writeMu
  armed,    \* a write deadline is set
  job,      \* each actor's writeFrame: what it writes and how far it is
  wire,     \* what the socket took last: a header or a payload
  pongs,    \* lengths of the pongs it took
  wrote,    \* messages each writer has begun
  once,     \* closeOnce
  closer    \* each caller of Close

readVars  == <<reader, heard, partial, out>>
ctxVars   == <<ended, call, watchers, expired>>
writeVars == <<lock, armed, job, wire, pongs>>
closeVars == <<once, closer>>
vars == <<readVars, ctxVars, writeVars, closeVars, open, stalled, wrote>>

Nothing == [by |-> Nobody, part |-> "payload"]
NoCall == [n |-> 0, ctx |-> Nobody]
NoJob == [op |-> "none", len |-> 0, stage |-> "idle"]
Ended == {"timeout", "failed", "peer closed", "panic"}
InCall == reader \in {"reading", "answering", "echoing"}
Calls == [n : Nat, ctx : Contexts]

\* The first n numbers of a sequence, added up, and the bytes of a message.
Total(n, val) ==
  LET total[i \in 0 .. n] == IF i = 0 THEN 0 ELSE total[i - 1] + val[i]
  IN  total[n]
Sum(s) == Total(Len(s), [k \in DOMAIN s |-> heard[s[k]].len])

TypeOK ==
  /\ reader \in {"dial", "idle", "reading", "answering", "echoing"} \cup Ended
  /\ \A i \in DOMAIN heard : heard[i] \in PeerFrames
  /\ \A i \in DOMAIN partial : partial[i] \in DOMAIN heard
  /\ reader = "idle" => partial = <<>>
  /\ {expired, open, stalled, armed} \subseteq BOOLEAN
  /\ ended \subseteq Contexts /\ call \in Calls \cup {NoCall} /\ watchers \subseteq Calls
  /\ lock \in {Nobody} \cup Actors
  /\ lock # Nobody => job[lock].stage \in {"header", "payload"} /\ armed
  /\ \A a \in Actors : job[a].stage \in {"idle", "lock", "header", "payload"}
  /\ wrote \in [Writers -> 0 .. MaxWrites]
  /\ once \in {"new", "running", "done"}
  /\ closer \in [Closers -> {"out", "closing", "waiting", "returned"}]

Init ==
  /\ reader = "dial" /\ heard = <<>> /\ partial = <<>> /\ out = <<>>
  /\ ended = {} /\ call = NoCall /\ watchers = {} /\ expired = FALSE
  /\ open = FALSE /\ stalled = FALSE
  /\ lock = Nobody /\ armed = FALSE /\ job = [a \in Actors |-> NoJob]
  /\ wire = Nothing /\ pongs = <<>>
  /\ wrote = [w \in Writers |-> 0]
  /\ once = "new" /\ closer = [c \in Closers |-> "out"]

\* Dial: the peer upgrades and proves it read the key, or there is no Conn.
Upgraded(resp) ==
  resp.status = 101 /\ resp.upgrade /\ resp.connection /\ resp.accept

Responses ==
  [status : {101, 400}, upgrade : BOOLEAN, connection : BOOLEAN, accept : BOOLEAN]

Dial ==
  /\ reader = "dial"
  /\ \E resp \in Responses :
       /\ reader' = IF Upgraded(resp) THEN "idle" ELSE "failed"
       /\ open' = Upgraded(resp)
  /\ UNCHANGED <<heard, partial, out, ctxVars, writeVars, closeVars, stalled, wrote>>

-----------------------------------------------------------------------------
(* writeFrame: one frame under writeMu, header then payload                *)

Begin(a, op, len) ==
  /\ job[a] = NoJob
  /\ job' = [job EXCEPT ![a] = [op |-> op, len |-> len, stage |-> "lock"]]

\* Mutant: Close trusts the deadline it set before it had the lock.
AcquireTrusting(a) ==
  /\ job[a].stage = "lock" /\ lock = Nobody
  /\ lock' = a /\ job' = [job EXCEPT ![a].stage = "header"]
  /\ armed' = (a \notin Closers \/ armed)
  /\ UNCHANGED <<wire, pongs, readVars, ctxVars, closeVars, open, stalled, wrote>>

\* Mutant: writes are not serialized.
AcquireShared(a) ==
  /\ job[a].stage = "lock"
  /\ lock' = a /\ armed' = TRUE
  /\ job' = [job EXCEPT ![a].stage = "header"]
  /\ UNCHANGED <<wire, pongs, readVars, ctxVars, closeVars, open, stalled, wrote>>

Acquire(a) ==
  /\ job[a].stage = "lock" /\ lock = Nobody
  /\ lock' = a /\ armed' = TRUE
  /\ job' = [job EXCEPT ![a].stage = "header"]
  /\ UNCHANGED <<wire, pongs, readVars, ctxVars, closeVars, open, stalled, wrote>>

\* The frame is out or has failed: the deadline is cleared, then the lock
\* released, and the caller goes on; a ReadMessage that returns is stopped.
Finish(a, ok) ==
  /\ armed' = FALSE /\ lock' = Nobody
  /\ job' = [job EXCEPT ![a] = NoJob]
  /\ reader' = IF a # Reader THEN reader
               ELSE IF job[a].op = "close" THEN "peer closed"
               ELSE IF ok THEN "reading" ELSE "failed"
  /\ expired' = IF a = Reader /\ ~ (ok /\ job[a].op = "pong") THEN FALSE ELSE expired
  /\ open' = (open /\ a \notin Closers)
  /\ once' = IF a \in Closers THEN "done" ELSE once
  /\ closer' = IF a \in Closers THEN [closer EXCEPT ![a] = "returned"] ELSE closer
  /\ UNCHANGED <<heard, partial, out, ended, call, watchers, stalled, wrote>>

WriteHeader(a) ==
  /\ job[a].stage = "header" /\ open /\ ~ stalled
  /\ wire' = [by |-> a, part |-> "header"]
  /\ pongs' = IF job[a].op = "pong" THEN Append(pongs, job[a].len) ELSE pongs
  /\ IF job[a].len = 0 THEN Finish(a, TRUE)
     ELSE /\ job' = [job EXCEPT ![a].stage = "payload"]
          /\ UNCHANGED <<lock, armed, readVars, ctxVars, closeVars, open, stalled, wrote>>

WritePayload(a) ==
  /\ job[a].stage = "payload" /\ open /\ ~ stalled
  /\ wire' = [by |-> a, part |-> "payload"]
  /\ UNCHANGED pongs
  /\ Finish(a, TRUE)

\* The socket is closed, or the write deadline fires while the peer stalls.
WriteFails(a) ==
  /\ job[a].stage \in {"header", "payload"}
  /\ ~ open \/ (stalled /\ armed)
  /\ Finish(a, FALSE)
  /\ UNCHANGED <<wire, pongs>>

WriteMessage(w) ==
  /\ reader \notin {"dial", "panic"} /\ wrote[w] < MaxWrites
  /\ Begin(w, "text", 1)
  /\ wrote' = [wrote EXCEPT ![w] = @ + 1]
  /\ UNCHANGED <<lock, armed, wire, pongs, readVars, ctxVars, closeVars, open, stalled>>

-----------------------------------------------------------------------------
(* ReadMessage                                                             *)

\* The call sets the deadline its context has, whatever was set before, and
\* starts a watcher.
StartRead ==
  /\ reader = "idle" /\ reader' = "reading"
  /\ \E c \in Contexts :
       /\ call' = [n |-> call.n + 1, ctx |-> c]
       /\ expired' = IF c \in Dated \ ended THEN FALSE ELSE IF c \in Dated THEN TRUE ELSE expired
  /\ watchers' = watchers \cup {call'}
  /\ UNCHANGED <<heard, partial, out, ended, writeVars, closeVars, open, stalled, wrote>>

\* stop: the deadline is cleared and the call's watcher released, which may not
\* have noticed yet.
EndRead(how) ==
  /\ reader' = how /\ partial' = <<>> /\ expired' = FALSE
  /\ UNCHANGED <<ended, call, watchers>>

\* Mutant: every frame has the whole allowance.
AdmissibleAlone(f) ==
  IF f.op \in Data THEN f.len \in 0 .. MaxMessage
  ELSE f.fin /\ f.len <= MaxControl

\* readFrame's checks: a data frame within what the message has left, a
\* control frame whole and short.  A length is a signed word.
Admissible(f) ==
  IF f.op \in Data THEN f.len \in 0 .. MaxMessage - Sum(partial)
  ELSE f.fin /\ f.len <= MaxControl

\* ReadMessage's switch on the opcode.
InOrder(f) ==
  CASE f.op \in {"text", "binary"} -> partial = <<>>
    [] f.op = "continuation"       -> partial # <<>>
    [] OTHER                       -> f.op \in Control

Blocked == reader = "reading" /\ open /\ Len(heard) < MaxFrames

ReadData ==
  /\ Blocked
  /\ \E f \in PeerFrames :
       /\ f.op \in Data /\ Admissible(f) /\ InOrder(f)
       /\ heard' = Append(heard, f)
       /\ LET message == Append(partial, Len(heard) + 1)
          IN  IF f.fin THEN out' = Append(out, message) /\ EndRead("idle")
              ELSE partial' = message /\ UNCHANGED <<reader, out, ctxVars>>
  /\ UNCHANGED <<writeVars, closeVars, open, stalled, wrote>>

\* Mutant: a ping inside a message is passed over.
ReadPingBetween ==
  /\ Blocked
  /\ \E f \in PeerFrames :
       /\ f.op = "ping" /\ Admissible(f) /\ f.len >= 0
       /\ heard' = Append(heard, f)
       /\ IF partial = <<>> THEN reader' = "answering" /\ Begin(Reader, "pong", f.len)
          ELSE UNCHANGED <<reader, job>>
  /\ UNCHANGED <<partial, out, ctxVars, lock, armed, wire, pongs, closeVars, open, stalled, wrote>>

\* A ping is answered before the next frame is read.
ReadPing ==
  /\ Blocked
  /\ \E f \in PeerFrames :
       /\ f.op = "ping" /\ Admissible(f) /\ f.len >= 0
       /\ heard' = Append(heard, f) /\ reader' = "answering"
       /\ Begin(Reader, "pong", f.len)
  /\ UNCHANGED <<partial, out, ctxVars, lock, armed, wire, pongs, closeVars, open, stalled, wrote>>

ReadPong ==
  /\ Blocked
  /\ \E f \in PeerFrames :
       f.op = "pong" /\ Admissible(f) /\ f.len >= 0 /\ heard' = Append(heard, f)
  /\ UNCHANGED <<reader, partial, out, ctxVars, writeVars, closeVars, open, stalled, wrote>>

\* The peer's close is echoed, whatever comes of the echo.
ReadClose ==
  /\ Blocked
  /\ \E f \in PeerFrames :
       /\ f.op = "close" /\ Admissible(f) /\ f.len >= 0
       /\ heard' = Append(heard, f) /\ reader' = "echoing"
       /\ Begin(Reader, "close", f.len)
  /\ UNCHANGED <<partial, out, ctxVars, lock, armed, wire, pongs, closeVars, open, stalled, wrote>>

ReadRefused ==
  /\ Blocked
  /\ \E f \in PeerFrames : ~ (Admissible(f) /\ InOrder(f))
  /\ EndRead("failed")
  /\ UNCHANGED <<heard, out, writeVars, closeVars, open, stalled, wrote>>

\* make([]byte, length) of a negative length, which only a control frame
\* passes the checks with: the process ends, and every call with it.
ReadPanics ==
  /\ Blocked
  /\ \E f \in PeerFrames : /\ f.op \in Control /\ Admissible(f) /\ f.len < 0
                           /\ heard' = Append(heard, f)
  /\ reader' = "panic" /\ open' = FALSE
  /\ job' = [a \in Actors |-> NoJob] /\ lock' = Nobody /\ armed' = FALSE
  /\ closer' = [c \in Closers |-> "returned"] /\ once' = "done"
  /\ watchers' = {} /\ expired' = FALSE
  /\ UNCHANGED <<partial, out, ended, call, wire, pongs, stalled, wrote>>

\* The peer went away in mid-stream, or this side closed the socket.
ReadLost ==
  /\ reader = "reading"
  /\ EndRead("failed")
  /\ UNCHANGED <<heard, out, writeVars, closeVars, open, stalled, wrote>>

ReadTimesOut ==
  /\ reader = "reading" /\ expired
  /\ EndRead("timeout")
  /\ UNCHANGED <<heard, out, writeVars, closeVars, open, stalled, wrote>>

-----------------------------------------------------------------------------
(* applyDeadline: the context and its watchers                             *)

CtxEnds ==
  /\ \E c \in Contexts \ ended : ended' = ended \cup {c}
  /\ UNCHANGED <<call, watchers, expired, readVars, writeVars, closeVars, open, stalled, wrote>>

\* The deadline the call set from its context passes.
DeadlinePasses ==
  /\ InCall /\ call.ctx \in ended \cap Dated /\ expired' = TRUE
  /\ UNCHANGED <<ended, call, watchers, readVars, writeVars, closeVars, open, stalled, wrote>>

\* Mutant: the deadline is cleared by the watcher that leaves and not by stop.
WatcherLeavesClearing ==
  /\ \E w \in watchers : ~ (InCall /\ w = call) /\ watchers' = watchers \ {w}
  /\ expired' = FALSE
  /\ UNCHANGED <<ended, call, readVars, writeVars, closeVars, open, stalled, wrote>>

\* done is closed: the watcher of a call that ended leaves.
WatcherLeaves ==
  /\ \E w \in watchers : ~ (InCall /\ w = call) /\ watchers' = watchers \ {w}
  /\ UNCHANGED <<ended, call, expired, readVars, writeVars, closeVars, open, stalled, wrote>>

\* The watcher of a context that ended sets the past deadline, whether its call
\* is still running or has ended before the watcher's select, or between it and
\* here: then it is the next call that has the deadline.
WatcherFires ==
  /\ \E w \in watchers : w.ctx \in ended /\ watchers' = watchers \ {w}
  /\ expired' = TRUE
  /\ UNCHANGED <<ended, call, readVars, writeVars, closeVars, open, stalled, wrote>>

-----------------------------------------------------------------------------
(* Close                                                                   *)

\* The first caller arms the write deadline without the lock, then writes.
Close(c) ==
  /\ reader \notin {"dial", "panic"} /\ closer[c] = "out"
  /\ CASE once = "new" ->
            /\ once' = "running" /\ closer' = [closer EXCEPT ![c] = "closing"]
            /\ armed' = TRUE /\ Begin(c, "close", 2)
       [] once = "running" ->
            /\ closer' = [closer EXCEPT ![c] = "waiting"]
            /\ UNCHANGED <<once, armed, job>>
       [] once = "done" ->
            /\ closer' = [closer EXCEPT ![c] = "returned"]
            /\ UNCHANGED <<once, armed, job>>
  /\ UNCHANGED <<lock, wire, pongs, readVars, ctxVars, open, stalled, wrote>>

CloseReturns(c) ==
  /\ closer[c] = "waiting" /\ once = "done"
  /\ closer' = [closer EXCEPT ![c] = "returned"]
  /\ UNCHANGED <<once, writeVars, readVars, ctxVars, open, stalled, wrote>>

PeerStalls ==
  /\ open /\ ~ stalled /\ stalled' = TRUE
  /\ UNCHANGED <<readVars, ctxVars, writeVars, closeVars, open, wrote>>

PeerResumes ==
  /\ stalled /\ stalled' = FALSE
  /\ UNCHANGED <<readVars, ctxVars, writeVars, closeVars, open, wrote>>

-----------------------------------------------------------------------------
Write(a) == WriteHeader(a) \/ WritePayload(a) \/ WriteFails(a)

\* A closed socket fails the read, and a set deadline does.
ReadEnds == ReadTimesOut \/ (~ open /\ ReadLost)

Next ==
  \/ Dial \/ StartRead \/ ReadData \/ ReadPing \/ ReadPong \/ ReadClose
  \/ ReadRefused \/ ReadPanics \/ ReadLost \/ ReadTimesOut
  \/ CtxEnds \/ DeadlinePasses \/ WatcherLeaves \/ WatcherFires \/ PeerStalls \/ PeerResumes
  \/ \E w \in Writers : WriteMessage(w)
  \/ \E c \in Closers : Close(c) \/ CloseReturns(c)
  \/ \E a \in Actors : Acquire(a) \/ Write(a)

\* sync.Mutex starves nobody, a deadline fires, a goroutine that can run does.
Spec ==
  /\ Init /\ [][Next]_vars
  /\ \A a \in Actors : SF_vars(Acquire(a)) /\ WF_vars(Write(a))
  /\ WF_vars(ReadEnds) /\ WF_vars(WatcherFires)
  /\ \A c \in Closers : WF_vars(CloseReturns(c))

-----------------------------------------------------------------------------
(* What the connection promises.                                           *)

DataHeard == {i \in DOMAIN heard : heard[i].op \in Data}

\* The messages ms hold every data frame read, in the order they were read.
InOrderRead(ms) ==
  /\ DataHeard = UNION {{ms[i][k] : k \in DOMAIN ms[i]} : i \in DOMAIN ms}
  /\ \A i \in DOMAIN ms : \A k, l \in DOMAIN ms[i] : k < l => ms[i][k] < ms[i][l]
  /\ \A i, j \in DOMAIN ms : i < j =>
       \A k \in DOMAIN ms[i] : \A l \in DOMAIN ms[j] : ms[i][k] < ms[j][l]

\* The frames of messages returned and of the one in progress are the data
\* frames read, in order, none lost or mixed; every message opens with its
\* type, ends at its first final frame and is within the limit.
MessagesWhole ==
  /\ reader \notin Ended => InOrderRead(Append(out, partial))
  /\ \A i \in DOMAIN out : LET m == out[i] IN
       /\ Sum(m) <= MaxMessage
       /\ \A k \in DOMAIN m : /\ heard[m[k]].op = "continuation" <=> k > 1
                              /\ heard[m[k]].fin <=> k = Len(m)

\* On the wire a payload follows its own header, however the pongs of the
\* reader, the writers' messages and Close's frame are interleaved.
FramesContiguous ==
  [][wire'.part = "payload" /\ wire' # wire => wire = [by |-> wire'.by, part |-> "header"]]_vars

Pings == {i \in DOMAIN heard : heard[i].op = "ping"}

\* How many of the frames in P had been read by the i-th.
Rank(P, i) == Cardinality({j \in P : j <= i})

\* Every ping read so far has been answered, in order and with its own
\* payload, before the reader takes the next frame, inside a message too.
PingsAnswered ==
  reader \in {"idle", "reading"} =>
    /\ Len(pongs) = Cardinality(Pings)
    /\ \A i \in Pings : pongs[Rank(Pings, i)] = heard[i].len

\* A call whose context has ended is interrupted: the deadline is in the past,
\* or the call's own watcher has yet to put it there.  No earlier call's stop
\* or watcher takes the interruption away.
InterruptKept == InCall /\ call.ctx \in ended => expired \/ call \in watchers

\* "The deadline and cancellation of ctx interrupt a blocked read", and stop
\* "clears the deadline and releases the watcher goroutine" (wsconn.go:233, 460):
\* a read times out for its own context and no other's.  Refuted with two
\* contexts, by WatcherFires of an earlier call; InterruptKept is what holds.
TimesOutForContext == reader = "timeout" => call.ctx \in ended

\* Some call is still in progress that neither a frame nor a message of the
\* peer is needed to end.
Held ==
  \/ \E a \in Actors : job[a] # NoJob
  \/ \E c \in Closers : closer[c] \in {"closing", "waiting"}
  \/ reader = "reading" /\ (call.ctx \in ended \/ once = "done")

\* A stalled peer wedges no one: every write ends, every Close returns, and
\* a read ends once its context or the connection has.
CallsReturn == Held ~> ~ Held

=============================================================================
