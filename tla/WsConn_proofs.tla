--------------------------- MODULE WsConn_proofs ----------------------------
(***************************************************************************)
(* Proofs about WsConn for every set of writers and of callers of Close,   *)
(* every set of frames the peer may send and every bound.                  *)
(***************************************************************************)
EXTENDS WsConn, FiniteSetTheorems, SequenceTheorems, NatFacts, TLAPS

\* The steps of the reader, of its context and of the peer, which write nothing.
Reading ==
  \/ Dial \/ StartRead \/ ReadData \/ ReadPong \/ ReadRefused \/ ReadLost \/ ReadTimesOut
  \/ CtxEnds \/ DeadlinePasses \/ WatcherLeaves \/ WatcherFires \/ PeerStalls \/ PeerResumes

\* Nobody is no actor.
LEMMA ActorsNamed == Nobody \notin Actors /\ Reader \in Actors
  BY WsConnAssumption DEF Actors, Nobody, Reader

-----------------------------------------------------------------------------
(* The write lock                                                          *)

Jobs == [op : {"none", "text", "pong", "close"}, len : Int,
         stage : {"idle", "lock", "header", "payload"}]

\* Who has begun to write a frame holds the lock and a deadline; and between
\* its header and its payload nobody else has written.
LockInv ==
  /\ job \in [Actors -> Jobs]
  /\ lock \in {Nobody} \cup Actors
  /\ lock # Nobody => job[lock].stage \in {"header", "payload"} /\ armed
  /\ \A a \in Actors : job[a].stage \in {"header", "payload"} => lock = a
  /\ \A a \in Actors : job[a].stage = "payload" => wire = [by |-> a, part |-> "header"]

\* Nothing is being written before the dial.
LEMMA LockStart == Init => LockInv
  BY ActorsNamed DEF Init, LockInv, Jobs, NoJob

\* A frame that is begun waits for the lock.
LEMMA BeginLock ==
  ASSUME LockInv, NEW a \in Actors, NEW op \in {"text", "pong", "close"}, NEW len \in Int,
         Begin(a, op, len), UNCHANGED <<lock, wire>>, armed => armed'
  PROVE  LockInv'
<1>1. job[a].stage = "idle"
  BY DEF Begin, NoJob
<1>2. [op |-> op, len |-> len, stage |-> "lock"] \in Jobs
  BY DEF Jobs
<1>3. job' = [job EXCEPT ![a] = [op |-> op, len |-> len, stage |-> "lock"]]
  BY DEF Begin
<1>4. job' \in [Actors -> Jobs]
  BY <1>2, <1>3 DEF LockInv
<1>5. lock # a
  BY <1>1, ActorsNamed DEF LockInv
<1> QED  BY <1>1, <1>3, <1>4, <1>5 DEF LockInv

\* A frame that has ended gives the lock back.
LEMMA FinishLock ==
  ASSUME LockInv, NEW a \in Actors, NEW ok, Finish(a, ok),
         job[a].stage \in {"header", "payload"}
  PROVE  LockInv'
<1>1. lock = a /\ lock' = Nobody /\ job' = [job EXCEPT ![a] = NoJob]
  BY DEF LockInv, Finish
<1>2. \A b \in Actors : b # a => job[b].stage \notin {"header", "payload"}
  BY <1>1 DEF LockInv
<1>3. job' \in [Actors -> Jobs]
  BY <1>1 DEF LockInv, Jobs, NoJob
<1>4. \A b \in Actors : job'[b].stage \notin {"header", "payload"}
  BY <1>1, <1>2 DEF LockInv, NoJob
<1> QED  BY <1>1, <1>3, <1>4 DEF LockInv

\* The stages of closeOnce.
OnceInv == once \in {"new", "running", "done"}

\* closeOnce is in one of its stages.
LEMMA OnceNext == OnceInv /\ [Next]_vars => OnceInv'
<1> SUFFICES ASSUME OnceInv, [Next]_vars PROVE OnceInv'
  OBVIOUS
<1>1. CASE Reading \/ ReadPing \/ ReadClose \/ ReadPanics
  BY <1>1 DEF Reading, Dial, StartRead, ReadData, ReadPong, ReadRefused, ReadLost, ReadTimesOut,
       CtxEnds, DeadlinePasses, WatcherLeaves, WatcherFires, PeerStalls, PeerResumes, closeVars,
       ReadPing, ReadClose, ReadPanics, OnceInv
<1>2. ASSUME NEW a \in Actors, Acquire(a) \/ Write(a) PROVE OnceInv'
  <2>1. ASSUME NEW ok, Finish(a, ok) PROVE OnceInv'
    BY <2>1 DEF Finish, OnceInv
  <2>2. CASE WriteHeader(a)
    <3>1. CASE job[a].len = 0
      BY <2>1, <2>2, <3>1 DEF WriteHeader
    <3>2. CASE job[a].len # 0
      BY <2>2, <3>2 DEF WriteHeader, closeVars, OnceInv
    <3> QED  BY <3>1, <3>2
  <2>3. CASE WritePayload(a) \/ WriteFails(a)
    BY <2>1, <2>3 DEF WritePayload, WriteFails
  <2>4. CASE Acquire(a)
    BY <2>4 DEF Acquire, closeVars, OnceInv
  <2> QED  BY <1>2, <2>2, <2>3, <2>4 DEF Write
<1>3. ASSUME NEW w \in Writers, WriteMessage(w) PROVE OnceInv'
  BY <1>3 DEF WriteMessage, closeVars, OnceInv
<1>4. ASSUME NEW c \in Closers, Close(c) \/ CloseReturns(c) PROVE OnceInv'
  BY <1>4 DEF Close, CloseReturns, OnceInv
<1>5. CASE UNCHANGED vars
  BY <1>5 DEF vars, closeVars, OnceInv
<1> QED  BY <1>1, <1>2, <1>3, <1>4, <1>5 DEF Next, Reading

\* The invariant of the lock is inductive.
LEMMA LockNext == LockInv /\ OnceInv /\ [Next]_vars => LockInv'
<1> SUFFICES ASSUME LockInv, OnceInv, [Next]_vars PROVE LockInv'
  OBVIOUS
<1>1. CASE Reading
  <2>1. UNCHANGED <<job, lock, armed, wire>>
    BY <1>1 DEF Reading, Dial, StartRead, ReadData, ReadPong, ReadRefused, ReadLost, ReadTimesOut,
         CtxEnds, DeadlinePasses, WatcherLeaves, WatcherFires, PeerStalls, PeerResumes, writeVars
  <2> QED  BY <2>1 DEF LockInv
<1>2. CASE ReadPing \/ ReadClose
  <2>1. PICK f \in PeerFrames, op \in {"pong", "close"} :
          Begin(Reader, op, f.len) /\ UNCHANGED <<lock, armed, wire>>
    BY <1>2 DEF ReadPing, ReadClose
  <2>2. f.len \in Int
    BY WsConnAssumption
  <2> QED  BY <2>1, <2>2, BeginLock, ActorsNamed
<1>3. CASE ReadPanics
  BY <1>3 DEF ReadPanics, LockInv, Jobs, NoJob
<1>4. ASSUME NEW w \in Writers, WriteMessage(w) PROVE LockInv'
  <2>1. w \in Actors
    BY DEF Actors
  <2> QED  BY <1>4, <2>1, BeginLock DEF WriteMessage
<1>5. ASSUME NEW c \in Closers, Close(c) PROVE LockInv'
  <2>1. c \in Actors
    BY DEF Actors
  <2>2. CASE once = "new"
    <3>1. armed' = TRUE /\ Begin(c, "close", 2) /\ UNCHANGED <<lock, wire>>
      BY <1>5, <2>2 DEF Close
    <3> QED  BY <2>1, <3>1, BeginLock
  <2>3. CASE once \in {"running", "done"}
    <3>1. UNCHANGED <<armed, job, lock, wire>>
      BY <1>5, <2>3 DEF Close
    <3> QED  BY <3>1 DEF LockInv
  <2>4. once \in {"new", "running", "done"}
    BY DEF OnceInv
  <2> QED  BY <2>2, <2>3, <2>4
<1>6. ASSUME NEW c \in Closers, CloseReturns(c) PROVE LockInv'
  BY <1>6 DEF CloseReturns, writeVars, LockInv
<1>7. ASSUME NEW a \in Actors, Acquire(a) PROVE LockInv'
  <2>1. /\ lock = Nobody /\ lock' = a /\ armed' = TRUE /\ wire' = wire
        /\ job' = [job EXCEPT ![a].stage = "header"]
    BY <1>7 DEF Acquire
  <2>2. job' \in [Actors -> Jobs]
    BY <2>1 DEF LockInv, Jobs
  <2>3. \A b \in Actors : job[b].stage \notin {"header", "payload"}
    BY <2>1, ActorsNamed DEF LockInv
  <2> QED  BY <2>1, <2>2, <2>3 DEF LockInv, Jobs
<1>8. ASSUME NEW a \in Actors, Write(a) PROVE LockInv'
  <2>1. CASE WritePayload(a)
    BY <2>1, <1>8, FinishLock DEF WritePayload
  <2>2. CASE WriteFails(a)
    BY <2>2, <1>8, FinishLock DEF WriteFails
  <2>3. CASE WriteHeader(a)
    <3>1. CASE job[a].len = 0
      BY <2>3, <3>1, FinishLock DEF WriteHeader
    <3>2. CASE job[a].len # 0
      <4>1. /\ job[a].stage = "header" /\ wire' = [by |-> a, part |-> "header"]
            /\ job' = [job EXCEPT ![a].stage = "payload"] /\ UNCHANGED <<lock, armed>>
        BY <2>3, <3>2 DEF WriteHeader
      <4>2. job' \in [Actors -> Jobs]
        BY <4>1 DEF LockInv, Jobs
      <4>3. lock = a /\ \A b \in Actors : b # a => job[b].stage # "payload"
        BY <4>1 DEF LockInv
      <4> QED  BY <4>1, <4>2, <4>3 DEF LockInv, Jobs
    <3> QED  BY <3>1, <3>2
  <2> QED  BY <1>8, <2>1, <2>2, <2>3 DEF Write
<1>9. CASE UNCHANGED vars
  BY <1>9 DEF vars, writeVars, LockInv
<1> QED  BY <1>1, <1>2, <1>3, <1>4, <1>5, <1>6, <1>7, <1>8, <1>9 DEF Next, Reading

\* Only a payload that follows its own header is written.
LEMMA PayloadFollows ==
  LockInv /\ [Next]_vars =>
    (wire'.part = "payload" /\ wire' # wire => wire = [by |-> wire'.by, part |-> "header"])
<1> SUFFICES ASSUME LockInv, [Next]_vars, wire'.part = "payload", wire' # wire
             PROVE  wire = [by |-> wire'.by, part |-> "header"]
  OBVIOUS
<1>1. PICK a \in Actors : Write(a)
  <2>1. Reading \/ ReadPing \/ ReadClose \/ ReadPanics => wire' = wire
    BY DEF Reading, Dial, StartRead, ReadData, ReadPong, ReadRefused, ReadLost, ReadTimesOut,
         CtxEnds, DeadlinePasses, WatcherLeaves, WatcherFires, PeerStalls, PeerResumes, writeVars,
         ReadPing, ReadClose, ReadPanics
  <2>2. /\ \A w \in Writers : WriteMessage(w) => wire' = wire
        /\ \A c \in Closers : Close(c) \/ CloseReturns(c) => wire' = wire
        /\ \A b \in Actors : Acquire(b) => wire' = wire
        /\ UNCHANGED vars => wire' = wire
    BY DEF WriteMessage, Close, CloseReturns, Acquire, vars, writeVars
  <2> QED  BY <2>1, <2>2 DEF Next, Reading
<1>2. WritePayload(a)
  <2>1. WriteHeader(a) => wire'.part = "header"
    BY DEF WriteHeader
  <2>2. WriteFails(a) => wire' = wire
    BY DEF WriteFails
  <2> QED  BY <1>1, <2>1, <2>2 DEF Write
<1>3. wire' = [by |-> a, part |-> "payload"] /\ wire = [by |-> a, part |-> "header"]
  BY <1>2 DEF WritePayload, LockInv
<1> QED  BY <1>3

\* FramesContiguous, for any number of writers and of callers of Close: on the
\* wire a payload follows its own header.
THEOREM ContiguousFrames == Spec => FramesContiguous
<1>1. Init => LockInv /\ OnceInv
  BY LockStart DEF Init, OnceInv
<1>2. LockInv /\ OnceInv /\ [Next]_vars => LockInv' /\ OnceInv'
  BY LockNext, OnceNext
<1>3. LockInv /\ [Next]_vars =>
        [wire'.part = "payload" /\ wire' # wire => wire = [by |-> wire'.by, part |-> "header"]]_vars
  BY PayloadFollows
<1> QED  BY <1>1, <1>2, <1>3, PTL DEF Spec, FramesContiguous

-----------------------------------------------------------------------------
(* Totals                                                                  *)

\* g adds up the first n numbers of val.
Adds(g, n, val) == g = [i \in 0 .. n |-> IF i = 0 THEN 0 ELSE g[i - 1] + val[i]]

\* There is a function that adds up, however many the numbers are.
LEMMA AddsExists == ASSUME NEW val PROVE \A n \in Nat : \E g : Adds(g, n, val)
<1> DEFINE S == {n \in Nat : \E g : Adds(g, n, val)}
<1>1. 0 \in S
  <2> DEFINE g == [i \in 0 .. 0 |-> 0]
  <2>1. Adds(g, 0, val)
    BY DEF Adds
  <2> QED  BY <2>1
<1>2. ASSUME NEW n \in Nat, n \in S PROVE n + 1 \in S
  <2>1. PICK g : Adds(g, n, val)
    BY <1>2
  <2> DEFINE h == [i \in 0 .. n + 1 |-> IF i = n + 1 THEN g[n] + val[n + 1] ELSE g[i]]
  <2>2. \A i \in 0 .. n : g[i] = IF i = 0 THEN 0 ELSE g[i - 1] + val[i]
    BY <2>1 DEF Adds
  <2>3. \A i \in 0 .. n + 1 : h[i] = IF i = 0 THEN 0 ELSE h[i - 1] + val[i]
    <3> SUFFICES ASSUME NEW i \in 0 .. n + 1 PROVE h[i] = IF i = 0 THEN 0 ELSE h[i - 1] + val[i]
      OBVIOUS
    <3>1. CASE i = n + 1
      <4>1. n \in 0 .. n + 1 /\ n # n + 1 /\ i - 1 = n /\ i # 0
        BY <3>1
      <4>2. h[n] = g[n] /\ h[i] = g[n] + val[n + 1]
        BY <3>1, <4>1
      <4> QED  BY <3>1, <4>1, <4>2
    <3>2. CASE i # n + 1
      <4>1. i \in 0 .. n /\ h[i] = g[i]
        BY <3>2
      <4>2. CASE i = 0
        BY <2>2, <4>1, <4>2
      <4>3. CASE i # 0
        <5>1. i - 1 \in 0 .. n + 1 /\ i - 1 # n + 1
          BY <4>1, <4>3
        <5>2. h[i - 1] = g[i - 1]
          BY <5>1
        <5> QED  BY <2>2, <4>1, <4>3, <5>2
      <4> QED  BY <4>2, <4>3
    <3> QED  BY <3>1, <3>2
  <2> HIDE DEF h
  <2>4. h = [i \in 0 .. n + 1 |-> h[i]]
    BY DEF h
  <2>5. Adds(h, n + 1, val)
    BY <2>3, <2>4 DEF Adds
  <2> QED  BY <2>5
<1> HIDE DEF S
<1>3. \A n \in Nat : n \in S
  BY <1>1, <1>2, NatInd
<1> QED  BY <1>3 DEF S

\* Two such functions agree as far as their numbers do.
LEMMA AddsAgree ==
  ASSUME NEW v, NEW w, NEW m \in Nat, NEW n \in Nat, NEW g, NEW h, Adds(g, m, v), Adds(h, n, w),
         m <= n, \A i \in 1 .. m : v[i] = w[i]
  PROVE  \A i \in 0 .. m : g[i] = h[i]
<1> DEFINE S == {i \in Nat : i <= m => g[i] = h[i]}
<1>1. 0 \in S
  BY DEF Adds
<1>2. ASSUME NEW i \in Nat, i \in S PROVE i + 1 \in S
  <2> SUFFICES ASSUME i + 1 <= m PROVE g[i + 1] = h[i + 1]
    OBVIOUS
  <2>1. i + 1 \in 0 .. m /\ i + 1 \in 0 .. n /\ i + 1 # 0 /\ (i + 1) - 1 = i /\ i + 1 \in 1 .. m
    OBVIOUS
  <2>2. g[i + 1] = g[i] + v[i + 1] /\ h[i + 1] = h[i] + w[i + 1]
    BY <2>1 DEF Adds
  <2>3. g[i] = h[i]
    BY <1>2
  <2> QED  BY <2>1, <2>2, <2>3
<1> HIDE DEF S
<1>3. \A i \in Nat : i \in S
  BY <1>1, <1>2, NatInd
<1> QED  BY <1>3 DEF S

\* What Total takes its value from.
LEMMA TotalIs ==
  ASSUME NEW val, NEW n \in Nat
  PROVE  \E g : Adds(g, n, val) /\ Total(n, val) = g[n]
<1> DEFINE g == CHOOSE g : Adds(g, n, val)
<1>1. Adds(g, n, val)
  BY AddsExists
<1>2. Total(n, val) = g[n]
  BY DEF Total, Adds
<1> QED  BY <1>1, <1>2

\* Total adds its numbers one by one, and looks at no others.
LEMMA TotalStep ==
  ASSUME NEW v, NEW w, NEW n \in Nat, \A i \in 1 .. n : v[i] = w[i]
  PROVE  /\ Total(0, v) = 0
         /\ Total(n, v) = Total(n, w)
         /\ Total(n + 1, w) = Total(n, v) + w[n + 1]
<1>1. PICK g : Adds(g, n, v) /\ Total(n, v) = g[n]
  BY TotalIs
<1>2. PICK h : Adds(h, n, w) /\ Total(n, w) = h[n]
  BY TotalIs
<1>3. PICK j : Adds(j, n + 1, w) /\ Total(n + 1, w) = j[n + 1]
  BY TotalIs
<1>4. g[n] = h[n] /\ g[n] = j[n]
  <2>1. n \in 0 .. n /\ n <= n /\ n <= n + 1 /\ n + 1 \in Nat
    OBVIOUS
  <2>2. \A i \in 0 .. n : g[i] = h[i]
    BY <1>1, <1>2, <2>1, AddsAgree
  <2>3. \A i \in 0 .. n : g[i] = j[i]
    BY <1>1, <1>3, <2>1, AddsAgree
  <2> QED  BY <2>1, <2>2, <2>3
<1>5. j[n + 1] = j[n] + w[n + 1]
  BY <1>3 DEF Adds
<1>6. Total(0, v) = 0
  <2>1. PICK f : Adds(f, 0, v) /\ Total(0, v) = f[0]
    BY TotalIs
  <2> QED  BY <2>1 DEF Adds
<1> QED  BY <1>1, <1>2, <1>3, <1>4, <1>5, <1>6

-----------------------------------------------------------------------------
(* What the reader does beside the writers                                 *)

\* The reader has a frame of its own to write exactly while it answers a ping
\* or echoes a close, and nobody else writes pongs.
TalkInv ==
  /\ reader \in {"dial", "idle", "reading", "answering", "echoing"} \cup Ended
  /\ heard \in Seq(PeerFrames) /\ pongs \in Seq(Int)
  /\ partial \in Seq(Nat) /\ out \in Seq(Seq(Nat))
  /\ \A i \in DOMAIN partial : partial[i] \in DOMAIN heard
  /\ \A i \in DOMAIN out : \A k \in DOMAIN out[i] : out[i][k] \in DOMAIN heard
  /\ reader \in {"dial", "idle"} => partial = <<>>
  /\ job[Reader].stage # "idle" <=> reader \in {"answering", "echoing"}
  /\ reader = "answering" => job[Reader].op = "pong"
  /\ reader = "echoing" => job[Reader].op = "close"
  /\ \A a \in Actors : job[a].op = "pong" => a = Reader

\* A step that leaves the reader where it is: another actor's, a timer's, or
\* the lock it waited for.
Aside ==
  /\ UNCHANGED <<reader, heard, partial, out, pongs>>
  /\ job'[Reader].op = job[Reader].op /\ job'[Reader].len = job[Reader].len
  /\ job'[Reader].stage = job[Reader].stage
       \/ (job[Reader].stage = "lock" /\ job'[Reader].stage = "header")
  /\ \A a \in Actors : job'[a].op = "pong" => a = Reader

\* A step between two calls, or the end of the call.
Between ==
  /\ UNCHANGED <<heard, out, pongs, job>>
  /\ \/ reader = "dial" /\ reader' = "idle" /\ partial' = partial
     \/ reader = "idle" /\ reader' = "reading" /\ partial' = partial
     \/ reader \in {"dial", "reading"} /\ reader' \in Ended /\ partial' \in {partial, <<>>}

\* The reader takes a control frame, and answers it if it has to.
Takes(f) ==
  /\ reader = "reading" /\ f \in PeerFrames
  /\ heard' = Append(heard, f) /\ UNCHANGED <<partial, out, pongs>>
  /\ \/ f.op = "ping" /\ reader' = "answering"
        /\ job' = [job EXCEPT ![Reader] = [op |-> "pong", len |-> f.len, stage |-> "lock"]]
     \/ f.op = "pong" /\ reader' = reader /\ job' = job
     \/ f.op = "close" /\ reader' = "echoing"
        /\ job' = [job EXCEPT ![Reader] = [op |-> "close", len |-> f.len, stage |-> "lock"]]
     \/ f.op \in Control /\ reader' = "panic" /\ job' = [a \in Actors |-> NoJob]

\* The reader's own frame goes on or has ended.
Says ==
  /\ UNCHANGED <<heard, partial, out>>
  /\ job[Reader].stage \in {"header", "payload"}
  /\ \/ /\ job' = [job EXCEPT ![Reader] = NoJob]
        /\ reader' \in (IF job[Reader].op = "close" THEN {"peer closed"} ELSE {"reading", "failed"})
     \/ /\ job' = [job EXCEPT ![Reader].stage = "payload"] /\ reader' = reader
        /\ job[Reader].stage = "header"
  /\ \/ UNCHANGED pongs /\ (job[Reader].stage = "header" => job[Reader].op # "pong" \/ reader' = "failed")
     \/ /\ job[Reader].op = "pong" /\ job[Reader].stage = "header"
        /\ pongs' = Append(pongs, job[Reader].len)

\* A ping is a control frame, as a pong and a close are.
LEMMA OpsApart ==
  /\ \A op \in Data : op \notin Control
  /\ \A op \in {"ping", "pong", "close"} : op \in Control
  BY DEF Data, Control

\* Every step is of one of these kinds.
LEMMA StepKinds ==
  ASSUME LockInv, OnceInv, TalkInv, [Next]_vars
  PROVE  Aside \/ Between \/ ReadData \/ Says \/ \E f \in PeerFrames : Takes(f)
<1>0. Reader \in Actors /\ Reader \notin Writers /\ Reader \notin Closers
  BY WsConnAssumption DEF Actors, Reader, Nobody
<1>1. CASE CtxEnds \/ DeadlinePasses \/ WatcherLeaves \/ WatcherFires \/ PeerStalls \/ PeerResumes \/ UNCHANGED vars
  <2>1. UNCHANGED <<reader, heard, partial, out, pongs, job>>
    BY <1>1 DEF CtxEnds, DeadlinePasses, WatcherLeaves, WatcherFires, PeerStalls, PeerResumes, readVars, writeVars, vars
  <2> QED  BY <2>1 DEF Aside, TalkInv
<1>2. CASE Dial \/ StartRead \/ ReadRefused \/ ReadLost \/ ReadTimesOut
  BY <1>2 DEF Dial, StartRead, ReadRefused, ReadLost, ReadTimesOut, EndRead, Blocked, Between,
       writeVars, Ended
<1>3. CASE ReadPing \/ ReadClose
  BY <1>3 DEF ReadPing, ReadClose, Blocked, Begin, Takes
<1>4. CASE ReadPong \/ ReadPanics
  BY <1>4 DEF ReadPong, ReadPanics, Blocked, Takes, writeVars
<1>5. ASSUME NEW w \in Writers, WriteMessage(w) PROVE Aside
  <2>1. w \in Actors /\ w # Reader
    BY <1>0 DEF Actors
  <2>2. UNCHANGED <<reader, heard, partial, out, pongs>>
        /\ job' = [job EXCEPT ![w] = [op |-> "text", len |-> 1, stage |-> "lock"]]
    BY <1>5 DEF WriteMessage, Begin, readVars
  <2>3. job \in [Actors -> Jobs]
    BY DEF LockInv
  <2>4. job'[Reader] = job[Reader] /\ \A b \in Actors : job'[b].op \in {job[b].op, "text"}
    BY <1>0, <2>1, <2>2, <2>3
  <2> QED  BY <2>2, <2>4 DEF Aside, TalkInv
<1>6. ASSUME NEW c \in Closers, Close(c) \/ CloseReturns(c) PROVE Aside
  <2>1. c \in Actors /\ c # Reader
    BY <1>0 DEF Actors
  <2>2. UNCHANGED <<reader, heard, partial, out, pongs>>
    BY <1>6 DEF Close, CloseReturns, readVars, writeVars
  <2>3. job' = job \/ job' = [job EXCEPT ![c] = [op |-> "close", len |-> 2, stage |-> "lock"]]
    BY <1>6 DEF OnceInv, Close, CloseReturns, Begin, writeVars
  <2>4. job \in [Actors -> Jobs]
    BY DEF LockInv
  <2>5. job'[Reader] = job[Reader] /\ \A b \in Actors : job'[b].op \in {job[b].op, "close"}
    BY <1>0, <2>1, <2>3, <2>4
  <2> QED  BY <2>2, <2>5 DEF Aside, TalkInv
<1>7. ASSUME NEW a \in Actors, Acquire(a) PROVE Aside
  <2>1. /\ UNCHANGED <<reader, heard, partial, out, pongs>> /\ job[a].stage = "lock"
        /\ job' = [job EXCEPT ![a].stage = "header"]
    BY <1>7 DEF Acquire, readVars
  <2>2. job \in [Actors -> Jobs]
    BY DEF LockInv
  <2>3. \A b \in Actors : job'[b].op = job[b].op /\ job'[b].len = job[b].len
                          /\ (b # a => job'[b].stage = job[b].stage)
    BY <2>1, <2>2 DEF Jobs
  <2>4. job'[a].stage = "header"
    BY <2>1, <2>2 DEF Jobs
  <2> QED  BY <1>0, <2>1, <2>3, <2>4 DEF Aside, TalkInv
<1>8. ASSUME NEW a \in Actors, Write(a), a # Reader PROVE Aside
  <2>1. UNCHANGED <<reader, heard, partial, out>>
    BY <1>8 DEF Write, WriteHeader, WritePayload, WriteFails, Finish, readVars
  <2>2. UNCHANGED pongs
    <3>1. job[a].op # "pong"
      BY <1>8 DEF TalkInv
    <3> QED  BY <1>8, <3>1 DEF Write, WriteHeader, WritePayload, WriteFails
  <2>3. job' = [job EXCEPT ![a] = NoJob] \/ job' = [job EXCEPT ![a].stage = "payload"]
    BY <1>8 DEF Write, WriteHeader, WritePayload, WriteFails, Finish
  <2>4. job \in [Actors -> Jobs]
    BY DEF LockInv
  <2>5. job'[Reader] = job[Reader]
    BY <1>0, <1>8, <2>3, <2>4
  <2>6. \A b \in Actors : job'[b].op = job[b].op \/ job'[b].op = "none"
    BY <2>3, <2>4 DEF Jobs, NoJob
  <2> QED  BY <2>1, <2>2, <2>5, <2>6 DEF Aside, TalkInv
<1>9. CASE Write(Reader)
  <2>1. UNCHANGED <<heard, partial, out>> /\ job[Reader].stage \in {"header", "payload"}
    BY <1>9 DEF Write, WriteHeader, WritePayload, WriteFails, Finish, readVars
  <2>2. ASSUME NEW ok \in BOOLEAN, Finish(Reader, ok)
        PROVE  /\ job' = [job EXCEPT ![Reader] = NoJob]
               /\ reader' \in (IF job[Reader].op = "close" THEN {"peer closed"}
                               ELSE {"reading", "failed"})
               /\ ~ ok /\ job[Reader].op # "close" => reader' = "failed"
    BY <2>2 DEF Finish
  <2>3. CASE WriteHeader(Reader)
    <3>1. /\ pongs' = IF job[Reader].op = "pong" THEN Append(pongs, job[Reader].len) ELSE pongs
          /\ job[Reader].stage = "header"
      BY <2>3 DEF WriteHeader
    <3>2. CASE job[Reader].len = 0
      <4>1. Finish(Reader, TRUE)
        BY <2>3, <3>2 DEF WriteHeader
      <4> QED  BY <2>1, <2>2, <3>1, <4>1 DEF Says
    <3>3. CASE job[Reader].len # 0
      <4>1. job' = [job EXCEPT ![Reader].stage = "payload"] /\ reader' = reader
        BY <2>3, <3>3 DEF WriteHeader, readVars
      <4> QED  BY <2>1, <3>1, <4>1 DEF Says
    <3> QED  BY <3>2, <3>3
  <2>4. CASE WritePayload(Reader)
    <3>1. Finish(Reader, TRUE) /\ UNCHANGED pongs /\ job[Reader].stage = "payload"
      BY <2>4 DEF WritePayload
    <3> QED  BY <2>1, <2>2, <3>1 DEF Says
  <2>5. CASE WriteFails(Reader)
    <3>1. Finish(Reader, FALSE) /\ UNCHANGED pongs
      BY <2>5 DEF WriteFails
    <3>2. job[Reader].op # "pong" \/ reader' = "failed"
      BY <2>2, <3>1
    <3> QED  BY <2>1, <2>2, <3>1, <3>2 DEF Says
  <2> QED  BY <1>9, <2>3, <2>4, <2>5 DEF Write
<1> QED  BY <1>1, <1>2, <1>3, <1>4, <1>5, <1>6, <1>7, <1>8, <1>9 DEF Next

\* Appending lengthens a sequence and leaves its front as it was.
LEMMA Appended ==
  ASSUME NEW S, NEW s \in Seq(S), NEW e \in S
  PROVE  /\ Append(s, e) \in Seq(S) /\ Len(s) \in Nat /\ DOMAIN s = 1 .. Len(s)
         /\ DOMAIN Append(s, e) = 1 .. Len(s) + 1
         /\ \A i \in DOMAIN s : Append(s, e)[i] = s[i]
         /\ Append(s, e)[Len(s) + 1] = e
  BY AppendProperties

\* What ReadData does to the messages: the frame joins the one in progress,
\* and a final frame ends it.
LEMMA DataRead ==
  ASSUME TalkInv, ReadData
  PROVE  \E f \in PeerFrames :
           LET message == Append(partial, Len(heard) + 1)
           IN  /\ reader = "reading" /\ f.op \in Data /\ Admissible(f) /\ InOrder(f)
               /\ heard' = Append(heard, f) /\ UNCHANGED <<pongs, job>>
               /\ message \in Seq(Nat)
               /\ IF f.fin THEN out' = Append(out, message) /\ reader' = "idle" /\ partial' = <<>>
                  ELSE partial' = message /\ UNCHANGED <<reader, out>>
<1>1. PICK f \in PeerFrames :
        /\ reader = "reading" /\ f.op \in Data /\ Admissible(f) /\ InOrder(f)
        /\ heard' = Append(heard, f) /\ UNCHANGED <<pongs, job>>
        /\ IF f.fin THEN out' = Append(out, Append(partial, Len(heard) + 1))
                         /\ reader' = "idle" /\ partial' = <<>>
           ELSE partial' = Append(partial, Len(heard) + 1) /\ UNCHANGED <<reader, out>>
  BY DEF ReadData, Blocked, EndRead, writeVars
<1>2. Append(partial, Len(heard) + 1) \in Seq(Nat)
  <2>1. Len(heard) + 1 \in Nat
    BY LenProperties DEF TalkInv
  <2> QED  BY <2>1, Appended DEF TalkInv
<1> QED  BY <1>1, <1>2

\* The invariant of the reader is inductive.
LEMMA TalkNext == LockInv /\ OnceInv /\ TalkInv /\ [Next]_vars => TalkInv'
<1> SUFFICES ASSUME LockInv, OnceInv, TalkInv, [Next]_vars PROVE TalkInv'
  OBVIOUS
<1>0. Reader \in Actors /\ job \in [Actors -> Jobs]
  BY ActorsNamed DEF LockInv
<1>1. CASE Aside
  BY <1>1 DEF Aside, TalkInv
<1>2. CASE Between
  <2>1. partial' \in Seq(Nat) /\ (\A i \in DOMAIN partial' : partial'[i] \in DOMAIN heard)
    <3>1. partial' = partial \/ partial' = <<>>
      BY <1>2 DEF Between
    <3>2. <<>> \in Seq(Nat) /\ DOMAIN <<>> = {}
      OBVIOUS
    <3> QED  BY <3>1, <3>2 DEF TalkInv
  <2>2. /\ reader' \in {"idle", "reading"} \cup Ended /\ reader' \notin {"dial", "answering", "echoing"}
        /\ reader \notin {"answering", "echoing"}
        /\ reader' = "idle" => partial' = <<>>
    BY <1>2 DEF Between, Ended, TalkInv
  <2>3. UNCHANGED <<heard, out, pongs, job>>
    BY <1>2 DEF Between
  <2> QED  BY <2>1, <2>2, <2>3 DEF TalkInv
<1>3. CASE ReadData
  <2> DEFINE message == Append(partial, Len(heard) + 1)
  <2>1. PICK f \in PeerFrames :
           /\ reader = "reading" /\ heard' = Append(heard, f) /\ UNCHANGED <<pongs, job>>
           /\ message \in Seq(Nat)
           /\ IF f.fin THEN out' = Append(out, message) /\ reader' = "idle" /\ partial' = <<>>
              ELSE partial' = message /\ UNCHANGED <<reader, out>>
    BY <1>3, DataRead
  <2>2. /\ heard' \in Seq(PeerFrames) /\ DOMAIN heard \subseteq DOMAIN heard'
        /\ Len(heard) + 1 \in DOMAIN heard'
    BY <2>1, Appended DEF TalkInv
  <2>3. \A i \in DOMAIN message : message[i] \in DOMAIN heard'
    <3>1. Len(heard) + 1 \in Nat
      BY LenProperties DEF TalkInv
    <3> QED  BY <2>2, <3>1, Appended DEF TalkInv
  <2> HIDE DEF message
  <2>4. CASE f.fin
    <3>0. out' = Append(out, message) /\ out \in Seq(Seq(Nat)) /\ message \in Seq(Nat)
      BY <2>1, <2>4 DEF TalkInv
    <3>1. out' \in Seq(Seq(Nat))
      BY <3>0, Appended
    <3>2. \A i \in DOMAIN out' : \A k \in DOMAIN out'[i] : out'[i][k] \in DOMAIN heard'
      <4>1. \A i \in DOMAIN out' : (i \in DOMAIN out /\ out'[i] = out[i]) \/ out'[i] = message
        BY <3>0, Appended
      <4> QED  BY <2>2, <2>3, <4>1 DEF TalkInv
    <3>3. partial' = <<>> /\ partial' \in Seq(Nat) /\ DOMAIN partial' = {}
      BY <2>1, <2>4
    <3> QED  BY <2>1, <2>2, <2>4, <3>1, <3>2, <3>3 DEF TalkInv
  <2>5. CASE ~ f.fin
    <3>1. partial' = message /\ UNCHANGED <<reader, out>>
      BY <2>1, <2>5
    <3> QED  BY <2>1, <2>2, <2>3, <3>1 DEF TalkInv
  <2> QED  BY <2>4, <2>5
<1>4. ASSUME NEW f \in PeerFrames, Takes(f) PROVE TalkInv'
  <2>1. heard' \in Seq(PeerFrames) /\ DOMAIN heard \subseteq DOMAIN heard'
    BY <1>4, Appended DEF TalkInv, Takes
  <2>2. UNCHANGED <<partial, out, pongs>> /\ reader = "reading"
    BY <1>4 DEF Takes
  <2>3. /\ partial' \in Seq(Nat) /\ out' \in Seq(Seq(Nat)) /\ pongs' \in Seq(Int)
        /\ \A i \in DOMAIN partial' : partial'[i] \in DOMAIN heard'
        /\ \A i \in DOMAIN out' : \A k \in DOMAIN out'[i] : out'[i][k] \in DOMAIN heard'
    BY <2>1, <2>2 DEF TalkInv
  <2>4. \/ reader' = "answering" /\ job'[Reader].stage = "lock" /\ job'[Reader].op = "pong"
        \/ reader' = "echoing" /\ job'[Reader].stage = "lock" /\ job'[Reader].op = "close"
        \/ reader' \in {"reading", "panic"} /\ job'[Reader].stage = "idle"
    BY <1>0, <1>4, <2>2 DEF Takes, NoJob, TalkInv
  <2>5. \A a \in Actors : job'[a].op = "pong" => a = Reader
    BY <1>0, <1>4 DEF Takes, NoJob, TalkInv
  <2> QED  BY <2>1, <2>3, <2>4, <2>5 DEF TalkInv, Ended
<1>5. CASE Says
  <2>1. UNCHANGED <<heard, partial, out>> /\ job[Reader].stage \in {"header", "payload"}
    BY <1>5 DEF Says
  <2>2. reader \in {"answering", "echoing"}
    BY <2>1 DEF TalkInv
  <2>3. pongs' \in Seq(Int)
    <3>1. job[Reader].len \in Int
      BY <1>0 DEF Jobs
    <3>2. pongs' = pongs \/ pongs' = Append(pongs, job[Reader].len)
      BY <1>5 DEF Says
    <3>3. pongs \in Seq(Int)
      BY DEF TalkInv
    <3> QED  BY <3>1, <3>2, <3>3, Appended
  <2>4. CASE job' = [job EXCEPT ![Reader] = NoJob]
             /\ reader' \in {"peer closed", "reading", "failed"}
    <3>1. job'[Reader].stage = "idle" /\ \A a \in Actors : job'[a].op \in {job[a].op, "none"}
      BY <1>0, <2>4 DEF NoJob
    <3> QED  BY <2>1, <2>3, <2>4, <3>1 DEF TalkInv, Ended
  <2>5. CASE job' = [job EXCEPT ![Reader].stage = "payload"] /\ reader' = reader
    <3>1. job'[Reader].stage = "payload" /\ \A a \in Actors : job'[a].op = job[a].op
      BY <1>0, <2>5 DEF Jobs
    <3> QED  BY <2>1, <2>2, <2>3, <2>5, <3>1 DEF TalkInv
  <2> QED  BY <1>5, <2>4, <2>5 DEF Says
<1> QED  BY <1>1, <1>2, <1>3, <1>4, <1>5, StepKinds

\* The flags, the watchers and what the writers and the closers have done.
PlainInv ==
  /\ expired \in BOOLEAN /\ open \in BOOLEAN /\ stalled \in BOOLEAN /\ armed \in BOOLEAN
  /\ ended \subseteq Contexts /\ call \in Calls \cup {NoCall} /\ watchers \subseteq Calls
  /\ wrote \in [Writers -> 0 .. MaxWrites]
  /\ closer \in [Closers -> {"out", "closing", "waiting", "returned"}]

\* The end of a frame keeps them.
LEMMA PlainFinish ==
  ASSUME PlainInv, NEW a, NEW ok, Finish(a, ok)
  PROVE  PlainInv'
<1>1. /\ armed' = FALSE /\ UNCHANGED <<ended, call, watchers, stalled, wrote>>
      /\ expired' \in {expired, FALSE}
      /\ open' = (open /\ a \notin Closers)
      /\ closer' = IF a \in Closers THEN [closer EXCEPT ![a] = "returned"] ELSE closer
  BY DEF Finish
<1>3. open' \in BOOLEAN
  BY <1>1 DEF PlainInv
<1>4. expired' \in BOOLEAN
  BY <1>1 DEF PlainInv
<1>5. closer' \in [Closers -> {"out", "closing", "waiting", "returned"}]
  BY <1>1 DEF PlainInv
<1> QED  BY <1>1, <1>3, <1>4, <1>5 DEF PlainInv

\* The plain part of the state keeps its type.
LEMMA PlainNext == OnceInv /\ PlainInv /\ [Next]_vars => PlainInv'
<1> SUFFICES ASSUME OnceInv, PlainInv, [Next]_vars PROVE PlainInv'
  OBVIOUS
<1>1. CASE Dial
  <2>1. open' \in BOOLEAN /\ UNCHANGED <<ctxVars, stalled, armed, wrote, closer>>
    BY <1>1 DEF Dial, Upgraded, writeVars, closeVars
  <2> QED  BY <2>1 DEF PlainInv, ctxVars
<1>11. CASE StartRead
  <2>1. PICK c \in Contexts :
          /\ call' = [n |-> call.n + 1, ctx |-> c]
     /\ expired' = IF c \in Dated \ ended THEN FALSE ELSE IF c \in Dated THEN TRUE ELSE expired
    BY <1>11 DEF StartRead
  <2>2. /\ watchers' = watchers \cup {call'}
        /\ UNCHANGED <<ended, open, stalled, armed, wrote, closer>>
    BY <1>11 DEF StartRead, writeVars, closeVars
  <2>3. call.n \in Nat
    BY DEF PlainInv, Calls, NoCall
  <2>4. call' \in Calls
    BY <2>1, <2>3 DEF Calls
  <2>5. expired' \in BOOLEAN
    BY <2>1 DEF PlainInv
  <2> QED  BY <2>2, <2>4, <2>5 DEF PlainInv
<1>2. CASE ReadData \/ ReadPing \/ ReadPong \/ ReadClose \/ ReadRefused
           \/ ReadLost \/ ReadTimesOut
  <2>1. /\ UNCHANGED <<ended, call, watchers, open, stalled, armed, wrote, closer>>
        /\ expired' \in {expired, FALSE}
    BY <1>2 DEF ReadData, ReadPing, ReadPong, ReadClose, ReadRefused,
         ReadLost, ReadTimesOut, EndRead, ctxVars, writeVars, closeVars
  <2>2. expired' \in BOOLEAN
    BY <2>1 DEF PlainInv
  <2> QED  BY <2>1, <2>2 DEF PlainInv
<1>3. CASE ReadPanics
  <2>1. /\ open' = FALSE /\ armed' = FALSE /\ expired' = FALSE /\ watchers' = {}
        /\ UNCHANGED <<ended, call, stalled, wrote>> /\ closer' = [c \in Closers |-> "returned"]
    BY <1>3 DEF ReadPanics
  <2> QED  BY <2>1 DEF PlainInv
<1>4. CASE CtxEnds \/ DeadlinePasses \/ WatcherLeaves \/ WatcherFires
  <2>1. /\ UNCHANGED <<call, open, stalled, armed, wrote, closer>>
        /\ ended' \subseteq ended \cup Contexts
        /\ expired' \in {expired, TRUE} /\ watchers' \subseteq watchers
    BY <1>4 DEF CtxEnds, DeadlinePasses, WatcherLeaves, WatcherFires, writeVars, closeVars
  <2>2. ended' \subseteq Contexts /\ expired' \in BOOLEAN
    BY <2>1 DEF PlainInv
  <2> QED  BY <2>1, <2>2 DEF PlainInv
<1>5. CASE PeerStalls \/ PeerResumes
  BY <1>5 DEF PeerStalls, PeerResumes, ctxVars, writeVars, closeVars, PlainInv
<1>6. ASSUME NEW w \in Writers, WriteMessage(w) PROVE PlainInv'
  <2>1. /\ UNCHANGED <<ended, call, expired, open, stalled, armed, watchers, closer>>
        /\ wrote[w] < MaxWrites /\ wrote' = [wrote EXCEPT ![w] = @ + 1]
    BY <1>6 DEF WriteMessage, ctxVars, closeVars
  <2>2. MaxWrites \in Nat
    BY WsConnAssumption
  <2>3. wrote' \in [Writers -> 0 .. MaxWrites]
    BY <2>1, <2>2 DEF PlainInv
  <2> QED  BY <2>1, <2>3 DEF PlainInv
<1>7. ASSUME NEW c \in Closers, Close(c) \/ CloseReturns(c) PROVE PlainInv'
  <2>1. UNCHANGED <<ended, call, expired, open, stalled, watchers, wrote>>
    BY <1>7 DEF Close, CloseReturns, ctxVars
  <2>2. armed' \in {armed, TRUE}
    BY <1>7 DEF OnceInv, Close, CloseReturns, writeVars
  <2>3. closer' = [closer EXCEPT ![c] = "closing"] \/ closer' = [closer EXCEPT ![c] = "waiting"]
        \/ closer' = [closer EXCEPT ![c] = "returned"]
    BY <1>7 DEF OnceInv, Close, CloseReturns
  <2>4. closer' \in [Closers -> {"out", "closing", "waiting", "returned"}]
    BY <2>3 DEF PlainInv
  <2>5. armed' \in BOOLEAN
    BY <2>2 DEF PlainInv
  <2> QED  BY <2>1, <2>4, <2>5 DEF PlainInv
<1>8. ASSUME NEW a \in Actors, Acquire(a) PROVE PlainInv'
  BY <1>8 DEF Acquire, ctxVars, closeVars, PlainInv
<1>9. ASSUME NEW a \in Actors, Write(a) PROVE PlainInv'
  <2>1. CASE WritePayload(a) \/ WriteFails(a)
    BY <2>1, PlainFinish DEF WritePayload, WriteFails
  <2>2. CASE WriteHeader(a)
    <3>1. CASE job[a].len = 0
      BY <2>2, <3>1, PlainFinish DEF WriteHeader
    <3>2. CASE job[a].len # 0
      BY <2>2, <3>2 DEF WriteHeader, ctxVars, closeVars, PlainInv
    <3> QED  BY <3>1, <3>2
  <2> QED  BY <1>9, <2>1, <2>2 DEF Write
<1>10. CASE UNCHANGED vars
  BY <1>10 DEF vars, ctxVars, writeVars, closeVars, PlainInv
<1> QED  BY <1>1, <1>2, <1>3, <1>4, <1>5, <1>6, <1>7, <1>8, <1>9, <1>10, <1>11 DEF Next

\* What the conditions of the connection rest on, together.
ConnInv == LockInv /\ OnceInv /\ TalkInv /\ PlainInv

\* They hold at the start, and every step keeps them.
LEMMA ConnHolds == (Init => ConnInv) /\ (ConnInv /\ [Next]_vars => ConnInv')
<1>1. Init => TalkInv
  <2> SUFFICES ASSUME Init PROVE TalkInv
    OBVIOUS
  <2>1. /\ reader = "dial" /\ heard = <<>> /\ partial = <<>> /\ out = <<>> /\ pongs = <<>>
        /\ job = [a \in Actors |-> NoJob]
    BY DEF Init
  <2>2. job[Reader] = NoJob /\ \A a \in Actors : job[a].op = "none"
    BY <2>1, ActorsNamed DEF NoJob
  <2>3. <<>> \in Seq(PeerFrames) /\ <<>> \in Seq(Int) /\ <<>> \in Seq(Nat) /\ <<>> \in Seq(Seq(Nat))
        /\ DOMAIN <<>> = {}
    OBVIOUS
  <2> QED  BY <2>1, <2>2, <2>3 DEF TalkInv, NoJob
<1>2. Init => PlainInv
  <2> SUFFICES ASSUME Init PROVE PlainInv
    OBVIOUS
  <2>1. MaxWrites \in Nat
    BY WsConnAssumption
  <2>2. wrote \in [Writers -> 0 .. MaxWrites]
    BY <2>1 DEF Init
  <2>3. closer \in [Closers -> {"out", "closing", "waiting", "returned"}]
    BY DEF Init
  <2>4. /\ expired \in BOOLEAN /\ open \in BOOLEAN
        /\ stalled \in BOOLEAN /\ armed \in BOOLEAN
        /\ ended = {} /\ call = NoCall /\ watchers = {}
    BY DEF Init
  <2> QED  BY <2>2, <2>3, <2>4 DEF PlainInv
<1>3. Init => OnceInv
  BY DEF Init, OnceInv
<1> QED  BY <1>1, <1>2, <1>3, LockStart, LockNext, OnceNext, TalkNext, PlainNext DEF ConnInv

\* TypeOK, for every set of writers and of callers of Close: the lock's holder
\* has a frame under way with its deadline armed, and no message is left over
\* between two calls.
THEOREM ConnTypes == Spec => []TypeOK
<1>1. ConnInv => TypeOK
  <2> SUFFICES ASSUME ConnInv PROVE TypeOK
    OBVIOUS
  <2>1. reader \in {"dial", "idle", "reading", "answering", "echoing"} \cup Ended
        /\ (reader = "idle" => partial = <<>>)
        /\ \A i \in DOMAIN partial : partial[i] \in DOMAIN heard
    BY DEF ConnInv, TalkInv
  <2>2. \A i \in DOMAIN heard : heard[i] \in PeerFrames
    BY ElementOfSeq, LenProperties DEF ConnInv, TalkInv
  <2>3. {expired, open, stalled, armed} \subseteq BOOLEAN
    BY DEF ConnInv, PlainInv
  <2>4. /\ ended \subseteq Contexts /\ call \in Calls \cup {NoCall} /\ watchers \subseteq Calls
        /\ wrote \in [Writers -> 0 .. MaxWrites]
        /\ closer \in [Closers -> {"out", "closing", "waiting", "returned"}]
    BY DEF ConnInv, PlainInv
  <2>5. /\ lock \in {Nobody} \cup Actors
        /\ lock # Nobody => job[lock].stage \in {"header", "payload"} /\ armed
        /\ \A a \in Actors : job[a].stage \in {"idle", "lock", "header", "payload"}
    BY DEF ConnInv, LockInv, Jobs
  <2>6. once \in {"new", "running", "done"}
    BY DEF ConnInv, OnceInv
  <2> QED  BY <2>1, <2>2, <2>3, <2>4, <2>5, <2>6 DEF TypeOK
<1> QED  BY <1>1, ConnHolds, PTL DEF Spec

-----------------------------------------------------------------------------
(* The interruption of a read                                              *)

\* In a call whose deadline is not in the past, the call's own watcher waits;
\* whatever earlier calls left behind is not it.
WatchInv == InCall => expired \/ call \in watchers

\* Every step keeps the call in progress watched.
LEMMA WatchNext == PlainInv /\ TalkInv /\ WatchInv /\ [Next]_vars => WatchInv'
<1> SUFFICES ASSUME PlainInv, TalkInv, WatchInv, [Next]_vars PROVE WatchInv'
  OBVIOUS
<1>1. CASE Dial \/ ReadPanics \/ ReadRefused \/ ReadLost \/ ReadTimesOut
  BY <1>1 DEF Dial, ReadPanics, ReadRefused, ReadLost, ReadTimesOut, EndRead, WatchInv, InCall
<1>2. CASE StartRead
  BY <1>2 DEF StartRead, WatchInv
<1>3. CASE ReadData
  <2>1. CASE UNCHANGED <<reader, ctxVars>>
    BY <2>1 DEF ctxVars, WatchInv, InCall
  <2>2. CASE EndRead("idle")
    BY <2>2 DEF EndRead, WatchInv, InCall
  <2> QED  BY <1>3, <2>1, <2>2 DEF ReadData
<1>4. CASE ReadPing \/ ReadPong \/ ReadClose
  <2>1. InCall /\ UNCHANGED ctxVars
    BY <1>4 DEF ReadPing, ReadPong, ReadClose, Blocked, InCall
  <2> QED  BY <2>1 DEF ctxVars, WatchInv
<1>5. CASE CtxEnds \/ PeerStalls \/ PeerResumes
  BY <1>5 DEF CtxEnds, PeerStalls, PeerResumes, readVars, ctxVars, WatchInv, InCall
<1>6. CASE DeadlinePasses \/ WatcherFires
  BY <1>6 DEF DeadlinePasses, WatcherFires, WatchInv
<1>7. CASE WatcherLeaves
  <2>1. PICK w \in watchers : ~ (InCall /\ w = call) /\ watchers' = watchers \ {w}
    BY <1>7 DEF WatcherLeaves
  <2>2. UNCHANGED <<reader, call, expired>>
    BY <1>7 DEF WatcherLeaves, readVars
  <2> QED  BY <2>1, <2>2 DEF WatchInv, InCall
<1>8. ASSUME NEW a \in Actors, Write(a) PROVE WatchInv'
  <2>1. ASSUME NEW ok, Finish(a, ok), job[a].stage \in {"header", "payload"} PROVE WatchInv'
    <3>1. CASE a = Reader /\ ~ (ok /\ job[a].op = "pong")
      <4>1. job[a].op \in {"pong", "close"}
        BY <2>1, <3>1 DEF TalkInv
      <4>2. reader' \in {"peer closed", "failed"}
        BY <2>1, <3>1, <4>1 DEF Finish
      <4> QED  BY <4>2 DEF WatchInv, InCall
    <3>2. CASE a = Reader /\ ok /\ job[a].op = "pong"
      <4>1. UNCHANGED <<call, watchers, expired>> /\ InCall
        BY <2>1, <3>2 DEF Finish, TalkInv, InCall
      <4> QED  BY <4>1 DEF WatchInv
    <3>3. CASE a # Reader
      BY <2>1, <3>3 DEF Finish, WatchInv, InCall
    <3> QED  BY <3>1, <3>2, <3>3
  <2>2. CASE WriteHeader(a)
    <3>1. CASE job[a].len = 0
      BY <2>1, <2>2, <3>1 DEF WriteHeader
    <3>2. CASE job[a].len # 0
      BY <2>2, <3>2 DEF WriteHeader, readVars, ctxVars, WatchInv, InCall
    <3> QED  BY <3>1, <3>2
  <2>3. CASE WritePayload(a) \/ WriteFails(a)
    BY <2>1, <2>3 DEF WritePayload, WriteFails
  <2> QED  BY <1>8, <2>2, <2>3 DEF Write
<1>9. ASSUME NEW a \in Actors, Acquire(a) PROVE WatchInv'
  BY <1>9 DEF Acquire, readVars, ctxVars, WatchInv, InCall
<1>10. ASSUME NEW w \in Writers, WriteMessage(w) PROVE WatchInv'
  BY <1>10 DEF WriteMessage, readVars, ctxVars, WatchInv, InCall
<1>11. ASSUME NEW c \in Closers, Close(c) \/ CloseReturns(c) PROVE WatchInv'
  <2>1. UNCHANGED <<reader, call, watchers, expired>>
    BY <1>11 DEF Close, CloseReturns, readVars, ctxVars
  <2> QED  BY <2>1 DEF WatchInv, InCall
<1>12. CASE UNCHANGED vars
  BY <1>12 DEF vars, readVars, ctxVars, WatchInv, InCall
<1> QED  BY <1>1, <1>2, <1>3, <1>4, <1>5, <1>6, <1>7, <1>8, <1>9, <1>10, <1>11, <1>12 DEF Next

\* InterruptKept, for every set of contexts with and without deadlines and every
\* number of calls: a call whose context has ended has the deadline in the past,
\* or its watcher still to set it, whatever the watchers of earlier calls do.
THEOREM InterruptHeld == Spec => []InterruptKept
<1>1. Init => WatchInv
  BY DEF Init, WatchInv, InCall
<1>2. WatchInv => InterruptKept
  BY DEF WatchInv, InterruptKept
<1>3. ConnInv /\ WatchInv /\ [Next]_vars => WatchInv'
  BY WatchNext DEF ConnInv
<1> QED  BY <1>1, <1>2, <1>3, ConnHolds, PTL DEF Spec

-----------------------------------------------------------------------------
(* Every ping has its pong                                                 *)

\* The ping the reader has yet to answer is the frame it read last.
Pending ==
  IF reader = "answering" /\ job[Reader].stage # "payload" THEN {Len(heard)} ELSE {}

\* The pongs are the answers to the pings read, but for the pending one.
PongInv ==
  reader \notin Ended =>
    /\ Pending \subseteq Pings
    /\ Pending # {} => job[Reader].len = heard[Len(heard)].len
    /\ Len(pongs) = Cardinality(Pings \ Pending)
    /\ \A i \in Pings \ Pending : pongs[Rank(Pings, i)] = heard[i].len

\* How ranks count: from 1 to the number of the frames, the last one last.
LEMMA Ranks ==
  ASSUME NEW P, IsFiniteSet(P), NEW i \in P, P \subseteq Nat
  PROVE  /\ Rank(P, i) \in 1 .. Cardinality(P)
         /\ (\A j \in P : j <= i) => Rank(P, i) = Cardinality(P)
         /\ \A l \in P : i < l => Rank(P, i) \in 1 .. Cardinality(P \ {l})
<1> DEFINE B == {j \in P : j <= i}
<1>1. IsFiniteSet(B) /\ Cardinality(B) \in Nat /\ Cardinality(B) <= Cardinality(P)
      /\ Cardinality(P) \in Nat
  BY FS_Subset, FS_CardinalityType
<1>2. Cardinality(B) # 0
  <2>1. i \in B
    OBVIOUS
  <2> QED  BY <1>1, <2>1, FS_EmptySet
<1>3. (\A j \in P : j <= i) => B = P
  OBVIOUS
<1>4. ASSUME NEW l \in P, i < l PROVE Cardinality(B) <= Cardinality(P \ {l})
                                      /\ Cardinality(P \ {l}) \in Nat
  <2>1. B \subseteq P \ {l} /\ IsFiniteSet(P \ {l})
    BY <1>4, FS_Subset
  <2> QED  BY <2>1, FS_Subset, FS_CardinalityType
<1>5. Rank(P, i) = Cardinality(B)
  BY DEF Rank
<1> HIDE DEF B
<1> QED  BY <1>1, <1>2, <1>3, <1>4, <1>5

\* The pings are numbers of frames.
LEMMA PingsFinite ==
  ASSUME TalkInv
  PROVE  /\ IsFiniteSet(Pings) /\ Pings \subseteq 1 .. Len(heard) /\ Pings \subseteq Nat
         /\ Len(heard) \in Nat /\ Cardinality(Pings) \in Nat
<1>1. Len(heard) \in Nat /\ DOMAIN heard = 1 .. Len(heard)
  BY LenProperties DEF TalkInv
<1>2. IsFiniteSet(1 .. Len(heard))
  BY <1>1, FS_Interval
<1>3. Pings \subseteq 1 .. Len(heard)
  BY <1>1 DEF Pings
<1>4. IsFiniteSet(Pings)
  BY <1>2, <1>3, FS_Subset
<1> QED  BY <1>1, <1>3, <1>4, FS_CardinalityType

\* A frame read changes the rank of no ping before it.
LEMMA PingsGrow ==
  ASSUME TalkInv, NEW f \in PeerFrames, heard' = Append(heard, f)
  PROVE  /\ Pings' = IF f.op = "ping" THEN Pings \cup {Len(heard) + 1} ELSE Pings
         /\ Len(heard') = Len(heard) + 1 /\ heard'[Len(heard) + 1] = f
         /\ \A i \in Pings : heard'[i] = heard[i] /\ Rank(Pings', i) = Rank(Pings, i)
         /\ Len(heard) + 1 \notin Pings
<1>1. /\ DOMAIN heard = 1 .. Len(heard) /\ DOMAIN heard' = 1 .. Len(heard) + 1
      /\ Len(heard) \in Nat /\ \A i \in DOMAIN heard : heard'[i] = heard[i]
      /\ heard'[Len(heard) + 1] = f
  BY Appended DEF TalkInv
<1>2. Pings' = IF f.op = "ping" THEN Pings \cup {Len(heard) + 1} ELSE Pings
  BY <1>1 DEF Pings
<1>3. \A i \in Pings : i \in 1 .. Len(heard)
  BY <1>1 DEF Pings
<1>4. \A i \in Pings : {j \in Pings' : j <= i} = {j \in Pings : j <= i}
  BY <1>1, <1>2, <1>3
<1>5. Len(heard') = Len(heard) + 1
  BY AppendProperties DEF TalkInv
<1>6. \A i \in Pings : Rank(Pings', i) = Rank(Pings, i)
  BY <1>4 DEF Rank
<1>7. Len(heard) + 1 \notin Pings /\ \A i \in Pings : heard'[i] = heard[i]
  BY <1>1, <1>3
<1> QED  BY <1>1, <1>2, <1>5, <1>6, <1>7

\* A frame that is no ping, taken while nothing is pending, leaves the pongs
\* right.
LEMMA PongsStay ==
  ASSUME TalkInv, PongInv, reader = "reading", NEW f \in PeerFrames, heard' = Append(heard, f),
         f.op # "ping", pongs' = pongs, reader' # "answering"
  PROVE  PongInv'
<1>1. Pending = {} /\ Pending' = {}
  BY DEF Pending
<1>2. reader \notin Ended
  BY DEF Ended
<1>3. Len(pongs) = Cardinality(Pings) /\ \A i \in Pings : pongs[Rank(Pings, i)] = heard[i].len
  BY <1>1, <1>2 DEF PongInv
<1>4. Pings' = Pings /\ \A i \in Pings : heard'[i] = heard[i] /\ Rank(Pings', i) = Rank(Pings, i)
  BY PingsGrow
<1>5. Len(pongs') = Cardinality(Pings') /\ \A i \in Pings' : pongs'[Rank(Pings', i)] = heard'[i].len
  BY <1>3, <1>4
<1> QED  BY <1>1, <1>5 DEF PongInv

\* Every step keeps the pongs in order.
LEMMA PongNext == LockInv /\ OnceInv /\ TalkInv /\ PongInv /\ [Next]_vars => PongInv'
<1> SUFFICES ASSUME LockInv, OnceInv, TalkInv, PongInv, [Next]_vars, reader' \notin Ended
             PROVE  PongInv'
  BY DEF PongInv
<1>0. Reader \in Actors /\ job \in [Actors -> Jobs]
  BY ActorsNamed DEF LockInv
<1>1. CASE Aside
  <2>1. UNCHANGED <<reader, heard, pongs>> /\ job'[Reader].len = job[Reader].len
        /\ (job'[Reader].stage = "payload" <=> job[Reader].stage = "payload")
    BY <1>1 DEF Aside
  <2>2. Pings' = Pings /\ Pending' = Pending
    BY <2>1 DEF Pings, Pending
  <2>3. \A i : Rank(Pings', i) = Rank(Pings, i)
    BY <2>2
  <2> QED  BY <2>1, <2>2, <2>3 DEF PongInv
<1>2. CASE Between
  <2>1. UNCHANGED <<heard, pongs, job>> /\ reader \in {"dial", "idle"} /\ reader' # "answering"
    BY <1>2 DEF Between, Ended
  <2>2. reader \notin Ended /\ reader # "answering"
    BY <2>1 DEF Ended
  <2> QED  BY <2>1, <2>2 DEF PongInv, Pending, Pings, Rank
<1>3. CASE ReadData
  <2>1. PICK f \in PeerFrames :
          /\ reader = "reading" /\ f.op \in Data /\ heard' = Append(heard, f) /\ pongs' = pongs
          /\ reader' \in {"idle", reader}
    BY <1>3, DataRead
  <2>2. f.op # "ping" /\ reader' # "answering"
    BY <2>1 DEF Data
  <2> QED  BY <2>1, <2>2, PongsStay
<1>4. ASSUME NEW f \in PeerFrames, Takes(f) PROVE PongInv'
  <2>1. reader = "reading" /\ heard' = Append(heard, f) /\ pongs' = pongs
    BY <1>4 DEF Takes
  <2>2. CASE reader' # "answering"
    <3>1. f.op # "ping"
      BY <1>4, <2>2 DEF Takes, Ended
    <3> QED  BY <2>1, <2>2, <3>1, PongsStay
  <2>3. CASE reader' = "answering"
    <3>1. f.op = "ping" /\ job' = [job EXCEPT ![Reader] = [op |-> "pong", len |-> f.len, stage |-> "lock"]]
      BY <1>4, <2>1, <2>3 DEF Takes
    <3>2. job'[Reader].stage = "lock" /\ job'[Reader].len = f.len
      BY <1>0, <3>1
    <3>3. /\ Pings' = Pings \cup {Len(heard) + 1} /\ Len(heard') = Len(heard) + 1
          /\ heard'[Len(heard) + 1] = f /\ Len(heard) + 1 \notin Pings
          /\ \A i \in Pings : heard'[i] = heard[i] /\ Rank(Pings', i) = Rank(Pings, i)
      BY <2>1, <3>1, PingsGrow
    <3>4. Pending' = {Len(heard) + 1}
      BY <2>3, <3>2, <3>3 DEF Pending
    <3>5. Pings' \ Pending' = Pings
      BY <3>3, <3>4
    <3>6. Len(pongs) = Cardinality(Pings) /\ \A i \in Pings : pongs[Rank(Pings, i)] = heard[i].len
      <4>1. Pending = {} /\ reader \notin Ended
        BY <2>1 DEF Pending, Ended
      <4> QED  BY <4>1 DEF PongInv
    <3>7. \A i \in Pings : pongs'[Rank(Pings', i)] = heard'[i].len
      BY <2>1, <3>3, <3>6
    <3>8. Len(pongs') = Cardinality(Pings)
      BY <2>1, <3>6
    <3> QED  BY <3>2, <3>3, <3>4, <3>5, <3>7, <3>8 DEF PongInv
  <2> QED  BY <2>2, <2>3
<1>5. CASE Says
  <2>1. heard' = heard /\ job[Reader].stage \in {"header", "payload"}
        /\ reader \in {"answering", "echoing"} /\ reader \notin Ended
    BY <1>5 DEF Says, TalkInv, Ended
  <2>2. Pings' = Pings /\ \A i \in Pings : Rank(Pings', i) = Rank(Pings, i)
    BY <2>1 DEF Pings, Rank
  <2>3. Pending' = {}
    <3>1. reader' = "answering" => job'[Reader].stage = "payload"
      BY <1>0, <1>5 DEF Says, Jobs
    <3> QED  BY <3>1 DEF Pending
  <2>4. CASE reader = "echoing"
    <3>1. Pending = {} /\ pongs' = pongs
      BY <1>5, <2>4 DEF Pending, Says, TalkInv
    <3> QED  BY <2>1, <2>2, <2>3, <3>1 DEF PongInv
  <2>5. CASE reader = "answering" /\ job[Reader].stage = "payload"
    <3>1. Pending = {} /\ pongs' = pongs
      BY <1>5, <2>5 DEF Pending, Says
    <3> QED  BY <2>1, <2>2, <2>3, <3>1 DEF PongInv
  <2>6. CASE reader = "answering" /\ job[Reader].stage = "header"
    <3> DEFINE last == Len(heard)
    <3>1. job[Reader].op = "pong" /\ pongs' = Append(pongs, job[Reader].len)
      BY <1>5, <2>6 DEF Says, TalkInv, Ended
    <3>2. /\ Pending = {last} /\ last \in Pings /\ job[Reader].len = heard[last].len
          /\ Len(pongs) = Cardinality(Pings \ {last})
          /\ \A i \in Pings \ {last} : pongs[Rank(Pings, i)] = heard[i].len
      BY <2>1, <2>6 DEF PongInv, Pending
    <3>3. /\ IsFiniteSet(Pings) /\ Pings \subseteq Nat /\ \A i \in Pings : i <= last
          /\ Cardinality(Pings) \in Nat
      BY PingsFinite
    <3>4. Cardinality(Pings \ {last}) = Cardinality(Pings) - 1
      BY <3>2, <3>3, FS_RemoveElement
    <3>5. Rank(Pings, last) = Cardinality(Pings)
      BY <3>2, <3>3, Ranks
    <3>6. \A i \in Pings \ {last} : Rank(Pings, i) \in 1 .. Cardinality(Pings \ {last})
      <4>1. \A i \in Pings \ {last} : i < last
        BY <3>2, <3>3
      <4> QED  BY <3>2, <3>3, <4>1, Ranks
    <3>7. /\ Len(pongs') = Cardinality(Pings) /\ pongs'[Cardinality(Pings)] = job[Reader].len
          /\ \A k \in 1 .. Len(pongs) : pongs'[k] = pongs[k]
      <4>1. pongs \in Seq(Int) /\ job[Reader].len \in Int
        BY <1>0 DEF TalkInv, Jobs
      <4>2. /\ Len(pongs') = Len(pongs) + 1 /\ pongs'[Len(pongs) + 1] = job[Reader].len
            /\ \A k \in 1 .. Len(pongs) : pongs'[k] = pongs[k]
        BY <3>1, <4>1, AppendProperties
      <4>3. Len(pongs) + 1 = Cardinality(Pings)
        BY <3>2, <3>3, <3>4
      <4> QED  BY <4>2, <4>3
    <3>8. \A i \in Pings : pongs'[Rank(Pings, i)] = heard[i].len
      <4>1. pongs'[Rank(Pings, last)] = heard[last].len
        BY <3>2, <3>5, <3>7
      <4>2. \A i \in Pings \ {last} : pongs'[Rank(Pings, i)] = heard[i].len
        BY <3>2, <3>6, <3>7
      <4> QED  BY <4>1, <4>2
    <3> QED  BY <2>1, <2>2, <2>3, <3>7, <3>8 DEF PongInv
  <2> QED  BY <2>1, <2>4, <2>5, <2>6
<1> QED  BY <1>1, <1>2, <1>3, <1>4, <1>5, StepKinds

\* PingsAnswered, however the pongs wait for the lock among any number of
\* writers: the reader takes no frame before every ping has its answer.
THEOREM PongsInOrder == Spec => []PingsAnswered
<1>1. Init => PongInv
  <2> SUFFICES ASSUME Init PROVE PongInv
    OBVIOUS
  <2>1. heard = <<>> /\ pongs = <<>> /\ reader = "dial"
    BY DEF Init
  <2>2. Pings = {} /\ Pending = {}
    BY <2>1 DEF Pings, Pending
  <2>3. Cardinality(Pings \ Pending) = 0
    BY <2>2, FS_EmptySet
  <2> QED  BY <2>1, <2>2, <2>3 DEF PongInv
<1>2. ConnInv /\ PongInv /\ [Next]_vars => PongInv'
  BY PongNext DEF ConnInv
<1>3. PongInv => PingsAnswered
  <2> SUFFICES ASSUME PongInv, reader \in {"idle", "reading"}
               PROVE  Len(pongs) = Cardinality(Pings)
                      /\ \A i \in Pings : pongs[Rank(Pings, i)] = heard[i].len
    BY DEF PingsAnswered
  <2>1. Pending = {} /\ reader \notin Ended
    BY DEF Pending, Ended
  <2> QED  BY <2>1 DEF PongInv
<1> QED  BY <1>1, <1>2, <1>3, ConnHolds, PTL DEF Spec

-----------------------------------------------------------------------------
(* Every message whole                                                     *)

\* The sequences of ms hold the members of D, each once and in order.
Covers(D, ms) ==
  /\ \A x : x \in D <=> \E i \in DOMAIN ms : \E k \in DOMAIN ms[i] : ms[i][k] = x
  /\ \A i \in DOMAIN ms : \A k, l \in DOMAIN ms[i] : k < l => ms[i][k] < ms[i][l]
  /\ \A i, j \in DOMAIN ms : i < j =>
       \A k \in DOMAIN ms[i] : \A l \in DOMAIN ms[j] : ms[i][k] < ms[j][l]

\* InOrderRead says it of the data frames.
LEMMA InOrderCovers == ASSUME NEW ms PROVE InOrderRead(ms) <=> Covers(DataHeard, ms)
<1>1. \A x : x \in UNION {{ms[i][k] : k \in DOMAIN ms[i]} : i \in DOMAIN ms}
               <=> \E i \in DOMAIN ms : \E k \in DOMAIN ms[i] : ms[i][k] = x
  OBVIOUS
<1>2. DataHeard = UNION {{ms[i][k] : k \in DOMAIN ms[i]} : i \in DOMAIN ms}
        <=> \A x : x \in DataHeard <=> \E i \in DOMAIN ms : \E k \in DOMAIN ms[i] : ms[i][k] = x
  BY <1>1
<1> QED  BY <1>2 DEF InOrderRead, Covers

\* A larger number goes to the end of the last sequence.
LEMMA CoversOne ==
  ASSUME NEW D, NEW o \in Seq(Seq(Nat)), NEW p \in Seq(Nat), NEW n \in Nat,
         Covers(D, Append(o, p)), \A d \in D : d \in Nat /\ d < n
  PROVE  Covers(D \cup {n}, Append(o, Append(p, n)))
<1> DEFINE m == Len(o)
           q == Append(p, n)
           a == Append(o, p)
           b == Append(o, q)
<1>1. /\ q \in Seq(Nat) /\ Len(p) \in Nat /\ DOMAIN p = 1 .. Len(p)
      /\ DOMAIN q = 1 .. Len(p) + 1 /\ q[Len(p) + 1] = n /\ \A k \in DOMAIN p : q[k] = p[k]
  BY Appended
<1>2. /\ m \in Nat /\ DOMAIN o = 1 .. m /\ DOMAIN a = 1 .. m + 1 /\ a[m + 1] = p
      /\ \A i \in 1 .. m : a[i] = o[i]
  BY Appended
<1>3. DOMAIN b = 1 .. m + 1 /\ b[m + 1] = q /\ \A i \in 1 .. m : b[i] = o[i]
  BY <1>1, Appended
<1>4. /\ \A x : x \in D <=> \E i \in DOMAIN a : \E k \in DOMAIN a[i] : a[i][k] = x
      /\ \A i \in DOMAIN a : \A k, l \in DOMAIN a[i] : k < l => a[i][k] < a[i][l]
      /\ \A i, j \in DOMAIN a : i < j =>
           \A k \in DOMAIN a[i] : \A l \in DOMAIN a[j] : a[i][k] < a[j][l]
  BY DEF Covers
<1> HIDE DEF a, b, q, m
<1>5. \A i \in DOMAIN a : \A k \in DOMAIN a[i] : a[i][k] \in D /\ a[i][k] < n
  BY <1>4
<1>5a. \A k \in DOMAIN p : p[k] \in D /\ p[k] < n
  <2>1. m + 1 \in DOMAIN a
    BY <1>2
  <2> QED  BY <1>2, <1>5, <2>1
<1>5b. \A k \in DOMAIN q : (k \in DOMAIN p /\ q[k] = p[k]) \/ (k = Len(p) + 1 /\ q[k] = n)
  BY <1>1
<1>6. \A x : x \in D \cup {n} <=> \E i \in DOMAIN b : \E k \in DOMAIN b[i] : b[i][k] = x
  <2>1. ASSUME NEW i \in DOMAIN b, NEW k \in DOMAIN b[i] PROVE b[i][k] \in D \cup {n}
    <3>1. CASE i = m + 1
      <4>1. b[i] = q
        BY <1>3, <3>1
      <4> QED  BY <1>5a, <1>5b, <4>1
    <3>2. CASE i # m + 1
      <4>1. i \in 1 .. m /\ i \in DOMAIN a /\ b[i] = a[i]
        BY <1>2, <1>3, <3>2
      <4> QED  BY <1>5, <4>1
    <3> QED  BY <3>1, <3>2
  <2>2. ASSUME NEW i \in DOMAIN a, NEW k \in DOMAIN a[i]
        PROVE  \E j \in DOMAIN b : \E l \in DOMAIN b[j] : b[j][l] = a[i][k]
    <3>1. CASE i \in 1 .. m
      <4>1. i \in DOMAIN b /\ b[i] = a[i]
        BY <1>2, <1>3, <3>1
      <4> QED  BY <4>1
    <3>2. CASE i = m + 1
      <4>1. a[i] = p /\ i \in DOMAIN b /\ b[i] = q
        BY <1>2, <1>3, <3>2
      <4>2. k \in DOMAIN q /\ q[k] = p[k]
        BY <1>1, <4>1
      <4> QED  BY <4>1, <4>2
    <3> QED  BY <1>2, <3>1, <3>2
  <2>3. m + 1 \in DOMAIN b /\ Len(p) + 1 \in DOMAIN b[m + 1] /\ b[m + 1][Len(p) + 1] = n
    BY <1>1, <1>2, <1>3
  <2> QED  BY <1>4, <2>1, <2>2, <2>3
<1>7. ASSUME NEW i \in DOMAIN b, NEW k \in DOMAIN b[i], NEW l \in DOMAIN b[i], k < l
      PROVE  b[i][k] < b[i][l]
  <2>1. CASE i \in 1 .. m
    BY <1>2, <1>3, <1>4, <1>7, <2>1
  <2>2. CASE i = m + 1
    <3>1. b[i] = q /\ a[m + 1] = p /\ m + 1 \in DOMAIN a
      BY <1>2, <1>3, <2>2
    <3>2. k \in DOMAIN p /\ q[k] = p[k] /\ p[k] < n
      <4>1. k # Len(p) + 1
        BY <1>1, <1>7, <3>1
      <4> QED  BY <1>5a, <1>5b, <3>1, <4>1
    <3>3. CASE l = Len(p) + 1
      BY <1>1, <3>1, <3>2, <3>3
    <3>4. CASE l # Len(p) + 1
      <4>1. l \in DOMAIN p /\ q[l] = p[l]
        BY <1>5b, <3>1, <3>4
      <4>2. p[k] < p[l]
        BY <1>4, <1>7, <3>1, <3>2, <4>1
      <4> QED  BY <3>1, <3>2, <4>1, <4>2
    <3> QED  BY <3>3, <3>4
  <2> QED  BY <1>2, <1>3, <2>1, <2>2
<1>8. ASSUME NEW i \in DOMAIN b, NEW j \in DOMAIN b, i < j,
             NEW k \in DOMAIN b[i], NEW l \in DOMAIN b[j]
      PROVE  b[i][k] < b[j][l]
  <2>1. i \in 1 .. m /\ i \in DOMAIN a /\ j \in DOMAIN a /\ b[i] = a[i]
    BY <1>2, <1>3, <1>8
  <2>2. CASE j = m + 1
    <3>1. b[j] = q /\ a[j] = p
      BY <1>2, <1>3, <2>2
    <3>2. b[i][k] < n
      BY <1>5, <2>1
    <3>3. l \in DOMAIN p => a[i][k] < p[l]
      BY <1>4, <1>8, <2>1, <3>1
    <3> QED  BY <1>5b, <2>1, <3>1, <3>2, <3>3
  <2>3. CASE j # m + 1
    <3>1. b[j] = a[j]
      BY <1>2, <1>3, <2>3
    <3> QED  BY <1>4, <1>8, <2>1, <3>1
  <2> QED  BY <2>2, <2>3
<1> QED  BY <1>6, <1>7, <1>8 DEF Covers, b, q

\* An empty sequence at the end adds nothing.
LEMMA CoversEmpty ==
  ASSUME NEW D, NEW o \in Seq(Seq(Nat)), Covers(D, o)
  PROVE  Covers(D, Append(o, <<>>))
<1> DEFINE m == Len(o)
           b == Append(o, <<>>)
<1>1. <<>> \in Seq(Nat) /\ DOMAIN <<>> = {}
  OBVIOUS
<1>2. /\ m \in Nat /\ DOMAIN o = 1 .. m /\ DOMAIN b = 1 .. m + 1 /\ b[m + 1] = <<>>
      /\ \A i \in 1 .. m : b[i] = o[i]
  BY <1>1, Appended
<1> HIDE DEF b, m
<1>3. \A i \in DOMAIN b : \A k \in DOMAIN b[i] : i \in DOMAIN o /\ b[i] = o[i]
  BY <1>1, <1>2
<1>4. \A i \in DOMAIN o : i \in DOMAIN b /\ b[i] = o[i]
  BY <1>2
<1>5. /\ \A x : x \in D <=> \E i \in DOMAIN o : \E k \in DOMAIN o[i] : o[i][k] = x
      /\ \A i \in DOMAIN o : \A k, l \in DOMAIN o[i] : k < l => o[i][k] < o[i][l]
      /\ \A i, j \in DOMAIN o : i < j =>
           \A k \in DOMAIN o[i] : \A l \in DOMAIN o[j] : o[i][k] < o[j][l]
  BY DEF Covers
<1>6. \A x : x \in D <=> \E i \in DOMAIN b : \E k \in DOMAIN b[i] : b[i][k] = x
  BY <1>3, <1>4, <1>5
<1>7. \A i \in DOMAIN b : \A k, l \in DOMAIN b[i] : k < l => b[i][k] < b[i][l]
  BY <1>3, <1>5
<1>8. \A i, j \in DOMAIN b : i < j =>
           \A k \in DOMAIN b[i] : \A l \in DOMAIN b[j] : b[i][k] < b[j][l]
  BY <1>3, <1>5
<1> QED  BY <1>6, <1>7, <1>8 DEF Covers, b

\* The lengths of the frames of h that s names.
Lengths(h, s) == [k \in DOMAIN s |-> h[s[k]].len]

\* The bytes of a message do not change while frames are read, and a frame
\* that joins it adds its own.
LEMMA SumStep ==
  ASSUME TalkInv, NEW f \in PeerFrames, NEW s \in Seq(Nat),
         \A k \in DOMAIN s : s[k] \in DOMAIN heard
  PROVE  LET h == Append(heard, f)
             t == Append(s, Len(heard) + 1)
         IN  /\ Total(Len(s), Lengths(h, s)) = Total(Len(s), Lengths(heard, s))
             /\ Total(Len(t), Lengths(h, t)) = Total(Len(s), Lengths(heard, s)) + f.len
<1> DEFINE n == Len(s)
           h == Append(heard, f)
           t == Append(s, Len(heard) + 1)
<1>1. /\ DOMAIN heard = 1 .. Len(heard) /\ Len(heard) \in Nat /\ h[Len(heard) + 1] = f
      /\ \A i \in DOMAIN heard : h[i] = heard[i]
  BY Appended DEF TalkInv
<1>2. Len(heard) + 1 \in Nat
  BY <1>1
<1>3. /\ n \in Nat /\ DOMAIN s = 1 .. n /\ DOMAIN t = 1 .. n + 1 /\ t[n + 1] = Len(heard) + 1
      /\ \A k \in 1 .. n : t[k] = s[k]
  BY <1>2, Appended
<1>4. Len(t) = n + 1
  BY <1>2, AppendProperties
<1> HIDE DEF n, h, t
<1>5. \A k \in 1 .. n : Lengths(heard, s)[k] = Lengths(h, s)[k] /\ Lengths(heard, s)[k] = Lengths(h, t)[k]
  <2> SUFFICES ASSUME NEW k \in 1 .. n
               PROVE  Lengths(heard, s)[k] = Lengths(h, s)[k] /\ Lengths(heard, s)[k] = Lengths(h, t)[k]
    OBVIOUS
  <2>1. s[k] \in DOMAIN heard /\ h[s[k]] = heard[s[k]] /\ t[k] = s[k] /\ k \in DOMAIN t
    <3>1. k \in DOMAIN s /\ k \in DOMAIN t /\ t[k] = s[k]
      BY <1>3
    <3>2. s[k] \in DOMAIN heard
      BY <3>1
    <3> QED  BY <1>1, <3>1, <3>2
  <2>2. Lengths(heard, s)[k] = heard[s[k]].len /\ Lengths(h, s)[k] = h[s[k]].len
    BY <1>3 DEF Lengths
  <2>3. Lengths(h, t)[k] = h[t[k]].len
    BY <2>1 DEF Lengths
  <2> QED  BY <2>1, <2>2, <2>3
<1>6. Lengths(h, t)[n + 1] = f.len
  BY <1>1, <1>3 DEF Lengths
<1>7. Total(n, Lengths(heard, s)) = Total(n, Lengths(h, s))
  BY <1>3, <1>5, TotalStep
<1>8. Total(n + 1, Lengths(h, t)) = Total(n, Lengths(heard, s)) + Lengths(h, t)[n + 1]
  <2>1. \A k \in 1 .. n : Lengths(heard, s)[k] = Lengths(h, t)[k]
    BY <1>5
  <2> DEFINE v == Lengths(heard, s)
             w == Lengths(h, t)
  <2>2. n \in Nat /\ \A k \in 1 .. n : v[k] = w[k]
    BY <1>3, <2>1
  <2> HIDE DEF v, w
  <2>3. Total(n + 1, w) = Total(n, v) + w[n + 1]
    BY <2>2, TotalStep
  <2> QED  BY <2>3 DEF v, w
<1> QED  BY <1>4, <1>6, <1>7, <1>8 DEF n, h, t

\* A whole message, and one that is still open, of frames of h.
Bytes(h, m) == Total(Len(m), Lengths(h, m))
Message(h, m) ==
  /\ Bytes(h, m) <= MaxMessage
  /\ \A k \in DOMAIN m : /\ h[m[k]].op = "continuation" <=> k > 1
                         /\ h[m[k]].fin <=> k = Len(m)
Opened(h, m) ==
  /\ Bytes(h, m) \in Int /\ Bytes(h, m) <= MaxMessage
  /\ \A k \in DOMAIN m : /\ h[m[k]].op = "continuation" <=> k > 1
                         /\ ~ h[m[k]].fin

\* The messages returned are whole, the one in progress is open, and together
\* they hold the data frames read.
WholeInv ==
  /\ reader \notin Ended => Covers(DataHeard, Append(out, partial))
  /\ \A i \in DOMAIN out : Message(heard, out[i])
  /\ Opened(heard, partial)

\* A frame more changes no message of the frames before it.
LEMMA MessageKept ==
  ASSUME TalkInv, NEW f \in PeerFrames, NEW s \in Seq(Nat),
         \A k \in DOMAIN s : s[k] \in DOMAIN heard
  PROVE  /\ Message(heard, s) => Message(Append(heard, f), s)
         /\ Opened(heard, s) => Opened(Append(heard, f), s)
<1> DEFINE h == Append(heard, f)
<1>1. Bytes(h, s) = Bytes(heard, s)
  BY SumStep DEF Bytes
<1>2. \A k \in DOMAIN s : h[s[k]] = heard[s[k]]
  BY Appended DEF TalkInv
<1> HIDE DEF h
<1>3. Message(heard, s) => Message(h, s)
  BY <1>1, <1>2 DEF Message
<1>4. Opened(heard, s) => Opened(h, s)
  BY <1>1, <1>2 DEF Opened
<1> QED  BY <1>3, <1>4 DEF h

\* What the frame that joins makes of the message in progress.
LEMMA MessageGrows ==
  ASSUME TalkInv, Opened(heard, partial), NEW f \in PeerFrames,
         f.op \in Data, Admissible(f), InOrder(f)
  PROVE  LET h == Append(heard, f)
             t == Append(partial, Len(heard) + 1)
         IN  IF f.fin THEN Message(h, t) ELSE Opened(h, t)
<1> DEFINE h == Append(heard, f)
           t == Append(partial, Len(heard) + 1)
           n == Len(partial)
<1>1. f.len \in Int /\ f.fin \in BOOLEAN /\ MaxMessage \in Nat
  BY WsConnAssumption
<1>2. /\ DOMAIN heard = 1 .. Len(heard) /\ Len(heard) \in Nat /\ h[Len(heard) + 1] = f
      /\ \A i \in DOMAIN heard : h[i] = heard[i]
  BY Appended DEF TalkInv
<1>3. partial \in Seq(Nat) /\ \A k \in DOMAIN partial : partial[k] \in DOMAIN heard
  BY DEF TalkInv
<1>4. Len(heard) + 1 \in Nat
  BY <1>2
<1>5. /\ n \in Nat /\ DOMAIN partial = 1 .. n /\ DOMAIN t = 1 .. n + 1
      /\ t[n + 1] = Len(heard) + 1 /\ \A k \in 1 .. n : t[k] = partial[k]
  BY <1>3, <1>4, Appended
<1>6. Len(t) = n + 1
  BY <1>3, <1>4, AppendProperties
<1>7. Bytes(h, t) = Bytes(heard, partial) + f.len
  BY <1>3, SumStep DEF Bytes
<1>8. Bytes(heard, partial) \in Int /\ f.len \in 0 .. MaxMessage - Bytes(heard, partial)
  BY DEF Opened, Admissible, Sum, Bytes, Lengths
<1>9. f.op = "continuation" <=> n + 1 > 1
  <2>1. partial = <<>> <=> n = 0
    BY <1>3, EmptySeq
  <2>2. f.op = "continuation" => partial # <<>>
    BY DEF InOrder
  <2>3. f.op # "continuation" => f.op \in {"text", "binary"}
    BY DEF Data
  <2>4. f.op \in {"text", "binary"} => partial = <<>>
    BY DEF InOrder
  <2> QED  BY <1>5, <2>1, <2>2, <2>3, <2>4
<1> HIDE DEF h, t, n
<1>10. Bytes(h, t) \in Int /\ Bytes(h, t) <= MaxMessage
  BY <1>1, <1>7, <1>8
<1>11. ASSUME NEW k \in DOMAIN t
       PROVE  /\ h[t[k]].op = "continuation" <=> k > 1
              /\ h[t[k]].fin <=> (k = n + 1 /\ f.fin)
  <2>1. CASE k = n + 1
    <3>1. h[t[k]] = f
      BY <1>2, <1>5, <2>1
    <3> QED  BY <1>9, <2>1, <3>1
  <2>2. CASE k # n + 1
    <3>1. k \in DOMAIN partial /\ t[k] = partial[k]
      BY <1>5, <2>2
    <3>2. h[t[k]] = heard[partial[k]]
      BY <1>2, <1>3, <3>1
    <3> QED  BY <2>2, <3>1, <3>2 DEF Opened
  <2> QED  BY <2>1, <2>2
<1>12. CASE f.fin
  BY <1>6, <1>10, <1>11, <1>12 DEF Message, h, t, n
<1>13. CASE ~ f.fin
  BY <1>10, <1>11, <1>13 DEF Opened, h, t
<1> QED  BY <1>12, <1>13 DEF h, t

\* The data frames once one more frame is read.
LEMMA DataGrows ==
  ASSUME TalkInv, NEW f \in PeerFrames, heard' = Append(heard, f)
  PROVE  /\ DataHeard' = IF f.op \in Data THEN DataHeard \cup {Len(heard) + 1} ELSE DataHeard
         /\ \A d \in DataHeard : d \in Nat /\ d < Len(heard) + 1
<1>1. /\ DOMAIN heard = 1 .. Len(heard) /\ DOMAIN heard' = 1 .. Len(heard) + 1
      /\ Len(heard) \in Nat /\ \A i \in DOMAIN heard : heard'[i] = heard[i]
      /\ heard'[Len(heard) + 1] = f
  BY Appended DEF TalkInv
<1> QED  BY <1>1 DEF DataHeard

\* No message is open at the start of one.
LEMMA OpenedEmpty == ASSUME NEW h PROVE Opened(h, <<>>)
<1>1. Len(<<>>) = 0 /\ DOMAIN <<>> = {}
  OBVIOUS
<1>2. Bytes(h, <<>>) = 0
  BY <1>1, TotalStep DEF Bytes
<1>3. MaxMessage \in Nat
  BY WsConnAssumption
<1> QED  BY <1>1, <1>2, <1>3 DEF Opened

\* A step that reads no frame leaves the messages as they are.
LEMMA WholeStays ==
  ASSUME WholeInv, UNCHANGED <<heard, out>>, reader' \notin Ended => reader \notin Ended,
         partial' = partial \/ (partial' = <<>> /\ reader' \in Ended)
  PROVE  WholeInv'
<1>1. UNCHANGED DataHeard
  BY DEF DataHeard
<1>2. Opened(heard', partial')
  BY OpenedEmpty DEF WholeInv
<1> QED  BY <1>1, <1>2 DEF WholeInv

\* Every step keeps the messages whole.
LEMMA WholeNext == LockInv /\ OnceInv /\ TalkInv /\ WholeInv /\ [Next]_vars => WholeInv'
<1> SUFFICES ASSUME LockInv, OnceInv, TalkInv, WholeInv, [Next]_vars PROVE WholeInv'
  OBVIOUS
<1>1. CASE Aside
  BY <1>1, WholeStays DEF Aside
<1>2. CASE Between
  BY <1>2, WholeStays DEF Between, Ended
<1>3. CASE Says
  <2>1. UNCHANGED <<heard, out, partial>> /\ reader \notin Ended
    BY <1>3 DEF Says, TalkInv, Ended
  <2> QED  BY <2>1, WholeStays
<1>4. ASSUME NEW f \in PeerFrames, Takes(f) PROVE WholeInv'
  <2>1. heard' = Append(heard, f) /\ UNCHANGED <<partial, out>> /\ reader \notin Ended
    BY <1>4 DEF Takes, Ended
  <2>2. f.op \notin Data
    BY <1>4, OpsApart DEF Takes
  <2>3. DataHeard' = DataHeard
    BY <2>1, <2>2, DataGrows
  <2>4. \A i \in DOMAIN out : Message(heard', out[i])
    <3> SUFFICES ASSUME NEW i \in DOMAIN out PROVE Message(heard', out[i])
      OBVIOUS
    <3>1. out[i] \in Seq(Nat) /\ \A k \in DOMAIN out[i] : out[i][k] \in DOMAIN heard
      BY ElementOfSeq, LenProperties DEF TalkInv
    <3> QED  BY <2>1, <3>1, MessageKept DEF WholeInv
  <2>5. Opened(heard', partial')
    BY <2>1, MessageKept DEF WholeInv, TalkInv
  <2> QED  BY <2>1, <2>3, <2>4, <2>5 DEF WholeInv
<1>5. CASE ReadData
  <2> DEFINE message == Append(partial, Len(heard) + 1)
  <2>1. PICK f \in PeerFrames :
           /\ reader = "reading" /\ f.op \in Data /\ Admissible(f) /\ InOrder(f)
           /\ heard' = Append(heard, f) /\ message \in Seq(Nat)
           /\ IF f.fin THEN out' = Append(out, message) /\ reader' = "idle" /\ partial' = <<>>
              ELSE partial' = message /\ UNCHANGED <<reader, out>>
    BY <1>5, DataRead
  <2>2. out \in Seq(Seq(Nat)) /\ partial \in Seq(Nat) /\ Len(heard) + 1 \in Nat
    BY LenProperties DEF TalkInv
  <2>3. DataHeard' = DataHeard \cup {Len(heard) + 1}
        /\ \A d \in DataHeard : d \in Nat /\ d < Len(heard) + 1
    BY <2>1, DataGrows
  <2>4. Covers(DataHeard, Append(out, partial))
    BY <2>1 DEF WholeInv, Ended
  <2>5. Covers(DataHeard', Append(out, message))
    BY <2>2, <2>3, <2>4, CoversOne
  <2>6. IF f.fin THEN Message(heard', message) ELSE Opened(heard', message)
    BY <2>1, MessageGrows DEF WholeInv
  <2>7. \A i \in DOMAIN out : Message(heard', out[i])
    <3> SUFFICES ASSUME NEW i \in DOMAIN out PROVE Message(heard', out[i])
      OBVIOUS
    <3>1. out[i] \in Seq(Nat) /\ \A k \in DOMAIN out[i] : out[i][k] \in DOMAIN heard
      BY ElementOfSeq, LenProperties DEF TalkInv
    <3> QED  BY <2>1, <3>1, MessageKept DEF WholeInv
  <2> HIDE DEF message
  <2>8. CASE f.fin
    <3>1. out' = Append(out, message) /\ partial' = <<>> /\ message \in Seq(Nat)
      BY <2>1, <2>8
    <3>2. out' \in Seq(Seq(Nat)) /\ Covers(DataHeard', Append(out', partial'))
      <4>1. out' \in Seq(Seq(Nat))
        BY <2>2, <3>1, Appended
      <4> QED  BY <2>5, <3>1, <4>1, CoversEmpty
    <3>3. \A i \in DOMAIN out' : (i \in DOMAIN out /\ out'[i] = out[i]) \/ out'[i] = message
      BY <2>2, <3>1, Appended
    <3>4. \A i \in DOMAIN out' : Message(heard', out'[i])
      BY <2>6, <2>7, <2>8, <3>3
    <3> QED  BY <3>1, <3>2, <3>4, OpenedEmpty DEF WholeInv
  <2>9. CASE ~ f.fin
    <3>1. partial' = message /\ out' = out
      BY <2>1, <2>9
    <3> QED  BY <2>5, <2>6, <2>7, <2>9, <3>1 DEF WholeInv
  <2> QED  BY <2>8, <2>9
<1> QED  BY <1>1, <1>2, <1>3, <1>4, <1>5, StepKinds

\* MessagesWhole, whatever frames the peer sends and whoever writes meanwhile:
\* no data frame is lost or mixed into another message, and no message passes
\* the limit.
THEOREM WholeMessages == Spec => []MessagesWhole
<1>1. Init => WholeInv
  <2> SUFFICES ASSUME Init PROVE WholeInv
    OBVIOUS
  <2>1. heard = <<>> /\ partial = <<>> /\ out = <<>>
    BY DEF Init
  <2>2. DataHeard = {} /\ DOMAIN out = {}
    BY <2>1 DEF DataHeard
  <2>3. <<>> \in Seq(Seq(Nat)) /\ Covers({}, <<>>)
    BY DEF Covers
  <2>4. Covers(DataHeard, Append(out, partial))
    BY <2>1, <2>2, <2>3, CoversEmpty
  <2> QED  BY <2>1, <2>2, <2>4, OpenedEmpty DEF WholeInv
<1>2. ConnInv /\ WholeInv /\ [Next]_vars => WholeInv'
  BY WholeNext DEF ConnInv
<1>3. WholeInv => MessagesWhole
  <2> SUFFICES ASSUME WholeInv PROVE MessagesWhole
    OBVIOUS
  <2>1. reader \notin Ended => InOrderRead(Append(out, partial))
    BY InOrderCovers DEF WholeInv
  <2>2. \A m : Message(heard, m) => Sum(m) <= MaxMessage
    BY DEF Message, Bytes, Lengths, Sum
  <2> QED  BY <2>1, <2>2 DEF WholeInv, Message, MessagesWhole
<1> QED  BY <1>1, <1>2, <1>3, ConnHolds, PTL DEF Spec

=============================================================================
