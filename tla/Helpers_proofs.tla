---------------------------- MODULE Helpers_proofs ----------------------------
(***************************************************************************)
(* Proofs about the parts of Helpers: the webhook receiver, for every set  *)
(* of payloads and secrets, every tolerance and any number of deliveries;  *)
(* the event stream, for any number of events; the waits for a handshake,  *)
(* for every interval and any number of 429 answers; the page iterator,    *)
(* for every list, limit and change to the list; New, for every list of    *)
(* options; and the updates, for every type and any number of editors.     *)
(* Each part has an invariant of its own.  A part stands still while       *)
(* another is at work, so every lemma about a step begins by sorting the   *)
(* step of Next into one of the part's or none.                            *)
(***************************************************************************)
EXTENDS Helpers, SequenceTheorems, TLAPS

-----------------------------------------------------------------------------
(* Headers                                                                 *)

\* The only field of its kind is the last one.
LEMMA LastIsOnly ==
  ASSUME NEW h, NEW key, NEW k \in DOMAIN h, k \in Int,
         \A i \in DOMAIN h : h[i].key = key <=> i = k
  PROVE  LastOf(h, key) = h[k].value
<1>1. {i \in DOMAIN h : h[i].key = key} = {k}
  OBVIOUS
<1>2. (CHOOSE i \in {k} : \A j \in {k} : j <= i) = k
  OBVIOUS
<1> QED  BY <1>1, <1>2 DEF LastOf

\* Whatever became of a header on its way, its signature is one the sender
\* made.
LEMMA HeaderDigest ==
  ASSUME NEW h \in Headers, Parses(h)
  PROVE  LastOf(h, "v1") \in signed
<1> DEFINE own(d) == Field("t", d.t)
           mac(d) == Field("v1", d)
<1>1. PICK d \in signed :
        \/ h \in {<<own(d), mac(d)>>, <<mac(d), own(d)>>, <<Field("v0", d), own(d), mac(d)>>,
                  <<mac(d)>>, <<own(d)>>, <<Field("t", Unreadable), own(d), mac(d)>>}
        \/ \E t \in 0 .. Clock : h = <<own(d), mac(d), Field("t", t)>>
  BY DEF Headers
<1>2. mac(d).key = "v1" /\ mac(d).value = d /\ own(d).key = "t"
  BY DEF Field
<1>3. \A x : Field("v0", x).key # "v1" /\ Field("t", x).key # "v1"
  BY DEF Field
<1> HIDE DEF own, mac
<1>4. CASE h = <<own(d), mac(d)>>
  <2>1. DOMAIN h = 1 .. 2 /\ h[1] = own(d) /\ h[2] = mac(d)
    BY <1>4
  <2>2. 2 \in DOMAIN h /\ \A i \in DOMAIN h : h[i].key = "v1" <=> i = 2
    BY <1>2, <2>1
  <2> QED  BY <1>2, <2>1, <2>2, LastIsOnly
<1>5. CASE h = <<mac(d), own(d)>>
  <2>1. DOMAIN h = 1 .. 2 /\ h[1] = mac(d) /\ h[2] = own(d)
    BY <1>5
  <2>2. 1 \in DOMAIN h /\ \A i \in DOMAIN h : h[i].key = "v1" <=> i = 1
    BY <1>2, <2>1
  <2> QED  BY <1>2, <2>1, <2>2, LastIsOnly
<1>6. CASE h = <<Field("v0", d), own(d), mac(d)>> \/ h = <<Field("t", Unreadable), own(d), mac(d)>>
  <2>1. DOMAIN h = 1 .. 3 /\ h[1].key # "v1" /\ h[2] = own(d) /\ h[3] = mac(d)
    BY <1>3, <1>6
  <2>2. 3 \in DOMAIN h /\ \A i \in DOMAIN h : h[i].key = "v1" <=> i = 3
    BY <1>2, <2>1
  <2> QED  BY <1>2, <2>1, <2>2, LastIsOnly
<1>7. CASE h = <<mac(d)>>
  <2>1. DOMAIN h = 1 .. 1 /\ h[1] = mac(d)
    BY <1>7
  <2>2. 1 \in DOMAIN h /\ \A i \in DOMAIN h : h[i].key = "v1" <=> i = 1
    BY <1>2, <2>1
  <2> QED  BY <1>2, <2>1, <2>2, LastIsOnly
<1>8. h # <<own(d)>>
  <2>1. PICK i \in DOMAIN h : h[i].key = "v1"
    BY DEF Parses
  <2>2. h = <<own(d)>> => i = 1 /\ h[1] = own(d)
    BY <2>1
  <2> QED  BY <1>2, <2>1, <2>2
<1>9. ASSUME NEW t \in 0 .. Clock, h = <<own(d), mac(d), Field("t", t)>>
      PROVE  LastOf(h, "v1") \in signed
  <2>1. DOMAIN h = 1 .. 3 /\ h[1] = own(d) /\ h[2] = mac(d) /\ h[3].key # "v1"
    BY <1>3, <1>9
  <2>2. 2 \in DOMAIN h /\ \A i \in DOMAIN h : h[i].key = "v1" <=> i = 2
    BY <1>2, <2>1
  <2> QED  BY <1>2, <2>1, <2>2, LastIsOnly
<1> QED  BY <1>1, <1>4, <1>5, <1>6, <1>7, <1>8, <1>9

-----------------------------------------------------------------------------
(* Deliveries                                                              *)

HookInv ==
  /\ now \in Nat
  /\ \A d \in signed : d.t \in Nat
  /\ AcceptedSignedAndFresh

\* Nothing has been accepted at the start.
LEMMA HookStart == Init => HookInv
  BY DEF Init, HookInit, HookInv, AcceptedSignedAndFresh

\* A delivery is accepted only on a digest of its payload and instant.
LEMMA AcceptedOne ==
  ASSUME HookInv, ConstructEvent
  PROVE  HookInv'
<1>1. PICK h \in Headers, p \in Payloads :
        /\ Verified(h, p) /\ Fresh(LastOf(h, "t"))
        /\ events' = events \cup {[payload |-> p, at |-> now, t |-> LastOf(h, "v1").t]}
  BY DEF ConstructEvent
<1> DEFINE d == LastOf(h, "v1")
           e == [payload |-> p, at |-> now, t |-> d.t]
<1>2. UNCHANGED <<now, signed>>
  BY DEF ConstructEvent
<1>3. d = Digest(Mine, LastOf(h, "t"), p) /\ Parses(h)
  BY <1>1 DEF Verified
<1>4. d \in signed
  BY <1>3, HeaderDigest
<1>5. d.t = LastOf(h, "t") /\ d = Digest(Mine, d.t, p)
  BY <1>3 DEF Digest
<1>6. d.t \in Nat /\ now \in Nat /\ Tolerance \in Nat
  BY <1>4, WebhookAssumption DEF HookInv
<1>7. Tolerance > 0 => d.t \in now - Tolerance .. now + Tolerance
  BY <1>1, <1>5, <1>6 DEF Fresh
<1> HIDE DEF d
<1>8. /\ Digest(Mine, e.t, e.payload) \in signed
      /\ Tolerance > 0 => e.t \in e.at - Tolerance .. e.at + Tolerance
  BY <1>4, <1>5, <1>7
<1>9. events' = events \cup {e}
  BY <1>1 DEF d
<1> HIDE DEF e
<1> QED  BY <1>2, <1>8, <1>9 DEF HookInv, AcceptedSignedAndFresh

\* What was accepted stays accepted rightly, whatever is signed later.
LEMMA HookNextKeeps == HookInv /\ [Next]_vars => HookInv'
<1> SUFFICES ASSUME HookInv, [Next]_vars PROVE HookInv'
  OBVIOUS
<1>1. CASE Sign
  <2>1. /\ signed \subseteq signed' /\ UNCHANGED <<now, events>>
        /\ \A d \in signed' : d.t \in Nat
    BY <1>1, WebhookAssumption DEF Sign, Digest, HookInv
  <2> QED  BY <2>1 DEF HookInv, AcceptedSignedAndFresh
<1>2. CASE ConstructEvent
  BY <1>2, AcceptedOne
<1>3. CASE Passes
  BY <1>3 DEF Passes, HookInv, AcceptedSignedAndFresh
<1>4. CASE UNCHANGED hookVars
  BY <1>4 DEF hookVars, HookInv, AcceptedSignedAndFresh
<1>5. Sign \/ ConstructEvent \/ Passes \/ UNCHANGED hookVars
  BY DEF Next, Pages, Stream, Poll, Webhooks, Options, Updates, HookNext, vars
<1> QED  BY <1>1, <1>2, <1>3, <1>4, <1>5

\* AcceptedSignedAndFresh: whatever comes, in whatever order, however often
\* and with whatever header, what ConstructEvent accepts was signed with the
\* receiver's secret over this payload, within the tolerance of its clock.
THEOREM SignedAndFresh == Spec => []AcceptedSignedAndFresh
<1>1. HookInv => AcceptedSignedAndFresh
  BY DEF HookInv
<1> QED  BY <1>1, HookStart, HookNextKeeps, PTL DEF Spec

-----------------------------------------------------------------------------
(* The event stream                                                        *)

Pieces == Nat \X Nat
Lines == [kind : {"other", "long", "data", "blank"}, event : Nat, part : Nat]

\* How far in the stream: the event, and how many of its parts are past.
Places == [event : Nat, part : Nat]
Place(e, n) == [event |-> e, part |-> n]

\* A line of the feed takes the stream from one place to the next.
Leads(p, line, q, sizes) ==
  \/ line.kind \in {"other", "long"} /\ q = p
  \/ /\ line.kind = "data" /\ line.event = p.event /\ line.part = p.part + 1
     /\ q = Place(p.event, p.part + 1)
  \/ line.kind = "blank" /\ p.part = 0 /\ q = p
  \/ /\ line.kind = "blank" /\ p.part # 0 /\ q = Place(p.event + 1, 0)
     /\ p.event \in 1 .. Len(sizes) /\ sizes[p.event] = p.part

\* The lines lead from one place to another.
Follows(pos, lines, from, to, sizes) ==
  /\ pos[0] = from /\ pos[Len(lines)] = to
  /\ \A i \in 1 .. Len(lines) : Leads(pos[i - 1], lines[i], pos[i], sizes)

\* The reader's place and the server's.
ReadTo == Place(Len(handed) + 1, Len(data))
SentTo == Place(sent.event, sent.part)

FeedTypes ==
  /\ feed \in Seq(Lines) /\ data \in Seq(Pieces) /\ handed \in Seq(Seq(Pieces))
  /\ sent \in [event : Nat, part : Nat, sizes : Seq(Nat)]
  /\ sent.event = Len(sent.sizes) + 1

\* An event handed over is one whole event of the server, or the last.
Whole(i) ==
  /\ \A k \in 1 .. Len(handed[i]) : handed[i][k] = <<i, k>>
  /\ \/ i \in 1 .. Len(sent.sizes) /\ Len(handed[i]) = sent.sizes[i]
     \/ i = Len(handed) /\ run \in {"failing", "returned"}

FeedInv ==
  /\ FeedTypes
  /\ \A i \in 1 .. Len(handed) : Whole(i)
  /\ run \in {"idle", "reading"} =>
       /\ \A k \in 1 .. Len(data) : data[k] = <<Len(handed) + 1, k>>
       /\ \E pos \in [0 .. Len(feed) -> Places] : Follows(pos, feed, ReadTo, SentTo, sent.sizes)

\* An element at the end of a sequence.
LEMMA Added ==
  ASSUME NEW S, NEW q \in Seq(S), NEW e \in S
  PROVE  /\ Append(q, e) \in Seq(S) /\ Len(q) \in Nat
         /\ Len(Append(q, e)) = Len(q) + 1
         /\ Append(q, e)[Len(q) + 1] = e
         /\ \A i \in 1 .. Len(q) : Append(q, e)[i] = q[i]
  BY LenProperties, AppendProperties

\* The invariant says of the events handed over what EventsApart says.
LEMMA FeedApart == FeedInv => EventsApart
<1> SUFFICES ASSUME FeedInv, NEW i \in DOMAIN handed
             PROVE  LET e == handed[i]
                    IN  /\ \A k \in DOMAIN e : e[k] = <<i, k>>
                        /\ \/ i \in DOMAIN sent.sizes /\ Len(e) = sent.sizes[i]
                           \/ i = Len(handed) /\ run \in {"failing", "returned"}
  BY DEF EventsApart
<1>1. i \in 1 .. Len(handed) /\ handed[i] \in Seq(Pieces) /\ sent.sizes \in Seq(Nat)
  BY LenProperties, ElementOfSeq DEF FeedInv, FeedTypes
<1>2. DOMAIN handed[i] = 1 .. Len(handed[i]) /\ DOMAIN sent.sizes = 1 .. Len(sent.sizes)
  BY <1>1, LenProperties
<1> QED  BY <1>1, <1>2 DEF FeedInv, Whole

\* Nothing is on its way before the call.
LEMMA FeedStart == Init => FeedInv
<1> SUFFICES ASSUME Init PROVE FeedInv
  OBVIOUS
<1>1. /\ feed = <<>> /\ data = <<>> /\ handed = <<>>
      /\ sent = [event |-> 1, part |-> 0, sizes |-> <<>>]
  BY DEF Init, StreamInit
<1>2. <<>> \in Seq(Lines) /\ <<>> \in Seq(Pieces) /\ <<>> \in Seq(Seq(Pieces)) /\ <<>> \in Seq(Nat)
      /\ Len(<<>>) = 0
  BY EmptySeq
<1>3. FeedTypes
  BY <1>1, <1>2 DEF FeedTypes
<1> DEFINE start == [i \in 0 .. Len(feed) |-> Place(1, 0)]
<1>4. start \in [0 .. Len(feed) -> Places] /\ Follows(start, feed, ReadTo, SentTo, sent.sizes)
  BY <1>1, <1>2 DEF Place, Places, Follows, ReadTo, SentTo
<1> QED  BY <1>1, <1>2, <1>3, <1>4 DEF FeedInv

\* A line leads where it led when the server has ended more events.
LEMMA LeadsStill ==
  ASSUME NEW p, NEW line, NEW q, NEW old \in Seq(Nat), NEW sizes \in Seq(Nat),
         Len(old) <= Len(sizes), \A i \in 1 .. Len(old) : sizes[i] = old[i],
         Leads(p, line, q, old)
  PROVE  Leads(p, line, q, sizes)
<1>1. Len(old) \in Nat /\ Len(sizes) \in Nat
  BY LenProperties
<1>2. ASSUME p.event \in 1 .. Len(old)
      PROVE  p.event \in 1 .. Len(sizes) /\ sizes[p.event] = old[p.event]
  BY <1>1, <1>2
<1> QED  BY <1>2 DEF Leads

\* A line the server adds leads on from its place.
LEMMA LineAdded ==
  ASSUME FeedInv, NEW line \in Lines, feed' = Append(feed, line),
         FeedTypes', UNCHANGED <<run, data, handed>>,
         Len(sent.sizes) <= Len(sent'.sizes),
         \A i \in 1 .. Len(sent.sizes) : sent'.sizes[i] = sent.sizes[i],
         Leads(SentTo, line, SentTo', sent'.sizes)
  PROVE  FeedInv'
<1>1. /\ Len(feed) \in Nat /\ Len(feed') = Len(feed) + 1 /\ feed'[Len(feed) + 1] = line
      /\ \A i \in 1 .. Len(feed) : feed'[i] = feed[i]
  BY Added DEF FeedInv, FeedTypes
<1>2. Len(sent.sizes) \in Nat /\ Len(sent'.sizes) \in Nat
  BY LenProperties DEF FeedInv, FeedTypes
<1>3. \A i \in 1 .. Len(handed') : Whole(i)'
  BY <1>2 DEF FeedInv, Whole
<1>4. ASSUME run \in {"idle", "reading"}
      PROVE  \E pos \in [0 .. Len(feed') -> Places] :
               Follows(pos, feed', ReadTo', SentTo', sent'.sizes)
  <2>1. PICK pos \in [0 .. Len(feed) -> Places] : Follows(pos, feed, ReadTo, SentTo, sent.sizes)
    BY <1>4 DEF FeedInv
  <2> DEFINE last == SentTo'
             on == [i \in 0 .. Len(feed') |-> IF i <= Len(feed) THEN pos[i] ELSE last]
  <2>2. last \in Places
    BY DEF FeedTypes, Place, Places, SentTo
  <2>3. on \in [0 .. Len(feed') -> Places]
    BY <1>1, <2>2
  <2>4. /\ \A i \in 0 .. Len(feed) : on[i] = pos[i]
        /\ on[Len(feed')] = last
    BY <1>1
  <2>5. ASSUME NEW i \in 1 .. Len(feed') PROVE Leads(on[i - 1], feed'[i], on[i], sent'.sizes)
    <3>1. CASE i = Len(feed')
      BY <1>1, <2>1, <2>4, <3>1 DEF Follows
    <3>2. CASE i # Len(feed')
      <4>1. i \in 1 .. Len(feed) /\ on[i - 1] = pos[i - 1] /\ on[i] = pos[i] /\ feed'[i] = feed[i]
        BY <1>1, <2>4, <3>2
      <4>2. Leads(pos[i - 1], feed[i], pos[i], sent.sizes)
        BY <2>1, <4>1 DEF Follows
      <4>3. sent.sizes \in Seq(Nat) /\ sent'.sizes \in Seq(Nat)
        BY DEF FeedInv, FeedTypes
      <4>4. Leads(pos[i - 1], feed[i], pos[i], sent'.sizes)
        BY <4>2, <4>3, LeadsStill
      <4> QED  BY <4>1, <4>4
    <3> QED  BY <3>1, <3>2
  <2>6. on[0] = ReadTo'
    BY <1>1, <2>1, <2>4 DEF Follows, ReadTo
  <2> HIDE DEF on
  <2>7. Follows(on, feed', ReadTo', SentTo', sent'.sizes)
    BY <2>4, <2>5, <2>6 DEF Follows
  <2> QED  BY <2>3, <2>7
<1> QED  BY <1>3, <1>4 DEF FeedInv

\* A line the reader takes leads it on to the next place.
LEMMA LineTaken ==
  ASSUME FeedInv, run = "reading", feed # <<>>, feed' = Tail(feed), FeedTypes', sent' = sent,
         \A i \in 1 .. Len(handed') : Whole(i)',
         \A k \in 1 .. Len(data') : data'[k] = <<Len(handed') + 1, k>>,
         \A q \in Places : Leads(ReadTo, Head(feed), q, sent.sizes) => q = ReadTo'
  PROVE  FeedInv'
<1>1. /\ Len(feed) \in Nat \ {0} /\ Len(feed') = Len(feed) - 1 /\ Head(feed) = feed[1]
      /\ \A i \in 1 .. Len(feed') : feed'[i] = feed[i + 1]
  <2>1. feed \in Seq(Lines)
    BY DEF FeedInv, FeedTypes
  <2> QED  BY <2>1, HeadTailProperties, EmptySeq
<1>2. PICK pos \in [0 .. Len(feed) -> Places] : Follows(pos, feed, ReadTo, SentTo, sent.sizes)
  BY DEF FeedInv
<1> DEFINE on == [i \in 0 .. Len(feed') |-> pos[i + 1]]
<1>3. on \in [0 .. Len(feed') -> Places] /\ \A i \in 0 .. Len(feed') : on[i] = pos[i + 1]
  BY <1>1
<1>4. on[0] = ReadTo'
  <2>1. 1 \in 1 .. Len(feed) /\ 1 \in 0 .. Len(feed) /\ 0 \in 0 .. Len(feed') /\ 1 - 1 = 0
    BY <1>1
  <2>2. Leads(pos[0], feed[1], pos[1], sent.sizes)
    BY <1>2, <2>1 DEF Follows
  <2>3. pos[0] = ReadTo /\ pos[1] \in Places /\ on[0] = pos[1]
    BY <1>2, <1>3, <2>1 DEF Follows
  <2> QED  BY <1>1, <2>2, <2>3
<1>5. on[Len(feed')] = SentTo'
  BY <1>1, <1>2, <1>3 DEF Follows, SentTo
<1>6. ASSUME NEW i \in 1 .. Len(feed') PROVE Leads(on[i - 1], feed'[i], on[i], sent'.sizes)
  <2>1. i + 1 \in 1 .. Len(feed) /\ on[i - 1] = pos[i] /\ on[i] = pos[i + 1] /\ feed'[i] = feed[i + 1]
    BY <1>1, <1>3
  <2>2. (i + 1) - 1 = i
    BY <1>1
  <2> QED  BY <1>2, <2>1, <2>2 DEF Follows
<1> HIDE DEF on
<1>7. Follows(on, feed', ReadTo', SentTo', sent'.sizes)
  BY <1>4, <1>5, <1>6 DEF Follows
<1> QED  BY <1>3, <1>7 DEF FeedInv

\* The server's steps.
LEMMA ServerFeeds ==
  ASSUME FeedInv, SendLine \/ EndFeed \/ StreamCtxEnds \/ OpenStream
  PROVE  FeedInv'
<1>0. /\ sent \in [event : Nat, part : Nat, sizes : Seq(Nat)] /\ sent.event = Len(sent.sizes) + 1
      /\ feed \in Seq(Lines) /\ data \in Seq(Pieces) /\ handed \in Seq(Seq(Pieces))
  BY DEF FeedInv, FeedTypes
<1>1. CASE EndFeed \/ StreamCtxEnds
  BY <1>1 DEF EndFeed, StreamCtxEnds, FeedInv, FeedTypes, Whole, ReadTo, SentTo
<1>2. CASE OpenStream
  <2>1. run = "idle" /\ run' \in {"reading", "returned"} /\ UNCHANGED <<feed, sent, data, handed>>
    BY <1>2 DEF OpenStream
  <2> QED  BY <2>1 DEF FeedInv, FeedTypes, Whole, ReadTo, SentTo
<1>3. ASSUME NEW line \in Lines, feed' = Append(feed, line), sent' = sent,
             UNCHANGED <<run, data, handed>>, Leads(SentTo, line, SentTo, sent.sizes)
      PROVE  FeedInv'
  <2>1. FeedTypes'
    BY <1>0, <1>3, Added DEF FeedTypes
  <2>2. SentTo' = SentTo /\ Len(sent.sizes) <= Len(sent'.sizes)
    BY <1>0, <1>3, LenProperties DEF SentTo
  <2> QED  BY <1>3, <2>1, <2>2, LineAdded
<1>4. CASE SendLine
  <2>0. UNCHANGED <<run, data, handed>>
    BY <1>4 DEF SendLine
  <2>1. ASSUME NEW kind \in {"other", "long"}, feed' = Append(feed, Line(kind, 0, 0)), UNCHANGED sent
        PROVE  FeedInv'
    <3>1. Line(kind, 0, 0) \in Lines /\ Leads(SentTo, Line(kind, 0, 0), SentTo, sent.sizes)
      BY DEF Line, Lines, Leads
    <3> QED  BY <1>3, <2>0, <2>1, <3>1
  <2>2. CASE feed' = Append(feed, Blank) /\ sent.part = 0 /\ sent' = sent
    <3>1. Blank \in Lines /\ Leads(SentTo, Blank, SentTo, sent.sizes)
      BY <2>2 DEF Blank, Line, Lines, Leads, SentTo, Place
    <3> QED  BY <1>3, <2>0, <2>2, <3>1
  <2>3. CASE /\ feed' = Append(feed, Line("data", sent.event, sent.part + 1))
             /\ sent' = [sent EXCEPT !.part = @ + 1]
    <3> DEFINE line == Line("data", sent.event, sent.part + 1)
    <3>1. line \in Lines /\ feed' \in Seq(Lines)
      BY <1>0, <2>3, Added DEF Line, Lines
    <3>2. /\ sent' \in [event : Nat, part : Nat, sizes : Seq(Nat)]
          /\ sent'.sizes = sent.sizes /\ sent'.event = sent.event /\ sent'.part = sent.part + 1
      <4>1. sent' = [sent EXCEPT !.part = sent.part + 1]
        BY <2>3
      <4>2. sent' = [event |-> sent.event, part |-> sent.part + 1, sizes |-> sent.sizes]
        BY <1>0, <4>1
      <4>3. sent.event \in Nat /\ sent.part + 1 \in Nat /\ sent.sizes \in Seq(Nat)
        BY <1>0
      <4> QED  BY <4>2, <4>3
    <3>3. Leads(SentTo, line, SentTo', sent'.sizes)
      BY <3>2 DEF Leads, Line, SentTo, Place
    <3>4. FeedTypes'
      BY <1>0, <2>0, <3>1, <3>2 DEF FeedTypes
    <3>5. Len(sent.sizes) \in Nat
      BY <1>0, LenProperties
    <3> QED  BY <2>0, <2>3, <3>1, <3>2, <3>3, <3>4, <3>5, LineAdded
  <2>4. CASE /\ feed' = Append(feed, Blank) /\ sent.part # 0
             /\ sent' = [event |-> sent.event + 1, part |-> 0,
                         sizes |-> Append(sent.sizes, sent.part)]
    <3>1. Blank \in Lines /\ feed' \in Seq(Lines)
      BY <1>0, <2>4, Added DEF Blank, Line, Lines
    <3>2. /\ Len(sent.sizes) \in Nat /\ Append(sent.sizes, sent.part) \in Seq(Nat)
          /\ Len(Append(sent.sizes, sent.part)) = Len(sent.sizes) + 1
          /\ Append(sent.sizes, sent.part)[Len(sent.sizes) + 1] = sent.part
          /\ \A i \in 1 .. Len(sent.sizes) : Append(sent.sizes, sent.part)[i] = sent.sizes[i]
      BY <1>0, Added
    <3>3. /\ sent'.sizes = Append(sent.sizes, sent.part) /\ sent'.event = sent.event + 1
          /\ sent'.part = 0 /\ sent' \in [event : Nat, part : Nat, sizes : Seq(Nat)]
      BY <1>0, <2>4, <3>2
    <3>4. Leads(SentTo, Blank, SentTo', sent'.sizes)
      BY <1>0, <2>4, <3>2, <3>3 DEF Leads, Blank, Line, SentTo, Place
    <3>5. FeedTypes'
      BY <1>0, <2>0, <3>1, <3>2, <3>3 DEF FeedTypes
    <3> QED  BY <2>0, <2>4, <3>1, <3>2, <3>3, <3>4, <3>5, LineAdded
  <2> QED  BY <1>4, <2>1, <2>2, <2>3, <2>4 DEF SendLine
<1> QED  BY <1>1, <1>2, <1>4

\* The reader's steps.
LEMMA ReaderFeeds ==
  ASSUME FeedInv, ReadBlank \/ ReadDataLine \/ ReadOther \/ ReadEnd \/ ReadLong \/ Drain
  PROVE  FeedInv'
<1>0. /\ sent \in [event : Nat, part : Nat, sizes : Seq(Nat)] /\ sent.event = Len(sent.sizes) + 1
      /\ feed \in Seq(Lines) /\ data \in Seq(Pieces) /\ handed \in Seq(Seq(Pieces))
      /\ Len(data) \in Nat /\ Len(handed) \in Nat /\ (data = <<>> <=> Len(data) = 0)
  BY LenProperties, EmptySeq DEF FeedInv, FeedTypes
<1>1. feed # <<>> => Tail(feed) \in Seq(Lines) /\ Head(feed) \in Lines
  BY <1>0, HeadTailProperties
\* Handing over what there is of an event.
<1>2. ASSUME handed' = Append(handed, data), data' = <<>>, sent' = sent,
             run = "reading", run' \in {"reading", "draining", "failing", "returned"},
             \/ run' \in {"failing", "returned"}
             \/ Len(handed) + 1 \in 1 .. Len(sent.sizes) /\ sent.sizes[Len(handed) + 1] = Len(data)
      PROVE  /\ handed' \in Seq(Seq(Pieces)) /\ Len(handed') = Len(handed) + 1
             /\ \A i \in 1 .. Len(handed') : Whole(i)'
  <2>1. /\ handed' \in Seq(Seq(Pieces)) /\ Len(handed') = Len(handed) + 1
        /\ handed'[Len(handed) + 1] = data
        /\ \A i \in 1 .. Len(handed) : handed'[i] = handed[i]
    BY <1>0, <1>2, Added
  <2>2. ASSUME NEW i \in 1 .. Len(handed) PROVE Whole(i)'
    <3>1. Whole(i) /\ run \notin {"failing", "returned"}
      BY <1>2 DEF FeedInv
    <3> QED  BY <1>2, <2>1, <3>1 DEF Whole
  <2>3. ASSUME NEW i \in Nat, i = Len(handed) + 1 PROVE Whole(i)'
    <3>1. \A k \in 1 .. Len(data) : data[k] = <<Len(handed) + 1, k>>
      BY <1>2 DEF FeedInv
    <3> QED  BY <1>2, <2>1, <2>3, <3>1 DEF Whole
  <2>4. \A i \in 1 .. Len(handed') : i \in 1 .. Len(handed) \/ (i \in Nat /\ i = Len(handed) + 1)
    BY <1>0, <2>1
  <2> QED  BY <2>1, <2>2, <2>3, <2>4
<1>3. CASE ReadOther
  <2>1. /\ run = "reading" /\ feed # <<>> /\ Head(feed).kind = "other" /\ feed' = Tail(feed)
        /\ UNCHANGED <<run, sent, data, handed>>
    BY <1>3 DEF ReadOther
  <2>2. FeedTypes'
    BY <1>0, <1>1, <2>1 DEF FeedTypes
  <2>3. \A q \in Places : Leads(ReadTo, Head(feed), q, sent.sizes) => q = ReadTo'
    BY <2>1 DEF Leads, ReadTo
  <2>4. /\ \A i \in 1 .. Len(handed') : Whole(i)'
        /\ \A k \in 1 .. Len(data') : data'[k] = <<Len(handed') + 1, k>>
    BY <2>1 DEF FeedInv, Whole
  <2> QED  BY <2>1, <2>2, <2>3, <2>4, LineTaken
<1>4. CASE ReadDataLine
  <2>1. /\ run = "reading" /\ feed # <<>> /\ Head(feed).kind = "data" /\ feed' = Tail(feed)
        /\ data' = Append(data, <<Head(feed).event, Head(feed).part>>)
        /\ UNCHANGED <<run, sent, handed>>
    BY <1>4 DEF ReadDataLine
  <2> DEFINE part == <<Head(feed).event, Head(feed).part>>
  <2>2. part \in Pieces
    BY <1>1, <2>1 DEF Lines, Pieces
  <2>3. /\ data' \in Seq(Pieces) /\ Len(data') = Len(data) + 1 /\ data'[Len(data) + 1] = part
        /\ \A k \in 1 .. Len(data) : data'[k] = data[k]
    BY <1>0, <2>1, <2>2, Added
  <2>4. FeedTypes'
    BY <1>0, <1>1, <2>1, <2>3 DEF FeedTypes
  <2>5. PICK pos \in [0 .. Len(feed) -> Places] : Follows(pos, feed, ReadTo, SentTo, sent.sizes)
    BY <2>1 DEF FeedInv
  <2>6. Len(feed) \in Nat \ {0} /\ Head(feed) = feed[1]
    BY <1>0, <2>1, EmptySeq
  <2>7. Leads(ReadTo, Head(feed), pos[1], sent.sizes)
    <3>1. 1 \in 1 .. Len(feed) /\ 1 - 1 = 0
      BY <2>6
    <3> QED  BY <2>5, <2>6, <3>1 DEF Follows
  <2>8. part = <<Len(handed) + 1, Len(data) + 1>>
    BY <2>1, <2>7 DEF Leads, ReadTo, Place
  <2>9. \A q \in Places : Leads(ReadTo, Head(feed), q, sent.sizes) => q = ReadTo'
    BY <2>1, <2>3 DEF Leads, ReadTo, Place
  <2>10. \A k \in 1 .. Len(data') : data'[k] = <<Len(handed') + 1, k>>
    <3>1. \A k \in 1 .. Len(data) : data[k] = <<Len(handed) + 1, k>>
      BY <2>1 DEF FeedInv
    <3>2. \A k \in 1 .. Len(data') : k \in 1 .. Len(data) \/ k = Len(data) + 1
      BY <1>0, <2>3
    <3> QED  BY <2>1, <2>3, <2>8, <3>1, <3>2
  <2>11. \A i \in 1 .. Len(handed') : Whole(i)'
    BY <2>1 DEF FeedInv, Whole
  <2> QED  BY <2>1, <2>4, <2>9, <2>10, <2>11, LineTaken
<1>5. CASE ReadBlank
  <2>1. /\ run = "reading" /\ feed # <<>> /\ Head(feed).kind = "blank" /\ feed' = Tail(feed)
        /\ sent' = sent
    BY <1>5 DEF ReadBlank
  <2>2. CASE data = <<>>
    <3>1. UNCHANGED <<run, handed, data>>
      BY <1>5, <2>2 DEF ReadBlank
    <3>2. FeedTypes'
      BY <1>0, <1>1, <2>1, <3>1 DEF FeedTypes
    <3>3. \A q \in Places : Leads(ReadTo, Head(feed), q, sent.sizes) => q = ReadTo'
      BY <1>0, <2>1, <2>2, <3>1 DEF Leads, ReadTo, Place
    <3>4. /\ \A i \in 1 .. Len(handed') : Whole(i)'
          /\ \A k \in 1 .. Len(data') : data'[k] = <<Len(handed') + 1, k>>
      BY <2>1, <3>1 DEF FeedInv, Whole
    <3> QED  BY <2>1, <3>2, <3>3, <3>4, LineTaken
  <2>3. CASE data # <<>>
    <3>1. /\ handed' = Append(handed, data) /\ data' = <<>> /\ run' \in {"reading", "draining"}
      BY <1>5, <2>3 DEF ReadBlank, Handed
    <3>2. PICK pos \in [0 .. Len(feed) -> Places] : Follows(pos, feed, ReadTo, SentTo, sent.sizes)
      BY <2>1 DEF FeedInv
    <3>3. Leads(ReadTo, Head(feed), pos[1], sent.sizes)
      <4>1. 1 \in 1 .. Len(feed) /\ 1 - 1 = 0 /\ Head(feed) = feed[1]
        BY <1>0, <2>1, EmptySeq
      <4> QED  BY <3>2, <4>1 DEF Follows
    <3>4. Len(handed) + 1 \in 1 .. Len(sent.sizes) /\ sent.sizes[Len(handed) + 1] = Len(data)
      BY <1>0, <2>1, <2>3, <3>3 DEF Leads, ReadTo, Place
    <3>5. /\ handed' \in Seq(Seq(Pieces)) /\ Len(handed') = Len(handed) + 1
          /\ \A i \in 1 .. Len(handed') : Whole(i)'
      BY <1>2, <2>1, <3>1, <3>4
    <3>6. data' \in Seq(Pieces) /\ Len(data') = 0
      BY <3>1, EmptySeq
    <3>7. FeedTypes'
      BY <1>0, <1>1, <2>1, <3>5, <3>6 DEF FeedTypes
    <3>8. \A q \in Places : Leads(ReadTo, Head(feed), q, sent.sizes) => q = ReadTo'
      BY <1>0, <2>1, <2>3, <3>5, <3>6 DEF Leads, ReadTo, Place
    <3>9. \A k \in 1 .. Len(data') : data'[k] = <<Len(handed') + 1, k>>
      BY <3>6
    <3> QED  BY <2>1, <3>5, <3>7, <3>8, <3>9, LineTaken
  <2> QED  BY <2>2, <2>3
<1>6. CASE ReadEnd \/ ReadLong
  <2>1. /\ run = "reading" /\ data' = <<>> /\ run' \in {"failing", "returned"} /\ sent' = sent
        /\ feed' \in Seq(Lines)
        /\ handed' = IF data = <<>> THEN handed ELSE Append(handed, data)
    BY <1>0, <1>1, <1>6 DEF ReadEnd, ReadLong, HandRest
  <2>2. data' \in Seq(Pieces)
    BY <2>1, EmptySeq
  <2>3. CASE data = <<>>
    <3>1. \A i \in 1 .. Len(handed') : Whole(i)'
      BY <2>1, <2>3 DEF FeedInv, Whole
    <3> QED  BY <1>0, <2>1, <2>2, <2>3, <3>1 DEF FeedInv, FeedTypes
  <2>4. CASE data # <<>>
    <3>1. handed' \in Seq(Seq(Pieces)) /\ \A i \in 1 .. Len(handed') : Whole(i)'
      BY <1>2, <2>1, <2>4
    <3> QED  BY <1>0, <2>1, <2>2, <3>1 DEF FeedInv, FeedTypes
  <2> QED  BY <2>3, <2>4
<1>7. CASE Drain
  <2>1. /\ run \in {"draining", "failing"} /\ run' \in {run, "returned"} /\ UNCHANGED <<sent, data, handed>>
        /\ feed' \in {feed, Tail(feed)} /\ (feed' # feed => feed # <<>>)
    BY <1>7 DEF Drain
  <2>2. FeedTypes'
    BY <1>0, <1>1, <2>1 DEF FeedTypes
  <2>3. \A i \in 1 .. Len(handed') : Whole(i)'
    BY <2>1 DEF FeedInv, Whole
  <2> QED  BY <2>1, <2>2, <2>3 DEF FeedInv
<1> QED  BY <1>3, <1>4, <1>5, <1>6, <1>7

\* EventsApart: whatever the lines, wherever the answer is cut and however the
\* server and the reader interleave, events are handed over one by one as the
\* server sent them.
THEOREM EventsWhole == Spec => []EventsApart
<1>1. FeedInv /\ [Next]_vars => FeedInv'
  <2> SUFFICES ASSUME FeedInv, [Next]_vars PROVE FeedInv'
    OBVIOUS
  <2>1. StreamNext \/ UNCHANGED eventVars
    BY DEF Next, Pages, Stream, Poll, Webhooks, Options, Updates, vars
  <2>2. CASE UNCHANGED eventVars
    BY <2>2 DEF eventVars, FeedInv, FeedTypes, Whole, ReadTo, SentTo
  <2>3. CASE StreamNext
    BY <2>3, ServerFeeds, ReaderFeeds DEF StreamNext
  <2> QED  BY <2>1, <2>2, <2>3
<1> QED  BY <1>1, FeedStart, FeedApart, PTL DEF Spec


-----------------------------------------------------------------------------
(* The waits for a handshake                                               *)

\* While the loop sleeps, or the engine waits with a poll to send again, what
\* is left of the wait and what has passed since the last answer make up the
\* pause that is owed; and the CLI loop's interval has grown by every 429 it saw.
PollInv ==
  /\ asked \in Nat /\ interval \in Nat /\ limited \in Nat
  /\ left \in Nat /\ since \in Nat /\ owed \in Nat
  /\ poll \in {"idle", "waiting", "asking", "resending", "returned"}
  /\ code \in {"pending", "approved", "spent", "denied", "expired"}
  /\ resent \in 0 .. Resends
  /\ poll # "idle" => interval = IF flow = "cli" THEN CliInterval + limited * SlowDown ELSE asked
  /\ poll = "idle" => limited = 0 /\ since = 0
  /\ poll \in {"waiting", "resending"} => left + since >= owed

\* Nothing is owed before the first poll.
LEMMA PollStart == Init => PollInv
  BY PollAssumption DEF Init, PollInit, PollInv

\* The loop's first sleep or its first poll.
LEMMA Started == ASSUME PollInv, Start PROVE PollInv'
<1>1. /\ asked \in Nat /\ DefaultWait \in Nat /\ SlowDown \in Nat
      /\ limited = 0 /\ since = 0 /\ limited * SlowDown = 0
  BY PollAssumption DEF PollInv, Start
<1>2. CliInterval \in Nat
  BY <1>1 DEF CliInterval
<1>3. UNCHANGED <<flow, asked, resent, code, limited, since>> /\ CliInterval' = CliInterval
  BY DEF Start, CliInterval
<1>4. CASE flow = "cli"
  <2>1. interval' = CliInterval /\ left' = CliInterval /\ owed' = CliInterval /\ poll' = "waiting"
    BY <1>4 DEF Start, Sleep, CliInterval
  <2>2. interval' = CliInterval' + limited' * SlowDown
    BY <1>1, <1>2, <1>3, <2>1
  <2>3. left' + since' >= owed'
    BY <1>1, <1>2, <1>3, <2>1
  <2> QED  BY <1>2, <1>3, <1>4, <2>1, <2>2, <2>3 DEF PollInv
<1>5. CASE flow # "cli"
  BY <1>3, <1>5 DEF Start, PollInv
<1> QED  BY <1>4, <1>5

\* A sleep of the whole pause, just begun.
LEMMA WholePause ==
  ASSUME NEW sleep, NEW pause \in Nat, NEW slept, sleep = pause, slept = 0
  PROVE  sleep \in Nat /\ sleep + slept >= pause
  OBVIOUS

\* A wait of the pause or more, just begun.
LEMMA LongPause ==
  ASSUME NEW sleep \in Nat, NEW pause \in Nat, NEW slept, sleep >= pause, slept = 0
  PROVE  sleep + slept >= pause /\ slept \in Nat
  OBVIOUS

\* The engine's wait is what it owes, or more.
LEMMA WaitsAsOwed ==
  ASSUME PollInv, NEW retryAfter \in Nat, Resend(retryAfter)
  PROVE  /\ poll' = "resending" /\ resent' \in 0 .. Resends
         /\ left' \in Nat /\ owed' \in Nat /\ left' >= owed'
<1>1. DelayMin \in Nat /\ DelayMax \in Nat
  BY BackoffAssumption
<1>2. poll' = "resending" /\ resent' \in 0 .. Resends
  BY PollAssumption DEF Resend, PollInv
<1>3. CASE retryAfter > 0
  <2>1. left' = MinOf(retryAfter, DelayMax) /\ owed' = left'
    BY <1>3 DEF Resend, ResendWaits
  <2> QED  BY <1>1, <1>2, <2>1 DEF MinOf
<1>4. CASE ~ (retryAfter > 0)
  <2>1. left' \in RestDelays(resent) /\ owed' = DelayMin
    BY <1>4 DEF Resend, ResendWaits
  <2>2. left' = DelayMin \/ left' \in DelayMin .. Capped(resent)
    BY <2>1 DEF RestDelays
  <2> QED  BY <1>1, <1>2, <2>1, <2>2
<1> QED  BY <1>3, <1>4

\* An answer after which the engine sends the poll again.
LEMMA SendsAgain ==
  ASSUME PollInv, poll = "asking", NEW retryAfter \in Nat, Resend(retryAfter), since' = 0,
         UNCHANGED <<flow, asked, interval, limited>>,
         code' \in {"pending", "approved", "spent", "denied", "expired"}
  PROVE  PollInv'
<1>1. /\ poll' = "resending" /\ resent' \in 0 .. Resends
      /\ left' \in Nat /\ owed' \in Nat /\ left' >= owed'
  BY WaitsAsOwed
<1>0. since' = 0
  OBVIOUS
<1>2. left' + since' >= owed' /\ since' \in Nat
  BY <1>0, <1>1, LongPause
<1>3. CliInterval' = CliInterval
  BY DEF CliInterval
<1> QED  BY <1>1, <1>2, <1>3 DEF PollInv

\* Every answer after which the loop sleeps sets the sleep to the pause.
LEMMA SleepsAsOwed == ASSUME PollInv, StillPending \/ Limited PROVE PollInv'
<1>1. /\ asked \in Nat /\ interval \in Nat /\ limited \in Nat /\ DefaultWait \in Nat
      /\ SlowDown \in Nat /\ Floor \in Nat /\ Asks \subseteq Nat /\ poll = "asking"
  BY PollAssumption DEF PollInv, StillPending, Limited
<1>2. /\ interval = IF flow = "cli" THEN CliInterval + limited * SlowDown ELSE asked
      /\ CliInterval \in Nat
  BY <1>1 DEF PollInv, CliInterval
<1>3. UNCHANGED <<flow, asked, code>> /\ CliInterval' = CliInterval
  BY DEF StillPending, Limited, CliInterval
<1>4. CASE StillPending
  <2>1. UNCHANGED <<interval, limited, resent>> /\ since' = 0 /\ poll' = "waiting"
    BY <1>4 DEF StillPending, Sleep
  <2>2. left' = owed' /\ owed' \in Nat
    <3>1. CASE flow = "cli"
      BY <1>1, <1>2, <1>4, <3>1 DEF StillPending, Sleep, CliInterval
    <3>2. CASE flow # "cli"
      BY <1>1, <1>2, <1>4, <3>2 DEF StillPending, Sleep, LinkWait, MaxOf
    <3> QED  BY <3>1, <3>2
  <2>3. interval' = IF flow' = "cli" THEN CliInterval' + limited' * SlowDown ELSE asked'
    BY <1>2, <1>3, <2>1
  <2>4. left' \in Nat /\ left' + since' >= owed'
    BY <2>1, <2>2, WholePause
  <2>5. interval' \in Nat /\ limited' \in Nat /\ asked' \in Nat /\ since' \in Nat
    BY <1>1, <1>3, <2>1
  <2>6. poll' # "idle" /\ poll' \in {"idle", "waiting", "asking", "resending", "returned"}
    BY <2>1
  <2>7. code' \in {"pending", "approved", "spent", "denied", "expired"} /\ resent' \in 0 .. Resends
    BY <1>3, <2>1 DEF PollInv
  <2> QED  BY <2>2, <2>3, <2>4, <2>5, <2>6, <2>7 DEF PollInv
<1>5. CASE Limited
  <2> DEFINE Did(after, header) ==
          \/ Resend(header) /\ UNCHANGED <<interval, limited, result>>
          \/ /\ resent = Resends /\ limited < MaxLimited /\ limited' = limited + 1
             /\ IF flow = "cli"
                THEN /\ interval' = interval + SlowDown
                     /\ owed' = IF after > 0 THEN after ELSE SlowDown
                     /\ Sleep(IF after > 0 THEN after ELSE SlowDown)
                     /\ UNCHANGED result
                ELSE Return("limited", FALSE) /\ UNCHANGED <<interval, owed>>
             /\ UNCHANGED resent
  <2>0. PICK after \in Asks : \E header \in {0, after} : Did(after, header)
    BY <1>5 DEF Limited
  <2>1. PICK header \in {0, after} : Did(after, header)
    BY <2>0
  <2>2. since' = 0 /\ UNCHANGED <<flow, asked, code>>
    BY <1>5 DEF Limited
  <2>3. CASE Resend(header) /\ UNCHANGED <<interval, limited, result>>
    <3>1. header \in Nat
      BY <1>1
    <3>2. code' \in {"pending", "approved", "spent", "denied", "expired"}
      BY <2>2 DEF PollInv
    <3> QED  BY <1>1, <2>2, <2>3, <3>1, <3>2, SendsAgain
  <2>4. CASE limited' = limited + 1 /\ flow = "cli" /\ UNCHANGED resent
             /\ interval' = interval + SlowDown
             /\ owed' = (IF after > 0 THEN after ELSE SlowDown)
             /\ Sleep(IF after > 0 THEN after ELSE SlowDown)
    <3>1. poll' = "waiting" /\ left' = owed' /\ owed' \in Nat
      BY <1>1, <2>4 DEF Sleep
    <3>2. (limited + 1) * SlowDown = limited * SlowDown + SlowDown
      BY <1>1
    <3>3. limited * SlowDown \in Nat
      BY <1>1
    <3>4. interval' = CliInterval' + limited' * SlowDown
      BY <1>1, <1>2, <1>3, <2>4, <3>2, <3>3
    <3>5. interval' = IF flow' = "cli" THEN CliInterval' + limited' * SlowDown ELSE asked'
      BY <2>2, <2>4, <3>4
    <3>6. left' \in Nat /\ left' + since' >= owed'
      BY <2>2, <3>1, WholePause
    <3>7. interval' \in Nat /\ limited' \in Nat /\ asked' \in Nat /\ since' \in Nat
      BY <1>1, <2>2, <2>4
    <3>8. code' \in {"pending", "approved", "spent", "denied", "expired"} /\ resent' \in 0 .. Resends
      BY <2>2, <2>4 DEF PollInv
    <3> QED  BY <3>1, <3>5, <3>6, <3>7, <3>8 DEF PollInv
  <2>5. CASE limited' = limited + 1 /\ flow # "cli" /\ Return("limited", FALSE)
             /\ UNCHANGED <<resent, interval, owed>>
    <3>1. poll' = "returned" /\ left' = 0
      BY <2>5 DEF Return
    <3> QED  BY <1>1, <1>2, <1>3, <2>2, <2>5, <3>1 DEF PollInv
  <2> QED  BY <2>1, <2>3, <2>4, <2>5
<1> QED  BY <1>4, <1>5

\* The other steps end the loop, or leave its pause as it is.
LEMMA PollNextKeeps == PollInv /\ [Next]_vars => PollInv'
<1> SUFFICES ASSUME PollInv, [Next]_vars PROVE PollInv'
  OBVIOUS
<1>1. CASE Start
  BY <1>1, Started
<1>2. CASE StillPending \/ Limited
  BY <1>2, SleepsAsOwed
<1>3. CASE Approved \/ Refused \/ PollCancelled \/ SleepCancelled
  <2>1. /\ poll # "idle" /\ poll' = "returned" /\ left' = 0
        /\ UNCHANGED <<flow, asked, interval, resent, limited, since, owed>>
        /\ code' \in {code, Claimed(code)}
    BY <1>3 DEF Approved, Refused, PollCancelled, SleepCancelled, Return
  <2> QED  BY <2>1 DEF PollInv, Claimed, CliInterval
<1>4. CASE AnswerLost
  <2>1. /\ poll = "asking" /\ code' \in {code, Claimed(code)} /\ since' = 0
        /\ UNCHANGED <<flow, asked, interval, limited>>
    BY <1>4 DEF AnswerLost
  <2>2. code' \in {"pending", "approved", "spent", "denied", "expired"}
    BY <2>1 DEF PollInv, Claimed
  <2>3. ASSUME NEW header \in Asks, Resend(header) PROVE PollInv'
    <3>1. header \in Nat
      BY PollAssumption
    <3> QED  BY <2>1, <2>2, <2>3, <3>1, SendsAgain
  <2>4. CASE Return("lost", FALSE) /\ UNCHANGED <<resent, owed>>
    <3>1. poll' = "returned" /\ left' = 0
      BY <2>4 DEF Return
    <3> QED  BY <2>1, <2>2, <2>4, <3>1 DEF PollInv, CliInterval
  <2> QED  BY <1>4, <2>3, <2>4 DEF AnswerLost
<1>5. CASE PollTick
  <2>1. /\ poll \in {"waiting", "resending"} /\ left > 0 /\ left' = left - 1 /\ since' = since + 1
        /\ UNCHANGED <<flow, asked, poll, interval, resent, code, limited, owed>>
    BY <1>5 DEF PollTick
  <2>2. left' \in Nat /\ since' \in Nat /\ left' + since' >= owed'
    BY <2>1 DEF PollInv
  <2> QED  BY <2>1, <2>2 DEF PollInv, CliInterval
<1>6. CASE Ask
  <2>1. /\ poll # "idle" /\ poll' = "asking" /\ resent' \in {0, resent}
        /\ UNCHANGED <<flow, asked, interval, left, code, limited, since, owed>>
    BY <1>6 DEF Ask
  <2>2. resent' \in 0 .. Resends
    BY <2>1, PollAssumption DEF PollInv
  <2> QED  BY <2>1, <2>2 DEF PollInv, CliInterval
<1>7. CASE Decide \/ PollCtxEnds \/ UNCHANGED pollVars
  BY <1>7 DEF Decide, PollCtxEnds, pollVars, PollInv, CliInterval
<1>8. PollNext \/ UNCHANGED pollVars
  BY DEF Next, Pages, Stream, Poll, Webhooks, Options, Updates, vars
<1> QED  BY <1>1, <1>2, <1>3, <1>4, <1>5, <1>6, <1>7, <1>8 DEF PollNext, PollStep

\* PollsPaced: whatever the handshake's interval, however many answers are
\* 429, lost or 5xx, whatever Retry-After they name and however the backoff's
\* jitter falls, no request, the loop's or the engine's, is sent before the
\* pause that the last answer left it to keep is over.
THEOREM NeverHasty == Spec => PollsPaced
<1>1. PollInv /\ [Next]_vars => [Requested => since >= owed]_pollVars
  <2> SUFFICES ASSUME PollInv, [Next]_vars, Requested
               PROVE  since >= owed
    OBVIOUS
  <2>0. poll \in {"waiting", "resending"} /\ poll' = "asking"
    BY DEF Requested
  <2>1. PollNext
    BY <2>0 DEF Next, Pages, Stream, Poll, Webhooks, Options, Updates, vars, pollVars
  <2>2. Ask
    BY <2>0, <2>1 DEF PollNext, PollStep, Start, SleepCancelled, PollTick, StillPending, Approved,
         Refused, Limited, AnswerLost, PollCancelled, Decide, PollCtxEnds, Return
  <2> QED  BY <2>0, <2>2 DEF Ask, PollInv
<1> QED  BY <1>1, PollStart, PollNextKeeps, PTL DEF Spec, PollsPaced


-----------------------------------------------------------------------------
(* Pages                                                                   *)

LastRow(q) == q[Len(q)]

\* Yielded already, or on the page held and not yielded yet.
SeenRow(r) == \E i \in 1 .. Len(seen) : seen[i] = r
ToCome(r) == \E j \in next .. Len(page.data) : page.data[j] = r

Descends(q) == \A i, j \in 1 .. Len(q) : i < j => q[j] < q[i]

PageTypes ==
  /\ walk \in {"idle", "fetch", "page", "ended", "failed", "stopped"}
  /\ rows \subseteq Instants /\ lasting \subseteq rows
  /\ list.limit \in Nat
  /\ page.data \in Seq(Instants) /\ seen \in Seq(Instants)
  /\ next \in 1 .. Len(page.data) + 1

\* The page's cursor, if it has one, is its last row.
PageShape ==
  /\ Len(page.data) <= Limit(list.limit)
  /\ page.hasMore => page.data # <<>>
  /\ page.cursor \in {NoCursor} \cup Instants
  /\ page.cursor # NoCursor => page.data # <<>> /\ page.cursor = LastRow(page.data)
  /\ Descends(page.data)

\* What is still to be yielded is older than all that was.
OlderToCome ==
  /\ Descends(seen)
  /\ walk = "idle" => page = NoPage /\ seen = <<>> /\ next = 1
  /\ walk = "fetch" =>
       \/ page.cursor = NoCursor /\ seen = <<>>
       \/ page.cursor # NoCursor /\ \A i \in 1 .. Len(seen) : page.cursor <= seen[i]
  /\ walk = "page" => \A i \in 1 .. Len(seen) :
       /\ \A j \in next .. Len(page.data) : page.data[j] < seen[i]
       /\ page.data # <<>> => LastRow(page.data) <= seen[i]

\* A lasting row was seen, is on the page, or is asked for next.
NoneLost ==
  /\ walk = "fetch" => \A r \in lasting : SeenRow(r) \/ page.cursor = NoCursor \/ r < page.cursor
  /\ walk = "page" => \A r \in lasting :
       SeenRow(r) \/ ToCome(r) \/ (page.hasMore /\ r < LastRow(page.data))
  /\ walk = "ended" /\ ~ page.hasMore => \A r \in lasting : SeenRow(r)

PageInv == PageTypes /\ PageShape /\ OlderToCome /\ NoneLost

\* A limit the server is sent, or its own, lets at least one row.
LEMMA LimitLets == ASSUME NEW n \in Nat PROVE Limit(n) \in Nat \ {0}
  BY PaginationAssumption DEF Limit

\* The first rows of a set: none is left out that is newer than one of them.
LEMMA FirstAre ==
  ASSUME NEW S \in SUBSET Instants, NEW n \in Nat \ {0}, NEW q \in First(S, n)
  PROVE  /\ q \in Seq(Instants) /\ Len(q) \in 0 .. n /\ Descends(q)
         /\ \A i \in 1 .. Len(q) : q[i] \in S
         /\ \A r \in S : \/ \E i \in 1 .. Len(q) : q[i] = r
                         \/ q # <<>> /\ r < LastRow(q)
<1>1. PICK k \in 0 .. n : q \in [1 .. k -> S]
  BY DEF First
<1>2. k \in Nat /\ DOMAIN q = 1 .. k /\ q \in [1 .. k -> Instants]
  BY <1>1
<1>3. q \in Seq(Instants)
  BY <1>2, SeqDef
<1>4. Len(q) = k
  BY <1>2, <1>3, LenProperties
<1>5. Descends(q)
  BY <1>2, <1>4 DEF First, Descends
<1>6. ASSUME NEW r \in S, ~ \E i \in 1 .. Len(q) : q[i] = r
      PROVE  q # <<>> /\ r < LastRow(q)
  <2>1. Len(q) = n /\ \A i \in 1 .. k : r < q[i]
    BY <1>2, <1>4, <1>6 DEF First
  <2>2. n \in 1 .. k /\ q # <<>>
    BY <1>2, <1>4, <2>1, EmptySeq
  <2> QED  BY <2>1, <2>2 DEF LastRow
<1> QED  BY <1>1, <1>3, <1>4, <1>5, <1>6

\* The server's answer to a cursor.
LEMMA AnswerIs ==
  ASSUME rows \subseteq Instants, list.limit \in Nat, NEW cursor, NEW p \in Answered(cursor)
  PROVE  /\ p.data \in Seq(Instants) /\ Len(p.data) <= Limit(list.limit) /\ Descends(p.data)
         /\ \A j \in 1 .. Len(p.data) : cursor = NoCursor \/ p.data[j] < cursor
         /\ p.hasMore => p.data # <<>>
         /\ p.cursor \in {NoCursor} \cup Instants
         /\ p.cursor # NoCursor => p.data # <<>> /\ p.cursor = LastRow(p.data)
         /\ \A r \in RowsBefore(cursor) : \/ \E j \in 1 .. Len(p.data) : p.data[j] = r
                                          \/ p.hasMore /\ r < LastRow(p.data)
<1> DEFINE found == RowsBefore(cursor)
           n == Limit(list.limit)
           More(q) == \E r \in found : \A i \in DOMAIN q : q[i] # r
           Cursors(q) ==
             IF ~ More(q) THEN {NoCursor}
             ELSE IF list.cursor = "cursor" THEN {NoCursor, q[Len(q)]}
             ELSE {FormCursor(q[Len(q)])}
<1>0. PICK q \in First(found, n) :
        \E c \in Cursors(q) : p = [data |-> q, hasMore |-> More(q), cursor |-> c]
  BY DEF Answered
<1>1. /\ q \in First(found, n) /\ p.data = q /\ p.hasMore = More(q)
      /\ p.cursor \in {NoCursor, LastRow(q)}
      /\ p.cursor = NoCursor \/ More(q)
  <2>1. PICK c \in Cursors(q) : p = [data |-> q, hasMore |-> More(q), cursor |-> c]
    BY <1>0
  <2>2. c \in {NoCursor, LastRow(q)} /\ (c = NoCursor \/ More(q))
    BY DEF FormCursor, LastRow
  <2> HIDE DEF found, n, More, Cursors
  <2> QED  BY <1>0, <2>1, <2>2
<1>2. found \in SUBSET Instants /\ n \in Nat \ {0}
  BY LimitLets DEF RowsBefore
<1>3. \A r \in found : cursor = NoCursor \/ r < cursor
  BY DEF RowsBefore
<1> HIDE DEF found, n, More
<1>4. /\ q \in Seq(Instants) /\ Len(q) \in 0 .. n /\ Descends(q)
      /\ \A i \in 1 .. Len(q) : q[i] \in found
      /\ \A r \in found : \/ \E i \in 1 .. Len(q) : q[i] = r
                          \/ q # <<>> /\ r < LastRow(q)
  <2>1. q \in First(found, n)
    BY <1>1
  <2> QED  BY <1>2, <2>1, FirstAre
<1>5. DOMAIN q = 1 .. Len(q) /\ Len(q) \in Nat
  BY <1>4, LenProperties
<1>6. More(q) => q # <<>>
  BY <1>4, <1>5 DEF More
<1>7. \A r \in found : (\E j \in 1 .. Len(q) : q[j] = r) \/ (More(q) /\ r < LastRow(q))
  BY <1>4, <1>5 DEF More
<1>8. q # <<>> => LastRow(q) \in Instants
  BY <1>4, EmptySeq, LenProperties, ElementOfSeq DEF LastRow
<1>9. \A j \in 1 .. Len(q) : cursor = NoCursor \/ q[j] < cursor
  BY <1>3, <1>4
<1>10. Len(q) <= n
  BY <1>2, <1>4
<1> QED  BY <1>1, <1>4, <1>6, <1>7, <1>8, <1>9, <1>10 DEF found, n


\* No walk has begun.
LEMMA PageStart == Init => PageInv
<1> SUFFICES ASSUME Init PROVE PageInv
  OBVIOUS
<1>1. /\ walk = "idle" /\ page = NoPage /\ next = 1 /\ seen = <<>>
      /\ rows = {} /\ lasting = {}
  BY DEF Init, PageInit
<1>2. list.limit \in Nat
  BY PaginationAssumption DEF Init, PageInit
<1>3. <<>> \in Seq(Instants) /\ Len(<<>>) = 0
  BY EmptySeq
<1>4. Limit(list.limit) \in Nat \ {0}
  BY <1>2, LimitLets
<1>5. page.data = <<>> /\ page.hasMore = FALSE /\ page.cursor = NoCursor
  BY <1>1 DEF NoPage
<1>6. PageTypes
  BY <1>1, <1>2, <1>3, <1>5 DEF PageTypes
<1>7. PageShape
  BY <1>3, <1>4, <1>5 DEF PageShape, Descends
<1>8. OlderToCome
  BY <1>1, <1>3 DEF OlderToCome, Descends
<1> QED  BY <1>1, <1>6, <1>7, <1>8 DEF PageInv, NoneLost

\* A walk begins at the top.
LEMMA ListsOne == ASSUME PageInv, List PROVE PageInv'
<1>1. /\ walk' = "fetch" /\ page' = NoPage /\ UNCHANGED <<list, next, seen>>
      /\ rows' \subseteq Instants /\ lasting' = rows' /\ walk = "idle"
  BY DEF List
<1>2. seen = <<>> /\ next = 1 /\ list.limit \in Nat
  BY <1>1 DEF PageInv, OlderToCome, PageTypes
<1>3. <<>> \in Seq(Instants) /\ Len(<<>>) = 0
  BY EmptySeq
<1>4. Limit(list.limit) \in Nat \ {0}
  BY <1>2, LimitLets
<1>5. page'.data = <<>> /\ page'.hasMore = FALSE /\ page'.cursor = NoCursor
  BY <1>1 DEF NoPage
<1>6. PageTypes'
  BY <1>1, <1>2, <1>3, <1>5 DEF PageTypes
<1>7. PageShape'
  BY <1>1, <1>3, <1>4, <1>5 DEF PageShape, Descends
<1>8. OlderToCome'
  BY <1>1, <1>2, <1>3, <1>5 DEF OlderToCome, Descends
<1>9. NoneLost'
  BY <1>1, <1>5 DEF NoneLost
<1> QED  BY <1>6, <1>7, <1>8, <1>9 DEF PageInv

\* The page a cursor asks for is older than all that was yielded, and holds
\* or leads to every lasting row that was not.
LEMMA FetchesOne == ASSUME PageInv, FetchPage PROVE PageInv'
<1>1. /\ walk = "fetch" /\ walk' = "page" /\ next' = 1 /\ page' \in Answered(page.cursor)
      /\ UNCHANGED <<list, seen, rows, lasting>>
  BY DEF FetchPage, Fetched
<1> DEFINE cursor == page.cursor
           p == page'
<1>2. rows \subseteq Instants /\ lasting \subseteq rows /\ list.limit \in Nat /\ seen \in Seq(Instants)
  BY DEF PageInv, PageTypes
<1>3. /\ p.data \in Seq(Instants) /\ Len(p.data) <= Limit(list.limit) /\ Descends(p.data)
      /\ \A j \in 1 .. Len(p.data) : cursor = NoCursor \/ p.data[j] < cursor
      /\ p.hasMore => p.data # <<>>
      /\ p.cursor \in {NoCursor} \cup Instants
      /\ p.cursor # NoCursor => p.data # <<>> /\ p.cursor = LastRow(p.data)
      /\ \A r \in RowsBefore(cursor) : \/ \E j \in 1 .. Len(p.data) : p.data[j] = r
                                       \/ p.hasMore /\ r < LastRow(p.data)
  BY <1>1, <1>2, AnswerIs
<1>4. PageTypes'
  <2>1. Len(p.data) \in Nat
    BY <1>3, LenProperties
  <2> QED  BY <1>1, <1>2, <1>3, <2>1 DEF PageTypes
<1>5. PageShape'
  BY <1>1, <1>3 DEF PageShape, Descends
<1>6. OlderToCome'
  <2>1. Descends(seen)
    BY DEF PageInv, OlderToCome
  <2>2. ASSUME NEW i \in 1 .. Len(seen), NEW j \in 1 .. Len(p.data) PROVE p.data[j] < seen[i]
    <3>1. cursor # NoCursor /\ cursor <= seen[i]
      <4>1. Len(<<>>) = 0
        BY EmptySeq
      <4>2. seen # <<>>
        BY <4>1
      <4> QED  BY <1>1, <4>2 DEF PageInv, OlderToCome
    <3>2. p.data[j] < cursor
      BY <1>3, <3>1
    <3>3. p.data[j] \in Int /\ seen[i] \in Int /\ cursor \in Int
      <4>1. p.data[j] \in Instants /\ seen[i] \in Instants
        BY <1>2, <1>3, ElementOfSeq
      <4>2. cursor \in {NoCursor} \cup Instants
        BY DEF PageInv, PageShape
      <4> QED  BY <4>1, <4>2, PaginationAssumption DEF Instants, NoCursor
    <3> HIDE DEF p, cursor
    <3> QED  BY <3>1, <3>2, <3>3
  <2>3. ASSUME NEW i \in 1 .. Len(seen), p.data # <<>> PROVE LastRow(p.data) <= seen[i]
    <3>1. Len(p.data) \in 1 .. Len(p.data)
      BY <1>3, <2>3, EmptySeq, LenProperties
    <3>2. LastRow(p.data) < seen[i]
      BY <2>2, <3>1 DEF LastRow
    <3>3. LastRow(p.data) \in Instants /\ seen[i] \in Instants
      BY <1>2, <1>3, <3>1, ElementOfSeq DEF LastRow
    <3>4. LastRow(p.data) \in Int /\ seen[i] \in Int
      BY <3>3, PaginationAssumption DEF Instants
    <3> HIDE DEF p
    <3> QED  BY <3>2, <3>4
  <2> HIDE DEF cursor
  <2> QED  BY <1>1, <2>1, <2>2, <2>3 DEF OlderToCome, Descends
<1>7. NoneLost'
  <2>1. ASSUME NEW r \in lasting
        PROVE  SeenRow(r) \/ (\E j \in 1 .. Len(p.data) : p.data[j] = r)
                \/ (p.hasMore /\ r < LastRow(p.data))
    <3>1. SeenRow(r) \/ cursor = NoCursor \/ r < cursor
      BY <1>1 DEF PageInv, NoneLost
    <3>2. cursor = NoCursor \/ r < cursor => r \in RowsBefore(cursor)
      BY <1>2 DEF RowsBefore
    <3> QED  BY <1>3, <3>1, <3>2
  <2> QED  BY <1>1, <2>1 DEF NoneLost, SeenRow, ToCome
<1> QED  BY <1>4, <1>5, <1>6, <1>7 DEF PageInv


\* The row yielded is older than those before it and newer than those left.
LEMMA YieldsOne == ASSUME PageInv, Yield PROVE PageInv'
<1>1. /\ walk = "page" /\ next <= Len(page.data) /\ walk' \in {"page", "stopped"}
      /\ seen' = Append(seen, page.data[next]) /\ next' = next + 1
      /\ UNCHANGED <<list, page, rows, lasting>>
  BY DEF Yield
<1> DEFINE held == page.data
           row == held[next]
<1>2. /\ seen \in Seq(Instants) /\ held \in Seq(Instants) /\ next \in 1 .. Len(held) + 1
      /\ Len(held) \in Nat /\ Len(seen) \in Nat
  BY LenProperties DEF PageInv, PageTypes
<1>3. next \in 1 .. Len(held) /\ next \in Nat /\ row \in Instants
  BY <1>1, <1>2, ElementOfSeq
<1>4. /\ seen' \in Seq(Instants) /\ Len(seen') = Len(seen) + 1 /\ seen'[Len(seen) + 1] = row
      /\ \A i \in 1 .. Len(seen) : seen'[i] = seen[i]
  BY <1>1, <1>2, <1>3, Added
<1>5. \A i \in 1 .. Len(seen') : i \in 1 .. Len(seen) \/ i = Len(seen) + 1
  BY <1>2, <1>4
<1>6. /\ \A i \in 1 .. Len(seen) : \A j \in next .. Len(held) : held[j] < seen[i]
      /\ \A i \in 1 .. Len(seen) : held # <<>> => LastRow(held) <= seen[i]
      /\ Descends(seen) /\ Descends(held)
  BY <1>1 DEF PageInv, OlderToCome, PageShape
<1>7. next \in next .. Len(held)
  BY <1>2, <1>3
<1>8. PageTypes'
  BY <1>1, <1>2, <1>3, <1>4 DEF PageInv, PageTypes
<1>9. PageShape'
  BY <1>1 DEF PageInv, PageShape
<1>10. Descends(seen')
  <2>1. \A i \in 1 .. Len(seen) : row < seen[i]
    BY <1>6, <1>7
  <2>2. ASSUME NEW i \in 1 .. Len(seen'), NEW j \in 1 .. Len(seen'), i < j
        PROVE  seen'[j] < seen'[i]
    <3>1. i \in 1 .. Len(seen)
      BY <1>2, <1>4, <2>2
    <3>2. CASE j \in 1 .. Len(seen)
      BY <1>4, <1>6, <2>2, <3>1, <3>2 DEF Descends
    <3>3. CASE j = Len(seen) + 1
      BY <1>4, <2>1, <3>1, <3>3
    <3> QED  BY <1>5, <3>2, <3>3
  <2> QED  BY <2>2 DEF Descends
<1>11. ASSUME NEW i \in 1 .. Len(seen')
       PROVE  /\ \A j \in next + 1 .. Len(held) : held[j] < seen'[i]
              /\ held # <<>> => LastRow(held) <= seen'[i]
  <2>1. CASE i \in 1 .. Len(seen)
    <3>1. \A j \in next + 1 .. Len(held) : j \in next .. Len(held)
      BY <1>2, <1>3
    <3> QED  BY <1>4, <1>6, <2>1, <3>1
  <2>2. CASE i = Len(seen) + 1
    <3>1. \A j \in next + 1 .. Len(held) : j \in 1 .. Len(held) /\ next < j
      BY <1>2, <1>3
    <3>2. \A j \in next + 1 .. Len(held) : held[j] < row
      BY <1>3, <1>6, <3>1 DEF Descends
    <3>3. LastRow(held) <= row
      <4>1. CASE next = Len(held)
        <5>1. row \in Int
          BY <1>3, PaginationAssumption DEF Instants
        <5> QED  BY <4>1, <5>1 DEF LastRow
      <4>2. CASE next # Len(held)
        <5>1. Len(held) \in next + 1 .. Len(held) /\ Len(held) \in 1 .. Len(held)
          BY <1>2, <1>3, <4>2
        <5>2. LastRow(held) < row
          BY <3>2, <5>1 DEF LastRow
        <5>3. LastRow(held) \in Int /\ row \in Int
          BY <1>2, <1>3, <5>1, ElementOfSeq, PaginationAssumption DEF Instants, LastRow
        <5> HIDE DEF held, row
        <5> QED  BY <5>2, <5>3
      <4> QED  BY <4>1, <4>2
    <3> QED  BY <1>4, <2>2, <3>2, <3>3
  <2> QED  BY <1>5, <2>1, <2>2
<1>12. OlderToCome'
  BY <1>1, <1>10, <1>11 DEF OlderToCome, Descends
<1>13. NoneLost'
  <2>1. \A r : SeenRow(r) => SeenRow(r)'
    <3>1. \A i \in 1 .. Len(seen) : i \in 1 .. Len(seen')
      BY <1>2, <1>4
    <3> QED  BY <1>4, <3>1 DEF SeenRow
  <2>2. ASSUME NEW r, ToCome(r) PROVE SeenRow(r)' \/ ToCome(r)'
    <3>1. PICK j \in next .. Len(held) : held[j] = r
      BY <2>2 DEF ToCome
    <3>2. CASE j = next
      <4>1. Len(seen) + 1 \in 1 .. Len(seen')
        BY <1>2, <1>4
      <4> QED  BY <1>4, <3>1, <3>2, <4>1 DEF SeenRow
    <3>3. CASE j # next
      <4>1. j \in next + 1 .. Len(held)
        BY <1>2, <1>3, <3>3
      <4> QED  BY <1>1, <3>1, <4>1 DEF ToCome
    <3> QED  BY <3>2, <3>3
  <2>3. \A r \in lasting : SeenRow(r) \/ ToCome(r) \/ (page.hasMore /\ r < LastRow(page.data))
    BY <1>1 DEF PageInv, NoneLost
  <2> QED  BY <1>1, <2>1, <2>2, <2>3 DEF NoneLost
<1> QED  BY <1>8, <1>9, <1>12, <1>13 DEF PageInv

\* A page that is done leads on from its last row, and what is below it is
\* all there is to come.
LEMMA TurnsOne == ASSUME PageInv, TurnPage PROVE PageInv'
<1>1. /\ walk = "page" /\ next > Len(page.data)
      /\ walk' = IF HasMore(page) THEN "fetch" ELSE "ended"
      /\ UNCHANGED <<list, page, next, seen, rows, lasting>>
  BY DEF TurnPage
<1>2. Len(page.data) \in Nat /\ next \in Nat
  BY LenProperties DEF PageInv, PageTypes
<1>3. PageTypes'
  BY <1>1 DEF PageInv, PageTypes
<1>4. PageShape'
  BY <1>1 DEF PageInv, PageShape
<1>5. \A r : ~ ToCome(r)
  BY <1>1, <1>2 DEF ToCome
<1>6. \A r \in lasting : SeenRow(r) \/ (page.hasMore /\ r < LastRow(page.data))
  BY <1>1, <1>5 DEF PageInv, NoneLost
<1>7. \A r : SeenRow(r)' <=> SeenRow(r)
  BY <1>1 DEF SeenRow
<1>8. CASE HasMore(page)
  <2>1. page.data # <<>> /\ page.cursor = LastRow(page.data) /\ page.cursor # NoCursor
    BY <1>8 DEF HasMore, PageInv, PageShape
  <2>2. \A i \in 1 .. Len(seen) : page.cursor <= seen[i]
    BY <1>1, <2>1 DEF PageInv, OlderToCome
  <2>3. walk' = "fetch"
    BY <1>1, <1>8
  <2>4. OlderToCome'
    BY <1>1, <2>1, <2>2, <2>3 DEF PageInv, OlderToCome, Descends
  <2>5. NoneLost'
    BY <1>1, <1>6, <1>7, <2>1, <2>3 DEF NoneLost
  <2> QED  BY <1>3, <1>4, <2>4, <2>5 DEF PageInv
<1>9. CASE ~ HasMore(page)
  <2>1. walk' = "ended"
    BY <1>1, <1>9
  <2>2. OlderToCome'
    BY <1>1, <2>1 DEF PageInv, OlderToCome, Descends
  <2>3. NoneLost'
    BY <1>1, <1>6, <1>7, <2>1 DEF NoneLost
  <2> QED  BY <1>3, <1>4, <2>2, <2>3 DEF PageInv
<1> QED  BY <1>8, <1>9

\* What others do to the list takes rows from the lasting ones at most.
LEMMA PageNextKeeps == PageInv /\ [Next]_vars => PageInv'
<1> SUFFICES ASSUME PageInv, [Next]_vars PROVE PageInv'
  OBVIOUS
<1>1. CASE RowAdded \/ RowRemoved \/ UNCHANGED pageVars
  <2>1. /\ UNCHANGED <<walk, list, page, next, seen>> /\ lasting' \subseteq lasting
        /\ rows' \subseteq Instants /\ lasting' \subseteq rows'
    BY <1>1 DEF RowAdded, RowRemoved, pageVars, PageInv, PageTypes
  <2>2. PageTypes'
    BY <2>1 DEF PageInv, PageTypes
  <2>3. PageShape'
    BY <2>1 DEF PageInv, PageShape
  <2>4. OlderToCome'
    BY <2>1 DEF PageInv, OlderToCome, Descends
  <2>5. \A r : (SeenRow(r)' <=> SeenRow(r)) /\ (ToCome(r)' <=> ToCome(r))
    BY <2>1 DEF SeenRow, ToCome
  <2>6. NoneLost'
    BY <2>1, <2>5 DEF PageInv, NoneLost
  <2> QED  BY <2>2, <2>3, <2>4, <2>6 DEF PageInv
<1>2. CASE FetchFails
  <2>1. walk' = "failed" /\ UNCHANGED <<list, page, next, seen, rows, lasting>>
    BY <1>2 DEF FetchFails
  <2> QED  BY <2>1 DEF PageInv, PageTypes, PageShape, OlderToCome, NoneLost, Descends
<1>3. PageNext \/ UNCHANGED pageVars
  BY DEF Next, Pages, Stream, Poll, Webhooks, Options, Updates, vars
<1> QED  BY <1>1, <1>2, <1>3, ListsOne, FetchesOne, YieldsOne, TurnsOne DEF PageNext

\* EveryRowOnce: whatever is added to the list or removed from it between two
\* requests, whatever the limit and wherever the caller stops, rows come
\* newest first, each once, and a walk let finish has met every lasting row.
THEOREM WalkComplete == Spec => []EveryRowOnce
<1>1. PageInv => EveryRowOnce
  <2> SUFFICES ASSUME PageInv PROVE EveryRowOnce
    OBVIOUS
  <2>1. seen \in Seq(Instants) /\ Descends(seen)
    BY DEF PageInv, PageTypes, OlderToCome
  <2>2. Len(seen) \in Nat /\ DOMAIN seen = 1 .. Len(seen)
    BY <2>1, LenProperties
  <2>3. ASSUME NEW i \in 1 .. Len(seen) - 1 PROVE seen[i + 1] < seen[i]
    <3>1. i \in 1 .. Len(seen) /\ i + 1 \in 1 .. Len(seen) /\ i < i + 1
      BY <2>2
    <3> QED  BY <2>1, <3>1 DEF Descends
  <2> QED  BY <2>2, <2>3 DEF PageInv, NoneLost, SeenRow, EveryRowOnce
<1> QED  BY <1>1, PageStart, PageNextKeeps, PTL DEF Spec


-----------------------------------------------------------------------------
(* The client's construction                                               *)

Clients ==
  [auth : Credentials \cup {"none"}, base : BaseURLs, http : BOOLEAN,
   userAgent : {"default", "product"}, header : BOOLEAN,
   maxRetries : Int, waitMin : Int, waitMax : Int]

\* A client the engine can run, but for credentials that are still to come.
Runs(c) ==
  /\ c.auth # "missing" /\ c.http = TRUE
  /\ c.base.absolute = TRUE /\ c.base.slash = TRUE
  /\ c.maxRetries >= 0 /\ c.waitMin >= 1 /\ c.waitMin <= c.waitMax

OptInv ==
  /\ built \in {"no", "applying", "client", "error"} /\ given \in 0 .. MaxOptions
  /\ client \in Clients /\ Runs(client)
  /\ built = "client" => client.auth # "none"

\* The defaults are in range.
LEMMA OptionsStart == Init => OptInv
<1> SUFFICES ASSUME Init PROVE OptInv
  OBVIOUS
<1>1. client = Default /\ given = 0 /\ built = "no"
  BY DEF Init, OptionsInit
<1>2. Default \in Clients
  BY DEF Default, Clients, Credentials, BaseURLs
<1>3. Runs(Default)
  BY DEF Runs, Default
<1> QED  BY <1>1, <1>2, <1>3, OptionsAssumption DEF OptInv

\* An option applied: what it was given, if that is valid, or an error.
LEMMA AppliedOne ==
  ASSUME OptInv, NEW valid \in BOOLEAN, NEW with, Applied(valid, with),
         valid => with \in Clients /\ Runs(with)
  PROVE  OptInv'
<1>1. given < MaxOptions /\ given' = given + 1 /\ built = "applying"
  BY DEF Applied
<1>2. given' \in 0 .. MaxOptions
  BY <1>1, OptionsAssumption DEF OptInv
<1>3. CASE valid
  BY <1>1, <1>2, <1>3 DEF Applied, OptInv
<1>4. CASE ~ valid
  BY <1>1, <1>2, <1>4 DEF Applied, OptInv
<1> QED  BY <1>3, <1>4

\* Each option replaces its own part of the client by one that is in range.
LEMMA OptionsNextKeep == OptInv /\ [Next]_vars => OptInv'
<1> SUFFICES ASSUME OptInv, [Next]_vars PROVE OptInv'
  OBVIOUS
<1>0. client \in Clients /\ Runs(client)
  BY DEF OptInv
<1>1. CASE WithCredential
  <2>1. PICK a \in Credentials : Applied(a # "missing", [client EXCEPT !.auth = a])
    BY <1>1 DEF WithCredential
  <2> DEFINE c == [client EXCEPT !.auth = a]
  <2>2. c \in Clients
    BY <1>0 DEF Clients
  <2>3. a # "missing" => Runs(c)
    BY <1>0 DEF Clients, Runs
  <2> QED  BY <2>1, <2>2, <2>3, AppliedOne
<1>2. CASE WithBaseURL
  <2>1. PICK u \in BaseURLs :
          Applied(u.parses /\ u.absolute, [client EXCEPT !.base = [u EXCEPT !.slash = TRUE]])
    BY <1>2 DEF WithBaseURL
  <2> DEFINE b == [u EXCEPT !.slash = TRUE]
             c == [client EXCEPT !.base = b]
  <2>2. /\ b \in BaseURLs /\ b.slash = TRUE /\ b.absolute = u.absolute
        /\ u.parses \in BOOLEAN /\ u.absolute \in BOOLEAN
    BY DEF BaseURLs
  <2> HIDE DEF b
  <2>3. c \in Clients
    BY <1>0, <2>2 DEF Clients
  <2>4. u.parses /\ u.absolute => Runs(c)
    BY <1>0, <2>2 DEF Clients, Runs
  <2>5. Applied(u.parses /\ u.absolute, c)
    BY <2>1 DEF b
  <2>6. (u.parses /\ u.absolute) \in BOOLEAN
    BY <2>2
  <2> HIDE DEF c
  <2> QED  BY <2>3, <2>4, <2>5, <2>6, AppliedOne
<1>3. CASE WithHTTPClient
  <2>1. PICK set \in BOOLEAN : Applied(set, [client EXCEPT !.http = set])
    BY <1>3 DEF WithHTTPClient
  <2> DEFINE c == [client EXCEPT !.http = set]
  <2>2. c \in Clients
    BY <1>0 DEF Clients
  <2>3. set => Runs(c)
    BY <1>0 DEF Clients, Runs
  <2> QED  BY <2>1, <2>2, <2>3, AppliedOne
<1>4. CASE WithUserAgent
  <2>1. /\ given < MaxOptions /\ given' = given + 1 /\ UNCHANGED built /\ built = "applying"
        /\ client' \in {client, [client EXCEPT !.userAgent = "product"]}
    BY <1>4 DEF WithUserAgent
  <2>2. given' \in 0 .. MaxOptions
    BY <2>1, OptionsAssumption DEF OptInv
  <2>3. client' \in Clients /\ Runs(client')
    BY <1>0, <2>1 DEF Clients, Runs
  <2> QED  BY <2>1, <2>2, <2>3 DEF OptInv
<1>5. CASE WithMaxRetries
  <2>1. PICK n \in Counts : Applied(n >= 0, [client EXCEPT !.maxRetries = n])
    BY <1>5 DEF WithMaxRetries
  <2> DEFINE c == [client EXCEPT !.maxRetries = n]
  <2>2. c \in Clients
    BY <1>0, OptionsAssumption DEF Clients
  <2>3. n >= 0 => Runs(c)
    BY <1>0, OptionsAssumption DEF Clients, Runs
  <2>4. (n >= 0) \in BOOLEAN
    OBVIOUS
  <2> QED  BY <2>1, <2>2, <2>3, <2>4, AppliedOne
<1>6. CASE WithRetryWaitBounds
  <2>1. PICK lo \in Waits, hi \in Waits :
          Applied(lo > 0 /\ hi > 0 /\ lo <= hi, [client EXCEPT !.waitMin = lo, !.waitMax = hi])
    BY <1>6 DEF WithRetryWaitBounds
  <2> DEFINE c == [client EXCEPT !.waitMin = lo, !.waitMax = hi]
             valid == lo > 0 /\ hi > 0 /\ lo <= hi
  <2>2. lo \in Int /\ hi \in Int
    BY OptionsAssumption
  <2>3. c \in Clients
    BY <1>0, <2>2 DEF Clients
  <2>4. valid => Runs(c)
    BY <1>0, <2>2 DEF Clients, Runs
  <2>5. valid \in BOOLEAN
    OBVIOUS
  <2> HIDE DEF c, valid
  <2>6. Applied(valid, c)
    BY <2>1 DEF c, valid
  <2> QED  BY <2>3, <2>4, <2>5, <2>6, AppliedOne
<1>7. CASE WithHeader
  <2>1. PICK keyed \in BOOLEAN : Applied(keyed, [client EXCEPT !.header = keyed])
    BY <1>7 DEF WithHeader
  <2> DEFINE c == [client EXCEPT !.header = keyed]
  <2>2. c \in Clients
    BY <1>0 DEF Clients
  <2>3. Runs(c)
    BY <1>0 DEF Clients, Runs
  <2> QED  BY <2>1, <2>2, <2>3, AppliedOne
<1>8. CASE New \/ Built \/ UNCHANGED optionVars
  BY <1>8 DEF New, Built, optionVars, OptInv
<1>9. OptionsNext \/ UNCHANGED optionVars
  BY DEF Next, Pages, Stream, Poll, Webhooks, Options, Updates, vars
<1> QED  BY <1>1, <1>2, <1>3, <1>4, <1>5, <1>6, <1>7, <1>8, <1>9 DEF OptionsNext

\* New returns such a client only with credentials.
LEMMA OptionsUsable == OptInv => ClientUsable
<1> SUFFICES ASSUME OptInv, built = "client" PROVE ClientUsable
  BY DEF ClientUsable
<1>1. client \in Clients /\ Runs(client) /\ client.auth # "none"
  BY DEF OptInv
<1>2. client.waitMin \in Int /\ client.waitMax \in Int
  BY <1>1 DEF Clients
<1>3. client.waitMin \in 1 .. client.waitMax
  BY <1>1, <1>2 DEF Runs
<1> QED  BY <1>1, <1>3 DEF ClientUsable, Runs


-----------------------------------------------------------------------------
(* Partial updates                                                         *)

Kinds == {"optional", "nullable", "shadowed", "flagged", "list", "value", "always"}
WholeKinds == {"optional", "list", "value", "always"}

\* The fields of the types whose update merges are of the kinds there are.
LEMMA MergedKinds == ASSUME NEW u \in MergedUpdates PROVE (DOMAIN u) \ {"delta"} \subseteq Kinds
<1>1. (DOMAIN SkillUpdateParams) \ {"delta"} \subseteq Kinds
  BY DEF SkillUpdateParams, Kinds
<1>2. (DOMAIN APIKeyUpdateParams) \ {"delta"} \subseteq Kinds
  BY DEF APIKeyUpdateParams, Kinds
<1>3. (DOMAIN MCPServerUpdateParams) \ {"delta"} \subseteq Kinds
  BY DEF MCPServerUpdateParams, Kinds
<1>4. (DOMAIN ProfileUpdateParams) \ {"delta"} \subseteq Kinds
  BY DEF ProfileUpdateParams, Kinds
<1>5. (DOMAIN CampaignUpdateParams) \ {"delta"} \subseteq Kinds
  BY DEF CampaignUpdateParams, Kinds
<1>6. (DOMAIN StepUpdateParams) \ {"delta"} \subseteq Kinds
  BY DEF StepUpdateParams, Kinds
<1>7. (DOMAIN ABVariantUpdateParams) \ {"delta"} \subseteq Kinds
  BY DEF ABVariantUpdateParams, Kinds
<1>8. (DOMAIN ContactUpdateParams) \ {"delta"} \subseteq Kinds
  BY DEF ContactUpdateParams, Kinds
<1>9. (DOMAIN PipelineUpdateParams) \ {"delta"} \subseteq Kinds
  BY DEF PipelineUpdateParams, Kinds
<1>10. (DOMAIN StageUpdateParams) \ {"delta"} \subseteq Kinds
  BY DEF StageUpdateParams, Kinds
<1>11. (DOMAIN DealUpdateParams) \ {"delta"} \subseteq Kinds
  BY DEF DealUpdateParams, Kinds
<1>12. (DOMAIN TaskTypeUpdateParams) \ {"delta"} \subseteq Kinds
  BY DEF TaskTypeUpdateParams, Kinds
<1>13. (DOMAIN CRMTaskUpdateParams) \ {"delta"} \subseteq Kinds
  BY DEF CRMTaskUpdateParams, Kinds
<1>14. (DOMAIN EmailUpdateParams) \ {"delta"} \subseteq Kinds
  BY DEF EmailUpdateParams, Kinds
<1>15. (DOMAIN SendingBehaviorUpdateParams) \ {"delta"} \subseteq Kinds
  BY DEF SendingBehaviorUpdateParams, Kinds
<1>16. (DOMAIN FormUpdateParams) \ {"delta"} \subseteq Kinds
  BY DEF FormUpdateParams, Kinds
<1>17. (DOMAIN GroupUpdateParams) \ {"delta"} \subseteq Kinds
  BY DEF GroupUpdateParams, Kinds
<1>18. (DOMAIN ConnectionConfigParams) \ {"delta"} \subseteq Kinds
  BY DEF ConnectionConfigParams, Kinds
<1>19. (DOMAIN LeadSyncUpdateParams) \ {"delta"} \subseteq Kinds
  BY DEF LeadSyncUpdateParams, Kinds
<1>20. (DOMAIN RoleUpdateParams) \ {"delta"} \subseteq Kinds
  BY DEF RoleUpdateParams, Kinds
<1>21. (DOMAIN OrganizationUpdateParams) \ {"delta"} \subseteq Kinds
  BY DEF OrganizationUpdateParams, Kinds
<1>22. (DOMAIN SegmentUpdateParams) \ {"delta"} \subseteq Kinds
  BY DEF SegmentUpdateParams, Kinds
<1>23. (DOMAIN TeamUpdateParams) \ {"delta"} \subseteq Kinds
  BY DEF TeamUpdateParams, Kinds
<1>24. (DOMAIN TemplateUpdateParams) \ {"delta"} \subseteq Kinds
  BY DEF TemplateUpdateParams, Kinds
<1>25. (DOMAIN WebsiteTrackingUpdateParams) \ {"delta"} \subseteq Kinds
  BY DEF WebsiteTrackingUpdateParams, Kinds
<1> QED
  BY <1>1, <1>2, <1>3, <1>4, <1>5, <1>6, <1>7, <1>8, <1>9, <1>10, <1>11, <1>12, <1>13, <1>14, <1>15, <1>16, <1>17, <1>18, <1>19, <1>20, <1>21, <1>22, <1>23, <1>24, <1>25 DEF MergedUpdates

\* No type that is sent whole has a field that is cleared by a flag.
LEMMA ReplacedKinds == ASSUME NEW u \in WholeUpdates PROVE (DOMAIN u) \ {"delta"} \subseteq WholeKinds
<1>1. (DOMAIN WebhookUpdateParams) \ {"delta"} \subseteq WholeKinds
  BY DEF WebhookUpdateParams, WholeKinds
<1>2. (DOMAIN OAuthAppParams) \ {"delta"} \subseteq WholeKinds
  BY DEF OAuthAppParams, WholeKinds
<1>3. (DOMAIN WarmupRoutingRuleParams) \ {"delta"} \subseteq WholeKinds
  BY DEF WarmupRoutingRuleParams, WholeKinds
<1>4. (DOMAIN AutomationCreateParams) \ {"delta"} \subseteq WholeKinds
  BY DEF AutomationCreateParams, WholeKinds
<1>5. (DOMAIN OutreachSettings) \ {"delta"} \subseteq WholeKinds
  BY DEF OutreachSettings, WholeKinds
<1>6. (DOMAIN CreditSettingsParams) \ {"delta"} \subseteq WholeKinds
  BY DEF CreditSettingsParams, WholeKinds
<1>7. (DOMAIN ComposeDraftParams) \ {"delta"} \subseteq WholeKinds
  BY DEF ComposeDraftParams, WholeKinds
<1>8. (DOMAIN AdvisorSettings) \ {"delta"} \subseteq WholeKinds
  BY DEF AdvisorSettings, WholeKinds
<1>9. (DOMAIN UpdateMemberParams) \ {"delta"} \subseteq WholeKinds
  BY DEF UpdateMemberParams, WholeKinds
<1> QED
  BY <1>1, <1>2, <1>3, <1>4, <1>5, <1>6, <1>7, <1>8, <1>9 DEF WholeUpdates

\* The two fields of every record that is updated.
LEMMA ShapeKinds ==
  ASSUME NEW s \in Shapes, NEW f \in Pair
  PROVE  /\ s.whole \in BOOLEAN
         /\ s.kinds[f] \in IF s.whole THEN WholeKinds ELSE Kinds
<1>1. CASE s \in [whole : {FALSE}, kinds : KindPairs(MergedUpdates)]
  <2>1. s.whole = FALSE /\ s.kinds \in KindPairs(MergedUpdates)
    BY <1>1
  <2>2. PICK u \in MergedUpdates : s.kinds \in [Pair -> (DOMAIN u) \ {"delta"}]
    BY <2>1 DEF KindPairs
  <2> QED  BY <2>1, <2>2, MergedKinds
<1>2. CASE s \in [whole : {TRUE}, kinds : KindPairs(WholeUpdates)]
  <2>1. s.whole = TRUE /\ s.kinds \in KindPairs(WholeUpdates)
    BY <1>2
  <2>2. PICK u \in WholeUpdates : s.kinds \in [Pair -> (DOMAIN u) \ {"delta"}]
    BY <2>1 DEF KindPairs
  <2> QED  BY <2>1, <2>2, ReplacedKinds
<1> QED  BY <1>1, <1>2 DEF Shapes

\* What a field may hold, what an ask may say, what may be sent of it.
Held == Editors \cup {"old", "empty"}
Askable(e) == [value : {"nil", "empty", e}, clear : BOOLEAN]
Sendable == Held \cup {"absent", "null"}

\* What an ask means for a field of a kind, and what it makes of it.
Meant(kind, whole, ask) ==
  CASE ask.clear -> "empty"
    [] ~ ask.clear /\ ask.value = "nil" -> "keep"
    [] ~ ask.clear /\ ask.value = "empty" /\ ~ whole /\ kind \in {"list", "value"} -> "keep"
    [] OTHER -> ask.value
Effect(intent, old) == IF intent = "keep" THEN old ELSE intent

\* An ask is one of a value, to be cleared or not.
LEMMA AskIs ==
  ASSUME NEW e \in Editors, NEW kind, NEW ask \in FieldAsks(kind, e)
  PROVE  ask \in Askable(e)
<1>1. CASE kind = "value" /\ ~ shape.whole
  BY <1>1 DEF FieldAsks, Askable
<1>2. CASE kind \in {"nullable", "shadowed"}
  BY <1>2 DEF FieldAsks, Askable
<1>3. CASE kind = "flagged"
  BY <1>3 DEF FieldAsks, Askable, NoAsk
<1>4. CASE ~ (kind = "value" /\ ~ shape.whole) /\ kind \notin {"nullable", "shadowed", "flagged"}
  BY <1>4 DEF FieldAsks, Askable
<1> QED  BY <1>1, <1>2, <1>3, <1>4

\* An ask means one of three things.
LEMMA MeantIs ==
  ASSUME NEW e \in Editors, NEW kind, NEW whole \in BOOLEAN, NEW ask \in Askable(e)
  PROVE  Meant(kind, whole, ask) \in {"keep", "empty", e}
  BY DEF Meant, Askable

\* Merging what is sent for an ask does what the ask means, whatever the
\* field holds: nothing is cleared or written that was not asked for.
LEMMA MergeMeant ==
  ASSUME NEW e \in Editors, NEW kind \in Kinds, ~ shape.whole,
         NEW ask \in FieldAsks(kind, e), NEW old \in Held
  PROVE  Merged(kind, old, Encoded(kind, ask)) = Effect(Meant(kind, FALSE, ask), old)
<1>1. e \notin {"old", "nil", "empty", "null", "absent", "keep"}
  BY EditorsAssumption
<1>2. ask \in Askable(e)
  BY AskIs
<1>3. CASE kind = "optional"
  <2>1. ask.clear = FALSE /\ ask.value \in {"nil", "empty", e}
    BY <1>3 DEF FieldAsks
  <2> QED  BY <1>1, <1>3, <2>1 DEF Encoded, Optional, Merged, Effect, Meant
<1>4. CASE kind \in {"nullable", "shadowed"}
  <2>1. ask.clear \in BOOLEAN /\ ask.value \in {"nil", e}
    BY <1>4 DEF FieldAsks
  <2>2. Encoded(kind, ask) = IF ask.clear THEN "null" ELSE Optional(ask)
    BY <1>4, <2>1 DEF Encoded, NullableDate, Shadowed
  <2> QED  BY <1>1, <1>4, <2>1, <2>2 DEF Optional, Merged, Effect, Meant
<1>5. CASE kind = "flagged"
  <2>1. ask.clear \in BOOLEAN /\ ask.value \in {"nil", e}
    BY <1>5 DEF FieldAsks, NoAsk
  <2>2. Encoded(kind, ask) = IF ask.clear THEN "null" ELSE Optional(ask)
    BY <1>5, <2>1 DEF Encoded
  <2> QED  BY <1>1, <1>5, <2>1, <2>2 DEF Optional, Merged, Effect, Meant
<1>6. CASE kind \in {"list", "value"}
  <2>1. ask.clear = FALSE /\ ask.value \in {"nil", "empty", e}
    BY <1>6 DEF FieldAsks
  <2>2. Encoded(kind, ask) = Omitted(ask)
    BY <1>6 DEF Encoded
  <2> QED  BY <1>1, <1>6, <2>1, <2>2 DEF Omitted, Merged, Effect, Meant
<1>7. CASE kind = "always"
  <2>1. ask.clear = FALSE /\ ask.value \in {"nil", "empty", e}
    BY <1>7 DEF FieldAsks
  <2>2. Encoded(kind, ask) = IF ask.value = "nil" THEN "null" ELSE ask.value
    BY <1>7 DEF Encoded
  <2> QED  BY <1>1, <1>7, <2>1, <2>2 DEF Merged, Effect, Meant
<1> QED  BY <1>3, <1>4, <1>5, <1>6, <1>7 DEF Kinds

\* Replacing by what is sent for an ask, a field left alone being sent as it
\* was read, does what the ask means to the copy.
LEMMA ReplaceMeant ==
  ASSUME NEW e \in Editors, NEW kind \in WholeKinds, shape.whole,
         NEW ask \in FieldAsks(kind, e), NEW copy \in Held,
         NEW filled, filled.value = IF ask.value = "nil" THEN copy ELSE ask.value
  PROVE  Replaced(Encoded(kind, filled)) = Effect(Meant(kind, TRUE, ask), copy)
<1>1. e \notin {"old", "nil", "empty", "null", "absent", "keep"} /\ copy \notin {"nil", "null", "absent"}
  BY EditorsAssumption DEF Held
<1>2. ask \in Askable(e) /\ ask.clear = FALSE /\ ask.value \in {"nil", "empty", e}
  BY AskIs DEF FieldAsks, WholeKinds
<1>3. Meant(kind, TRUE, ask) = IF ask.value = "nil" THEN "keep" ELSE ask.value
  BY <1>2 DEF Meant
<1>4. filled.value = Effect(Meant(kind, TRUE, ask), copy) /\ filled.value \notin {"nil", "null", "absent"}
  BY <1>1, <1>2, <1>3 DEF Effect, Askable
<1>5. Encoded(kind, filled) \in {Optional(filled), Omitted(filled), filled.value}
  BY <1>4 DEF Encoded, WholeKinds
<1> QED  BY <1>4, <1>5 DEF Optional, Omitted, Replaced


Edits ==
  [at : {"idle", "read", "sent", "failed", "done"}, copy : [Pair -> Held],
   asks : [Pair -> [value : Held \cup {"nil"}, clear : BOOLEAN]], body : [Pair -> Sendable]]

UpdTypes ==
  /\ shape.whole \in BOOLEAN
  /\ \A f \in Pair : shape.kinds[f] \in IF shape.whole THEN WholeKinds ELSE Kinds
  /\ record \in [Pair -> Held] /\ overlap \in BOOLEAN
  /\ edits \in [Editors -> Edits]
  /\ \A e \in Editors : edits[e].at = "read" => shape.whole

\* What executing a request does to a field is what its editor meant.
Sends ==
  \A e \in Editors : edits[e].at \in {"sent", "failed"} => \A f \in Pair :
    IF shape.whole THEN Replaced(edits[e].body[f]) = Effect(Intent(e, f), edits[e].copy[f])
    ELSE \A old \in Held :
           Merged(shape.kinds[f], old, edits[e].body[f]) = Effect(Intent(e, f), old)

\* As long as no two have overlapped: one at most is under way, its copy is
\* the record but for what it asks itself, and comes from the others.
Alone ==
  shape.whole /\ ~ overlap =>
    /\ \A e, o \in Editors : UnderWay(e) /\ UnderWay(o) => e = o
    /\ \A e \in Editors : \A f \in Pair :
         /\ edits[e].at = "read" => edits[e].copy[f] = record[f]
         /\ edits[e].at \in {"sent", "failed"} =>
              /\ record[f] \in {edits[e].copy[f], Effect(Intent(e, f), edits[e].copy[f])}
              /\ \/ edits[e].copy[f] = "old"
                 \/ \E o \in Askers(f) : o # e /\ edits[e].copy[f] = Intent(o, f)

\* One field as UpdatesKept has it.
Kept(f) ==
  /\ record[f] = "old" \/ \E e \in Askers(f) : record[f] = Intent(e, f)
  /\ \A e \in Askers(f) :
       edits[e].at = "done" /\ (\A o \in Askers(f) : o = e) => record[f] = Intent(e, f)

UpdInv ==
  /\ UpdTypes /\ Sends /\ Alone
  /\ ~ (shape.whole /\ overlap) => \A f \in Pair : Kept(f)

LEMMA KeptIs == UpdInv => UpdatesKept
<1> SUFFICES ASSUME UpdInv, ~ (shape.whole /\ overlap), NEW f \in Pair
             PROVE  /\ record[f] \in {"old"} \cup {Intent(e, f) : e \in Askers(f)}
                    /\ \A e \in Askers(f) :
                         edits[e].at = "done" /\ Askers(f) = {e} => record[f] = Intent(e, f)
  BY DEF UpdatesKept
<1>1. Kept(f)
  BY DEF UpdInv
<1> QED  BY <1>1 DEF Kept

\* An editor's intent, by the kind of the field.
LEMMA IntentIs ==
  ASSUME UpdTypes, NEW e \in Editors, NEW f \in Pair
  PROVE  /\ Intent(e, f) = Meant(shape.kinds[f], shape.whole, edits[e].asks[f])
         /\ Intent(e, f) \in Held \cup {"keep"}
<1>1. Intent(e, f) = Meant(shape.kinds[f], shape.whole, edits[e].asks[f])
  BY DEF Intent, Meant
<1>2. edits[e].asks[f] \in [value : Held \cup {"nil"}, clear : BOOLEAN]
  BY DEF UpdTypes, Edits
<1>3. Intent(e, f) \in Held \cup {"keep"}
  BY <1>1, <1>2 DEF Meant, Held, UpdTypes
<1> QED  BY <1>1, <1>3

\* Nobody has read or sent anything.
LEMMA UpdatesStart == Init => UpdInv
<1> SUFFICES ASSUME Init PROVE UpdInv
  OBVIOUS
<1>1. /\ shape \in Shapes /\ record = [f \in Pair |-> "old"] /\ overlap = FALSE
      /\ edits = [e \in Editors |->
           [at |-> "idle", copy |-> record, asks |-> [f \in Pair |-> NoAsk],
            body |-> [f \in Pair |-> "absent"]]]
  BY DEF Init, UpdatesInit
<1>2. /\ shape.whole \in BOOLEAN
      /\ \A f \in Pair : shape.kinds[f] \in IF shape.whole THEN WholeKinds ELSE Kinds
  <2>1. 1 \in Pair
    BY DEF Pair
  <2> QED  BY <1>1, <2>1, ShapeKinds
<1>3. record \in [Pair -> Held]
  BY <1>1 DEF Held
<1>4. \A e \in Editors : edits[e].at = "idle"
  BY <1>1
<1>5. edits \in [Editors -> Edits]
  <2>1. [f \in Pair |-> NoAsk] \in [Pair -> [value : Held \cup {"nil"}, clear : BOOLEAN]]
    BY DEF NoAsk
  <2>2. [f \in Pair |-> "absent"] \in [Pair -> Sendable]
    BY DEF Sendable
  <2> QED  BY <1>1, <1>3, <2>1, <2>2 DEF Edits
<1>6. \A f \in Pair : Askers(f) = {} /\ record[f] = "old"
  BY <1>1, <1>4 DEF Askers
<1> QED  BY <1>1, <1>2, <1>3, <1>4, <1>5, <1>6 DEF UpdInv, UpdTypes, Sends, Alone, Kept, UnderWay

\* What is asked for stays asked for.
LEMMA AsksStand ==
  ASSUME UNCHANGED shape, NEW f \in Pair,
         \A o \in Editors : /\ edits'[o].asks = edits[o].asks
                            /\ (edits'[o].at \in {"idle", "read"}) <=> (edits[o].at \in {"idle", "read"})
  PROVE  Askers(f)' = Askers(f) /\ \A o \in Editors : Intent(o, f)' = Intent(o, f)
<1>1. \A o \in Editors : Intent(o, f)' = Intent(o, f)
  BY DEF Intent
<1> QED  BY <1>1 DEF Askers


\* A read takes the record as it is; alone, nobody else is under way.
LEMMA ReadsCopy == ASSUME UpdInv, NEW e \in Editors, EditRead(e) PROVE UpdInv'
<1>1. /\ shape.whole /\ edits[e].at = "idle" /\ UNCHANGED <<shape, record>>
      /\ edits' = [edits EXCEPT ![e].at = "read", ![e].copy = record]
      /\ overlap' = (overlap \/ \E o \in Editors \ {e} : UnderWay(o))
  BY DEF EditRead, Overlaps
<1>2. /\ edits \in [Editors -> Edits] /\ record \in [Pair -> Held] /\ overlap \in BOOLEAN
      /\ UpdTypes
  BY DEF UpdInv, UpdTypes
<1>3. /\ edits' \in [Editors -> Edits] /\ edits'[e].at = "read" /\ edits'[e].copy = record
      /\ edits'[e].asks = edits[e].asks /\ edits'[e].body = edits[e].body
      /\ \A o \in Editors \ {e} : edits'[o] = edits[o]
  BY <1>1, <1>2 DEF Edits
<1>4. \A f \in Pair : Askers(f)' = Askers(f) /\ \A o \in Editors : Intent(o, f)' = Intent(o, f)
  BY <1>1, <1>3, AsksStand
<1>5. overlap' \in BOOLEAN /\ (overlap => overlap') /\ (~ overlap' => \A o \in Editors \ {e} : ~ UnderWay(o))
  BY <1>1, <1>2
<1>6. UpdTypes'
  BY <1>1, <1>2, <1>3, <1>5 DEF UpdTypes
<1>7. Sends'
  <2>1. ASSUME NEW o \in Editors, edits'[o].at \in {"sent", "failed"}
        PROVE  o # e /\ edits'[o] = edits[o]
    BY <1>3, <2>1
  <2> QED  BY <1>1, <1>4, <2>1 DEF UpdInv, Sends
<1>8. Alone'
  <2> SUFFICES ASSUME ~ overlap' PROVE Alone'
    BY DEF Alone
  <2>1. \A o \in Editors \ {e} : ~ UnderWay(o)'
    BY <1>3, <1>5 DEF UnderWay
  <2> QED  BY <1>1, <1>3, <2>1 DEF Alone, UnderWay
<1>9. ~ (shape'.whole /\ overlap') => \A f \in Pair : Kept(f)'
  <2> SUFFICES ASSUME ~ overlap', NEW f \in Pair PROVE Kept(f)'
    BY <1>1
  <2>1. Kept(f) /\ Askers(f) \subseteq Editors
    BY <1>5 DEF UpdInv, Askers
  <2>2. \A o \in Askers(f) : edits'[o].at = "done" => edits[o].at = "done"
    BY <1>3, <2>1
  <2> QED  BY <1>1, <1>4, <2>1, <2>2 DEF Kept
<1> QED  BY <1>6, <1>7, <1>8, <1>9 DEF UpdInv

\* What executing the request makes of a field.
LEMMA ServedMeant ==
  ASSUME UpdInv, NEW e \in Editors, EditServed(e), NEW f \in Pair
  PROVE  /\ record'[f] = Effect(Intent(e, f), IF shape.whole THEN edits[e].copy[f] ELSE record[f])
         /\ record' \in [Pair -> Held]
<1>1. /\ edits[e].at \in {"sent", "failed"}
      /\ record' = [g \in Pair |->
           IF shape.whole THEN Replaced(edits[e].body[g])
           ELSE Merged(shape.kinds[g], record[g], edits[e].body[g])]
  BY DEF EditServed
<1>2. /\ edits \in [Editors -> Edits] /\ record \in [Pair -> Held] /\ shape.whole \in BOOLEAN
  BY DEF UpdInv, UpdTypes
<1>3. ASSUME NEW g \in Pair
      PROVE  /\ record'[g] = Effect(Intent(e, g), IF shape.whole THEN edits[e].copy[g] ELSE record[g])
             /\ record'[g] \in Held
  <2>1. record[g] \in Held /\ edits[e].copy[g] \in Held
    BY <1>2 DEF Edits
  <2>2. record'[g] = Effect(Intent(e, g), IF shape.whole THEN edits[e].copy[g] ELSE record[g])
    BY <1>1, <1>2, <2>1 DEF UpdInv, Sends
  <2>3. Intent(e, g) \in Held \cup {"keep"}
    BY IntentIs DEF UpdInv
  <2> QED  BY <2>1, <2>2, <2>3 DEF Effect
<1>4. record' \in [Pair -> Held]
  BY <1>1, <1>3
<1> QED  BY <1>3, <1>4

\* Executed, once or again, a request leaves what its editor meant over what
\* the others meant.
LEMMA ServesOne == ASSUME UpdInv, NEW e \in Editors, EditServed(e) PROVE UpdInv'
<1>1. /\ edits[e].at \in {"sent", "failed"} /\ UNCHANGED <<shape, overlap>>
      /\ edits' = edits \/ edits' = [edits EXCEPT ![e].at = "done"]
  BY DEF EditServed
<1>2. /\ edits \in [Editors -> Edits] /\ shape.whole \in BOOLEAN /\ overlap \in BOOLEAN
      /\ UpdTypes
  BY DEF UpdInv, UpdTypes
<1>3. /\ edits' \in [Editors -> Edits] /\ edits'[e].at \in {"sent", "failed", "done"}
      /\ edits'[e].copy = edits[e].copy /\ edits'[e].asks = edits[e].asks
      /\ edits'[e].body = edits[e].body
      /\ \A o \in Editors \ {e} : edits'[o] = edits[o]
  BY <1>1, <1>2 DEF Edits
<1>4. \A f \in Pair : Askers(f)' = Askers(f) /\ \A o \in Editors : Intent(o, f)' = Intent(o, f)
  BY <1>1, <1>3, AsksStand
<1>5. \A f \in Pair :
        record'[f] = Effect(Intent(e, f), IF shape.whole THEN edits[e].copy[f] ELSE record[f])
  BY ServedMeant
<1>6. record' \in [Pair -> Held]
  <2>1. 1 \in Pair
    BY DEF Pair
  <2> QED  BY <2>1, ServedMeant
<1>7. UpdTypes'
  BY <1>1, <1>2, <1>3, <1>6 DEF UpdTypes
<1>8. Sends'
  <2>1. ASSUME NEW o \in Editors, edits'[o].at \in {"sent", "failed"}
        PROVE  /\ edits[o].at \in {"sent", "failed"} /\ edits'[o].copy = edits[o].copy
               /\ edits'[o].body = edits[o].body
    BY <1>1, <1>3, <2>1
  <2> QED  BY <1>1, <1>4, <2>1 DEF UpdInv, Sends
<1>9. Alone'
  <2> SUFFICES ASSUME shape.whole, ~ overlap PROVE Alone'
    BY <1>1 DEF Alone
  <2>1. UnderWay(e)
    BY <1>1 DEF UnderWay
  <2>2. \A o \in Editors \ {e} : ~ UnderWay(o)'
    BY <1>3, <2>1 DEF UpdInv, Alone, UnderWay
  <2>3. ASSUME NEW f \in Pair
        PROVE  /\ record'[f] = Effect(Intent(e, f), edits[e].copy[f])
               /\ \/ edits[e].copy[f] = "old"
                  \/ \E o \in Askers(f) : o # e /\ edits[e].copy[f] = Intent(o, f)
    BY <1>1, <1>5 DEF UpdInv, Alone
  <2>4. \A f \in Pair : Askers(f) \subseteq Editors
    BY DEF Askers
  <2>5. ASSUME NEW f \in Pair
        PROVE  /\ record'[f] \in {edits'[e].copy[f], Effect(Intent(e, f)', edits'[e].copy[f])}
               /\ \/ edits'[e].copy[f] = "old"
                  \/ \E o \in Askers(f)' : o # e /\ edits'[e].copy[f] = Intent(o, f)'
    BY <1>3, <1>4, <2>3, <2>4
  <2> QED  BY <1>3, <2>2, <2>5 DEF Alone, UnderWay
<1>10. ~ (shape'.whole /\ overlap') => \A f \in Pair : Kept(f)'
  <2> SUFFICES ASSUME ~ (shape.whole /\ overlap), NEW f \in Pair PROVE Kept(f)'
    BY <1>1
  <2>1. Kept(f) /\ Askers(f) \subseteq Editors
    BY DEF UpdInv, Askers
  <2>2. Intent(e, f) = "keep" => record'[f] = record[f]
    <3>1. CASE shape.whole
      <4>1. record[f] \in {edits[e].copy[f], Effect(Intent(e, f), edits[e].copy[f])}
        BY <1>1, <3>1 DEF UpdInv, Alone
      <4> QED  BY <1>5, <3>1, <4>1 DEF Effect
    <3>2. CASE ~ shape.whole
      BY <1>5, <3>2 DEF Effect
    <3> QED  BY <3>1, <3>2
  <2>3. Intent(e, f) # "keep" => record'[f] = Intent(e, f) /\ e \in Askers(f)
    BY <1>1, <1>5 DEF Effect, Askers
  <2>4. Intent(e, f) = "keep" => e \notin Askers(f)
    BY DEF Askers
  <2>5. record'[f] = "old" \/ \E o \in Askers(f) : record'[f] = Intent(o, f)
    BY <2>1, <2>2, <2>3 DEF Kept
  <2>6. ASSUME NEW o \in Askers(f), edits'[o].at = "done", \A p \in Askers(f) : p = o
        PROVE  record'[f] = Intent(o, f)
    <3>1. CASE o = e
      BY <2>3, <2>4, <3>1
    <3>2. CASE o # e
      <4>1. edits[o].at = "done" /\ Intent(e, f) = "keep"
        BY <1>3, <2>1, <2>3, <2>6, <3>2
      <4> QED  BY <2>1, <2>2, <2>6, <4>1 DEF Kept
    <3> QED  BY <3>1, <3>2
  <2> QED  BY <1>4, <2>1, <2>5, <2>6 DEF Kept
<1> QED  BY <1>7, <1>8, <1>9, <1>10 DEF UpdInv


\* The body says nothing of a field, null, or the ask's value.
LEMMA EncodedIs ==
  ASSUME NEW kind \in Kinds, NEW ask, ask.clear \in BOOLEAN, ask.value \in Held \cup {"nil"}
  PROVE  Encoded(kind, ask) \in Sendable
<1>1. Optional(ask) \in Sendable /\ Omitted(ask) \in Sendable
  BY DEF Optional, Omitted, Sendable
<1>2. (IF ask.clear THEN "null" ELSE Optional(ask)) \in Sendable
  BY <1>1 DEF Sendable
<1>3. (IF ask.value = "nil" THEN "null" ELSE ask.value) \in Sendable
  BY DEF Sendable
<1>4. Encoded(kind, ask) \in
        {Optional(ask), Omitted(ask), IF ask.clear THEN "null" ELSE Optional(ask),
         IF ask.value = "nil" THEN "null" ELSE ask.value}
  <2>1. CASE kind \in {"optional", "list", "value", "always"}
    BY <2>1 DEF Encoded
  <2>2. CASE kind \in {"nullable", "shadowed", "flagged"}
    BY <2>2 DEF Encoded, NullableDate, Shadowed
  <2> QED  BY <2>1, <2>2 DEF Kinds
<1> QED  BY <1>1, <1>2, <1>3, <1>4

\* What an editor sends says what it means, and it was nobody's asker before.
LEMMA SentMeans ==
  ASSUME UpdInv, NEW e \in Editors, EditSend(e)
  PROVE  /\ edits' \in [Editors -> Edits] /\ edits'[e].at = "sent"
         /\ edits'[e].copy = edits[e].copy /\ UNCHANGED <<shape, record>>
         /\ \A o \in Editors \ {e} : edits'[o] = edits[o]
         /\ \A f \in Pair :
              IF shape.whole
              THEN Replaced(edits'[e].body[f]) = Effect(Intent(e, f)', edits[e].copy[f])
              ELSE \A old \in Held :
                     Merged(shape.kinds[f], old, edits'[e].body[f]) = Effect(Intent(e, f)', old)
<1>0. /\ edits \in [Editors -> Edits] /\ shape.whole \in BOOLEAN /\ UNCHANGED <<shape, record>>
      /\ \A f \in Pair : shape.kinds[f] \in IF shape.whole THEN WholeKinds ELSE Kinds
  BY DEF UpdInv, UpdTypes, EditSend
<1>1. PICK a \in FieldAsks(shape.kinds[1], e), b \in FieldAsks(shape.kinds[2], e) :
        LET asks == <<a, b>>
            Filled(f) == IF shape.whole /\ asks[f].value = "nil"
                         THEN [asks[f] EXCEPT !.value = edits[e].copy[f]] ELSE asks[f]
        IN  edits' = [edits EXCEPT ![e].at = "sent", ![e].asks = asks,
                        ![e].body = [f \in Pair |-> Encoded(shape.kinds[f], Filled(f))]]
  BY DEF EditSend
<1> DEFINE asks == <<a, b>>
           Filled(f) == IF shape.whole /\ asks[f].value = "nil"
                        THEN [asks[f] EXCEPT !.value = edits[e].copy[f]] ELSE asks[f]
           body == [f \in Pair |-> Encoded(shape.kinds[f], Filled(f))]
<1>2. edits' = [edits EXCEPT ![e].at = "sent", ![e].asks = asks, ![e].body = body]
  BY <1>1
<1>3. \A f \in Pair : asks[f] \in FieldAsks(shape.kinds[f], e)
  BY DEF Pair
<1>4. DOMAIN asks = Pair
  BY DEF Pair
<1>5. \A f \in Pair : asks[f] \in Askable(e) /\ edits[e].copy[f] \in Held
  BY <1>0, <1>3, AskIs DEF Edits
<1> HIDE DEF asks
<1>6. asks \in [Pair -> [value : Held \cup {"nil"}, clear : BOOLEAN]]
  <2>1. \A f \in Pair : asks[f] \in [value : Held \cup {"nil"}, clear : BOOLEAN]
    BY <1>5 DEF Askable, Held
  <2>2. asks = [f \in Pair |-> asks[f]]
    <3>1. asks = [f \in DOMAIN asks |-> asks[f]]
      BY DEF asks
    <3> QED  BY <1>4, <3>1
  <2> QED  BY <2>1, <2>2
<1>7. \A f \in Pair : body[f] = Encoded(shape.kinds[f], Filled(f))
  OBVIOUS
<1>8. \A f \in Pair : Filled(f).clear \in BOOLEAN /\ Filled(f).value \in Held \cup {"nil"}
  BY <1>5, <1>6 DEF Askable
<1>9. body \in [Pair -> Sendable]
  <2>1. \A f \in Pair : shape.kinds[f] \in Kinds
    BY <1>0 DEF Kinds, WholeKinds
  <2> HIDE DEF Filled
  <2> QED  BY <1>8, <2>1, EncodedIs
<1> HIDE DEF body
<1>10. /\ edits' \in [Editors -> Edits] /\ edits'[e].at = "sent" /\ edits'[e].asks = asks
       /\ edits'[e].copy = edits[e].copy /\ edits'[e].body = body
       /\ \A o \in Editors \ {e} : edits'[o] = edits[o]
  BY <1>0, <1>2, <1>6, <1>9 DEF Edits
<1>11. \A f \in Pair : Intent(e, f)' = Meant(shape.kinds[f], shape.whole, asks[f])
  BY <1>0, <1>10 DEF Intent, Meant
<1>12. ASSUME NEW f \in Pair
       PROVE  IF shape.whole
              THEN Replaced(edits'[e].body[f]) = Effect(Intent(e, f)', edits[e].copy[f])
              ELSE \A old \in Held :
                     Merged(shape.kinds[f], old, edits'[e].body[f]) = Effect(Intent(e, f)', old)
  <2>1. CASE shape.whole
    <3>1. shape.kinds[f] \in WholeKinds /\ shape.whole = TRUE
      BY <1>0, <2>1
    <3>2. Filled(f) = IF asks[f].value = "nil"
                      THEN [asks[f] EXCEPT !.value = edits[e].copy[f]] ELSE asks[f]
      BY <2>1
    <3> HIDE DEF Filled
    <3> DEFINE ask == asks[f]
               copy == edits[e].copy[f]
               kind == shape.kinds[f]
               filled == Filled(f)
    <3>3. Replaced(Encoded(kind, filled)) = Effect(Meant(kind, TRUE, ask), copy)
      <4>1. ask \in FieldAsks(kind, e) /\ copy \in Held /\ kind \in WholeKinds
        BY <1>3, <1>5, <3>1
      <4>2. filled.value = IF ask.value = "nil" THEN copy ELSE ask.value
        BY <1>6, <3>2
      <4> HIDE DEF ask, copy, kind, filled
      <4> QED  BY <2>1, <4>1, <4>2, ReplaceMeant
    <3> QED  BY <1>7, <1>10, <1>11, <2>1, <3>1, <3>3
  <2>2. CASE ~ shape.whole
    <3>1. shape.kinds[f] \in Kinds /\ shape.whole = FALSE
      BY <1>0, <2>2
    <3>2. Filled(f) = asks[f]
      BY <2>2
    <3>3. \A old \in Held : Merged(shape.kinds[f], old, Encoded(shape.kinds[f], asks[f]))
                              = Effect(Meant(shape.kinds[f], FALSE, asks[f]), old)
      BY <1>3, <2>2, <3>1, MergeMeant
    <3> HIDE DEF Filled
    <3> QED  BY <1>7, <1>10, <1>11, <2>2, <3>1, <3>2, <3>3
  <2> QED  BY <2>1, <2>2
<1> QED  BY <1>0, <1>10, <1>12

\* Sending changes no field yet; alone, the copy is still the record.
LEMMA SendsOne == ASSUME UpdInv, NEW e \in Editors, EditSend(e) PROVE UpdInv'
<1>1. /\ edits[e].at = IF shape.whole THEN "read" ELSE "idle"
      /\ overlap' = (overlap \/ \E o \in Editors \ {e} : UnderWay(o))
      /\ UNCHANGED <<shape, record>>
  BY DEF EditSend, Overlaps
<1>2. UpdTypes /\ overlap \in BOOLEAN /\ shape.whole \in BOOLEAN
  BY DEF UpdInv, UpdTypes
<1>3. /\ edits' \in [Editors -> Edits] /\ edits'[e].at = "sent"
      /\ edits'[e].copy = edits[e].copy
      /\ \A o \in Editors \ {e} : edits'[o] = edits[o]
      /\ \A f \in Pair :
           IF shape.whole
           THEN Replaced(edits'[e].body[f]) = Effect(Intent(e, f)', edits[e].copy[f])
           ELSE \A old \in Held :
                  Merged(shape.kinds[f], old, edits'[e].body[f]) = Effect(Intent(e, f)', old)
  BY SentMeans
<1>4. overlap' \in BOOLEAN /\ (overlap => overlap') /\ (~ overlap' => \A o \in Editors \ {e} : ~ UnderWay(o))
  BY <1>1, <1>2
<1>5. \A f \in Pair : \A o \in Editors \ {e} : Intent(o, f)' = Intent(o, f)
  BY <1>1, <1>3 DEF Intent
<1>6. \A f \in Pair : /\ Askers(f) \subseteq Editors \ {e}
                      /\ Askers(f) \subseteq Askers(f)' /\ Askers(f)' \subseteq Askers(f) \cup {e}
  BY <1>1, <1>3, <1>5 DEF Askers
<1>7. UpdTypes'
  BY <1>1, <1>2, <1>3, <1>4 DEF UpdTypes
<1>8. Sends'
  <2>1. ASSUME NEW o \in Editors, edits'[o].at \in {"sent", "failed"}, NEW f \in Pair
        PROVE  IF shape.whole
               THEN Replaced(edits'[o].body[f]) = Effect(Intent(o, f)', edits'[o].copy[f])
               ELSE \A old \in Held :
                      Merged(shape.kinds[f], old, edits'[o].body[f]) = Effect(Intent(o, f)', old)
    <3>1. CASE o = e
      BY <1>3, <3>1
    <3>2. CASE o # e
      <4>1. edits'[o] = edits[o] /\ Intent(o, f)' = Intent(o, f)
        BY <1>3, <1>5, <3>2
      <4> QED  BY <2>1, <4>1 DEF UpdInv, Sends
    <3> QED  BY <3>1, <3>2
  <2> QED  BY <1>1, <2>1 DEF Sends
<1>9. Alone'
  <2> SUFFICES ASSUME shape.whole, ~ overlap' PROVE Alone'
    BY <1>1 DEF Alone
  <2>1. \A o \in Editors \ {e} : ~ UnderWay(o)'
    BY <1>3, <1>4 DEF UnderWay
  <2>2. ASSUME NEW f \in Pair
        PROVE  /\ record'[f] = edits'[e].copy[f]
               /\ \/ edits'[e].copy[f] = "old"
                  \/ \E o \in Askers(f)' : o # e /\ edits'[e].copy[f] = Intent(o, f)'
    <3>1. record[f] = edits[e].copy[f] /\ Kept(f)
      BY <1>1, <1>4 DEF UpdInv, Alone
    <3>2. record[f] = "old" \/ \E o \in Askers(f) : record[f] = Intent(o, f)
      BY <3>1 DEF Kept
    <3> QED  BY <1>1, <1>3, <1>5, <1>6, <3>1, <3>2
  <2> QED  BY <1>3, <2>1, <2>2 DEF Alone, UnderWay
<1>10. ~ (shape'.whole /\ overlap') => \A f \in Pair : Kept(f)'
  <2> SUFFICES ASSUME ~ (shape.whole /\ overlap'), NEW f \in Pair PROVE Kept(f)'
    BY <1>1
  <2>1. Kept(f)
    BY <1>4 DEF UpdInv
  <2>2. record'[f] = "old" \/ \E o \in Askers(f)' : record'[f] = Intent(o, f)'
    BY <1>1, <1>5, <1>6, <2>1 DEF Kept
  <2>3. ASSUME NEW o \in Askers(f)', edits'[o].at = "done", \A p \in Askers(f)' : p = o
        PROVE  record'[f] = Intent(o, f)'
    <3>1. o # e
      BY <1>3, <2>3
    <3>2. o \in Askers(f) /\ edits[o].at = "done" /\ Intent(o, f)' = Intent(o, f)
      BY <1>3, <1>5, <1>6, <2>3, <3>1
    <3>3. \A p \in Askers(f) : p = o
      BY <1>6, <2>3
    <3> QED  BY <1>1, <2>1, <3>2, <3>3 DEF Kept
  <2> QED  BY <2>2, <2>3 DEF Kept
<1> QED  BY <1>7, <1>8, <1>9, <1>10 DEF UpdInv

\* An editor that has given up is one whose request may still be executed.
LEMMA FailsOne == ASSUME UpdInv, NEW e \in Editors, EditFails(e) PROVE UpdInv'
<1>1. /\ edits[e].at = "sent" /\ UNCHANGED <<shape, record, overlap>>
      /\ edits' = [edits EXCEPT ![e].at = "failed"]
  BY DEF EditFails
<1>2. edits \in [Editors -> Edits] /\ UpdTypes
  BY DEF UpdInv, UpdTypes
<1>3. /\ edits' \in [Editors -> Edits] /\ edits'[e].at = "failed"
      /\ edits'[e].copy = edits[e].copy /\ edits'[e].asks = edits[e].asks
      /\ edits'[e].body = edits[e].body
      /\ \A o \in Editors \ {e} : edits'[o] = edits[o]
  BY <1>1, <1>2 DEF Edits
<1>4. \A f \in Pair : Askers(f)' = Askers(f) /\ \A o \in Editors : Intent(o, f)' = Intent(o, f)
  BY <1>1, <1>3, AsksStand
<1>5. \A o \in Editors :
        /\ edits'[o].copy = edits[o].copy /\ edits'[o].body = edits[o].body
        /\ edits'[o].at \in {"sent", "failed"} <=> edits[o].at \in {"sent", "failed"}
        /\ edits'[o].at = "read" <=> edits[o].at = "read"
        /\ edits'[o].at = "done" <=> edits[o].at = "done"
        /\ UnderWay(o)' <=> UnderWay(o)
  BY <1>1, <1>3 DEF UnderWay
<1>6. \A f \in Pair : Askers(f) \subseteq Editors
  BY DEF Askers
<1>7. UpdTypes'
  BY <1>1, <1>2, <1>3, <1>5 DEF UpdTypes
<1>8. Sends'
  BY <1>1, <1>4, <1>5 DEF UpdInv, Sends
<1>9. Alone'
  <2> SUFFICES ASSUME shape.whole, ~ overlap PROVE Alone'
    BY <1>1 DEF Alone
  <2>1. \A p, o \in Editors : UnderWay(p)' /\ UnderWay(o)' => p = o
    BY <1>5 DEF UpdInv, Alone
  <2>2. ASSUME NEW p \in Editors, NEW f \in Pair
        PROVE  /\ edits'[p].at = "read" => edits'[p].copy[f] = record'[f]
               /\ edits'[p].at \in {"sent", "failed"} =>
                    /\ record'[f] \in {edits'[p].copy[f], Effect(Intent(p, f)', edits'[p].copy[f])}
                    /\ \/ edits'[p].copy[f] = "old"
                       \/ \E o \in Askers(f)' : o # p /\ edits'[p].copy[f] = Intent(o, f)'
    <3>1. edits[p].at = "read" => edits[p].copy[f] = record[f]
      BY DEF UpdInv, Alone
    <3>2. edits[p].at \in {"sent", "failed"} =>
            /\ record[f] \in {edits[p].copy[f], Effect(Intent(p, f), edits[p].copy[f])}
            /\ \/ edits[p].copy[f] = "old"
               \/ \E o \in Askers(f) : o # p /\ edits[p].copy[f] = Intent(o, f)
      BY DEF UpdInv, Alone
    <3> QED  BY <1>1, <1>4, <1>5, <1>6, <3>1, <3>2
  <2> QED  BY <2>1, <2>2 DEF Alone
<1>10. ~ (shape'.whole /\ overlap') => \A f \in Pair : Kept(f)'
  <2> SUFFICES ASSUME ~ (shape.whole /\ overlap), NEW f \in Pair PROVE Kept(f)'
    BY <1>1
  <2>1. Kept(f)
    BY DEF UpdInv
  <2> QED  BY <1>1, <1>4, <1>5, <1>6, <2>1 DEF Kept
<1> QED  BY <1>7, <1>8, <1>9, <1>10 DEF UpdInv

LEMMA UpdatesNextKeep == UpdInv /\ [Next]_vars => UpdInv'
<1> SUFFICES ASSUME UpdInv, [Next]_vars PROVE UpdInv'
  OBVIOUS
<1>1. CASE UNCHANGED updateVars
  <2>1. UNCHANGED <<shape, record, edits, overlap>>
    BY <1>1 DEF updateVars
  <2>2. \A f \in Pair : Askers(f)' = Askers(f) /\ \A o \in Editors : Intent(o, f)' = Intent(o, f)
    BY <2>1, AsksStand
  <2>3. \A f \in Pair : Askers(f) \subseteq Editors
    BY DEF Askers
  <2>4. UpdTypes' /\ Sends'
    BY <2>1, <2>2 DEF UpdInv, UpdTypes, Sends
  <2>5. Alone'
    BY <2>1, <2>2, <2>3 DEF UpdInv, Alone, UnderWay
  <2>6. ~ (shape'.whole /\ overlap') => \A f \in Pair : Kept(f)'
    BY <2>1, <2>2, <2>3 DEF UpdInv, Kept
  <2> QED  BY <2>4, <2>5, <2>6 DEF UpdInv
<1>2. CASE UpdatesNext
  BY <1>2, ReadsCopy, SendsOne, ServesOne, FailsOne DEF UpdatesNext
<1>3. UpdatesNext \/ UNCHANGED updateVars
  BY DEF Next, Pages, Stream, Poll, Webhooks, Options, Updates, vars
<1> QED  BY <1>1, <1>2, <1>3

\* UpdatesKept: whichever two fields of whichever type, whatever two or more
\* editors ask of them, however their requests interleave and however often
\* each is executed, a field nobody asked to change keeps its value and one
\* that a single editor asked for ends as he asked.
THEOREM NothingLost == Spec => []UpdatesKept
  BY KeptIs, UpdatesStart, UpdatesNextKeep, PTL DEF Spec


-----------------------------------------------------------------------------
(* All parts together                                                      *)

\* What the parts' own invariants say nothing of.
RestTypes ==
  /\ active \in Parts
  /\ run \in {"idle", "reading", "draining", "failing", "returned"}
  /\ feedEnds \in {"open", "whole", "cut"}
  /\ now \in 0 .. Clock

LEMMA RestStart == Init => RestTypes
  BY WebhookAssumption DEF Init, StreamInit, HookInit, RestTypes

LEMMA RestNextKeeps == RestTypes /\ [Next]_vars => RestTypes'
<1> SUFFICES ASSUME RestTypes, [Next]_vars PROVE RestTypes'
  OBVIOUS
<1>1. UNCHANGED active
  BY DEF Next, Pages, Stream, Poll, Webhooks, Options, Updates, Only, vars
<1>2. StreamNext \/ UNCHANGED eventVars
  BY DEF Next, Pages, Stream, Poll, Webhooks, Options, Updates, vars
<1>3. /\ run' \in {"idle", "reading", "draining", "failing", "returned"}
      /\ feedEnds' \in {"open", "whole", "cut"}
  <2>1. CASE OpenStream \/ SendLine \/ EndFeed \/ StreamCtxEnds \/ UNCHANGED eventVars
    BY <2>1 DEF OpenStream, SendLine, EndFeed, StreamCtxEnds, eventVars, RestTypes
  <2>2. CASE ReadBlank
    BY <2>2 DEF ReadBlank, Handed, RestTypes
  <2>3. CASE ReadDataLine \/ ReadOther \/ ReadEnd \/ ReadLong \/ Drain
    BY <2>3 DEF ReadDataLine, ReadOther, ReadEnd, ReadLong, Drain, RestTypes
  <2> QED  BY <1>2, <2>1, <2>2, <2>3 DEF StreamNext
<1>4. HookNext \/ UNCHANGED hookVars
  BY DEF Next, Pages, Stream, Poll, Webhooks, Options, Updates, vars
<1>5. now' \in 0 .. Clock
  <2>1. CASE Passes
    BY <2>1, WebhookAssumption DEF Passes, RestTypes
  <2>2. CASE Sign \/ ConstructEvent \/ UNCHANGED hookVars
    BY <2>2 DEF Sign, ConstructEvent, hookVars, RestTypes
  <2> QED  BY <1>4, <2>1, <2>2 DEF HookNext
<1> QED  BY <1>1, <1>3, <1>5 DEF RestTypes

\* TypeOK: the state of every part has its types, no page is longer than its
\* limit, the CLI loop always sleeps, and whatever the options and their order
\* the client New returns is one the engine can run.
THEOREM HelperTypes == Spec => []TypeOK
<1>1. PageInv /\ PollInv /\ OptInv /\ UpdInv /\ RestTypes => TypeOK
  <2> SUFFICES ASSUME PageInv, PollInv, OptInv, UpdInv, RestTypes PROVE TypeOK
    OBVIOUS
  <2>1. flow = "cli" /\ poll # "idle" => interval > 0
    <3> SUFFICES ASSUME flow = "cli", poll # "idle" PROVE interval > 0
      OBVIOUS
    <3>1. interval = CliInterval + limited * SlowDown /\ limited \in Nat /\ SlowDown \in Nat
      BY PollAssumption DEF PollInv
    <3>2. CliInterval \in Nat \ {0}
      BY PollAssumption DEF PollInv, CliInterval
    <3>3. limited * SlowDown \in Nat
      BY <3>1
    <3> QED  BY <3>1, <3>2, <3>3
  <2>2. \A f \in Pair : record[f] \in Editors \cup {"old", "empty"}
    BY DEF UpdInv, UpdTypes, Held
  <2>3. \A e \in Editors : edits[e].at = "read" => shape.whole
    BY DEF UpdInv, UpdTypes
  <2>4. built \in {"no", "applying", "client", "error"} /\ given \in 0 .. MaxOptions /\ ClientUsable
    BY OptionsUsable DEF OptInv
  <2>5. /\ walk \in {"idle", "fetch", "page", "ended", "failed", "stopped"}
        /\ lasting \subseteq rows /\ rows \subseteq Instants
        /\ next \in 1 .. Len(page.data) + 1
        /\ page.hasMore => page.data # <<>>
        /\ Len(page.data) <= Limit(list.limit)
    BY DEF PageInv, PageTypes, PageShape
  <2>6. /\ poll \in {"idle", "waiting", "asking", "resending", "returned"}
        /\ code \in {"pending", "approved", "spent", "denied", "expired"}
        /\ left \in Nat /\ owed \in Nat /\ resent \in 0 .. Resends
    BY DEF PollInv
  <2> QED  BY <2>1, <2>2, <2>3, <2>4, <2>5, <2>6 DEF RestTypes, TypeOK
<1> QED
  BY <1>1, PageStart, PageNextKeeps, PollStart, PollNextKeeps, OptionsStart, OptionsNextKeep,
     UpdatesStart, UpdatesNextKeep, RestStart, RestNextKeeps, PTL DEF Spec

=============================================================================
