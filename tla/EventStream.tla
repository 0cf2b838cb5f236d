---------------------------- MODULE EventStream ----------------------------
(***************************************************************************)
(* client.go, stream: a POST whose answer is read as server-sent events,   *)
(* each handed to fn as its blank line arrives, and assistant.go's         *)
(* streamRun, which skips an event it cannot decode.  The server is        *)
(* external: it sends lines of whole events, may be cut off anywhere, may  *)
(* leave the connection open, and may send a line too long to read.  An    *)
(* event is its number; its data comes in one line or two, after other     *)
(* fields and comments.                                                    *)
(***************************************************************************)
EXTENDS Integers, Sequences, FiniteSets, SequencesExt

CONSTANT MaxEvents  \* bound: events the server sends

ASSUME StreamAssumption == MaxEvents \in Nat

VARIABLES
  run,      \* the call: not sent, reading, draining since fn said stop or
            \* since a line was too long (failing), returned
  feed,     \* lines sent and not yet read
  sent,     \* the server's event and its parts so far; sizes of those before
  feedEnds, \* how the answer ends after the lines sent: open, whole, cut
  data,     \* what the reader has of an event
  handed,   \* events handed to fn
  streamCtx \* the caller's context has ended

eventVars == <<run, feed, sent, feedEnds, data, handed, streamCtx>>

Line(kind, event, part) == [kind |-> kind, event |-> event, part |-> part]
Blank == Line("blank", 0, 0)

StreamInit ==
  /\ run = "idle" /\ feed = <<>> /\ sent = [event |-> 1, part |-> 0, sizes |-> <<>>]
  /\ feedEnds = "open" /\ data = <<>> /\ handed = <<>> /\ streamCtx = FALSE

\* A stream is sent once: an error of the connection or an error answer ends
\* the call, and nothing is retried.
OpenStream ==
  /\ run = "idle"
  /\ run' \in {"reading", "returned"}
  /\ UNCHANGED <<feed, sent, feedEnds, data, handed, streamCtx>>

-----------------------------------------------------------------------------
(* The server                                                              *)

\* A cancelled request closes the connection.
Sending ==
  /\ run # "idle" /\ feedEnds = "open" /\ ~ streamCtx
  /\ sent.event <= MaxEvents /\ Len(feed) < 2

\* A line of the current event: a field that is no data, a part of the data,
\* or the blank line that ends it, if it had a part; or a line of any field
\* that is past the scanner's limit.
SendLine ==
  /\ Sending
  /\ \/ feed' = Append(feed, Line("long", 0, 0)) /\ UNCHANGED sent
     \/ feed' = Append(feed, Line("other", 0, 0)) /\ sent.part = 0 /\ UNCHANGED sent
     \/ /\ sent.part < 2
        /\ feed' = Append(feed, Line("data", sent.event, sent.part + 1))
        /\ sent' = [sent EXCEPT !.part = @ + 1]
     \/ /\ feed' = Append(feed, Blank)
        /\ sent' = IF sent.part = 0 THEN sent
                   ELSE [event |-> sent.event + 1, part |-> 0,
                         sizes |-> Append(sent.sizes, sent.part)]
  /\ UNCHANGED <<run, feedEnds, data, handed, streamCtx>>

\* The answer ends: after an event, perhaps without its blank line, or cut.
EndFeed ==
  /\ run # "idle" /\ feedEnds = "open"
  /\ feedEnds' \in {"whole", "cut"}
  /\ UNCHANGED <<run, feed, sent, data, handed, streamCtx>>

StreamCtxEnds ==
  /\ run # "idle" /\ ~ streamCtx /\ streamCtx' = TRUE
  /\ UNCHANGED <<run, feed, sent, feedEnds, data, handed>>

-----------------------------------------------------------------------------
(* The reader                                                              *)

\* fn, or streamRun's decoder in front of it: TRUE to go on.
Handed(more) ==
  /\ handed' = Append(handed, data)
  /\ run' = IF more THEN "reading" ELSE "draining"

\* Mutant: the parts of one event are still there for the next.
ReadBlankKept ==
  /\ run = "reading" /\ feed # <<>> /\ Head(feed).kind = "blank"
  /\ feed' = Tail(feed)
  /\ IF data = <<>> THEN UNCHANGED <<run, handed, data>>
     ELSE (\E more \in BOOLEAN : Handed(more)) /\ UNCHANGED data
  /\ UNCHANGED <<sent, feedEnds, streamCtx>>

\* A blank line ends an event, if there is one.
ReadBlank ==
  /\ run = "reading" /\ feed # <<>> /\ Head(feed).kind = "blank"
  /\ feed' = Tail(feed)
  /\ IF data = <<>> THEN UNCHANGED <<run, handed, data>>
     ELSE (\E more \in BOOLEAN : Handed(more)) /\ data' = <<>>
  /\ UNCHANGED <<sent, feedEnds, streamCtx>>

ReadDataLine ==
  /\ run = "reading" /\ feed # <<>> /\ Head(feed).kind = "data"
  /\ feed' = Tail(feed)
  /\ data' = Append(data, <<Head(feed).event, Head(feed).part>>)
  /\ UNCHANGED <<run, sent, feedEnds, handed, streamCtx>>

ReadOther ==
  /\ run = "reading" /\ feed # <<>> /\ Head(feed).kind = "other"
  /\ feed' = Tail(feed)
  /\ UNCHANGED <<run, sent, feedEnds, data, handed, streamCtx>>

\* Mutant: the request does not carry the caller's context.
ExhaustedByFeed == feed = <<>> /\ feedEnds # "open"

\* The body can be read no further: the answer or the context has ended.
Exhausted == streamCtx \/ (feed = <<>> /\ feedEnds # "open")

HandRest ==
  /\ handed' = IF data = <<>> THEN handed ELSE Append(handed, data)
  /\ data' = <<>>

\* What there is of an event is handed over, and the call returns with ctx's
\* error or the connection's.
ReadEnd ==
  /\ run = "reading" /\ Exhausted
  /\ HandRest /\ run' = "returned"
  /\ UNCHANGED <<feed, sent, feedEnds, streamCtx>>

\* The scanner gives up: what there is of an event is handed over here too.
ReadLong ==
  /\ run = "reading" /\ feed # <<>> /\ Head(feed).kind = "long"
  /\ feed' = Tail(feed)
  /\ HandRest /\ run' = "failing"
  /\ UNCHANGED <<sent, feedEnds, streamCtx>>

\* fn has said stop, or the scanner has given up: before the call returns, the
\* deferred drain reads the answer to its end.
Drain ==
  /\ run \in {"draining", "failing"}
  /\ \/ feed # <<>> /\ feed' = Tail(feed) /\ UNCHANGED run
     \/ Exhausted /\ run' = "returned" /\ UNCHANGED feed
  /\ UNCHANGED <<sent, feedEnds, data, handed, streamCtx>>

StreamNext ==
  \/ OpenStream \/ SendLine \/ EndFeed \/ StreamCtxEnds
  \/ ReadBlank \/ ReadDataLine \/ ReadOther \/ ReadEnd \/ ReadLong \/ Drain

StreamFairness ==
  /\ WF_eventVars(ReadBlank) /\ WF_eventVars(ReadDataLine) /\ WF_eventVars(ReadOther)
  /\ WF_eventVars(ReadEnd) /\ WF_eventVars(ReadLong) /\ WF_eventVars(Drain)

-----------------------------------------------------------------------------
\* Events are handed over one by one as the server sent them: no parts of two
\* in one, none twice, none skipped; only the last may lack its end.
EventsApart ==
  \A i \in DOMAIN handed :
    LET e == handed[i]
    IN  /\ \A k \in DOMAIN e : e[k] = <<i, k>>
        /\ \/ i \in DOMAIN sent.sizes /\ Len(e) = sent.sizes[i]
           \/ i = Len(handed) /\ run \in {"failing", "returned"}

\* Two of the three endings of client.go:636-637, "It returns when the stream
\* ends [...] or the context is canceled": a call that is under way returns once
\* its answer or its context has ended, however it stands with fn.
StreamReturns ==
  (run \notin {"idle", "returned"} /\ (streamCtx \/ feedEnds # "open")) ~> run = "returned"

\* The third, "fn returns false" ("Return false from fn to stop reading early",
\* assistant.go:213): the call returns, whatever the server still sends, also where
\* the HTTP client has no Timeout to cut the answer.
StopReturns == (run = "draining") ~> (run = "returned")

=============================================================================
