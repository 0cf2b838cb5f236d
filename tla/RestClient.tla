----------------------------- MODULE RestClient -----------------------------
(***************************************************************************)
(* client.go: the request engine every service method goes through.  Each  *)
(* call is one goroutine inside do(): authenticate, send, wait for the     *)
(* answer, and on a transport error or a 429/5xx answer wait and send the  *)
(* same request again.  Calls share nothing but the token source.          *)
(*                                                                         *)
(* The server and the network are external.  A request that the client has *)
(* given up on can still arrive and be executed, after the retry that      *)
(* replaced it as well as before; an answer can be lost; an answer can     *)
(* say 5xx although the request was executed.  A request with an           *)
(* Idempotency-Key is executed once and its answer replayed.               *)
(*                                                                         *)
(* An operation is kept as its shape: whether it carries a body, how its   *)
(* answer is read, what a second execution would do (see RestApi).         *)
(***************************************************************************)
EXTENDS TokenSource, RestApi

CONSTANTS Workloads,     \* which operation each goroutine is asked for, if any
          MaxRetries,    \* c.maxRetries
          RetryAfters,   \* Retry-After values a 429/5xx may quote (0: none)
          Width, DelayMin, DelayMax  \* the backoff's word and bounds

Jitter == INSTANCE Backoff

VARIABLES
  call,     \* per goroutine: where do() is and what it holds
  wire,     \* request copies between the client and the server
  served    \* per call: times executed, and whether its answer is stored

restVars == <<call, wire, served>>
vars == <<restVars, tokenVars>>

\* isNilBody: a nil argument sends no body, like an operation without one.
Bodies(o) == CASE o.body = "none" -> {FALSE} [] o.body = "params" -> BOOLEAN [] OTHER -> {TRUE}

\* How do() treats an answer: fetch, send and their kind decode into a value
\* of their own; a nil out, a writer and an event stream are special.
Decoding(o) == IF o.answer \in {"nothing", "raw", "events"} THEN o.answer ELSE "decoded"

Shapes ==
  UNION {[hasBody : Bodies(o), answer : {Decoding(o)}, effect : {o.effect}] :
           o \in Operations}
NoShape == [hasBody |-> FALSE, answer |-> "nothing", effect |-> "none"]

ASSUME RestAssumption ==
  /\ Workloads \subseteq [Calls -> Shapes \cup {NoShape}]
  /\ MaxRetries \in Nat
  /\ RetryAfters \subseteq Nat
  /\ Width \in Nat /\ Width > 1
  /\ DelayMax \in 1 .. 2 ^ (Width - 1) - 1
  /\ DelayMin \in 1 .. DelayMax  \* WithRetryWaitBounds

Attempts == 0 .. MaxRetries
Places == {"idle", "auth", "token", "ready", "sent", "answered", "waiting", "done"}
Answers == {"none", "ok", "unreadable", "temporary", "final"}
Outcomes == {"none", "ok", "unsent", "authError", "cancelled", "network",
             "temporary", "final", "unreadable"}

Copies == [call : Calls, attempt : Attempts, whole : BOOLEAN]

TypeOK ==
  /\ TokenTypeOK
  /\ call \in [Calls -> [at : Places, shape : Shapes \cup {NoShape}, keyed : BOOLEAN,
                         attempt : Attempts, body : {"whole", "spent"},
                         token : Tokens, known : Tokens,
                         answer : Answers, wait : 0 .. DelayMax,
                         cancelled : BOOLEAN, outcome : Outcomes]]
  /\ wire \subseteq Copies
  /\ served \in [Calls -> [executed : 0 .. MaxRetries + 1, stored : BOOLEAN]]
  /\ \A c \in Calls : call[c].at = "waiting" => call[c].wait > 0

Init ==
  /\ TokenInit
  /\ \E asked \in Workloads :
       call = [c \in Calls |->
               [at |-> IF asked[c] = NoShape THEN "done" ELSE "idle",
                shape |-> asked[c], keyed |-> FALSE, attempt |-> 0,
                body |-> "whole", token |-> 0, known |-> 0, answer |-> "none",
                wait |-> 0, cancelled |-> FALSE, outcome |-> "none"]]
  /\ wire = {}
  /\ served = [c \in Calls |-> [executed |-> 0, stored |-> FALSE]]

\* A call whose execution changes something at the server.
Acts(c) == call[c].shape.effect \notin {"read", "none"}

Step(c, from, with) == call[c].at = from /\ call' = [call EXCEPT ![c] = with]

\* do() returns: what the call knew of the request no longer matters.
Returned(c, outcome) ==
  [call[c] EXCEPT !.at = "done", !.outcome = outcome, !.answer = "none",
                  !.body = "whole", !.wait = 0, !.token = 0, !.known = 0]

-----------------------------------------------------------------------------
(* A call: newRequest, then the loop of do().                              *)

\* newRequest buffers the body and sets the headers, the key among them.
\* A path or a body it cannot encode, or an upload without a file, ends it.
Begin(c) ==
  /\ \/ \E keyed \in BOOLEAN :
          /\ keyed => Acts(c)
          /\ Step(c, "idle", [call[c] EXCEPT !.at = "auth", !.keyed = keyed,
                                            !.known = held.access])
     \/ Step(c, "idle", Returned(c, "unsent"))
  /\ UNCHANGED <<wire, served, tokenVars>>

\* c.auth.authenticate on every attempt: a valid token is attached at once,
\* a stale one is renewed first, and an error ends the call.
AuthCached(c) ==
  /\ TokenCached(c)
  /\ Step(c, "auth", [call[c] EXCEPT !.at = "ready", !.token = held.access])
  /\ UNCHANGED <<wire, served>>

AuthUnrenewable(c) ==
  /\ TokenUnrenewable(c)
  /\ Step(c, "auth", Returned(c, "authError"))
  /\ UNCHANGED <<wire, served>>

AuthAsk(c) ==
  /\ TokenAsk(c)
  /\ Step(c, "auth", [call[c] EXCEPT !.at = "token"])
  /\ UNCHANGED <<wire, served>>

AuthRenewed(c) ==
  /\ TokenKept(c)
  /\ Step(c, "token", [call[c] EXCEPT !.at = "ready", !.token = exchange.access])
  /\ UNCHANGED <<wire, served>>

AuthFailed(c) ==
  /\ TokenFailed(c)
  /\ Step(c, "token", Returned(c, "authError"))
  /\ UNCHANGED <<wire, served>>

\* httpClient.Do: a context that has already ended sends nothing.
Send(c) ==
  /\ \/ /\ ~ call[c].cancelled
        /\ Step(c, "ready", [call[c] EXCEPT !.at = "sent", !.body = "spent"])
        /\ wire' = wire \cup {[call |-> c, attempt |-> call[c].attempt,
                               whole |-> call[c].body = "whole"]}
     \/ /\ call[c].cancelled
        /\ Step(c, "ready", Returned(c, "cancelled"))
        /\ UNCHANGED wire
  /\ UNCHANGED <<served, tokenVars>>

\* Mutant: Retry-After is not capped by the client's own bound.
WaitsUncapped(attempt, retryAfter) ==
  IF retryAfter > 0 THEN {retryAfter} ELSE Jitter!RestDelays(attempt)

\* waitRetry: the server's Retry-After, capped, or the jittered backoff.
Waits(attempt, retryAfter) ==
  IF retryAfter > 0
  THEN {IF retryAfter > DelayMax THEN DelayMax ELSE retryAfter}
  ELSE Jitter!RestDelays(attempt)

\* parseRateLimit: seconds, or a date that is still ahead; anything else is none.
Quoted == RetryAfters \cup {0}

CanRetry(c) == call[c].attempt < MaxRetries /\ call[c].shape.answer # "events"

Retry(c, retryAfter) ==
  \E w \in Waits(call[c].attempt, retryAfter) :
    call' = [call EXCEPT ![c].at = "waiting", ![c].answer = "none", ![c].wait = w]

\* httpClient.Do returns an error: the connection failed or the client's
\* timeout passed, with the request on either side of the server.  (A read
\* that arrives late changes nothing and is forgotten.)
TransportError(c) ==
  /\ call[c].at = "sent"
  /\ \/ call[c].cancelled /\ Step(c, "sent", Returned(c, "cancelled"))
     \/ ~ call[c].cancelled /\ CanRetry(c) /\ Retry(c, 0)
     \/ ~ call[c].cancelled /\ ~ CanRetry(c) /\ Step(c, "sent", Returned(c, "network"))
  /\ wire' = IF Acts(c) THEN wire ELSE {m \in wire : m.call # c}
  /\ UNCHANGED <<served, tokenVars>>

\* Mutant: an error answer is only reported while it can be retried.
AnswerSwallowed(c) ==
  /\ call[c].at = "answered"
  /\ \/ /\ call[c].answer = "temporary" /\ CanRetry(c)
        /\ \E r \in Quoted : Retry(c, r)
     \/ /\ call[c].answer = "temporary" => ~ CanRetry(c)
        /\ Step(c, "answered", Returned(c, IF call[c].answer = "temporary" THEN "ok"
                                           ELSE call[c].answer))
  /\ UNCHANGED <<wire, served, tokenVars>>

\* decodeError and decodeBody: 429 and 5xx are retried while attempts last,
\* any other error is returned, and a body that cannot be read is an error
\* of the call although the server has acted.
Answered(c) ==
  /\ call[c].at = "answered"
  /\ \/ /\ call[c].answer = "temporary" /\ CanRetry(c)
        /\ \E r \in Quoted : Retry(c, r)
     \/ /\ call[c].answer = "temporary" => ~ CanRetry(c)
        /\ Step(c, "answered", Returned(c, call[c].answer))
  /\ UNCHANGED <<wire, served, tokenVars>>

\* Mutant: the next attempt sends what is left of the first one's body.
NextAttemptUnrewound(c) ==
  [call[c] EXCEPT !.at = "auth", !.attempt = @ + 1, !.known = held.access, !.wait = 0]

\* Mutant: credentials are attached once, before the loop.
NextAttemptUnauthenticated(c) ==
  [call[c] EXCEPT !.at = "ready", !.attempt = @ + 1, !.body = "whole",
                  !.known = held.access, !.wait = 0]

\* Mutant: the attempt counter stands still.
NextAttemptUncounted(c) ==
  [call[c] EXCEPT !.at = "auth", !.body = "whole", !.known = held.access, !.wait = 0]

\* The top of the loop: the body is rewound with GetBody.
NextAttempt(c) ==
  [call[c] EXCEPT !.at = "auth", !.attempt = @ + 1, !.body = "whole",
                  !.known = held.access, !.wait = 0]

WaitOver(c) ==
  /\ Step(c, "waiting", NextAttempt(c))
  /\ UNCHANGED <<wire, served, tokenVars>>

\* With both ready, waitRetry's select may still take the timer.
WaitCancelled(c) ==
  /\ call[c].cancelled
  /\ Step(c, "waiting", Returned(c, "cancelled"))
  /\ UNCHANGED <<wire, served, tokenVars>>

\* The caller's context ends.
Cancel(c) ==
  /\ call[c].at \notin {"idle", "done"} /\ ~ call[c].cancelled
  /\ call' = [call EXCEPT ![c].cancelled = TRUE]
  /\ UNCHANGED <<wire, served, tokenVars>>

-----------------------------------------------------------------------------
(* The server.                                                             *)

\* The answer reaches the attempt it belongs to, if that is still waiting.
Deliver(m, answer) ==
  LET c == m.call
  IN  IF call[c].at = "sent" /\ call[c].attempt = m.attempt
      THEN call' = [call EXCEPT ![c].at = "answered", ![c].answer = answer]
      ELSE UNCHANGED call

\* Mutant: the key is not among the headers of a retry.
CarriesKeyOnce(m) == call[m.call].keyed /\ m.attempt = 0

\* newRequest puts the key in the request itself, so every attempt has it.
CarriesKey(m) == call[m.call].keyed

\* A code, token or decision that the first execution used up.
UsedUp(c) == call[c].shape.effect = "once" /\ served[c].executed > 0

\* The request is carried out, unless its key says it already was.  Without
\* a key the server may fail after it has acted.
Serve(m) ==
  LET c == m.call
      replays == CarriesKey(m) /\ served[c].stored
  IN  /\ ~ UsedUp(c) \/ replays
      /\ served' = IF replays \/ ~ Acts(c) THEN served
                   ELSE [served EXCEPT ![c].executed = @ + 1, ![c].stored = CarriesKey(m) \/ @]
      /\ \E answer \in {"ok", "unreadable"} \cup
                       IF CarriesKey(m) THEN {} ELSE {"temporary"} :
           /\ answer = "unreadable" => call[c].shape.answer # "nothing"
           /\ Deliver(m, answer)
      /\ wire' = wire \ {m}
      /\ UNCHANGED tokenVars

\* An error answer to a request that was not carried out.
Reject(m) ==
  /\ \E answer \in {"final", "temporary"} : Deliver(m, answer)
  /\ wire' = wire \ {m}
  /\ UNCHANGED <<served, tokenVars>>

-----------------------------------------------------------------------------
Environment ==
  /\ TokenEnvironment
  /\ UNCHANGED restVars

CallStep(c) ==
  \/ AuthCached(c) \/ AuthUnrenewable(c) \/ AuthAsk(c)
  \/ AuthRenewed(c) \/ AuthFailed(c)
  \/ Send(c) \/ TransportError(c) \/ Answered(c) \/ WaitOver(c)

AllReturned == \A c \in Calls : call[c].at = "done"
Finished == AllReturned /\ wire = {} /\ UNCHANGED vars

Next ==
  \/ \E c \in Calls : Begin(c) \/ CallStep(c) \/ WaitCancelled(c) \/ Cancel(c)
  \/ \E m \in wire : Serve(m) \/ Reject(m)
  \/ Environment
  \/ Finished

\* The goroutines run, and the HTTP clients' timeout ends every exchange the
\* server leaves open.  Nothing is asked of the server.
Fairness == \A c \in Calls : WF_vars(CallStep(c))

Spec == Init /\ [][Next]_vars /\ Fairness

-----------------------------------------------------------------------------
(* What a caller may rely on.                                              *)

\* WithIdempotencyKey: however often the request is sent and however late a
\* copy arrives, the operation is performed at most once.
KeyedOnce == \A c \in Calls : call[c].keyed => served[c].executed <= 1

\* A call that returns without an error has been carried out.
SuccessMeansDone ==
  \A c \in Calls : call[c].outcome = "ok" /\ Acts(c) => served[c].executed > 0

\* Every attempt carries the whole body: GetBody rewinds the buffer, also
\* after a transport that had already consumed it.
WholeBody == \A m \in wire : call[m.call].shape.hasBody => m.whole

\* A token that another call has renewed before an attempt starts is the one
\* that attempt carries.
NeverStaleToken ==
  \A c \in Calls : call[c].at \in {"ready", "sent"} => call[c].token >= call[c].known

\* While no exchange's answer has been lost, the source outside its mutex
\* holds the refresh token the server accepts: no call fails for want of it.
HoldsLiveRefresh ==
  grant = "refresh" /\ lock = NoCall /\ ~ unheard => held.refresh = endpoint.live

\* Every call that was begun returns, whatever the server does.
CallsEnd == \A c \in Calls : call[c].at # "idle" ~> call[c].at = "done"

=============================================================================
