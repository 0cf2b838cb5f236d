------------------------- MODULE RestClient_proofs --------------------------
(***************************************************************************)
(* Proofs about RestClient for every set of calls, every set of workloads, *)
(* every number of retries and every bound on tokens and their expiries.   *)
(***************************************************************************)
EXTENDS RestClient, Integers, FiniteSetTheorems, TLAPS

-----------------------------------------------------------------------------
(* The token source                                                        *)

\* A step of the token source or its endpoint, or one that leaves both alone.
TokenStep ==
  \/ \E c \in Calls : TokenAsk(c) \/ TokenKept(c) \/ TokenFailed(c)
  \/ EndpointGrants \/ EndpointRefuses \/ TokenExpires
  \/ UNCHANGED tokenVars

\* Whatever a call or the server does to the token source is such a step.
LEMMA TokenSteps == [Next]_vars => TokenStep
<1> SUFFICES ASSUME [Next]_vars PROVE TokenStep
  OBVIOUS
<1>1. ASSUME NEW c \in Calls, Begin(c) \/ CallStep(c) \/ WaitCancelled(c) \/ Cancel(c)
      PROVE  TokenStep
  BY <1>1 DEF TokenStep, Begin, CallStep, WaitCancelled, Cancel, AuthCached, AuthUnrenewable,
       AuthAsk, AuthRenewed, AuthFailed, Send, TransportError, Answered, WaitOver,
       TokenCached, TokenUnrenewable
<1>2. ASSUME NEW m \in wire, Serve(m) \/ Reject(m)
      PROVE  TokenStep
  BY <1>2 DEF TokenStep, Serve, Reject, tokenVars, serverVars
<1>3. CASE Environment
  BY <1>3 DEF TokenStep, Environment, TokenEnvironment
<1>4. CASE Finished
  BY <1>4 DEF TokenStep, Finished, vars
<1>5. CASE UNCHANGED vars
  BY <1>5 DEF TokenStep, vars
<1> QED  BY <1>1, <1>2, <1>3, <1>4, <1>5 DEF Next

\* While the mutex is free no exchange is under way.
ExchangeLocked == lock = NoCall => exchange.at = "none"

\* As long as no answer of the endpoint was lost, its live refresh token is
\* the one held, or the one its answer is about to put there.
RefreshKnown ==
  grant = "refresh" /\ ~ unheard =>
    endpoint.live = IF exchange.at = "granted" /\ exchange.rotated # 0
                    THEN exchange.rotated ELSE held.refresh

\* Tokens are held in the order in which they were issued.
IssuedInOrder ==
  /\ held.access <= endpoint.issued
  /\ exchange.at = "granted" => held.access <= exchange.access /\ exchange.access <= endpoint.issued

TokenInv == TokenTypeOK /\ ExchangeLocked /\ RefreshKnown /\ IssuedInOrder

\* The bounds are numbers, and so are tokens, "none" among them.
LEMMA TokenBounds ==
  /\ MaxIssues \in Nat /\ MaxExpiries \in Nat /\ NoCall \notin Calls
  /\ Tokens \subseteq Nat /\ 0 \in Tokens /\ 1 \in Tokens
  /\ \A n \in Tokens : n <= MaxIssues => n + 1 \in Tokens
  BY TokenAssumption DEF Tokens

\* A new source and its endpoint agree on the refresh token.
LEMMA TokenStart == TokenInit => TokenInv
<1> SUFFICES ASSUME TokenInit PROVE TokenInv
  OBVIOUS
<1>1. /\ grant \in {"refresh", "credentials", "static"}
      /\ held \in [access : {0, 1}, refresh : {0, 1}, valid : BOOLEAN]
  <2>1. CASE grant = "refresh"
    BY <2>1 DEF TokenInit
  <2>2. CASE grant = "credentials"
    <3>1. held = [access |-> 0, refresh |-> 0, valid |-> FALSE]
      BY <2>2 DEF TokenInit
    <3> QED  BY <2>2, <3>1
  <2>3. CASE grant = "static"
    <3>1. held = [access |-> 1, refresh |-> 0, valid |-> TRUE]
      BY <2>3 DEF TokenInit
    <3> QED  BY <2>3, <3>1
  <2> QED  BY <2>1, <2>2, <2>3 DEF TokenInit
<1>2. /\ lock = NoCall /\ exchange = NoExchange /\ expiries = 0 /\ unheard = FALSE
      /\ endpoint = [issued |-> 1, live |-> held.refresh]
  BY DEF TokenInit
<1>3. held \in [access : Tokens, refresh : Tokens, valid : BOOLEAN]
  BY <1>1, TokenBounds
<1>4. TokenTypeOK
  <2>1. held.refresh \in Tokens
    BY <1>3
  <2>2. endpoint \in [issued : Tokens, live : Tokens]
    BY <1>2, <2>1, TokenBounds
  <2>3. exchange \in [at : {"none", "asked", "granted", "refused"},
                      refresh : Tokens, access : Tokens, rotated : Tokens]
    BY <1>2, TokenBounds DEF NoExchange
  <2>4. expiries \in 0 .. MaxExpiries
    BY <1>2, TokenBounds
  <2> QED  BY <1>1, <1>2, <1>3, <2>2, <2>3, <2>4 DEF TokenTypeOK
<1>5. ExchangeLocked /\ RefreshKnown
  BY <1>2 DEF ExchangeLocked, RefreshKnown, NoExchange
<1>6. IssuedInOrder
  BY <1>1, <1>2 DEF IssuedInOrder, NoExchange
<1> QED  BY <1>4, <1>5, <1>6 DEF TokenInv

\* The invariant of the token source is inductive.
LEMMA TokenNext == TokenInv /\ TokenStep => TokenInv'
<1> SUFFICES ASSUME TokenInv, TokenStep PROVE TokenInv'
  OBVIOUS
<1> USE TokenBounds DEF TokenInv
<1>1. ASSUME NEW c \in Calls, TokenAsk(c) PROVE TokenInv'
  <2>1. TokenTypeOK'
    BY <1>1 DEF TokenAsk, TokenTypeOK, NoExchange
  <2>2. ExchangeLocked' /\ RefreshKnown' /\ IssuedInOrder'
    BY <1>1 DEF TokenAsk, TokenTypeOK, NoExchange, ExchangeLocked, RefreshKnown, IssuedInOrder
  <2> QED  BY <2>1, <2>2
<1>2. ASSUME NEW c \in Calls, TokenKept(c) PROVE TokenInv'
  <2>1. TokenTypeOK'
    BY <1>2 DEF TokenKept, TokenTypeOK, NoExchange, serverVars
  <2>2. ExchangeLocked' /\ RefreshKnown' /\ IssuedInOrder'
    BY <1>2 DEF TokenKept, TokenTypeOK, NoExchange, serverVars, ExchangeLocked, RefreshKnown,
         IssuedInOrder
  <2> QED  BY <2>1, <2>2
<1>3. ASSUME NEW c \in Calls, TokenFailed(c) PROVE TokenInv'
  <2>1. TokenTypeOK'
    BY <1>3 DEF TokenFailed, TokenTypeOK, NoExchange, AnswerUnused
  <2>2. ExchangeLocked' /\ RefreshKnown' /\ IssuedInOrder'
    BY <1>3 DEF TokenFailed, TokenTypeOK, NoExchange, AnswerUnused, ExchangeLocked,
         RefreshKnown, IssuedInOrder
  <2> QED  BY <2>1, <2>2
<1>4. CASE EndpointGrants
  <2>1. PICK rotates \in BOOLEAN :
          /\ exchange.at = "asked" /\ endpoint.issued <= MaxIssues
          /\ endpoint' = [issued |-> endpoint.issued + 1,
                          live |-> IF rotates THEN endpoint.issued + 1 ELSE endpoint.live]
          /\ exchange' = [exchange EXCEPT !.at = "granted", !.access = endpoint.issued + 1,
                            !.rotated = IF rotates THEN endpoint.issued + 1 ELSE 0]
          /\ UNCHANGED <<grant, held, lock, expiries, unheard>>
    BY <1>4 DEF EndpointGrants
  <2>2. TokenTypeOK'
    <3>1. endpoint.issued + 1 \in Tokens
      BY <2>1 DEF TokenTypeOK
    <3>2. endpoint' \in [issued : Tokens, live : Tokens]
      BY <2>1, <3>1 DEF TokenTypeOK
    <3>3. exchange' \in [at : {"none", "asked", "granted", "refused"},
                         refresh : Tokens, access : Tokens, rotated : Tokens]
      BY <2>1, <3>1 DEF TokenTypeOK
    <3> QED  BY <2>1, <3>2, <3>3 DEF TokenTypeOK
  <2>3. ExchangeLocked'
    BY <2>1 DEF ExchangeLocked
  <2>4. RefreshKnown' /\ IssuedInOrder'
    BY <2>1 DEF TokenTypeOK, RefreshKnown, IssuedInOrder
  <2> QED  BY <2>2, <2>3, <2>4
<1>5. CASE EndpointRefuses
  BY <1>5 DEF EndpointRefuses, TokenTypeOK, ExchangeLocked, RefreshKnown, IssuedInOrder
<1>6. CASE TokenExpires
  <2>1. TokenTypeOK'
    <3>1. expiries' \in 0 .. MaxExpiries
      BY <1>6 DEF TokenExpires, TokenTypeOK
    <3>2. held' \in [access : Tokens, refresh : Tokens, valid : BOOLEAN]
      BY <1>6 DEF TokenExpires, TokenTypeOK
    <3> QED  BY <1>6, <3>1, <3>2 DEF TokenExpires, TokenTypeOK
  <2>2. ExchangeLocked' /\ RefreshKnown' /\ IssuedInOrder'
    BY <1>6 DEF TokenExpires, TokenTypeOK, ExchangeLocked, RefreshKnown, IssuedInOrder
  <2> QED  BY <2>1, <2>2
<1>7. CASE UNCHANGED tokenVars
  BY <1>7 DEF tokenVars, sourceVars, serverVars, TokenTypeOK, ExchangeLocked, RefreshKnown,
       IssuedInOrder
<1> QED  BY <1>1, <1>2, <1>3, <1>4, <1>5, <1>6, <1>7 DEF TokenStep

\* HoldsLiveRefresh, for any number of calls and of tokens: whoever renews
\* the token, and whichever exchange is refused, the source outside its mutex
\* has the refresh token the server accepts, unless an answer was lost.
THEOREM LiveRefreshHeld == Spec => []HoldsLiveRefresh
<1>1. Init => TokenInv
  BY TokenStart DEF Init
<1>2. TokenInv /\ [Next]_vars => TokenInv'
  BY TokenNext, TokenSteps
<1>3. TokenInv => HoldsLiveRefresh
  BY DEF TokenInv, ExchangeLocked, RefreshKnown, HoldsLiveRefresh
<1> QED  BY <1>1, <1>2, <1>3, PTL DEF Spec

-----------------------------------------------------------------------------
(* Calls                                                                   *)

\* Wherever the shift of the backoff wraps, a wait is positive and within its
\* bound.
LEMMA WaitsBounded ==
  ASSUME NEW n \in Nat, NEW q \in Quoted
  PROVE  Waits(n, q) \subseteq 1 .. DelayMax /\ Waits(n, q) # {}
<1>1. /\ Width \in Nat /\ Width > 1 /\ q \in Nat
      /\ DelayMin \in Nat /\ DelayMax \in Nat /\ 1 <= DelayMin /\ DelayMin <= DelayMax
  BY RestAssumption DEF Quoted
<1> DEFINE top == 2 ^ (Width - 1)
           power == 2 ^ n
<1>2. top \in Int /\ power \in Int
  BY <1>1
<1>3. top >= 2
  BY <1>1, <1>2, RestAssumption
<1>4. Jitter!Shifted(DelayMin, n) =
        LET u == (DelayMin * power) % (2 * top)
        IN  IF n >= Width THEN 0 ELSE IF u < top THEN u ELSE u - 2 * top
  BY DEF Jitter!Shifted
<1> HIDE DEF top, power
<1>5. DelayMin * power \in Int /\ 2 * top \in Nat /\ 2 * top > 0
  BY <1>1, <1>2, <1>3
<1>6. (DelayMin * power) % (2 * top) \in Int
  BY <1>5
<1>7. Jitter!Shifted(DelayMin, n) \in Int
  BY <1>2, <1>4, <1>6
<1>8. Jitter!Capped(n) \in 1 .. DelayMax
  BY <1>1, <1>7 DEF Jitter!Capped
<1>9. Jitter!RestDelays(n) \subseteq 1 .. DelayMax /\ Jitter!RestDelays(n) # {}
  BY <1>1, <1>8 DEF Jitter!RestDelays
<1> QED  BY <1>1, <1>9 DEF Waits

CallStates ==
  [at : Places, shape : Shapes \cup {NoShape}, keyed : BOOLEAN, attempt : Attempts,
   body : {"whole", "spent"}, token : Tokens, known : Tokens, answer : Answers,
   wait : 0 .. DelayMax, cancelled : BOOLEAN, outcome : Outcomes]

CallTypes ==
  /\ call \in [Calls -> CallStates]
  /\ wire \subseteq Copies
  /\ served \in [Calls -> [executed : Nat, stored : BOOLEAN]]
  /\ \A c \in Calls : call[c].at = "waiting" => call[c].attempt < MaxRetries /\ call[c].wait > 0

\* The body is whole whenever the next attempt may be sent with it.
BodyInv ==
  /\ \A c \in Calls : call[c].at \in {"idle", "auth", "token", "ready"} => call[c].body = "whole"
  /\ \A m \in wire : call[m.call].shape.hasBody => m.whole

\* What a call knows was held before, and what it carries is no older.
KnownInv ==
  \A c \in Calls :
    /\ call[c].known <= held.access
    /\ call[c].at \in {"ready", "sent"} => call[c].token >= call[c].known

\* A key's stored answer is that of its one execution; nothing of a call that
\* was not begun is under way; and "ok" was said by an execution.
ExecutedInv ==
  /\ \A c \in Calls :
       /\ call[c].keyed => served[c].executed = IF served[c].stored THEN 1 ELSE 0
       /\ ~ call[c].keyed => ~ served[c].stored
       /\ call[c].at = "idle" => ~ call[c].keyed /\ served[c].executed = 0
       /\ Acts(c) /\ call[c].at = "answered" /\ call[c].answer = "ok" => served[c].executed > 0
       /\ Acts(c) /\ call[c].outcome = "ok" => served[c].executed > 0
  /\ \A m \in wire : call[m.call].at # "idle"

CallInv == CallTypes /\ BodyInv /\ KnownInv /\ ExecutedInv

\* What the proofs need of the bounds.
LEMMA CallBounds ==
  /\ MaxRetries \in Nat /\ 0 \in Attempts /\ 0 \in 0 .. DelayMax
  /\ Attempts \subseteq Nat
  /\ \A n \in Attempts : n < MaxRetries => n + 1 \in Attempts
  /\ \A n \in Attempts, q \in Quoted : \A w \in Waits(n, q) : w \in 0 .. DelayMax /\ w > 0
<1>1. MaxRetries \in Nat /\ DelayMax \in Nat
  BY RestAssumption
<1>2. \A n \in Attempts, q \in Quoted : \A w \in Waits(n, q) : w \in 0 .. DelayMax /\ w > 0
  <2> SUFFICES ASSUME NEW n \in Attempts, NEW q \in Quoted, NEW w \in Waits(n, q)
               PROVE  w \in 0 .. DelayMax /\ w > 0
    OBVIOUS
  <2>1. n \in Nat
    BY <1>1 DEF Attempts
  <2>2. w \in 1 .. DelayMax
    BY <2>1, WaitsBounded
  <2> QED  BY <1>1, <2>2
<1> QED  BY <1>1, <1>2 DEF Attempts

\* Attempts of which a copy may have been sent.
Sent(r) == IF r.at \in {"idle", "auth", "token", "ready"} THEN r.attempt ELSE r.attempt + 1

\* What one step of a call's own makes of it, whichever step it is.
Own(c, r) ==
  /\ r \in CallStates
  /\ r.shape = call[c].shape
  /\ r.at # "idle" /\ (call[c].at # "idle" => r.keyed = call[c].keyed)
  /\ r.at = "waiting" => r.attempt < MaxRetries /\ r.wait > 0
  /\ r.at \in {"auth", "token", "ready"} => r.body = "whole"
  /\ r.known <= held'.access
  /\ r.at \in {"ready", "sent"} => r.token >= r.known
  /\ r.at = "answered" => call[c].at = "answered" /\ r.answer = call[c].answer
  /\ Sent(call[c]) <= Sent(r)
  /\ r.outcome = "ok" => \/ call[c].outcome = "ok"
                         \/ call[c].at = "answered" /\ call[c].answer = "ok"

OwnStep(c) ==
  /\ \E r : call' = [call EXCEPT ![c] = r] /\ Own(c, r)
  /\ \A m \in wire' \ wire :
       m \in Copies /\ m.call = c /\ call[c].at = "ready" /\ (call[c].body = "whole" => m.whole)
  /\ \/ wire' \subseteq wire
     \/ Sent(call'[c]) = Sent(call[c]) + 1 /\ \E m : wire' = wire \cup {m}
  /\ served' = served

\* The held token never becomes an older one.
LEMMA AccessGrows ==
  ASSUME TokenInv, TokenStep
  PROVE  held.access \in Nat /\ held'.access \in Nat /\ held.access <= held'.access
<1>1. held.access \in Nat /\ held'.access \in Nat
  <2>1. TokenTypeOK /\ TokenTypeOK'
    BY TokenNext DEF TokenInv
  <2>2. held.access \in Tokens /\ held'.access \in Tokens
    BY <2>1 DEF TokenTypeOK
  <2> QED  BY <2>2, TokenBounds
<1>2. ASSUME NEW c \in Calls, TokenAsk(c) \/ TokenFailed(c) PROVE held.access <= held'.access
  BY <1>1, <1>2 DEF TokenAsk, TokenFailed
<1>3. ASSUME NEW c \in Calls, TokenKept(c) PROVE held.access <= held'.access
  BY <1>3 DEF TokenKept, TokenInv, IssuedInOrder
<1>4. CASE EndpointGrants \/ EndpointRefuses \/ UNCHANGED tokenVars
  <2>1. held' = held
    BY <1>4 DEF EndpointGrants, EndpointRefuses, tokenVars, sourceVars
  <2> QED  BY <1>1, <2>1
<1>5. CASE TokenExpires
  BY <1>1, <1>5 DEF TokenExpires, TokenInv, TokenTypeOK
<1> QED  BY <1>1, <1>2, <1>3, <1>4, <1>5 DEF TokenStep

\* A call that returns, with an error or with what its answer said.
LEMMA ReturnedOwn ==
  ASSUME CallInv, TokenInv, TokenStep, NEW c \in Calls, NEW outcome \in Outcomes,
         outcome = "ok" => call[c].at = "answered" /\ call[c].answer = "ok"
  PROVE  Own(c, Returned(c, outcome))
<1>1. call[c] \in CallStates
  BY DEF CallInv, CallTypes
<1>2. Returned(c, outcome) \in CallStates
  BY <1>1, TokenBounds, CallBounds DEF Returned, CallStates, Places, Answers
<1>3. /\ Returned(c, outcome).shape = call[c].shape
      /\ Returned(c, outcome).at = "done"
      /\ Returned(c, outcome).keyed = call[c].keyed
      /\ Returned(c, outcome).known = 0
      /\ Returned(c, outcome).outcome = outcome
      /\ Returned(c, outcome).attempt = call[c].attempt /\ call[c].attempt \in Nat
  BY <1>1, CallBounds DEF Returned, CallStates
<1> QED  BY <1>2, <1>3, AccessGrows DEF Own, Sent

\* A call that goes on.
LEMMA OwnSteps ==
  ASSUME CallInv, TokenInv, TokenStep, NEW c \in Calls,
         Begin(c) \/ CallStep(c) \/ WaitCancelled(c) \/ Cancel(c)
  PROVE  OwnStep(c)
<1>0. call[c] \in CallStates /\ held.access <= held'.access
  BY AccessGrows DEF CallInv, CallTypes
<1>k. /\ call[c].at \in {"idle", "auth", "token", "ready"} => call[c].body = "whole"
      /\ call[c].known <= held.access /\ call[c].known \in Nat
      /\ call[c].at \in {"ready", "sent"} => call[c].token >= call[c].known
      /\ held.access \in Tokens /\ held.access \in Nat /\ held'.access \in Nat
      /\ call[c].at = "waiting" => call[c].attempt < MaxRetries /\ call[c].wait > 0
      /\ call[c].attempt \in Nat
  BY <1>0, AccessGrows, CallBounds, TokenBounds DEF CallInv, CallTypes, BodyInv, KnownInv, CallStates,
       TokenInv, TokenTypeOK
<1>r. ASSUME NEW outcome \in Outcomes, call' = [call EXCEPT ![c] = Returned(c, outcome)],
             outcome = "ok" => call[c].at = "answered" /\ call[c].answer = "ok",
             wire' \subseteq wire, served' = served
      PROVE  OwnStep(c)
  <2>1. Own(c, Returned(c, outcome))
    BY <1>r, ReturnedOwn
  <2> QED  BY <1>r, <2>1 DEF OwnStep
<1>o. ASSUME NEW r, call' = [call EXCEPT ![c] = r], Own(c, r), wire' \subseteq wire, served' = served
      PROVE  OwnStep(c)
  BY <1>o DEF OwnStep
<1>1. CASE Begin(c)
  <2>1. CASE \E keyed \in BOOLEAN :
               Step(c, "idle", [call[c] EXCEPT !.at = "auth", !.keyed = keyed,
                                               !.known = held.access])
    <3>1. PICK keyed \in BOOLEAN :
            Step(c, "idle", [call[c] EXCEPT !.at = "auth", !.keyed = keyed,
                                            !.known = held.access])
      BY <2>1
    <3> DEFINE r == [call[c] EXCEPT !.at = "auth", !.keyed = keyed, !.known = held.access]
    <3>2. r \in CallStates
      BY <1>0, <1>k DEF CallStates, Places
    <3>3. Own(c, r)
      BY <1>0, <1>k, <3>1, <3>2 DEF Own, Sent, Step, CallStates
    <3> HIDE DEF r
    <3> QED  BY <1>1, <1>o, <3>1, <3>3 DEF r, Begin, Step
  <2>2. CASE Step(c, "idle", Returned(c, "unsent"))
    BY <1>1, <1>r, <2>2 DEF Begin, Step, Outcomes
  <2> QED  BY <1>1, <2>1, <2>2 DEF Begin
<1>2. CASE AuthCached(c)
  <2> DEFINE r == [call[c] EXCEPT !.at = "ready", !.token = held.access]
  <2>1. r \in CallStates
    BY <1>0, <1>k DEF CallStates, Places
  <2>2. Own(c, r)
    BY <1>0, <1>2, <1>k, <2>1 DEF Own, Sent, AuthCached, Step, CallStates
  <2> QED  BY <1>2, <1>o, <2>2 DEF AuthCached, Step
<1>3. CASE AuthUnrenewable(c)
  BY <1>3, <1>r DEF AuthUnrenewable, Step, Outcomes
<1>4. CASE AuthAsk(c)
  <2> DEFINE r == [call[c] EXCEPT !.at = "token"]
  <2>1. r \in CallStates
    BY <1>0 DEF CallStates, Places
  <2>2. Own(c, r)
    BY <1>0, <1>4, <1>k, <2>1 DEF Own, Sent, AuthAsk, Step, CallStates
  <2> QED  BY <1>4, <1>o, <2>2 DEF AuthAsk, Step
<1>5. CASE AuthRenewed(c)
  <2> DEFINE r == [call[c] EXCEPT !.at = "ready", !.token = exchange.access]
  <2>1. /\ exchange.access \in Tokens /\ exchange.access \in Nat
        /\ held.access <= exchange.access /\ held'.access = exchange.access
    BY <1>5, TokenBounds DEF AuthRenewed, TokenKept, TokenInv, TokenTypeOK, IssuedInOrder
  <2>2. r \in CallStates
    BY <1>0, <2>1 DEF CallStates, Places
  <2>3. Own(c, r)
    BY <1>0, <1>5, <1>k, <2>1, <2>2 DEF Own, Sent, AuthRenewed, Step, CallStates
  <2> QED  BY <1>5, <1>o, <2>3 DEF AuthRenewed, Step
<1>6. CASE AuthFailed(c)
  BY <1>6, <1>r DEF AuthFailed, Step, Outcomes
<1>7. CASE Send(c)
  <2>1. CASE call[c].cancelled
    BY <1>7, <1>r, <2>1 DEF Send, Step, Outcomes
  <2>2. CASE ~ call[c].cancelled
    <3> DEFINE r == [call[c] EXCEPT !.at = "sent", !.body = "spent"]
               m == [call |-> c, attempt |-> call[c].attempt, whole |-> call[c].body = "whole"]
    <3>1. r \in CallStates
      BY <1>0 DEF CallStates, Places
    <3>2. call[c].at = "ready" /\ call' = [call EXCEPT ![c] = r] /\ wire' = wire \cup {m}
          /\ served' = served
      BY <1>7, <2>2 DEF Send, Step
    <3>3. Own(c, r) /\ Sent(r) = Sent(call[c]) + 1
      BY <1>0, <1>k, <3>1, <3>2 DEF Own, Sent, CallStates
    <3>4. call'[c] = r
      BY <3>2 DEF CallInv, CallTypes
    <3>5. m \in Copies
      BY <1>0 DEF Copies, CallStates
    <3>6. m.call = c /\ (call[c].body = "whole" => m.whole)
      OBVIOUS
    <3> HIDE DEF r, m
    <3> QED  BY <3>2, <3>3, <3>4, <3>5, <3>6 DEF OwnStep
  <2> QED  BY <2>1, <2>2
<1>w. ASSUME NEW retryAfter \in Quoted, CanRetry(c), Retry(c, retryAfter),
             wire' \subseteq wire, served' = served
      PROVE  OwnStep(c)
  <2>1. PICK w \in Waits(call[c].attempt, retryAfter) :
          call' = [call EXCEPT ![c].at = "waiting", ![c].answer = "none", ![c].wait = w]
    BY <1>w DEF Retry
  <2> DEFINE r == [call[c] EXCEPT !.at = "waiting", !.answer = "none", !.wait = w]
  <2>2. call' = [call EXCEPT ![c] = r]
    BY <1>0, <2>1 DEF CallInv, CallTypes
  <2>3. w \in 0 .. DelayMax /\ w > 0
    BY <1>0, <2>1, CallBounds DEF CallStates
  <2>4. r \in CallStates
    BY <1>0, <2>3 DEF CallStates, Places, Answers
  <2>5. Own(c, r)
    BY <1>0, <1>k, <1>w, <2>3, <2>4 DEF Own, Sent, CanRetry, CallStates
  <2> HIDE DEF r
  <2> QED  BY <1>o, <1>w, <2>2, <2>5
<1>8. CASE TransportError(c)
  <2>1. wire' \subseteq wire /\ served' = served
    BY <1>8 DEF TransportError
  <2>2. CASE Step(c, "sent", Returned(c, "cancelled"))
    BY <1>r, <2>1, <2>2 DEF Step, Outcomes
  <2>3. CASE CanRetry(c) /\ Retry(c, 0)
    BY <1>w, <2>1, <2>3 DEF Quoted
  <2>4. CASE Step(c, "sent", Returned(c, "network"))
    BY <1>r, <2>1, <2>4 DEF Step, Outcomes
  <2> QED  BY <1>8, <2>2, <2>3, <2>4 DEF TransportError
<1>9. CASE Answered(c)
  <2>1. wire' \subseteq wire /\ served' = served /\ call[c].at = "answered"
    BY <1>9 DEF Answered
  <2>2. CASE Step(c, "answered", Returned(c, call[c].answer))
    <3>1. call[c].answer \in Outcomes
      BY <1>0 DEF CallStates, Answers, Outcomes
    <3> QED  BY <1>r, <2>1, <2>2, <3>1 DEF Step
  <2> QED  BY <1>9, <1>w, <2>1, <2>2 DEF Answered
<1>10. CASE WaitOver(c)
  <2>1. call[c].at = "waiting" /\ call' = [call EXCEPT ![c] = NextAttempt(c)]
        /\ wire' = wire /\ served' = served
    BY <1>10 DEF WaitOver, Step
  <2>2. call[c].attempt + 1 \in Attempts
    BY <1>0, <1>k, <2>1, CallBounds DEF CallStates
  <2>3. NextAttempt(c) \in CallStates
    BY <1>0, <1>k, <2>2, CallBounds DEF NextAttempt, CallStates, Places
  <2>4. Own(c, NextAttempt(c))
    BY <1>0, <1>k, <2>1, <2>3 DEF Own, Sent, NextAttempt, CallStates
  <2> QED  BY <1>o, <2>1, <2>4
<1>11. CASE WaitCancelled(c)
  BY <1>11, <1>r DEF WaitCancelled, Step, Outcomes
<1>12. CASE Cancel(c)
  <2> DEFINE r == [call[c] EXCEPT !.cancelled = TRUE]
  <2>1. r \in CallStates
    BY <1>0 DEF CallStates
  <2>2. call' = [call EXCEPT ![c] = r] /\ wire' = wire /\ served' = served
        /\ call[c].at # "idle"
    BY <1>0, <1>12 DEF Cancel, CallInv, CallTypes
  <2>3. Own(c, r)
    BY <1>0, <1>k, <2>1, <2>2 DEF Own, Sent, CallStates
  <2> HIDE DEF r
  <2> QED  BY <1>o, <2>2, <2>3
<1> QED  BY <1>1, <1>2, <1>3, <1>4, <1>5, <1>6, <1>7, <1>8, <1>9, <1>10, <1>11, <1>12
         DEF CallStep

\* A call's own step keeps the invariant of the calls.
LEMMA OwnKeeps ==
  ASSUME CallInv, TokenInv, TokenStep, NEW c \in Calls, OwnStep(c)
  PROVE  CallInv'
<1>1. PICK r : call' = [call EXCEPT ![c] = r] /\ Own(c, r)
  BY DEF OwnStep
<1>2. /\ call \in [Calls -> CallStates] /\ r \in CallStates
      /\ call' \in [Calls -> CallStates]
      /\ call'[c] = r /\ \A d \in Calls : d # c => call'[d] = call[d]
  BY <1>1 DEF CallInv, CallTypes, Own
<1>3. served' = served /\ \A m \in wire' \ wire :
        m \in Copies /\ m.call = c /\ call[c].at = "ready" /\ (call[c].body = "whole" => m.whole)
  BY DEF OwnStep
<1>4. \A d \in Calls : call'[d].shape = call[d].shape
  BY <1>1, <1>2 DEF Own
<1>5. CallTypes'
  BY <1>1, <1>2, <1>3 DEF CallInv, CallTypes, Own
<1>6. BodyInv'
  <2>1. \A d \in Calls : call'[d].at \in {"idle", "auth", "token", "ready"} => call'[d].body = "whole"
    BY <1>1, <1>2 DEF CallInv, BodyInv, Own
  <2>2. ASSUME NEW m \in wire', call'[m.call].shape.hasBody PROVE m.whole
    <3>1. CASE m \in wire
      <4>1. m.call \in Calls
        BY <3>1 DEF CallInv, CallTypes, Copies
      <4> QED  BY <1>4, <2>2, <3>1, <4>1 DEF CallInv, BodyInv
    <3>2. CASE m \notin wire
      BY <1>3, <3>2 DEF CallInv, BodyInv
    <3> QED  BY <3>1, <3>2
  <2> QED  BY <2>1, <2>2 DEF BodyInv
<1>7. KnownInv'
  <2>1. \A d \in Calls : call[d].known \in Nat
    BY <1>2, TokenBounds DEF CallStates
  <2> QED  BY <1>1, <1>2, <2>1, AccessGrows DEF CallInv, KnownInv, Own
<1>8. ExecutedInv'
  <2>1. \A d \in Calls : Acts(d)' = Acts(d)
    BY <1>4 DEF Acts
  <2>2. ASSUME NEW d \in Calls
        PROVE  /\ call'[d].keyed => served'[d].executed = IF served'[d].stored THEN 1 ELSE 0
               /\ ~ call'[d].keyed => ~ served'[d].stored
               /\ call'[d].at = "idle" => ~ call'[d].keyed /\ served'[d].executed = 0
               /\ Acts(d)' /\ call'[d].at = "answered" /\ call'[d].answer = "ok" => served'[d].executed > 0
               /\ Acts(d)' /\ call'[d].outcome = "ok" => served'[d].executed > 0
    <3>1. CASE d # c
      BY <1>2, <1>3, <2>1, <3>1 DEF CallInv, ExecutedInv
    <3>2. CASE d = c
      BY <1>1, <1>2, <1>3, <2>1, <3>2 DEF CallInv, ExecutedInv, Own
    <3> QED  BY <3>1, <3>2
  <2>3. ASSUME NEW m \in wire' PROVE call'[m.call].at # "idle"
    <3>1. CASE m \in wire
      <4>1. m.call \in Calls /\ call[m.call].at # "idle"
        BY <3>1 DEF CallInv, CallTypes, ExecutedInv, Copies
      <4> QED  BY <1>1, <1>2, <4>1 DEF Own
    <3>2. CASE m \notin wire
      BY <1>1, <1>2, <1>3, <3>2 DEF Own
    <3> QED  BY <3>1, <3>2
  <2> QED  BY <2>2, <2>3 DEF ExecutedInv
<1> QED  BY <1>5, <1>6, <1>7, <1>8 DEF CallInv

\* Serving or rejecting a copy keeps the invariant of the calls.
LEMMA ServerKeeps ==
  ASSUME CallInv, NEW m \in wire, Serve(m) \/ Reject(m)
  PROVE  CallInv'
<1> DEFINE c == m.call
<1>0. /\ c \in Calls /\ call \in [Calls -> CallStates] /\ call[c].at # "idle"
      /\ served \in [Calls -> [executed : Nat, stored : BOOLEAN]]
  BY DEF CallInv, CallTypes, ExecutedInv, Copies
<1>1. PICK answer \in {"ok", "unreadable", "temporary", "final"} :
        /\ Deliver(m, answer)
        /\ Serve(m) \/ answer # "ok"
  BY DEF Serve, Reject
<1>2. wire' = wire \ {m} /\ held' = held
  BY DEF Serve, Reject, tokenVars, sourceVars
<1>3. \/ call' = call
      \/ /\ call' = [call EXCEPT ![c].at = "answered", ![c].answer = answer]
         /\ call[c].at = "sent"
  BY <1>1 DEF Deliver
<1>4. /\ call' \in [Calls -> CallStates]
      /\ \A d \in Calls :
           /\ d # c => call'[d] = call[d]
           /\ \/ call'[d] = call[d]
              \/ call[d].at = "sent" /\ call'[d].at = "answered" /\ call'[d].answer = answer
           /\ call'[d].shape = call[d].shape /\ call'[d].keyed = call[d].keyed
           /\ call'[d].known = call[d].known /\ call'[d].outcome = call[d].outcome
  <2>1. call[c] \in CallStates
    BY <1>0
  <2> DEFINE r == [call[c] EXCEPT !.at = "answered", !.answer = answer]
  <2>2. r \in CallStates
    BY <2>1 DEF CallStates, Places, Answers
  <2>3. /\ r.at = "answered" /\ r.answer = answer /\ r.shape = call[c].shape
        /\ r.keyed = call[c].keyed /\ r.known = call[c].known /\ r.outcome = call[c].outcome
    BY <2>1 DEF CallStates
  <2>4. \/ call' = call
        \/ call' = [call EXCEPT ![c] = r] /\ call[c].at = "sent"
    BY <1>0, <1>3, <2>1 DEF CallStates
  <2> HIDE DEF r
  <2> QED  BY <1>0, <2>2, <2>3, <2>4
<1>5. /\ served' \in [Calls -> [executed : Nat, stored : BOOLEAN]]
      /\ \A d \in Calls : d # c => served'[d] = served[d]
      /\ ~ Acts(c) \/ ~ Serve(m) => served' = served
  BY <1>0 DEF Serve, Reject
<1>6. ASSUME Serve(m), Acts(c)
      PROVE  /\ served'[c].executed > 0
             /\ call[c].keyed => served'[c].executed = 1 /\ served'[c].stored
             /\ ~ call[c].keyed => ~ served'[c].stored
  <2>1. CASE call[c].keyed /\ served[c].stored
    BY <1>0, <1>6, <2>1 DEF Serve, CarriesKey, CallInv, ExecutedInv
  <2>2. CASE call[c].keyed /\ ~ served[c].stored
    BY <1>0, <1>6, <2>2 DEF Serve, CarriesKey, CallInv, ExecutedInv
  <2>3. CASE ~ call[c].keyed
    BY <1>0, <1>6, <2>3 DEF Serve, CarriesKey, CallInv, ExecutedInv
  <2> QED  BY <2>1, <2>2, <2>3
<1> HIDE DEF c
<1>7. CallTypes'
  BY <1>2, <1>4, <1>5 DEF CallInv, CallTypes
<1>8. BodyInv'
  <2>1. \A d \in Calls : call'[d].at \in {"idle", "auth", "token", "ready"} => call'[d].body = "whole"
    BY <1>4 DEF CallInv, BodyInv
  <2>2. \A n \in wire' : n \in wire /\ n.call \in Calls
    BY <1>2 DEF CallInv, CallTypes, Copies
  <2> QED  BY <1>4, <2>1, <2>2 DEF CallInv, BodyInv
<1>9. KnownInv'
  BY <1>2, <1>4 DEF CallInv, KnownInv
<1>10. ExecutedInv'
  <2>1. \A d \in Calls : Acts(d)' = Acts(d)
    BY <1>4 DEF Acts
  <2>2. ASSUME NEW d \in Calls
        PROVE  /\ call'[d].keyed => served'[d].executed = IF served'[d].stored THEN 1 ELSE 0
               /\ ~ call'[d].keyed => ~ served'[d].stored
               /\ call'[d].at = "idle" => ~ call'[d].keyed /\ served'[d].executed = 0
               /\ Acts(d)' /\ call'[d].at = "answered" /\ call'[d].answer = "ok" => served'[d].executed > 0
               /\ Acts(d)' /\ call'[d].outcome = "ok" => served'[d].executed > 0
    <3>1. CASE d # c
      BY <1>4, <1>5, <2>1, <3>1 DEF CallInv, ExecutedInv
    <3>2. CASE d = c /\ Serve(m) /\ Acts(c)
      BY <1>0, <1>4, <1>6, <2>1, <3>2 DEF CallInv, ExecutedInv
    <3>3. CASE d = c /\ ~ (Serve(m) /\ Acts(c))
      BY <1>1, <1>4, <1>5, <2>1, <3>3 DEF CallInv, ExecutedInv
    <3> QED  BY <3>1, <3>2, <3>3
  <2>3. ASSUME NEW n \in wire' PROVE call'[n.call].at # "idle"
    <3>1. n \in wire /\ n.call \in Calls /\ call[n.call].at # "idle"
      BY <1>2 DEF CallInv, CallTypes, ExecutedInv, Copies
    <3> QED  BY <1>4, <3>1
  <2> QED  BY <2>2, <2>3 DEF ExecutedInv
<1> QED  BY <1>7, <1>8, <1>9, <1>10 DEF CallInv

\* Before any call was begun.
LEMMA CallStart == Init => CallInv
<1> SUFFICES ASSUME Init PROVE CallInv
  OBVIOUS
<1>1. PICK asked \in Workloads :
        call = [c \in Calls |->
                 [at |-> IF asked[c] = NoShape THEN "done" ELSE "idle",
                  shape |-> asked[c], keyed |-> FALSE, attempt |-> 0,
                  body |-> "whole", token |-> 0, known |-> 0, answer |-> "none",
                  wait |-> 0, cancelled |-> FALSE, outcome |-> "none"]]
  BY DEF Init
<1>2. asked \in [Calls -> Shapes \cup {NoShape}]
  BY RestAssumption
<1>3. wire = {} /\ served = [c \in Calls |-> [executed |-> 0, stored |-> FALSE]]
  BY DEF Init
<1>4. call \in [Calls -> CallStates]
  <2> SUFFICES ASSUME NEW c \in Calls PROVE call[c] \in CallStates
    BY <1>1
  <2>1. asked[c] \in Shapes \cup {NoShape}
    BY <1>2
  <2> QED  BY <1>1, <2>1, TokenBounds, CallBounds DEF CallStates, Places, Answers, Outcomes
<1>5. held.access >= 0
  <2>1. held.access \in Tokens
    BY TokenStart DEF Init, TokenInv, TokenTypeOK
  <2>2. held.access \in Nat
    BY <2>1, TokenBounds
  <2> QED  BY <2>2
<1>6. \A c \in Calls : /\ call[c].at \in {"idle", "done"} /\ call[c].body = "whole"
                       /\ call[c].known = 0 /\ ~ call[c].keyed /\ call[c].outcome = "none"
                       /\ served[c].executed = 0 /\ ~ served[c].stored
  BY <1>1, <1>3
<1>7. CallTypes
  BY <1>3, <1>4, <1>6 DEF CallTypes
<1>8. BodyInv /\ KnownInv /\ ExecutedInv
  BY <1>3, <1>5, <1>6 DEF BodyInv, KnownInv, ExecutedInv
<1> QED  BY <1>7, <1>8 DEF CallInv

\* The invariant of the calls, with that of the token source, is inductive.
LEMMA CallNext == CallInv /\ TokenInv /\ [Next]_vars => CallInv'
<1> SUFFICES ASSUME CallInv, TokenInv, [Next]_vars PROVE CallInv'
  OBVIOUS
<1>0. TokenStep
  BY TokenSteps
<1>1. ASSUME NEW c \in Calls, Begin(c) \/ CallStep(c) \/ WaitCancelled(c) \/ Cancel(c)
      PROVE  CallInv'
  BY <1>0, <1>1, OwnSteps, OwnKeeps
<1>2. ASSUME NEW m \in wire, Serve(m) \/ Reject(m)
      PROVE  CallInv'
  BY <1>2, ServerKeeps
<1>3. CASE UNCHANGED restVars
  <2>1. call' = call /\ wire' = wire /\ served' = served
    BY <1>3 DEF restVars
  <2>2. CallTypes' /\ BodyInv' /\ ExecutedInv'
    BY <2>1 DEF CallInv, CallTypes, BodyInv, ExecutedInv, Acts
  <2>3. KnownInv'
    <3>1. \A c \in Calls : call[c].known \in Nat
      BY TokenBounds DEF CallInv, CallTypes, CallStates
    <3> QED  BY <1>0, <2>1, <3>1, AccessGrows DEF CallInv, KnownInv
  <2> QED  BY <2>2, <2>3 DEF CallInv
<1>4. CASE Environment
  BY <1>3, <1>4 DEF Environment
<1>5. CASE Finished \/ UNCHANGED vars
  BY <1>3, <1>5 DEF Finished, vars
<1> QED  BY <1>1, <1>2, <1>4, <1>5 DEF Next

\* What the theorems about the calls rest on.
LEMMA CallsCorrect == Spec => [](CallInv /\ TokenInv)
<1>1. Init => CallInv /\ TokenInv
  BY CallStart, TokenStart DEF Init
<1>2. CallInv /\ TokenInv /\ [Next]_vars => (CallInv /\ TokenInv)'
  BY CallNext, TokenNext, TokenSteps
<1> QED  BY <1>1, <1>2, PTL DEF Spec

-----------------------------------------------------------------------------
(* How often a request is executed                                         *)

\* The copies of a call's request that are still under way.
UnderWay(c) == {m \in wire : m.call = c}

\* An attempt's copy is under way or was executed at most once.
CountInv ==
  \A c \in Calls : /\ IsFiniteSet(UnderWay(c))
                    /\ served[c].executed + Cardinality(UnderWay(c)) <= Sent(call[c])

\* Attempts are counted.
LEMMA SentCounts == ASSUME NEW r \in CallStates PROVE Sent(r) \in Nat
<1>1. r.attempt \in Nat
  BY CallBounds DEF CallStates
<1> QED  BY <1>1 DEF Sent

\* A call's own step sends one more copy at most, with an attempt of its own.
LEMMA OwnCounts ==
  ASSUME CallInv, TokenInv, CountInv, NEW c \in Calls, OwnStep(c)
  PROVE  CountInv'
<1>1. PICK r : call' = [call EXCEPT ![c] = r] /\ Own(c, r)
  BY DEF OwnStep
<1>2. /\ call'[c] = r /\ \A d \in Calls : d # c => call'[d] = call[d]
      /\ r \in CallStates /\ served' = served
  BY <1>1 DEF CallInv, CallTypes, Own, OwnStep
<1>3. SUFFICES ASSUME NEW d \in Calls
               PROVE  /\ IsFiniteSet(UnderWay(d)')
                      /\ served[d].executed + Cardinality(UnderWay(d)') <= Sent(call'[d])
  BY <1>2 DEF CountInv, Sent
<1>4. /\ served[d].executed \in Nat /\ call[d] \in CallStates /\ call'[d] \in CallStates
      /\ IsFiniteSet(UnderWay(d)) /\ Cardinality(UnderWay(d)) \in Nat
      /\ served[d].executed + Cardinality(UnderWay(d)) <= Sent(call[d])
  BY <1>2, FS_CardinalityType DEF CallInv, CallTypes, CountInv
<1>5. Sent(call[d]) \in Nat /\ Sent(call'[d]) \in Nat /\ Sent(call[d]) <= Sent(call'[d])
  <2>1. Sent(call[d]) \in Nat /\ Sent(call'[d]) \in Nat
    BY <1>4, SentCounts
  <2>2. Sent(call[d]) <= Sent(call'[d])
    <3>1. CASE d = c
      BY <1>1, <1>2, <3>1 DEF Own
    <3>2. CASE d # c
      <4>1. call'[d] = call[d]
        BY <1>2, <3>2
      <4> QED  BY <2>1, <4>1
    <3> QED  BY <3>1, <3>2
  <2> QED  BY <2>1, <2>2
<1>6. CASE UnderWay(d)' \subseteq UnderWay(d)
  <2>1. IsFiniteSet(UnderWay(d)') /\ Cardinality(UnderWay(d)') <= Cardinality(UnderWay(d))
    BY <1>4, <1>6, FS_Subset
  <2>2. Cardinality(UnderWay(d)') \in Nat
    BY <2>1, FS_CardinalityType
  <2> QED  BY <1>4, <1>5, <2>1, <2>2
<1>7. CASE ~ UnderWay(d)' \subseteq UnderWay(d)
  <2>1. PICK m : m \in UnderWay(d)' /\ m \notin UnderWay(d)
    BY <1>7
  <2>2. d = c /\ Sent(call'[c]) = Sent(call[c]) + 1 /\ wire' = wire \cup {m}
    BY <2>1 DEF UnderWay, OwnStep
  <2>3. UnderWay(d)' = UnderWay(d) \cup {m}
    BY <2>1, <2>2 DEF UnderWay
  <2>4. IsFiniteSet(UnderWay(d)') /\ Cardinality(UnderWay(d)') = Cardinality(UnderWay(d)) + 1
    BY <1>4, <2>1, <2>3, FS_AddElement
  <2> QED  BY <1>4, <1>5, <2>2, <2>4
<1> QED  BY <1>6, <1>7

\* The server executes a copy once and takes it from the network.
LEMMA ServerCounts ==
  ASSUME CallInv, CountInv, NEW m \in wire, Serve(m) \/ Reject(m)
  PROVE  CountInv'
<1> DEFINE c == m.call
<1>1. /\ c \in Calls /\ call \in [Calls -> CallStates]
      /\ served \in [Calls -> [executed : Nat, stored : BOOLEAN]]
      /\ wire' = wire \ {m}
  BY DEF CallInv, CallTypes, Copies, Serve, Reject
<1>2. /\ \A d \in Calls : d # c => served'[d] = served[d]
      /\ served'[c].executed \in {served[c].executed, served[c].executed + 1}
  BY <1>1 DEF Serve, Reject
<1>3. ASSUME NEW d \in Calls PROVE Sent(call'[d]) = Sent(call[d])
  <2>1. \/ call' = call
        \/ \E answer : /\ call' = [call EXCEPT ![c].at = "answered", ![c].answer = answer]
                       /\ call[c].at = "sent"
    BY DEF Serve, Reject, Deliver
  <2>2. \/ call'[d] = call[d]
        \/ call'[d].at = "answered" /\ call[d].at = "sent" /\ call'[d].attempt = call[d].attempt
    <3>1. call[c] \in CallStates
      BY <1>1
    <3>2. ASSUME NEW answer, call' = [call EXCEPT ![c].at = "answered", ![c].answer = answer]
          PROVE  call'[c].at = "answered" /\ call'[c].attempt = call[c].attempt
      BY <1>1, <3>1, <3>2 DEF CallStates
    <3>3. CASE d = c
      BY <2>1, <3>2, <3>3
    <3>4. CASE d # c
      BY <1>1, <2>1, <3>4
    <3> QED  BY <3>3, <3>4
  <2> QED  BY <2>2 DEF Sent
<1> HIDE DEF c
<1>4. SUFFICES ASSUME NEW d \in Calls
               PROVE  /\ IsFiniteSet(UnderWay(d)')
                      /\ served'[d].executed + Cardinality(UnderWay(d)') <= Sent(call[d])
  BY <1>3 DEF CountInv, Sent
<1>5. /\ served[d].executed \in Nat
      /\ IsFiniteSet(UnderWay(d)) /\ Cardinality(UnderWay(d)) \in Nat
      /\ served[d].executed + Cardinality(UnderWay(d)) <= Sent(call[d])
      /\ Sent(call[d]) \in Nat
  BY <1>1, SentCounts, FS_CardinalityType DEF CountInv
<1>6. CASE d # c
  <2>1. UnderWay(d)' = UnderWay(d)
    BY <1>1, <1>6 DEF UnderWay, c
  <2> QED  BY <1>2, <1>5, <1>6, <2>1
<1>7. CASE d = c
  <2>1. UnderWay(d)' = UnderWay(d) \ {m} /\ m \in UnderWay(d)
    BY <1>1, <1>7 DEF UnderWay, c
  <2>2. IsFiniteSet(UnderWay(d)') /\ Cardinality(UnderWay(d)') = Cardinality(UnderWay(d)) - 1
    BY <1>5, <2>1, FS_RemoveElement
  <2> QED  BY <1>2, <1>5, <1>7, <2>2
<1> QED  BY <1>6, <1>7

\* The count is kept by every step.
LEMMA CountNext == CallInv /\ TokenInv /\ CountInv /\ [Next]_vars => CountInv'
<1> SUFFICES ASSUME CallInv, TokenInv, CountInv, [Next]_vars PROVE CountInv'
  OBVIOUS
<1>1. ASSUME NEW c \in Calls, Begin(c) \/ CallStep(c) \/ WaitCancelled(c) \/ Cancel(c)
      PROVE  CountInv'
  BY <1>1, TokenSteps, OwnSteps, OwnCounts
<1>2. ASSUME NEW m \in wire, Serve(m) \/ Reject(m)
      PROVE  CountInv'
  BY <1>2, ServerCounts
<1>3. CASE Environment \/ Finished \/ UNCHANGED vars
  BY <1>3 DEF Environment, Finished, vars, restVars, CountInv, UnderWay, Sent
<1> QED  BY <1>1, <1>2, <1>3 DEF Next

\* TypeOK: every wait is within the client's bound wherever the backoff's
\* shift wraps, and a request is executed at most once for each attempt.
THEOREM RestTypes == Spec => []TypeOK
<1>1. ASSUME Init PROVE CountInv
  <2>1. CallInv /\ wire = {} /\ \A c \in Calls : served[c].executed = 0
    BY <1>1, CallStart DEF Init
  <2>2. ASSUME NEW c \in Calls PROVE UnderWay(c) = {} /\ Sent(call[c]) \in Nat
    BY <2>1, SentCounts DEF UnderWay, CallInv, CallTypes
  <2>3. IsFiniteSet({}) /\ Cardinality({}) = 0
    BY FS_EmptySet
  <2>4. ASSUME NEW c \in Calls
        PROVE  /\ IsFiniteSet(UnderWay(c))
               /\ served[c].executed + Cardinality(UnderWay(c)) <= Sent(call[c])
    <3>1. UnderWay(c) = {} /\ Sent(call[c]) \in Nat /\ served[c].executed = 0
      BY <2>1, <2>2
    <3> QED  BY <2>3, <3>1
  <2> QED  BY <2>4 DEF CountInv
<1>2. CallInv /\ TokenInv /\ CountInv => TypeOK
  <2> SUFFICES ASSUME CallInv, TokenInv, CountInv PROVE TypeOK
    OBVIOUS
  <2>1. ASSUME NEW c \in Calls PROVE served[c].executed \in 0 .. MaxRetries + 1
    <3>1. /\ served[c].executed \in Nat /\ Cardinality(UnderWay(c)) \in Nat
          /\ call[c].attempt \in 0 .. MaxRetries /\ MaxRetries \in Nat
      BY CallBounds, FS_CardinalityType DEF CallInv, CallTypes, CallStates, CountInv, Attempts
    <3> QED  BY <3>1 DEF CountInv, Sent
  <2>2. served \in [Calls -> [executed : 0 .. MaxRetries + 1, stored : BOOLEAN]]
    BY <2>1 DEF CallInv, CallTypes
  <2> QED  BY <2>2 DEF TypeOK, TokenInv, CallInv, CallTypes, CallStates
<1> QED  BY <1>1, <1>2, CallsCorrect, CountNext, PTL DEF Spec

\* KeyedOnce, for any number of calls and retries: an operation with an
\* idempotency key is performed at most once.
THEOREM OnceWithKey == Spec => []KeyedOnce
<1>1. CallInv => KeyedOnce
  BY DEF CallInv, ExecutedInv, KeyedOnce
<1> QED  BY <1>1, CallsCorrect, PTL

\* SuccessMeansDone: a call that returns without an error was carried out.
THEOREM DoneOnSuccess == Spec => []SuccessMeansDone
<1>1. CallInv => SuccessMeansDone
  BY DEF CallInv, ExecutedInv, SuccessMeansDone
<1> QED  BY <1>1, CallsCorrect, PTL

\* WholeBody: no attempt sends less than the body.
THEOREM BodyWhole == Spec => []WholeBody
<1>1. CallInv => WholeBody
  BY DEF CallInv, BodyInv, WholeBody
<1> QED  BY <1>1, CallsCorrect, PTL

\* NeverStaleToken: an attempt carries a token no older than the one held when
\* it began.
THEOREM TokenFresh == Spec => []NeverStaleToken
<1>1. CallInv => NeverStaleToken
  BY DEF CallInv, KnownInv, NeverStaleToken
<1> QED  BY <1>1, CallsCorrect, PTL

=============================================================================
