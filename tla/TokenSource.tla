---------------------------- MODULE TokenSource ----------------------------
(***************************************************************************)
(* oauth_flow.go: the two refreshing token sources and the endpoint they   *)
(* ask.  Token() holds the source's mutex from its first line to its last, *)
(* so a caller that finds the token stale keeps every other caller waiting *)
(* while it exchanges the refresh token (refreshTokenSource) or its client *)
(* credentials (clientCredentialsSource).  The exchange is one POST that   *)
(* is never retried; it runs under the source's own context, not under the *)
(* context of the call that happens to need the token.                     *)
(*                                                                         *)
(* The endpoint is external: it may rotate the refresh token, it accepts   *)
(* a refresh token only while it is the live one, and its answer may be    *)
(* lost.  Access and refresh tokens are numbered as they are issued.       *)
(***************************************************************************)
EXTENDS Naturals

CONSTANTS Calls,       \* the goroutines that need a token
          NoCall,      \* an unlocked mutex
          MaxIssues,   \* bound: access tokens the endpoint issues
          MaxExpiries  \* bound: times the held token runs out

ASSUME TokenAssumption ==
  /\ NoCall \notin Calls
  /\ MaxIssues \in Nat /\ MaxExpiries \in Nat

VARIABLES
  grant,     \* "refresh", "credentials", "static": which source the client has
  held,      \* s.t: access and refresh token (0: none) and whether it is Valid
  lock,      \* s.mu: the call inside Token()
  exchange,  \* the token request: its stage, what it presents, what came back
  endpoint,  \* the server: tokens issued, the live refresh token
  expiries,  \* how often the held token has run out
  unheard    \* an exchange was carried out and its answer lost

sourceVars == <<held, lock, exchange>>
serverVars == <<endpoint, expiries, unheard>>
tokenVars  == <<grant, sourceVars, serverVars>>

Tokens == 0 .. MaxIssues + 1
NoExchange == [at |-> "none", refresh |-> 0, access |-> 0, rotated |-> 0]

TokenTypeOK ==
  /\ grant \in {"refresh", "credentials", "static"}
  /\ held \in [access : Tokens, refresh : Tokens, valid : BOOLEAN]
  /\ lock \in Calls \cup {NoCall}
  /\ exchange \in [at : {"none", "asked", "granted", "refused"},
                   refresh : Tokens, access : Tokens, rotated : Tokens]
  /\ endpoint \in [issued : Tokens, live : Tokens]
  /\ expiries \in 0 .. MaxExpiries
  /\ unheard \in BOOLEAN

\* A refresh source starts from a token it was given, with or without a
\* refresh token; a credentials source starts empty; a static one never ends.
TokenInit ==
  /\ grant \in {"refresh", "credentials", "static"}
  /\ held \in CASE grant = "refresh" ->
                     [access : {1}, refresh : {0, 1}, valid : BOOLEAN]
                [] grant = "credentials" ->
                     {[access |-> 0, refresh |-> 0, valid |-> FALSE]}
                [] OTHER -> {[access |-> 1, refresh |-> 0, valid |-> TRUE]}
  /\ lock = NoCall
  /\ exchange = NoExchange
  /\ endpoint = [issued |-> 1, live |-> held.refresh]
  /\ expiries = 0
  /\ unheard = FALSE

\* Token() with a valid token held: no request.
TokenCached(c) ==
  /\ lock = NoCall
  /\ held.valid
  /\ UNCHANGED tokenVars

\* An expired token and no refresh token to renew it with.
TokenUnrenewable(c) ==
  /\ lock = NoCall
  /\ ~ held.valid
  /\ grant = "refresh" /\ held.refresh = 0
  /\ UNCHANGED tokenVars

\* What there is to exchange: the client's own credentials, or a refresh token.
Renewable == grant = "credentials" \/ held.refresh # 0

\* Mutant: Token without its mutex.
TokenAskUnlocked(c) ==
  /\ ~ held.valid
  /\ Renewable
  /\ lock' = c
  /\ exchange' = [NoExchange EXCEPT !.at = "asked", !.refresh = held.refresh]
  /\ UNCHANGED <<grant, held, endpoint, expiries, unheard>>

\* The lock is kept for as long as the exchange takes.
TokenAsk(c) ==
  /\ lock = NoCall
  /\ ~ held.valid
  /\ Renewable
  /\ lock' = c
  /\ exchange' = [NoExchange EXCEPT !.at = "asked", !.refresh = held.refresh]
  /\ UNCHANGED <<grant, held, endpoint, expiries, unheard>>

\* The endpoint carries the exchange out: a new access token and, if it
\* rotates, a new refresh token in place of the presented one.
EndpointGrants ==
  /\ exchange.at = "asked" /\ endpoint.issued <= MaxIssues
  /\ grant = "refresh" => exchange.refresh = endpoint.live
  /\ \E rotates \in IF grant = "refresh" THEN BOOLEAN ELSE {FALSE} :
       LET n == endpoint.issued + 1
       IN  /\ endpoint' = [issued |-> n,
                           live |-> IF rotates THEN n ELSE endpoint.live]
           /\ exchange' = [exchange EXCEPT !.at = "granted", !.access = n,
                                           !.rotated = IF rotates THEN n ELSE 0]
  /\ UNCHANGED <<grant, held, lock, expiries, unheard>>

\* An error answer: the token is not the live one, or the endpoint is down.
EndpointRefuses ==
  /\ exchange.at = "asked"
  /\ exchange' = [exchange EXCEPT !.at = "refused"]
  /\ UNCHANGED <<grant, held, lock, endpoint, expiries, unheard>>

\* The answer is stored; a server that did not rotate left the old refresh
\* token in force, so it is carried forward.
TokenKept(c) ==
  /\ lock = c
  /\ exchange.at = "granted"
  /\ held' = [access |-> exchange.access,
              refresh |-> IF exchange.rotated = 0 THEN held.refresh ELSE exchange.rotated,
              valid |-> TRUE]
  /\ lock' = NoCall
  /\ exchange' = NoExchange
  /\ UNCHANGED <<grant, serverVars>>

\* The answer to a carried-out exchange goes unused: lost on the way, not a
\* token by parseToken, or without an access token.
AnswerUnused == exchange.at = "granted"

\* An error answer, or none before the HTTP client's timeout: the source
\* keeps what it had.
TokenFailed(c) ==
  /\ lock = c
  /\ lock' = NoCall
  /\ exchange' = NoExchange
  /\ unheard' = (unheard \/ AnswerUnused)
  /\ UNCHANGED <<grant, held, endpoint, expiries>>

\* Time passes: the held token enters its last ten seconds (Valid).
TokenExpires ==
  /\ grant # "static"
  /\ held.valid
  /\ expiries < MaxExpiries
  /\ held' = [held EXCEPT !.valid = FALSE]
  /\ expiries' = expiries + 1
  /\ UNCHANGED <<grant, lock, exchange, endpoint, unheard>>

TokenEnvironment == EndpointGrants \/ EndpointRefuses \/ TokenExpires

=============================================================================
