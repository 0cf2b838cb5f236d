--------------------------- MODULE ClientOptions ---------------------------
(***************************************************************************)
(* client.go, New, and options.go: the options are applied in the order    *)
(* they are given, each checks its own argument, the first error ends New, *)
(* and a later option replaces an earlier one.  The engine relies on what  *)
(* comes out: Backoff needs its bounds positive and ordered, do() needs a  *)
(* retry count, newRequest a base it can resolve a path against.           *)
(***************************************************************************)
EXTENDS Integers

CONSTANTS Counts,      \* arguments of WithMaxRetries
          Waits,       \* arguments of WithRetryWaitBounds, in half seconds
          MaxOptions   \* bound: options given

ASSUME OptionsAssumption ==
  Counts \subseteq Int /\ Waits \subseteq Int /\ MaxOptions \in Nat

VARIABLES
  client,  \* the Client under construction
  given,   \* options applied so far
  built    \* New: not called, applying, its client or its error

optionVars == <<client, given, built>>

\* A key or token that is blank, or a source or authenticator that is nil.
Credentials == {"apiKey", "accessToken", "tokenSource", "authenticator", "missing"}
BaseURLs == [parses : BOOLEAN, absolute : BOOLEAN, slash : BOOLEAN]

Default ==
  [auth |-> "none", base |-> [parses |-> TRUE, absolute |-> TRUE, slash |-> TRUE],
   http |-> TRUE, userAgent |-> "default", header |-> FALSE,
   maxRetries |-> 2, waitMin |-> 1, waitMax |-> 60]

OptionsInit == client = Default /\ given = 0 /\ built = "no"

New ==
  /\ built = "no" /\ built' = "applying"
  /\ UNCHANGED <<client, given>>

\* An option whose argument is refused leaves the client as it was.
Applied(valid, with) ==
  /\ built = "applying" /\ given < MaxOptions
  /\ given' = given + 1
  /\ IF valid THEN client' = with /\ UNCHANGED built
     ELSE built' = "error" /\ UNCHANGED client

WithCredential ==
  \E a \in Credentials : Applied(a # "missing", [client EXCEPT !.auth = a])

WithBaseURL ==
  \E u \in BaseURLs :
    Applied(u.parses /\ u.absolute, [client EXCEPT !.base = [u EXCEPT !.slash = TRUE]])

WithHTTPClient == \E set \in BOOLEAN : Applied(set, [client EXCEPT !.http = set])

\* A blank product changes nothing, as a nil option does.
WithUserAgent ==
  /\ built = "applying" /\ given < MaxOptions
  /\ given' = given + 1
  /\ client' \in {client, [client EXCEPT !.userAgent = "product"]}
  /\ UNCHANGED built

WithMaxRetries == \E n \in Counts : Applied(n >= 0, [client EXCEPT !.maxRetries = n])

\* Mutant: each bound is checked, not the two together.
WithRetryWaitBoundsApart ==
  \E lo \in Waits, hi \in Waits :
    Applied(lo > 0 /\ hi > 0, [client EXCEPT !.waitMin = lo, !.waitMax = hi])

WithRetryWaitBounds ==
  \E lo \in Waits, hi \in Waits :
    Applied(lo > 0 /\ hi > 0 /\ lo <= hi, [client EXCEPT !.waitMin = lo, !.waitMax = hi])

WithHeader == \E named \in BOOLEAN : Applied(named, [client EXCEPT !.header = named])

\* All options applied: a client without credentials is refused.
Built ==
  /\ built = "applying"
  /\ built' = IF client.auth = "none" THEN "error" ELSE "client"
  /\ UNCHANGED <<client, given>>

OptionsNext ==
  \/ New \/ WithCredential \/ WithBaseURL \/ WithHTTPClient \/ WithUserAgent
  \/ WithMaxRetries \/ WithRetryWaitBounds \/ WithHeader \/ Built

-----------------------------------------------------------------------------
\* Whatever the options and their order, the client New returns is one the
\* engine can run: it authenticates, resolves paths below its base, and its
\* retries and delays are in the range Backoff assumes.
ClientUsable ==
  built = "client" =>
    /\ client.auth \notin {"none", "missing"} /\ client.http
    /\ client.base.absolute /\ client.base.slash
    /\ client.maxRetries >= 0
    /\ client.waitMin \in 1 .. client.waitMax

=============================================================================
