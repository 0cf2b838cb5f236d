--------------------------- MODULE HandshakePoll ---------------------------
(***************************************************************************)
(* The three loops that wait for a person: WaitForCLIAuth                  *)
(* (auth_service.go), WaitForApproval (poollink.go) and WaitForConnect     *)
(* (cloudlink.go).  Each polls a code at an interval until somebody has    *)
(* decided, the code has expired or the context is done.                   *)
(*                                                                         *)
(* A poll is one call of the request engine (client.go): while the engine  *)
(* has attempts left, an answer that is lost, says 5xx or says 429 makes   *)
(* it wait and send the poll again, before the loop knows of it.           *)
(* The server is external; what it does with a code is what the comments   *)
(* of the polls say.  Time is counted in ticks, and an answer takes none.  *)
(***************************************************************************)
EXTENDS Integers, Backoff

CONSTANTS Intervals,    \* what a handshake may ask for; 0 is nothing
          DefaultWait,  \* cliAuthPollInterval
          Floor,        \* poolLinkPollFloor
          SlowDown,     \* slowDown
          Asks,         \* Retry-After values of an answer; 0 is none
          Resends,      \* the request engine's retries
          MaxLimited    \* bound: 429 answers that reach the loop

ASSUME PollAssumption ==
  /\ {DefaultWait, Floor, SlowDown} \subseteq Nat \ {0}
  /\ Intervals \subseteq Nat /\ Asks \subseteq Nat
  /\ Resends \in Nat /\ MaxLimited \in Nat

VARIABLES
  flow,     \* which loop: "cli", "pool", "cloud"
  asked,    \* the handshake's interval
  poll,     \* the loop: not begun, waiting, asking, resending, returned
  interval, \* the loop's interval
  left,     \* what is left of its sleep, or of the engine's
  resent,   \* attempts of this poll so far, less one
  result,   \* what it returned, and whether with the key, token or link
  code,     \* the server's code
  limited,  \* 429 answers the loop has seen
  since,    \* time since the last request was answered or lost
  owed,     \* the pause the next request is to keep from it
  named,    \* the Retry-After of the last answer, a 429's; 0 is none
  pollCtx   \* the caller's context has ended

pollVars ==
  <<flow, asked, poll, interval, left, resent, result, code, limited, since, owed, named, pollCtx>>

NoResult == [err |-> "none", key |-> FALSE]
MaxOf(m, n) == IF m > n THEN m ELSE n

PollInit ==
  /\ flow \in {"cli", "pool", "cloud"} /\ asked \in Intervals
  /\ poll = "idle" /\ interval = 0 /\ left = 0 /\ resent = 0 /\ result = NoResult
  /\ code = "pending" /\ limited = 0 /\ since = 0 /\ owed = 0 /\ named = 0 /\ pollCtx = FALSE

CliInterval == IF asked = 0 THEN DefaultWait ELSE asked

\* Mutant: no floor.
LinkWaitBare == interval

\* poolLinkWait
LinkWait == MaxOf(interval, Floor)

Sleep(n) == poll' = "waiting" /\ left' = n

\* waitRetry: the engine's wait is the answer's Retry-After, up to its own
\* maximum, or its jittered backoff; then it sends the same poll again.
MinOf(m, n) == IF m < n THEN m ELSE n
ResendWaits(retryAfter) ==
  IF retryAfter > 0 THEN {MinOf(retryAfter, DelayMax)} ELSE RestDelays(resent)

Resend(retryAfter) ==
  /\ resent < Resends /\ resent' = resent + 1
  /\ poll' = "resending" /\ left' \in ResendWaits(retryAfter)
  /\ owed' = IF retryAfter > 0 THEN MinOf(retryAfter, DelayMax) ELSE DelayMin

Return(err, key) == poll' = "returned" /\ left' = 0 /\ result' = [err |-> err, key |-> key]

\* The CLI loop sleeps first, the others poll first.
Start ==
  /\ poll = "idle"
  /\ IF flow = "cli"
     THEN /\ interval' = CliInterval /\ Sleep(interval')
          /\ owed' = IF asked = 0 THEN DefaultWait ELSE asked
     ELSE interval' = asked /\ poll' = "asking" /\ UNCHANGED <<left, owed>>
  /\ UNCHANGED <<flow, asked, resent, result, code, limited, since, named, pollCtx>>

\* sleepCtx, poolLinkWait and waitRetry all select on the context.
SleepCancelled ==
  /\ poll \in {"waiting", "resending"} /\ pollCtx
  /\ Return("cancelled", FALSE)
  /\ UNCHANGED <<flow, asked, interval, resent, code, limited, since, owed, named, pollCtx>>

\* The loop's poll, and the engine's next attempt at the one it has.
Ask ==
  /\ poll \in {"waiting", "resending"} /\ left = 0
  /\ poll' = "asking" /\ resent' = IF poll = "waiting" THEN 0 ELSE resent
  /\ UNCHANGED <<flow, asked, interval, left, result, code, limited, since, owed, named, pollCtx>>

-----------------------------------------------------------------------------
(* The server's answer, external, and what the loop makes of it            *)

\* An approved code's key or token is handed out once; a link stays.
Claimed(c) == IF c = "approved" /\ flow # "cloud" THEN "spent" ELSE c

\* Not decided: again after the interval.
StillPending ==
  /\ poll = "asking" /\ code = "pending"
  /\ Sleep(IF flow = "cli" THEN interval ELSE LinkWait)
  /\ since' = 0 /\ named' = 0
  /\ owed' = IF flow = "cli" THEN (IF asked = 0 THEN DefaultWait ELSE asked) + limited * SlowDown
             ELSE MaxOf(asked, Floor)
  /\ UNCHANGED <<flow, asked, interval, resent, result, code, limited, pollCtx>>

Approved ==
  /\ poll = "asking" /\ code = "approved"
  /\ Return("nil", TRUE) /\ code' = Claimed(code)
  /\ UNCHANGED <<flow, asked, interval, resent, limited, since, owed, named, pollCtx>>

\* Denied, unknown, or collected already: an error, but for the CLI's code
\* that was claimed, whose poll is returned as it is.
Refused ==
  /\ poll = "asking" /\ code \in {"denied", "expired", "spent"}
  /\ IF flow = "cli" /\ code = "spent" THEN Return("nil", FALSE) ELSE Return(code, FALSE)
  /\ UNCHANGED <<flow, asked, interval, resent, code, limited, since, owed, named, pollCtx>>

\* A 429, whose Retry-After may be in the header or, where only the loop looks,
\* in the body.  One that outlives the engine's retries slows the CLI loop,
\* which waits what it asks and is slower from then on; the others return it.
Limited ==
  /\ poll = "asking"
  /\ \E after \in Asks : \E header \in {0, after} :
       /\ named' = header
       /\ \/ Resend(header) /\ UNCHANGED <<interval, limited, result>>
          \/ /\ resent = Resends /\ limited < MaxLimited /\ limited' = limited + 1
             /\ IF flow = "cli"
                THEN /\ interval' = interval + SlowDown
                     /\ owed' = IF after > 0 THEN after ELSE SlowDown
                     /\ Sleep(IF after > 0 THEN after ELSE SlowDown)
                     /\ UNCHANGED result
                ELSE Return("limited", FALSE) /\ UNCHANGED <<interval, owed>>
             /\ UNCHANGED resent
  /\ since' = 0
  /\ UNCHANGED <<flow, asked, code, pollCtx>>

\* The poll may have been carried out, and its answer is lost, says 5xx or cannot
\* be read: the engine waits and sends it again while it may (not for a body
\* cut short), or the loop returns the error.
AnswerLost ==
  /\ poll = "asking"
  /\ code' \in {code, Claimed(code)}
  /\ \/ \E header \in Asks : Resend(header) /\ UNCHANGED result
     \/ Return("lost", FALSE) /\ UNCHANGED <<resent, owed>>
  /\ since' = 0 /\ named' = 0
  /\ UNCHANGED <<flow, asked, interval, limited, pollCtx>>

PollCancelled ==
  /\ poll = "asking" /\ pollCtx
  /\ Return("cancelled", FALSE) /\ code' \in {code, Claimed(code)}
  /\ UNCHANGED <<flow, asked, interval, resent, limited, since, owed, named, pollCtx>>

-----------------------------------------------------------------------------
Decide ==
  /\ poll # "idle" /\ code = "pending" /\ code' \in {"approved", "denied", "expired"}
  /\ UNCHANGED <<flow, asked, poll, interval, left, resent, result, limited, since, owed, named, pollCtx>>

PollCtxEnds ==
  /\ poll \notin {"idle", "returned"} /\ ~ pollCtx /\ pollCtx' = TRUE
  /\ UNCHANGED <<flow, asked, poll, interval, left, resent, result, code, limited, since, owed, named>>

PollTick ==
  /\ poll \in {"waiting", "resending"} /\ left > 0
  /\ left' = left - 1 /\ since' = since + 1
  /\ UNCHANGED <<flow, asked, poll, interval, resent, result, code, limited, owed, named, pollCtx>>

PollStep ==
  \/ SleepCancelled \/ Ask \/ PollTick
  \/ StillPending \/ Approved \/ Refused \/ Limited \/ AnswerLost \/ PollCancelled

PollNext == Start \/ PollStep \/ Decide \/ PollCtxEnds

\* Time passes, the HTTP client's timeout ends a poll without an answer, and a
\* context that is done is not passed over for ever by sleep and poll alike.
PollFairness == WF_pollVars(PollStep) /\ SF_pollVars(SleepCancelled \/ PollCancelled)

-----------------------------------------------------------------------------
Requested == poll \in {"waiting", "resending"} /\ poll' = "asking"

\* Every request leaves the pause the last answer asked for.  The loop's: once a
\* second for the links, the handshake's interval (or the default) and five
\* seconds more for every 429 it has seen for the CLI, and after a 429 what it
\* named.  The engine's: its least backoff, or the Retry-After up to its maximum.
\* What the comments promise of all polls is more, and does not hold: see below.
PollsPaced == [][Requested => since >= owed]_pollVars

\* poollink.go:301-304: the floor is "the shortest gap the poll helpers will
\* ever leave between two polls".  Refuted by Resend after an answer was lost.
NeverBelowFloor == [][Requested /\ flow # "cli" => since >= Floor]_pollVars

\* auth_service.go:690-691: asked to slow down with a 429, WaitForCLIAuth
\* "waits the Retry-After it was given".  Refuted by Resend, which caps it.
RetryAfterKept == [][Requested /\ flow = "cli" => since >= named]_pollVars

\* A wait ends once its context has, and once the code is decided.
WaitEnds ==
  (poll \notin {"idle", "returned"} /\ (pollCtx \/ code # "pending")) ~> poll = "returned"

\* WaitForCLIAuth: on approval it returns the poll carrying the key.
KeyOnApproval == flow = "cli" /\ result.err = "nil" => result.key

=============================================================================
