--------------------------- MODULE GatewayPacing ---------------------------
(***************************************************************************)
(* The clock of the gateway client (gateway/gateway.go): how long manage   *)
(* waits between connections, how long a rate-limited join waits, and how  *)
(* the heartbeat notices a peer that has fallen silent.  GatewaySession    *)
(* has the same loop with every interleaving and no time; here each step   *)
(* of a connection is one action and time is counted in ticks.             *)
(*                                                                         *)
(* Timers count down; a timer that has run out fires before the next tick, *)
(* so a goroutine's own delay is taken to be less than a tick.  How long a *)
(* dial or a join takes, when a connection ends and when the peer falls    *)
(* silent are up to the environment.                                       *)
(***************************************************************************)
EXTENDS Backoff, Sequences, FiniteSetsExt

CONSTANTS MinInterval,   \* handshakeMinInterval
          Cooldown,      \* handshakeCooldown
          Stable,        \* stableSession
          MaxRejoin,     \* maxJoinRetryDelay
          Hints,         \* RetryAfter values a refused join may quote (0: none)
          HbInterval,    \* heartbeatInterval(ready)
          BudgetWindow   \* the server's fixed window for handshakes

ASSUME PacingAssumption ==
  /\ {MinInterval, Cooldown, Stable, MaxRejoin, HbInterval, BudgetWindow} \subseteq Nat \ {0}
  /\ Hints \subseteq 0 .. 2 ^ (Width - 1) - 1   \* each is a time.Duration

VARIABLES
  phase,      \* where manage is: before a dial, in one of its stages, asleep
  attempt,    \* the backoff's exponent; it stays at Width, where shifts are 0
  wait,       \* what is left of the sleep, or of a rate-limited join's delay
  sinceDial,  \* age of lastDial, or Never; it stays at the largest that matters
  joined,     \* runOnce's joined
  everJoined, \* c.everJoined
  beat,       \* heartbeatLoop: off, its timer or its watchdog, and what is left
  pong,       \* a token in the pong channel
  silent,     \* the peer sends nothing any more
  quiet,      \* for how long it has been silent
  idle,       \* time since the last connection ended
  owed,       \* the wait its refusal asked for
  streak,     \* connections ended in a row, none of them stable
  dials       \* ages of the dials within the budget window, newest last

manageVars == <<phase, attempt, wait, sinceDial, joined, everJoined>>
beatVars   == <<beat, pong, silent, quiet>>
ghostVars  == <<idle, owed, streak, dials>>
vars == <<manageVars, beatVars, ghostVars>>

Never == -1
Horizon == Max({MinInterval, Stable})
LongestWait == Max({MinInterval, Cooldown, MaxRejoin, DelayMax} \cup Hints)
Phases == {"gap", "dial", "join", "rejoin", "live", "sleep", "stopped"}
Off == [at |-> "off", left |-> 0]

TypeOK ==
  /\ phase \in Phases
  /\ attempt \in 0 .. Width /\ streak \in 0 .. Width
  /\ wait \in 0 .. LongestWait /\ owed \in 0 .. LongestWait /\ idle \in 0 .. LongestWait
  /\ phase = "rejoin" => wait <= MaxRejoin
  /\ sinceDial \in {Never} \cup 0 .. Horizon
  /\ {joined, everJoined, pong, silent} \subseteq BOOLEAN
  /\ beat \in {Off} \cup [at : {"timer", "watch"}, left : 0 .. HbInterval]
  /\ quiet \in 0 .. 3 * HbInterval + 1
  /\ \A i \in DOMAIN dials : dials[i] \in 0 .. BudgetWindow - 1

Init ==
  /\ phase = "gap" /\ attempt = 0 /\ wait = 0 /\ sinceDial = Never
  /\ joined = FALSE /\ everJoined = FALSE
  /\ beat = Off /\ pong = FALSE /\ silent = FALSE /\ quiet = 0
  /\ idle = 0 /\ owed = 0 /\ streak = 0 /\ dials = <<>>

Connected == phase \in {"dial", "join", "rejoin", "live"}

-----------------------------------------------------------------------------
(* manage                                                                  *)

\* lastDial = time.Now(); the dial's handshake counts against the budget.
StartDial ==
  /\ phase = "gap" /\ wait = 0
  /\ phase' = "dial" /\ sinceDial' = 0 /\ joined' = FALSE
  /\ dials' = Append(dials, 0)
  /\ UNCHANGED <<attempt, wait, everJoined, beatVars, idle, owed, streak>>

Dialed ==
  /\ phase = "dial"
  /\ phase' = "join"
  /\ UNCHANGED <<attempt, wait, sinceDial, joined, everJoined, beatVars, ghostVars>>

\* Mutant: the wait is the server's alone.
RejoinDelayUncapped(hint) == IF hint <= 0 THEN 1 ELSE hint

\* handleRefusal: a rate-limited join is sent again on the same connection
\* after the wait it quotes, at least a second and at most maxJoinRetryDelay.
RejoinDelay(hint) ==
  IF hint <= 0 THEN 1 ELSE IF hint > MaxRejoin THEN MaxRejoin ELSE hint

JoinLimited ==
  /\ phase = "join"
  /\ \E hint \in Hints \cup {0} : wait' = RejoinDelay(hint)
  /\ phase' = "rejoin"
  /\ UNCHANGED <<attempt, sinceDial, joined, everJoined, beatVars, ghostVars>>

Rejoin ==
  /\ phase = "rejoin" /\ wait = 0
  /\ phase' = "join"
  /\ UNCHANGED <<attempt, wait, sinceDial, joined, everJoined, beatVars, ghostVars>>

\* The workspace channel is open: the heartbeat starts, its first beat
\* jittered over one interval.
Joined ==
  /\ phase = "join"
  /\ phase' = "live" /\ joined' = TRUE /\ everJoined' = TRUE
  /\ \E first \in 0 .. HbInterval : beat' = [at |-> "timer", left |-> first]
  /\ pong' = FALSE
  /\ UNCHANGED <<attempt, wait, sinceDial, silent, quiet, ghostVars>>

\* A connection that joined and lasted restarts the backoff.
Recovered == joined /\ sinceDial >= Stable

\* The longer of the backoff and what classify asks for.
Pause(delay, cooldown) == Max({delay, cooldown})

\* runOnce returned an error that classify does not find fatal.
EndedRetry(cooldown) ==
  LET n == IF Recovered THEN 0 ELSE attempt
  IN  /\ Connected
      /\ \E delay \in GatewayDelays(n) : wait' = Pause(delay, cooldown)
      /\ attempt' = IF n < Width THEN n + 1 ELSE n
      /\ phase' = "sleep"
      /\ beat' = Off /\ pong' = FALSE /\ silent' = FALSE /\ quiet' = 0
      /\ idle' = 0 /\ owed' = cooldown
      /\ streak' = IF joined /\ sinceDial >= Stable THEN 1
                   ELSE IF streak < Width THEN streak + 1 ELSE streak
      /\ UNCHANGED <<sinceDial, joined, everJoined, dials>>

Stops ==
  /\ phase' = "stopped" /\ wait' = 0
  /\ beat' = Off /\ pong' = FALSE /\ silent' = FALSE /\ quiet' = 0
  /\ UNCHANGED <<attempt, sinceDial, joined, everJoined, ghostVars>>

\* The connection failed or dropped: no wait but the backoff.
ConnectionLost == EndedRetry(0)

\* A 403 to the upgrade: fatal, unless the credential has worked before.
UpgradeForbidden ==
  /\ phase = "dial"
  /\ \/ everJoined /\ EndedRetry(Cooldown)
     \/ ~ everJoined /\ Stops

\* The workspace join was refused for good, or with a wait worth honoring.
JoinRefused ==
  /\ phase = "join"
  /\ \/ \E hint \in Hints \cup {0} : EndedRetry(hint)
     \/ Stops

\* A 401, or the session's context ends.
GivenUp == (Connected \/ phase \in {"sleep", "gap"}) /\ Stops

\* Mutant: a wait that ended leaves at once for the next dial.
GapNone == 0

\* What is left of the shortest interval between two dials.
Gap == IF sinceDial = Never THEN 0 ELSE Max({0, MinInterval - sinceDial})

Wake ==
  /\ phase = "sleep" /\ wait = 0
  /\ phase' = "gap" /\ wait' = Gap
  /\ UNCHANGED <<attempt, sinceDial, joined, everJoined, beatVars, ghostVars>>

-----------------------------------------------------------------------------
(* heartbeatLoop                                                           *)

BeatSent ==
  /\ beat.at = "timer" /\ beat.left = 0
  /\ beat' = [at |-> "watch", left |-> HbInterval]
  /\ UNCHANGED <<pong, silent, quiet, manageVars, ghostVars>>

\* A frame on the heartbeat topic: the channel holds one token.
PongArrives ==
  /\ phase = "live" /\ ~ silent
  /\ pong' = TRUE
  /\ UNCHANGED <<beat, silent, quiet, manageVars, ghostVars>>

\* Mutant: the answer is seen but not taken from the channel.
BeatAnsweredForever ==
  /\ beat.at = "watch" /\ pong
  /\ beat' = [at |-> "timer", left |-> HbInterval]
  /\ UNCHANGED <<pong, silent, quiet, manageVars, ghostVars>>

BeatAnswered ==
  /\ beat.at = "watch" /\ pong
  /\ pong' = FALSE
  /\ beat' = [at |-> "timer", left |-> HbInterval]
  /\ UNCHANGED <<silent, quiet, manageVars, ghostVars>>

\* The watchdog closes the connection and the read loop ends with it.
BeatMissed ==
  /\ beat.at = "watch" /\ beat.left = 0
  /\ ConnectionLost

\* The peer stops delivering without closing: a half-open connection.
FallsSilent ==
  /\ phase = "live" /\ ~ silent
  /\ silent' = TRUE
  /\ UNCHANGED <<beat, pong, quiet, manageVars, ghostVars>>

-----------------------------------------------------------------------------
Down(n) == IF n > 0 THEN n - 1 ELSE 0
UpTo(n, top) == IF n < top THEN n + 1 ELSE n

TimerDue ==
  \/ wait = 0 /\ phase \in {"gap", "rejoin", "sleep"}
  \/ beat.at # "off" /\ beat.left = 0
  \/ beat.at = "watch" /\ pong

Tick ==
  /\ phase # "stopped" /\ ~ TimerDue
  /\ wait' = Down(wait)
  /\ sinceDial' = IF sinceDial = Never THEN Never ELSE UpTo(sinceDial, Horizon)
  /\ beat' = IF beat = Off THEN Off ELSE [beat EXCEPT !.left = Down(@)]
  /\ quiet' = IF silent THEN UpTo(quiet, 3 * HbInterval + 1) ELSE 0
  /\ idle' = IF phase \in {"sleep", "gap"} THEN UpTo(idle, LongestWait) ELSE idle
  /\ LET gone == Cardinality({i \in DOMAIN dials : dials[i] = BudgetWindow - 1})
     IN  dials' = [i \in 1 .. Len(dials) - gone |-> dials[gone + i] + 1]
  /\ UNCHANGED <<phase, attempt, joined, everJoined, pong, silent, owed, streak>>

Stopped == phase = "stopped" /\ UNCHANGED vars

Next ==
  \/ StartDial \/ Dialed \/ JoinLimited \/ Rejoin \/ Joined
  \/ ConnectionLost \/ UpgradeForbidden \/ JoinRefused \/ GivenUp \/ Wake
  \/ BeatSent \/ PongArrives \/ BeatAnswered \/ BeatMissed \/ FallsSilent
  \/ Tick \/ Stopped

Spec == Init /\ [][Next]_vars

-----------------------------------------------------------------------------
(* What the pacing promises.                                               *)

\* However short the configured backoff, no window holds more handshakes
\* than one per MinInterval: the server's budget is never overrun.
WithinBudget == Len(dials) * MinInterval <= BudgetWindow + MinInterval - 1

\* Doubling without a machine word, and the half of it that is not jitter.
Doubled(n) == IF DelayMin * 2 ^ n > DelayMax THEN DelayMax ELSE DelayMin * 2 ^ n
AtLeast(n) == Max({1, Doubled(n) \div 2})

\* A dial never comes too soon: a refusal that asked for a wait, or that may
\* have been the handshake budget, is waited out, and after k connections in
\* a row that did not last, joined or not, the k-th delay's lower half passes
\* first, for every k, past the point where the shift overflows.
BacksOff ==
  phase = "dial" /\ sinceDial = 0 =>
    /\ idle >= owed
    /\ streak > 0 => idle >= AtLeast(streak - 1)

\* A peer that falls silent after the join is noticed within three intervals,
\* even if a stale answer is left in the channel.
SilenceNoticed == phase = "live" => quiet <= 3 * HbInterval

=============================================================================
