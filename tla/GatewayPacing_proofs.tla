------------------------- MODULE GatewayPacing_proofs -------------------------
(***************************************************************************)
(* Proofs about GatewayPacing, for every interval, hint and delay: the     *)
(* heartbeat notices silence, the dials keep to the server's budget, and   *)
(* no dial comes before the backoff and the refusal's wait are over.       *)
(***************************************************************************)
EXTENDS GatewayPacing, FiniteSetTheorems, SequenceTheorems, NatFacts, TLAPS

\* How long the heartbeat goes on when the peer sends nothing more: a token
\* left in the channel answers one beat.
Lasts ==
  IF beat.at = "timer" THEN beat.left + HbInterval + (IF pong THEN HbInterval ELSE 0)
  ELSE IF pong THEN 2 * HbInterval ELSE beat.left

\* While the connection is live the time since the peer fell silent and the
\* time the heartbeat has left come to three intervals at most.
BeatInv ==
  /\ quiet \in Nat /\ pong \in BOOLEAN /\ silent \in BOOLEAN
  /\ beat = Off \/ beat \in [at : {"timer", "watch"}, left : 0 .. HbInterval]
  /\ phase = "live" <=> beat # Off
  /\ ~ silent => quiet = 0
  /\ silent => phase = "live"
  /\ phase = "live" => quiet + Lasts <= 3 * HbInterval

\* The interval is a number of ticks.
LEMMA IntervalPositive == HbInterval \in Nat /\ HbInterval > 0
  BY PacingAssumption

\* No heartbeat runs at the start.
LEMMA BeatStart == Init => BeatInv
<1> SUFFICES ASSUME Init PROVE BeatInv
  OBVIOUS
<1>1. phase # "live" /\ beat = Off
  BY DEF Init
<1>2. pong \in BOOLEAN /\ silent \in BOOLEAN
  BY DEF Init
<1>3. quiet = 0 /\ quiet \in Nat /\ ~ silent
  BY DEF Init
<1> QED  BY <1>1, <1>2, <1>3 DEF BeatInv

\* The heartbeat ends with its connection.
LEMMA BeatEnds ==
  ASSUME BeatInv, phase' # "live", beat' = Off, pong' = FALSE, silent' = FALSE, quiet' = 0
  PROVE  BeatInv'
  BY DEF BeatInv

\* The steps of the loop while no connection is live.
LEMMA BeatStands ==
  ASSUME BeatInv, phase # "live", phase' # "live", UNCHANGED beatVars
  PROVE  BeatInv'
  BY DEF BeatInv, beatVars

\* Time passes, for the heartbeat too.
LEMMA BeatTicks ==
  ASSUME BeatInv, Tick
  PROVE  BeatInv'
<1>0. HbInterval \in Nat /\ HbInterval > 0
  BY IntervalPositive
<1>1. /\ UNCHANGED <<phase, pong, silent>>
      /\ beat' = IF beat = Off THEN Off ELSE [beat EXCEPT !.left = Down(@)]
      /\ quiet' = IF silent THEN UpTo(quiet, 3 * HbInterval + 1) ELSE 0
      /\ ~ (beat.at # "off" /\ beat.left = 0) /\ ~ (beat.at = "watch" /\ pong)
  BY DEF Tick, TimerDue
<1>2. CASE beat = Off
  BY <1>0, <1>1, <1>2 DEF BeatInv, Off, UpTo
<1>3. CASE beat # Off
  <2>1. /\ beat \in [at : {"timer", "watch"}, left : 0 .. HbInterval] /\ phase = "live"
        /\ quiet + Lasts <= 3 * HbInterval /\ quiet \in Nat
    BY <1>3 DEF BeatInv
  <2>2. beat.at \in {"timer", "watch"} /\ beat.left \in 1 .. HbInterval
    BY <1>0, <1>1, <2>1
  <2>3. beat' = [at |-> beat.at, left |-> beat.left - 1]
    BY <1>1, <1>3, <2>1, <2>2 DEF Down
  <2>4. /\ beat' \in [at : {"timer", "watch"}, left : 0 .. HbInterval]
        /\ beat'.at = beat.at /\ beat'.left = beat.left - 1 /\ beat' # Off
    BY <1>0, <2>2, <2>3 DEF Off
  <2>5. Lasts \in Nat /\ Lasts >= 1 /\ Lasts' = Lasts - 1
    BY <1>0, <1>1, <2>2, <2>4 DEF Lasts, BeatInv
  <2>6. quiet' \in Nat /\ quiet' <= quiet + 1 /\ (~ silent => quiet' = 0)
    BY <1>0, <1>1, <2>1 DEF UpTo
  <2>7. quiet' + Lasts' <= 3 * HbInterval
    <3> DEFINE L == Lasts
               M == Lasts'
               Q == quiet'
    <3>1. L \in Nat /\ M = L - 1 /\ Q \in Nat /\ Q <= quiet + 1 /\ quiet + L <= 3 * HbInterval
      BY <2>1, <2>5, <2>6
    <3> HIDE DEF L, M, Q
    <3>2. Q + M <= 3 * HbInterval
      BY <1>0, <2>1, <3>1
    <3> QED  BY <3>2 DEF L, M, Q
  <2> QED  BY <1>1, <2>1, <2>4, <2>6, <2>7 DEF BeatInv
<1> QED  BY <1>2, <1>3

\* Every step keeps the sum.
LEMMA BeatNext == BeatInv /\ [Next]_vars => BeatInv'
<1> SUFFICES ASSUME BeatInv, [Next]_vars PROVE BeatInv'
  OBVIOUS
<1>0. HbInterval \in Nat /\ HbInterval > 0
  BY IntervalPositive
<1>1. CASE StartDial \/ Dialed \/ JoinLimited \/ Rejoin \/ Wake
  BY <1>1, BeatStands DEF StartDial, Dialed, JoinLimited, Rejoin, Wake
<1>2. CASE Joined
  <2>1. /\ phase = "join" /\ phase' = "live" /\ pong' = FALSE /\ UNCHANGED <<silent, quiet>>
        /\ \E first \in 0 .. HbInterval : beat' = [at |-> "timer", left |-> first]
    BY <1>2 DEF Joined
  <2>2. PICK first \in 0 .. HbInterval : beat' = [at |-> "timer", left |-> first]
    BY <2>1
  <2>3. beat'.at = "timer" /\ beat'.left = first /\ beat' # Off
    BY <2>2 DEF Off
  <2>4. beat' \in [at : {"timer", "watch"}, left : 0 .. HbInterval]
    BY <2>2
  <2>5. quiet = 0 /\ quiet' = 0
    BY <2>1 DEF BeatInv
  <2>6. Lasts' = first + HbInterval
    BY <1>0, <2>1, <2>3 DEF Lasts
  <2>7. quiet' + Lasts' <= 3 * HbInterval
    BY <1>0, <2>5, <2>6
  <2> QED  BY <2>1, <2>3, <2>4, <2>5, <2>7 DEF BeatInv
<1>3. ASSUME NEW cooldown, EndedRetry(cooldown) PROVE BeatInv'
  BY <1>3, BeatEnds DEF EndedRetry
<1>4. CASE Stops
  BY <1>4, BeatEnds DEF Stops
<1>5. CASE ConnectionLost \/ UpgradeForbidden \/ JoinRefused \/ GivenUp \/ BeatMissed
  BY <1>3, <1>4, <1>5 DEF ConnectionLost, UpgradeForbidden, JoinRefused, GivenUp, BeatMissed
<1>6. CASE BeatSent
  <2>1. /\ beat.at = "timer" /\ beat.left = 0 /\ beat' = [at |-> "watch", left |-> HbInterval]
        /\ UNCHANGED <<pong, silent, quiet, phase>>
    BY <1>6 DEF BeatSent, manageVars
  <2>2. /\ beat'.at = "watch" /\ beat'.left = HbInterval /\ beat' # Off /\ beat # Off
        /\ beat' \in [at : {"timer", "watch"}, left : 0 .. HbInterval]
    BY <1>0, <2>1 DEF Off
  <2>3. Lasts' = Lasts
    BY <1>0, <2>1, <2>2 DEF Lasts, BeatInv
  <2> QED  BY <2>1, <2>2, <2>3 DEF BeatInv
<1>7. CASE BeatAnswered
  <2>1. /\ beat.at = "watch" /\ pong /\ pong' = FALSE /\ beat' = [at |-> "timer", left |-> HbInterval]
        /\ UNCHANGED <<silent, quiet, phase>>
    BY <1>7 DEF BeatAnswered, manageVars
  <2>2. /\ beat'.at = "timer" /\ beat'.left = HbInterval /\ beat' # Off /\ beat # Off
        /\ beat' \in [at : {"timer", "watch"}, left : 0 .. HbInterval]
    BY <1>0, <2>1 DEF Off
  <2>3. Lasts' = Lasts
    BY <1>0, <2>1, <2>2 DEF Lasts, BeatInv
  <2> QED  BY <2>1, <2>2, <2>3 DEF BeatInv
<1>8. CASE PongArrives
  <2>1. /\ phase = "live" /\ ~ silent /\ pong' = TRUE /\ UNCHANGED <<beat, silent, quiet, phase>>
    BY <1>8 DEF PongArrives, manageVars
  <2> QED  BY <1>0, <2>1 DEF BeatInv, Lasts, Off
<1>9. CASE FallsSilent
  <2>1. phase = "live" /\ silent' = TRUE /\ UNCHANGED <<beat, pong, quiet, phase>>
    BY <1>9 DEF FallsSilent, manageVars
  <2> QED  BY <2>1 DEF BeatInv, Lasts
<1>10. CASE Tick
  BY <1>10, BeatTicks
<1>11. CASE Stopped \/ UNCHANGED vars
  BY <1>11 DEF Stopped, vars, manageVars, beatVars, BeatInv, Lasts
<1> QED  BY <1>1, <1>2, <1>5, <1>6, <1>7, <1>8, <1>9, <1>10, <1>11 DEF Next

\* SilenceNoticed: a peer that falls silent is noticed within three intervals,
\* whatever the interval and however many pongs came before.
THEOREM SilenceIsNoticed == Spec => []SilenceNoticed
<1>1. BeatInv => SilenceNoticed
  <2> SUFFICES ASSUME BeatInv, phase = "live" PROVE quiet <= 3 * HbInterval
    BY DEF SilenceNoticed
  <2>1. /\ beat \in [at : {"timer", "watch"}, left : 0 .. HbInterval] /\ quiet \in Nat
        /\ quiet + Lasts <= 3 * HbInterval
    BY DEF BeatInv
  <2>2. Lasts \in Nat
    BY <2>1, IntervalPositive DEF Lasts
  <2> QED  BY <2>1, <2>2, IntervalPositive
<1> QED  BY <1>1, BeatStart, BeatNext, PTL DEF Spec

-----------------------------------------------------------------------------
(* The waits                                                               *)

\* The larger of two numbers.
LEMMA LargerOf ==
  ASSUME NEW a \in Int, NEW b \in Int
  PROVE  /\ Max({a, b}) = a \/ Max({a, b}) = b
         /\ Max({a, b}) >= a /\ Max({a, b}) >= b
<1>1. \E x \in {a, b} : \A y \in {a, b} : x >= y
  <2>1. a >= b \/ b >= a
    OBVIOUS
  <2> QED  BY <2>1
<1>2. Max({a, b}) \in {a, b} /\ \A y \in {a, b} : Max({a, b}) >= y
  BY <1>1 DEF Max
<1> QED  BY <1>2

\* The constants that are durations.
LEMMA Durations ==
  /\ MinInterval \in Nat /\ MinInterval > 0 /\ Cooldown \in Nat /\ Stable \in Nat
  /\ MaxRejoin \in Nat /\ MaxRejoin > 0 /\ HbInterval \in Nat
  /\ BudgetWindow \in Nat /\ BudgetWindow > 0
  /\ Width \in Nat /\ Width > 1 /\ DelayMin \in Nat /\ DelayMin > 0
  /\ DelayMax \in Nat /\ DelayMax > 0 /\ 2 ^ (Width - 1) \in Int
  /\ \A h \in Hints : h \in Nat /\ h < 2 ^ (Width - 1)
  BY PacingAssumption, BackoffAssumption

\* The longest wait is as long as any.
LEMMA Longest ==
  /\ LongestWait \in Nat
  /\ MinInterval <= LongestWait /\ Cooldown <= LongestWait
  /\ MaxRejoin <= LongestWait /\ DelayMax <= LongestWait
  /\ \A h \in Hints : h <= LongestWait
<1> DEFINE S == {MinInterval, Cooldown, MaxRejoin, DelayMax} \cup Hints
           b == MinInterval + Cooldown + MaxRejoin + DelayMax + 2 ^ (Width - 1)
<1>1. S \subseteq Nat /\ S # {}
  BY Durations
<1>2. b \in Int /\ \A x \in S : x <= b
  <2>1. 2 ^ (Width - 1) >= 0
    BY BackoffAssumption, Durations
  <2> QED  BY <2>1, Durations
<1> HIDE DEF b
<1>3. S \subseteq Int
  BY <1>1
<1>4. \E x \in S : \A y \in S : y <= x
  BY <1>1, <1>2, <1>3, BoundedMax
<1>5. \E x \in S : \A y \in S : x >= y
  BY <1>1, <1>4
<1>6. Max(S) \in S /\ \A y \in S : Max(S) >= y
  BY <1>5 DEF Max
<1>7. LongestWait = Max(S)
  BY DEF LongestWait
<1> HIDE DEF S
<1>8. Max(S) \in Nat
  BY <1>1, <1>6
<1>9. \A y \in S : y <= LongestWait
  BY <1>1, <1>6, <1>7, <1>8
<1> QED  BY <1>7, <1>8, <1>9 DEF S

\* The horizon lies beyond the shortest gap.
LEMMA HorizonFar == Horizon \in Nat /\ MinInterval <= Horizon /\ Stable <= Horizon
<1>1. MinInterval \in Int /\ Stable \in Int /\ MinInterval \in Nat /\ Stable \in Nat
  BY Durations
<1>2. /\ Horizon = MinInterval \/ Horizon = Stable
      /\ Horizon >= MinInterval /\ Horizon >= Stable
  BY <1>1, LargerOf DEF Horizon
<1> QED  BY <1>1, <1>2

\* A backoff's delay, wherever its shift wraps, is positive and within its
\* maximum.
LEMMA CappedWithin == ASSUME NEW n \in Nat PROVE Capped(n) \in 1 .. DelayMax
<1> DEFINE top == 2 ^ (Width - 1)
           power == 2 ^ n
<1>1. top \in Int /\ power \in Int /\ top > 0
  BY Durations, BackoffAssumption
<1>2. Shifted(DelayMin, n) =
        LET u == (DelayMin * power) % (2 * top)
        IN  IF n >= Width THEN 0 ELSE IF u < top THEN u ELSE u - 2 * top
  BY DEF Shifted
<1> HIDE DEF top, power
<1>3. DelayMin * power \in Int /\ 2 * top \in Nat /\ 2 * top > 0
  BY <1>1, Durations
<1>4. (DelayMin * power) % (2 * top) \in Int
  BY <1>3
<1>5. Shifted(DelayMin, n) \in Int
  BY <1>1, <1>2, <1>4
<1> QED  BY <1>5, Durations DEF Capped

\* So is the delay drawn from its upper half.
LEMMA DelaysWithin ==
  ASSUME NEW n \in Nat, NEW d \in GatewayDelays(n)
  PROVE  d \in 1 .. DelayMax /\ d >= Capped(n) \div 2
<1> DEFINE c == Capped(n)
<1>1. c \in Int /\ 1 <= c /\ c <= DelayMax /\ DelayMax \in Int
  BY CappedWithin, Durations
<1>2. d \in IF c \div 2 <= 0 THEN {c} ELSE c \div 2 .. c \div 2 + c \div 2
  BY DEF GatewayDelays
<1> HIDE DEF c
<1>3. c \div 2 \in Int /\ 2 * (c \div 2) <= c /\ c < 2 * (c \div 2) + 2
  BY <1>1
<1>4. d \in 1 .. DelayMax /\ d >= c \div 2
  BY <1>1, <1>2, <1>3
<1> QED  BY <1>4 DEF c

\* The floor of the k-th delay is a positive number within the maximum.
LEMMA FloorWithin == ASSUME NEW n \in Nat PROVE AtLeast(n) \in 1 .. DelayMax
<1> DEFINE c == Doubled(n)
<1>1. 2 ^ n \in Int
  OBVIOUS
<1>2. c \in Int /\ c <= DelayMax
  BY <1>1, Durations DEF Doubled
<1> HIDE DEF c
<1>3. c \div 2 \in Int /\ (c >= 0 => c \div 2 <= c) /\ (c < 0 => c \div 2 < 0)
  BY <1>2
<1>4. AtLeast(n) = Max({1, c \div 2})
  BY DEF AtLeast, c
<1>5. (AtLeast(n) = 1 \/ AtLeast(n) = c \div 2) /\ AtLeast(n) >= 1
  <2> DEFINE x == c \div 2
  <2>1. x \in Int /\ 1 \in Int /\ AtLeast(n) = Max({1, x})
    BY <1>3, <1>4
  <2> HIDE DEF x
  <2>2. (Max({1, x}) = 1 \/ Max({1, x}) = x) /\ Max({1, x}) >= 1
    BY <2>1, LargerOf
  <2> QED  BY <2>1, <2>2 DEF x
<1> QED  BY <1>2, <1>3, <1>5, Durations

\* The delay after k + 1 connections that did not last is no shorter than the
\* half of the doubled minimum, unless a shift wraps within the bounds.
LEMMA DelayFloor ==
  ASSUME NoWrapWithin, NEW n \in 0 .. Width, NEW d \in GatewayDelays(n)
  PROVE  d >= AtLeast(IF n < Width THEN n ELSE n - 1)
<1> DEFINE k == IF n < Width THEN n ELSE n - 1
<1>1. n \in Nat /\ k \in 0 .. Width - 1
  BY Durations
<1>2. d \in 1 .. DelayMax /\ d >= Capped(n) \div 2
  BY <1>1, DelaysWithin
<1>3. Doubled(k) \in Int /\ Doubled(k) <= DelayMax
  <2>1. 2 ^ k \in Int
    BY <1>1
  <2> HIDE DEF k
  <2> QED  BY <2>1, Durations DEF Doubled
<1>4. Capped(n) >= Doubled(k)
  <2>1. CASE Shifted(DelayMin, n) \in 1 .. DelayMax - 1
    <3>1. n < Width
      BY <2>1, <1>1, Durations DEF Shifted
    <3>2. Shifted(DelayMin, n) = DelayMin * 2 ^ n
      BY <1>1, <2>1, <3>1, Durations DEF NoWrapWithin
    <3>3. Capped(n) = DelayMin * 2 ^ n /\ DelayMin * 2 ^ n <= DelayMax
      BY <2>1, <3>2, Durations DEF Capped
    <3>4. k = n
      BY <3>1
    <3> QED  BY <2>1, <3>2, <3>3, <3>4, Durations DEF Doubled
  <2>2. CASE Shifted(DelayMin, n) \notin 1 .. DelayMax - 1
    <3>1. Capped(n) = DelayMax
      <4>1. Capped(n) \in 1 .. DelayMax
        BY <1>1, CappedWithin
      <4>2. Capped(n) = Shifted(DelayMin, n) \/ Capped(n) = DelayMax
        BY DEF Capped
      <4> QED  BY <2>2, <4>1, <4>2, Durations
    <3> QED  BY <1>3, <3>1
  <2> QED  BY <2>1, <2>2
<1> HIDE DEF k
<1>5. Capped(n) \div 2 >= Doubled(k) \div 2
  <2> DEFINE a == Capped(n)
             c == Doubled(k)
  <2>1. a \in Int /\ c \in Int /\ a >= c
    BY <1>1, <1>3, <1>4, CappedWithin, Durations
  <2> HIDE DEF a, c
  <2>2. a \div 2 >= c \div 2
    BY <2>1
  <2> QED  BY <2>2 DEF a, c
<1>6. d >= 1 /\ d >= Doubled(k) \div 2
  <2>1. Capped(n) \div 2 \in Int /\ Doubled(k) \div 2 \in Int
    BY <1>1, <1>3, CappedWithin, Durations
  <2> QED  BY <1>2, <1>5, <2>1
<1>7. d >= AtLeast(k)
  <2> DEFINE x == Doubled(k) \div 2
  <2>1. x \in Int /\ 1 \in Int /\ AtLeast(k) = Max({1, x}) /\ d >= 1 /\ d >= x
    BY <1>3, <1>6 DEF AtLeast
  <2> HIDE DEF x
  <2>2. Max({1, x}) = 1 \/ Max({1, x}) = x
    BY <2>1, LargerOf
  <2> QED  BY <2>1, <2>2
<1> QED  BY <1>7 DEF k

-----------------------------------------------------------------------------
(* The clock of the loop                                                   *)

\* The state of manage; what the backoff counts are the connections that did
\* not last.
LoopInv ==
  /\ phase \in Phases /\ attempt \in 0 .. Width /\ streak = attempt
  /\ wait \in 0 .. LongestWait /\ owed \in 0 .. LongestWait /\ idle \in 0 .. LongestWait
  /\ phase = "rejoin" => wait <= MaxRejoin
  /\ sinceDial \in {Never} \cup 0 .. Horizon
  /\ joined \in BOOLEAN /\ everJoined \in BOOLEAN

\* What a connection's end does to the loop: the wait covers the pause asked
\* for and a delay of the backoff.
LEMMA EndWaits ==
  ASSUME LoopInv, NEW cooldown \in 0 .. LongestWait, EndedRetry(cooldown)
  PROVE  /\ phase' = "sleep" /\ idle' = 0 /\ owed' = cooldown /\ Connected
         /\ UNCHANGED <<sinceDial, joined, everJoined, dials>>
         /\ wait' \in 0 .. LongestWait /\ wait' >= cooldown
         /\ attempt' \in 1 .. Width /\ streak' = attempt'
         /\ NoWrapWithin => wait' >= AtLeast(streak' - 1)
<1> DEFINE n == IF Recovered THEN 0 ELSE attempt
<1>0. Width \in Nat /\ Width > 1 /\ DelayMax \in Nat /\ LongestWait \in Nat /\ DelayMax <= LongestWait
  BY Durations, Longest
<1>1. PICK delay \in GatewayDelays(n) : wait' = Pause(delay, cooldown)
  BY DEF EndedRetry
<1>2. n \in 0 .. Width /\ n \in Nat
  BY <1>0 DEF LoopInv
<1>3. /\ attempt' = IF n < Width THEN n + 1 ELSE n
      /\ streak' = IF Recovered THEN 1 ELSE IF streak < Width THEN streak + 1 ELSE streak
      /\ phase' = "sleep" /\ idle' = 0 /\ owed' = cooldown /\ Connected
      /\ UNCHANGED <<sinceDial, joined, everJoined, dials>>
  BY DEF EndedRetry, Recovered
<1>4. attempt' \in 1 .. Width /\ streak' = attempt'
  BY <1>0, <1>2, <1>3 DEF LoopInv
<1> HIDE DEF n
<1>5. delay \in 1 .. DelayMax
  BY <1>2, DelaysWithin
<1>6. wait' \in {delay, cooldown} /\ wait' >= delay /\ wait' >= cooldown
  <2>1. delay \in Int /\ cooldown \in Int
    BY <1>5
  <2> QED  BY <1>1, <2>1, LargerOf DEF Pause
<1>7. wait' \in 0 .. LongestWait
  BY <1>0, <1>5, <1>6
<1>8. NoWrapWithin => delay >= AtLeast(IF n < Width THEN n ELSE n - 1)
  BY <1>2, DelayFloor
<1>9. (IF n < Width THEN n ELSE n - 1) = attempt' - 1
  BY <1>0, <1>2, <1>3
<1>10. NoWrapWithin => wait' >= AtLeast(streak' - 1)
  <2> DEFINE k == streak' - 1
             m == IF n < Width THEN n ELSE n - 1
  <2>0. k \in Nat /\ k = m
    <3>1. streak' = attempt' /\ attempt' \in 1 .. Width /\ m = attempt' - 1
      BY <1>4, <1>9
    <3> HIDE DEF m
    <3>2. k = m
      BY <3>1
    <3> DEFINE a == attempt'
    <3>3. a \in 1 .. Width /\ k = a - 1
      BY <3>1
    <3> HIDE DEF a, k
    <3>4. k \in Nat
      BY <1>0, <3>3
    <3> QED  BY <3>2, <3>4
  <2> HIDE DEF k
  <2>1. k \in Nat /\ (NoWrapWithin => delay >= AtLeast(k))
    BY <1>8, <2>0
  <2>2. AtLeast(k) \in Int
    BY <2>1, FloorWithin, Durations
  <2>3. NoWrapWithin => wait' >= AtLeast(k)
    BY <1>5, <1>6, <2>1, <2>2
  <2> QED  BY <2>3 DEF k
<1> QED  BY <1>3, <1>4, <1>6, <1>7, <1>10

\* The pauses a connection's end may ask for are waits.
LEMMA PausesAre ==
  /\ 0 \in 0 .. LongestWait /\ Cooldown \in 0 .. LongestWait
  /\ \A h \in Hints \cup {0} : h \in 0 .. LongestWait
  BY Longest, Durations

\* A connection ends and the loop goes on, or it stops for good.
EndsOrStops == (\E p \in 0 .. LongestWait : EndedRetry(p)) \/ Stops

\* Every way a connection ends is one of the two.
LEMMA EndsAre ==
  ConnectionLost \/ UpgradeForbidden \/ JoinRefused \/ GivenUp \/ BeatMissed => EndsOrStops
  BY PausesAre DEF ConnectionLost, UpgradeForbidden, JoinRefused, GivenUp, BeatMissed, EndsOrStops

\* What is left of the gap between two dials.
LEMMA GapIs ==
  ASSUME LoopInv
  PROVE  /\ Gap \in 0 .. LongestWait
         /\ sinceDial # Never => sinceDial + Gap >= MinInterval
<1>1. /\ MinInterval \in Nat /\ LongestWait \in Nat /\ MinInterval <= LongestWait
  BY Durations, Longest
<1>2. CASE sinceDial = Never
  BY <1>1, <1>2 DEF Gap
<1>3. CASE sinceDial # Never
  <2> DEFINE x == MinInterval - sinceDial
  <2>1. sinceDial \in Nat /\ x \in Int /\ Gap = Max({0, x}) /\ x <= MinInterval /\ 0 \in Int
    BY <1>1, <1>3, HorizonFar DEF LoopInv, Gap
  <2> HIDE DEF x
  <2>2. (Gap = 0 \/ Gap = x) /\ Gap >= 0 /\ Gap >= x
    BY <2>1, LargerOf
  <2> QED  BY <1>1, <2>1, <2>2 DEF x
<1> QED  BY <1>2, <1>3

\* How a tick moves a timer and an age.
LEMMA Clocks ==
  ASSUME NEW top \in Nat, NEW n \in 0 .. top
  PROVE  /\ Down(n) \in 0 .. top /\ Down(n) <= n /\ (n > 0 => Down(n) = n - 1)
         /\ UpTo(n, top) \in 0 .. top /\ UpTo(n, top) >= n /\ UpTo(n, top) <= n + 1
         /\ UpTo(n, top) = n + 1 \/ UpTo(n, top) = top
  BY DEF Down, UpTo

\* The loop's state keeps its type.
LEMMA LoopNext == LoopInv /\ [Next]_vars => LoopInv'
<1> SUFFICES ASSUME LoopInv, [Next]_vars PROVE LoopInv'
  OBVIOUS
<1>0. /\ LongestWait \in Nat /\ Horizon \in Nat /\ MaxRejoin \in Nat /\ MaxRejoin > 0
      /\ MaxRejoin <= LongestWait /\ Width \in Nat /\ Width > 1
  BY Longest, HorizonFar, Durations
<1>1. CASE StartDial
  <2>1. /\ phase' = "dial" /\ sinceDial' = 0 /\ joined' = FALSE
        /\ UNCHANGED <<attempt, wait, everJoined, idle, owed, streak>>
    BY <1>1 DEF StartDial
  <2>2. 0 \in 0 .. Horizon
    BY <1>0
  <2>3. sinceDial' \in {Never} \cup 0 .. Horizon
    BY <2>1, <2>2
  <2>4. joined' \in BOOLEAN /\ phase' \in Phases
    BY <2>1 DEF Phases
  <2> QED  BY <2>1, <2>3, <2>4 DEF LoopInv
<1>2. CASE Dialed \/ Rejoin
  <2>1. phase' = "join" /\ UNCHANGED <<attempt, wait, sinceDial, joined, everJoined, idle, owed, streak>>
    BY <1>2 DEF Dialed, Rejoin, ghostVars
  <2> QED  BY <2>1 DEF LoopInv, Phases
<1>3. CASE JoinLimited
  <2>1. PICK hint \in Hints \cup {0} : wait' = RejoinDelay(hint)
    BY <1>3 DEF JoinLimited
  <2>2. phase' = "rejoin" /\ UNCHANGED <<attempt, sinceDial, joined, everJoined, idle, owed, streak>>
    BY <1>3 DEF JoinLimited, ghostVars
  <2>3. hint \in Nat
    BY Durations
  <2>4. wait' \in 0 .. LongestWait /\ wait' <= MaxRejoin
    BY <1>0, <2>1, <2>3 DEF RejoinDelay
  <2> QED  BY <2>2, <2>4 DEF LoopInv, Phases
<1>4. CASE Joined
  <2>1. /\ phase' = "live" /\ joined' = TRUE /\ everJoined' = TRUE
        /\ UNCHANGED <<attempt, wait, sinceDial, idle, owed, streak>>
    BY <1>4 DEF Joined, ghostVars
  <2> QED  BY <2>1 DEF LoopInv, Phases
<1>5. CASE EndsOrStops
  <2>1. ASSUME NEW p \in 0 .. LongestWait, EndedRetry(p) PROVE LoopInv'
    <3>1. /\ phase' = "sleep" /\ idle' = 0 /\ owed' = p
          /\ UNCHANGED <<sinceDial, joined, everJoined>>
          /\ wait' \in 0 .. LongestWait /\ attempt' \in 1 .. Width /\ streak' = attempt'
      BY <2>1, EndWaits
    <3> QED  BY <1>0, <3>1 DEF LoopInv, Phases
  <2>2. CASE Stops
    <3>1. phase' = "stopped" /\ wait' = 0
          /\ UNCHANGED <<attempt, sinceDial, joined, everJoined, idle, owed, streak>>
      BY <2>2 DEF Stops, ghostVars
    <3> QED  BY <1>0, <3>1 DEF LoopInv, Phases
  <2> QED  BY <1>5, <2>1, <2>2 DEF EndsOrStops
<1>6. CASE Wake
  <2>1. phase' = "gap" /\ wait' = Gap
        /\ UNCHANGED <<attempt, sinceDial, joined, everJoined, idle, owed, streak>>
    BY <1>6 DEF Wake, ghostVars
  <2> QED  BY <2>1, GapIs DEF LoopInv, Phases
<1>7. CASE BeatSent \/ PongArrives \/ BeatAnswered \/ FallsSilent \/ Stopped \/ UNCHANGED vars
  <2>1. UNCHANGED <<manageVars, idle, owed, streak>>
    BY <1>7 DEF BeatSent, PongArrives, BeatAnswered, FallsSilent, Stopped, vars, ghostVars
  <2> QED  BY <2>1 DEF LoopInv, manageVars
<1>8. CASE Tick
  <2>1. /\ UNCHANGED <<phase, attempt, joined, everJoined, owed, streak>>
        /\ wait' = Down(wait)
        /\ sinceDial' = IF sinceDial = Never THEN Never ELSE UpTo(sinceDial, Horizon)
        /\ idle' \in {UpTo(idle, LongestWait), idle}
    BY <1>8 DEF Tick
  <2>2. wait' \in 0 .. LongestWait /\ wait' <= wait /\ wait' \in Int /\ wait \in Int
    BY <1>0, <2>1, Clocks DEF LoopInv
  <2>3. idle' \in 0 .. LongestWait
    BY <1>0, <2>1, Clocks DEF LoopInv
  <2>4. sinceDial' \in {Never} \cup 0 .. Horizon
    BY <1>0, <2>1, Clocks DEF LoopInv
  <2>5. phase' = "rejoin" => wait' <= MaxRejoin
    BY <1>0, <2>1, <2>2 DEF LoopInv
  <2> QED  BY <2>1, <2>2, <2>3, <2>4, <2>5 DEF LoopInv
<1> QED  BY <1>1, <1>2, <1>3, <1>4, <1>5, <1>6, <1>7, <1>8, EndsAre DEF Next

-----------------------------------------------------------------------------
(* The budget                                                              *)

\* The dials of the window are spaced by MinInterval at least, the last one is
\* as old as lastDial or older, and the gap lasts until the next may come.
DialInv ==
  /\ dials \in Seq(0 .. BudgetWindow - 1)
  /\ \A i, j \in DOMAIN dials : i <= j => dials[i] >= dials[j] + (j - i) * MinInterval
  /\ dials # <<>> => /\ sinceDial # Never /\ sinceDial <= dials[Len(dials)]
                     /\ phase = "gap" => dials[Len(dials)] + wait >= MinInterval

\* A step that is no dial and starts no gap changes nothing of this.
LEMMA DialStays ==
  ASSUME DialInv, UNCHANGED <<dials, sinceDial>>,
         phase' # "gap" \/ (phase' = phase /\ wait' = wait)
  PROVE  DialInv'
  BY DEF DialInv

\* Time passes: the oldest dial may leave the window.
LEMMA DialTicks ==
  ASSUME LoopInv, DialInv, Tick
  PROVE  DialInv'
<1> DEFINE n == Len(dials)
           G == {i \in DOMAIN dials : dials[i] = BudgetWindow - 1}
           g == Cardinality(G)
           M == MinInterval
<1>1. /\ M \in Nat /\ M > 0 /\ BudgetWindow \in Nat /\ BudgetWindow > 0
      /\ Horizon \in Nat /\ LongestWait \in Nat
  BY Durations, HorizonFar, Longest
<1>2. /\ n \in Nat /\ DOMAIN dials = 1 .. n
      /\ \A i \in 1 .. n : dials[i] \in 0 .. BudgetWindow - 1
  BY ElementOfSeq, LenProperties DEF DialInv
<1>3. /\ UNCHANGED phase /\ wait' = Down(wait)
      /\ dials' = [i \in 1 .. n - g |-> dials[g + i] + 1]
      /\ sinceDial' = IF sinceDial = Never THEN Never ELSE UpTo(sinceDial, Horizon)
      /\ (phase = "gap" => wait # 0)
  BY DEF Tick, TimerDue
<1>4. \A i, j \in 1 .. n : i <= j => dials[i] >= dials[j] + (j - i) * M
  BY <1>2 DEF DialInv
<1>5. \A i \in G : i = 1
  <2> SUFFICES ASSUME NEW i \in G, i # 1 PROVE FALSE
    OBVIOUS
  <2>1. i \in 1 .. n /\ 1 \in 1 .. n /\ dials[i] = BudgetWindow - 1
    BY <1>2
  <2>2. (i - 1) * M >= 1
    <3>1. i - 1 \in Nat /\ i - 1 >= 1
      BY <1>2, <2>1
    <3> QED  BY <1>1, <3>1
  <2>3. dials[1] >= dials[i] + (i - 1) * M
    BY <1>2, <1>4, <2>1
  <2>4. dials[1] \in 0 .. BudgetWindow - 1 /\ (i - 1) * M \in Int
    BY <1>1, <1>2, <2>1
  <2> QED  BY <1>1, <2>1, <2>2, <2>3, <2>4
<1>6. (G = {} /\ g = 0) \/ (G = {1} /\ g = 1 /\ n >= 1)
  <2>1. CASE G = {}
    BY <2>1, FS_EmptySet
  <2>2. CASE G # {}
    <3>1. G = {1}
      BY <1>5, <2>2
    <3>2. Cardinality({1}) = 1
      BY FS_Singleton
    <3>3. n >= 1
      BY <1>2, <3>1
    <3> QED  BY <3>1, <3>2, <3>3
  <2> QED  BY <2>1, <2>2
<1>7. g \in 0 .. 1 /\ n - g \in Nat
  BY <1>2, <1>6
<1>8. \A i \in 1 .. n : i \notin G => dials[i] # BudgetWindow - 1
  BY <1>2
<1>9. \A i \in 1 .. n - g : g + i \in 1 .. n /\ g + i \notin G
  BY <1>2, <1>6
<1> HIDE DEF n, G, g, M
<1>10. \A i \in 1 .. n - g : dials'[i] = dials[g + i] + 1 /\ dials'[i] \in 0 .. BudgetWindow - 1
  <2> SUFFICES ASSUME NEW i \in 1 .. n - g
               PROVE  dials'[i] = dials[g + i] + 1 /\ dials'[i] \in 0 .. BudgetWindow - 1
    OBVIOUS
  <2>1. dials'[i] = dials[g + i] + 1
    BY <1>3
  <2> DEFINE d == dials[g + i]
  <2>2. d \in 0 .. BudgetWindow - 1 /\ d # BudgetWindow - 1
    BY <1>2, <1>8, <1>9
  <2> HIDE DEF d
  <2>3. d + 1 \in 0 .. BudgetWindow - 1
    BY <1>1, <2>2
  <2> QED  BY <2>1, <2>3 DEF d
<1>11. dials' \in Seq(0 .. BudgetWindow - 1) /\ DOMAIN dials' = 1 .. n - g /\ Len(dials') = n - g
  <2> DEFINE f == [i \in 1 .. n - g |-> dials[g + i] + 1]
  <2>1. f \in [1 .. n - g -> 0 .. BudgetWindow - 1] /\ DOMAIN f = 1 .. n - g
    BY <1>3, <1>10
  <2>2. f = dials'
    BY <1>3
  <2> HIDE DEF f
  <2>3. f \in Seq(0 .. BudgetWindow - 1)
    BY <1>7, <2>1, SeqDef
  <2>4. Len(f) = n - g
    BY <1>7, <2>1, <2>3, LenProperties
  <2> QED  BY <2>1, <2>2, <2>3, <2>4
<1>12. ASSUME NEW i \in DOMAIN dials', NEW j \in DOMAIN dials', i <= j
       PROVE  dials'[i] >= dials'[j] + (j - i) * M
  <2>0. i \in 1 .. n - g /\ j \in 1 .. n - g
    BY <1>11
  <2>1. /\ i \in 1 .. n - g /\ j \in 1 .. n - g /\ g + i \in 1 .. n /\ g + j \in 1 .. n
        /\ i \in Int /\ j \in Int /\ g \in Int
    <3>1. i \in Int /\ j \in Int /\ g \in Int
      BY <1>7, <2>0
    <3> QED  BY <1>9, <2>0, <3>1
  <2>2. g + i <= g + j
    BY <1>12, <2>1
  <2>3. dials[g + i] >= dials[g + j] + ((g + j) - (g + i)) * M
    BY <1>4, <2>1, <2>2
  <2>4. (g + j) - (g + i) = j - i
    BY <2>1
  <2>5. dials'[i] = dials[g + i] + 1 /\ dials'[j] = dials[g + j] + 1
    BY <1>10, <2>1
  <2>6. dials[g + i] \in Int /\ dials[g + j] \in Int /\ (j - i) * M \in Int
    BY <1>1, <1>2, <2>1
  <2> QED  BY <2>3, <2>4, <2>5, <2>6
<1>13. ASSUME dials' # <<>>
       PROVE  /\ sinceDial' # Never /\ sinceDial' <= dials'[Len(dials')]
              /\ phase' = "gap" => dials'[Len(dials')] + wait' >= M
  <2>1. n - g >= 1 /\ n \in DOMAIN dials /\ dials # <<>>
    <3>1. n - g # 0
      BY <1>11, <1>13, EmptySeq
    <3>2. n - g >= 1 /\ n >= 1
      BY <1>2, <1>7, <3>1
    <3>3. n \in DOMAIN dials
      BY <1>2, <3>2
    <3> QED  BY <3>2, <3>3
  <2>2. dials'[Len(dials')] = dials[n] + 1 /\ dials[n] \in Nat
    <3>1. n - g \in 1 .. n - g /\ g + (n - g) = n /\ n \in 1 .. n
      BY <1>2, <1>7, <2>1
    <3>2. dials'[n - g] = dials[g + (n - g)] + 1
      BY <1>10, <3>1
    <3> QED  BY <1>1, <1>2, <1>11, <3>1, <3>2
  <2>3. sinceDial # Never /\ sinceDial <= dials[n] /\ (phase = "gap" => dials[n] + wait >= M)
    BY <2>1 DEF DialInv, n, M
  <2>4. sinceDial \in 0 .. Horizon /\ sinceDial' = UpTo(sinceDial, Horizon)
    BY <1>3, <2>3 DEF LoopInv
  <2>5. sinceDial' \in 0 .. Horizon /\ sinceDial' <= sinceDial + 1
    BY <1>1, <2>4, Clocks
  <2>6. sinceDial' # Never /\ sinceDial' <= dials[n] + 1
    BY <1>1, <2>2, <2>3, <2>4, <2>5 DEF Never
  <2>7. ASSUME phase' = "gap" PROVE dials[n] + 1 + wait' >= M
    <3>1. wait \in 0 .. LongestWait /\ wait # 0 /\ dials[n] + wait >= M
      BY <1>3, <2>3, <2>7 DEF LoopInv
    <3>2. wait' = wait - 1
      BY <1>1, <1>3, <3>1, Clocks
    <3> QED  BY <1>1, <2>2, <3>1, <3>2
  <2> QED  BY <2>2, <2>6, <2>7
<1>14. \A i, j \in DOMAIN dials' : i <= j => dials'[i] >= dials'[j] + (j - i) * M
  BY <1>12
<1> QED  BY <1>11, <1>13, <1>14 DEF DialInv, M

\* A dial joins those of the window.
LEMMA DialStarts ==
  ASSUME LoopInv, DialInv, StartDial
  PROVE  DialInv'
<1> DEFINE n == Len(dials)
           M == MinInterval
<1>1. M \in Nat /\ M > 0 /\ BudgetWindow \in Nat /\ BudgetWindow > 0
  BY Durations
<1>2. 0 \in 0 .. BudgetWindow - 1 /\ dials \in Seq(0 .. BudgetWindow - 1)
  BY <1>1 DEF DialInv
<1>3. phase = "gap" /\ wait = 0 /\ phase' = "dial" /\ sinceDial' = 0 /\ dials' = Append(dials, 0)
  BY DEF StartDial
<1>4. /\ dials' \in Seq(0 .. BudgetWindow - 1) /\ n \in Nat /\ DOMAIN dials = 1 .. n
      /\ DOMAIN dials' = 1 .. n + 1 /\ Len(dials') = n + 1 /\ dials'[n + 1] = 0
      /\ \A i \in 1 .. n : dials'[i] = dials[i] /\ dials[i] \in 0 .. BudgetWindow - 1
  <2>1. n \in Nat /\ DOMAIN dials = 1 .. n
    BY <1>2, LenProperties
  <2>2. dials' \in Seq(0 .. BudgetWindow - 1) /\ Len(dials') = n + 1
    BY <1>2, <1>3, AppendProperties
  <2>3. dials'[n + 1] = 0 /\ \A i \in 1 .. n : dials'[i] = dials[i]
    BY <1>2, <1>3, AppendProperties
  <2>4. DOMAIN dials' = 1 .. n + 1
    BY <2>2, LenProperties
  <2>5. \A i \in 1 .. n : dials[i] \in 0 .. BudgetWindow - 1
    BY <1>2, ElementOfSeq
  <2> QED  BY <2>1, <2>2, <2>3, <2>4, <2>5
<1>5. \A i, j \in 1 .. n : i <= j => dials[i] >= dials[j] + (j - i) * M
  BY <1>4 DEF DialInv
<1>6. n >= 1 => dials[n] >= M
  <2> SUFFICES ASSUME n >= 1 PROVE dials[n] >= M
    OBVIOUS
  <2>1. dials # <<>> /\ n \in 1 .. n
    BY <1>4
  <2>2. dials[n] + wait >= M
    BY <1>3, <2>1 DEF DialInv
  <2> QED  BY <1>1, <1>3, <1>4, <2>1, <2>2
<1> HIDE DEF n, M
<1>7. ASSUME NEW i \in 1 .. n + 1, NEW j \in 1 .. n + 1, i <= j
      PROVE  dials'[i] >= dials'[j] + (j - i) * M
  <2>1. CASE j <= n
    <3>1. i \in 1 .. n /\ j \in 1 .. n
      BY <1>4, <1>7, <2>1
    <3> QED  BY <1>4, <1>5, <1>7, <3>1
  <2>2. CASE j = n + 1 /\ i = n + 1
    <3>1. j - i = 0
      BY <1>4, <2>2
    <3> QED  BY <1>1, <1>4, <2>2, <3>1
  <2>3. CASE j = n + 1 /\ i <= n
    <3>1. i \in 1 .. n /\ n \in 1 .. n /\ n >= 1 /\ i \in Int /\ n \in Int
      BY <1>4, <2>3
    <3>2. dials[i] >= dials[n] + (n - i) * M /\ dials[n] >= M
      BY <1>5, <1>6, <3>1
    <3>3. (n + 1 - i) * M = (n - i) * M + M /\ (n - i) * M \in Int
      BY <1>1, <3>1
    <3>4. dials[i] \in Int /\ dials[n] \in Int /\ dials'[i] = dials[i] /\ dials'[j] = 0
      BY <1>4, <2>3, <3>1
    <3> DEFINE p == (n - i) * M
               q == (j - i) * M
               a == dials[i]
               b == dials[n]
    <3>5. q = p + M
      <4> DEFINE m == n + 1
      <4>1. j = m
        BY <2>3
      <4>2. (m - i) * M = p + M
        BY <1>1, <3>1, <3>3
      <4> HIDE DEF m, p
      <4> QED  BY <4>1, <4>2
    <3>6. p \in Int /\ a \in Int /\ b \in Int /\ a >= b + p /\ b >= M
      BY <3>2, <3>3, <3>4
    <3> HIDE DEF p, q, a, b
    <3>7. a >= 0 + q
      BY <1>1, <3>5, <3>6
    <3> QED  BY <3>4, <3>7 DEF a, q
  <2> QED  BY <1>4, <2>1, <2>2, <2>3
<1> QED  BY <1>3, <1>4, <1>7 DEF DialInv, M, Never

\* The dials stay within the budget.
LEMMA DialNext == LoopInv /\ DialInv /\ [Next]_vars => DialInv'
<1> SUFFICES ASSUME LoopInv, DialInv, [Next]_vars PROVE DialInv'
  OBVIOUS
<1>1. CASE StartDial
  BY <1>1, DialStarts
<1>2. CASE Dialed \/ JoinLimited \/ Rejoin \/ Joined
  BY <1>2, DialStays DEF Dialed, JoinLimited, Rejoin, Joined, ghostVars
<1>3. CASE EndsOrStops
  <2>1. UNCHANGED <<dials, sinceDial>> /\ phase' # "gap"
    BY <1>3, EndWaits DEF EndsOrStops, Stops, ghostVars
  <2> QED  BY <2>1, DialStays
<1>4. CASE Wake
  <2>1. UNCHANGED <<dials, sinceDial>> /\ wait' = Gap
    BY <1>4 DEF Wake, ghostVars
  <2>2. ASSUME dials # <<>> PROVE dials[Len(dials)] + Gap >= MinInterval
    <3>1. sinceDial # Never /\ sinceDial <= dials[Len(dials)]
      BY <2>2 DEF DialInv
    <3>2. sinceDial + Gap >= MinInterval /\ Gap \in Int /\ sinceDial \in Int
      BY <3>1, GapIs, Longest, HorizonFar DEF LoopInv
    <3>3. dials[Len(dials)] \in Int
      <4>1. Len(dials) \in DOMAIN dials /\ dials \in Seq(0 .. BudgetWindow - 1)
        BY <2>2, LenProperties, EmptySeq DEF DialInv
      <4> QED  BY <4>1, ElementOfSeq, Durations, LenProperties
    <3> QED  BY <3>1, <3>2, <3>3, Durations
  <2> QED  BY <2>1, <2>2 DEF DialInv
<1>5. CASE BeatSent \/ PongArrives \/ BeatAnswered \/ FallsSilent \/ Stopped \/ UNCHANGED vars
  <2>1. UNCHANGED <<dials, sinceDial, phase, wait>>
    BY <1>5 DEF BeatSent, PongArrives, BeatAnswered, FallsSilent, Stopped, vars, ghostVars, manageVars
  <2> QED  BY <2>1, DialStays
<1>6. CASE Tick
  BY <1>6, DialTicks
<1> QED  BY <1>1, <1>2, <1>3, <1>4, <1>5, <1>6, EndsAre DEF Next

\* The first state of the loop.
LEMMA LoopStart == Init => LoopInv /\ DialInv
<1> SUFFICES ASSUME Init PROVE LoopInv /\ DialInv
  OBVIOUS
<1>1. 0 \in 0 .. LongestWait /\ 0 \in 0 .. Width
  BY Longest, Durations
<1>2. phase = "gap" /\ attempt = 0 /\ wait = 0 /\ sinceDial = Never /\ dials = <<>>
  BY DEF Init
<1>3. /\ joined = FALSE /\ everJoined = FALSE /\ idle = 0 /\ owed = 0 /\ streak = 0
  BY DEF Init
<1>4. LoopInv
  BY <1>1, <1>2, <1>3 DEF LoopInv, Phases
<1>5. <<>> \in Seq(0 .. BudgetWindow - 1) /\ DOMAIN <<>> = {}
  OBVIOUS
<1>6. DialInv
  BY <1>2, <1>5 DEF DialInv
<1> QED  BY <1>4, <1>6

\* TypeOK: the timers and ages of the loop and of the heartbeat stay within
\* their bounds, whatever the delays, hints and intervals.
THEOREM PacingTypes == Spec => []TypeOK
<1>1. LoopInv /\ DialInv /\ BeatInv => TypeOK
  <2> SUFFICES ASSUME LoopInv, DialInv, BeatInv PROVE TypeOK
    OBVIOUS
  <2>0. HbInterval \in Nat /\ HbInterval > 0
    BY IntervalPositive
  <2>1. /\ phase \in Phases
        /\ attempt \in 0 .. Width /\ streak \in 0 .. Width
        /\ wait \in 0 .. LongestWait /\ owed \in 0 .. LongestWait /\ idle \in 0 .. LongestWait
        /\ phase = "rejoin" => wait <= MaxRejoin
        /\ sinceDial \in {Never} \cup 0 .. Horizon
        /\ joined \in BOOLEAN /\ everJoined \in BOOLEAN
    BY DEF LoopInv
  <2>2. /\ pong \in BOOLEAN /\ silent \in BOOLEAN
        /\ beat \in {Off} \cup [at : {"timer", "watch"}, left : 0 .. HbInterval]
    BY DEF BeatInv
  <2>3. quiet \in 0 .. 3 * HbInterval + 1
    <3>1. CASE phase = "live"
      <4>1. /\ beat \in [at : {"timer", "watch"}, left : 0 .. HbInterval] /\ quiet \in Nat
            /\ quiet + Lasts <= 3 * HbInterval
        BY <3>1 DEF BeatInv
      <4>2. Lasts \in Nat
        BY <4>1, <2>0 DEF Lasts
      <4> QED  BY <2>0, <4>1, <4>2
    <3>2. CASE phase # "live"
      <4>1. quiet = 0
        BY <3>2 DEF BeatInv
      <4> QED  BY <2>0, <4>1
    <3> QED  BY <3>1, <3>2
  <2>4. \A i \in DOMAIN dials : dials[i] \in 0 .. BudgetWindow - 1
    <3>1. dials \in Seq(0 .. BudgetWindow - 1)
      BY DEF DialInv
    <3> QED  BY <3>1, ElementOfSeq, LenProperties
  <2> QED  BY <2>1, <2>2, <2>3, <2>4 DEF TypeOK
<1> QED  BY <1>1, BeatStart, BeatNext, LoopStart, LoopNext, DialNext, PTL DEF Spec

\* WithinBudget: no window of the server's budget holds more handshakes than
\* one per MinInterval, however short the backoff is set.
THEOREM BudgetKept == Spec => []WithinBudget
<1>1. DialInv => WithinBudget
  <2> SUFFICES ASSUME DialInv PROVE WithinBudget
    OBVIOUS
  <2> DEFINE n == Len(dials)
             M == MinInterval
             first == dials[1]
             last == dials[n]
  <2>1. /\ M \in Nat /\ M > 0 /\ BudgetWindow \in Nat /\ BudgetWindow > 0
    BY Durations
  <2>2. dials \in Seq(0 .. BudgetWindow - 1)
    BY DEF DialInv
  <2>3. n \in Nat /\ DOMAIN dials = 1 .. n
    BY <2>2, LenProperties
  <2>4. n * M <= BudgetWindow + M - 1
    <3>1. CASE n = 0
      <4>1. n * M = 0
        BY <2>1, <3>1
      <4> QED  BY <2>1, <4>1
    <3>2. CASE n # 0
      <4>1. 1 \in 1 .. n /\ n \in 1 .. n /\ 1 <= n
        BY <2>3, <3>2
      <4>2. first \in 0 .. BudgetWindow - 1 /\ last \in 0 .. BudgetWindow - 1
        BY <2>2, <4>1, ElementOfSeq
      <4>3. first >= last + (n - 1) * M
        BY <2>3, <4>1 DEF DialInv
      <4> HIDE DEF n, M, first, last
      <4>4. (n - 1) * M = n * M - M /\ n * M \in Int
        BY <2>1, <2>3
      <4> DEFINE p == n * M
      <4>5. p \in Int /\ first >= last + (p - M)
        BY <4>3, <4>4
      <4> HIDE DEF p
      <4>6. p <= BudgetWindow + M - 1
        BY <2>1, <4>2, <4>5
      <4> QED  BY <4>6 DEF p
    <3> QED  BY <3>1, <3>2
  <2> QED  BY <2>4 DEF WithinBudget
<1> QED  BY <1>1, LoopStart, LoopNext, DialNext, PTL DEF Spec

-----------------------------------------------------------------------------
(* The backoff                                                             *)

\* A time long enough for what the last refusal asked and for the backoff.
Enough(t) == t >= owed /\ (streak > 0 => t >= AtLeast(streak - 1))

\* Before a dial the time since the last connection ended is enough, and while
\* manage sleeps it will be when the sleep is over.
BackInv ==
  /\ phase \in {"gap", "dial"} => Enough(idle)
  /\ phase = "sleep" => Enough(idle + wait)

\* What is enough never exceeds the cap on the idle time.
LEMMA EnoughIs ==
  ASSUME LoopInv
  PROVE  /\ owed \in 0 .. LongestWait /\ streak \in 0 .. Width
         /\ streak > 0 => AtLeast(streak - 1) \in 1 .. LongestWait
<1>1. owed \in 0 .. LongestWait /\ streak \in 0 .. Width
  BY DEF LoopInv
<1>2. ASSUME streak > 0 PROVE AtLeast(streak - 1) \in 1 .. LongestWait
  <2> DEFINE k == streak - 1
  <2>1. k \in Nat
    BY <1>1, <1>2, Durations
  <2> HIDE DEF k
  <2>2. AtLeast(k) \in 1 .. DelayMax
    BY <2>1, FloorWithin
  <2>3. AtLeast(k) \in 1 .. LongestWait
    BY <2>2, Longest, Durations
  <2> QED  BY <2>3 DEF k
<1> QED  BY <1>1, <1>2

\* A longer time is enough too, and so is the cap.
LEMMA EnoughGrows ==
  ASSUME LoopInv, NEW s \in Nat, NEW t \in Nat, Enough(s), t >= s \/ t >= LongestWait
  PROVE  Enough(t)
<1>1. LongestWait \in Nat
  BY Longest
<1>2. t >= owed
  BY <1>1, EnoughIs DEF Enough
<1>3. ASSUME streak > 0 PROVE t >= AtLeast(streak - 1)
  <2> DEFINE a == AtLeast(streak - 1)
  <2>1. a \in 1 .. LongestWait /\ s >= a
    BY <1>3, EnoughIs DEF Enough
  <2> HIDE DEF a
  <2>2. t >= a
    BY <1>1, <2>1
  <2> QED  BY <2>2 DEF a
<1> QED  BY <1>2, <1>3 DEF Enough

\* No dial comes too soon.
LEMMA BackNext == NoWrapWithin /\ LoopInv /\ BackInv /\ [Next]_vars => BackInv'
<1> SUFFICES ASSUME NoWrapWithin, LoopInv, BackInv, [Next]_vars PROVE BackInv'
  OBVIOUS
<1>0. /\ LongestWait \in Nat
      /\ idle \in 0 .. LongestWait /\ wait \in 0 .. LongestWait /\ idle \in Nat /\ wait \in Nat
  BY Longest DEF LoopInv
<1>1. CASE StartDial
  BY <1>1 DEF StartDial, BackInv, Enough
<1>2. CASE Dialed \/ JoinLimited \/ Rejoin \/ Joined
  BY <1>2 DEF Dialed, JoinLimited, Rejoin, Joined, BackInv
<1>3. CASE EndsOrStops
  <2>1. ASSUME NEW p \in 0 .. LongestWait, EndedRetry(p) PROVE BackInv'
    <3>1. /\ phase' = "sleep" /\ idle' = 0 /\ owed' = p /\ wait' \in 0 .. LongestWait /\ wait' >= p
          /\ wait' >= AtLeast(streak' - 1)
      BY <2>1, EndWaits
    <3>2. idle' + wait' = wait'
      <4> DEFINE w == wait'
      <4>1. w \in 0 .. LongestWait /\ idle' = 0
        BY <3>1
      <4> HIDE DEF w
      <4>2. 0 + w = w
        BY <1>0, <4>1
      <4> QED  BY <4>1, <4>2 DEF w
    <3>3. Enough(idle + wait)'
      BY <3>1, <3>2 DEF Enough
    <3> QED  BY <3>1, <3>3 DEF BackInv
  <2>2. CASE Stops
    BY <2>2 DEF Stops, BackInv
  <2> QED  BY <1>3, <2>1, <2>2 DEF EndsOrStops
<1>4. CASE Wake
  <2>1. phase = "sleep" /\ wait = 0 /\ phase' = "gap" /\ UNCHANGED <<idle, owed, streak>>
    BY <1>4 DEF Wake, ghostVars
  <2>2. idle + wait = idle
    BY <1>0, <2>1
  <2> QED  BY <2>1, <2>2 DEF BackInv, Enough
<1>5. CASE BeatSent \/ PongArrives \/ BeatAnswered \/ FallsSilent \/ Stopped \/ UNCHANGED vars
  <2>1. UNCHANGED <<phase, wait, idle, owed, streak>>
    BY <1>5 DEF BeatSent, PongArrives, BeatAnswered, FallsSilent, Stopped, vars, ghostVars, manageVars
  <2> QED  BY <2>1 DEF BackInv, Enough
<1>6. CASE Tick
  <2>1. /\ UNCHANGED <<phase, owed, streak>> /\ wait' = Down(wait)
        /\ idle' = IF phase \in {"sleep", "gap"} THEN UpTo(idle, LongestWait) ELSE idle
        /\ phase = "sleep" => wait # 0
    BY <1>6 DEF Tick, TimerDue
  <2>2. /\ UpTo(idle, LongestWait) \in Nat
        /\ UpTo(idle, LongestWait) = idle + 1 \/ UpTo(idle, LongestWait) = LongestWait
        /\ UpTo(idle, LongestWait) >= idle
    BY <1>0, Clocks
  <2>3. CASE phase = "sleep"
    <3>1. /\ Enough(idle + wait) /\ idle' \in Nat /\ wait > 0
          /\ idle' = idle + 1 \/ idle' = LongestWait
      BY <1>0, <2>1, <2>2, <2>3 DEF BackInv
    <3>2. wait' = wait - 1 /\ wait' \in Nat
      BY <1>0, <2>1, <3>1, Clocks
    <3> DEFINE t == idle' + wait'
               s == idle + wait
    <3>3. t \in Nat /\ s \in Nat /\ (t >= s \/ t >= LongestWait)
      <4> DEFINE a == idle'
                 b == wait'
      <4>1. /\ a \in Nat /\ (a = idle + 1 \/ a = LongestWait)
            /\ b = wait - 1 /\ b \in Nat /\ t = a + b
        BY <3>1, <3>2
      <4> HIDE DEF a, b, t
      <4> QED  BY <1>0, <4>1
    <3> HIDE DEF t, s
    <3>4. Enough(t)
      BY <3>1, <3>3, EnoughGrows DEF s
    <3>5. Enough(idle + wait)'
      BY <2>1, <3>4 DEF Enough, t
    <3> QED  BY <2>1, <2>3, <3>5 DEF BackInv
  <2>4. CASE phase = "gap"
    <3>1. idle' \in Nat /\ idle' >= idle /\ Enough(idle)
      BY <2>1, <2>2, <2>4 DEF BackInv
    <3> DEFINE t == idle'
    <3>2. t \in Nat /\ t >= idle
      BY <3>1
    <3> HIDE DEF t
    <3>3. Enough(t)
      BY <1>0, <3>1, <3>2, EnoughGrows
    <3>4. Enough(idle)'
      BY <2>1, <3>3 DEF Enough, t
    <3> QED  BY <2>1, <2>4, <3>4 DEF BackInv
  <2>5. CASE phase \notin {"sleep", "gap"}
    BY <2>1, <2>5 DEF BackInv, Enough
  <2> QED  BY <2>3, <2>4, <2>5
<1> QED  BY <1>1, <1>2, <1>3, <1>4, <1>5, <1>6, EndsAre DEF Next

\* BacksOff: a dial waits out what the refusal asked for and, after k
\* connections that did not last, the lower half of the k-th delay, for every
\* configuration in which no shift of the backoff wraps to a shorter delay.
THEOREM DialsBackOff == NoWrapWithin => (Spec => []BacksOff)
<1> SUFFICES ASSUME NoWrapWithin PROVE Spec => []BacksOff
  OBVIOUS
<1>1. Init => BackInv
  <2> SUFFICES ASSUME Init PROVE BackInv
    OBVIOUS
  <2>1. phase = "gap" /\ idle = 0 /\ owed = 0 /\ streak = 0
    BY DEF Init
  <2> QED  BY <2>1 DEF BackInv, Enough
<1>2. LoopInv /\ BackInv /\ [Next]_vars => BackInv'
  BY BackNext
<1>3. BackInv => BacksOff
  BY DEF BackInv, BacksOff, Enough
<1> QED  BY <1>1, <1>2, <1>3, LoopStart, LoopNext, PTL DEF Spec

=============================================================================
