------------------------------ MODULE Backoff ------------------------------
(***************************************************************************)
(* The two retry delays of the program, over machine words.  Both double a *)
(* minimum once per attempt and cap it; the shift wraps at the word's      *)
(* width, so after enough attempts it is zero, negative or small again.    *)
(* The REST client draws from the minimum to the cap (client.go, backoff), *)
(* the gateway from the upper half (gateway/gateway.go, backoff).          *)
(***************************************************************************)
EXTENDS Integers

CONSTANTS Width,      \* bits of a time.Duration: 64 in the program
          DelayMin,   \* retryWaitMin, backoffMin
          DelayMax    \* retryWaitMax, backoffMax

\* The REST client's bounds are ordered by WithRetryWaitBounds; the gateway's
\* are only positive, and a minimum above the maximum means the maximum.
ASSUME BackoffAssumption ==
  /\ Width \in Nat /\ Width > 1
  /\ DelayMin \in 1 .. 2 ^ (Width - 1) - 1
  /\ DelayMax \in 1 .. 2 ^ (Width - 1) - 1

\* d << n on a signed word; by the word's width or more it is 0.
Shifted(d, n) ==
  LET top == 2 ^ (Width - 1)
      u == (d * 2 ^ n) % (2 * top)
  IN  IF n >= Width THEN 0 ELSE IF u < top THEN u ELSE u - 2 * top

\* Mutant: the wrapped value is taken for a delay.
CappedAbove(attempt) ==
  LET d == Shifted(DelayMin, attempt)
  IN  IF d > DelayMax THEN DelayMax ELSE d

Capped(attempt) ==
  LET d == Shifted(DelayMin, attempt)
  IN  IF d <= 0 \/ d > DelayMax THEN DelayMax ELSE d

\* Full jitter: rand.Int64N(span+1) above the minimum.
RestDelays(attempt) ==
  LET d == Capped(attempt)
  IN  IF d <= DelayMin THEN {DelayMin} ELSE DelayMin .. d

\* Half jitter: half the delay, plus up to the same again.
GatewayDelays(attempt) ==
  LET d == Capped(attempt)
      half == d \div 2
  IN  IF half <= 0 THEN {d} ELSE half .. half + half

\* No shift wraps around to a delay below the maximum.  None of the program's
\* own bounds does; a configured minimum of 2^32 + 1 ns, say, would: shifted by
\* 32 it is 4.3 s again.
NoWrapWithin ==
  \A n \in 0 .. Width - 1 :
    Shifted(DelayMin, n) \in 1 .. DelayMax - 1 => Shifted(DelayMin, n) = DelayMin * 2 ^ n

=============================================================================
