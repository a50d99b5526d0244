------------------------------- MODULE Backoff -------------------------------
(***************************************************************************)
(* How long retryTransport waits before it sends a request again: backoff  *)
(* and retryAfter of pkg/config/retry.go.  A time.Duration is a signed     *)
(* machine word and its arithmetic wraps around.  The jitter is a choice,  *)
(* so the operators give the set of waits there may be.                    *)
(***************************************************************************)
EXTENDS Integers

CONSTANTS
  BaseDelay,  \* rt.baseDelay
  MaxDelay,   \* rt.maxDelay
  Second,     \* time.Second
  Word        \* durations are -Word .. Word - 1

ASSUME DelayAssumption ==
  /\ {BaseDelay, MaxDelay, Second, Word} \subseteq Nat \ {0}
  /\ MaxDelay < Word

Duration == -Word .. Word - 1

Wrapped(x) == ((x + Word) % (2 * Word)) - Word

\* The number of seconds retryAfter makes of the values of ratelimit-reset and
\* Retry-After; negative for a header that is missing or no number, and if
\* neither is of use.
RetryAfter(reset, after) == IF reset >= 0 THEN reset ELSE after

\* Mutant: the hint is not limited.
Unlimited(d) == d

\* Mutant: a hint is followed only up to the base delay.
Impatient(d) == IF d > BaseDelay THEN BaseDelay ELSE d

Limited(d) == IF d > MaxDelay THEN MaxDelay ELSE d

\* The exponential delay, before jitter.
Ceiling(attempt) ==
  LET d == Wrapped(BaseDelay * 2 ^ attempt) IN IF d <= 0 \/ d > MaxDelay THEN MaxDelay ELSE d

\* backoff: the hint if there is one, else anything up to the exponential delay.
Waits(attempt, reset, after) ==
  LET secs == RetryAfter(reset, after)
  IN  IF secs >= 0 THEN {Limited(Wrapped(secs * Second))} ELSE 0 .. Ceiling(attempt)
=============================================================================
