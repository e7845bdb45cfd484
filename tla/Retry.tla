------------------------------- MODULE Retry -------------------------------
(***************************************************************************)
(* How long a tasklet task waits before it retries a step: the arithmetic  *)
(* of RetryPolicy.  Durations are in nanoseconds.  The backoff is computed *)
(* in whole milliseconds of 128 bits, a Duration is made of milliseconds   *)
(* of 64 bits, and the jitter is drawn in nanoseconds of 64 bits; the      *)
(* three limits are constants so that small ones can be checked.           *)
(* An Option is a set of at most one value.                                *)
(***************************************************************************)
EXTENDS Naturals, FiniteSetsExt

CONSTANTS
  Milli,      \* nanoseconds in a millisecond
  MaxU64,     \* u64::MAX
  MaxU128     \* u128::MAX

ASSUME WidthsAssumption ==
  /\ {Milli, MaxU64, MaxU128} \subseteq Nat \ {0}
  /\ MaxU64 <= MaxU128

Jitters == {"None", "Full", "Equal"}

-----------------------------------------------------------------------------
(* RetryPolicy::fixed, exponential, with_max_delay and with_jitter.        *)

FixedPolicy(max_retries, delay) ==
  [max_retries |-> max_retries, backoff |-> "Fixed", base |-> delay, factor |-> 1, max |-> {},
   jitter |-> "None"]

ExponentialPolicy(max_retries, base, factor) ==
  [max_retries |-> max_retries, backoff |-> "Exponential", base |-> base, factor |-> factor,
   max |-> {}, jitter |-> "None"]

(* A fixed delay has no cap: the call leaves it as it is. *)
WithMaxDelay(policy, max) ==
  IF policy.backoff = "Exponential" THEN [policy EXCEPT !.max = {max}] ELSE policy

WithJitter(policy, jitter) == [policy EXCEPT !.jitter = jitter]

-----------------------------------------------------------------------------
(* RetryPolicy::delay and jittered_delay.                                  *)

(* u128::pow: the factor may be 0. *)
Power(factor, n) ==
  LET pow[k \in 0..n] == IF k = 0 THEN 1 ELSE factor * pow[k - 1]
  IN  pow[n]

(* Mutant: the arithmetic wraps around instead of saturating.              *)
Wrapped(n) == n % (MaxU128 + 1)

(* What saturating_pow and saturating_mul make of an exact result. *)
Saturated(n) == Min({n, MaxU128})

(* The delay before the retry at this index, from 0 on. *)
BackoffDelay(policy, retry_index) ==
  IF policy.backoff = "Fixed" THEN policy.base
  ELSE LET mult   == Saturated(Power(policy.factor, retry_index))
           millis == Saturated((policy.base \div Milli) * mult)
       IN  Min({Milli * Min({millis, MaxU64})} \union policy.max)

ClampNanos(delay) == Min({delay, MaxU64})

(* Jitter::apply: every delay that may be drawn. *)
Jittered(jitter, delay) ==
  LET half == ClampNanos(delay) \div 2
  IN  CASE jitter = "None"  -> {delay}
        [] jitter = "Full"  -> 0..ClampNanos(delay)
        [] jitter = "Equal" -> half..half + half

JitteredDelay(policy, retry_index) == Jittered(policy.jitter, BackoffDelay(policy, retry_index))
=============================================================================
