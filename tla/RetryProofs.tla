----------------------------- MODULE RetryProofs -----------------------------
(***************************************************************************)
(* The delay before a retry, for every policy, every number of retries and *)
(* all widths of the integers.                                             *)
(***************************************************************************)
EXTENDS Retry, NaturalLemmas, TLAPS

-----------------------------------------------------------------------------
(* Powers.                                                                 *)

IsPow(p, factor, n) == p = [k \in 0..n |-> IF k = 0 THEN 1 ELSE factor * p[k - 1]]

(* There is a table of the powers up to n. *)
LEMMA PowExists ==
  ASSUME NEW factor \in Nat
  PROVE  \A n \in Nat : \E p : IsPow(p, factor, n)
<1> DEFINE S == {n \in Nat : \E p : IsPow(p, factor, n)}
<1>1. 0 \in S
  <2> DEFINE p == [k \in 0..0 |-> 1]
  <2>1. IsPow(p, factor, 0)
    BY DEF IsPow
  <2> QED
    BY <2>1
<1>2. ASSUME NEW n \in Nat, n \in S PROVE n + 1 \in S
  <2>1. PICK p : IsPow(p, factor, n)
    BY <1>2
  <2> DEFINE q == [k \in 0..n + 1 |-> IF k <= n THEN p[k] ELSE factor * p[n]]
             r == [k \in 0..n + 1 |-> IF k = 0 THEN 1 ELSE factor * q[k - 1]]
  <2>2. ASSUME NEW k \in 0..n + 1 PROVE q[k] = r[k]
    <3>1. CASE k = n + 1
      <4>1. k - 1 = n /\ k # 0 /\ ~(k <= n) /\ n \in 0..n + 1 /\ n <= n
        BY <3>1
      <4> QED
        BY <4>1
    <3>2. CASE k # n + 1
      <4>1. k \in 0..n /\ k <= n
        BY <3>2
      <4>2. k # 0 => k - 1 \in 0..n /\ k - 1 \in 0..n + 1 /\ k - 1 <= n
        BY <4>1
      <4>3. p[k] = IF k = 0 THEN 1 ELSE factor * p[k - 1]
        BY <2>1, <4>1 DEF IsPow
      <4> QED
        BY <4>1, <4>2, <4>3
    <3> QED
      BY <3>1, <3>2
  <2>3. q = r
    BY <2>2
  <2>4. IsPow(q, factor, n + 1)
    BY <2>3 DEF IsPow
  <2>5. n + 1 \in Nat
    OBVIOUS
  <2> HIDE DEF q
  <2> QED
    BY <2>4, <2>5
<1> HIDE DEF S
<1>3. \A n \in Nat : n \in S
  BY <1>1, <1>2, SetInduction
<1> QED
  BY <1>3 DEF S

(* Its entries are natural numbers. *)
LEMMA PowType ==
  ASSUME NEW factor \in Nat, NEW n \in Nat, NEW p, IsPow(p, factor, n)
  PROVE  \A k \in 0..n : p[k] \in Nat
<1> DEFINE S == {k \in Nat : k <= n => p[k] \in Nat}
<1>0. \A k \in 0..n : p[k] = IF k = 0 THEN 1 ELSE factor * p[k - 1]
  BY DEF IsPow
<1>1. 0 \in S
  BY <1>0
<1>2. ASSUME NEW k \in Nat, k \in S PROVE k + 1 \in S
  <2>1. CASE k + 1 <= n
    <3>1. k + 1 \in 0..n /\ k + 1 # 0 /\ (k + 1) - 1 = k /\ p[k] \in Nat
      BY <1>2, <2>1
    <3>2. p[k + 1] = factor * p[k]
      BY <1>0, <3>1
    <3>3. factor * p[k] \in Nat
      BY <3>1
    <3> QED
      BY <3>2, <3>3
  <2> QED
    BY <2>1
<1> HIDE DEF S
<1>3. \A k \in Nat : k \in S
  BY <1>1, <1>2, SetInduction
<1>4. \A k \in 0..n : k \in Nat /\ k <= n
  OBVIOUS
<1> QED
  BY <1>3, <1>4 DEF S

(* A power is a natural number. *)
LEMMA PowerType ==
  ASSUME NEW factor \in Nat, NEW n \in Nat
  PROVE  Power(factor, n) \in Nat
<1> DEFINE p == CHOOSE q : IsPow(q, factor, n)
<1>1. IsPow(p, factor, n)
  BY PowExists
<1>2. Power(factor, n) = p[n]
  BY DEF Power, IsPow
<1> HIDE DEF p
<1>3. n \in 0..n
  OBVIOUS
<1> QED
  BY <1>1, <1>2, <1>3, PowType

(* Two tables agree as far as both go. *)
LEMMA PowAgree ==
  ASSUME NEW factor \in Nat, NEW n \in Nat, NEW p, IsPow(p, factor, n),
         NEW q, IsPow(q, factor, n + 1)
  PROVE  p[n] = q[n]
<1> DEFINE S == {k \in Nat : k <= n => p[k] = q[k]}
<1>0. /\ \A k \in 0..n : p[k] = IF k = 0 THEN 1 ELSE factor * p[k - 1]
      /\ \A k \in 0..n + 1 : q[k] = IF k = 0 THEN 1 ELSE factor * q[k - 1]
  BY DEF IsPow
<1>1. 0 \in S
  <2>1. 0 \in 0..n /\ 0 \in 0..n + 1
    OBVIOUS
  <2> QED
    BY <1>0, <2>1
<1>2. ASSUME NEW k \in Nat, k \in S PROVE k + 1 \in S
  <2>1. CASE k + 1 <= n
    <3>1. k + 1 \in 0..n /\ k + 1 \in 0..n + 1 /\ k + 1 # 0 /\ (k + 1) - 1 = k /\ p[k] = q[k]
      BY <1>2, <2>1
    <3>2. p[k + 1] = factor * p[k] /\ q[k + 1] = factor * q[k]
      BY <1>0, <3>1
    <3> QED
      BY <3>1, <3>2
  <2> QED
    BY <2>1
<1> HIDE DEF S
<1>3. \A k \in Nat : k \in S
  BY <1>1, <1>2, SetInduction
<1> QED
  BY <1>3 DEF S

(* Power is exponentiation: u128::pow before it saturates. *)
LEMMA PowerNext ==
  ASSUME NEW factor \in Nat, NEW n \in Nat
  PROVE  Power(factor, 0) = 1 /\ Power(factor, n + 1) = factor * Power(factor, n)
<1> DEFINE Table(m) == CHOOSE q : IsPow(q, factor, m)
<1>1. \A m \in Nat : IsPow(Table(m), factor, m) /\ Power(factor, m) = Table(m)[m]
  <2> TAKE m \in Nat
  <2>1. IsPow(Table(m), factor, m)
    BY PowExists
  <2>2. Power(factor, m) = Table(m)[m]
    BY DEF Power, IsPow
  <2> QED
    BY <2>1, <2>2
<1> HIDE DEF Table
<1>2. Power(factor, 0) = 1
  <2>1. 0 \in 0..0 /\ IsPow(Table(0), factor, 0) /\ Power(factor, 0) = Table(0)[0]
    BY <1>1
  <2> QED
    BY <2>1 DEF IsPow
<1>3. Power(factor, n + 1) = factor * Power(factor, n)
  <2>1. /\ IsPow(Table(n + 1), factor, n + 1) /\ Power(factor, n + 1) = Table(n + 1)[n + 1]
        /\ IsPow(Table(n), factor, n) /\ Power(factor, n) = Table(n)[n]
    BY <1>1
  <2>2. n + 1 \in 0..n + 1 /\ n + 1 # 0 /\ (n + 1) - 1 = n
    OBVIOUS
  <2>3. Table(n + 1)[n + 1] = factor * Table(n + 1)[n]
    BY <2>1, <2>2 DEF IsPow
  <2>4. Table(n)[n] = Table(n + 1)[n]
    BY <2>1, PowAgree
  <2> QED
    BY <2>1, <2>3, <2>4
<1> QED
  BY <1>2, <1>3

-----------------------------------------------------------------------------
(* Caps.                                                                   *)

(* The policies that the constructors of RetryPolicy make. *)
PolicyType ==
  {p \in [max_retries : Nat, backoff : {"Fixed", "Exponential"}, base : Nat, factor : Nat,
          max : {{}} \union {{c} : c \in Nat}, jitter : Jitters] :
     p.backoff = "Fixed" => p.max = {}}

(* The lesser of two durations. *)
LEMMA MinOfTwo ==
  ASSUME NEW a \in Nat, NEW b \in Nat
  PROVE  Min({a, b}) = IF a <= b THEN a ELSE b
BY DEF Min

(* A duration under an optional cap. *)
LEMMA MinCapped ==
  ASSUME NEW a \in Nat, NEW cap \in {{}} \union {{c} : c \in Nat}
  PROVE  /\ Min({a} \union cap) \in Nat
         /\ Min({a} \union cap) <= a
         /\ \A b \in Nat : a <= b => Min({a} \union cap) <= Min({b} \union cap)
<1>1. CASE cap = {}
  <2>1. \A x \in Nat : Min({x} \union cap) = x
    BY <1>1 DEF Min
  <2> QED
    BY <2>1
<1>2. ASSUME NEW c \in Nat, cap = {c} PROVE
         /\ Min({a} \union cap) \in Nat
         /\ Min({a} \union cap) <= a
         /\ \A b \in Nat : a <= b => Min({a} \union cap) <= Min({b} \union cap)
  <2>1. \A x \in Nat : {x} \union cap = {x, c}
    BY <1>2
  <2>2. \A x \in Nat : Min({x} \union cap) = IF x <= c THEN x ELSE c
    BY <2>1, MinOfTwo
  <2> QED
    BY <2>2
<1> QED
  BY <1>1, <1>2

(* The delays without jitter, in the exact arithmetic. *)
Growth(policy, n) == IF policy.backoff = "Fixed" THEN 1 ELSE Power(policy.factor, n)
Whole(policy, n) ==
  IF policy.backoff = "Fixed" THEN policy.base
  ELSE Min({(policy.base \div Milli) * Growth(policy, n), MaxU64}) * Milli

(* The saturations at 128 bits do not show: what is cut there is beyond    *)
(* the 64 bits of a Duration in milliseconds anyway.                       *)
LEMMA SaturationIsLast ==
  ASSUME NEW b \in Nat, NEW g \in Nat
  PROVE  Min({Saturated(b * Saturated(g)), MaxU64}) = Min({b * g, MaxU64})
<1>0. MaxU64 \in Nat /\ MaxU128 \in Nat /\ MaxU64 <= MaxU128
  BY WidthsAssumption
<1>1. b * g \in Nat /\ b * MaxU128 \in Nat
  BY <1>0
<1>2. CASE g <= MaxU128
  <2>1. Saturated(g) = g
    BY <1>0, <1>2, MinOfTwo DEF Saturated
  <2>2. Saturated(b * g) = IF b * g <= MaxU128 THEN b * g ELSE MaxU128
    BY <1>0, <1>1, MinOfTwo DEF Saturated
  <2>3. Saturated(b * g) \in Nat
    BY <1>0, <1>1, <2>2
  <2> QED
    BY <1>0, <1>1, <2>1, <2>2, <2>3, MinOfTwo
<1>3. CASE ~(g <= MaxU128)
  <2>1. Saturated(g) = MaxU128
    BY <1>0, <1>3, MinOfTwo DEF Saturated
  <2>2. CASE b = 0
    <3>1. b * g = 0 /\ b * MaxU128 = 0
      BY <1>0, <2>2
    <3>2. Saturated(0) = 0
      BY <1>0, MinOfTwo DEF Saturated
    <3> QED
      BY <2>1, <3>1, <3>2
  <2>3. CASE b # 0
    <3>1. b * MaxU128 >= MaxU128 /\ b * g >= MaxU128
      BY <1>0, <1>3, <2>3
    <3>2. Saturated(b * MaxU128) = MaxU128
      BY <1>0, <1>1, <3>1, MinOfTwo DEF Saturated
    <3>3. Min({MaxU128, MaxU64}) = MaxU64 /\ Min({b * g, MaxU64}) = MaxU64
      BY <1>0, <1>1, <3>1, MinOfTwo
    <3> QED
      BY <2>1, <3>2, <3>3
  <2> QED
    BY <2>2, <2>3
<1> QED
  BY <1>2, <1>3

(* RetryPolicy::delay is the exact delay of whole milliseconds, cut at     *)
(* what a Duration of u64 milliseconds holds, and then at the cap.         *)
LEMMA BackoffExact ==
  ASSUME NEW policy \in PolicyType, NEW n \in Nat
  PROVE  /\ BackoffDelay(policy, n) = Min({Whole(policy, n)} \union policy.max)
         /\ Growth(policy, n) \in Nat /\ Whole(policy, n) \in Nat
<1>0. /\ Milli \in Nat \ {0} /\ MaxU64 \in Nat
      /\ policy.base \in Nat /\ policy.factor \in Nat /\ policy.base \div Milli \in Nat
      /\ policy.max \in {{}} \union {{c} : c \in Nat}
      /\ policy.backoff \in {"Fixed", "Exponential"}
      /\ policy.backoff = "Fixed" => policy.max = {}
  BY WidthsAssumption DEF PolicyType
<1>1. CASE policy.backoff = "Fixed"
  <2>1. Min({policy.base}) = policy.base
    BY <1>0 DEF Min
  <2>2. {policy.base} \union policy.max = {policy.base}
    BY <1>0, <1>1
  <2> QED
    BY <1>0, <1>1, <2>1, <2>2 DEF BackoffDelay, Growth, Whole
<1>2. CASE policy.backoff # "Fixed"
  <2> DEFINE b == policy.base \div Milli
             g == Power(policy.factor, n)
  <2>1. b \in Nat /\ g \in Nat
    BY <1>0, PowerType
  <2>2. Growth(policy, n) = g /\ Whole(policy, n) = Min({b * g, MaxU64}) * Milli
    BY <1>2 DEF Growth, Whole
  <2>3. BackoffDelay(policy, n) =
          Min({Milli * Min({Saturated(b * Saturated(g)), MaxU64})} \union policy.max)
    BY <1>2 DEF BackoffDelay
  <2> HIDE DEF b, g
  <2>4. b * g \in Nat
    BY <2>1
  <2>5. Min({b * g, MaxU64}) \in Nat
    BY <1>0, <2>4, MinOfTwo
  <2>6. Min({b * g, MaxU64}) * Milli \in Nat
        /\ Milli * Min({b * g, MaxU64}) = Min({b * g, MaxU64}) * Milli
    BY <1>0, <2>5
  <2>7. Min({Saturated(b * Saturated(g)), MaxU64}) = Min({b * g, MaxU64})
    BY <2>1, SaturationIsLast
  <2> QED
    BY <2>1, <2>2, <2>3, <2>6, <2>7
<1> QED
  BY <1>1, <1>2

-----------------------------------------------------------------------------
(* The documented delay.                                                   *)

(* What is left of the base in whole milliseconds is no more than the base. *)
LEMMA MillisRoundDown ==
  ASSUME NEW base \in Nat
  PROVE  (base \div Milli) * Milli <= base
BY WidthsAssumption

(* A product grows with a factor of it. *)
LEMMA ProductMonotone ==
  ASSUME NEW a \in Nat, NEW b \in Nat, NEW c \in Nat, a <= b
  PROVE  a * c <= b * c
OBVIOUS

(* Truncated to milliseconds and saturated, a delay is no longer than the  *)
(* documented base * factor^retry_index.                                   *)
LEMMA WholeIsAtMostExact ==
  ASSUME NEW policy \in PolicyType, NEW n \in Nat
  PROVE  Whole(policy, n) <= policy.base * Growth(policy, n)
<1>a. Milli \in Nat \ {0} /\ MaxU64 \in Nat /\ policy.base \in Nat
  BY WidthsAssumption DEF PolicyType
<1>b. Growth(policy, n) \in Nat
  BY BackoffExact
<1>0. /\ Milli \in Nat /\ MaxU64 \in Nat
      /\ policy.base \in Nat /\ Growth(policy, n) \in Nat
      /\ policy.base \div Milli \in Nat
  BY <1>a, <1>b
<1>1. CASE policy.backoff = "Fixed"
  BY <1>0, <1>1 DEF Whole, Growth
<1>2. CASE policy.backoff # "Fixed"
  <2> DEFINE q == policy.base \div Milli
             g == Growth(policy, n)
             m == Min({q * g, MaxU64})
  <2>1. q \in Nat /\ g \in Nat /\ q * g \in Nat
    BY <1>0
  <2>2. m \in Nat /\ m <= q * g
    <3> HIDE DEF q, g
    <3> QED
      BY <1>0, <2>1, MinOfTwo
  <2>3. Whole(policy, n) = m * Milli
    BY <1>2 DEF Whole
  <2>4. q * Milli <= policy.base
    BY <1>0, MillisRoundDown
  <2> HIDE DEF q, g, m
  <2>5. m * Milli <= (q * g) * Milli
    BY <1>0, <2>1, <2>2, ProductMonotone
  <2>6. (q * g) * Milli = (q * Milli) * g /\ q * Milli \in Nat
    BY <1>0, <2>1
  <2>7. (q * Milli) * g <= policy.base * g
    BY <1>0, <2>1, <2>4, <2>6, ProductMonotone
  <2>8. m * Milli <= policy.base * g
    BY <1>0, <2>1, <2>2, <2>5, <2>6, <2>7
  <2> QED
    BY <2>3, <2>8 DEF g
<1> QED
  BY <1>1, <1>2

(* Jitter never lengthens a delay; none leaves it, and equal jitter takes  *)
(* no more than half of what fits in 64 bits.                              *)
LEMMA JitterShortens ==
  ASSUME NEW jitter \in Jitters, NEW delay \in Nat, NEW w \in Jittered(jitter, delay)
  PROVE  /\ w \in Nat /\ w <= delay
         /\ jitter = "None" => w = delay
         /\ jitter = "Equal" => w >= Min({delay, MaxU64}) \div 2
<1> DEFINE c == ClampNanos(delay)
<1>0. MaxU64 \in Nat
  BY WidthsAssumption
<1>1. c \in Nat /\ c <= delay /\ c = Min({delay, MaxU64})
  BY <1>0, MinOfTwo DEF ClampNanos
<1>2. /\ jitter = "None" => w = delay
      /\ jitter = "Full" => w \in 0..c
      /\ jitter = "Equal" => w \in (c \div 2)..(c \div 2 + c \div 2)
  BY DEF Jittered, Jitters
<1> HIDE DEF c
<1>3. c \div 2 \in Nat /\ c \div 2 + c \div 2 <= c
  BY <1>1
<1>4. jitter \in {"None", "Full", "Equal"}
  BY DEF Jitters
<1>5. CASE jitter = "None"
  BY <1>2, <1>5
<1>6. CASE jitter = "Full"
  BY <1>1, <1>2, <1>6
<1>7. CASE jitter = "Equal"
  <2>1. w \in Nat /\ w >= c \div 2 /\ w <= c
    BY <1>1, <1>2, <1>3, <1>7
  <2> QED
    BY <1>1, <1>7, <2>1
<1> QED
  BY <1>4, <1>5, <1>6, <1>7

(* The wait before a retry is the documented base * factor^retry_index,    *)
(* never above it or above the cap, and short of it by no more than the    *)
(* truncation, the saturation and the jitter: RetryPolicy::delay and       *)
(* Jitter::apply, whatever the policy and however many retries it had.     *)
THEOREM DelayIsDocumented ==
  ASSUME NEW policy \in PolicyType, NEW n \in Nat, NEW w \in JitteredDelay(policy, n)
  PROVE  LET high == Min({policy.base * Growth(policy, n)} \union policy.max)
             low  == Min({Whole(policy, n)} \union policy.max)
         IN  /\ w \in Nat
             /\ w <= high
             /\ policy.jitter = "None" => w >= low
             /\ policy.jitter = "Equal" => w >= Min({low, MaxU64}) \div 2
<1> DEFINE high == Min({policy.base * Growth(policy, n)} \union policy.max)
           low  == Min({Whole(policy, n)} \union policy.max)
<1>1. /\ policy.max \in {{}} \union {{c} : c \in Nat}
      /\ policy.base \in Nat /\ policy.jitter \in Jitters
  BY DEF PolicyType
<1>2. /\ BackoffDelay(policy, n) = low
      /\ Growth(policy, n) \in Nat /\ Whole(policy, n) \in Nat
  BY BackoffExact
<1>3. policy.base * Growth(policy, n) \in Nat
      /\ Whole(policy, n) <= policy.base * Growth(policy, n)
  BY <1>1, <1>2, WholeIsAtMostExact
<1>4. low \in Nat /\ high \in Nat /\ low <= high
  BY <1>1, <1>2, <1>3, MinCapped
<1>5. w \in Jittered(policy.jitter, low)
  BY <1>2 DEF JitteredDelay
<1> HIDE DEF high, low
<1>6. /\ w \in Nat /\ w <= low
      /\ policy.jitter = "None" => w = low
      /\ policy.jitter = "Equal" => w >= Min({low, MaxU64}) \div 2
  BY <1>1, <1>4, <1>5, JitterShortens
<1>7. w <= high
  BY <1>4, <1>6
<1> QED
  BY <1>4, <1>6, <1>7 DEF high, low

(* The constructors of RetryPolicy make no other policies. *)
LEMMA PoliciesAreTyped ==
  ASSUME NEW n \in Nat, NEW base \in Nat
  PROVE  /\ FixedPolicy(n, base) \in PolicyType
         /\ \A factor \in Nat : ExponentialPolicy(n, base, factor) \in PolicyType
         /\ \A policy \in PolicyType :
              /\ \A cap \in Nat : WithMaxDelay(policy, cap) \in PolicyType
              /\ \A jitter \in Jitters : WithJitter(policy, jitter) \in PolicyType
<1>1. FixedPolicy(n, base) \in PolicyType
  BY DEF FixedPolicy, PolicyType, Jitters
<1>2. ASSUME NEW factor \in Nat PROVE ExponentialPolicy(n, base, factor) \in PolicyType
  BY DEF ExponentialPolicy, PolicyType, Jitters
<1>3. ASSUME NEW policy \in PolicyType, NEW cap \in Nat
      PROVE  WithMaxDelay(policy, cap) \in PolicyType
  <2>1. {cap} \in {{}} \union {{c} : c \in Nat}
    OBVIOUS
  <2> QED
    BY <2>1 DEF WithMaxDelay, PolicyType
<1>4. ASSUME NEW policy \in PolicyType, NEW jitter \in Jitters
      PROVE  WithJitter(policy, jitter) \in PolicyType
  BY DEF WithJitter, PolicyType
<1> QED
  BY <1>1, <1>2, <1>3, <1>4

(* Without jitter no retry waits less than the one before it: a factor of  *)
(* at least 1 makes the delays grow up to the cap and stay there.          *)
THEOREM DelaysGrow ==
  ASSUME NEW policy \in PolicyType, policy.factor >= 1, NEW n \in Nat
  PROVE  BackoffDelay(policy, n) <= BackoffDelay(policy, n + 1)
<1>0. /\ policy.max \in {{}} \union {{c} : c \in Nat}
      /\ policy.base \in Nat /\ policy.factor \in Nat /\ policy.factor >= 1
      /\ Milli \in Nat \ {0} /\ MaxU64 \in Nat /\ n + 1 \in Nat
  BY WidthsAssumption DEF PolicyType
<1>1. /\ BackoffDelay(policy, n) = Min({Whole(policy, n)} \union policy.max)
      /\ BackoffDelay(policy, n + 1) = Min({Whole(policy, n + 1)} \union policy.max)
      /\ Whole(policy, n) \in Nat /\ Whole(policy, n + 1) \in Nat
      /\ Growth(policy, n) \in Nat /\ Growth(policy, n + 1) \in Nat
  BY <1>0, BackoffExact
<1>2. Whole(policy, n) <= Whole(policy, n + 1)
  <2>1. CASE policy.backoff = "Fixed"
    BY <1>0, <2>1 DEF Whole
  <2>2. CASE policy.backoff # "Fixed"
    <3> DEFINE q == policy.base \div Milli
               g == Growth(policy, n)
               h == Growth(policy, n + 1)
    <3>a. Power(policy.factor, n + 1) = policy.factor * Power(policy.factor, n)
      BY <1>0, PowerNext
    <3>b. h = policy.factor * g
      BY <2>2, <3>a DEF Growth
    <3>1. q \in Nat /\ g \in Nat /\ h \in Nat /\ h = policy.factor * g
      BY <1>0, <1>1, <3>b
    <3>2. /\ Whole(policy, n) = Min({q * g, MaxU64}) * Milli
          /\ Whole(policy, n + 1) = Min({q * h, MaxU64}) * Milli
      BY <2>2 DEF Whole
    <3> HIDE DEF q, g, h
    <3>3. g <= h
      BY <1>0, <3>1
    <3>4. q * g \in Nat /\ q * h \in Nat /\ q * g <= q * h
      BY <3>1, <3>3
    <3>5. /\ Min({q * g, MaxU64}) \in Nat /\ Min({q * h, MaxU64}) \in Nat
          /\ Min({q * g, MaxU64}) <= Min({q * h, MaxU64})
      BY <1>0, <3>4, MinOfTwo
    <3> QED
      BY <1>0, <3>2, <3>5, ProductMonotone
  <2> QED
    BY <2>1, <2>2
<1>3. Min({Whole(policy, n)} \union policy.max) <= Min({Whole(policy, n + 1)} \union policy.max)
  BY <1>0, <1>1, <1>2, MinCapped
<1> QED
  BY <1>1, <1>3

=============================================================================
