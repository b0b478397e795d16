---------------------------- MODULE BackoffProofs ----------------------------
(***************************************************************************)
(* Proofs about Backoff, for Durations of every width.                     *)
(***************************************************************************)
EXTENDS Backoff, TLAPS

Half == 2 ^ (W - 1)

LEMMA IntFacts ==
    /\ Half \in Nat /\ Half >= 4 /\ 2 ^ W = 2 * Half
    /\ MaxInt = Half - 1 /\ MinInt = -Half
    /\ \A n \in Int : n \in Ints <=> -Half <= n /\ n < Half
    /\ \A n \in Ints : n \in Int
<1>1. W \in Nat /\ W > 1 /\ MaxAttempts \in Nat
  BY BackoffAssumption
<1>2. W - 1 \in 0 .. W + MaxAttempts /\ (W - 1) + 1 = W
  BY <1>1
<1>3. Half \in Nat \ {0} /\ 2 ^ W = 2 * Half
  BY <1>2, PowerAssumption DEF Half
<1>4. MaxInt = Half - 1 /\ MinInt = -Half
  BY DEF MaxInt, MinInt, Half
<1>5. Half >= 4
  BY <1>3, <1>4, BackoffAssumption DEF DefaultRetryMaxWaitTime
<1> QED
  BY <1>3, <1>4, <1>5 DEF Ints

\* Arithmetic.
LEMMA ModRange ==
    ASSUME NEW a \in Int, NEW m \in Nat \ {0}
    PROVE  a % m \in Int /\ 0 <= a % m /\ a % m < m
OBVIOUS

LEMMA ModSmall ==
    ASSUME NEW a \in Nat, NEW m \in Nat \ {0}, a < m
    PROVE  a % m = a
OBVIOUS

LEMMA ProductKeeps ==
    ASSUME NEW a \in Int, NEW b \in Int, NEW n \in Nat, a <= b
    PROVE  a * n <= b * n
OBVIOUS

LEMMA WrapFacts ==
    ASSUME NEW n \in Int
    PROVE  Wrap(n) \in Ints /\ (n \in Ints => Wrap(n) = n)
<1>1. Wrap(n) = ((n + Half) % (2 * Half)) - Half
  BY IntFacts DEF Wrap
<1>2. 2 * Half \in Nat \ {0} /\ n + Half \in Int
  BY IntFacts
<1>3. (n + Half) % (2 * Half) \in Int /\ 0 <= (n + Half) % (2 * Half)
      /\ (n + Half) % (2 * Half) < 2 * Half
  BY <1>2, ModRange
<1>4. n \in Ints => (n + Half) % (2 * Half) = n + Half
  BY <1>2, IntFacts, ModSmall
<1> QED
  BY <1>1, <1>3, <1>4, IntFacts

LEMMA PowerFacts ==
    /\ 2 ^ 0 = 1 /\ 2 ^ Precision \in Nat
    /\ \A e \in 0 .. W : 2 ^ e \in Nat \ {0}
<1>1. W \in Nat /\ MaxAttempts \in Nat /\ Precision \in 0 .. W
  BY BackoffAssumption
<1>2. 0 \in 0 .. W + MaxAttempts /\ Precision \in 0 .. W + MaxAttempts
  BY <1>1
<1>3. \A e \in 0 .. W : 2 ^ e \in Nat \ {0}
  BY <1>1, PowerAssumption
<1>4. 2 ^ 0 = 1
  <2> DEFINE one == 2 ^ 0
  <2>1. one \in Nat \ {0} /\ 0 \in 0 .. 0 /\ 0 - 0 = 0
    BY <1>2, PowerAssumption
  <2>2. one * one = one
    BY <1>2, <2>1, PowerAssumption
  <2> HIDE DEF one
  <2>3. one = 1
    BY <2>1, <2>2
  <2> QED
    BY <2>3 DEF one
<1> QED
  BY <1>1, <1>3, <1>4

LEMMA DistanceFacts ==
    ASSUME NEW a \in Int, NEW b \in Int
    PROVE  /\ Distance(a, b) \in Nat /\ Distance(a, a) = 0
           /\ Distance(a, b) = 0 => a = b
BY DEF Distance

LEMMA FloatFacts ==
    /\ Floats \subseteq Int /\ 0 \in Floats /\ 1 \in Floats
    /\ \A n \in 0 .. 2 ^ Precision : n \in Floats
<1>1. ASSUME NEW m \in Int, NEW e \in 0 .. W PROVE m * 2 ^ e \in Int
  BY PowerFacts
<1>2. Floats \subseteq Int
  <2>1. \A m \in -(2 ^ Precision) .. 2 ^ Precision : m \in Int
    BY PowerFacts
  <2> QED
    BY <1>1, <2>1 DEF Floats
<1>3. ASSUME NEW n \in 0 .. 2 ^ Precision PROVE n \in Floats
  <2>1. n \in -(2 ^ Precision) .. 2 ^ Precision /\ n \in Int /\ 0 \in 0 .. W
    BY PowerFacts, BackoffAssumption
  <2>2. n = n * 2 ^ 0
    BY <2>1, PowerFacts
  <2>3. ASSUME NEW m \in -(2 ^ Precision) .. 2 ^ Precision, NEW e \in 0 .. W
        PROVE  m * 2 ^ e \in Floats
    BY DEF Floats
  <2>4. n * 2 ^ 0 \in Floats
    BY <2>1, <2>3, Zenon
  <2> QED
    BY <2>2, <2>4
<1>4. 0 \in 0 .. 2 ^ Precision /\ 1 \in 0 .. 2 ^ Precision
  <2>1. 2 ^ Precision \in Nat \ {0}
    BY PowerFacts, BackoffAssumption
  <2> QED
    BY <2>1
<1> QED
  BY <1>2, <1>3, <1>4

\* What rounding keeps: the sign, and a number that is a float.
LEMMA AsFloatFacts ==
    ASSUME NEW n \in Int, NEW f \in AsFloat(n)
    PROVE  /\ f \in Floats /\ f \in Int
           /\ n >= 0 => f >= 0
           /\ n > 0 => f > 0
           /\ n < 0 => f <= 0
           /\ n \in Floats => f = n
<1>1. f \in Floats /\ \A g \in Floats : Distance(n, f) <= Distance(n, g)
  BY DEF AsFloat, Nearest
<1>2. f \in Int
  BY <1>1, FloatFacts
<1>3. n >= 0 => f >= 0
  <2>1. Distance(n, f) <= Distance(n, 0)
    BY <1>1, FloatFacts
  <2> QED
    BY <1>2, <2>1 DEF Distance
<1>4. n > 0 => f > 0
  <2>1. Distance(n, f) <= Distance(n, 1)
    BY <1>1, FloatFacts
  <2> QED
    BY <1>2, <2>1 DEF Distance
<1>5. n < 0 => f <= 0
  <2>1. Distance(n, f) <= Distance(n, 0)
    BY <1>1, FloatFacts
  <2> QED
    BY <1>2, <2>1 DEF Distance
<1>6. n \in Floats => f = n
  <2>1. n \in Floats => Distance(n, f) <= Distance(n, n)
    BY <1>1
  <2>2. Distance(n, n) = 0 /\ Distance(n, f) \in Nat /\ (Distance(n, f) = 0 => n = f)
    BY <1>2, DistanceFacts
  <2> QED
    BY <2>1, <2>2
<1> QED
  BY <1>1, <1>2, <1>3, <1>4, <1>5, <1>6

LEMMA AsFloatExact ==
    ASSUME NEW n \in Floats
    PROVE  n \in AsFloat(n)
<1>1. n \in Int
  BY FloatFacts
<1>2. \A g \in Floats : Distance(n, g) \in Nat /\ Distance(n, n) = 0
                       /\ (Distance(n, g) = 0 => g = n)
  BY <1>1, FloatFacts, DistanceFacts
<1>3. n \in Nearest(n)
  BY <1>2 DEF Nearest
<1>4. \A g \in Nearest(n) : g = n
  BY <1>2 DEF Nearest
<1> QED
  BY <1>3, <1>4 DEF AsFloat

LEMMA TwiceTheStep ==
    ASSUME NEW a \in Int, NEW b \in Int, NEW s \in Nat \ {0}
    PROVE  2 * s * a - 2 * s * b # s
<1>1. 2 * s * a - 2 * s * b = s * (2 * (a - b))
  OBVIOUS
<1>2. ASSUME NEW k \in Int, s * k = s PROVE k = 1
  BY <1>2
<1>3. 2 * (a - b) # 1 /\ 2 * (a - b) \in Int
  OBVIOUS
<1> QED
  BY <1>1, <1>2, <1>3

\* Of two nearest floats only one is a multiple of twice their distance.
LEMMA AsFloatUnique ==
    ASSUME NEW n \in Int, NEW f \in AsFloat(n), NEW g \in AsFloat(n)
    PROVE  f = g
<1>1. f \in Int /\ g \in Int /\ f \in Nearest(n) /\ g \in Nearest(n)
  BY AsFloatFacts DEF AsFloat
<1>2. SUFFICES ASSUME f # g PROVE FALSE
  OBVIOUS
<1> DEFINE s == Distance(f, g)
<1>3. s \in Nat \ {0} /\ s = Distance(g, f) /\ (f - g = s \/ g - f = s)
  BY <1>1, <1>2 DEF Distance
<1>4. f % (2 * s) = 0 /\ g % (2 * s) = 0
  BY <1>1, <1>2, <1>3 DEF AsFloat
<1> HIDE DEF s
<1>5. ASSUME NEW x \in Int, x % (2 * s) = 0 PROVE \E a \in Int : x = 2 * s * a
  <2>1. 2 * s \in Nat \ {0}
    BY <1>3
  <2>2. ASSUME NEW t \in Nat \ {0}, x % t = 0 PROVE x = t * (x \div t) /\ x \div t \in Int
    BY <2>2
  <2>3. x = (2 * s) * (x \div (2 * s)) /\ x \div (2 * s) \in Int
    BY <1>5, <2>1, <2>2
  <2> QED
    BY <2>3
<1>6. PICK a \in Int : f = 2 * s * a
  BY <1>1, <1>4, <1>5
<1>7. PICK b \in Int : g = 2 * s * b
  BY <1>1, <1>4, <1>5
<1>8. f - g # s /\ g - f # s
  BY <1>3, <1>6, <1>7, TwiceTheStep
<1> QED
  BY <1>3, <1>8

\* A float times a power of two is a float again, as long as it is a Duration.
LEMMA ProductIsFloat ==
    ASSUME NEW f \in Floats, f >= 0, NEW n \in 0 .. MaxAttempts, 2 ^ n * f \in Ints
    PROVE  2 ^ n * f \in Floats
<1>1. PICK m \in -(2 ^ Precision) .. 2 ^ Precision, e \in 0 .. W : f = m * 2 ^ e
  BY DEF Floats
<1>2. W \in Nat /\ MaxAttempts \in Nat /\ n \in Nat /\ e \in Nat
      /\ e + n \in 0 .. W + MaxAttempts /\ n \in 0 .. W + MaxAttempts
      /\ n \in 0 .. e + n /\ (e + n) - n = e
  BY BackoffAssumption
<1>3. /\ 2 ^ e \in Nat \ {0} /\ 2 ^ n \in Nat \ {0} /\ 2 ^ (e + n) \in Nat \ {0}
      /\ 2 ^ n * 2 ^ e = 2 ^ (e + n) /\ (e + n > W => 2 ^ (e + n) > 2 ^ W)
  <2>1. 2 ^ n * 2 ^ ((e + n) - n) = 2 ^ (e + n)
    BY <1>2, PowerAssumption
  <2> QED
    BY <1>2, <2>1, PowerFacts, PowerAssumption
<1>4. m \in Int /\ 2 ^ n * f = m * 2 ^ (e + n)
  <2>1. m \in Int
    BY PowerFacts
  <2>2. ASSUME NEW p \in Int, NEW q \in Int PROVE p * (m * q) = m * (p * q)
    BY <2>1
  <2>3. 2 ^ n * (m * 2 ^ e) = m * (2 ^ n * 2 ^ e)
    BY <1>3, <2>2
  <2> QED
    BY <1>1, <1>3, <2>1, <2>3
<1>5. CASE m <= 0
  <2>1. f = 0
    <3>1. ASSUME NEW p \in Nat, m * p >= 0 PROVE m * p = 0
      BY <1>4, <1>5, <3>1
    <3> QED
      BY <1>1, <1>3, <3>1
  <2>2. 2 ^ n * f = 0
    BY <1>3, <2>1
  <2> QED
    BY <2>2, FloatFacts
<1>6. CASE m > 0
  <2>1. m * 2 ^ (e + n) >= 2 ^ (e + n)
    <3>1. ASSUME NEW p \in Nat PROVE m * p >= p
      BY <1>4, <1>6
    <3> QED
      BY <1>3, <3>1
  <2>2. m * 2 ^ (e + n) < Half /\ 2 ^ W = 2 * Half /\ Half \in Nat /\ Half >= 4
        /\ m * 2 ^ (e + n) \in Int
    BY <1>4, IntFacts
  <2>3. e + n \in 0 .. W
    BY <1>2, <1>3, <2>1, <2>2
  <2> QED
    BY <1>4, <2>3 DEF Floats
<1> QED
  BY <1>4, <1>5, <1>6

\* An exponential wait, exactly: 2^n times the minimum as a float, or the
\* maximum.
LEMMA ExponentialExact ==
    ASSUME NEW lo \in Ints, lo >= 0, NEW hi \in Ints, NEW n \in 0 .. MaxAttempts,
           NEW w \in Exponential(lo, hi, n)
    PROVE  /\ n >= InfiniteAt => w = hi
           /\ n < InfiniteAt =>
                 \E f \in AsFloat(lo) : w = IF 2 ^ n * f >= hi THEN hi ELSE 2 ^ n * f
<1>1. CASE n >= InfiniteAt
  BY <1>1, BackoffAssumption DEF Exponential
<1>2. CASE ~(n >= InfiniteAt)
  <2>1. PICK f \in AsFloat(lo) :
           \E sleep \in Converted(2 ^ n * f) :
              w = IF 2 ^ n * f \notin AsFloat(sleep) \/ sleep > hi THEN hi ELSE sleep
    BY <1>2 DEF Exponential
  <2> DEFINE d == 2 ^ n * f
  <2>2. PICK sleep \in Converted(d) :
           w = IF d \notin AsFloat(sleep) \/ sleep > hi THEN hi ELSE sleep
    BY <2>1
  <2>3. lo \in Int /\ f \in Floats /\ f \in Nat
    BY IntFacts, AsFloatFacts
  <2>4. d \in Nat
    <3>1. 2 ^ n \in Nat
      BY BackoffAssumption, PowerAssumption
    <3> QED
      BY <2>3, <3>1
  <2>5. d \in Ints => d \in Floats
    BY <2>3, ProductIsFloat
  <2> HIDE DEF d
  <2>6. hi \in Int /\ hi < Half /\ -Half <= hi /\ Half \in Nat /\ MaxInt = Half - 1
        /\ MinInt = -Half /\ Half >= 4
    BY IntFacts
  <2>7. CASE d \in Ints
    <3>1. sleep = d /\ d \in AsFloat(d)
      BY <2>2, <2>5, <2>7, AsFloatExact DEF Converted
    <3>2. w = IF d >= hi THEN hi ELSE d
      BY <2>2, <2>4, <2>6, <3>1
    <3> QED
      BY <1>2, <3>2 DEF d
  <2>8. CASE d \notin Ints
    <3>1. d >= Half /\ sleep \in {-Half, Half - 1}
      BY <2>2, <2>4, <2>6, <2>8, IntFacts DEF Converted
    <3>2. w = hi
      <4>1. CASE sleep = -Half
        <5>1. sleep \in Int /\ sleep < 0 /\ ~(d <= 0)
          BY <2>4, <2>6, <3>1, <4>1
        <5>2. d \notin AsFloat(sleep)
          BY <5>1, AsFloatFacts
        <5> QED
          BY <2>2, <5>2
      <4>2. CASE sleep = Half - 1
        BY <2>2, <2>6, <4>2
      <4> QED
        BY <3>1, <4>1, <4>2
    <3>3. d >= hi
      BY <2>4, <2>6, <3>1
    <3> QED
      BY <1>2, <3>2, <3>3 DEF d
  <2> QED
    BY <2>7, <2>8
<1> QED
  BY <1>1, <1>2

LEMMA LinearType ==
    ASSUME NEW lo \in Ints, NEW hi \in Ints, NEW n \in Nat,
           NEW w \in LinearJitterBackoff(lo, hi, n)
    PROVE  w \in Ints
<1>1. lo \in Int /\ hi \in Int
  BY IntFacts
<1>2. lo * (n + 1) \in Int
  BY <1>1
<1>3. ASSUME NEW j \in Int PROVE Wrap(Wrap(j + lo) * (n + 1)) \in Ints
  <2>1. j + lo \in Int
    BY <1>1
  <2>2. Wrap(j + lo) \in Int
    BY <2>1, IntFacts, WrapFacts
  <2>3. Wrap(j + lo) * (n + 1) \in Int
    BY <2>2
  <2> QED
    BY <2>3, WrapFacts
<1>4. w = Wrap(lo * (n + 1)) \/ \E j \in Int : w = Wrap(Wrap(j + lo) * (n + 1))
  <2>1. hi - lo \in Int
    BY <1>1
  <2>2. Wrap(hi - lo) \in Int
    BY <2>1, IntFacts, WrapFacts
  <2> QED
    BY <2>2 DEF LinearJitterBackoff
<1> QED
  BY <1>2, <1>3, <1>4, WrapFacts

LEMMA LinearExact ==
    ASSUME NEW lo \in Nat, NEW hi \in Ints, lo <= hi, NEW n \in Nat, hi * (n + 1) <= MaxInt,
           NEW w \in LinearJitterBackoff(lo, hi, n)
    PROVE  lo * (n + 1) <= w /\ w <= hi * (n + 1)
<1>1. hi \in Nat /\ hi < Half /\ Half \in Nat /\ MaxInt = Half - 1
  BY IntFacts
<1>2. ASSUME NEW a \in lo .. hi
      PROVE  /\ Wrap(a * (n + 1)) = a * (n + 1)
             /\ lo * (n + 1) <= a * (n + 1) /\ a * (n + 1) <= hi * (n + 1)
  <2>1. lo * (n + 1) <= a * (n + 1) /\ a * (n + 1) <= hi * (n + 1)
    BY <1>1, ProductKeeps
  <2>2. a * (n + 1) \in Nat
    BY <1>1
  <2>3. hi * (n + 1) \in Nat
    BY <1>1
  <2>4. a * (n + 1) \in Ints
    BY <1>1, <2>1, <2>2, <2>3, IntFacts
  <2> QED
    BY <2>1, <2>2, <2>4, WrapFacts
<1>3. CASE hi <= lo
  <2>1. w = Wrap(lo * (n + 1)) /\ lo \in lo .. hi
    BY <1>1, <1>3 DEF LinearJitterBackoff
  <2> QED
    BY <1>2, <2>1
<1>4. CASE ~(hi <= lo)
  <2>1. Wrap(hi - lo) = hi - lo
    <3>1. hi - lo \in Int /\ hi - lo \in Ints
      BY <1>1, IntFacts
    <3> QED
      BY <3>1, WrapFacts
  <2>2. PICK j \in 0 .. (hi - lo) - 1 : w = Wrap(Wrap(j + lo) * (n + 1))
    BY <1>1, <1>4, <2>1 DEF LinearJitterBackoff
  <2>3. j + lo \in lo .. hi /\ j + lo \in Int /\ j + lo \in Ints
    BY <1>1, <2>2, IntFacts
  <2>4. Wrap(j + lo) = j + lo
    BY <2>3, WrapFacts
  <2> QED
    BY <1>2, <2>2, <2>3, <2>4
<1> QED
  BY <1>3, <1>4

LEMMA DefaultType ==
    ASSUME NEW lo \in Ints, NEW hi \in Ints, NEW n, NEW header \in Headers,
           NEW w \in DefaultBackoff(lo, hi, n, header)
    PROVE  w \in Ints
<1>1. header.n \in Ints /\ header.n \in Int /\ Second \in Int /\ 0 \in Ints
  BY BackoffAssumption, IntFacts DEF Headers
<1>2. CASE header.kind # "none"
  <2>1. w = RetryAfter(header)
    BY <1>2 DEF DefaultBackoff
  <2>2. Second * header.n \in Int
    BY <1>1
  <2> QED
    BY <1>1, <2>1, <2>2, WrapFacts DEF RetryAfter
<1>3. CASE header.kind = "none"
  <2>1. w \in Exponential(lo, hi, n)
    BY <1>3 DEF DefaultBackoff
  <2>2. MinInt \in Ints /\ MaxInt \in Ints
    BY IntFacts
  <2>3. ASSUME NEW f, NEW sleep \in Converted(f) PROVE sleep \in Ints
    BY <2>2, <2>3 DEF Converted
  <2> QED
    BY <2>1, <2>3 DEF Exponential
<1> QED
  BY <1>2, <1>3
-----------------------------------------------------------------------------
(***************************************************************************)
(* The invariant: the wait is the one the backoff computes for the attempt *)
(* before, and a power as high as the width is no Duration.                *)
(***************************************************************************)
WaitInv ==
    i > 0 => wait \in IF linear THEN LinearJitterBackoff(minWaitTime, maxWaitTime, i - 1)
                      ELSE DefaultBackoff(minWaitTime, maxWaitTime, i - 1, asked)

PowerInv == i >= W => 2 ^ (i - 1) >= Half

IInv == TypeOK /\ WaitInv /\ PowerInv

LEMMA InitInv ==
    ASSUME Init
    PROVE  IInv
<1>1. minWaitTime \in Ints /\ maxWaitTime \in minWaitTime .. MaxInt
  <2>1. PICK lo \in Waits, hi \in Waits : WithWaitTime(lo, hi)
    BY DEF Init
  <2>2. lo \in Ints /\ hi \in Ints /\ 1 \in Ints /\ 3 <= MaxInt
    BY BackoffAssumption, IntFacts
  <2> QED
    BY <2>1, <2>2, IntFacts DEF WithWaitTime, DefaultRetryMinWaitTime, DefaultRetryMaxWaitTime
<1>2. 0 \in Ints /\ 0 \in 0 .. MaxAttempts /\ ~(0 > 0) /\ ~(0 >= W)
  BY BackoffAssumption, IntFacts
<1>3. NoHeader \in Headers
  BY DEF NoHeader, Headers
<1> QED
  BY <1>1, <1>2, <1>3 DEF Init, IInv, TypeOK, WaitInv, PowerInv

LEMMA StepInv ==
    ASSUME IInv, [Next]_vars
    PROVE  IInv'
<1>1. CASE NextBackoff
  <2>1. /\ i \in 0 .. MaxAttempts /\ i < MaxAttempts /\ i' = i + 1 /\ asked' \in Headers
        /\ UNCHANGED <<minWaitTime, maxWaitTime, linear>>
        /\ wait' \in IF linear THEN LinearJitterBackoff(minWaitTime, maxWaitTime, i)
                     ELSE DefaultBackoff(minWaitTime, maxWaitTime, i, asked')
    BY <1>1 DEF NextBackoff, IInv, TypeOK
  <2>2. i' \in 0 .. MaxAttempts /\ i' - 1 = i /\ i \in Nat /\ i \in 0 .. W + MaxAttempts
        /\ W \in Nat /\ W > 1
    BY <2>1, BackoffAssumption
  <2>3. minWaitTime \in Ints /\ maxWaitTime \in Ints
    BY IntFacts DEF IInv, TypeOK, Ints
  <2>4. wait' \in Ints
    BY <2>1, <2>2, <2>3, LinearType, DefaultType
  <2>5. TypeOK'
    BY <2>1, <2>2, <2>4 DEF IInv, TypeOK
  <2>6. WaitInv'
    BY <2>1, <2>2 DEF WaitInv
  <2>7. PowerInv'
    <3>1. CASE i' < W
      BY <2>2, <3>1 DEF PowerInv
    <3>2. CASE i' = W
      <4>1. 2 ^ (i' - 1) = Half
        BY <3>2 DEF Half
      <4> QED
        BY <4>1, IntFacts DEF PowerInv
    <3>3. CASE i' > W
      <4>1. i >= W /\ i - 1 \in 0 .. W + MaxAttempts /\ (i - 1) + 1 = i
        BY <2>1, <2>2, <3>3, BackoffAssumption
      <4>2. 2 ^ (i - 1) >= Half /\ 2 ^ (i - 1) \in Nat /\ 2 ^ i = 2 * 2 ^ (i - 1)
        BY <4>1, PowerAssumption DEF IInv, PowerInv
      <4>3. 2 ^ i >= Half
        BY <4>2, IntFacts
      <4> QED
        BY <2>2, <4>3 DEF PowerInv
    <3> QED
      BY <2>2, <3>1, <3>2, <3>3
  <2> QED
    BY <2>5, <2>6, <2>7 DEF IInv
<1>2. CASE UNCHANGED vars
  BY <1>2 DEF vars, IInv, TypeOK, WaitInv, PowerInv
<1> QED
  BY <1>1, <1>2 DEF Next, Terminated

LEMMA InvCorrect == Spec => []IInv
<1>1. IInv /\ [Next]_vars => IInv'
  BY StepInv
<1> QED
  BY InitInv, <1>1, PTL DEF Spec

\* Every wait is a Duration, whatever range, Retry-After and attempt it is for.
THEOREM TypeCorrect == Spec => []TypeOK
<1>1. IInv => TypeOK
  BY DEF IInv
<1> QED
  BY InvCorrect, <1>1, PTL

\* What the invariant says of an exponential wait that nobody asked for.
LEMMA WaitExact ==
    ASSUME IInv, i > 0, ~linear, asked = NoHeader, minWaitTime >= 0
    PROVE  /\ i \in Nat /\ i - 1 \in 0 .. MaxAttempts /\ minWaitTime \in Nat
           /\ maxWaitTime \in Ints /\ maxWaitTime \in Int /\ minWaitTime <= maxWaitTime
           /\ 2 ^ (i - 1) \in Nat \ {0} /\ 2 ^ i = 2 * 2 ^ (i - 1)
           /\ i - 1 >= InfiniteAt => wait = maxWaitTime
           /\ i - 1 < InfiniteAt =>
                 \E f \in AsFloat(minWaitTime) :
                    wait = IF 2 ^ (i - 1) * f >= maxWaitTime THEN maxWaitTime
                           ELSE 2 ^ (i - 1) * f
<1>1. /\ i \in Nat /\ i - 1 \in 0 .. W + MaxAttempts /\ (i - 1) + 1 = i
      /\ i - 1 \in 0 .. MaxAttempts
  BY BackoffAssumption DEF IInv, TypeOK
<1>2. /\ minWaitTime \in Nat /\ minWaitTime \in Ints /\ maxWaitTime \in Ints /\ maxWaitTime \in Int
      /\ minWaitTime <= maxWaitTime
  BY IntFacts DEF IInv, TypeOK, Ints
<1>3. wait \in Exponential(minWaitTime, maxWaitTime, i - 1)
  BY DEF IInv, WaitInv, DefaultBackoff, NoHeader
<1>4. 2 ^ (i - 1) \in Nat \ {0} /\ 2 ^ i = 2 * 2 ^ (i - 1)
  BY <1>1, PowerAssumption
<1> QED
  BY <1>1, <1>2, <1>3, <1>4, ExponentialExact

LEMMA PowerAtLeast ==
    ASSUME NEW a \in Nat \ {0}, NEW n \in Nat
    PROVE  a * n >= n
OBVIOUS

\* DefaultBackoff stays in the range of WithWaitTime on any width, past the
\* point where the power leaves the integers and where it becomes infinite, but
\* for what the minimum loses as a float.
THEOREM ExponentialCorrect == Spec => []ExponentialInRange
<1>1. ASSUME IInv PROVE ExponentialInRange
  <2>1. ASSUME i > 0, ~linear, asked = NoHeader, minWaitTime >= 0
        PROVE  /\ wait <= maxWaitTime
               /\ minWaitTime <= 2 ^ Precision => minWaitTime <= wait
               /\ wait = maxWaitTime \/ \E f \in AsFloat(minWaitTime) : f <= wait
    <3>1. minWaitTime \in Nat /\ maxWaitTime \in Int /\ minWaitTime <= maxWaitTime
      BY <1>1, <2>1, WaitExact
    <3>2. CASE wait = maxWaitTime
      BY <3>1, <3>2
    <3>3. CASE wait # maxWaitTime
      <4>1. i - 1 < InfiniteAt
        <5>1. i - 1 \in Nat /\ InfiniteAt \in Nat
          BY <1>1, <2>1, WaitExact, BackoffAssumption
        <5> QED
          BY <1>1, <2>1, <3>3, <5>1, WaitExact
      <4>2. PICK f \in AsFloat(minWaitTime) :
               wait = IF 2 ^ (i - 1) * f >= maxWaitTime THEN maxWaitTime ELSE 2 ^ (i - 1) * f
        BY <1>1, <2>1, <4>1, WaitExact
      <4>3. f \in Nat
        BY <3>1, AsFloatFacts
      <4> DEFINE d == 2 ^ (i - 1) * f
      <4>4. d >= f /\ d \in Nat
        BY <1>1, <2>1, <4>3, WaitExact, PowerAtLeast
      <4>5. wait = d /\ ~(d >= maxWaitTime)
        BY <3>3, <4>2
      <4>6. minWaitTime <= 2 ^ Precision => f = minWaitTime
        <5>1. 2 ^ Precision \in Nat
          BY PowerFacts
        <5>2. minWaitTime <= 2 ^ Precision => minWaitTime \in Floats
          BY <3>1, <5>1, FloatFacts
        <5> QED
          BY <3>1, <5>2, AsFloatFacts
      <4> HIDE DEF d
      <4> QED
        BY <3>1, <4>3, <4>4, <4>5, <4>6
    <3> QED
      BY <3>2, <3>3
  <2> QED
    BY <2>1 DEF ExponentialInRange
<1> QED
  BY InvCorrect, <1>1, PTL

\* From the attempt that is the width of a Duration on, the wait is the maximum.
THEOREM MaximumCorrect == Spec => []ExponentialReachesMaximum
<1>1. ASSUME IInv PROVE ExponentialReachesMaximum
  <2>1. ASSUME i >= W, ~linear, asked = NoHeader, minWaitTime > 0
        PROVE  wait = maxWaitTime
    <3>1. i \in Nat /\ W \in Nat /\ W > 1 /\ minWaitTime \in Int /\ InfiniteAt \in Nat
      BY <1>1, BackoffAssumption, IntFacts DEF IInv, TypeOK
    <3>2. i > 0 /\ minWaitTime >= 0
      BY <2>1, <3>1
    <3>3. maxWaitTime < Half /\ maxWaitTime \in Int /\ Half \in Nat /\ i - 1 \in Nat
      BY <1>1, <2>1, <3>2, WaitExact, IntFacts
    <3>4. CASE i - 1 >= InfiniteAt
      BY <1>1, <2>1, <3>2, <3>4, WaitExact
    <3>5. CASE ~(i - 1 >= InfiniteAt)
      <4>1. i - 1 < InfiniteAt
        BY <3>1, <3>3, <3>5
      <4>2. PICK f \in AsFloat(minWaitTime) :
               wait = IF 2 ^ (i - 1) * f >= maxWaitTime THEN maxWaitTime ELSE 2 ^ (i - 1) * f
        BY <1>1, <2>1, <3>2, <4>1, WaitExact
      <4>3. f \in Nat \ {0}
        BY <2>1, <3>1, AsFloatFacts
      <4>4. 2 ^ (i - 1) >= Half /\ 2 ^ (i - 1) \in Nat
        BY <1>1, <2>1, <3>2, WaitExact DEF IInv, PowerInv
      <4> DEFINE d == 2 ^ (i - 1) * f
      <4>5. d >= 2 ^ (i - 1) /\ d \in Nat
        <5>1. f * 2 ^ (i - 1) >= 2 ^ (i - 1)
          BY <4>3, <4>4, PowerAtLeast
        <5> QED
          BY <4>3, <4>4, <5>1
      <4>6. wait = IF d >= maxWaitTime THEN maxWaitTime ELSE d
        BY <4>2
      <4> HIDE DEF d
      <4> QED
        BY <3>3, <4>4, <4>5, <4>6
    <3> QED
      BY <3>4, <3>5
  <2> QED
    BY <2>1 DEF ExponentialReachesMaximum
<1> QED
  BY InvCorrect, <1>1, PTL

\* Waiting again never means waiting less: the minimum is rounded the same way
\* every time.
THEOREM NeverShrinksCorrect == Spec => ExponentialNeverShrinks
<1>1. ASSUME IInv, IInv', [Next]_vars, i > 0, ~linear, asked = NoHeader, asked' = NoHeader,
             minWaitTime >= 0
      PROVE  wait' >= wait
  <2>1. CASE NextBackoff
    <3>1. /\ i' = i + 1 /\ UNCHANGED <<minWaitTime, maxWaitTime, linear>>
          /\ wait' \in Exponential(minWaitTime, maxWaitTime, i) /\ i < MaxAttempts
      BY <1>1, <2>1 DEF NextBackoff, DefaultBackoff, NoHeader
    <3>2. /\ i \in Nat /\ minWaitTime \in Nat /\ maxWaitTime \in Ints /\ maxWaitTime \in Int
          /\ minWaitTime <= maxWaitTime /\ 2 ^ (i - 1) \in Nat \ {0}
          /\ 2 ^ i = 2 * 2 ^ (i - 1)
      BY <1>1, WaitExact
    <3>3. /\ i \in 0 .. MaxAttempts /\ InfiniteAt \in Nat /\ i - 1 \in Int
          /\ minWaitTime \in Ints /\ minWaitTime >= 0
      BY <1>1, <3>1, <3>2, BackoffAssumption DEF IInv, TypeOK
    <3>4. CASE i >= InfiniteAt
      <4>1. wait' = maxWaitTime
        BY <3>1, <3>2, <3>3, <3>4, ExponentialExact
      <4>2. wait <= maxWaitTime
        <5>1. CASE i - 1 >= InfiniteAt
          BY <1>1, <3>2, <5>1, WaitExact
        <5>2. CASE ~(i - 1 >= InfiniteAt)
          <6>1. i - 1 < InfiniteAt
            BY <3>3, <5>2
          <6>2. PICK f \in AsFloat(minWaitTime) :
                   wait = IF 2 ^ (i - 1) * f >= maxWaitTime THEN maxWaitTime
                          ELSE 2 ^ (i - 1) * f
            BY <1>1, <6>1, WaitExact
          <6> DEFINE d == 2 ^ (i - 1) * f
          <6>3. d \in Int
            BY <3>2, AsFloatFacts
          <6>4. wait = IF d >= maxWaitTime THEN maxWaitTime ELSE d
            BY <6>2
          <6> HIDE DEF d
          <6> QED
            BY <3>2, <6>3, <6>4
        <5> QED
          BY <5>1, <5>2
      <4> QED
        BY <4>1, <4>2
    <3>5. CASE ~(i >= InfiniteAt)
      <4>1. i < InfiniteAt /\ i - 1 < InfiniteAt
        BY <3>2, <3>3, <3>5
      <4>2. PICK f \in AsFloat(minWaitTime) :
               wait = IF 2 ^ (i - 1) * f >= maxWaitTime THEN maxWaitTime ELSE 2 ^ (i - 1) * f
        BY <1>1, <4>1, WaitExact
      <4>3. PICK g \in AsFloat(minWaitTime) :
               wait' = IF 2 ^ i * g >= maxWaitTime THEN maxWaitTime ELSE 2 ^ i * g
        BY <3>1, <3>2, <3>3, <4>1, ExponentialExact
      <4>4. g = f /\ f \in Nat
        BY <3>2, AsFloatUnique, AsFloatFacts
      <4> DEFINE d == 2 ^ (i - 1) * f
      <4>5. d \in Nat /\ 2 ^ i * f = 2 * d
        BY <3>2, <4>4
      <4>6. wait = IF d >= maxWaitTime THEN maxWaitTime ELSE d
        BY <4>2
      <4> HIDE DEF d
      <4>7. wait' = IF 2 * d >= maxWaitTime THEN maxWaitTime ELSE 2 * d
        BY <4>3, <4>4, <4>5
      <4> QED
        BY <3>2, <4>5, <4>6, <4>7
    <3> QED
      BY <3>4, <3>5
  <2>2. CASE UNCHANGED vars
    <3>1. wait \in Int
      BY <1>1, IntFacts DEF IInv, TypeOK
    <3> QED
      BY <2>2, <3>1 DEF vars
  <2> QED
    BY <1>1, <2>1, <2>2 DEF Next, Terminated
<1>2. IInv /\ IInv' /\ [Next]_vars =>
         [i > 0 /\ ~linear /\ asked = NoHeader /\ asked' = NoHeader /\ minWaitTime >= 0
            => wait' >= wait]_vars
  BY <1>1
<1> QED
  BY InvCorrect, <1>2, PTL DEF Spec, ExponentialNeverShrinks

\* LinearJitterBackoff stays in the scaled range while that one fits.
THEOREM LinearCorrect == Spec => []LinearInRange
<1>1. ASSUME IInv PROVE LinearInRange
  <2>1. ASSUME i > 0, linear, 0 <= minWaitTime, maxWaitTime * i <= MaxInt
        PROVE  minWaitTime * i <= wait /\ wait <= maxWaitTime * i
    <3>1. /\ i \in Nat /\ i - 1 \in Nat /\ (i - 1) + 1 = i
      BY <1>1, <2>1, BackoffAssumption DEF IInv, TypeOK
    <3>2. /\ minWaitTime \in Nat /\ maxWaitTime \in Ints /\ minWaitTime <= maxWaitTime
      BY <1>1, <2>1, IntFacts DEF IInv, TypeOK, Ints
    <3>3. wait \in LinearJitterBackoff(minWaitTime, maxWaitTime, i - 1)
      BY <1>1, <2>1 DEF IInv, WaitInv
    <3> QED
      BY <2>1, <3>1, <3>2, <3>3, LinearExact
  <2> QED
    BY <2>1 DEF LinearInRange
<1> QED
  BY InvCorrect, <1>1, PTL
=============================================================================
