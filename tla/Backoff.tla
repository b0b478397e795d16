------------------------------ MODULE Backoff ------------------------------
(***************************************************************************)
(* The waits between the attempts of one request: WithWaitTime             *)
(* (http_retry_trans.go), DefaultBackoff, parseRetryAfter and              *)
(* LinearJitterBackoff (http_retry_policy.go), on integers of W bits for   *)
(* time.Duration, which wrap around, and on floating point numbers, which  *)
(* are fewer than the integers and have infinities.                        *)
(***************************************************************************)
EXTENDS Integers

CONSTANTS
    W,            \* bits of a time.Duration
    Precision,    \* bits of the mantissa of a float64, 53 in Go
    Second,       \* time.Second, as a Duration
    Waits,        \* arguments of WithWaitTime
    RetryAfters,  \* what servers put into Retry-After, when it is a number
    InfiniteAt,   \* math.Pow(2, n) is +Inf from here on
    MaxAttempts   \* bound: attempts of the request

MaxInt == 2 ^ (W - 1) - 1
MinInt == -(2 ^ (W - 1))
Ints   == MinInt .. MaxInt

\* DefaultRetryMinWaitTime and DefaultRetryMaxWaitTime, scaled down.
DefaultRetryMinWaitTime == 1
DefaultRetryMaxWaitTime == 3

ASSUME BackoffAssumption ==
    /\ W \in Nat \ {0, 1}
    /\ Precision \in 1 .. W
    /\ DefaultRetryMaxWaitTime <= MaxInt
    /\ Second \in Ints /\ Second > 0
    /\ Waits \subseteq Ints
    /\ RetryAfters \subseteq Ints
    /\ InfiniteAt \in Nat /\ InfiniteAt >= W
    /\ MaxAttempts \in Nat

\* Nothing but arithmetic: what 2 ^ n is, for the provers, who have no meaning
\* for a power with a variable in it.
ASSUME PowerAssumption ==
    \A n \in 0 .. W + MaxAttempts :
        /\ 2 ^ n \in Nat \ {0} /\ 2 ^ (n + 1) = 2 * 2 ^ n
        /\ n > W => 2 ^ n > 2 ^ W
        /\ \A m \in 0 .. n : 2 ^ m * 2 ^ (n - m) = 2 ^ n

Wrap(n) == ((n - MinInt) % 2 ^ W) + MinInt

VARIABLES
    minWaitTime, maxWaitTime,   \* of the RetryTransOption
    i,                          \* attempts made before this one
    linear,                     \* is the backoff LinearJitterBackoff?
    asked,                      \* the Retry-After of the last answer
    wait                        \* how long the timer was set to

vars == <<minWaitTime, maxWaitTime, i, linear, asked, wait>>

\* What an answer says: nothing that is honoured (another status, no header, a
\* value that is neither a number nor a date), a number of seconds, or a date,
\* so many units of time away.
Headers == [kind : {"none"}, n : {0}] \cup [kind : {"seconds", "date"}, n : RetryAfters]
NoHeader == [kind |-> "none", n |-> 0]

TypeOK ==
    /\ minWaitTime \in Ints /\ maxWaitTime \in minWaitTime .. MaxInt
    /\ i \in 0 .. MaxAttempts
    /\ linear \in BOOLEAN
    /\ asked \in Headers
    /\ wait \in Ints

\* Mutant: a range that is upside down is taken.
WithAnyWaitTime(lo, hi) == minWaitTime = lo /\ maxWaitTime = hi

\* WithWaitTime ignores a range that is upside down.
WithWaitTime(lo, hi) ==
    IF hi >= lo
    THEN minWaitTime = lo /\ maxWaitTime = hi
    ELSE minWaitTime = DefaultRetryMinWaitTime /\ maxWaitTime = DefaultRetryMaxWaitTime

Init ==
    /\ \E lo, hi \in Waits : WithWaitTime(lo, hi)
    /\ linear \in BOOLEAN
    /\ i = 0
    /\ asked = NoHeader
    /\ wait = 0

\* parseRetryAfter: negative counts as zero; seconds are multiplied as
\* Durations, time.Time.Sub saturates.
RetryAfter(header) ==
    IF header.n < 0 THEN 0
    ELSE IF header.kind = "seconds" THEN Wrap(Second * header.n) ELSE header.n

\* A float64 too large for an int64 becomes MinInt64 on amd64, and the nearest
\* integer on arm64.
Converted(f) ==
    IF f \in Ints THEN {f} ELSE {MinInt, IF f > 0 THEN MaxInt ELSE MinInt}

\* What a float64 can be, as far as Durations reach.
Floats == {m * 2 ^ e : m \in -(2 ^ Precision) .. 2 ^ Precision, e \in 0 .. W}

Distance(a, b) == IF a > b THEN a - b ELSE b - a

Nearest(n) == {f \in Floats : \A g \in Floats : Distance(n, f) <= Distance(n, g)}

\* float64(n) is the nearest float; halfway between two, the one whose mantissa
\* is even: a multiple of twice their distance.
AsFloat(n) ==
    {f \in Nearest(n) : \A g \in Nearest(n) \ {f} : f % (2 * Distance(f, g)) = 0}

\* Mutants: the conversion is not checked; the power is shifted, not multiplied.
ExponentialUnchecked(lo, hi, n) ==
    IF n >= InfiniteAt THEN {hi}
    ELSE UNION {{IF sleep > hi THEN hi ELSE sleep : sleep \in Converted(2 ^ n * f)} :
                   f \in AsFloat(lo)}

ExponentialShifted(lo, hi, n) ==
    LET sleep == Wrap(2 ^ n * lo) IN {IF sleep > hi THEN hi ELSE sleep}

\* With an infinite power the product is infinite, or not a number, and
\* compares unequal to any converted value. A finite power of two only moves
\* the exponent of the product, which is exact.
Exponential(lo, hi, n) ==
    IF n >= InfiniteAt THEN {hi}
    ELSE UNION {LET duration == 2 ^ n * f
                IN {IF duration \notin AsFloat(sleep) \/ sleep > hi THEN hi ELSE sleep :
                       sleep \in Converted(duration)} : f \in AsFloat(lo)}

DefaultBackoff(lo, hi, n, header) ==
    IF header.kind # "none" THEN {RetryAfter(header)} ELSE Exponential(lo, hi, n)

\* Mutant: the attempt is not counted from one.
LinearFromZero(lo, hi, n) ==
    IF hi <= lo THEN {Wrap(lo * n)} ELSE {Wrap(Wrap(j + lo) * n) : j \in 0 .. hi - lo - 1}

\* The random base is drawn from the range before the upper end, whose width
\* may overflow; the conversion to an integer truncates. (The width is rounded
\* too, by less than the largest random number is below one.)
LinearJitterBackoff(lo, hi, n) ==
    LET width  == Wrap(hi - lo)
        jitter == IF width > 0 THEN 0 .. width - 1 ELSE width + 1 .. 0
    IN IF hi <= lo THEN {Wrap(lo * (n + 1))}
                   ELSE {Wrap(Wrap(j + lo) * (n + 1)) : j \in jitter}

NextBackoff ==
    /\ i < MaxAttempts
    /\ i' = i + 1
    /\ asked' \in Headers
    /\ wait' \in IF linear THEN LinearJitterBackoff(minWaitTime, maxWaitTime, i)
                 ELSE DefaultBackoff(minWaitTime, maxWaitTime, i, asked')
    /\ UNCHANGED <<minWaitTime, maxWaitTime, linear>>

Terminated == i = MaxAttempts /\ UNCHANGED vars

Next == NextBackoff \/ Terminated

Spec == Init /\ [][Next]_vars
-----------------------------------------------------------------------------
(***************************************************************************)
(* Properties.                                                             *)
(***************************************************************************)

\* An exponential wait lies in the configured range, also where 2^n times the
\* minimum has left the integers. A minimum that is no float64 counts as the
\* nearest one, and may be undercut by as much.
ExponentialInRange ==
    i > 0 /\ ~linear /\ asked = NoHeader /\ minWaitTime >= 0
        => /\ wait <= maxWaitTime
           /\ minWaitTime <= 2 ^ Precision => minWaitTime <= wait
           /\ wait = maxWaitTime \/ \E f \in AsFloat(minWaitTime) : f <= wait

\* It never shrinks from one attempt to the next ...
ExponentialNeverShrinks ==
    [][i > 0 /\ ~linear /\ asked = NoHeader /\ asked' = NoHeader /\ minWaitTime >= 0
          => wait' >= wait]_vars

\* ... and reaches the maximum, to stay there.
ExponentialReachesMaximum ==
    i >= W /\ ~linear /\ asked = NoHeader /\ minWaitTime > 0 => wait = maxWaitTime

\* A linear wait lies in the range scaled by the attempt, as long as the scaled
\* range is one of Durations.
LinearInRange ==
    i > 0 /\ linear /\ 0 <= minWaitTime /\ maxWaitTime * i <= MaxInt
        => minWaitTime * i <= wait /\ wait <= maxWaitTime * i
=============================================================================
