-------------------------- MODULE LogTransportProofs --------------------------
(***************************************************************************)
(* Proofs about the retry layer over the log layer.  The composition       *)
(* implements RetryTransport over a bare transport, so that what           *)
(* RetryTransportProofs proves of that holds for it as well; the histogram *)
(* is then followed attempt by attempt.                                    *)
(***************************************************************************)
EXTENDS LogTransport, RetryTransportProofs

\* The log layer runs within the attempt; what it has in hand is an answer
\* http.Transport may give.
Answered ==
    \/ \E s \in Statuses :
          inner = [resp |-> [src |-> "server", attempt |-> attemptNum, status |-> s],
                   err  |-> NoErr]
    \/ \E e \in TransportErrs \cup (IF ctxDone THEN {CtxErr} ELSE {}) :
          inner = [resp |-> NilResp, err |-> e]

Below ==
    /\ logPc \in {"out", "below", "back"}
    /\ logPc # "out" => pc = "send"
    /\ IF logPc = "back" THEN Answered ELSE inner = NoInner

\* What every step of the retry layer but TransportReturns leaves of an attempt
\* under way.
LEMMA RetryStepFrame ==
    ASSUME RetrySteps
    PROVE  /\ [Next]_vars
           /\ UNCHANGED logVars
           /\ pc = "send" => UNCHANGED <<pc, attemptNum>> /\ (ctxDone => ctxDone')
<1>1. [Next]_vars /\ UNCHANGED logVars
  BY DEF RetrySteps, Next
<1>2. ASSUME pc = "send" PROVE UNCHANGED <<pc, attemptNum>> /\ (ctxDone => ctxDone')
  BY <1>2 DEF RetrySteps, SkipBuffering, BufferBody, BeginAttempt, Check, Hook, Drain,
              WaitTimer, WaitCancelled, Cancel, WriteChunk, WriterCloses
<1> QED
  BY <1>1, <1>2

LEMMA BelowInit == LogInit => Below
BY DEF LogInit, Below

LEMMA BelowStep == Below /\ [LogNext]_allVars => Below'
<1> SUFFICES ASSUME Below, [LogNext]_allVars PROVE Below'
  OBVIOUS
<1> USE DEF Below
<1>1. CASE LogStart
  BY <1>1 DEF LogStart, vars
<1>2. CASE BaseAnswers
  <2>1. UNCHANGED <<pc, ctxDone, attemptNum>>
    BY <1>2 DEF BaseAnswers, vars
  <2>2. Answered'
    BY <1>2, <2>1 DEF BaseAnswers, Answered
  <2> QED
    BY <1>2, <2>1, <2>2 DEF BaseAnswers
<1>3. CASE LogReturns
  BY <1>3 DEF LogReturns
<1>4. CASE Tick
  BY <1>4 DEF Tick, vars, Answered
<1>5. CASE RetrySteps
  BY <1>5, RetryStepFrame DEF logVars, Answered
<1>6. CASE UNCHANGED allVars
  BY <1>6 DEF allVars, logVars, vars, Answered
<1> QED
  BY <1>1, <1>2, <1>3, <1>4, <1>5, <1>6 DEF LogNext, LogTerminated, Terminated, allVars

LEMMA BelowCorrect == LogSpec => []Below
BY BelowInit, BelowStep, PTL DEF LogSpec
-----------------------------------------------------------------------------
(***************************************************************************)
(* The refinement: the log layer's return is the transport's, its other    *)
(* steps and the clock are nobody's.                                       *)
(***************************************************************************)
LEMMA LogReturnsIsTransportReturns ==
    ASSUME Below, LogReturns
    PROVE  TransportReturns
<1>1. pc = "send" /\ Answered
  BY DEF Below, LogReturns
<1>2. CASE \E s \in Statuses :
              inner = [resp |-> [src |-> "server", attempt |-> attemptNum, status |-> s],
                       err  |-> NoErr]
  <2>1. inner.resp # NilResp
    BY <1>2 DEF NilResp
  <2> QED
    BY <1>1, <1>2, <2>1 DEF LogReturns, Returned, TransportReturns
<1>3. CASE \E e \in TransportErrs \cup (IF ctxDone THEN {CtxErr} ELSE {}) :
              inner = [resp |-> NilResp, err |-> e]
  BY <1>1, <1>3 DEF LogReturns, Returned, TransportReturns
<1> QED
  BY <1>1, <1>2, <1>3 DEF Answered

LEMMA TransparentStep == Below /\ [LogNext]_allVars => [Next]_vars
<1> SUFFICES ASSUME Below, [LogNext]_allVars PROVE [Next]_vars
  OBVIOUS
<1>1. CASE LogReturns
  BY <1>1, LogReturnsIsTransportReturns DEF Next
<1>2. CASE RetrySteps
  BY <1>2, RetryStepFrame
<1> QED
  BY <1>1, <1>2 DEF LogNext, LogStart, BaseAnswers, Tick, LogTerminated, Terminated, allVars

\* The retry layer does not notice the log layer: every behaviour of the two
\* together is one of the retry layer over http.Transport.
THEOREM TransparentCorrect == LogSpec => Transparent
<1>1. LogInit => Init
  BY DEF LogInit
<1> QED
  BY <1>1, TransparentStep, BelowCorrect, PTL DEF LogSpec, Transparent, Spec

\* What is proved of the retry layer alone holds with the log layer under it:
\* the limit, whole payloads, closed bodies, nothing leaked, a readable response.
THEOREM ComposedCorrect ==
    LogSpec => [](/\ AttemptsWithinLimit /\ PayloadIntact /\ CallerBodyClosed
                  /\ NoResponseLeak /\ ReturnedResponseReadable)
BY TransparentCorrect, LimitCorrect, ReplayCorrect, CloseCorrect, LeakCorrect,
   ReadableCorrect, PTL DEF Transparent

\* With the default policy the two layers together keep what http.Client is
\* promised of a round trip.
THEOREM ComposedContractCorrect ==
    ASSUME CustomPolicy = FALSE
    PROVE  LogSpec => KeepsContract
BY TransparentCorrect, ContractCorrect, PTL DEF Transparent
-----------------------------------------------------------------------------
(***************************************************************************)
(* The histogram has one entry per attempt that has been answered; an      *)
(* attempt whose GetBody failed was never one.                             *)
(***************************************************************************)
Clock ==
    /\ now \in 0 .. MaxTime /\ startedAt \in 0 .. MaxTime
    /\ logPc # "out" => startedAt <= now

Recorded ==
    /\ observed \in Seq(Observations)
    /\ pc = "send" => Len(observed) = attemptNum - 1
    /\ pc \in {"start", "attempt", "check", "hook", "drain", "wait"}
          => Len(observed) = attemptNum
    /\ \A a \in 1 .. Len(observed) : observed[a].attempt = a
    /\ pc \in {"check", "hook", "drain", "wait"} /\ response.src = "server"
          => observed[attemptNum].status = response.status
    /\ pc = "check" /\ response = NilResp => observed[attemptNum].status = -1
    /\ slow \subseteq Attempts /\ access \subseteq Attempts

LogInv == Below /\ Clock /\ Recorded

LEMMA LogInvInit == LogInit => LogInv
BY BelowInit, LogAssumption, BudgetFacts DEF LogInit, Init, LogInv, Clock, Recorded

\* What a step of the retry layer does to the number of attempts and to the
\* response that is being judged.
LEMMA AttemptFrame ==
    ASSUME ControlInv, RetrySteps
    PROVE  \/ /\ pc \in {"start", "attempt"} /\ pc' \in {"attempt", "done"}
              /\ pc' = "attempt" => UNCHANGED attemptNum
           \/ /\ pc = "attempt" /\ pc' = "send" /\ attemptNum' = attemptNum + 1
           \/ /\ pc' \in {pc, "hook", "drain", "wait", "attempt", "done", "panic"}
              /\ pc' = pc \/ pc \in {"check", "hook", "drain", "wait"}
              /\ UNCHANGED attemptNum
              /\ response' = response \/ response'.src # "server"
              /\ pc' = "check" => response' = response
<1>1. CASE Check
  BY <1>1, ConcludeFacts DEF Check, respVars
<1>2. CASE Hook
  <2>1. response' = response \/ response'.src # "server"
    BY <1>2 DEF Hook, HookLeaves, HookResponses, NilResp
  <2> QED
    BY <1>2, <2>1, ConcludeFacts DEF Hook
<1>3. CASE SkipBuffering \/ BufferBody \/ BeginAttempt
  BY <1>3 DEF SkipBuffering, BufferBody, BeginAttempt, Return
<1>4. CASE Drain \/ WaitTimer \/ WaitCancelled \/ Cancel
  BY <1>4 DEF Drain, WaitTimer, WaitCancelled, Cancel, Return, respVars
<1>5. ASSUME NEW a \in Attempts, WriteChunk(a) \/ WriterCloses(a)
      PROVE  UNCHANGED <<pc, attemptNum, response>>
  BY <1>5 DEF WriteChunk, WriterCloses, respVars
<1> QED
  BY <1>1, <1>2, <1>3, <1>4, <1>5 DEF RetrySteps

LEMMA LogInvStep == ControlInv /\ LogInv /\ [LogNext]_allVars => LogInv'
<1> SUFFICES ASSUME ControlInv, LogInv, [LogNext]_allVars PROVE LogInv'
  OBVIOUS
<1>1. Below'
  BY BelowStep DEF LogInv
<1>2. Clock'
  BY LogAssumption
     DEF LogInv, Clock, Below, LogNext, LogStart, StartTime, BaseAnswers, LogReturns, Tick,
         RetrySteps, LogTerminated, allVars, logVars
<1>3. ASSUME UNCHANGED <<vars, observed, slow, access>> PROVE Recorded'
  BY <1>3 DEF LogInv, Recorded, vars, respVars
<1>4. ASSUME LogReturns PROVE Recorded'
  <2>1. pc = "send" /\ Answered /\ attemptNum \in Attempts /\ attemptNum \in Nat
    BY <1>4 DEF LogInv, Below, LogReturns, ControlInv, Control, TypeOK, Attempts
  <2>2. /\ Observation \in Observations
        /\ Observation.attempt = attemptNum
        /\ inner.resp.src = "server" => Observation.status = inner.resp.status
        /\ inner.resp = NilResp => Observation.status = -1
    <3>1. now - startedAt \in 0 .. MaxTime
      BY <1>4, LogAssumption DEF LogReturns, LogInv, Clock
    <3>2. CASE \E s \in Statuses :
              inner = [resp |-> [src |-> "server", attempt |-> attemptNum, status |-> s],
                       err  |-> NoErr]
      BY <2>1, <3>1, <3>2 DEF Observation, Observations, NilResp
    <3>3. CASE \E e \in TransportErrs \cup (IF ctxDone THEN {CtxErr} ELSE {}) :
              inner = [resp |-> NilResp, err |-> e]
      <4>1. inner.err # NoErr /\ inner.resp.src # "server"
        <5>1. NoErr \notin TransportErrs \cup {CtxErr}
          BY RetryAssumption DEF NoErr, CtxErr, TransportErrs, PermanentKinds, TransientKinds
        <5> QED
          BY <3>3, <5>1 DEF NilResp
      <4> QED
        BY <2>1, <3>1, <4>1 DEF Observation, Observations
    <3> QED
      BY <2>1, <3>2, <3>3 DEF Answered
  <2>3. /\ Len(observed) = attemptNum - 1
        /\ observed' = Append(observed, Observation)
        /\ observed \in Seq(Observations)
    BY <1>4, <2>1 DEF LogReturns, Observe, LogInv, Recorded
  <2>4. /\ observed' \in Seq(Observations)
        /\ Len(observed') = attemptNum
        /\ observed'[attemptNum] = Observation
        /\ \A a \in 1 .. attemptNum - 1 : observed'[a] = observed[a]
    BY <2>1, <2>2, <2>3
  <2>5. \A a \in 1 .. attemptNum : observed'[a].attempt = a
    BY <2>1, <2>2, <2>3, <2>4 DEF LogInv, Recorded
  <2>6. slow' \subseteq Attempts /\ access' \subseteq Attempts
    BY <1>4, <2>1 DEF LogReturns, LogInv, Recorded
  <2>7. attemptNum' = attemptNum /\ pc' = "check" /\ response' = inner.resp
    BY <1>4 DEF LogReturns, Returned
  <2> QED
    BY <2>2, <2>4, <2>5, <2>6, <2>7 DEF Recorded
<1>5. ASSUME RetrySteps PROVE Recorded'
  <2>1. UNCHANGED <<observed, slow, access>>
    BY <1>5 DEF RetrySteps, logVars, lineVars
  <2>2. attemptNum \in Nat
    BY DEF ControlInv, TypeOK
  <2> QED
    BY <1>5, <2>1, <2>2, AttemptFrame DEF LogInv, Recorded
<1>6. Recorded'
  BY <1>3, <1>4, <1>5
     DEF LogNext, LogStart, BaseAnswers, Tick, LogTerminated, Terminated, allVars, logVars,
         lineVars
<1> QED
  BY <1>1, <1>2, <1>6 DEF LogInv

LEMMA LogControlCorrect == LogSpec => []ControlInv
BY TransparentCorrect, ControlCorrect, PTL DEF Transparent

LEMMA LogInvCorrect == LogSpec => []LogInv
BY LogInvInit, LogInvStep, LogControlCorrect, PTL DEF LogSpec

\* The histogram is given every attempt once, in order, with the status the
\* server gave it, or -1, whatever the hook has made of the answer since.
THEOREM ObservedCorrect == LogSpec => []EveryAttemptObserved
<1>1. LogInv => EveryAttemptObserved
  BY DEF LogInv, Recorded, EveryAttemptObserved
<1> QED
  BY <1>1, LogInvCorrect, PTL
-----------------------------------------------------------------------------
(***************************************************************************)
(* The latencies.  While an attempt is in the log layer, the clock has      *)
(* advanced since startedAt by no less than http.Transport has taken and   *)
(* by no more than the attempt has lasted; an attempt that has not entered *)
(* the log layer has taken nothing.                                        *)
(***************************************************************************)
Spans ==
    /\ below \in [Attempts -> Nat] /\ during \in [Attempts -> Nat]
    /\ LatencyOfAttempt
    /\ logPc # "out" => /\ below[attemptNum] <= now - startedAt
                        /\ now - startedAt <= during[attemptNum]
    /\ \A a \in Attempts : a > Len(observed) /\ ~(logPc # "out" /\ a = attemptNum)
                            => below[a] = 0

LEMMA SpansInit == LogInit => Spans
<1> SUFFICES ASSUME LogInit PROVE Spans
  OBVIOUS
<1>1. /\ below = [a \in Attempts |-> 0] /\ during = [a \in Attempts |-> 0]
      /\ observed = <<>> /\ logPc = "out"
  BY DEF LogInit
<1>2. \A a \in 1 .. Len(observed) : FALSE
  BY <1>1
<1>3. below \in [Attempts -> Nat] /\ during \in [Attempts -> Nat]
  BY <1>1
<1> QED
  BY <1>1, <1>2, <1>3 DEF Spans, LatencyOfAttempt

\* Where an attempt is in the numbering of what has been observed.
LEMMA SpanFacts ==
    ASSUME ControlInv, LogInv
    PROVE  /\ now \in Nat /\ startedAt \in Nat
           /\ Len(observed) \in Nat /\ observed \in Seq(Observations)
           /\ \A a \in 1 .. Len(observed) : observed[a].latency \in Int
           /\ logPc # "out" => pc = "send" /\ startedAt <= now
           /\ pc = "send" => attemptNum \in Attempts /\ Len(observed) = attemptNum - 1
           /\ Attempts \subseteq Nat /\ attemptNum \in Nat
<1>1. now \in Nat /\ startedAt \in Nat /\ (logPc # "out" => pc = "send" /\ startedAt <= now)
  BY LogAssumption DEF LogInv, Clock, Below
<1>2. observed \in Seq(Observations)
  BY DEF LogInv, Recorded
<1>3. ASSUME NEW a \in 1 .. Len(observed) PROVE observed[a].latency \in Int
  <2>1. observed[a] \in Observations
    BY <1>2
  <2> QED
    BY <2>1, LogAssumption DEF Observations
<1>4. pc = "send" => attemptNum \in Attempts /\ Len(observed) = attemptNum - 1
  BY DEF LogInv, Recorded, ControlInv, Control, TypeOK, Attempts
<1>5. Attempts \subseteq Nat /\ attemptNum \in Nat
  BY BudgetFacts DEF Attempts, ControlInv, TypeOK
<1> QED
  BY <1>1, <1>2, <1>3, <1>4, <1>5

LEMMA SpansStep ==
    ASSUME ControlInv, LogInv, Spans, [LogNext]_allVars
    PROVE  Spans'
<1> DEFINE n == Len(observed)
<1>1. /\ now \in Nat /\ startedAt \in Nat /\ n \in Nat /\ observed \in Seq(Observations)
      /\ \A a \in 1 .. n : observed[a].latency \in Int
      /\ logPc # "out" => pc = "send" /\ startedAt <= now
      /\ pc = "send" => attemptNum \in Attempts /\ n = attemptNum - 1
      /\ Attempts \subseteq Nat /\ attemptNum \in Nat
  BY SpanFacts
<1>2. /\ below \in [Attempts -> Nat] /\ during \in [Attempts -> Nat]
      /\ \A a \in 1 .. n : below[a] <= observed[a].latency /\ observed[a].latency <= during[a]
      /\ logPc # "out" => /\ below[attemptNum] <= now - startedAt
                          /\ now - startedAt <= during[attemptNum]
      /\ \A a \in Attempts : a > n /\ ~(logPc # "out" /\ a = attemptNum) => below[a] = 0
  BY DEF Spans, LatencyOfAttempt
<1>3. CASE LogStart
  <2>1. /\ logPc = "out" /\ pc = "send" /\ startedAt' = now
        /\ UNCHANGED <<now, observed, attemptNum, below, during>>
    BY <1>3 DEF LogStart, StartTime, vars, lineVars, spanVars
  <2>2. below[attemptNum] = 0 /\ during[attemptNum] \in Nat
    BY <1>1, <1>2, <2>1
  <2> HIDE DEF n
  <2>3. now' - startedAt' = 0
    BY <1>1, <2>1
  <2> QED
    BY <1>1, <1>2, <2>1, <2>2, <2>3 DEF Spans, LatencyOfAttempt, n
<1>4. CASE LogReturns
  <2> DEFINE last == now - startedAt
  <2>1. /\ logPc = "back" /\ logPc' = "out" /\ pc = "send"
        /\ UNCHANGED <<attemptNum, below, during>>
        /\ observed' = Append(observed, Observation)
        /\ Observation.latency = last
    BY <1>1, <1>4 DEF LogReturns, Observe, Observation, spanVars
  <2>2. /\ Len(observed') = n + 1
        /\ observed'[n + 1] = Observation
        /\ \A a \in 1 .. n : observed'[a] = observed[a]
    BY <1>1, <2>1
  <2>3. attemptNum = n + 1
    BY <1>1, <2>1
  <2>4. below[attemptNum] <= last /\ last <= during[attemptNum]
    BY <1>2, <2>1
  <2> HIDE DEF last, n
  <2>5. ASSUME NEW a \in 1 .. n + 1
        PROVE  below[a] <= observed'[a].latency /\ observed'[a].latency <= during[a]
    <3>1. CASE a = n + 1
      BY <2>1, <2>2, <2>3, <2>4, <3>1
    <3>2. CASE a \in 1 .. n
      BY <1>2, <2>2, <3>2
    <3> QED
      BY <1>1, <3>1, <3>2
  <2>6. \A a \in Attempts : a > n + 1 => below[a] = 0
    BY <1>1, <1>2, <2>3
  <2> QED
    BY <1>2, <2>1, <2>2, <2>5, <2>6 DEF Spans, LatencyOfAttempt
<1>5. CASE Tick
  <2>1. /\ now' = now + 1
        /\ below' = Timed(below, logPc = "below") /\ during' = Timed(during, pc = "send")
        /\ UNCHANGED <<attemptNum, logPc, startedAt, observed>>
    BY <1>5 DEF Tick, vars, lineVars
  <2>2. /\ below' \in [Attempts -> Nat] /\ during' \in [Attempts -> Nat]
        /\ \A a \in Attempts : a # attemptNum => below'[a] = below[a] /\ during'[a] = during[a]
        /\ pc # "send" => below' = below /\ during' = during
        /\ pc = "send" => /\ during'[attemptNum] = during[attemptNum] + 1
                          /\ below'[attemptNum] \in {below[attemptNum], below[attemptNum] + 1}
        /\ logPc = "out" => below' = below
    BY <1>1, <1>2, <2>1 DEF Timed
  <2>3. /\ now' - startedAt' = now - startedAt + 1
        /\ now - startedAt \in Int
    BY <1>1, <2>1
  <2>4. ASSUME NEW a \in 1 .. n
        PROVE  below'[a] <= observed[a].latency /\ observed[a].latency <= during'[a]
    <3>1. CASE pc = "send"
      <4>1. a # attemptNum /\ a \in Attempts
        <5>1. /\ a \in Nat /\ 1 <= a /\ a <= n /\ n = attemptNum - 1
              /\ attemptNum \in 1 .. Budget /\ Budget \in Nat
          BY <1>1, <3>1, BudgetFacts DEF Attempts
        <5> HIDE DEF n
        <5> QED
          BY <5>1 DEF Attempts
      <4> QED
        BY <1>2, <2>2, <4>1
    <3>2. CASE pc # "send"
      BY <1>2, <2>2, <3>2
    <3> QED
      BY <3>1, <3>2
  <2>5. logPc # "out" => /\ below'[attemptNum] <= now' - startedAt'
                         /\ now' - startedAt' <= during'[attemptNum]
    <3> SUFFICES ASSUME logPc # "out"
                 PROVE  /\ below'[attemptNum] <= now' - startedAt'
                        /\ now' - startedAt' <= during'[attemptNum]
      OBVIOUS
    <3>1. below[attemptNum] \in Nat /\ during[attemptNum] \in Nat
      BY <1>1, <1>2
    <3> QED
      BY <1>1, <1>2, <2>2, <2>3, <3>1
  <2>6. \A a \in Attempts : a > n /\ ~(logPc # "out" /\ a = attemptNum) => below'[a] = 0
    BY <1>2, <2>2
  <2> HIDE DEF n
  <2> QED
    BY <2>1, <2>2, <2>4, <2>5, <2>6 DEF Spans, LatencyOfAttempt, n
<1>6. CASE BaseAnswers
  <2>1. /\ logPc = "below" /\ logPc' = "back"
        /\ UNCHANGED <<now, startedAt, observed, attemptNum, below, during>>
    BY <1>6 DEF BaseAnswers, vars, lineVars, spanVars
  <2> HIDE DEF n
  <2> QED
    BY <1>2, <2>1 DEF Spans, LatencyOfAttempt, n
<1>7. CASE RetrySteps
  <2>1. /\ UNCHANGED <<logPc, now, startedAt, observed, below, during>>
        /\ logPc # "out" => attemptNum' = attemptNum
    BY <1>1, <1>7, RetryStepFrame DEF logVars, lineVars, spanVars
  <2> HIDE DEF n
  <2> QED
    BY <1>2, <2>1 DEF Spans, LatencyOfAttempt, n
<1>8. CASE UNCHANGED allVars
  BY <1>8 DEF Spans, LatencyOfAttempt, allVars, vars, logVars, lineVars, spanVars
<1> QED
  BY <1>3, <1>4, <1>5, <1>6, <1>7, <1>8 DEF LogNext, LogTerminated, Terminated, allVars

LEMMA SpansCorrect == LogSpec => []Spans
BY SpansInit, SpansStep, LogControlCorrect, LogInvCorrect, PTL DEF LogSpec

\* Every latency the histogram is given covers all http.Transport took for that
\* attempt and no time outside it: no backoff, no other attempt.
THEOREM LatencyCorrect == LogSpec => []LatencyOfAttempt
BY SpansCorrect, PTL DEF Spans
-----------------------------------------------------------------------------
\* Every variable of the two layers keeps its type, the latency of every
\* observation included.
THEOREM LogTypeCorrect == LogSpec => []LogTypeOK
<1>1. ControlInv /\ LogInv /\ Spans => LogTypeOK
  <2> SUFFICES ASSUME ControlInv, LogInv, Spans PROVE LogTypeOK
    OBVIOUS
  <2>1. inner \in [resp : Responses \cup {NilResp}, err : Errors]
    <3>1. CASE logPc = "back"
      <4>1. attemptNum \in Attempts /\ Answered
        BY <3>1 DEF LogInv, Below, ControlInv, Control, TypeOK, Attempts
      <4> QED
        BY <4>1, ErrorTypes DEF Answered, Responses
    <3>2. CASE logPc # "back"
      BY <3>2, ErrorTypes DEF LogInv, Below, NoInner
    <3> QED
      BY <3>1, <3>2
  <2> QED
    BY <2>1 DEF LogTypeOK, LogInv, Below, Clock, Recorded, ControlInv, Spans
<1> QED
  BY <1>1, LogControlCorrect, LogInvCorrect, SpansCorrect, PTL
=============================================================================
