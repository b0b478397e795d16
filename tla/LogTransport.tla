---------------------------- MODULE LogTransport ----------------------------
(***************************************************************************)
(* logTransport.RoundTrip (http_log_trans.go, metric.go) where             *)
(* wrapTransport puts it: under the retry layer, so that one call of it is *)
(* one attempt.  RetryTransport is extended: its step TransportReturns is  *)
(* replaced by the call of the log layer, the answer of http.Transport and *)
(* the return of the log layer, with a clock beside them.                  *)
(***************************************************************************)
EXTENDS RetryTransport, Sequences

CONSTANTS
    SlowLog,          \* LogTransOption: enableSlowLog, slowLatency,
    SlowLatency,
    IgnoreNotFound,   \* ignoreNotFound,
    AccessLog,        \* enableAccessLog
    MaxTime           \* bound: the clock

ASSUME LogAssumption ==
    /\ SlowLog \in BOOLEAN /\ IgnoreNotFound \in BOOLEAN /\ AccessLog \in BOOLEAN
    /\ SlowLatency \in Int
    /\ MaxTime \in Nat

VARIABLES
    logPc,      \* where the log layer is
    inner,      \* its resp and err
    now,
    startedAt,
    observed,   \* what the histogram has been given
    slow,       \* attempts with a line "thttp slow request observed"
    access,     \* ... with a line "thttp request access log entry"
    below,      \* history: how long each attempt was in http.Transport,
    during      \* ... and how long it lasted for the retry layer

lineVars == <<observed, slow, access>>
spanVars == <<below, during>>
logVars  == <<logPc, inner, now, startedAt, lineVars, spanVars>>
allVars  == <<vars, logVars>>

NoInner == [resp |-> NilResp, err |-> NoErr]

Observations == [attempt : Attempts, status : Statuses \cup {-1}, latency : 0 .. MaxTime]

LogTypeOK ==
    /\ TypeOK
    /\ logPc \in {"out", "below", "back"}
    /\ inner \in [resp : Responses \cup {NilResp}, err : Errors]
    /\ now \in 0 .. MaxTime /\ startedAt \in 0 .. MaxTime
    /\ observed \in Seq(Observations)
    /\ slow \subseteq Attempts /\ access \subseteq Attempts
    /\ below \in [Attempts -> Nat] /\ during \in [Attempts -> Nat]
-----------------------------------------------------------------------------
LogInit ==
    /\ Init
    /\ logPc = "out"
    /\ inner = NoInner
    /\ now = 0
    /\ startedAt = 0
    /\ observed = <<>>
    /\ slow = {}
    /\ access = {}
    /\ below = [a \in Attempts |-> 0]
    /\ during = [a \in Attempts |-> 0]

\* Mutant: the first attempt's start is kept for the next.
StartedOnce == IF attemptNum = 1 THEN now ELSE startedAt

StartTime == now

LogStart ==
    /\ pc = "send"
    /\ logPc = "out"
    /\ logPc' = "below"
    /\ startedAt' = StartTime
    /\ UNCHANGED <<vars, inner, now, lineVars, spanVars>>

\* http.Transport returns when it has the header of a response, or an error.
BaseAnswers ==
    /\ logPc = "below"
    /\ logPc' = "back"
    /\ inner' \in
          [resp : [src : {"server"}, attempt : {attemptNum}, status : Statuses],
           err  : {NoErr}]
          \cup
          [resp : {NilResp},
           err  : TransportErrs \cup (IF ctxDone THEN {CtxErr} ELSE {})]
    /\ UNCHANGED <<vars, now, startedAt, lineVars, spanVars>>

ShouldEmitSlowLog == inner.err # NoErr \/ ~(IgnoreNotFound /\ inner.resp.status = 404)

\* Mutant: the status is read from the response although there is none.
ObservationUnguarded ==
    [attempt |-> attemptNum, status |-> inner.resp.status, latency |-> now - startedAt]

Observation ==
    [attempt |-> attemptNum,
     status  |-> IF inner.err # NoErr THEN -1 ELSE inner.resp.status,
     latency |-> now - startedAt]

\* Mutants: only responses are observed; the error is lost on the way.
ObservingResponses ==
    IF inner.err # NoErr THEN observed ELSE Append(observed, Observation)

ReturningNoError == [inner EXCEPT !.err = NoErr]

Observe == Append(observed, Observation)

Returned == inner

\* The observation, the lines, and back to the retry layer.
LogReturns ==
    /\ logPc = "back"
    /\ logPc' = "out"
    /\ observed' = Observe
    /\ slow' = IF SlowLog /\ now - startedAt > SlowLatency /\ ShouldEmitSlowLog
               THEN slow \cup {attemptNum} ELSE slow
    /\ access' = IF AccessLog THEN access \cup {attemptNum} ELSE access
    /\ response' = Returned.resp
    /\ respErr' = Returned.err
    /\ openResps' = openResps \cup ({Returned.resp} \ {NilResp})
    /\ inner' = NoInner
    /\ pc' = "check"
    /\ UNCHANGED <<req, ctxDone, attemptNum, result, cancelAt, bodyVars, hookClosed,
                   now, startedAt, spanVars>>

\* The clock, with the two ways to time an attempt beside it.
Timed(span, running) == IF running THEN [span EXCEPT ![attemptNum] = @ + 1] ELSE span

Tick ==
    /\ now < MaxTime
    /\ ~Finished
    /\ now' = now + 1
    /\ below' = Timed(below, logPc = "below")
    /\ during' = Timed(during, pc = "send")
    /\ UNCHANGED <<vars, logPc, inner, startedAt, lineVars>>

RetrySteps ==
    /\ \/ SkipBuffering \/ BufferBody \/ BeginAttempt \/ Check \/ Hook \/ Drain
       \/ WaitTimer \/ WaitCancelled \/ Cancel
       \/ \E a \in Attempts : WriteChunk(a) \/ WriterCloses(a)
    /\ UNCHANGED logVars

LogTerminated == Terminated /\ UNCHANGED logVars

LogNext ==
    \/ LogStart \/ BaseAnswers \/ LogReturns \/ Tick
    \/ RetrySteps \/ LogTerminated

LogSpec == LogInit /\ [][LogNext]_allVars
-----------------------------------------------------------------------------
(***************************************************************************)
(* Properties.                                                             *)
(***************************************************************************)

\* The retry layer does not notice the log layer below it: the composition
\* implements RetryTransport over a bare transport.
Transparent == Spec

\* The histogram is given every attempt once, in order, with the status the
\* server gave it, or -1 when it failed: not what the retry layer's hook made of
\* the answer, and not only the attempts that succeeded.
EveryAttemptObserved ==
    pc \in {"check", "hook", "drain", "wait"} =>
        /\ Len(observed) = attemptNum
        /\ \A a \in 1 .. attemptNum : observed[a].attempt = a
        /\ response.src = "server" => observed[attemptNum].status = response.status
        /\ pc = "check" /\ response = NilResp => observed[attemptNum].status = -1

\* A latency is that of its own attempt: all the time http.Transport took for it,
\* and none in which the retry layer was not waiting for it, so neither the
\* backoffs nor the attempts before it.
LatencyOfAttempt ==
    \A a \in 1 .. Len(observed) :
        below[a] <= observed[a].latency /\ observed[a].latency <= during[a]
=============================================================================
