--------------------------- MODULE RetryTransport ---------------------------
(***************************************************************************)
(* One call of retryTransport.RoundTrip (http_retry_trans.go) around the   *)
(* layer below it, with everything that runs beside it: the context, which *)
(* the caller or http.Client's timeout ends at any moment; the write loop  *)
(* of every attempt, which may still read the attempt's request body after *)
(* the attempt's RoundTrip has returned (a server may answer early); the   *)
(* caller's CheckRetryFunc and RetryErrorFunc.                             *)
(*                                                                         *)
(* Request bodies are numbered: 0 is the body the request arrived with,    *)
(* a >= 1 the one handed to attempt a.  Their content is counted in        *)
(* chunks.                                                                 *)
(***************************************************************************)
EXTENDS RetryPolicy, FiniteSets

CONSTANTS
    RetryMaxCount,      \* retryTransOption.retryMaxCount, any int
    CustomPolicy,       \* is checkRetryFunc the caller's own?
    HasHook,            \* is retryErrorFunc set?
    Statuses,           \* status codes the servers answer with
    TransportErrKinds,  \* kinds of error the layer below returns
    PayloadLen          \* chunks in a non-empty request body

ASSUME RetryAssumption ==
    /\ RetryMaxCount \in Int
    /\ CustomPolicy \in BOOLEAN
    /\ HasHook \in BOOLEAN
    /\ Statuses \subseteq Int
    /\ TransportErrKinds \subseteq (PermanentKinds \cup TransientKinds)
    /\ PayloadLen \in Nat

\* attemptNum is compared with the limit after the attempt: one is always made.
Budget == IF RetryMaxCount < 1 THEN 1 ELSE RetryMaxCount
Attempts == 1 .. Budget

VARIABLES
    pc,          \* where RoundTrip is
    req,         \* does the request have a Body, a GetBody?
    ctxDone,     \* req.Context() is done
    buf,         \* chunks in the buffer io.ReadAll filled
    attemptNum,
    left,        \* left[a]: chunks body a still holds
    sent,        \* sent[a]: chunks attempt a has put on the wire
    open,        \* request bodies not closed yet
    response,    \* the local variables response and respErr
    respErr,
    openResps,   \* responses whose body this layer, or its caller, has to close
    hookClosed,  \* the response the hook handed on with its body closed
    result,      \* what RoundTrip returned
    cancelAt     \* history: attemptNum when the context ended

bodyVars == <<buf, left, sent, open>>
respVars == <<response, respErr, openResps, hookClosed>>
vars == <<pc, req, ctxDone, attemptNum, result, cancelAt, bodyVars, respVars>>

NoResult == [resp |-> NilResp, errs |-> {}]

Responses ==
    [src : {"server"}, attempt : Attempts, status : Statuses]
        \cup [src : {"hook"}, attempt : Attempts, status : Statuses]

\* http.Transport hands its errors on as they are; it is http.Client.Do that
\* wraps them in a *url.Error, on the far side of this layer.
TransportErrs == [kind : TransportErrKinds, wrapped : {FALSE}]

HookErrs == {[kind |-> "hook", wrapped |-> FALSE],
             [kind |-> "scheme", wrapped |-> TRUE]}

TypeOK ==
    /\ pc \in {"start", "attempt", "send", "check", "hook", "drain", "wait",
               "done", "panic"}
    /\ req \in [hasBody : BOOLEAN, hasGetBody : BOOLEAN]
    /\ ctxDone \in BOOLEAN
    /\ buf \in 0 .. PayloadLen
    /\ attemptNum \in Nat
    /\ left \in [0 .. Budget -> 0 .. PayloadLen]
    /\ sent \in [0 .. Budget -> Nat]
    /\ open \subseteq 0 .. Budget
    /\ response \in Responses \cup {NilResp}
    /\ respErr \in Errors
    /\ openResps \subseteq Responses
    /\ hookClosed \subseteq Responses
    /\ result \in [resp : Responses \cup {NilResp}, errs : SUBSET Errors]
    /\ cancelAt \in Nat
-----------------------------------------------------------------------------
Init ==
    /\ pc = "start"
    /\ req \in [hasBody : BOOLEAN, hasGetBody : BOOLEAN]
    /\ ctxDone \in BOOLEAN
    /\ buf = 0
    /\ attemptNum = 0
    /\ left = [a \in 0 .. Budget |->
                  IF a = 0 /\ req.hasBody THEN PayloadLen ELSE 0]
    /\ sent = [a \in 0 .. Budget |-> 0]
    /\ open = IF req.hasBody THEN {0} ELSE {}
    /\ response = NilResp
    /\ respErr = NoErr
    /\ openResps = {}
    /\ hookClosed = {}
    /\ result = NoResult
    /\ cancelAt = 0

Return(resp, errs) ==
    /\ pc' = "done"
    /\ result' = [resp |-> resp, errs |-> errs \ {NoErr}]

\* Without GetBody the whole body is read first, and closed whatever happens.
MustBuffer == ~req.hasGetBody /\ req.hasBody

SkipBuffering ==
    /\ pc = "start"
    /\ ~MustBuffer
    /\ pc' = "attempt"
    /\ UNCHANGED <<req, ctxDone, attemptNum, result, cancelAt, bodyVars, respVars>>

BufferBody ==
    /\ pc = "start"
    /\ MustBuffer
    /\ open' = open \ {0}
    /\ left' = [left EXCEPT ![0] = 0]
    /\ \/ /\ buf' = left[0]
          /\ pc' = "attempt"
          /\ UNCHANGED result
       \/ /\ Return(NilResp, {ReadErr})
          /\ UNCHANGED buf
    /\ UNCHANGED <<req, ctxDone, attemptNum, cancelAt, sent, respVars>>

\* Mutants: all attempts read from one buffer; the body used up is not closed.
SharedBuffer ==
    IF req.hasGetBody THEN PayloadLen
    ELSE IF attemptNum = 0 THEN buf ELSE left[attemptNum]

OutgrownKept == open

\* The body GetBody opens, or the one wrapped around the buffer.
FreshBody == IF req.hasGetBody THEN PayloadLen ELSE buf

\* The body of the previous attempt, or the original one, is closed before
\* GetBody is asked for another.
Outgrown == IF req.hasGetBody THEN open \ {attemptNum} ELSE open

BeginAttempt ==
    /\ pc = "attempt"
    /\ attemptNum' = attemptNum + 1
    /\ \/ /\ left' = [left EXCEPT ![attemptNum'] = FreshBody]
          /\ open' = Outgrown \cup {attemptNum'}
          /\ pc' = "send"
          /\ UNCHANGED result
       \/ /\ req.hasGetBody
          /\ open' = Outgrown
          /\ Return(NilResp, {GetErr})
          /\ UNCHANGED left
    /\ UNCHANGED <<req, ctxDone, cancelAt, buf, sent, respVars>>

\* The layer below answers: a response whose body is open, or an error.
TransportReturns ==
    /\ pc = "send"
    /\ \/ \E s \in Statuses :
             /\ response' = [src |-> "server", attempt |-> attemptNum, status |-> s]
             /\ respErr' = NoErr
             /\ openResps' = openResps \cup {response'}
       \/ /\ respErr' \in TransportErrs \cup (IF ctxDone THEN {CtxErr} ELSE {})
          /\ response' = NilResp
          /\ UNCHANGED openResps
    /\ pc' = "check"
    /\ UNCHANGED <<req, ctxDone, attemptNum, result, cancelAt, bodyVars, hookClosed>>

Verdicts(resp, err) ==
    IF CustomPolicy THEN CustomVerdicts
                    ELSE {DefaultRetryPolicy(ctxDone, resp, err)}

\* Mutants: one attempt too many; the policy's error is lost.
ConcludeLate(verdict, resp, err) ==
    IF verdict.retry /\ attemptNum <= RetryMaxCount
    THEN pc' = "drain" /\ UNCHANGED result
    ELSE Return(resp, {err, verdict.err})

ConcludeDroppingError(verdict, resp, err) ==
    IF verdict.retry /\ attemptNum < RetryMaxCount
    THEN pc' = "drain" /\ UNCHANGED result
    ELSE Return(resp, {err})

\* Lines 171 to 177 and 195: stop, or go on to another attempt.
Conclude(verdict, resp, err) ==
    IF verdict.retry /\ attemptNum < RetryMaxCount
    THEN pc' = "drain" /\ UNCHANGED result
    ELSE Return(resp, {err, verdict.err})

Check ==
    /\ pc = "check"
    /\ \E verdict \in Verdicts(response, respErr) :
          IF HasHook /\ (respErr # NoErr \/ verdict.retry \/ verdict.err # NoErr)
          THEN pc' = "hook" /\ UNCHANGED result
          ELSE Conclude(verdict, response, respErr)
    /\ UNCHANGED <<req, ctxDone, attemptNum, cancelAt, bodyVars, respVars>>

\* The hook is the caller's: of the response it keeps the one it was given, or
\* puts one of its own (with a body) or none in its place, of the error likewise,
\* the two independently.
HookResponses == [src : {"hook"}, attempt : {attemptNum}, status : Statuses]

HookLeaves ==
    /\ response' \in {response, NilResp} \cup HookResponses
    /\ respErr' \in {respErr, NoErr} \cup HookErrs

\* A response it discards is the hook's to close; one it hands on it may have
\* closed as well.
HookCloses ==
    IF response' = response
    THEN /\ hookClosed' \in {{}, openResps \cap {response}}
         /\ openResps' = openResps \ hookClosed'
    ELSE /\ hookClosed' = {}
         /\ openResps' = (openResps \ {response}) \cup ({response'} \ {NilResp})

\* The hook, then the policy once more on what it left.
Hook ==
    /\ pc = "hook"
    /\ HookLeaves
    /\ HookCloses
    /\ IF ~CustomPolicy /\ PolicyDereferencesNil(ctxDone, response', respErr')
       THEN pc' = "panic" /\ UNCHANGED result
       ELSE \E verdict \in Verdicts(response', respErr') :
               Conclude(verdict, response', respErr')
    /\ UNCHANGED <<req, ctxDone, attemptNum, cancelAt, bodyVars>>

\* Mutant: the response that is not wanted stays open.
DrainWithoutClose ==
    /\ pc = "drain"
    /\ pc' = "wait"
    /\ UNCHANGED <<req, ctxDone, attemptNum, result, cancelAt, bodyVars, respVars>>

\* io.Copy to io.Discard and Close, before the backoff.
Drain ==
    /\ pc = "drain"
    /\ openResps' = openResps \ {response}
    /\ pc' = "wait"
    /\ UNCHANGED <<req, ctxDone, attemptNum, result, cancelAt, bodyVars,
                   response, respErr, hookClosed>>

\* The select: with both channels ready, either case may be taken.
WaitTimer ==
    /\ pc = "wait"
    /\ pc' = "attempt"
    /\ UNCHANGED <<req, ctxDone, attemptNum, result, cancelAt, bodyVars, respVars>>

\* Mutants: the drained response is returned; the select has no context case.
WaitReturningResponse ==
    /\ pc = "wait"
    /\ ctxDone
    /\ Return(response, {CtxErr})
    /\ UNCHANGED <<req, ctxDone, attemptNum, cancelAt, bodyVars, respVars>>

WaitWithoutContext == FALSE

WaitCancelled ==
    /\ pc = "wait"
    /\ ctxDone
    /\ Return(NilResp, {CtxErr})
    /\ UNCHANGED <<req, ctxDone, attemptNum, cancelAt, bodyVars, respVars>>

\* The caller cancels, or http.Client's timeout passes.
Cancel ==
    /\ ~ctxDone
    /\ pc \notin {"done", "panic"}
    /\ ctxDone' = TRUE
    /\ cancelAt' = attemptNum
    /\ UNCHANGED <<pc, req, attemptNum, result, bodyVars, respVars>>

\* The write loop of attempt a puts one chunk of its body on the wire ...
WriteChunk(a) ==
    /\ a \in open
    /\ left[a] > 0
    /\ left' = [left EXCEPT ![a] = @ - 1]
    /\ sent' = [sent EXCEPT ![a] = @ + 1]
    /\ UNCHANGED <<pc, req, ctxDone, attemptNum, result, cancelAt, buf, open, respVars>>

\* ... and closes it, at the end or early.
WriterCloses(a) ==
    /\ a \in open
    /\ open' = open \ {a}
    /\ UNCHANGED <<pc, req, ctxDone, attemptNum, result, cancelAt, buf, left, sent, respVars>>

Finished == pc \in {"done", "panic"}

Terminated == Finished /\ UNCHANGED vars

Next ==
    \/ SkipBuffering \/ BufferBody \/ BeginAttempt \/ TransportReturns
    \/ Check \/ Hook \/ Drain \/ WaitTimer \/ WaitCancelled \/ Cancel
    \/ \E a \in Attempts : WriteChunk(a) \/ WriterCloses(a)
    \/ Terminated

Spec == Init /\ [][Next]_vars

(***************************************************************************)
(* Fairness.  The goroutine's own steps happen.  The layer below and the   *)
(* reading of a response are only sure to come back once the context has   *)
(* ended, which http.Transport watches; a backoff timer may be set further *)
(* away than anybody waits (a Retry-After), so WaitTimer is never fair.    *)
(***************************************************************************)
GoSteps == SkipBuffering \/ BeginAttempt \/ Check \/ Hook \/ WaitCancelled

ContextEndsIO == ctxDone /\ (TransportReturns \/ Drain)

\* A reader the caller passed as the body ends, or fails: nothing interrupts the
\* io.ReadAll that buffers it.
FairSpec ==
    Spec /\ WF_vars(GoSteps) /\ WF_vars(ContextEndsIO) /\ WF_vars(BufferBody)
-----------------------------------------------------------------------------
(***************************************************************************)
(* Properties.                                                             *)
(***************************************************************************)

\* WithMaxCount bounds the attempts, the first included; a limit below one
\* still lets one attempt through.
AttemptsWithinLimit == attemptNum <= Budget

\* What every attempt has to deliver.
Payload == IF req.hasBody \/ req.hasGetBody THEN PayloadLen ELSE 0

\* Replay: whatever an earlier attempt has read, and however late its write
\* loop still runs, every attempt has the whole payload to send.
GetBodyFailedIn(a) == a = attemptNum /\ GetErr \in result.errs

PayloadIntact ==
    \A a \in Attempts :
        a <= attemptNum /\ ~GetBodyFailedIn(a) => sent[a] + left[a] = Payload

\* The body the request arrived with is closed before the first attempt is on
\* the wire and on every early return.
CallerBodyClosed == attemptNum > 0 \/ Finished => 0 \notin open

\* No response body is abandoned, not the server's and not one the hook has made:
\* none is open during a backoff or a later attempt, and at the end only the
\* returned one is.
NoResponseLeak ==
    /\ openResps \subseteq {response}
    /\ pc \in {"wait", "attempt", "send"} => openResps = {}
    /\ pc = "done" => openResps \subseteq {result.resp}

\* A response that is returned is the last attempt's, and its body has not been
\* drained or closed on the way out, unless by the hook.
ReturnedResponseReadable ==
    pc = "done" /\ result.resp # NilResp
        => /\ result.resp.attempt = attemptNum
           /\ result.resp \in openResps \cup hookClosed

\* RoundTrip returns a response together with an error, which makes net/http
\* drop the response unclosed, for two reasons only: the context ended after the
\* response had arrived, or the hook put an error beside a response and neither
\* the policy nor the limit took it up again.  DefaultRetryPolicy is never the
\* reason.
PairOnlyFromContextOrHook ==
    pc = "done" /\ result.resp # NilResp /\ result.errs # {}
        => /\ result.errs \subseteq {respErr, CtxErr}
           /\ respErr # NoErr => result.resp.src = "hook" \/ respErr \in HookErrs
           /\ CtxErr \in result.errs => ctxDone

\* ... and never nothing at all, whatever the hook has put in place of the
\* response.
AlwaysAnAnswer ==
    pc = "done" => result.resp # NilResp \/ result.errs # {}

\* The select of the backoff may prefer the timer to a context that has ended
\* as well, but the policy then stops: one attempt at most begins after the
\* end of the context.
AtMostOneAttemptAfterCancel == ctxDone => attemptNum <= cancelAt + 1

\* The refinement: with the default policy, RoundTrip keeps RoundTripContract.
\* An attempt whose GetBody fails sends nothing.
Sends == IF GetErr \in result.errs THEN attemptNum - 1 ELSE attemptNum

Answer ==
    IF pc = "panic" THEN "panic"
    ELSE IF pc # "done" THEN "none"
    ELSE IF result.resp = NilResp
    THEN IF result.errs = {} THEN "nothing" ELSE "error"
    ELSE IF result.errs = {} THEN "response" ELSE "both"

Contract == INSTANCE RoundTripContract WITH
    Limit  <- Budget,
    sends  <- Sends,
    ended  <- ctxDone,
    late   <- ctxDone /\ Sends > cancelAt,
    answer <- Answer

KeepsContract == Contract!Spec

\* Once the context has ended, RoundTrip returns.
CancelEndsRoundTrip == ctxDone ~> Finished

\* The comments of baseRetryPolicy: don't retry a redirect limit, an invalid
\* protocol scheme, a failed certificate verification.
PermanentErrorsNotRetried ==
    [][attemptNum > 0 /\ attemptNum' > attemptNum
          => respErr.kind \notin PermanentKinds]_vars
=============================================================================
