------------------------ MODULE RetryTransportProofs ------------------------
(***************************************************************************)
(* Proofs about RetryTransport, for every limit, set of statuses and       *)
(* payload.  The inductive invariant has four parts, each proved from the  *)
(* ones before it: control, request bodies, responses, the policy.         *)
(***************************************************************************)
EXTENDS RetryTransport, TLAPS

\* Where RoundTrip can be for which number of attempts.
Control ==
    /\ attemptNum <= Budget
    /\ pc = "start" => attemptNum = 0
    /\ pc \in {"attempt", "drain", "wait"} => attemptNum < Budget
    /\ pc \in {"send", "check", "hook", "drain", "wait", "panic"} => attemptNum >= 1

ControlInv == TypeOK /\ Control

LEMMA BudgetFacts ==
    /\ Budget \in Nat \ {0}
    /\ \A n \in Nat : n >= 1 /\ n < RetryMaxCount => n < Budget
BY RetryAssumption DEF Budget

\* The only ways past a verdict.
LEMMA ConcludeFacts ==
    ASSUME NEW v, NEW resp, NEW err, Conclude(v, resp, err)
    PROVE  \/ pc' = "drain" /\ v.retry /\ attemptNum < RetryMaxCount /\ result' = result
           \/ pc' = "done" /\ result' = [resp |-> resp, errs |-> {err, v.err} \ {NoErr}]
BY DEF Conclude, Return

LEMMA VerdictType ==
    ASSUME TypeOK, NEW resp, NEW err, NEW v \in Verdicts(resp, err)
    PROVE  v.err \in {NoErr, PolicyErr, CtxErr}
BY DEF Verdicts, CustomVerdicts, DefaultRetryPolicy

LEMMA ErrorTypes ==
    /\ NoErr \in Errors /\ CtxErr \in Errors /\ PolicyErr \in Errors
    /\ ReadErr \in Errors /\ GetErr \in Errors
    /\ TransportErrs \subseteq Errors
    /\ HookErrs \subseteq Errors
<1>1. TransportErrs \subseteq Errors
  BY RetryAssumption DEF Errors, TransportErrs
<1>2. HookErrs \subseteq Errors
  BY DEF Errors, HookErrs, PermanentKinds, TransientKinds
<1> QED
  BY <1>1, <1>2 DEF Errors

\* What a verdict on well-typed arguments makes of result.
LEMMA ConcludeType ==
    ASSUME TypeOK, NEW resp \in Responses \cup {NilResp}, NEW err \in Errors,
           NEW v \in Verdicts(resp, err), Conclude(v, resp, err)
    PROVE  /\ pc' \in {"drain", "done"}
           /\ pc' = "drain" => attemptNum < RetryMaxCount
           /\ result' \in [resp : Responses \cup {NilResp}, errs : SUBSET Errors]
<1>1. v.err \in Errors
  BY VerdictType, ErrorTypes
<1>2. CASE pc' = "drain" /\ v.retry /\ attemptNum < RetryMaxCount /\ result' = result
  BY <1>2 DEF TypeOK
<1>3. CASE pc' = "done" /\ result' = [resp |-> resp, errs |-> {err, v.err} \ {NoErr}]
  BY <1>1, <1>3
<1> QED
  BY <1>2, <1>3, ConcludeFacts

LEMMA ControlInit == Init => ControlInv
BY BudgetFacts, RetryAssumption, ErrorTypes
   DEF Init, ControlInv, TypeOK, Control, NoResult

LEMMA ControlStep == ControlInv /\ [Next]_vars => ControlInv'
<1> SUFFICES ASSUME ControlInv, [Next]_vars PROVE ControlInv'
  OBVIOUS
<1> USE BudgetFacts, ErrorTypes DEF ControlInv, Control
<1>1. CASE SkipBuffering
  BY <1>1 DEF SkipBuffering, TypeOK, bodyVars, respVars
<1>2. CASE BufferBody
  BY <1>2, RetryAssumption DEF BufferBody, MustBuffer, Return, TypeOK, respVars
<1>3. CASE BeginAttempt
  <2>1. FreshBody \in 0 .. PayloadLen
    BY RetryAssumption DEF FreshBody, TypeOK
  <2>2. /\ attemptNum' = attemptNum + 1
        /\ attemptNum' \in 0 .. Budget
    BY <1>3 DEF BeginAttempt, TypeOK
  <2>3. left' \in [0 .. Budget -> 0 .. PayloadLen]
    BY <1>3, <2>1, <2>2 DEF BeginAttempt, TypeOK
  <2>4. open' \subseteq 0 .. Budget
    BY <1>3, <2>2 DEF BeginAttempt, Outgrown, TypeOK
  <2>5. /\ pc' \in {"send", "done"}
        /\ result' \in [resp : Responses \cup {NilResp}, errs : SUBSET Errors]
    BY <1>3 DEF BeginAttempt, Return, TypeOK
  <2>6. /\ UNCHANGED <<req, ctxDone, buf, sent, response, respErr, openResps, hookClosed, cancelAt>>
        /\ pc = "attempt"
    BY <1>3 DEF BeginAttempt, respVars
  <2>7. TypeOK'
    BY <2>2, <2>3, <2>4, <2>5, <2>6 DEF TypeOK
  <2>8. attemptNum \in Nat /\ attemptNum < Budget
    BY <2>6 DEF TypeOK
  <2>9. Control'
    BY <2>2, <2>5, <2>8
  <2> QED
    BY <2>7, <2>9
<1>4. CASE TransportReturns
  <2>1. attemptNum \in Attempts
    BY <1>4 DEF TransportReturns, TypeOK, Attempts
  <2>2. response' \in Responses \cup {NilResp} /\ openResps' \subseteq Responses
        /\ respErr' \in Errors
    BY <1>4, <2>1 DEF TransportReturns, TypeOK, Responses
  <2> QED
    BY <1>4, <2>2 DEF TransportReturns, TypeOK, bodyVars
<1>5. CASE Check
  <2>1. /\ pc' \in {"hook", "drain", "done"}
        /\ pc' = "drain" => attemptNum < RetryMaxCount
        /\ result' \in [resp : Responses \cup {NilResp}, errs : SUBSET Errors]
    <3>1. PICK v \in Verdicts(response, respErr) :
             \/ pc' = "hook" /\ result' = result
             \/ Conclude(v, response, respErr)
      BY <1>5 DEF Check
    <3>2. CASE pc' = "hook" /\ result' = result
      BY <3>2 DEF TypeOK
    <3>3. CASE Conclude(v, response, respErr)
      BY <3>1, <3>3, ConcludeType DEF TypeOK
    <3> QED
      BY <3>1, <3>2, <3>3
  <2> QED
    BY <1>5, <2>1 DEF Check, TypeOK, bodyVars, respVars
<1>6. CASE Hook
  <2>1. attemptNum \in Attempts
    BY <1>6 DEF Hook, TypeOK, Attempts
  <2>2. /\ response' \in Responses \cup {NilResp} /\ respErr' \in Errors
        /\ openResps' \subseteq Responses /\ hookClosed' \subseteq Responses
    <3>1. response' \in Responses \cup {NilResp} /\ respErr' \in Errors
      BY <1>6, <2>1 DEF Hook, HookLeaves, HookResponses, TypeOK, Responses
    <3> QED
      BY <1>6, <3>1 DEF Hook, HookCloses, TypeOK
  <2>3. /\ pc' \in {"panic", "drain", "done"}
        /\ pc' = "drain" => attemptNum < RetryMaxCount
        /\ result' \in [resp : Responses \cup {NilResp}, errs : SUBSET Errors]
    <3>1. CASE pc' = "panic" /\ result' = result
      BY <3>1 DEF TypeOK
    <3>2. CASE \E v \in Verdicts(response', respErr') : Conclude(v, response', respErr')
      <4>1. PICK v \in Verdicts(response', respErr') : Conclude(v, response', respErr')
        BY <3>2
      <4> QED
        BY <4>1, <2>2, ConcludeType
    <3> QED
      BY <1>6, <3>1, <3>2 DEF Hook
  <2> QED
    BY <1>6, <2>2, <2>3 DEF Hook, TypeOK, bodyVars
<1>7. CASE Drain
  BY <1>7 DEF Drain, TypeOK, bodyVars
<1>8. CASE WaitTimer
  BY <1>8 DEF WaitTimer, TypeOK, bodyVars, respVars
<1>9. CASE WaitCancelled
  BY <1>9 DEF WaitCancelled, Return, TypeOK, bodyVars, respVars
<1>10. CASE Cancel
  BY <1>10 DEF Cancel, TypeOK, bodyVars, respVars
<1>11. ASSUME NEW a \in Attempts, WriteChunk(a) PROVE ControlInv'
  <2>1. left' \in [0 .. Budget -> 0 .. PayloadLen]
    BY <1>11, RetryAssumption DEF WriteChunk, TypeOK, Attempts
  <2>2. sent' \in [0 .. Budget -> Nat]
    BY <1>11 DEF WriteChunk, TypeOK, Attempts
  <2> QED
    BY <1>11, <2>1, <2>2 DEF WriteChunk, TypeOK, respVars
<1>12. ASSUME NEW a \in Attempts, WriterCloses(a) PROVE ControlInv'
  BY <1>12 DEF WriterCloses, TypeOK, respVars
<1>13. CASE UNCHANGED vars
  BY <1>13 DEF vars, bodyVars, respVars, TypeOK
<1> QED
  BY <1>1, <1>2, <1>3, <1>4, <1>5, <1>6, <1>7, <1>8, <1>9, <1>10, <1>11,
     <1>12, <1>13 DEF Next, Terminated

LEMMA ControlCorrect == Spec => []ControlInv
BY ControlInit, ControlStep, PTL DEF Spec
-----------------------------------------------------------------------------
(***************************************************************************)
(* Request bodies.  The buffer, or GetBody, holds the whole payload before *)
(* the first attempt, and no write loop touches a body before its attempt. *)
(***************************************************************************)
Bodies ==
    /\ pc # "done" => result = NoResult
    /\ pc = "start" => left[0] = IF req.hasBody THEN PayloadLen ELSE 0
    /\ pc = "start" => buf = 0
    /\ pc = "attempt" \/ attemptNum > 0 => FreshBody = Payload
    /\ \A a \in Attempts : a > attemptNum => sent[a] = 0 /\ a \notin open
    /\ pc = "start" /\ ~req.hasBody => 0 \notin open
    /\ pc # "start" /\ ~req.hasGetBody => 0 \notin open
    /\ pc = "done" /\ attemptNum = 0 => ~req.hasGetBody

BodyInv == Bodies /\ PayloadIntact /\ CallerBodyClosed

LEMMA BodyInit == Init => BodyInv
BY RetryAssumption, BudgetFacts
   DEF Init, BodyInv, Bodies, PayloadIntact, CallerBodyClosed, Finished,
       NoResult, GetBodyFailedIn, Attempts, FreshBody, Payload

LEMMA BodyStep == ControlInv /\ BodyInv /\ [Next]_vars => BodyInv'
<1> SUFFICES ASSUME ControlInv, BodyInv, [Next]_vars PROVE BodyInv'
  OBVIOUS
<1> USE DEF ControlInv, Control, BodyInv
\* Steps of RoundTrip that touch no request body and do not finish.
<1>1. ASSUME UNCHANGED <<req, attemptNum, result, bodyVars>>,
             pc \notin {"start", "done"}, pc' \notin {"start", "done"},
             pc' = "panic" => pc = "hook"
      PROVE  BodyInv'
  BY <1>1 DEF Bodies, PayloadIntact, CallerBodyClosed, Finished,
              GetBodyFailedIn, FreshBody, Payload, bodyVars, TypeOK
\* Steps that return from a point where an attempt has been made.
<1>2. ASSUME UNCHANGED <<req, attemptNum, bodyVars>>, pc' = "done", pc # "done",
             attemptNum >= 1
      PROVE  BodyInv'
  BY <1>2 DEF Bodies, PayloadIntact, CallerBodyClosed, Finished, NoResult,
              GetBodyFailedIn, FreshBody, Payload, bodyVars, TypeOK
<1>3. CASE SkipBuffering
  BY <1>3 DEF SkipBuffering, MustBuffer, Bodies, PayloadIntact, CallerBodyClosed,
              Finished, GetBodyFailedIn, FreshBody, Payload, bodyVars, TypeOK
<1>4. CASE BufferBody
  <2>1. attemptNum' = 0 /\ attemptNum = 0
    BY <1>4 DEF BufferBody
  <2>2. PayloadIntact'
    BY <2>1, BudgetFacts DEF PayloadIntact, Attempts
  <2>3. CallerBodyClosed'
    BY <1>4 DEF BufferBody, CallerBodyClosed
  <2>4. Bodies'
    BY <1>4, <2>1 DEF BufferBody, MustBuffer, Return, Bodies, FreshBody,
                      Payload, TypeOK
  <2> QED
    BY <2>2, <2>3, <2>4
<1>5. CASE BeginAttempt
  <2>1. /\ attemptNum' = attemptNum + 1
        /\ attemptNum' \in Attempts
        /\ FreshBody = Payload
    BY <1>5, BudgetFacts DEF BeginAttempt, Bodies, Attempts, TypeOK
  <2>2. /\ 0 \notin open'
        /\ \A a \in Attempts : a > attemptNum' => a \notin open'
    BY <1>5, <2>1 DEF BeginAttempt, Outgrown, Bodies, CallerBodyClosed, TypeOK, Attempts
  <2>3. Bodies'
    BY <1>5, <2>1, <2>2 DEF BeginAttempt, Return, Bodies, FreshBody, Payload, TypeOK
  <2>4. PayloadIntact'
    <3> SUFFICES ASSUME NEW a \in Attempts, a <= attemptNum', ~GetBodyFailedIn(a)'
                 PROVE  sent'[a] + left'[a] = Payload'
      BY DEF PayloadIntact
    <3>1. Payload' = Payload /\ sent' = sent
      BY <1>5 DEF BeginAttempt, Payload
    <3>2. CASE a = attemptNum'
      <4>1. pc' = "send" /\ left' = [left EXCEPT ![attemptNum'] = FreshBody]
        BY <1>5, <3>2 DEF BeginAttempt, Return, GetBodyFailedIn, GetErr, NoErr
      <4>2. sent[a] = 0
        BY <2>1, <3>2 DEF Bodies, TypeOK
      <4> QED
        BY <2>1, <3>1, <3>2, <4>1, <4>2, RetryAssumption DEF TypeOK, Attempts, Payload
    <3>3. CASE a # attemptNum'
      <4>1. a <= attemptNum /\ ~GetBodyFailedIn(a)
        BY <1>5, <2>1, <3>3 DEF BeginAttempt, Bodies, NoResult, GetBodyFailedIn,
                                TypeOK, Attempts
      <4>2. left'[a] = left[a]
        <5>1. a \in 0 .. Budget
          BY BudgetFacts DEF Attempts
        <5>2. left' = left \/ left' = [left EXCEPT ![attemptNum'] = FreshBody]
          BY <1>5 DEF BeginAttempt
        <5> QED
          BY <3>3, <5>1, <5>2 DEF TypeOK
      <4> QED
        BY <3>1, <4>1, <4>2 DEF PayloadIntact
    <3> QED
      BY <3>2, <3>3
  <2>5. CallerBodyClosed'
    BY <2>2 DEF CallerBodyClosed
  <2> QED
    BY <2>3, <2>4, <2>5
<1>6. CASE TransportReturns
  BY <1>1, <1>6 DEF TransportReturns
<1>7. CASE Check
  <2>1. /\ pc = "check"
        /\ UNCHANGED <<req, attemptNum, bodyVars>>
        /\ \/ pc' \in {"hook", "drain"} /\ result' = result
           \/ pc' = "done"
    BY <1>7, ConcludeFacts DEF Check
  <2> QED
    BY <1>1, <1>2, <2>1
<1>8. CASE Hook
  <2>1. /\ pc = "hook"
        /\ UNCHANGED <<req, attemptNum, bodyVars>>
        /\ \/ pc' \in {"panic", "drain"} /\ result' = result
           \/ pc' = "done"
    BY <1>8, ConcludeFacts DEF Hook
  <2> QED
    BY <1>1, <1>2, <2>1
<1>9. CASE Drain
  BY <1>1, <1>9 DEF Drain
<1>10. CASE WaitTimer
  BY <1>1, <1>10 DEF WaitTimer
<1>11. CASE WaitCancelled
  BY <1>2, <1>11 DEF WaitCancelled, Return
<1>12. CASE Cancel
  BY <1>12 DEF Cancel, Bodies, PayloadIntact, CallerBodyClosed, Finished,
               GetBodyFailedIn, FreshBody, Payload, bodyVars
<1>13. ASSUME NEW w \in Attempts, WriteChunk(w) PROVE BodyInv'
  <2>1. w <= attemptNum /\ w # 0
    BY <1>13 DEF WriteChunk, Bodies, TypeOK, Attempts
  <2>2. UNCHANGED <<pc, req, attemptNum, result, buf, open>>
    BY <1>13 DEF WriteChunk
  <2>3. Payload' = Payload /\ FreshBody' = FreshBody
    BY <2>2 DEF Payload, FreshBody
  <2>4. Bodies'
    BY <1>13, <2>1, <2>2, <2>3 DEF WriteChunk, Bodies, TypeOK, Attempts
  <2>5. PayloadIntact'
    BY <1>13, <2>2, <2>3, RetryAssumption
       DEF WriteChunk, PayloadIntact, GetBodyFailedIn, TypeOK, Attempts
  <2>6. CallerBodyClosed'
    BY <2>2 DEF CallerBodyClosed, Finished
  <2> QED
    BY <2>4, <2>5, <2>6
<1>14. ASSUME NEW w \in Attempts, WriterCloses(w) PROVE BodyInv'
  BY <1>14 DEF WriterCloses, Bodies, PayloadIntact, CallerBodyClosed, Finished,
               GetBodyFailedIn, FreshBody, Payload, TypeOK
<1>15. CASE UNCHANGED vars
  BY <1>15 DEF vars, bodyVars, Bodies, PayloadIntact, CallerBodyClosed, Finished,
               GetBodyFailedIn, FreshBody, Payload
<1> QED
  BY <1>3, <1>4, <1>5, <1>6, <1>7, <1>8, <1>9, <1>10, <1>11, <1>12, <1>13,
     <1>14, <1>15 DEF Next, Terminated
-----------------------------------------------------------------------------
(***************************************************************************)
(* Responses.  The one response that may be open is the local variable's,  *)
(* and while it is judged it is the current attempt's and still readable,  *)
(* or the hook has closed it.                                              *)
(***************************************************************************)
Judging == pc \in {"check", "hook", "drain"}

Settled ==
    /\ openResps \subseteq {response}
    /\ pc \in {"start", "attempt", "send", "wait"} => openResps = {}
    /\ Judging /\ response # NilResp
          => /\ response.attempt = attemptNum
             /\ response \in openResps \cup hookClosed
    /\ pc \in {"check", "hook"} /\ response # NilResp => response \in openResps

ResponseInv == Settled /\ NoResponseLeak /\ ReturnedResponseReadable

LEMMA ResponseInit == Init => ResponseInv
BY DEF Init, ResponseInv, Settled, Judging, NoResponseLeak, ReturnedResponseReadable,
       NilResp

LEMMA ResponseStep == ControlInv /\ BodyInv /\ ResponseInv /\ [Next]_vars => ResponseInv'
<1> SUFFICES ASSUME ControlInv, BodyInv, ResponseInv, [Next]_vars PROVE ResponseInv'
  OBVIOUS
<1> USE DEF ResponseInv, Settled, Judging, NoResponseLeak, ReturnedResponseReadable
\* RoundTrip returns no response, with none left open.
<1>1. ASSUME UNCHANGED respVars, openResps = {}, pc' = "done",
             result'.resp = NilResp
      PROVE  ResponseInv'
  BY <1>1 DEF respVars, NilResp
\* A verdict on a response that is readable, or closed by the hook.
<1>2. ASSUME NEW v, Conclude(v, response', respErr'), attemptNum' = attemptNum,
             openResps' \subseteq {response'},
             response' # NilResp
                => /\ response'.attempt = attemptNum
                   /\ response' \in openResps' \cup hookClosed'
      PROVE  ResponseInv'
  BY <1>2, ConcludeFacts
<1>3. CASE SkipBuffering
  BY <1>3 DEF SkipBuffering, respVars
<1>4. CASE BufferBody
  <2>1. CASE pc' = "attempt"
    BY <1>4, <2>1 DEF BufferBody, respVars
  <2>2. CASE Return(NilResp, {ReadErr})
    BY <1>1, <1>4, <2>2 DEF BufferBody, Return
  <2> QED
    BY <1>4, <2>1, <2>2 DEF BufferBody
<1>5. CASE BeginAttempt
  <2>1. CASE pc' = "send"
    BY <1>5, <2>1 DEF BeginAttempt, respVars
  <2>2. CASE Return(NilResp, {GetErr})
    BY <1>1, <1>5, <2>2 DEF BeginAttempt, Return
  <2> QED
    BY <1>5, <2>1, <2>2 DEF BeginAttempt
<1>6. CASE TransportReturns
  BY <1>6 DEF TransportReturns, NilResp
<1>7. CASE Check
  <2>1. UNCHANGED <<attemptNum, respVars>> /\ pc = "check"
    BY <1>7 DEF Check
  <2>2. CASE pc' = "hook"
    BY <2>1, <2>2 DEF respVars
  <2>3. CASE \E v : Conclude(v, response, respErr)
    <3>1. PICK v : Conclude(v, response', respErr')
      BY <2>1, <2>3 DEF respVars
    <3> QED
      BY <1>2, <2>1, <3>1 DEF respVars
  <2> QED
    BY <1>7, <2>2, <2>3 DEF Check
<1>8. CASE Hook
  <2>1. /\ openResps' \subseteq {response'}
        /\ response' # NilResp
              => /\ response'.attempt = attemptNum
                 /\ response' \in openResps' \cup hookClosed'
    <3>1. CASE response' = response
      BY <1>8, <3>1 DEF Hook, HookCloses
    <3>2. CASE response' # response
      <4>1. openResps' = {response'} \ {NilResp}
        BY <1>8, <3>2 DEF Hook, HookCloses
      <4>2. response' # NilResp => response'.attempt = attemptNum
        BY <1>8, <3>2 DEF Hook, HookLeaves, HookResponses
      <4> QED
        BY <4>1, <4>2
    <3> QED
      BY <3>1, <3>2
  <2>2. CASE pc' = "panic"
    BY <2>1, <2>2
  <2>3. CASE \E v : Conclude(v, response', respErr')
    BY <1>2, <1>8, <2>1, <2>3 DEF Hook
  <2> QED
    BY <1>8, <2>2, <2>3 DEF Hook
<1>9. CASE Drain
  BY <1>9 DEF Drain
<1>10. CASE WaitTimer
  BY <1>10 DEF WaitTimer, respVars
<1>11. CASE WaitCancelled
  BY <1>1, <1>11 DEF WaitCancelled, Return
<1>12. CASE Cancel
  BY <1>12 DEF Cancel, respVars
<1>13. ASSUME NEW w \in Attempts, WriteChunk(w) \/ WriterCloses(w) PROVE ResponseInv'
  BY <1>13 DEF WriteChunk, WriterCloses, respVars
<1>14. CASE UNCHANGED vars
  BY <1>14 DEF vars, respVars
<1> QED
  BY <1>3, <1>4, <1>5, <1>6, <1>7, <1>8, <1>9, <1>10, <1>11, <1>12, <1>13,
     <1>14 DEF Next, Terminated
-----------------------------------------------------------------------------
(***************************************************************************)
(* The default policy.  A response and an error come together into a       *)
(* verdict only from the hook; once the context has ended no verdict lets  *)
(* the loop go on, and none is without an error.                           *)
(***************************************************************************)
Policy ==
    /\ pc \in {"check", "hook"} => (response = NilResp <=> respErr # NoErr)
    /\ pc \in {"start", "attempt", "drain", "wait"} /\ ctxDone
          => attemptNum <= cancelAt
    /\ respErr = CtxErr => ctxDone
    /\ pc \in {"hook", "panic"} => HasHook
    /\ pc = "panic" => ~ctxDone
    /\ pc = "done" /\ result.errs = {} => ~ctxDone
    /\ pc = "done" /\ result.errs # {} /\ result.resp # NilResp => ctxDone \/ HasHook

PolicyInv ==
    /\ Policy
    /\ PairOnlyFromContextOrHook
    /\ AlwaysAnAnswer
    /\ AtMostOneAttemptAfterCancel

LEMMA PolicyInit == Init => PolicyInv
BY DEF Init, PolicyInv, Policy, PairOnlyFromContextOrHook, AlwaysAnAnswer,
       AtMostOneAttemptAfterCancel, NoErr, CtxErr

LEMMA DefaultVerdict ==
    ASSUME CustomPolicy = FALSE, NEW resp, NEW err, NEW v \in Verdicts(resp, err), TypeOK
    PROVE  /\ ctxDone => v.retry = FALSE /\ v.err = CtxErr
           /\ ~ctxDone => v.err = NoErr
BY DEF Verdicts, DefaultRetryPolicy, TypeOK

LEMMA PolicyStep ==
    ASSUME CustomPolicy = FALSE
    PROVE  ControlInv /\ PolicyInv /\ [Next]_vars => PolicyInv'
<1> SUFFICES ASSUME ControlInv, PolicyInv, [Next]_vars PROVE PolicyInv'
  OBVIOUS
<1> USE DEF PolicyInv, Policy, PairOnlyFromContextOrHook, AlwaysAnAnswer,
            AtMostOneAttemptAfterCancel
\* A verdict on a response without an error, an error without a response, what
\* the hook has left, or, the context having ended, neither.
<1>1. ASSUME NEW v \in Verdicts(response', respErr'),
             Conclude(v, response', respErr'),
             UNCHANGED <<ctxDone, attemptNum, cancelAt>>,
             response' # NilResp /\ respErr' # NoErr
                => HasHook /\ (response'.src = "hook" \/ respErr' \in HookErrs),
             respErr' = CtxErr => ctxDone,
             response' = NilResp => respErr' # NoErr \/ ctxDone
      PROVE  PolicyInv'
  <2>1. /\ ctxDone => v.retry = FALSE /\ v.err = CtxErr
        /\ ~ctxDone => v.err = NoErr
    BY <1>1, DefaultVerdict DEF ControlInv
  <2>2. CASE pc' = "drain" /\ v.retry
    BY <1>1, <2>1, <2>2
  <2>3. CASE pc' = "done" /\ result' = [resp |-> response',
                                        errs |-> {respErr', v.err} \ {NoErr}]
    <3>1. /\ result'.resp = response'
          /\ result'.errs = {respErr', v.err} \ {NoErr}
      BY <2>3
    <3>2. CASE ctxDone
      <4>1. /\ CtxErr \in result'.errs
            /\ result'.errs \subseteq {respErr', CtxErr}
        BY <2>1, <3>1, <3>2 DEF CtxErr, NoErr
      <4> QED
        BY <1>1, <2>3, <3>1, <3>2, <4>1
    <3>3. CASE ~ctxDone
      <4>1. result'.errs = {respErr'} \ {NoErr}
        BY <2>1, <3>1, <3>3
      <4>2. CASE respErr' = NoErr
        BY <1>1, <2>3, <3>1, <3>3, <4>1, <4>2
      <4>3. CASE respErr' # NoErr
        <5>1. result'.errs = {respErr'}
          BY <4>1, <4>3
        <5> QED
          BY <1>1, <2>3, <3>1, <3>3, <4>3, <5>1
      <4> QED
        BY <4>2, <4>3
    <3> QED
      BY <3>2, <3>3
  <2> QED
    BY <1>1, <2>2, <2>3, ConcludeFacts
\* RoundTrip returns an error of its own.
<1>2. ASSUME NEW e, e # NoErr, Return(NilResp, {e}), UNCHANGED <<ctxDone, cancelAt, respErr>>,
             ctxDone => attemptNum' <= cancelAt + 1
      PROVE  PolicyInv'
  <2>1. result'.resp = NilResp /\ result'.errs # {} /\ pc' = "done"
    BY <1>2 DEF Return
  <2> QED
    BY <1>2, <2>1
<1>3. CASE SkipBuffering
  BY <1>3 DEF SkipBuffering, respVars
<1>4. CASE BufferBody
  <2>1. CASE pc' = "attempt"
    BY <1>4, <2>1 DEF BufferBody, respVars
  <2>2. CASE Return(NilResp, {ReadErr})
    <3>1. ReadErr # NoErr
      BY DEF ReadErr, NoErr
    <3> QED
      BY <1>2, <1>4, <2>2, <3>1 DEF BufferBody, respVars
  <2> QED
    BY <1>4, <2>1, <2>2 DEF BufferBody
<1>5. CASE BeginAttempt
  <2>1. ctxDone => attemptNum' <= cancelAt + 1
    BY <1>5 DEF BeginAttempt, ControlInv, TypeOK
  <2>2. CASE pc' = "send"
    BY <1>5, <2>1, <2>2 DEF BeginAttempt, respVars
  <2>3. CASE Return(NilResp, {GetErr})
    <3>1. GetErr # NoErr
      BY DEF GetErr, NoErr
    <3> QED
      BY <1>2, <1>5, <2>1, <2>3, <3>1 DEF BeginAttempt, respVars
  <2> QED
    BY <1>5, <2>2, <2>3 DEF BeginAttempt
<1>6. CASE TransportReturns
  <2>1. response' = NilResp <=> respErr' # NoErr
    <3>1. NilResp.src = "nil"
      BY DEF NilResp
    <3>2. NoErr \notin TransportErrs \cup {CtxErr}
      BY RetryAssumption
         DEF NoErr, TransportErrs, CtxErr, PermanentKinds, TransientKinds
    <3> QED
      BY <1>6, <3>1, <3>2 DEF TransportReturns
  <2>2. respErr' = CtxErr => ctxDone
    <3>1. CtxErr \notin TransportErrs \cup {NoErr}
      BY RetryAssumption
         DEF NoErr, TransportErrs, CtxErr, PermanentKinds, TransientKinds
    <3> QED
      BY <1>6, <3>1 DEF TransportReturns
  <2> QED
    BY <1>6, <2>1, <2>2 DEF TransportReturns
<1>7. CASE Check
  <2>1. UNCHANGED <<ctxDone, attemptNum, cancelAt, respVars>> /\ pc = "check"
    BY <1>7 DEF Check
  <2>2. CASE pc' = "hook" /\ HasHook /\ result' = result
    BY <2>1, <2>2 DEF respVars
  <2>3. CASE \E v \in Verdicts(response, respErr) : Conclude(v, response, respErr)
    BY <1>1, <2>1, <2>3 DEF respVars
  <2> QED
    BY <1>7, <2>2, <2>3 DEF Check
<1>8. CASE Hook
  <2>1. UNCHANGED <<ctxDone, attemptNum, cancelAt>> /\ pc = "hook"
    BY <1>8 DEF Hook
  <2>2. /\ response' \in {response, NilResp} \cup HookResponses
        /\ respErr' \in {respErr, NoErr} \cup HookErrs
    BY <1>8 DEF Hook, HookLeaves
  <2>3. response' # NilResp /\ respErr' # NoErr
           => response'.src = "hook" \/ respErr' \in HookErrs
    BY <2>1, <2>2 DEF HookResponses
  <2>4. respErr' = CtxErr => ctxDone
    BY <2>2 DEF HookErrs, CtxErr, NoErr
  <2>5. CASE pc' = "panic" /\ PolicyDereferencesNil(ctxDone, response', respErr')
    BY <2>1, <2>4, <2>5 DEF PolicyDereferencesNil
  <2>6. CASE /\ ~PolicyDereferencesNil(ctxDone, response', respErr')
             /\ \E v \in Verdicts(response', respErr') : Conclude(v, response', respErr')
    BY <1>1, <2>1, <2>3, <2>4, <2>6 DEF PolicyDereferencesNil
  <2> QED
    BY <1>8, <2>5, <2>6 DEF Hook
<1>9. CASE Drain
  BY <1>9 DEF Drain
<1>10. CASE WaitTimer
  BY <1>10 DEF WaitTimer, respVars
<1>11. CASE WaitCancelled
  <2>1. CtxErr # NoErr
    BY DEF CtxErr, NoErr
  <2> QED
    BY <1>2, <1>11, <2>1 DEF WaitCancelled, respVars
<1>12. CASE Cancel
  BY <1>12 DEF Cancel, ControlInv, TypeOK, respVars
<1>13. ASSUME NEW w \in Attempts, WriteChunk(w) \/ WriterCloses(w) PROVE PolicyInv'
  BY <1>13 DEF WriteChunk, WriterCloses, respVars
<1>14. CASE UNCHANGED vars
  BY <1>14 DEF vars, respVars
<1> QED
  BY <1>3, <1>4, <1>5, <1>6, <1>7, <1>8, <1>9, <1>10, <1>11, <1>12, <1>13,
     <1>14 DEF Next, Terminated
-----------------------------------------------------------------------------
(***************************************************************************)
(* The theorems.                                                           *)
(***************************************************************************)

\* Every variable keeps its type, whatever the limit and the callbacks.
THEOREM TypeCorrect == Spec => []TypeOK
BY ControlCorrect, PTL DEF ControlInv

\* WithMaxCount bounds the attempts for every limit, zero and negative ones
\* included.
THEOREM LimitCorrect == Spec => []AttemptsWithinLimit
<1>1. ControlInv => AttemptsWithinLimit
  BY DEF ControlInv, Control, AttemptsWithinLimit
<1> QED
  BY <1>1, ControlCorrect, PTL

LEMMA BodyCorrect == Spec => []BodyInv
BY BodyInit, BodyStep, ControlCorrect, PTL DEF Spec

\* Every attempt has the whole payload to send, however the write loops of
\* earlier attempts interleave with it.
THEOREM ReplayCorrect == Spec => []PayloadIntact
BY BodyCorrect, PTL DEF BodyInv

\* The caller's body is closed on every path.
THEOREM CloseCorrect == Spec => []CallerBodyClosed
BY BodyCorrect, PTL DEF BodyInv

LEMMA ResponseCorrect == Spec => []ResponseInv
BY ResponseInit, ResponseStep, BodyCorrect, ControlCorrect, PTL DEF Spec

\* No response body is leaked, under any policy and any hook that closes what it
\* discards.
THEOREM LeakCorrect == Spec => []NoResponseLeak
BY ResponseCorrect, PTL DEF ResponseInv

\* A returned response is the last attempt's, its body unread but for the hook.
THEOREM ReadableCorrect == Spec => []ReturnedResponseReadable
BY ResponseCorrect, PTL DEF ResponseInv

LEMMA PolicyCorrect ==
    ASSUME CustomPolicy = FALSE
    PROVE  Spec => []PolicyInv
BY PolicyInit, PolicyStep, ControlCorrect, PTL DEF Spec

\* Under DefaultRetryPolicy at most one attempt begins after the context ended.
THEOREM CancelCorrect ==
    ASSUME CustomPolicy = FALSE
    PROVE  Spec => []AtMostOneAttemptAfterCancel
BY PolicyCorrect, PTL DEF PolicyInv

\* Under DefaultRetryPolicy, and for every hook, one that leaves an error beside a
\* response included, RoundTrip returns a response and an error together only when
\* the context has ended or the hook has left the two together.
THEOREM SingleOutcomeCorrect ==
    ASSUME CustomPolicy = FALSE
    PROVE  Spec => []PairOnlyFromContextOrHook
BY PolicyCorrect, PTL DEF PolicyInv

\* Under DefaultRetryPolicy RoundTrip never returns neither of them.
THEOREM AnswerCorrect ==
    ASSUME CustomPolicy = FALSE
    PROVE  Spec => []AlwaysAnAnswer
BY PolicyCorrect, PTL DEF PolicyInv
-----------------------------------------------------------------------------
(***************************************************************************)
(* The refinement of RoundTripContract.  Until RoundTrip is done, result   *)
(* is empty and the contract sees attemptNum sends; the step that ends it  *)
(* gives the one answer.                                                   *)
(***************************************************************************)
History ==
    /\ cancelAt <= attemptNum
    /\ respErr # GetErr

LEMMA HistoryInit == Init => History
BY DEF Init, History, NoErr, GetErr

LEMMA HistoryStep == ControlInv /\ History /\ [Next]_vars => History'
<1> SUFFICES ASSUME ControlInv, History, [Next]_vars PROVE History'
  OBVIOUS
<1> USE DEF History, ControlInv
<1>1. CASE SkipBuffering
  BY <1>1 DEF SkipBuffering, respVars
<1>2. CASE BufferBody
  BY <1>2 DEF BufferBody, Return, respVars
<1>3. CASE BeginAttempt
  BY <1>3 DEF BeginAttempt, Return, respVars, TypeOK
<1>4. CASE TransportReturns
  <2>1. GetErr \notin TransportErrs \cup {CtxErr, NoErr}
    BY RetryAssumption
       DEF GetErr, TransportErrs, CtxErr, NoErr, PermanentKinds, TransientKinds
  <2> QED
    BY <1>4, <2>1 DEF TransportReturns
<1>5. CASE Check
  BY <1>5, ConcludeFacts DEF Check, respVars
<1>6. CASE Hook
  <2>1. respErr' # GetErr
    BY <1>6 DEF Hook, HookLeaves, HookErrs, GetErr, NoErr
  <2> QED
    BY <1>6, <2>1 DEF Hook
<1>7. CASE Drain
  BY <1>7 DEF Drain
<1>8. CASE WaitTimer
  BY <1>8 DEF WaitTimer, respVars
<1>9. CASE WaitCancelled
  BY <1>9 DEF WaitCancelled, Return, respVars
<1>10. CASE Cancel
  BY <1>10 DEF Cancel, respVars, TypeOK
<1>11. ASSUME NEW w \in Attempts, WriteChunk(w) \/ WriterCloses(w) PROVE History'
  BY <1>11 DEF WriteChunk, WriterCloses, respVars
<1>12. CASE UNCHANGED vars
  BY <1>12 DEF vars, respVars
<1> QED
  BY <1>1, <1>2, <1>3, <1>4, <1>5, <1>6, <1>7, <1>8, <1>9, <1>10, <1>11, <1>12
     DEF Next, Terminated

LEMMA HistoryCorrect == Spec => []History
BY HistoryInit, HistoryStep, ControlCorrect, PTL DEF Spec

LEMMA ContractInit == Init => Contract!Init
BY DEF Init, Contract!Init, Sends, Answer, NoResult

LEMMA ContractStep ==
    ASSUME CustomPolicy = FALSE,
           ControlInv, BodyInv, PolicyInv, PolicyInv', History, [Next]_vars
    PROVE  [Contract!Next]_(Contract!vars)
<1> DEFINE Kept == UNCHANGED <<Sends, ctxDone, ctxDone /\ Sends > cancelAt, Answer>>
<1>1. SUFFICES ASSUME ~Kept
               PROVE  Contract!SendOnce \/ Contract!EndContext \/ Contract!Answer
  BY DEF Contract!Next, Contract!vars
\* Before RoundTrip has finished the contract sees attemptNum sends, no answer.
<1>2. ~Finished => Sends = attemptNum /\ Answer = "none"
  BY DEF Finished, BodyInv, Bodies, NoResult, Sends, Answer
\* A step that gives the answer.
<1>3. ASSUME ~Finished, Finished', UNCHANGED <<ctxDone, cancelAt>>, Sends' = attemptNum,
             Answer' \in {"response", "both", "panic"} => attemptNum >= 1,
             Answer' = "panic" => HasHook /\ ~ctxDone
      PROVE  Contract!Answer
  <2>1. /\ Answer' = "both" => Contract!PairAllowed
        /\ Answer' = "response" => ~ctxDone
    BY <1>3 DEF PolicyInv, Policy, Answer, Contract!PairAllowed
  <2>2. Answer' \in {"response", "both", "panic", "error"}
    BY <1>3 DEF PolicyInv, AlwaysAnAnswer, Answer, Finished
  <2> QED
    BY <1>2, <1>3, <2>1, <2>2 DEF Contract!Answer, ControlInv, TypeOK
\* A verdict.
<1>4. ASSUME NEW v \in Verdicts(response', respErr'), Conclude(v, response', respErr'),
             UNCHANGED <<attemptNum, ctxDone, cancelAt>>, respErr' # GetErr,
             pc \in {"check", "hook"}
      PROVE  Contract!Answer
  <2>1. v.err # GetErr
    BY VerdictType DEF ControlInv, GetErr, NoErr, CtxErr, PolicyErr
  <2>2. CASE pc' = "drain" /\ result' = result
    BY <1>1, <1>2, <1>4, <2>2 DEF Finished, Sends, Answer
  <2>3. CASE pc' = "done" /\ result' = [resp |-> response',
                                        errs |-> {respErr', v.err} \ {NoErr}]
    <3>1. Sends' = attemptNum
      BY <1>4, <2>1, <2>3 DEF Sends
    <3>2. attemptNum >= 1 /\ Answer' # "panic" /\ ~Finished /\ Finished'
      BY <1>4, <2>3 DEF ControlInv, Control, Answer, Finished
    <3> QED
      BY <1>3, <1>4, <3>1, <3>2
  <2> QED
    BY <1>4, <2>2, <2>3, ConcludeFacts
\* A step of RoundTrip that keeps going, of a write loop, or of nobody.
<1>5. UNCHANGED <<attemptNum, result, ctxDone, cancelAt>>
          => \/ pc' # pc /\ (Finished \/ Finished')
             \/ Kept
  BY DEF Sends, Answer, Finished
<1>6. CASE SkipBuffering
  BY <1>1, <1>5, <1>6 DEF SkipBuffering, Finished
<1>7. CASE BufferBody
  <2>1. CASE pc' = "attempt"
    BY <1>1, <1>5, <1>7, <2>1 DEF BufferBody, Return, Finished
  <2>2. CASE Return(NilResp, {ReadErr})
    <3>1. Sends' = attemptNum /\ Answer' = "error" /\ ~Finished /\ Finished'
      BY <1>7, <2>2 DEF BufferBody, Return, Sends, Answer, Finished,
                        ReadErr, GetErr, NoErr
    <3> QED
      BY <1>3, <1>7, <3>1 DEF BufferBody
  <2> QED
    BY <1>7, <2>1, <2>2 DEF BufferBody
<1>8. CASE BeginAttempt
  <2>1. ~Finished /\ attemptNum < Budget /\ (ctxDone => attemptNum <= cancelAt)
    BY <1>8 DEF BeginAttempt, Finished, ControlInv, Control, PolicyInv, Policy
  <2>2. CASE pc' = "send" /\ result' = result
    <3>1. Sends' = attemptNum + 1 /\ Answer' = "none"
      BY <1>2, <1>8, <2>1, <2>2 DEF BeginAttempt, BodyInv, Bodies, NoResult,
                                    Finished, Sends, Answer
    <3>2. attemptNum \in Nat /\ cancelAt \in Nat /\ cancelAt <= attemptNum
      BY DEF ControlInv, TypeOK, History
    <3>3. (ctxDone' /\ Sends' > cancelAt') <=> ctxDone
      BY <1>8, <3>1, <3>2 DEF BeginAttempt
    <3>4. ~(ctxDone /\ Sends > cancelAt)
      BY <1>2, <2>1, <3>2
    <3>5. ctxDone' = ctxDone /\ ctxDone \in BOOLEAN
      BY <1>8 DEF BeginAttempt, ControlInv, TypeOK
    <3> QED
      BY <1>2, <2>1, <3>1, <3>3, <3>4, <3>5 DEF Contract!SendOnce
  <2>3. CASE Return(NilResp, {GetErr})
    <3>1. Sends' = attemptNum /\ Answer' = "error" /\ Finished'
      BY <1>8, <2>3 DEF BeginAttempt, Return, Sends, Answer, Finished, GetErr, NoErr,
                        ControlInv, TypeOK
    <3> QED
      BY <1>3, <1>8, <2>1, <3>1 DEF BeginAttempt
  <2> QED
    BY <1>8, <2>2, <2>3 DEF BeginAttempt
<1>9. CASE TransportReturns
  BY <1>1, <1>5, <1>9 DEF TransportReturns, Finished
<1>10. CASE Check
  <2>1. UNCHANGED <<attemptNum, ctxDone, cancelAt, response, respErr>> /\ pc = "check"
    BY <1>10 DEF Check, respVars
  <2>2. CASE pc' = "hook" /\ result' = result
    BY <1>1, <1>5, <2>1, <2>2 DEF Finished
  <2>3. CASE \E v \in Verdicts(response, respErr) : Conclude(v, response, respErr)
    BY <1>4, <2>1, <2>3 DEF History
  <2> QED
    BY <1>10, <2>2, <2>3 DEF Check
<1>11. CASE Hook
  <2>1. UNCHANGED <<attemptNum, ctxDone, cancelAt>> /\ pc = "hook"
    BY <1>11 DEF Hook
  <2>2. respErr' # GetErr
    BY <1>11 DEF Hook, History, HookLeaves, HookErrs, GetErr, NoErr
  <2>3. CASE pc' = "panic" /\ result' = result
    <3>1. Sends' = attemptNum /\ Answer' = "panic" /\ ~Finished /\ Finished'
      BY <2>1, <2>3 DEF Sends, Answer, Finished, BodyInv, Bodies, NoResult
    <3> QED
      BY <1>3, <1>11, <2>1, <2>3, <3>1 DEF PolicyInv, Policy, ControlInv, Control
  <2>4. CASE \E v \in Verdicts(response', respErr') : Conclude(v, response', respErr')
    BY <1>4, <2>1, <2>2, <2>4
  <2> QED
    BY <1>11, <2>3, <2>4 DEF Hook
<1>12. CASE Drain
  BY <1>1, <1>5, <1>12 DEF Drain, Finished
<1>13. CASE WaitTimer
  BY <1>1, <1>5, <1>13 DEF WaitTimer, Finished
<1>14. CASE WaitCancelled
  <2>1. Sends' = attemptNum /\ Answer' = "error" /\ ~Finished /\ Finished'
    BY <1>14 DEF WaitCancelled, Return, Sends, Answer, Finished, CtxErr, GetErr, NoErr
  <2> QED
    BY <1>3, <1>14, <2>1 DEF WaitCancelled
<1>15. CASE Cancel
  <2>1. ~Finished /\ ~Finished' /\ Sends' = attemptNum /\ Answer' = "none"
    BY <1>15 DEF Cancel, Finished, BodyInv, Bodies, NoResult, Sends, Answer
  <2>2. attemptNum \in Nat /\ ~(Sends' > cancelAt')
    BY <1>15, <2>1 DEF Cancel, ControlInv, TypeOK
  <2> QED
    BY <1>2, <1>15, <2>1, <2>2 DEF Cancel, Contract!EndContext
<1>16. ASSUME NEW w \in Attempts, WriteChunk(w) \/ WriterCloses(w) PROVE FALSE
  BY <1>1, <1>5, <1>16 DEF WriteChunk, WriterCloses
<1>17. CASE UNCHANGED vars
  BY <1>1, <1>5, <1>17 DEF vars
<1> QED
  BY <1>6, <1>7, <1>8, <1>9, <1>10, <1>11, <1>12, <1>13, <1>14, <1>15, <1>16, <1>17
     DEF Next, Terminated

\* With the default policy RoundTrip implements RoundTripContract: bounded sends,
\* one of them at most after the end of the context, none after the one answer.
THEOREM ContractCorrect ==
    ASSUME CustomPolicy = FALSE
    PROVE  Spec => KeepsContract
<1>1. ControlInv /\ BodyInv /\ PolicyInv /\ PolicyInv' /\ History /\ [Next]_vars
         => [Contract!Next]_(Contract!vars)
  BY ContractStep
<1> QED
  BY <1>1, ContractInit, ControlCorrect, BodyCorrect, PolicyCorrect, HistoryCorrect,
     PTL DEF Spec, KeepsContract, Contract!Spec
=============================================================================
