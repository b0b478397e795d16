---------------------------- MODULE RetryPolicy ----------------------------
(***************************************************************************)
(* The retry policies of http_retry_policy.go and the values they judge.   *)
(*                                                                         *)
(* A response is a record naming where it came from (a server, or the      *)
(* caller's RetryErrorFunc), in which attempt, and its status code.  An    *)
(* error is a record with its kind and whether it is (or wraps) a          *)
(* *url.Error, the only thing baseRetryPolicy looks inside.                *)
(***************************************************************************)
EXTENDS Integers

\* The nil response and the nil error.
NilResp == [src |-> "nil", attempt |-> 0, status |-> 0]
NoErr   == [kind |-> "nil", wrapped |-> FALSE]

CtxErr    == [kind |-> "ctx", wrapped |-> FALSE]
PolicyErr == [kind |-> "policy", wrapped |-> FALSE]
ReadErr   == [kind |-> "read", wrapped |-> FALSE]
GetErr    == [kind |-> "getbody", wrapped |-> FALSE]

\* The failures the three regular expressions and the UnknownAuthorityError
\* test of baseRetryPolicy recognise.
PermanentKinds == {"redirect", "scheme", "untrusted"}

\* The other failures an attempt, or the caller's hook, reports.
TransientKinds == {"network", "hook"}

Errors ==
    {NoErr, CtxErr, PolicyErr, ReadErr, GetErr}
        \cup [kind : PermanentKinds \cup TransientKinds, wrapped : BOOLEAN]

\* baseRetryPolicy's first result.  Its second result reaches nobody:
\* DefaultRetryPolicy, the only caller, discards it.
BaseRetryPolicy(resp, err) ==
    IF err # NoErr
    THEN ~(err.wrapped /\ err.kind \in PermanentKinds)
    ELSE \/ resp.status = 429
         \/ resp.status = 0
         \/ resp.status >= 500 /\ resp.status # 501

\* Dereferencing resp is what baseRetryPolicy does first when err is nil.
PolicyDereferencesNil(done, resp, err) ==
    ~done /\ err = NoErr /\ resp = NilResp

\* Mutants: the context is not consulted; a status that cannot be is reported.
PolicyWithoutContext(done, resp, err) ==
    [retry |-> BaseRetryPolicy(resp, err), err |-> NoErr]

PolicyWithStatusError(done, resp, err) ==
    IF done THEN [retry |-> FALSE, err |-> CtxErr]
    ELSE [retry |-> BaseRetryPolicy(resp, err),
          err   |-> IF err = NoErr /\ resp.status = 0 THEN PolicyErr ELSE NoErr]

\* The context is consulted before anything else.
DefaultRetryPolicy(done, resp, err) ==
    IF done
    THEN [retry |-> FALSE, err |-> CtxErr]
    ELSE [retry |-> BaseRetryPolicy(resp, err), err |-> NoErr]

\* What a caller's CheckRetryFunc may answer: anything.
CustomVerdicts == [retry : BOOLEAN, err : {NoErr, PolicyErr}]
=============================================================================
